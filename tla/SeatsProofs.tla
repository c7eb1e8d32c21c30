---------------------------- MODULE SeatsProofs ----------------------------
(***************************************************************************)
(* The capacity of a loca and the shared seat of one human's devices, for  *)
(* any number of sessions, seats and requests.                             *)
(***************************************************************************)
EXTENDS Seats, FiniteSetTheorems, TLAPS

(* The roster is finite and within capacity: inductive by itself. *)
CapacityInv == IsFiniteSet(DOMAIN members) /\ SeatsWithinCapacity

(* Seats that are vacated leave a roster within capacity: leave, moderation *)
(* and delete_room never overfill it.                                       *)
LEMMA VacateKeepsCapacity ==
    ASSUME CapacityInv, NEW S, Vacate(S)
    PROVE  CapacityInv'
<1>1. DOMAIN members' \subseteq DOMAIN members
  BY DEF Vacate
<1>2. /\ IsFiniteSet(DOMAIN members')
      /\ Cardinality(DOMAIN members') <= Cardinality(DOMAIN members)
  BY <1>1, FS_Subset DEF CapacityInv
<1>3. Cardinality(DOMAIN members') \in Nat /\ Cardinality(DOMAIN members) \in Nat
  BY <1>2, FS_CardinalityType DEF CapacityInv
<1> QED
  BY <1>2, <1>3, CapacityAssumption DEF CapacityInv, SeatsWithinCapacity

(* A step that keeps the set of seated identities keeps the invariant. *)
LEMMA SameSeatsKeepCapacity ==
    ASSUME CapacityInv, DOMAIN members' = DOMAIN members
    PROVE  CapacityInv'
  BY DEF CapacityInv, SeatsWithinCapacity

(* join seats a new identity only below capacity. *)
LEMMA JoinKeepsCapacity ==
    ASSUME CapacityInv, NEW c \in Conn, join(c)
    PROVE  CapacityInv'
<1>1. CASE UNCHANGED members
  BY <1>1, SameSeatsKeepCapacity
<1>2. CASE members' = [members EXCEPT ![c.identity].count = @ + 1]
  BY <1>2, SameSeatsKeepCapacity
<1>3. CASE /\ Seated(c.identity)
           /\ Put(c.identity, [name |-> c.name, kind |-> c.kind, count |-> 1])
  <2>1. DOMAIN members' = DOMAIN members
    BY <1>3 DEF Put, Seated
  <2> QED
    BY <2>1, SameSeatsKeepCapacity
<1>4. CASE /\ ~Seated(c.identity) /\ ~Full(c)
           /\ Put(c.identity, [name |-> c.name, kind |-> c.kind, count |-> 1])
  <2>1. DOMAIN members' = DOMAIN members \cup {c.identity}
    BY <1>4 DEF Put
  <2>2. /\ IsFiniteSet(DOMAIN members')
        /\ Cardinality(DOMAIN members') = Cardinality(DOMAIN members) + 1
    BY <1>4, <2>1, FS_AddElement DEF CapacityInv, Seated
  <2>3. Cardinality(DOMAIN members) \in Nat
    BY FS_CardinalityType DEF CapacityInv
  <2>4. Cardinality(DOMAIN members) < Capacity
    BY <1>4, <2>3, CapacityAssumption DEF Full
  <2> QED
    BY <2>2, <2>3, <2>4, CapacityAssumption DEF CapacityInv, SeatsWithinCapacity
<1> QED
  BY <1>1, <1>2, <1>3, <1>4 DEF join

(* leave frees at most one seat. *)
LEMMA LeaveKeepsCapacity ==
    ASSUME CapacityInv, NEW c \in Conn, leave(c)
    PROVE  CapacityInv'
<1>1. CASE Vacate({c.identity})
  BY <1>1, VacateKeepsCapacity
<1>2. CASE members' = [members EXCEPT ![c.identity].count = @ - 1]
  BY <1>2, SameSeatsKeepCapacity
<1>3. CASE UNCHANGED members
  BY <1>3, SameSeatsKeepCapacity
<1> QED
  BY <1>1, <1>2, <1>3 DEF leave

(* Whatever sessions and the operator do, the roster stays within capacity. *)
LEMMA CapacityStep ==
    ASSUME CapacityInv, [Next]_vars
    PROVE  CapacityInv'
<1>1. ASSUME NEW c \in Conn, Connect(c) \/ Session(c) \/ HangUp(c)
      PROVE  CapacityInv'
  <2>1. CASE join(c)
    BY <2>1, JoinKeepsCapacity
  <2>2. CASE leave(c)
    BY <2>2, LeaveKeepsCapacity
  <2>3. CASE ~join(c) /\ ~leave(c)
    <3>1. UNCHANGED members
      BY <1>1, <2>3 DEF Session, Connect, HangUp, subscribe, JoinCheck,
                        ReadFrame, ChannelClosed, seatVars
    <3> QED
      BY <3>1, SameSeatsKeepCapacity
  <2> QED
    BY <2>1, <2>2, <2>3
<1>2. ASSUME Operator
      PROVE  CapacityInv'
  <2>1. CASE moderate \/ DeleteRemove
    BY <2>1, VacateKeepsCapacity DEF moderate, DeleteRemove
  <2>2. CASE ~(moderate \/ DeleteRemove)
    <3>1. UNCHANGED members
      BY <1>2, <2>2 DEF Operator, RequestCheck, create_loca, Archive,
                        DeleteCheck, DeleteFailed, DeleteTombstone
    <3> QED
      BY <3>1, SameSeatsKeepCapacity
  <2> QED
    BY <2>1, <2>2
<1>3. CASE UNCHANGED vars
  BY <1>3, SameSeatsKeepCapacity DEF vars, seatVars
<1> QED
  BY <1>1, <1>2, <1>3 DEF Next

(* A loca never seats more identities than LOCA_KAPASITE, for any set of    *)
(* sessions, any capacity and any interleaving of join, leave, moderation   *)
(* and deletion.                                                            *)
THEOREM CapacityHolds == Spec => []SeatsWithinCapacity
<1>1. Init => CapacityInv
  <2> SUFFICES ASSUME Init PROVE CapacityInv
    OBVIOUS
  <2>1. DOMAIN members = {}
    BY DEF Init
  <2> QED
    BY <2>1, FS_EmptySet, CapacityAssumption DEF CapacityInv, SeatsWithinCapacity
<1>2. CapacityInv /\ [Next]_vars => CapacityInv'
  BY CapacityStep
<1>3. CapacityInv => SeatsWithinCapacity
  BY DEF CapacityInv
<1> QED
  BY <1>1, <1>2, <1>3, PTL DEF Spec

-----------------------------------------------------------------------------
(* The devices of one human *)

(* The operator has not intervened: the room stands and nothing is sealed. *)
Undisturbed == request = NoRequest /\ room.chan # 0 /\ ~room.archived /\ sealing = "no" /\ ~deleted

(* What is on the channels: evictions, none of them of such a human. *)
EvictionOf(c) == Frame("evicted", c.identity, c.name, c.session)
Evictions == {EvictionOf(c) : c \in {d \in Conn : ~OneHuman(d.identity)}}

(* The seat is there while a device is, with the human's label and the number of them. *)
SeatShared(i) ==
    /\ IsFiniteSet(Joined(i))
    /\ Joined(i) = {} => ~Seated(i)
    /\ Joined(i) # {} => /\ Seated(i)
                         /\ \A c \in Conn : c.identity = i =>
                              members[i] = [name |-> c.name, kind |-> "user", count |-> Cardinality(Joined(i))]

ReadersInv ==
    /\ requests \in Nat
    /\ requests = 0 => /\ Undisturbed
                       /\ st \in [Conn -> SessionPoint] /\ inbox \in [Conn -> Seq(Evictions)]
                       /\ \A i \in Identity : OneHuman(i) => SeatShared(i)

(* A session that moves counts, before and after, for its own identity only. *)
LEMMA JoinedOf ==
    ASSUME NEW c \in Conn, NEW p, st \in [Conn -> SessionPoint], st' = [st EXCEPT ![c] = p], NEW i
    PROVE  /\ c.identity # i \/ c.kind = "watch" => Joined(i)' = Joined(i)
           /\ (st[c] \in {"open", "leaving"} <=> p \in {"open", "leaving"}) => Joined(i)' = Joined(i)
           /\ c.identity = i /\ c.kind = "user" =>
                /\ st[c] \notin {"open", "leaving"} /\ p \in {"open", "leaving"} => Joined(i)' = Joined(i) \cup {c} /\ c \notin Joined(i)
                /\ st[c] \in {"open", "leaving"} /\ p \notin {"open", "leaving"} => Joined(i)' = Joined(i) \ {c} /\ c \in Joined(i)
  BY DEF Joined

(* A seat nobody touches stays as it is. *)
LEMMA SeatStays ==
    ASSUME NEW i, SeatShared(i), Joined(i)' = Joined(i), Seated(i)' <=> Seated(i), Seated(i) => members'[i] = members[i]
    PROVE  SeatShared(i)'
  BY DEF SeatShared

(* Steps of a session that leave the roster alone. *)
LEMMA SessionReaders ==
    ASSUME ReadersInv, requests = 0, NEW c \in Conn,
           Connect(c) \/ subscribe(c) \/ JoinCheck(c) \/ ReadFrame(c) \/ ChannelClosed(c) \/ HangUp(c)
    PROVE  ReadersInv'
<1> USE DEF ReadersInv
<1>1. UNCHANGED <<members, deleted, sealing, request, requests, room>>
  BY DEF Connect, subscribe, JoinCheck, ReadFrame, ChannelClosed, HangUp, seatVars, TouchRoom, room_mut, Undisturbed
<1>2. Undisturbed'
  BY <1>1 DEF Undisturbed
<1>3. inbox' \in [Conn -> Seq(Evictions)]
  <2>1. CASE inbox' = inbox
    BY <2>1
  <2>2. CASE Drop(c)
    BY <2>2 DEF Drop
  <2>3. CASE inbox[c] # <<>> /\ inbox' = [inbox EXCEPT ![c] = Tail(@)]
    <3>1. Tail(inbox[c]) \in Seq(Evictions)
      BY <2>3
    <3> QED
      BY <2>3, <3>1
  <2> QED
    BY <2>1, <2>2, <2>3 DEF Connect, subscribe, JoinCheck, ReadFrame, ChannelClosed, HangUp, Break
<1>4. PICK p \in SessionPoint : st' = [st EXCEPT ![c] = p] /\ (OneHuman(c.identity) => (st[c] \in {"open", "leaving"} <=> p \in {"open", "leaving"}))
  <2>1. OneHuman(c.identity) => c.kind = "user"
    BY DEF OneHuman
  <2>2. CASE Connect(c) \/ subscribe(c) \/ JoinCheck(c)
    BY <2>1, <2>2 DEF Connect, subscribe, JoinCheck, Goto, SessionPoint, Undisturbed
  <2>3. CASE ChannelClosed(c) \/ HangUp(c)
    BY <2>1, <2>3 DEF ChannelClosed, HangUp, Break, Goto, SessionPoint
  <2>4. CASE ReadFrame(c)
    <3>1. PICK f \in Evictions : f = Head(inbox[c])
      BY <2>4 DEF ReadFrame
    <3>2. PICK d \in Conn : ~OneHuman(d.identity) /\ f = EvictionOf(d)
      BY <3>1 DEF Evictions
    <3>3. f.k = "evicted" /\ f.identity = d.identity
      BY <3>2 DEF EvictionOf, Frame
    <3>4. ~Kicks(c, f) /\ (OneHuman(c.identity) => ~Evicts(c, f))
      BY <3>2, <3>3 DEF Kicks, Evicts
    <3>5. CASE Evicts(c, f)
      BY <2>4, <3>1, <3>4, <3>5 DEF ReadFrame, Goto, SessionPoint
    <3>6. CASE ~Evicts(c, f)
      BY <2>4, <3>1, <3>4, <3>6 DEF ReadFrame, Goto, SessionPoint
    <3> QED
      BY <3>5, <3>6
  <2> QED
    BY <2>2, <2>3, <2>4
<1>5. ASSUME NEW i \in Identity, OneHuman(i)
      PROVE  SeatShared(i)'
  <2>1. Joined(i)' = Joined(i)
    BY <1>4, <1>5, JoinedOf
  <2> QED
    BY <1>1, <1>5, <2>1, SeatStays DEF Seated
<1> QED
  BY <1>1, <1>2, <1>3, <1>4, <1>5

(* A device joins: the first one takes the seat, the others share it. *)
LEMMA JoinReaders ==
    ASSUME ReadersInv, requests = 0, NEW c \in Conn, join(c)
    PROVE  ReadersInv'
<1> USE DEF ReadersInv
<1>1. UNCHANGED <<deleted, sealing, request, requests, room>> /\ st[c] = "seat"
  BY DEF join, TouchRoom, room_mut, Undisturbed
<1>2. Undisturbed'
  BY <1>1 DEF Undisturbed
<1>3. PICK p \in {"open", "closed"} : st' = [st EXCEPT ![c] = p]
  BY DEF join, Goto
<1>4. st' \in [Conn -> SessionPoint]
  BY <1>3 DEF SessionPoint
<1>5. ASSUME NEW i \in Identity, OneHuman(i), i # c.identity
      PROVE  SeatShared(i)'
  <2>1. Joined(i)' = Joined(i)
    BY <1>3, <1>5, JoinedOf
  <2>2. (Seated(i)' <=> Seated(i)) /\ (Seated(i) => members'[i] = members[i])
    BY <1>5 DEF join, Put, Seated
  <2> QED
    BY <1>5, <2>1, <2>2, SeatStays
<1>6. c.identity \in Identity
  BY DEF Identity
<1>7. ASSUME OneHuman(c.identity)
      PROVE  /\ c.kind = "user" /\ \A d \in Conn : d.identity = c.identity => d.name = c.name
             /\ SeatShared(c.identity) /\ (Seated(c.identity) <=> Joined(c.identity) # {})
             /\ Seated(c.identity) => additional_human_reader(c)
  <2>1. c.kind = "user" /\ \A d \in Conn : d.identity = c.identity => d.name = c.name
    BY <1>7 DEF OneHuman
  <2>2. SeatShared(c.identity) /\ (Seated(c.identity) <=> Joined(c.identity) # {})
    BY <1>6, <1>7 DEF SeatShared
  <2>3. ASSUME Seated(c.identity)
        PROVE  additional_human_reader(c)
    <3>1. members[c.identity] = [name |-> c.name, kind |-> "user", count |-> Cardinality(Joined(c.identity))]
      BY <2>2, <2>3 DEF SeatShared
    <3>2. members[c.identity].name = c.name /\ members[c.identity].kind = "user"
      BY <3>1
    <3> QED
      BY <2>1, <2>3, <3>2 DEF additional_human_reader
  <2> QED
    BY <2>1, <2>2, <2>3
<1>8. inbox' \in [Conn -> Seq(Evictions)]
  <2>1. CASE UNCHANGED inbox
    BY <2>1
  <2>3. CASE Drop(c)
    BY <2>3 DEF Drop
  <2>2. CASE Seated(c.identity) /\ ~additional_human_reader(c) /\ Broadcast(Frame("evicted", c.identity, c.name, c.session))
    <3>1. PICK f \in Evictions : f = Frame("evicted", c.identity, c.name, c.session)
      BY <1>7, <2>2 DEF Evictions, EvictionOf
    <3>2. \A d \in Conn : Append(inbox[d], f) \in Seq(Evictions)
      BY <3>1
    <3> QED
      BY <2>2, <3>1, <3>2 DEF Broadcast
  <2> QED
    BY <2>1, <2>2, <2>3 DEF join
<1>9. ASSUME OneHuman(c.identity)
      PROVE  SeatShared(c.identity)'
  <2> DEFINE i == c.identity
  <2>0. IsFiniteSet(Joined(i)) /\ Cardinality(Joined(i)) \in Nat /\ c \notin Joined(i)
    BY <1>1, <1>7, <1>9, FS_CardinalityType DEF SeatShared, Joined
  <2>1. CASE Full(c) /\ Goto(c, "closed") /\ UNCHANGED members
    <3>1. Joined(i)' = Joined(i)
      BY <1>1, <2>1, JoinedOf DEF Goto
    <3> QED
      BY <1>7, <1>9, <2>1, <3>1, SeatStays DEF Seated
  <2>2. CASE /\ Seated(i) /\ Goto(c, "open") /\ members' = [members EXCEPT ![c.identity].count = @ + 1]
    <3>1. Joined(i)' = Joined(i) \cup {c}
      BY <1>1, <1>7, <1>9, <2>2, JoinedOf DEF Goto
    <3>2. IsFiniteSet(Joined(i)') /\ Cardinality(Joined(i)') = Cardinality(Joined(i)) + 1
      BY <2>0, <3>1, FS_AddElement
    <3>3. members[i] = [name |-> c.name, kind |-> "user", count |-> Cardinality(Joined(i))]
      BY <1>7, <1>9, <2>2 DEF SeatShared
    <3>4. [members[i] EXCEPT !.count = @ + 1] = [name |-> c.name, kind |-> "user", count |-> Cardinality(Joined(i)) + 1]
      BY <3>3
    <3>5. Seated(i)' /\ members'[i] = [members[i] EXCEPT !.count = @ + 1]
      BY <2>2 DEF Seated
    <3>6. members'[i] = [name |-> c.name, kind |-> "user", count |-> Cardinality(Joined(i))']
      BY <3>2, <3>4, <3>5
    <3> QED
      BY <1>7, <1>9, <3>1, <3>2, <3>5, <3>6 DEF SeatShared
  <2>3. CASE ~Seated(i) /\ Goto(c, "open") /\ Put(c.identity, [name |-> c.name, kind |-> c.kind, count |-> 1])
    <3>0. Joined(i) = {}
      BY <1>7, <1>9, <2>3
    <3>1. Joined(i)' = {c}
      <4>1. Joined(i)' = Joined(i) \cup {c}
        BY <1>1, <1>7, <1>9, <2>3, JoinedOf DEF Goto
      <4> QED
        BY <3>0, <4>1
    <3>2. IsFiniteSet(Joined(i)') /\ Cardinality(Joined(i)') = 1
      BY <3>1, FS_Singleton
    <3>3. Seated(i)' /\ members'[i] = [name |-> c.name, kind |-> "user", count |-> 1]
      BY <1>7, <1>9, <2>3 DEF Put, Seated
    <3> QED
      BY <1>7, <1>9, <3>1, <3>2, <3>3 DEF SeatShared
  <2> QED
    BY <1>7, <1>9, <2>1, <2>2, <2>3 DEF join, additional_human_reader
<1> QED
  BY <1>1, <1>2, <1>4, <1>5, <1>8, <1>9

(* A device leaves: the last one frees the seat, and no other. *)
LEMMA LeaveReaders ==
    ASSUME ReadersInv, requests = 0, NEW c \in Conn, leave(c)
    PROVE  ReadersInv'
<1> USE DEF ReadersInv
<1>1. /\ UNCHANGED <<deleted, sealing, request, requests, room, inbox>>
      /\ st[c] = "leaving" /\ st' = [st EXCEPT ![c] = "closed"]
  BY DEF leave, Goto
<1>2. Undisturbed' /\ st' \in [Conn -> SessionPoint]
  BY <1>1 DEF Undisturbed, SessionPoint
<1>3. ASSUME NEW i \in Identity, OneHuman(i), i # c.identity
      PROVE  SeatShared(i)'
  <2>1. Joined(i)' = Joined(i)
    BY <1>1, <1>3, JoinedOf
  <2>2. (Seated(i)' <=> Seated(i)) /\ (Seated(i) => members'[i] = members[i])
    BY <1>3 DEF leave, Vacate, Seated
  <2> QED
    BY <1>3, <2>1, <2>2, SeatStays
<1>4. ASSUME OneHuman(c.identity)
      PROVE  SeatShared(c.identity)'
  <2> DEFINE i == c.identity
  <2>1. c.kind = "user" /\ \A d \in Conn : d.identity = i => d.name = c.name
    BY <1>4 DEF OneHuman
  <2>2. i \in Identity /\ SeatShared(i)
    BY <1>4 DEF Identity
  <2>3. Joined(i)' = Joined(i) \ {c} /\ c \in Joined(i)
    <3>1. st \in [Conn -> SessionPoint] /\ st' = [st EXCEPT ![c] = "closed"]
      BY <1>1
    <3>2. st[c] \in {"open", "leaving"} /\ "closed" \notin {"open", "leaving"}
      BY <1>1
    <3> QED
      BY <2>1, <3>1, <3>2, JoinedOf
  <2>4. Seated(i) /\ members[i] = [name |-> c.name, kind |-> "user", count |-> Cardinality(Joined(i))]
    BY <2>2, <2>3 DEF SeatShared
  <2>5. /\ IsFiniteSet(Joined(i)) /\ Cardinality(Joined(i)) \in Nat /\ Cardinality(Joined(i)') \in Nat
        /\ IsFiniteSet(Joined(i)') /\ Cardinality(Joined(i)') = Cardinality(Joined(i)) - 1
    BY <2>2, <2>3, FS_RemoveElement, FS_CardinalityType DEF SeatShared
  <2>6. room.chan # 0 /\ members[i].count = Cardinality(Joined(i))
    BY <2>4 DEF Undisturbed
  <2>7. CASE Cardinality(Joined(i)) = 1
    <3>1. Joined(i)' = {}
      BY <2>5, <2>7, FS_EmptySet
    <3>2. ~Seated(i)'
      BY <2>4, <2>6, <2>7 DEF leave, Vacate, Seated
    <3> QED
      BY <2>5, <3>1, <3>2 DEF SeatShared
  <2>8. CASE Cardinality(Joined(i)) # 1
    <3>1. members' = [members EXCEPT ![i].count = @ - 1]
      BY <2>4, <2>6, <2>8 DEF leave
    <3>2. [members[i] EXCEPT !.count = @ - 1] = [name |-> c.name, kind |-> "user", count |-> Cardinality(Joined(i)) - 1]
      BY <2>4
    <3>3. Seated(i)' /\ members'[i] = [members[i] EXCEPT !.count = @ - 1]
      BY <2>4, <3>1 DEF Seated
    <3>4. Joined(i)' # {}
      <4>1. Cardinality({}) = 0
        BY FS_EmptySet
      <4>2. Cardinality(Joined(i)') # 0
        BY <2>5, <2>8
      <4> QED
        BY <4>1, <4>2
    <3>5. members'[i] = [name |-> c.name, kind |-> "user", count |-> Cardinality(Joined(i))']
      BY <2>5, <3>2, <3>3
    <3> QED
      BY <2>1, <2>5, <3>3, <3>4, <3>5 DEF SeatShared
  <2> QED
    BY <2>7, <2>8
<1> QED
  BY <1>1, <1>2, <1>3, <1>4

(* The count of a human's seat is exact until the operator intervenes. *)
LEMMA ReadersStep ==
    ASSUME ReadersInv, [Next]_vars
    PROVE  ReadersInv'
<1>1. requests' \in Nat /\ (requests' = 0 => requests = 0)
  <2>1. ASSUME NEW c \in Conn, Connect(c) \/ Session(c) \/ HangUp(c)
        PROVE  requests' = requests
    BY <2>1 DEF Session, Connect, subscribe, JoinCheck, join, ReadFrame, ChannelClosed, HangUp, leave, seatVars
  <2>2. CASE Operator
    <3>1. CASE \E r \in Request : RequestCheck(r)
      BY <3>1 DEF ReadersInv, RequestCheck
    <3>2. CASE requests' = requests
      BY <3>2 DEF ReadersInv
    <3> QED
      BY <2>2, <3>1, <3>2 DEF Operator, moderate, Serve, create_loca, Archive, DeleteCheck, DeleteFailed, DeleteRemove, DeleteTombstone
  <2>3. CASE UNCHANGED vars
    BY <2>3 DEF ReadersInv, vars, seatVars
  <2> QED
    BY <2>1, <2>2, <2>3 DEF Next, ReadersInv
<1> SUFFICES ASSUME requests = 0, requests' = 0 PROVE ReadersInv'
  BY <1>1 DEF ReadersInv
<1>2. CASE \E c \in Conn : Connect(c) \/ Session(c) \/ HangUp(c)
  BY <1>2, SessionReaders, JoinReaders, LeaveReaders DEF Session
<1>3. ~Operator
  <2>1. Undisturbed /\ request \notin Name /\ request \notin {"archive", "create"}
    BY RequestAssumption DEF ReadersInv, Undisturbed, Request
  <2>2. \A r \in Request : ~RequestCheck(r)
    BY DEF RequestCheck, ReadersInv
  <2>3. ~moderate /\ ~create_loca /\ ~Archive
    BY <2>1 DEF moderate, create_loca, Archive
  <2>4. ~DeleteCheck /\ ~DeleteFailed /\ ~DeleteRemove /\ ~DeleteTombstone
    BY <2>1 DEF Undisturbed, DeleteCheck, DeleteFailed, DeleteRemove, DeleteTombstone
  <2> QED
    BY <2>2, <2>3, <2>4 DEF Operator
<1>4. CASE UNCHANGED vars
  BY <1>4 DEF vars, seatVars, sessionVars, ReadersInv, Undisturbed, SeatShared, Joined, Seated
<1> QED
  BY <1>2, <1>3, <1>4 DEF Next

(* The devices of one human share a seat whose count is exactly the number  *)
(* of sessions that joined and have not left, for any number of sessions.   *)
THEOREM ReadersCounted == Spec => []ReadersShareSeat
<1>1. Init => ReadersInv
  <2> SUFFICES ASSUME Init PROVE ReadersInv
    OBVIOUS
  <2>1. \A i : Joined(i) = {} /\ ~Seated(i)
    BY DEF Init, Joined, Seated
  <2>2. \A i : SeatShared(i)
    BY <2>1, FS_EmptySet DEF SeatShared
  <2>3. st \in [Conn -> SessionPoint] /\ inbox \in [Conn -> Seq(Evictions)]
    BY DEF Init, SessionPoint
  <2> QED
    BY <2>2, <2>3 DEF Init, ReadersInv, Undisturbed
<1>2. ReadersInv /\ [Next]_vars => ReadersInv'
  BY ReadersStep
<1>3. ReadersInv => ReadersShareSeat
  <2> SUFFICES ASSUME ReadersInv, requests = 0, NEW i \in Identity, OneHuman(i), Joined(i) # {}
               PROVE  members[i].count = Cardinality(Joined(i))
    BY DEF ReadersShareSeat, ReadersInv, SeatShared
  <2>1. PICK c \in Conn : c.identity = i
    BY DEF Identity
  <2>2. members[i] = [name |-> c.name, kind |-> "user", count |-> Cardinality(Joined(i))]
    BY <2>1 DEF ReadersInv, SeatShared
  <2> QED
    BY <2>2
<1> QED
  BY <1>1, <1>2, <1>3, PTL DEF Spec
=============================================================================
