------------------------------- MODULE Seats -------------------------------
(***************************************************************************)
(* Seats of one loca: the roster of crates/server/src/hub.rs (subscribe,   *)
(* join, leave, the seat part of moderate, delete_room) and the WebSocket  *)
(* sessions of main.rs (ws_session) that take and free them.               *)
(*                                                                         *)
(* A step is one critical section of the `rooms' or `deleted' mutex, or    *)
(* one frame read by a session.  The check of the tombstone and the room   *)
(* update that follows take different locks, so they are different steps.  *)
(* The door (credentials, invites) decides who connects and may end a      *)
(* session at any moment; it is left open.  Frames that do not concern     *)
(* seats are left out.                                                     *)
(***************************************************************************)
EXTENDS Naturals, Sequences, FiniteSets

CONSTANTS
    Conn,        \* sessions, each [session, identity, name, kind]
    Capacity,    \* LOCA_KAPASITE
    MaxRequest,  \* bound: operator requests
    NoRequest

Identity == {c.identity : c \in Conn}
Name == {c.name : c \in Conn}

(* A "user" and an "agent" take a seat; a "watch" session takes none.      *)
Kind == {"user", "agent", "watch"}

ASSUME ConnAssumption ==
    /\ \A c \in Conn : c.kind \in Kind
    /\ \A c, d \in Conn : c.session = d.session => c = d
ASSUME CapacityAssumption == Capacity \in Nat \ {0}

(* Operator requests: moderation of a name, archiving, opening the loca.    *)
Request == Name \cup {"archive", "create"}

ASSUME RequestAssumption ==
    /\ MaxRequest \in Nat
    /\ NoRequest \notin Request
    /\ Name \cap {"archive", "create"} = {}

VARIABLES
    members,     \* the roster: identity |-> [name, kind, count]
    room,        \* the live Room: its broadcast channel (0: none), archived
    opened,      \* broadcast channels created so far
    deleted,     \* the loca is tombstoned
    sealing,     \* where a delete_room call is
    request,     \* the operator request that passed its tombstone check
    requests,    \* requests made so far
    st,          \* where each session is
    chan,        \* the channel it receives from; 0 when it has none
    inbox        \* the frames on that channel it has not read

seatVars == <<members, room, opened, deleted, sealing, request, requests>>
sessionVars == <<st, chan, inbox>>
vars == <<seatVars, sessionVars>>

SessionPoint == {"idle", "subscribe", "join", "seat", "open", "leaving", "closed"}

TypeOK ==
    /\ DOMAIN members \subseteq Identity
    /\ \A i \in DOMAIN members :
          members[i] \in [name: Name, kind: Kind \ {"watch"}, count: Nat \ {0}]
    /\ room \in [chan: Nat, archived: BOOLEAN]
    /\ opened \in Nat /\ room.chan <= opened
    /\ deleted \in BOOLEAN
    /\ sealing \in {"no", "seal", "tombstone", "done"}
    /\ request \in Request \cup {NoRequest}
    /\ requests \in 0..MaxRequest
    /\ st \in [Conn -> SessionPoint]
    /\ chan \in [Conn -> Nat]

Init ==
    /\ members = [i \in {} |-> 0]
    /\ room = [chan |-> 1, archived |-> FALSE]
    /\ opened = 1
    /\ deleted = FALSE
    /\ sealing = "no"
    /\ request = NoRequest
    /\ requests = 0
    /\ st = [c \in Conn |-> "idle"]
    /\ chan = [c \in Conn |-> 0]
    /\ inbox = [c \in Conn |-> <<>>]

-----------------------------------------------------------------------------
(* room_mut: the live room, created on first touch. *)
room_mut ==
    IF room.chan # 0 THEN room ELSE [chan |-> opened + 1, archived |-> FALSE]

TouchRoom ==
    /\ room' = room_mut
    /\ opened' = IF room.chan # 0 THEN opened ELSE opened + 1

Frame(k, identity, name, session) ==
    [k |-> k, identity |-> identity, name |-> name, session |-> session]

(* r.tx.send: every receiver of the room's channel gets the frame.          *)
Broadcast(f) ==
    inbox' = [c \in Conn |-> IF chan[c] # 0 /\ chan[c] = room_mut.chan
                             THEN Append(inbox[c], f) ELSE inbox[c]]

Goto(c, point) == st' = [st EXCEPT ![c] = point]

(* The session's receiver is dropped. *)
Drop(c) == /\ chan' = [chan EXCEPT ![c] = 0]
           /\ inbox' = [inbox EXCEPT ![c] = <<>>]

Put(i, entry) == members' = [j \in DOMAIN members \cup {i} |->
                               IF j = i THEN entry ELSE members[j]]
Vacate(S) == members' = [j \in DOMAIN members \ S |-> members[j]]

-----------------------------------------------------------------------------
(* A session begins: subscribe checks the tombstone first.  A deleted loca  *)
(* gives a closed throwaway channel.                                        *)
Connect(c) ==
    /\ st[c] = "idle"
    /\ Goto(c, IF ~deleted THEN "subscribe"
               ELSE IF c.kind = "watch" THEN "open" ELSE "join")
    /\ UNCHANGED <<seatVars, chan, inbox>>

subscribe(c) ==
    /\ st[c] = "subscribe"
    /\ TouchRoom
    /\ chan' = [chan EXCEPT ![c] = room_mut.chan]
    /\ Goto(c, IF c.kind = "watch" THEN "open" ELSE "join")
    /\ UNCHANGED <<members, deleted, sealing, request, requests, inbox>>

(* join checks the tombstone, then takes the rooms lock. *)
JoinCheck(c) ==
    /\ st[c] = "join"
    /\ IF deleted THEN Goto(c, "closed") /\ Drop(c)
       ELSE Goto(c, "seat") /\ UNCHANGED <<chan, inbox>>
    /\ UNCHANGED seatVars

Seated(i) == i \in DOMAIN members

(* Mutant: one seat too many. *)
FullOffByOne(c) ==
    ~Seated(c.identity) /\ Cardinality(DOMAIN members) > Capacity

Full(c) == ~Seated(c.identity) /\ Cardinality(DOMAIN members) >= Capacity

(* Mutant: every later connection replaces the holder. *)
NeverShares(c) == FALSE

(* The connection is one more reader of a human seat. *)
additional_human_reader(c) ==
    /\ Seated(c.identity)
    /\ members[c.identity].name = c.name
    /\ members[c.identity].kind = "user" /\ c.kind = "user"

join(c) ==
    /\ st[c] = "seat"
    /\ TouchRoom
    /\ \/ /\ Full(c)
          /\ Goto(c, "closed") /\ Drop(c)
          /\ UNCHANGED members
       \/ /\ additional_human_reader(c)
          /\ members' = [members EXCEPT ![c.identity].count = @ + 1]
          /\ Goto(c, "open") /\ UNCHANGED <<chan, inbox>>
       \/ /\ Seated(c.identity) /\ ~additional_human_reader(c)
          /\ Broadcast(Frame("evicted", c.identity, c.name, c.session))
          /\ Put(c.identity, [name |-> c.name, kind |-> c.kind, count |-> 1])
          /\ Goto(c, "open") /\ UNCHANGED chan
       \/ /\ ~Seated(c.identity) /\ ~Full(c)
          /\ Put(c.identity, [name |-> c.name, kind |-> c.kind, count |-> 1])
          /\ Goto(c, "open") /\ UNCHANGED <<chan, inbox>>
    /\ UNCHANGED <<deleted, sealing, request, requests>>

(* A session's loop breaks; a watcher has no seat to leave. *)
Break(c) ==
    /\ Goto(c, IF c.kind = "watch" THEN "closed" ELSE "leaving")
    /\ Drop(c)

(* Mutant: eviction is matched by the label. *)
EvictsByName(c, f) == f.k = "evicted" /\ f.name = c.name /\ f.session # c.session

(* A newer connection took this session's seat. *)
Evicts(c, f) == f.k = "evicted" /\ f.identity = c.identity /\ f.session # c.session

Kicks(c, f) == f.k = "kicked" /\ f.name = c.name

(* The loop reads a frame: an evicted session closes without leave(), a     *)
(* kicked one with it; frames for others are skipped.                       *)
ReadFrame(c) ==
    /\ st[c] = "open" /\ inbox[c] # <<>>
    /\ LET f == Head(inbox[c]) IN
       IF Evicts(c, f) THEN Goto(c, "closed") /\ Drop(c)
       ELSE IF Kicks(c, f) THEN Break(c)
       ELSE /\ inbox' = [inbox EXCEPT ![c] = Tail(@)]
            /\ UNCHANGED <<st, chan>>
    /\ UNCHANGED seatVars

(* The room's channel is gone and every frame on it has been read. *)
ChannelClosed(c) ==
    /\ st[c] = "open" /\ inbox[c] = <<>>
    /\ chan[c] = 0 \/ chan[c] # room.chan
    /\ Break(c)
    /\ UNCHANGED seatVars

(* The session ends for another reason, during its setup or in the loop: a  *)
(* failed send, the client's close, a missed ping, dead credentials, a      *)
(* lagging receiver.  Frames it has not read are lost.                      *)
HangUp(c) ==
    /\ st[c] = "open"
    /\ Break(c)
    /\ UNCHANGED seatVars

leave(c) ==
    /\ st[c] = "leaving"
    /\ IF room.chan # 0 /\ Seated(c.identity)
       THEN IF members[c.identity].count = 1
            THEN Vacate({c.identity})
            ELSE members' = [members EXCEPT ![c.identity].count = @ - 1]
       ELSE UNCHANGED members
    /\ Goto(c, "closed")
    /\ UNCHANGED <<room, opened, deleted, sealing, request, requests, chan, inbox>>

-----------------------------------------------------------------------------
(* The operator. *)

(* moderate (Kick, Ban, Release), set_settings and create_loca check the    *)
(* tombstone before they take the rooms lock.                               *)
RequestCheck(r) ==
    /\ request = NoRequest /\ ~deleted
    /\ requests < MaxRequest /\ requests' = requests + 1
    /\ request' = r
    /\ UNCHANGED <<members, room, opened, deleted, sealing, sessionVars>>

(* The rest of the request, under the rooms lock. *)
Serve ==
    /\ TouchRoom
    /\ request' = NoRequest
    /\ UNCHANGED <<deleted, sealing, requests, st, chan>>

(* Whichever seats wear the label are dropped. *)
moderate ==
    /\ request \in Name
    /\ Serve
    /\ Broadcast(Frame("kicked", "", request, 0))
    /\ Vacate({i \in DOMAIN members : members[i].name = request})

(* An existing room is a Conflict and stays as it is. *)
create_loca ==
    /\ request = "create"
    /\ Serve
    /\ UNCHANGED <<members, inbox>>

(* set_settings with archived = true, which delete_room asks for. *)
Archive ==
    /\ request = "archive"
    /\ room' = [room_mut EXCEPT !.archived = TRUE]
    /\ opened' = IF room.chan # 0 THEN opened ELSE opened + 1
    /\ request' = NoRequest
    /\ UNCHANGED <<members, deleted, sealing, requests, sessionVars>>

DeleteCheck ==
    /\ sealing = "no" /\ room.chan # 0 /\ room.archived
    /\ sealing' = "seal"
    /\ UNCHANGED <<members, room, opened, deleted, request, requests, sessionVars>>

(* store.seal_room fails: DeleteReject::Storage. *)
DeleteFailed ==
    /\ sealing = "seal"
    /\ sealing' = "no"
    /\ UNCHANGED <<members, room, opened, deleted, request, requests, sessionVars>>

(* The room, its roster and its channel go; the tombstone comes after.      *)
DeleteRemove ==
    /\ sealing = "seal"
    /\ room' = [chan |-> 0, archived |-> FALSE]
    /\ Vacate(DOMAIN members)
    /\ sealing' = "tombstone"
    /\ UNCHANGED <<opened, deleted, request, requests, sessionVars>>

DeleteTombstone ==
    /\ sealing = "tombstone"
    /\ deleted' = TRUE
    /\ sealing' = "done"
    /\ UNCHANGED <<members, room, opened, request, requests, sessionVars>>

-----------------------------------------------------------------------------
(* What a session does by itself once it has begun. *)
Session(c) ==
    \/ subscribe(c) \/ JoinCheck(c) \/ join(c)
    \/ ReadFrame(c) \/ ChannelClosed(c) \/ leave(c)

Operator ==
    \/ \E r \in Request : RequestCheck(r)
    \/ moderate \/ create_loca \/ Archive
    \/ DeleteCheck \/ DeleteFailed \/ DeleteRemove \/ DeleteTombstone

Next ==
    \/ \E c \in Conn : Connect(c) \/ Session(c) \/ HangUp(c)
    \/ Operator

Spec == Init /\ [][Next]_vars

(* A session task that can run is polled in the end. *)
FairSpec == Spec /\ \A c \in Conn : WF_vars(Session(c))

-----------------------------------------------------------------------------
(* However many sessions race for the last seat, no more identities sit     *)
(* than the loca has seats: the check and the insertion share one lock, and *)
(* no leave, kick or resurrection of the room opens a second way in (join). *)
SeatsWithinCapacity == Cardinality(DOMAIN members) <= Capacity

(* Sessions that have joined and not yet run leave(). *)
Joined(i) == {c \in Conn : /\ c.identity = i /\ c.kind # "watch"
                           /\ st[c] \in {"open", "leaving"}}

(* Every session of the identity is the same human. *)
OneHuman(i) == \A c, d \in Conn : c.identity = i /\ d.identity = i =>
                   c.kind = "user" /\ c.name = d.name

(* The devices of one human share a seat by reference count: the count is   *)
(* the number of sessions that joined and have not left, so the seat is     *)
(* freed by the last one and by no other, as long as the operator has not   *)
(* intervened (join, leave).                                                *)
ReadersShareSeat ==
    requests = 0 => \A i \in Identity : OneHuman(i) =>
        IF Joined(i) = {} THEN ~Seated(i)
        ELSE Seated(i) /\ members[i].count = Cardinality(Joined(i))

(* A newer connection on its identity has told this session to go. *)
ToldToGo(c) == \E n \in 1..Len(inbox[c]) : LET f == inbox[c][n] IN
    f.k = "evicted" /\ f.identity = c.identity /\ f.session # c.session

(* A session whose seat a newer connection has taken ends, whatever label   *)
(* the newer one wears: no ghost keeps listening (ws_session).              *)
EvictedSessionEnds ==
    \A c \in Conn : st[c] = "open" /\ ToldToGo(c) ~> st[c] = "closed"

(* A tombstoned loca is not brought back by a session or by the operator    *)
(* (subscribe, join, moderate).                                             *)
DeletedStaysDeleted == deleted => room.chan = 0
=============================================================================
