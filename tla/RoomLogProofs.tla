--------------------------- MODULE RoomLogProofs ---------------------------
(***************************************************************************)
(* The log of a loca, the home or another, keeps its promise, for any      *)
(* senders, operations, requests in flight, failing writes and restarts.   *)
(*                                                                         *)
(* Every step has one of seven effects on the rows and their hot copy.  The  *)
(* invariant and the refinement are proved of the effects.                 *)
(***************************************************************************)
EXTENDS RoomLog, SequenceTheorems, TLAPS

-----------------------------------------------------------------------------
(* The inductive invariant *)

HotRoom ==
    [present : BOOLEAN, history : Seq(Message), ops : Seq(Message), state : RoomState, muted : SUBSET Person,
     banned : SUBSET Person, recent : [Person -> Nat], spoke : BOOLEAN]

RoomRows ==
    [msgs : Seq(Message), row : BOOLEAN, state : RoomState, sealed : BOOLEAN, muted : SUBSET Person,
     banned : SUBSET Person]

RequestState ==
    [at : {"idle", "delete", "remove", "bury"}]
      \cup [at : {"post"}, who : Person, op : OpId \cup {NoOp}]
      \cup [at : {"mode"}, to : Mode]
      \cup [at : {"lead"}, to : Person \cup {Nobody}]
      \cup [at : {"settings"}, field : {"archived", "live"}, to : BOOLEAN]
      \cup [at : {"moderate"}, act : ModAction, who : Person]

RoomTyped ==
    /\ mem \in HotRoom /\ Len(mem.ops) <= HistoryLimit
    /\ db \in RoomRows
    /\ nextId \in 1..(MaxId + 1)
    /\ req \in [Request -> RequestState]
    /\ sent \subseteq Message
    /\ answers \subseteq (Person \X OpId \X Message)

(* Only a request that has sealed the rows drops the room. *)
SealedFirst == \A q \in Request : req[q].at \in {"remove", "bury"} => db.sealed

(* The archive is in id order and below the next id, one message per operation. *)
Ordered(s) == \A i, j \in 1..Len(s) : i < j => s[i].id < s[j].id
Below(s, n) == \A i \in 1..Len(s) : s[i].id < n
OneRowPerOp(s) ==
    \A i, j \in 1..Len(s) : s[i].op # NoOp /\ s[i].sender = s[j].sender /\ s[i].op = s[j].op => i = j

(* What was said or answered, and what the mirror would answer, is archived; *)
(* only an announced join request may be missing.                            *)
Backed ==
    /\ \A m \in sent : m \in ToSet(db.msgs) \/ m.sender = JoinNews
    /\ ToSet(mem.ops) \subseteq ToSet(db.msgs)
    /\ \A a \in answers : a[3] \in ToSet(db.msgs) /\ a[1] = a[3].sender /\ a[2] = a[3].op

(* s is the end of t. *)
EndOf(s, t) ==
    /\ Len(s) <= Len(t)
    /\ \A i \in 1..Len(s) : s[i] = t[Len(t) - Len(s) + i]

Matches(r, d) ==
    /\ d.row => r.state = d.state
    /\ ~d.row => r.state \in {DefaultState, BuiltinState}
    /\ ShowsTailOf(r.history, d.msgs)

(* A loca that is not in memory is a loca without rows. *)
HotMatches ==
    ~db.sealed =>
      /\ mem.present => Matches(mem, db)
      /\ ~mem.present => ~db.row /\ Len(db.msgs) = 0

RoomInv ==
    /\ RoomTyped /\ SealedFirst
    /\ Ordered(db.msgs) /\ Below(db.msgs, nextId) /\ OneRowPerOp(db.msgs)
    /\ Backed /\ HotMatches /\ Below(mem.history, nextId)

-----------------------------------------------------------------------------
(* Sequences *)

(* The elements of a sequence after an append. *)
LEMMA AppendElements ==
    ASSUME NEW S, NEW s \in Seq(S), NEW m \in S
    PROVE  /\ Append(s, m) \in Seq(S) /\ Len(Append(s, m)) = Len(s) + 1 /\ Len(s) \in Nat
           /\ \A i \in 1..Len(s) : Append(s, m)[i] = s[i]
           /\ Append(s, m)[Len(s) + 1] = m
           /\ ToSet(Append(s, m)) = ToSet(s) \cup {m}
<1>1. /\ Append(s, m) \in Seq(S) /\ Len(Append(s, m)) = Len(s) + 1 /\ Len(s) \in Nat
      /\ \A i \in 1..Len(s) : Append(s, m)[i] = s[i]
      /\ Append(s, m)[Len(s) + 1] = m
  BY AppendProperties, LenProperties
<1>2. DOMAIN Append(s, m) = 1..(Len(s) + 1) /\ DOMAIN s = 1..Len(s)
  BY <1>1, LenProperties
<1>3. \A i \in 1..(Len(s) + 1) : i \in 1..Len(s) \/ i = Len(s) + 1
  BY <1>1
<1>4. ToSet(Append(s, m)) = ToSet(s) \cup {m}
  BY <1>1, <1>2, <1>3 DEF ToSet
<1> QED
  BY <1>1, <1>4

(* The last n entries of a sequence are its end, n of them or all. *)
LEMMA LastOfEnd ==
    ASSUME NEW S, NEW s \in Seq(S), NEW n \in Nat
    PROVE  /\ LastOf(s, n) \in Seq(S) /\ Len(LastOf(s, n)) <= n
           /\ EndOf(LastOf(s, n), s)
           /\ n # 0 /\ Len(s) # 0 => Len(LastOf(s, n)) # 0
           /\ ToSet(LastOf(s, n)) \subseteq ToSet(s)
<1>1. Len(s) \in Nat /\ DOMAIN s = 1..Len(s)
  BY LenProperties
<1>2. CASE Len(s) <= n
  <2>1. LastOf(s, n) = s
    BY <1>2 DEF LastOf
  <2> QED
    BY <1>1, <1>2, <2>1 DEF EndOf
<1>3. CASE Len(s) > n
  <2> DEFINE a == Len(s) - n + 1
             t == SubSeq(s, a, Len(s))
  <2>1. LastOf(s, n) = t
    BY <1>1, <1>3 DEF LastOf
  <2>2. a \in 1..(Len(s) + 1) /\ \A i \in a..Len(s) : s[i] \in S
    BY <1>1, <1>3, ElementOfSeq
  <2>3. /\ t \in Seq(S) /\ Len(t) = n
        /\ \A i \in 1..n : t[i] = s[Len(s) - n + i]
    BY <1>1, <1>3, <2>2, SubSeqProperties
  <2>4. DOMAIN t = 1..n
    BY <2>3, LenProperties
  <2>5. ToSet(t) \subseteq ToSet(s)
    BY <1>1, <1>3, <2>3, <2>4 DEF ToSet
  <2> HIDE DEF t
  <2>6. Len(t) <= Len(s) /\ \A i \in 1..Len(t) : t[i] = s[Len(s) - Len(t) + i]
    BY <1>1, <1>3, <2>3
  <2>7. EndOf(t, s)
    BY <2>6 DEF EndOf
  <2>8. Len(t) <= n /\ (n # 0 => Len(t) # 0)
    BY <2>3
  <2> QED
    BY <2>1, <2>3, <2>5, <2>7, <2>8
<1> QED
  BY <1>1, <1>2, <1>3

(* The ids of messages are numbers. *)
LEMMA MessageIds ==
    ASSUME NEW s \in Seq(Message)
    PROVE  \A i \in 1..Len(s) : s[i].id \in Nat
<1> SUFFICES ASSUME NEW i \in 1..Len(s) PROVE s[i].id \in Nat
  OBVIOUS
<1>1. s[i] \in Message
  BY ElementOfSeq
<1> QED
  BY <1>1 DEF Message

(* A message is shown and archived. *)
LEMMA ShowsAppend ==
    ASSUME NEW h \in Seq(Message), NEW s \in Seq(Message), NEW m \in Message, ShowsTailOf(h, s),
           Below(h, m.id), Below(s, m.id)
    PROVE  ShowsTailOf(Append(h, m), Append(s, m))
<1> DEFINE a == Append(h, m)
           b == Append(s, m)
<1>1. /\ Len(a) = Len(h) + 1 /\ Len(b) = Len(s) + 1 /\ Len(h) \in Nat /\ Len(s) \in Nat
      /\ \A i \in 1..Len(h) : a[i] = h[i]
      /\ a[Len(h) + 1] = m /\ b[Len(s) + 1] = m
      /\ ToSet(a) = ToSet(h) \cup {m} /\ ToSet(b) = ToSet(s) \cup {m}
      /\ a \in Seq(Message) /\ b \in Seq(Message)
  BY AppendElements
<1>2. \A i \in 1..(Len(h) + 1) : i \in 1..Len(h) \/ i = Len(h) + 1
  BY <1>1
<1>3. \A i \in 1..Len(h) : h[i].id < m.id
  BY DEF Below
<1> HIDE DEF a, b
<1>4. \A i, j \in 1..Len(a) : i < j => a[i].id < a[j].id
  <2> SUFFICES ASSUME NEW i \in 1..(Len(h) + 1), NEW j \in 1..(Len(h) + 1), i < j PROVE a[i].id < a[j].id
    BY <1>1
  <2>1. i \in 1..Len(h)
    BY <1>1
  <2>2. CASE j = Len(h) + 1
    BY <1>1, <1>3, <2>1, <2>2
  <2>3. CASE j \in 1..Len(h)
    <3>1. h[i].id < h[j].id
      BY <2>1, <2>3 DEF ShowsTailOf
    <3> QED
      BY <1>1, <2>1, <2>3, <3>1
  <2> QED
    BY <1>2, <2>2, <2>3
<1>5. \A i \in 1..Len(a) : a[i] \in ToSet(b) \/ a[i].sender = JoinNews
  BY <1>1, <1>2 DEF ShowsTailOf
<1>6. ASSUME NEW x \in ToSet(b), a # <<>>, a[1].id <= x.id PROVE x \in ToSet(a)
  <2>1. CASE x = m
    BY <1>1, <2>1
  <2>2. CASE x \in ToSet(s)
    <3>1. s # <<>>
      BY <2>2, EmptySeq DEF ToSet
    <3>2. h # <<>>
      BY <3>1, EmptySeq DEF ShowsTailOf, ToSet
    <3>3. 1 \in 1..Len(h)
      BY <1>1, <3>2, EmptySeq
    <3> QED
      BY <1>1, <1>6, <2>2, <3>2, <3>3 DEF ShowsTailOf
  <2> QED
    BY <1>1, <2>1, <2>2
<1>7. Last(b) \in ToSet(a)
  BY <1>1 DEF Last
<1>8. ShowsTailOf(a, b)
  BY <1>4, <1>5, <1>6, <1>7 DEF ShowsTailOf
<1> QED
  BY <1>8 DEF a, b

(* A join request is shown and not archived. *)
LEMMA ShowsNews ==
    ASSUME NEW h \in Seq(Message), NEW s \in Seq(Message), NEW m \in Message, ShowsTailOf(h, s),
           Below(h, m.id), m.sender = JoinNews
    PROVE  ShowsTailOf(Append(h, m), s)
<1> DEFINE a == Append(h, m)
<1>1. /\ Len(a) = Len(h) + 1 /\ Len(h) \in Nat
      /\ \A i \in 1..Len(h) : a[i] = h[i]
      /\ a[Len(h) + 1] = m /\ ToSet(a) = ToSet(h) \cup {m} /\ a \in Seq(Message)
  BY AppendElements
<1>2. \A i \in 1..(Len(h) + 1) : i \in 1..Len(h) \/ i = Len(h) + 1
  BY <1>1
<1>3. \A i \in 1..Len(h) : h[i].id < m.id
  BY DEF Below
<1> HIDE DEF a
<1>4. \A i, j \in 1..Len(a) : i < j => a[i].id < a[j].id
  <2> SUFFICES ASSUME NEW i \in 1..(Len(h) + 1), NEW j \in 1..(Len(h) + 1), i < j PROVE a[i].id < a[j].id
    BY <1>1
  <2>1. i \in 1..Len(h)
    BY <1>1
  <2>2. CASE j = Len(h) + 1
    BY <1>1, <1>3, <2>1, <2>2
  <2>3. CASE j \in 1..Len(h)
    <3>1. h[i].id < h[j].id
      BY <2>1, <2>3 DEF ShowsTailOf
    <3> QED
      BY <1>1, <2>1, <2>3, <3>1
  <2> QED
    BY <1>2, <2>2, <2>3
<1>5. \A i \in 1..Len(a) : a[i] \in ToSet(s) \/ a[i].sender = JoinNews
  BY <1>1, <1>2 DEF ShowsTailOf
<1>6. ASSUME NEW x \in ToSet(s), a # <<>>, a[1].id <= x.id PROVE x \in ToSet(a)
  <2>1. s # <<>>
    BY EmptySeq DEF ToSet
  <2>2. h # <<>>
    BY <2>1, EmptySeq DEF ShowsTailOf, ToSet
  <2>3. 1 \in 1..Len(h)
    BY <1>1, <2>2, EmptySeq
  <2> QED
    BY <1>1, <1>6, <2>2, <2>3 DEF ShowsTailOf
<1>7. s # <<>> => Last(s) \in ToSet(a)
  BY <1>1 DEF ShowsTailOf
<1>8. ShowsTailOf(a, s)
  BY <1>4, <1>5, <1>6, <1>7 DEF ShowsTailOf
<1> QED
  BY <1>8 DEF a

(* What ends with the archive's last message may be cut at the front. *)
LEMMA ShowsEnd ==
    ASSUME NEW h \in Seq(Message), NEW s \in Seq(Message), ShowsTailOf(h, s), NEW n \in Nat \ {0},
           s # <<>> => Last(h) = Last(s)
    PROVE  ShowsTailOf(LastOf(h, n), s)
<1> DEFINE t == LastOf(h, n)
<1>1. /\ t \in Seq(Message) /\ EndOf(t, h) /\ (Len(h) # 0 => Len(t) # 0)
  BY LastOfEnd
<1> HIDE DEF t
<1> DEFINE d == Len(h) - Len(t)
<1>2. /\ Len(h) \in Nat /\ Len(t) \in Nat /\ d \in Nat /\ Len(h) = d + Len(t)
      /\ DOMAIN h = 1..Len(h) /\ DOMAIN t = 1..Len(t)
      /\ \A i \in 1..Len(h) : h[i].id \in Nat
  <2>1. Len(h) \in Nat /\ Len(t) \in Nat /\ DOMAIN h = 1..Len(h) /\ DOMAIN t = 1..Len(t) /\ Len(t) <= Len(h)
    BY <1>1, LenProperties DEF EndOf
  <2>2. \A i \in 1..Len(h) : h[i].id \in Nat
    BY MessageIds
  <2> QED
    BY <2>1, <2>2
<1>3. \A i \in 1..Len(t) : d + i \in 1..Len(h) /\ t[i] = h[d + i]
  BY <1>1, <1>2 DEF EndOf
<1> HIDE DEF d
<1>4. ASSUME NEW i \in 1..Len(t), NEW j \in 1..Len(t), i < j PROVE t[i].id < t[j].id
  <2>1. d + i \in 1..Len(h) /\ d + j \in 1..Len(h) /\ d + i < d + j
    BY <1>2, <1>3, <1>4
  <2>2. h[d + i].id < h[d + j].id
    BY <2>1 DEF ShowsTailOf
  <2> QED
    BY <1>3, <2>2
<1>5. \A i \in 1..Len(t) : t[i] \in ToSet(s) \/ t[i].sender = JoinNews
  BY <1>3 DEF ShowsTailOf
<1>6. ASSUME NEW x \in ToSet(s), t # <<>>, t[1].id <= x.id PROVE x \in ToSet(t)
  <2>1. 1 \in 1..Len(t) /\ h # <<>> /\ d + 1 \in 1..Len(h) /\ 1 \in 1..Len(h) /\ t[1] = h[d + 1]
    <3>1. 1 \in 1..Len(t)
      BY <1>1, <1>2, <1>6, EmptySeq
    <3>2. d + 1 \in 1..Len(h) /\ t[1] = h[d + 1]
      BY <1>3, <3>1
    <3>3. Len(h) # 0 /\ 1 \in 1..Len(h)
      BY <1>2, <3>2
    <3> QED
      BY <3>1, <3>2, <3>3, EmptySeq
  <2>2. x.id \in Nat /\ h[1].id \in Nat /\ h[d + 1].id \in Nat
    <3>1. x \in Message
      BY LenProperties, ElementOfSeq DEF ToSet
    <3> QED
      BY <1>2, <2>1, <3>1 DEF Message
  <2>3. h[1].id <= h[d + 1].id
    <3>1. CASE d = 0
      BY <1>2, <2>1, <2>2, <3>1
    <3>2. CASE d # 0
      <4>1. 1 < d + 1
        BY <1>2, <3>2
      <4>2. h[1].id < h[d + 1].id
        BY <2>1, <4>1 DEF ShowsTailOf
      <4> QED
        BY <2>2, <4>2
    <3> QED
      BY <3>1, <3>2
  <2>4. h[1].id <= x.id
    BY <1>6, <2>1, <2>2, <2>3
  <2>5. PICK k \in 1..Len(h) : x = h[k]
    BY <1>2, <2>1, <2>4 DEF ShowsTailOf, ToSet
  <2>6. ~(k < d + 1)
    <3>1. k < d + 1 => h[k].id < h[d + 1].id
      BY <2>1 DEF ShowsTailOf
    <3> QED
      BY <1>6, <2>1, <2>2, <2>5, <3>1
  <2>7. k - d \in 1..Len(t) /\ d + (k - d) = k
    BY <1>2, <2>6
  <2>8. t[k - d] = x
    BY <1>3, <2>5, <2>7
  <2> QED
    BY <1>2, <2>7, <2>8 DEF ToSet
<1>7. ASSUME s # <<>> PROVE Last(s) \in ToSet(t)
  <2>1. h # <<>>
    BY <1>7, EmptySeq DEF ShowsTailOf, ToSet
  <2>2. Len(t) \in 1..Len(t)
    BY <1>1, <1>2, <2>1, EmptySeq
  <2>3. t[Len(t)] = h[Len(h)]
    BY <1>2, <1>3, <2>2
  <2> QED
    BY <1>2, <1>7, <2>2, <2>3 DEF Last, ToSet
<1>8. ShowsTailOf(t, s)
  BY <1>4, <1>5, <1>6, <1>7 DEF ShowsTailOf
<1> QED
  BY <1>8 DEF t

(* What is below a bound stays below it when it is cut, and when it grows by the *)
(* bound and the bound by one.                                                   *)
LEMMA BelowEnd ==
    ASSUME NEW s \in Seq(Message), NEW n \in Nat, NEW b, Below(s, b)
    PROVE  Below(LastOf(s, n), b)
<1> DEFINE t == LastOf(s, n)
<1>1. t \in Seq(Message) /\ EndOf(t, s)
  BY LastOfEnd
<1>2. Len(t) \in Nat /\ Len(s) \in Nat
  BY <1>1, LenProperties
<1> HIDE DEF t
<1>3. \A i \in 1..Len(t) : t[i] = s[Len(s) - Len(t) + i] /\ Len(s) - Len(t) + i \in 1..Len(s)
  BY <1>1, <1>2 DEF EndOf
<1>4. Below(t, b)
  BY <1>3 DEF Below
<1> QED
  BY <1>4 DEF t

(* The bound grows with the sequence. *)
LEMMA BelowAppend ==
    ASSUME NEW s \in Seq(Message), NEW m \in Message, Below(s, m.id)
    PROVE  Below(Append(s, m), m.id + 1)
<1>1. /\ Len(Append(s, m)) = Len(s) + 1 /\ Len(s) \in Nat
      /\ \A i \in 1..Len(s) : Append(s, m)[i] = s[i]
      /\ Append(s, m)[Len(s) + 1] = m
  BY AppendElements
<1>2. m.id \in Nat /\ \A i \in 1..Len(s) : s[i].id \in Nat /\ s[i].id < m.id
  <2>1. m.id \in Nat
    BY DEF Message
  <2>2. \A i \in 1..Len(s) : s[i].id \in Nat
    BY MessageIds
  <2> QED
    BY <2>1, <2>2 DEF Below
<1> DEFINE a == Append(s, m)
<1>3. \A i \in 1..(Len(s) + 1) : (i \in 1..Len(s) /\ a[i] = s[i]) \/ a[i] = m
  BY <1>1
<1>4. Len(a) = Len(s) + 1
  BY <1>1
<1> HIDE DEF a
<1>5. \A i \in 1..Len(a) : a[i].id < m.id + 1
  BY <1>2, <1>3, <1>4
<1>6. Below(a, m.id + 1)
  BY <1>5 DEF Below
<1> QED
  BY <1>6 DEF a

-----------------------------------------------------------------------------
(* The effects of a step *)

Core(r) == <<r.present, r.history, r.ops, r.state>>
Rows(d) == <<d.msgs, d.row, d.state, d.sealed>>

(* Nothing that lasts, but maybe an answer that names an archived message. *)
Aside ==
    /\ mem' \in HotRoom /\ (Core(mem') = Core(mem) \/ Core(mem') = Core(RoomMut))
    /\ db' \in RoomRows /\ Rows(db') = Rows(db)
    /\ sent' = sent /\ nextId' \in nextId..(MaxId + 1)
    /\ \/ answers' = answers
       \/ \E m \in ToSet(db.msgs) : m.op # NoOp /\ m.sender \in Person /\ answers' = answers \cup {<<m.sender, m.op, m>>}

(* The room's state, in the rows and in memory. *)
Writes ==
    /\ ~db.sealed
    /\ mem' \in HotRoom /\ mem'.present /\ mem'.history = RoomMut.history /\ mem'.ops = RoomMut.ops
    /\ db' \in RoomRows /\ db'.state = mem'.state /\ db'.row /\ db'.msgs = db.msgs /\ ~db'.sealed
    /\ UNCHANGED <<nextId, sent, answers>>

(* A message, maybe with a change of state. *)
Records(m) ==
    /\ ~db.sealed /\ m.id = nextId /\ nextId <= MaxId /\ nextId' = nextId + 1
    /\ m.op # NoOp => m.sender \in Person /\ MessageByOperation(m.sender, m.op) = {}
    /\ mem' \in HotRoom /\ mem'.present
    /\ db' \in RoomRows /\ ~db'.sealed /\ db'.msgs = Append(db.msgs, m)
    /\ db'.row => db'.state = mem'.state
    /\ ~db'.row => ~db.row /\ mem'.state = RoomMut.state
    /\ mem'.history \in {Append(RoomMut.history, m), LastOf(Append(RoomMut.history, m), HistoryLimit)}
    /\ mem'.ops \in {RoomMut.ops, LastOf(Append(RoomMut.ops, m), HistoryLimit)}
    /\ sent' = sent \cup {m}
    /\ answers' = IF m.op = NoOp THEN answers ELSE answers \cup {<<m.sender, m.op, m>>}

(* A join request that is shown and not saved. *)
Tells(m) ==
    /\ m.sender = JoinNews /\ m.id = nextId /\ nextId <= MaxId /\ nextId' = nextId + 1
    /\ mem' \in HotRoom /\ mem'.present /\ mem'.state = RoomMut.state /\ mem'.ops = RoomMut.ops
    /\ mem'.history = Append(RoomMut.history, m)
    /\ sent' = sent \cup {m}
    /\ UNCHANGED <<db, answers>>

(* The seal, which changes no message and no state. *)
Seals ==
    /\ db' \in RoomRows /\ db'.sealed /\ db'.msgs = db.msgs /\ db'.state = db.state
    /\ UNCHANGED <<mem, nextId, sent, answers>>

(* A sealed room leaves the memory. *)
Drops ==
    /\ db.sealed /\ mem' = NoRoom
    /\ UNCHANGED <<db, nextId, sent, answers>>

(* What a handler may find of itself after a step. *)
RequestsMove ==
    /\ req' \in [Request -> RequestState]
    /\ SealedFirst'

(* The rest of the invariant, without the requests. *)
LogTyped ==
    /\ mem \in HotRoom /\ Len(mem.ops) <= HistoryLimit
    /\ db \in RoomRows
    /\ nextId \in 1..(MaxId + 1)
    /\ sent \subseteq Message
    /\ answers \subseteq (Person \X OpId \X Message)

LogInv ==
    /\ LogTyped
    /\ Ordered(db.msgs) /\ Below(db.msgs, nextId) /\ OneRowPerOp(db.msgs)
    /\ Backed /\ HotMatches /\ Below(mem.history, nextId)

(* What the archive holds are messages. *)
LEMMA ArchivedMessage ==
    ASSUME LogInv
    PROVE  /\ db.msgs \in Seq(Message) /\ Len(db.msgs) \in Nat /\ DOMAIN db.msgs = 1..Len(db.msgs)
           /\ \A i \in 1..Len(db.msgs) : db.msgs[i] \in Message
           /\ ToSet(db.msgs) \subseteq Message
<1>1. db.msgs \in Seq(Message)
  BY DEF LogInv, LogTyped, RoomRows
<1>2. /\ Len(db.msgs) \in Nat /\ DOMAIN db.msgs = 1..Len(db.msgs)
      /\ \A i \in 1..Len(db.msgs) : db.msgs[i] \in Message
  BY <1>1, LenProperties, ElementOfSeq
<1> QED
  BY <1>1, <1>2 DEF ToSet

(* No room is the empty room, marked as absent. *)
LEMMA NoRoomFacts ==
    /\ DefaultState \in RoomState /\ BuiltinState \in RoomState
    /\ EmptyRoom \in HotRoom /\ EmptyRoom.present /\ EmptyRoom.history = <<>> /\ EmptyRoom.ops = <<>>
    /\ EmptyRoom.state = DefaultState
    /\ NoRoom \in HotRoom /\ ~NoRoom.present /\ NoRoom.history = <<>> /\ NoRoom.ops = <<>>
    /\ NoRoom.state = DefaultState
    /\ Unrecorded \in {EmptyRoom, NoRoom}
    /\ ShowsTailOf(<<>>, <<>>) /\ \A n : Below(<<>>, n)
    /\ <<>> \in Seq(Message) /\ Len(<<>>) = 0 /\ ToSet(<<>>) = {} /\ Len(<<>>) <= HistoryLimit
<1>1. DefaultState \in RoomState /\ BuiltinState \in RoomState
  <2>1. [kind |-> "free", turn |-> 0] \in HeldMode
    BY DEF HeldMode, Mode
  <2>2. DefaultState \in RoomState
    BY <2>1 DEF DefaultState, RoomState
  <2> QED
    BY <2>2 DEF BuiltinState, RoomState
<1>2. [p \in Person |-> 0] \in [Person -> Nat]
  OBVIOUS
<1>3. <<>> \in Seq(Message) /\ Len(<<>>) = 0 /\ ToSet(<<>>) = {}
  BY EmptySeq DEF ToSet
<1>4. EmptyRoom \in HotRoom
  BY <1>1, <1>2, <1>3 DEF EmptyRoom, HotRoom
<1>5. /\ EmptyRoom.present /\ EmptyRoom.history = <<>> /\ EmptyRoom.ops = <<>> /\ EmptyRoom.state = DefaultState
  BY DEF EmptyRoom
<1>6. NoRoom \in HotRoom /\ ~NoRoom.present
  BY <1>4 DEF NoRoom, HotRoom
<1>7. NoRoom.history = EmptyRoom.history /\ NoRoom.ops = EmptyRoom.ops /\ NoRoom.state = EmptyRoom.state
  BY <1>4 DEF NoRoom, HotRoom
<1>8. Len(<<>>) <= HistoryLimit
  BY <1>3, RoomLogAssumption
<1>9. ShowsTailOf(<<>>, <<>>) /\ \A n : Below(<<>>, n)
  BY <1>3 DEF ShowsTailOf, Below
<1>10. Unrecorded \in {EmptyRoom, NoRoom}
  BY DEF Unrecorded
<1> QED
  BY <1>1, <1>3, <1>4, <1>5, <1>6, <1>7, <1>8, <1>9, <1>10

(* The room a handler works on: the one in memory or a new one. *)
LEMMA RoomMutFacts ==
    ASSUME LogInv
    PROVE  /\ RoomMut \in HotRoom /\ RoomMut.present /\ Len(RoomMut.ops) <= HistoryLimit
           /\ ToSet(RoomMut.ops) \subseteq ToSet(db.msgs)
           /\ Below(RoomMut.history, nextId)
           /\ ~db.sealed => Matches(RoomMut, db)
<1>1. CASE mem.present
  BY <1>1 DEF RoomMut, LogInv, LogTyped, Backed, HotMatches
<1>2. CASE ~mem.present
  <2>1. RoomMut = EmptyRoom
    BY <1>2 DEF RoomMut
  <2>2. ~db.sealed => Matches(RoomMut, db)
    <3>1. ~db.sealed => ~db.row /\ db.msgs = <<>>
      BY <1>2, EmptySeq DEF LogInv, HotMatches, LogTyped, RoomRows
    <3> QED
      BY <2>1, <3>1, NoRoomFacts DEF Matches
  <2> QED
    BY <2>1, <2>2, NoRoomFacts
<1> QED
  BY <1>1, <1>2

(* A step aside keeps the invariant. *)
LEMMA AsideKeeps ==
    ASSUME LogInv, Aside
    PROVE  LogInv'
<1>1. /\ db'.msgs = db.msgs /\ db'.row = db.row /\ db'.state = db.state /\ db'.sealed = db.sealed
  BY DEF Aside, Rows
<1>2. \/ /\ mem'.present = mem.present /\ mem'.history = mem.history /\ mem'.ops = mem.ops /\ mem'.state = mem.state
      \/ /\ mem'.present = RoomMut.present /\ mem'.history = RoomMut.history
         /\ mem'.ops = RoomMut.ops /\ mem'.state = RoomMut.state
  BY DEF Aside, Core
<1>3. /\ Len(mem'.ops) <= HistoryLimit /\ ToSet(mem'.ops) \subseteq ToSet(db.msgs)
  BY <1>2, RoomMutFacts DEF LogInv, LogTyped, Backed
<1>4. HotMatches'
  BY <1>1, <1>2, RoomMutFacts DEF LogInv, HotMatches, Matches
<1>5. /\ answers' \subseteq (Person \X OpId \X Message)
      /\ \A a \in answers' : a[3] \in ToSet(db.msgs) /\ a[1] = a[3].sender /\ a[2] = a[3].op
  <2>1. CASE answers' = answers
    BY <2>1 DEF LogInv, LogTyped, Backed
  <2>2. ASSUME NEW m \in ToSet(db.msgs), m.op # NoOp, m.sender \in Person,
               answers' = answers \cup {<<m.sender, m.op, m>>}
        PROVE  /\ answers' \subseteq (Person \X OpId \X Message)
               /\ \A a \in answers' : a[3] \in ToSet(db.msgs) /\ a[1] = a[3].sender /\ a[2] = a[3].op
    <3>1. m \in Message
      BY LenProperties, ElementOfSeq DEF ToSet, LogInv, LogTyped, RoomRows
    <3>2. m.op \in OpId
      BY <2>2, <3>1 DEF Message
    <3> QED
      BY <2>2, <3>1, <3>2 DEF LogInv, LogTyped, Backed
  <2> QED
    BY <2>1, <2>2 DEF Aside
<1>6. Backed'
  BY <1>1, <1>3, <1>5 DEF LogInv, Backed, Aside
<1>7. nextId' \in 1..(MaxId + 1) /\ nextId' >= nextId /\ nextId \in Nat
  BY RoomLogAssumption DEF LogInv, LogTyped, Aside
<1>8. Below(db.msgs, nextId)'
  <2>1. \A i \in 1..Len(db.msgs) : db.msgs[i].id \in Nat
    BY ArchivedMessage DEF Message
  <2>2. \A i \in 1..Len(db.msgs) : db.msgs[i].id < nextId
    BY DEF LogInv, Below
  <2>3. nextId' \in Nat
    <3>1. MaxId + 1 \in Nat
      BY RoomLogAssumption
    <3> QED
      BY <1>7, <3>1
  <2>4. \A i \in 1..Len(db.msgs) : db.msgs[i].id < nextId'
    BY <1>7, <2>1, <2>2, <2>3
  <2> QED
    BY <1>1, <2>4 DEF Below
<1>9. Ordered(db.msgs)' /\ OneRowPerOp(db.msgs)'
  BY <1>1 DEF LogInv, Ordered, OneRowPerOp
<1>10. LogTyped'
  BY <1>3, <1>5, <1>7 DEF LogInv, LogTyped, Aside
<1>11. Below(mem.history, nextId)'
  <2>1. mem'.history \in Seq(Message) /\ Below(mem'.history, nextId)
    BY <1>2, RoomMutFacts DEF LogInv, LogTyped, HotRoom
  <2>2. \A i \in 1..Len(mem'.history) : mem'.history[i].id \in Nat /\ mem'.history[i].id < nextId
    BY <2>1, MessageIds DEF Below
  <2>3. nextId' \in Nat
    BY <1>7, RoomLogAssumption
  <2> QED
    BY <1>7, <2>2, <2>3 DEF Below
<1> QED
  BY <1>4, <1>6, <1>8, <1>9, <1>10, <1>11 DEF LogInv

(* A write of the room's state keeps it. *)
LEMMA WritesKeeps ==
    ASSUME LogInv, Writes
    PROVE  LogInv'
<1>1. /\ RoomMut \in HotRoom /\ Len(RoomMut.ops) <= HistoryLimit
      /\ ToSet(RoomMut.ops) \subseteq ToSet(db.msgs) /\ Matches(RoomMut, db)
  BY RoomMutFacts DEF Writes
<1>2. HotMatches'
  BY <1>1 DEF Writes, HotMatches, Matches
<1>3. Backed'
  BY <1>1 DEF Writes, LogInv, Backed
<1>4. LogTyped'
  BY <1>1 DEF Writes, LogInv, LogTyped
<1>5. Ordered(db.msgs)' /\ OneRowPerOp(db.msgs)' /\ Below(db.msgs, nextId)'
  BY DEF Writes, LogInv, Ordered, OneRowPerOp, Below
<1>6. Below(mem.history, nextId)'
  BY RoomMutFacts DEF Writes, Below
<1> QED
  BY <1>2, <1>3, <1>4, <1>5, <1>6 DEF LogInv

(* A message with the next id, whose operation has no row, keeps the archive in *)
(* order and one row per operation.                                             *)
LEMMA RecordedArchive ==
    ASSUME LogInv, NEW m \in Message, Records(m)
    PROVE  Ordered(db.msgs)' /\ OneRowPerOp(db.msgs)' /\ Below(db.msgs, nextId)'
<1> DEFINE s == db.msgs
           n == Len(db.msgs)
<1>1. s \in Seq(Message) /\ n \in Nat /\ DOMAIN s = 1..n /\ \A i \in 1..n : s[i] \in Message
  BY LenProperties, ElementOfSeq DEF LogInv, LogTyped, RoomRows
<1>2. /\ db'.msgs = Append(s, m) /\ Len(Append(s, m)) = n + 1
      /\ \A i \in 1..n : Append(s, m)[i] = s[i] /\ Append(s, m)[n + 1] = m
  BY <1>1, AppendElements DEF Records
<1> DEFINE t == Append(s, m)
<1>3. /\ \A i \in 1..(n + 1) : i \in 1..n \/ i = n + 1
      /\ t[n + 1] = m /\ \A i \in 1..n : t[i] = s[i]
  BY <1>1, <1>2, AppendElements
<1>4. \A i \in 1..n : s[i].id \in Nat /\ s[i].id < m.id
  BY <1>1 DEF LogInv, Below, Records, Message
<1>5. nextId \in Nat /\ nextId' = m.id + 1 /\ m.id \in Nat
  BY DEF LogInv, LogTyped, Records, Message
<1>6. \A i \in 1..n : m.op # NoOp => ~(s[i].sender = m.sender /\ s[i].op = m.op)
  BY <1>1 DEF Records, MessageByOperation, ToSet
<1>7. Ordered(s) /\ OneRowPerOp(s)
  BY DEF LogInv
<1> HIDE DEF s, n, t
<1>8. Len(t) = n + 1
  BY <1>2 DEF t
<1>9. Ordered(t)
  <2> SUFFICES ASSUME NEW i \in 1..(n + 1), NEW j \in 1..(n + 1), i < j PROVE t[i].id < t[j].id
    BY <1>8 DEF Ordered
  <2>1. i \in 1..n
    BY <1>1
  <2>2. CASE j = n + 1
    BY <1>3, <1>4, <2>1, <2>2
  <2>3. CASE j \in 1..n
    <3>1. s[i].id < s[j].id
      BY <1>7, <2>1, <2>3 DEF Ordered, n, s
    <3> QED
      BY <1>3, <2>1, <2>3, <3>1
  <2> QED
    BY <1>3, <2>2, <2>3
<1>10. OneRowPerOp(t)
  <2> SUFFICES ASSUME NEW i \in 1..(n + 1), NEW j \in 1..(n + 1),
                      t[i].op # NoOp, t[i].sender = t[j].sender, t[i].op = t[j].op
               PROVE  i = j
    BY <1>8 DEF OneRowPerOp
  <2>1. CASE i \in 1..n /\ j \in 1..n
    BY <1>3, <1>7, <2>1 DEF OneRowPerOp, n, s
  <2>2. CASE i = n + 1 /\ j \in 1..n
    BY <1>3, <1>6, <2>2
  <2>3. CASE j = n + 1 /\ i \in 1..n
    BY <1>3, <1>6, <2>3
  <2> QED
    BY <1>3, <2>1, <2>2, <2>3
<1>11. Below(t, nextId')
  <2> SUFFICES ASSUME NEW i \in 1..(n + 1) PROVE t[i].id < nextId'
    BY <1>8 DEF Below
  <2> QED
    BY <1>3, <1>4, <1>5
<1> QED
  BY <1>2, <1>9, <1>10, <1>11 DEF t, Ordered, OneRowPerOp, Below

(* The mirror follows the archive when a message is recorded. *)
LEMMA RecordedMirror ==
    ASSUME LogInv, NEW m \in Message, Records(m)
    PROVE  /\ Len(mem'.ops) <= HistoryLimit /\ ToSet(mem'.ops) \subseteq ToSet(db'.msgs)
           /\ Matches(mem', db') /\ Below(mem'.history, nextId')
           /\ ToSet(db'.msgs) = ToSet(db.msgs) \cup {m}
<1>1. /\ RoomMut \in HotRoom /\ Len(RoomMut.ops) <= HistoryLimit
      /\ ToSet(RoomMut.ops) \subseteq ToSet(db.msgs) /\ Matches(RoomMut, db) /\ Below(RoomMut.history, nextId)
  BY RoomMutFacts DEF Records
<1> DEFINE h == RoomMut.history
           o == RoomMut.ops
           s == db.msgs
<1>2. /\ h \in Seq(Message) /\ o \in Seq(Message) /\ s \in Seq(Message)
      /\ ShowsTailOf(h, s) /\ Below(h, m.id) /\ Below(s, m.id)
  BY <1>1 DEF HotRoom, LogInv, LogTyped, RoomRows, Matches, Records
<1>3. /\ db'.msgs = Append(s, m) /\ mem'.history \in {Append(h, m), LastOf(Append(h, m), HistoryLimit)}
      /\ mem'.ops \in {o, LastOf(Append(o, m), HistoryLimit)} /\ nextId' = m.id + 1
  BY DEF Records
<1>4. HistoryLimit \in Nat \ {0}
  BY RoomLogAssumption
<1>5. Len(o) <= HistoryLimit /\ ToSet(o) \subseteq ToSet(s)
  BY <1>1
<1>16. /\ db'.row => mem'.state = db'.state
       /\ ~db'.row => mem'.state \in {DefaultState, BuiltinState}
  BY <1>1 DEF Records, Matches
<1> HIDE DEF h, o, s
<1> DEFINE ha == Append(h, m)
           sa == Append(s, m)
<1>6. /\ ha \in Seq(Message) /\ sa \in Seq(Message) /\ Append(o, m) \in Seq(Message)
      /\ ToSet(sa) = ToSet(s) \cup {m} /\ ToSet(Append(o, m)) = ToSet(o) \cup {m}
      /\ ha[Len(h) + 1] = m /\ Len(ha) = Len(h) + 1 /\ sa[Len(s) + 1] = m /\ Len(sa) = Len(s) + 1
  BY <1>2, AppendElements
<1>7. ShowsTailOf(ha, sa) /\ Below(ha, m.id + 1)
  BY <1>2, ShowsAppend, BelowAppend
<1> HIDE DEF ha, sa
<1>8. Last(ha) = Last(sa)
  BY <1>6 DEF Last
<1> DEFINE hl == LastOf(ha, HistoryLimit)
           ol == LastOf(Append(o, m), HistoryLimit)
<1>9. ShowsTailOf(hl, sa) /\ Below(hl, m.id + 1)
  BY <1>4, <1>6, <1>7, <1>8, ShowsEnd, BelowEnd
<1>10. Len(ol) <= HistoryLimit /\ ToSet(ol) \subseteq ToSet(Append(o, m))
  BY <1>4, <1>6, LastOfEnd
<1> HIDE DEF hl, ol
<1>11. mem'.history = ha \/ mem'.history = hl
  BY <1>3 DEF ha, hl
<1>12. ShowsTailOf(mem'.history, db'.msgs) /\ Below(mem'.history, nextId')
  BY <1>3, <1>7, <1>9, <1>11 DEF sa
<1>13. mem'.ops = o \/ mem'.ops = ol
  BY <1>3 DEF ol
<1>14. Len(mem'.ops) <= HistoryLimit /\ ToSet(mem'.ops) \subseteq ToSet(db'.msgs)
  BY <1>3, <1>5, <1>6, <1>10, <1>13 DEF sa
<1> QED
  BY <1>3, <1>6, <1>12, <1>14, <1>16 DEF Matches, s, sa

(* Recording a message keeps the invariant. *)
LEMMA RecordsKeeps ==
    ASSUME LogInv, NEW m \in Message, Records(m)
    PROVE  LogInv'
<1>1. /\ Len(mem'.ops) <= HistoryLimit /\ ToSet(mem'.ops) \subseteq ToSet(db'.msgs)
      /\ Matches(mem', db') /\ Below(mem'.history, nextId') /\ ToSet(db'.msgs) = ToSet(db.msgs) \cup {m}
  BY RecordedMirror
<1>2. HotMatches'
  BY <1>1 DEF Records, HotMatches
<1>3. m.op # NoOp => <<m.sender, m.op, m>> \in (Person \X OpId \X Message)
  BY DEF Records, Message
<1>4. answers' \subseteq answers \cup {<<m.sender, m.op, m>>} /\ answers' \subseteq (Person \X OpId \X Message)
  BY <1>3 DEF Records, LogInv, LogTyped
<1>5. Backed'
  BY <1>1, <1>4 DEF Records, LogInv, Backed
<1>6. nextId' \in 1..(MaxId + 1)
  BY RoomLogAssumption DEF Records, LogInv, LogTyped
<1>7. LogTyped'
  BY <1>1, <1>4, <1>6 DEF Records, LogInv, LogTyped
<1>8. Below(mem.history, nextId)'
  BY <1>1
<1> QED
  BY <1>2, <1>5, <1>7, <1>8, RecordedArchive DEF LogInv

(* So does a join request that could not be saved, *)
LEMMA TellsKeeps ==
    ASSUME LogInv, NEW m \in Message, Tells(m)
    PROVE  LogInv'
<1>1. /\ RoomMut \in HotRoom /\ Len(RoomMut.ops) <= HistoryLimit
      /\ ToSet(RoomMut.ops) \subseteq ToSet(db.msgs) /\ (~db.sealed => Matches(RoomMut, db))
      /\ Below(RoomMut.history, nextId)
  BY RoomMutFacts
<1>2. /\ RoomMut.history \in Seq(Message) /\ db.msgs \in Seq(Message)
      /\ m.id = nextId /\ m.sender = JoinNews /\ m.id \in Nat /\ nextId \in 1..MaxId /\ nextId' = m.id + 1
  BY <1>1, RoomLogAssumption DEF HotRoom, LogInv, LogTyped, RoomRows, Tells, Message
<1>3. Below(mem.history, nextId)'
  BY <1>1, <1>2, BelowAppend DEF Tells
<1>4. HotMatches'
  <2> SUFFICES ASSUME ~db.sealed PROVE Matches(mem', db)
    BY DEF HotMatches, Tells
  <2>1. ShowsTailOf(Append(RoomMut.history, m), db.msgs)
    BY <1>1, <1>2, ShowsNews DEF Matches
  <2> QED
    BY <1>1, <2>1 DEF Matches, Tells
<1>5. Backed'
  BY <1>1, <1>2 DEF Tells, LogInv, Backed
<1>6. nextId' \in 1..(MaxId + 1)
  BY <1>2, RoomLogAssumption
<1>7. LogTyped'
  BY <1>1, <1>6 DEF Tells, LogInv, LogTyped
<1>8. Below(db.msgs, nextId)'
  <2>1. \A i \in 1..Len(db.msgs) : db.msgs[i].id \in Nat /\ db.msgs[i].id < nextId
    BY ArchivedMessage DEF LogInv, Below, Message
  <2>2. \A i \in 1..Len(db.msgs) : db.msgs[i].id < nextId'
    BY <1>2, <2>1
  <2>3. db' = db
    BY DEF Tells
  <2> QED
    BY <2>2, <2>3 DEF Below
<1>9. Ordered(db.msgs)' /\ OneRowPerOp(db.msgs)'
  BY DEF Tells, LogInv, Ordered, OneRowPerOp
<1> QED
  BY <1>3, <1>4, <1>5, <1>7, <1>8, <1>9 DEF LogInv

(* the seal, *)
LEMMA SealsKeeps ==
    ASSUME LogInv, Seals
    PROVE  LogInv'
<1>1. HotMatches'
  BY DEF Seals, HotMatches
<1>2. LogTyped' /\ Backed'
  BY DEF Seals, LogInv, LogTyped, Backed
<1>3. Ordered(db.msgs)' /\ OneRowPerOp(db.msgs)' /\ Below(db.msgs, nextId)'
  BY DEF Seals, LogInv, Ordered, OneRowPerOp, Below
<1>4. Below(mem.history, nextId)'
  BY DEF Seals, LogInv, Below
<1> QED
  BY <1>1, <1>2, <1>3, <1>4 DEF LogInv

(* the removal of a sealed room from memory, *)
LEMMA DropsKeeps ==
    ASSUME LogInv, Drops
    PROVE  LogInv'
<1>1. HotMatches'
  BY DEF Drops, HotMatches
<1>2. LogTyped' /\ Backed'
  BY NoRoomFacts DEF Drops, LogInv, LogTyped, Backed
<1>3. Ordered(db.msgs)' /\ OneRowPerOp(db.msgs)' /\ Below(db.msgs, nextId)'
  BY DEF Drops, LogInv, Ordered, OneRowPerOp, Below
<1>4. Below(mem.history, nextId)'
  BY NoRoomFacts DEF Drops
<1> QED
  BY <1>1, <1>2, <1>3, <1>4 DEF LogInv

(* and a restart, which reads the room and the next id back from the rows. *)
LEMMA RestartKeeps ==
    ASSUME LogInv, Restart
    PROVE  LogInv'
<1> DEFINE s == db.msgs
           tail == LastOf(db.msgs, HistoryLimit)
           st == IF db.row THEN db.state ELSE BuiltinState
           base == IF LoadsRoom
                   THEN [EmptyRoom EXCEPT !.state = st, !.history = tail, !.spoke = db.msgs # <<>>]
                   ELSE Unrecorded
<1>1. /\ s \in Seq(Message) /\ Len(s) \in Nat /\ \A i \in 1..Len(s) : s[i] \in Message
      /\ (s # <<>> <=> Len(s) # 0)
  BY ArchivedMessage, EmptySeq
<1>2. tail \in Seq(Message) /\ ShowsTailOf(tail, s)
  <2>1. ShowsTailOf(s, s)
    <3>1. \A i \in 1..Len(s) : s[i] \in ToSet(s)
      BY ArchivedMessage DEF ToSet
    <3>2. \A i, j \in 1..Len(s) : i < j => s[i].id < s[j].id
      BY DEF LogInv, Ordered
    <3>3. s # <<>> => Last(s) \in ToSet(s)
      BY <1>1, <3>1 DEF Last
    <3> QED
      BY <3>1, <3>2, <3>3 DEF ShowsTailOf
  <2>2. HistoryLimit \in Nat \ {0}
    BY RoomLogAssumption
  <2> HIDE DEF s
  <2>3. tail = LastOf(s, HistoryLimit)
    BY DEF s
  <2> QED
    BY <1>1, <2>1, <2>2, <2>3, LastOfEnd, ShowsEnd
<1>3. db \in RoomRows
  BY DEF LogInv, LogTyped
<1> HIDE DEF tail
<1>4. /\ base \in HotRoom /\ base.ops = <<>>
      /\ LoadsRoom => base.present /\ base.state = st /\ base.history = tail
      /\ ~LoadsRoom => base.state = DefaultState /\ base.history = <<>>
  <2>1. CASE LoadsRoom
    <3>1. base = [EmptyRoom EXCEPT !.state = st, !.history = tail, !.spoke = db.msgs # <<>>]
      BY <2>1
    <3>2. st \in RoomState /\ (db.msgs # <<>>) \in BOOLEAN
      BY <1>3, NoRoomFacts DEF RoomRows
    <3> HIDE DEF st
    <3> QED
      BY <1>2, <2>1, <3>1, <3>2, NoRoomFacts DEF HotRoom
  <2>2. CASE ~LoadsRoom
    <3>1. base \in {EmptyRoom, NoRoom}
      BY <2>2, NoRoomFacts
    <3> HIDE DEF base
    <3> QED
      BY <2>2, <3>1, NoRoomFacts
  <2> QED
    BY <2>1, <2>2
<1> HIDE DEF base
<1>5. Loaded = IF db.muted \cup db.banned = {} THEN base
               ELSE [base EXCEPT !.present = TRUE, !.muted = db.muted, !.banned = db.banned]
  BY DEF Loaded, base, tail, st
<1>6. /\ Loaded \in HotRoom /\ Loaded.ops = <<>> /\ Loaded.state = base.state /\ Loaded.history = base.history
      /\ LoadsRoom => Loaded.present
  BY <1>3, <1>4, <1>5 DEF HotRoom, RoomRows
<1>7. mem' = Loaded /\ UNCHANGED <<db, sent, answers>>
  BY DEF Restart
<1>8. HotMatches'
  <2> SUFFICES ASSUME ~db.sealed
               PROVE  /\ Loaded.present => Matches(Loaded, db)
                      /\ ~Loaded.present => ~db.row /\ Len(s) = 0
    BY <1>7 DEF HotMatches
  <2>2. CASE LoadsRoom
    BY <1>2, <1>4, <1>6, <2>2 DEF Matches
  <2>3. CASE ~LoadsRoom
    <3>1. ~db.row /\ Len(s) = 0 /\ s = <<>>
      BY <1>1, <2>3 DEF LoadsRoom
    <3> QED
      BY <1>4, <1>6, <2>3, <3>1, NoRoomFacts DEF Matches
  <2> QED
    BY <2>2, <2>3
<1>9. nextId' \in 1..(MaxId + 1) /\ Below(s, nextId')
  <2>1. CASE Len(s) = 0
    <3>1. nextId' = 1
      BY <1>1, <2>1 DEF Restart
    <3>2. 1 \in 1..(MaxId + 1)
      BY RoomLogAssumption
    <3> QED
      BY <2>1, <3>1, <3>2 DEF Below
  <2>2. CASE Len(s) # 0
    <3>1. nextId' = s[Len(s)].id + 1 /\ s[Len(s)].id \in 1..MaxId
      BY <1>1, <2>2 DEF Restart, Last, Message
    <3>2. ASSUME NEW i \in 1..Len(s) PROVE s[i].id < nextId'
      <4>1. i < Len(s) => s[i].id < s[Len(s)].id
        BY <1>1, <2>2 DEF LogInv, Ordered
      <4>2. s[i].id \in Nat
        BY <1>1 DEF Message
      <4> QED
        BY <1>1, <3>1, <4>1, <4>2, RoomLogAssumption
    <3> QED
      BY <3>1, <3>2, RoomLogAssumption DEF Below
  <2> QED
    BY <2>1, <2>2
<1>10. LogTyped'
  BY <1>6, <1>7, <1>9, NoRoomFacts DEF LogInv, LogTyped
<1>11. Backed'
  BY <1>6, <1>7, NoRoomFacts DEF LogInv, Backed
<1>12. Ordered(db.msgs)' /\ OneRowPerOp(db.msgs)' /\ Below(db.msgs, nextId)'
  BY <1>7, <1>9 DEF LogInv, Ordered, OneRowPerOp, Below
<1>13. Below(mem.history, nextId)'
  <2>1. Below(tail, nextId')
    BY <1>1, <1>9, BelowEnd, RoomLogAssumption DEF tail
  <2>2. Loaded.history = tail \/ Loaded.history = <<>>
    BY <1>4, <1>6
  <2>3. Below(Loaded.history, nextId')
    BY <2>1, <2>2, NoRoomFacts
  <2> QED
    BY <1>7, <2>3
<1> QED
  BY <1>8, <1>10, <1>11, <1>12, <1>13 DEF LogInv

-----------------------------------------------------------------------------
(* Every step has one of the effects *)

(* The part of the invariant that is about the requests. *)
RequestsTyped == req \in [Request -> RequestState] /\ SealedFirst

(* The turn of a mode that is set, or that moves, is within the order. *)
LEMMA HeldModes ==
    ASSUME NEW mode \in Mode
    PROVE  /\ Normalized(mode) \in HeldMode
           /\ \A s : mode \in HeldMode => Advanced(mode, s) \in HeldMode
<1>1. Len(Order) \in Nat
  BY RoomLogAssumption, LenProperties
<1>2. mode.turn \in 0..Len(Order) /\ (mode.turn # 0 => mode.kind = "round_robin")
  BY <1>1 DEF Mode
<1>3. Normalized(mode) \in HeldMode
  <2>1. CASE mode.kind = "round_robin" /\ mode.turn >= Len(Order)
    BY <1>1, <1>2, <2>1 DEF Normalized, HeldMode, Mode
  <2>2. CASE ~(mode.kind = "round_robin" /\ mode.turn >= Len(Order))
    BY <1>1, <1>2, <2>2 DEF Normalized, HeldMode
  <2> QED
    BY <2>1, <2>2
<1>4. ASSUME NEW s, mode \in HeldMode
      PROVE  Advanced(mode, s) \in HeldMode
  <2>1. CASE mode.kind = "round_robin" /\ mode.turn < Len(Order) /\ Order[mode.turn + 1] = s
    <3> DEFINE t == (mode.turn + 1) % Len(Order)
    <3>1. t \in 0..Len(Order) /\ t < Len(Order)
      BY <1>1, <1>2, <2>1
    <3>2. Advanced(mode, s) = [mode EXCEPT !.turn = t]
      BY <2>1 DEF Advanced
    <3> HIDE DEF t
    <3>3. [mode EXCEPT !.turn = t] \in [kind : {"round_robin"}, turn : 0..Len(Order)]
      BY <2>1, <3>1 DEF Mode
    <3>4. [mode EXCEPT !.turn = t].turn = t
      BY DEF Mode
    <3> QED
      BY <3>1, <3>2, <3>3, <3>4 DEF HeldMode, Mode
  <2>2. CASE ~(mode.kind = "round_robin" /\ mode.turn < Len(Order) /\ Order[mode.turn + 1] = s)
    BY <1>4, <2>2 DEF Advanced
  <2> QED
    BY <2>1, <2>2
<1> QED
  BY <1>3, <1>4

(* One handler moves. *)
LEMMA RequestMoves ==
    ASSUME RequestsTyped, NEW q \in Request, NEW r \in RequestState, req' = [req EXCEPT ![q] = r],
           db.sealed => db'.sealed, r.at \in {"remove", "bury"} => db'.sealed
    PROVE  RequestsTyped'
  BY DEF RequestsTyped, SealedFirst

(* A handler that starts or ends. *)
LEMMA RequestEnds ==
    ASSUME RequestsTyped, NEW q \in Request, Done(q), db.sealed => db'.sealed
    PROVE  RequestsTyped'
<1>1. Idle \in RequestState /\ Idle.at = "idle"
  BY DEF Idle, RequestState
<1> QED
  BY <1>1, RequestMoves DEF Done

(* A step that leaves the rows and what was said alone is a step aside. *)
LEMMA StillAside ==
    ASSUME LogInv, mem' = mem \/ mem' = RoomMut, UNCHANGED <<db, sent, answers>>, nextId' \in {nextId, nextId + 1},
           nextId' <= MaxId + 1
    PROVE  Aside
<1>1. nextId' \in nextId..(MaxId + 1)
  BY RoomLogAssumption DEF LogInv, LogTyped
<1> QED
  BY <1>1, RoomMutFacts DEF Aside, LogInv, LogTyped

(* A state that is written to the rows and to the room in memory. *)
LEMMA StateWritten ==
    ASSUME LogInv, ~db.sealed, NEW s \in RoomState, NEW r \in HotRoom, r.present,
           r.history = RoomMut.history, r.ops = RoomMut.ops, r.state = s, mem' = r,
           db' = WriteRoomState(db, s), UNCHANGED <<nextId, sent, answers>>
    PROVE  Writes
<1>1. /\ db' \in RoomRows /\ db'.state = s /\ db'.row /\ db'.msgs = db.msgs /\ db'.sealed = db.sealed
  BY DEF LogInv, LogTyped, RoomRows, WriteRoomState
<1> QED
  BY <1>1 DEF Writes

Effect == Aside \/ Writes \/ (\E m \in Message : Records(m) \/ Tells(m)) \/ Seals \/ Drops \/ Restart

(* A request is looked at and begins, or a retry is answered from the rows. *)
LEMMA PostBeginEffect ==
    ASSUME LogInv, RequestsTyped, NEW q \in Request, NEW i \in PostInput, PostBegin(q, i[1], i[2])
    PROVE  Effect /\ RequestsTyped'
<1>1. i[1] \in Person /\ i[2] \in OpId \cup {NoOp}
  BY RoomLogAssumption
<1>2. CASE /\ i[2] # NoOp
           /\ \E m \in MessageByOperation(i[1], i[2]) : answers' = answers \cup {<<i[1], i[2], m>>}
           /\ UNCHANGED <<mem, db, tomb, nextId, req, quiet, sent>>
  <2>1. PICK m \in ToSet(db.msgs) : m.sender = i[1] /\ m.op = i[2] /\ answers' = answers \cup {<<i[1], i[2], m>>}
    BY <1>2 DEF MessageByOperation
  <2>2. nextId' \in nextId..(MaxId + 1)
    BY <1>2, RoomLogAssumption DEF LogInv, LogTyped
  <2>3. m.op # NoOp /\ m.sender \in Person /\ answers' = answers \cup {<<m.sender, m.op, m>>}
    BY <1>1, <1>2, <2>1
  <2>4. mem' \in HotRoom /\ Core(mem') = Core(mem) /\ db' \in RoomRows /\ Rows(db') = Rows(db) /\ sent' = sent
    BY <1>2 DEF LogInv, LogTyped
  <2>5. Aside
    BY <2>1, <2>2, <2>3, <2>4 DEF Aside
  <2>6. RequestsTyped'
    BY <1>2 DEF RequestsTyped, SealedFirst
  <2> QED
    BY <2>5, <2>6 DEF Effect
<1>3. CASE /\ Begin(q, [at |-> "post", who |-> i[1], op |-> i[2]])
           /\ UNCHANGED <<mem, db, tomb, nextId, quiet, sent, answers>>
  <2>1. Aside
    BY <1>3, StillAside, RoomLogAssumption DEF LogInv, LogTyped
  <2>2. [at |-> "post", who |-> i[1], op |-> i[2]] \in RequestState
    BY <1>1 DEF RequestState
  <2>3. RequestsTyped'
    BY <1>3, <2>2, RequestMoves DEF Begin
  <2> QED
    BY <2>1, <2>3 DEF Effect
<1> QED
  BY <1>2, <1>3 DEF PostBegin

(* What set_mode, set_lead, set_settings and delete check before they begin. *)
LEMMA BeginEffect ==
    ASSUME LogInv, RequestsTyped, NEW q \in Request,
           \/ \E mode \in ModeInput : SetModeBegin(q, mode)
           \/ \E lead \in LeadInput : SetLeadBegin(q, lead)
           \/ \E i \in SettingInput : SetSettingsBegin(q, i[1], i[2])
           \/ DeleteBegin(q)
    PROVE  Effect /\ RequestsTyped'
<1>1. UNCHANGED <<mem, db, nextId, sent, answers>>
  BY DEF SetModeBegin, SetLeadBegin, SetSettingsBegin, DeleteBegin
<1>2. Aside
  BY <1>1, StillAside, RoomLogAssumption DEF LogInv, LogTyped
<1>3. \E r \in RequestState : req' = [req EXCEPT ![q] = r] /\ r.at \notin {"remove", "bury"}
  <2>1. CASE \E mode \in ModeInput : SetModeBegin(q, mode)
    <3>1. PICK mode \in ModeInput : SetModeBegin(q, mode)
      BY <2>1
    <3>2. mode \in Mode
      BY RoomLogAssumption
    <3>3. [at |-> "mode", to |-> mode] \in RequestState
      BY <3>2 DEF RequestState
    <3> QED
      BY <3>1, <3>3 DEF SetModeBegin, Begin
  <2>2. CASE \E lead \in LeadInput : SetLeadBegin(q, lead)
    <3>1. PICK lead \in LeadInput : SetLeadBegin(q, lead)
      BY <2>2
    <3>2. lead \in Person \cup {Nobody}
      BY RoomLogAssumption
    <3>3. [at |-> "lead", to |-> lead] \in RequestState
      BY <3>2 DEF RequestState
    <3> QED
      BY <3>1, <3>3 DEF SetLeadBegin, Begin
  <2>3. CASE \E i \in SettingInput : SetSettingsBegin(q, i[1], i[2])
    <3>1. PICK i \in SettingInput : SetSettingsBegin(q, i[1], i[2])
      BY <2>3
    <3>2. i[1] \in {"archived", "live"} /\ i[2] \in BOOLEAN
      BY RoomLogAssumption
    <3>3. [at |-> "settings", field |-> i[1], to |-> i[2]] \in RequestState
      BY <3>2 DEF RequestState
    <3> QED
      BY <3>1, <3>3 DEF SetSettingsBegin, Begin
  <2>4. CASE DeleteBegin(q)
    <3>1. [at |-> "delete"] \in RequestState
      BY DEF RequestState
    <3> QED
      BY <2>4, <3>1 DEF DeleteBegin, Begin
  <2> QED
    BY <2>1, <2>2, <2>3, <2>4
<1>4. RequestsTyped'
  BY <1>1, <1>3, RequestMoves
<1> QED
  BY <1>2, <1>4 DEF Effect

(* A request in flight carries what its kind says. *)
LEMMA RequestFields ==
    ASSUME RequestsTyped, NEW q \in Request
    PROVE  /\ req[q].at = "post" => req[q].who \in Person /\ req[q].op \in OpId \cup {NoOp}
           /\ req[q].at = "mode" => req[q].to \in Mode
           /\ req[q].at = "lead" => req[q].to \in Person \cup {Nobody}
           /\ req[q].at = "settings" => req[q].field \in {"archived", "live"} /\ req[q].to \in BOOLEAN
           /\ req[q].at = "moderate" => req[q].act \in ModAction /\ req[q].who \in Person
  BY DEF RequestsTyped, RequestState

(* The mirror answers, or a gate refuses. *)
LEMMA PostAsideEffect ==
    ASSUME LogInv, RequestsTyped, NEW q \in Request, PostAnswered(q) \/ PostRefused(q)
    PROVE  Effect /\ RequestsTyped'
<1>1. RequestsTyped'
  BY RequestEnds DEF PostAnswered, PostRefused
<1>2. CASE PostRefused(q)
  <2>1. Aside
    BY <1>2, StillAside, RoomLogAssumption DEF PostRefused, LogInv, LogTyped
  <2> QED
    BY <1>1, <2>1 DEF Effect
<1>3. CASE PostAnswered(q)
  <2>1. PICK m \in Mirrored(RoomMut, req[q].who, req[q].op) :
          req[q].op # NoOp /\ answers' = answers \cup {<<m.sender, m.op, m>>}
    BY <1>3 DEF PostAnswered
  <2>2. m \in ToSet(db.msgs) /\ m.op # NoOp /\ m.sender \in Person
    BY <1>3, <2>1, RoomMutFacts, RequestFields DEF Mirrored, PostAnswered
  <2>3. nextId' \in nextId..(MaxId + 1)
    BY <1>3, RoomLogAssumption DEF LogInv, LogTyped, PostAnswered
  <2>4. /\ mem' \in HotRoom /\ Core(mem') = Core(RoomMut)
        /\ db' \in RoomRows /\ Rows(db') = Rows(db) /\ sent' = sent
    BY <1>3, RoomMutFacts DEF PostAnswered, LogInv, LogTyped
  <2>5. Aside
    BY <2>1, <2>2, <2>3, <2>4 DEF Aside
  <2> QED
    BY <1>1, <2>5 DEF Effect
<1> QED
  BY <1>2, <1>3

(* post under the mutex: the message and the turn are recorded, or nothing is. *)
LEMMA PostCommitEffect ==
    ASSUME LogInv, RequestsTyped, NEW q \in Request, PostCommit(q)
    PROVE  Effect /\ RequestsTyped'
<1> DEFINE r == RoomMut
           s == req[q].who
           m == [id |-> nextId, sender |-> s, op |-> req[q].op]
           mode == Advanced(r.state.mode, s)
           st == [r.state EXCEPT !.mode = mode]
<1>1. /\ r \in HotRoom /\ r.present /\ (~db.sealed => Matches(r, db))
  BY RoomMutFacts
<1>2. s \in Person /\ req[q].op \in OpId \cup {NoOp} /\ nextId <= MaxId /\ nextId' = nextId + 1 /\ nextId \in 1..MaxId
  BY RequestFields, RoomLogAssumption DEF PostCommit, LogInv, LogTyped
<1>3. m \in Message /\ m.id = nextId /\ m.sender = s /\ m.op = req[q].op
  BY <1>2 DEF Message
<1>4. r.state \in RoomState /\ mode \in HeldMode
  <2>1. r.state \in RoomState
    BY <1>1 DEF HotRoom
  <2>2. r.state.mode \in HeldMode /\ r.state.mode \in Mode
    BY <2>1 DEF RoomState, HeldMode
  <2> QED
    BY <2>1, <2>2, HeldModes
<1>5. st \in RoomState /\ (mode = r.state.mode => st = r.state)
  BY <1>4 DEF RoomState
<1>6. db \in RoomRows
  BY DEF LogInv, LogTyped
<1>7. CASE /\ mem' = r /\ UNCHANGED <<db, sent, answers, quiet>>
  <2>1. Aside
    BY <1>2, <1>7, StillAside, RoomLogAssumption
  <2>2. RequestsTyped'
    BY <1>7, RequestEnds DEF PostCommit
  <2> QED
    BY <2>1, <2>2 DEF Effect
<1>8. CASE /\ CanInsert(m)
           /\ db' = IF mode # r.state.mode THEN InsertMessageWithRoom(db, m, st) ELSE InsertMessage(db, m)
           /\ mem' = Mirror(r, m, mode)
           /\ sent' = sent \cup {m}
           /\ answers' = IF m.op = NoOp THEN answers ELSE answers \cup {<<s, m.op, m>>}
  <2> HIDE DEF r, s, m, mode
  <2>1. ~db.sealed /\ (m.op # NoOp => MessageByOperation(m.sender, m.op) = {}) /\ (db.row => r.state = db.state)
    BY <1>1, <1>8 DEF CanInsert, Matches
  <2>2. Append(db.msgs, m) \in Seq(Message) /\ InsertMessage(db, m) \in RoomRows
    BY <1>3, <1>6, AppendProperties DEF RoomRows, InsertMessage
  <2>3. /\ InsertMessage(db, m).msgs = Append(db.msgs, m) /\ InsertMessage(db, m).row = db.row
        /\ InsertMessage(db, m).state = db.state /\ InsertMessage(db, m).sealed = db.sealed
    BY <1>6 DEF RoomRows, InsertMessage
  <2>4. /\ db' \in RoomRows /\ db'.msgs = Append(db.msgs, m) /\ ~db'.sealed
        /\ db'.row => db'.state = st
        /\ ~db'.row => ~db.row /\ st = r.state
    <3> HIDE DEF st
    <3>1. CASE mode # r.state.mode
      <4>1. db' = WriteRoomState(InsertMessage(db, m), st)
        BY <1>8, <3>1 DEF InsertMessageWithRoom
      <4>2. /\ db' \in RoomRows /\ db'.row /\ db'.state = st /\ db'.msgs = InsertMessage(db, m).msgs
            /\ db'.sealed = InsertMessage(db, m).sealed
        BY <1>5, <2>2, <4>1 DEF WriteRoomState, RoomRows
      <4> QED
        BY <2>1, <2>3, <4>2
    <3>2. CASE mode = r.state.mode
      BY <1>5, <1>8, <2>1, <2>2, <2>3, <3>2
    <3> QED
      BY <3>1, <3>2
  <2> DEFINE o == IF m.op = NoOp THEN r.ops ELSE LastOf(Append(r.ops, m), HistoryLimit)
             h == LastOf(Append(r.history, m), HistoryLimit)
             c == Counted(r, m.sender)
  <2>5. o \in Seq(Message) /\ h \in Seq(Message) /\ c \in [Person -> Nat]
    <3>1. r.ops \in Seq(Message) /\ r.history \in Seq(Message) /\ r.recent \in [Person -> Nat]
      BY <1>1 DEF HotRoom
    <3>2. Append(r.ops, m) \in Seq(Message) /\ Append(r.history, m) \in Seq(Message)
      BY <1>3, <3>1, AppendProperties
    <3>3. o \in Seq(Message) /\ h \in Seq(Message)
      BY <3>1, <3>2, LastOfEnd, RoomLogAssumption
    <3>5. c \in [Person -> Nat]
      BY <1>2, <1>3, <3>1 DEF Counted
    <3> QED
      BY <3>3, <3>5
  <2>6. mem' = [r EXCEPT !.state = st, !.recent = c, !.ops = o, !.history = h, !.spoke = TRUE]
    BY <1>8 DEF Mirror
  <2> HIDE DEF o, h, c, st
  <2>7. /\ mem' \in HotRoom /\ mem'.present /\ mem'.state = st /\ mem'.history = h /\ mem'.ops = o
    BY <1>1, <1>5, <2>5, <2>6 DEF HotRoom
  <2>8. /\ mem'.history \in {Append(r.history, m), LastOf(Append(r.history, m), HistoryLimit)}
        /\ mem'.ops \in {r.ops, LastOf(Append(r.ops, m), HistoryLimit)}
    BY <2>7 DEF o, h
  <2>9. Records(m)
    BY <1>2, <1>3, <1>8, <2>1, <2>4, <2>7, <2>8 DEF Records, r
  <2>10. RequestsTyped'
    BY <2>1, RequestEnds DEF PostCommit
  <2> QED
    BY <1>3, <2>9, <2>10 DEF Effect
<1> QED
  BY <1>7, <1>8 DEF PostCommit

(* set_mode writes the mode, normalised, or nothing. *)
LEMMA SetModeEffect ==
    ASSUME LogInv, RequestsTyped, NEW q \in Request, SetMode(q)
    PROVE  Effect /\ RequestsTyped'
<1> DEFINE r == RoomMut
           s == [r.state EXCEPT !.mode = Normalized(req[q].to)]
<1>1. r \in HotRoom /\ r.present
  BY RoomMutFacts
<1>2. s \in RoomState
  BY <1>1, RequestFields, HeldModes DEF SetMode, HotRoom, RoomState
<1>3. UNCHANGED <<nextId, sent, answers>>
  BY DEF SetMode
<1>4. CASE ~db.sealed /\ db' = WriteRoomState(db, s) /\ mem' = [r EXCEPT !.state = s]
  <2> HIDE DEF r, s
  <2> DEFINE t == [r EXCEPT !.state = s]
  <2>1. t \in HotRoom /\ t.present /\ t.history = r.history /\ t.ops = r.ops /\ t.state = s
    BY <1>1, <1>2 DEF HotRoom
  <2> HIDE DEF t
  <2>2. Writes
    BY <1>2, <1>3, <1>4, <2>1, StateWritten DEF r, t
  <2>3. RequestsTyped'
    BY <1>4, RequestEnds DEF SetMode
  <2> QED
    BY <2>2, <2>3 DEF Effect
<1>5. CASE db' = db /\ mem' = r
  <2>1. Aside
    BY <1>3, <1>5, StillAside, RoomLogAssumption DEF LogInv, LogTyped
  <2>2. RequestsTyped'
    BY <1>5, RequestEnds DEF SetMode
  <2> QED
    BY <2>1, <2>2 DEF Effect
<1> QED
  BY <1>4, <1>5 DEF SetMode

(* set_lead records an announcement with the new settings, or nothing. *)
LEMMA SetLeadEffect ==
    ASSUME LogInv, RequestsTyped, NEW q \in Request, SetLead(q)
    PROVE  Effect /\ RequestsTyped'
<1> DEFINE r == RoomMut
           st == [r.state EXCEPT !.lead = req[q].to]
           m == [id |-> nextId, sender |-> LeadNews, op |-> NoOp]
<1>1. /\ r \in HotRoom /\ r.present
  BY RoomMutFacts
<1>2. nextId <= MaxId /\ nextId \in 1..MaxId
  BY RoomLogAssumption DEF SetLead, LogInv, LogTyped
<1>3. m \in Message /\ m.id = nextId /\ m.op = NoOp
  BY <1>2 DEF Message
<1>4. st \in RoomState
  BY <1>1, RequestFields DEF SetLead, HotRoom, RoomState
<1>5. db \in RoomRows
  BY DEF LogInv, LogTyped
<1>6. CASE /\ nextId' \in {nextId, nextId + 1} /\ UNCHANGED <<mem, db, sent, answers>>
  <2>1. Aside
    BY <1>2, <1>6, StillAside, RoomLogAssumption
  <2>2. RequestsTyped'
    BY <1>6, RequestEnds DEF SetLead
  <2> QED
    BY <2>1, <2>2 DEF Effect
<1>7. CASE /\ CanInsert(m)
           /\ db' = InsertMessageWithRoom(db, m, st)
           /\ mem' = [r EXCEPT !.state = st, !.history = Append(@, m)]
           /\ sent' = sent \cup {m} /\ nextId' = nextId + 1 /\ answers' = answers
  <2> HIDE DEF r, st, m
  <2>1. ~db.sealed
    BY <1>7 DEF CanInsert
  <2>2. Append(db.msgs, m) \in Seq(Message) /\ InsertMessage(db, m) \in RoomRows
    BY <1>3, <1>5, AppendProperties DEF RoomRows, InsertMessage
  <2>3. InsertMessage(db, m).msgs = Append(db.msgs, m) /\ InsertMessage(db, m).sealed = db.sealed
    BY <1>5 DEF RoomRows, InsertMessage
  <2>4. db' = WriteRoomState(InsertMessage(db, m), st)
    BY <1>7 DEF InsertMessageWithRoom
  <2>5. /\ db' \in RoomRows /\ db'.row /\ db'.state = st /\ db'.msgs = InsertMessage(db, m).msgs
        /\ db'.sealed = InsertMessage(db, m).sealed
    BY <1>4, <2>2, <2>4 DEF WriteRoomState, RoomRows
  <2>6. Append(r.history, m) \in Seq(Message)
    BY <1>1, <1>3, AppendProperties DEF HotRoom
  <2>7. /\ mem' \in HotRoom /\ mem'.present /\ mem'.state = st /\ mem'.history = Append(r.history, m)
        /\ mem'.ops = r.ops
    BY <1>1, <1>4, <1>7, <2>6 DEF HotRoom
  <2>8. Records(m)
    BY <1>2, <1>3, <1>7, <2>1, <2>3, <2>5, <2>7 DEF Records, r
  <2>9. RequestsTyped'
    BY <2>1, RequestEnds DEF SetLead
  <2> QED
    BY <1>3, <2>8, <2>9 DEF Effect
<1> QED
  BY <1>6, <1>7 DEF SetLead

(* announce_join_request records its announcement with the room, or only tells it. *)
LEMMA AnnounceEffect ==
    ASSUME LogInv, RequestsTyped, AnnounceJoinRequest
    PROVE  Effect /\ RequestsTyped'
<1> DEFINE r == RoomMut
           m == [id |-> nextId, sender |-> JoinNews, op |-> NoOp]
           t == [r EXCEPT !.history = Append(r.history, m)]
<1>1. r \in HotRoom /\ r.present /\ r.state \in RoomState
  BY RoomMutFacts DEF HotRoom
<1>2. nextId <= MaxId /\ nextId \in 1..MaxId /\ nextId' = nextId + 1
  BY RoomLogAssumption DEF AnnounceJoinRequest, LogInv, LogTyped
<1>3. m \in Message /\ m.id = nextId /\ m.op = NoOp /\ m.sender = JoinNews
  BY <1>2 DEF Message
<1>4. mem' = t /\ sent' = sent \cup {m} /\ UNCHANGED <<req, answers>>
  BY DEF AnnounceJoinRequest
<1>5. \/ CanInsert(m) /\ db' = InsertMessageWithRoom(db, m, r.state)
      \/ db' = db
  BY DEF AnnounceJoinRequest
<1> HIDE DEF r, m
<1>6. Append(r.history, m) \in Seq(Message)
  BY <1>1, <1>3, AppendProperties DEF HotRoom
<1>7. t \in HotRoom /\ t.present /\ t.state = r.state /\ t.ops = r.ops /\ t.history = Append(r.history, m)
  BY <1>1, <1>6 DEF HotRoom
<1> HIDE DEF t
<1>8. CASE CanInsert(m) /\ db' = InsertMessageWithRoom(db, m, r.state)
  <2>1. ~db.sealed /\ db \in RoomRows
    BY <1>8 DEF CanInsert, LogInv, LogTyped
  <2>2. Append(db.msgs, m) \in Seq(Message) /\ InsertMessage(db, m) \in RoomRows
    BY <1>3, <2>1, AppendProperties DEF RoomRows, InsertMessage
  <2>3. InsertMessage(db, m).msgs = Append(db.msgs, m) /\ InsertMessage(db, m).sealed = db.sealed
    BY <2>1 DEF RoomRows, InsertMessage
  <2>4. /\ db' \in RoomRows /\ db'.row /\ db'.state = r.state /\ db'.msgs = InsertMessage(db, m).msgs
        /\ db'.sealed = InsertMessage(db, m).sealed
    BY <1>1, <1>8, <2>2 DEF InsertMessageWithRoom, WriteRoomState, RoomRows
  <2>5. Records(m)
    BY <1>2, <1>3, <1>4, <1>7, <2>1, <2>3, <2>4 DEF Records, r
  <2>6. RequestsTyped'
    BY <1>4, <2>1 DEF RequestsTyped, SealedFirst
  <2> QED
    BY <1>3, <2>5, <2>6 DEF Effect
<1>9. CASE db' = db
  <2>1. Tells(m)
    BY <1>2, <1>3, <1>4, <1>7, <1>9 DEF Tells, r
  <2>2. RequestsTyped'
    BY <1>4, <1>9 DEF RequestsTyped, SealedFirst
  <2> QED
    BY <1>3, <2>1, <2>2 DEF Effect
<1> QED
  BY <1>5, <1>8, <1>9

(* set_settings writes one setting, or nothing. *)
LEMMA SetSettingsEffect ==
    ASSUME LogInv, RequestsTyped, NEW q \in Request, SetSettings(q)
    PROVE  Effect /\ RequestsTyped'
<1> DEFINE r == RoomMut
           f == req[q].field
           to == req[q].to
           s == [r.state EXCEPT ![f] = to]
           starts == f = "live" /\ to
<1>1. r \in HotRoom /\ r.present
  BY RoomMutFacts
<1>2. f \in {"archived", "live"} /\ to \in BOOLEAN /\ r.state \in RoomState /\ r.spoke \in BOOLEAN
  BY <1>1, RequestFields DEF SetSettings, HotRoom
<1>3. s \in RoomState
  <2> HIDE DEF f, to
  <2>1. CASE f = "archived"
    BY <1>2, <2>1 DEF RoomState
  <2>2. CASE f = "live"
    BY <1>2, <2>2 DEF RoomState
  <2> QED
    BY <1>2, <2>1, <2>2
<1>4. UNCHANGED <<nextId, sent, answers>>
  BY DEF SetSettings
<1>5. CASE ~db.sealed /\ db' = WriteRoomState(db, s) /\ mem' = [r EXCEPT !.state = s, !.spoke = @ \/ starts]
  <2> DEFINE sp == r.spoke \/ starts
  <2>1. sp \in BOOLEAN
    BY <1>2
  <2>2. mem' = [r EXCEPT !.state = s, !.spoke = sp]
    BY <1>5
  <2> HIDE DEF r, s, sp
  <2>3. mem' \in HotRoom /\ mem'.present /\ mem'.history = r.history /\ mem'.ops = r.ops /\ mem'.state = s
    BY <1>1, <1>3, <2>1, <2>2 DEF HotRoom
  <2>4. Writes
    BY <1>3, <1>4, <1>5, <2>3, StateWritten DEF r
  <2>5. RequestsTyped'
    BY <1>5, RequestEnds DEF SetSettings
  <2> QED
    BY <2>4, <2>5 DEF Effect
<1>6. CASE mem' = r /\ db' = db
  <2>1. Aside
    BY <1>4, <1>6, StillAside, RoomLogAssumption DEF LogInv, LogTyped
  <2>2. RequestsTyped'
    BY <1>6, RequestEnds DEF SetSettings
  <2> QED
    BY <2>1, <2>2 DEF Effect
<1> QED
  BY <1>5, <1>6 DEF SetSettings

(* A ban changes neither the log nor the state, in the rows and in memory. *)
LEMMA BanFacts ==
    ASSUME NEW act \in ModAction, NEW who \in Person
    PROVE  /\ \A d \in RoomRows : SetBan(d, act, who) \in RoomRows /\ Rows(SetBan(d, act, who)) = Rows(d)
           /\ \A r \in HotRoom : SetBan(r, act, who) \in HotRoom /\ Core(SetBan(r, act, who)) = Core(r)
<1>1. CASE act = "mute"
  BY <1>1 DEF SetBan, RoomRows, Rows, HotRoom, Core
<1>2. CASE act = "unmute"
  BY <1>2 DEF SetBan, RoomRows, Rows, HotRoom, Core
<1>3. CASE act = "ban"
  BY <1>3 DEF SetBan, RoomRows, Rows, HotRoom, Core
<1>4. CASE act = "unban"
  BY <1>4 DEF SetBan, RoomRows, Rows, HotRoom, Core
<1> QED
  BY <1>1, <1>2, <1>3, <1>4 DEF ModAction

(* Moderation, in the rows and then in memory. *)
LEMMA ModerateEffect ==
    ASSUME LogInv, RequestsTyped, NEW q \in Request,
           Moderate(q) \/ \E i \in ModInput : ModerateBegin(q, i[1], i[2])
    PROVE  Effect /\ RequestsTyped'
<1>1. nextId \in nextId..(MaxId + 1) /\ mem \in HotRoom /\ db \in RoomRows
  BY RoomLogAssumption DEF LogInv, LogTyped
<1>2. CASE Moderate(q)
  <2>1. mem' \in HotRoom /\ Core(mem') = Core(RoomMut)
    BY <1>2, BanFacts, RoomMutFacts, RequestFields DEF Moderate
  <2>2. Aside
    BY <1>1, <1>2, <2>1 DEF Aside, Moderate
  <2>3. RequestsTyped'
    BY <1>2, RequestEnds DEF Moderate
  <2> QED
    BY <2>2, <2>3 DEF Effect
<1>3. CASE \E i \in ModInput : ModerateBegin(q, i[1], i[2])
  <2>1. PICK i \in ModInput : ModerateBegin(q, i[1], i[2])
    BY <1>3
  <2>2. i[1] \in ModAction /\ i[2] \in Person
    BY RoomLogAssumption DEF ModAction
  <2>3. db' \in RoomRows /\ Rows(db') = Rows(db)
    BY <1>1, <2>1, <2>2, BanFacts DEF ModerateBegin
  <2>4. Aside
    BY <1>1, <2>1, <2>3 DEF Aside, ModerateBegin
  <2>5. [at |-> "moderate", act |-> i[1], who |-> i[2]] \in RequestState
    BY <2>2 DEF RequestState
  <2>6. db'.sealed = db.sealed
    BY <2>3 DEF Rows
  <2>7. RequestsTyped'
    BY <2>1, <2>5, <2>6, RequestMoves DEF ModerateBegin, Begin
  <2> QED
    BY <2>4, <2>7 DEF Effect
<1> QED
  BY <1>2, <1>3

(* delete_room: the seal first, then the memory, then the name. *)
LEMMA DeleteEffect ==
    ASSUME LogInv, RequestsTyped, NEW q \in Request, DeleteSeal(q) \/ DeleteRemove(q) \/ DeleteBury(q)
    PROVE  Effect /\ RequestsTyped'
<1>1. [at |-> "remove"] \in RequestState /\ [at |-> "bury"] \in RequestState
  BY DEF RequestState
<1>2. db \in RoomRows
  BY DEF LogInv, LogTyped
<1>3. CASE db' = SealRoom(db) /\ req' = [req EXCEPT ![q] = [at |-> "remove"]] /\ DeleteSeal(q)
  <2>1. db' \in RoomRows /\ db'.sealed /\ db'.msgs = db.msgs /\ db'.state = db.state
    BY <1>2, <1>3 DEF SealRoom, RoomRows
  <2>2. Seals
    BY <1>3, <2>1 DEF Seals, DeleteSeal
  <2>3. RequestsTyped'
    BY <1>1, <1>3, <2>1, RequestMoves
  <2> QED
    BY <2>2, <2>3 DEF Effect
<1>4. CASE UNCHANGED <<mem, db, nextId, sent, answers>> /\ Done(q)
  <2>1. Aside
    BY <1>4, StillAside, RoomLogAssumption DEF LogInv, LogTyped
  <2>2. RequestsTyped'
    BY <1>4, RequestEnds
  <2> QED
    BY <2>1, <2>2 DEF Effect
<1>5. CASE DeleteRemove(q)
  <2>1. db.sealed
    BY <1>5 DEF DeleteRemove, RequestsTyped, SealedFirst
  <2>2. Drops
    BY <1>5, <2>1 DEF Drops, DeleteRemove
  <2>3. RequestsTyped'
    BY <1>1, <1>5, <2>1, RequestMoves DEF DeleteRemove
  <2> QED
    BY <2>2, <2>3 DEF Effect
<1> QED
  BY <1>3, <1>4, <1>5 DEF DeleteSeal, DeleteBury

(* The clocks. *)
LEMMA ClockEffect ==
    ASSUME LogInv, RequestsTyped, GoesQuiet \/ ExpireLive \/ \E s \in Person : WindowSlides(s)
    PROVE  Effect /\ RequestsTyped'
<1>1. nextId \in nextId..(MaxId + 1) /\ mem \in HotRoom /\ db \in RoomRows
  BY RoomLogAssumption DEF LogInv, LogTyped
<1>2. CASE GoesQuiet
  BY <1>1, <1>2 DEF GoesQuiet, Effect, Aside, RequestsTyped, SealedFirst
<1>3. CASE ExpireLive
  <2> DEFINE s == [mem.state EXCEPT !.live = FALSE]
             t == [mem EXCEPT !.state = s]
  <2>1. s \in RoomState
    BY <1>1 DEF HotRoom, RoomState
  <2>2. RoomMut = mem /\ mem.present /\ ~db.sealed /\ db' = WriteRoomState(db, s) /\ mem' = t
        /\ UNCHANGED <<nextId, sent, answers, req>>
    BY <1>3 DEF ExpireLive, RoomMut
  <2> HIDE DEF s
  <2>3. t \in HotRoom /\ t.present /\ t.history = mem.history /\ t.ops = mem.ops /\ t.state = s
    BY <1>1, <2>1, <2>2 DEF HotRoom
  <2> HIDE DEF t
  <2>4. Writes
    BY <2>1, <2>2, <2>3, StateWritten
  <2>5. RequestsTyped'
    BY <2>2 DEF RequestsTyped, SealedFirst
  <2> QED
    BY <2>4, <2>5 DEF Effect
<1>4. ASSUME NEW s \in Person, WindowSlides(s)
      PROVE  Effect /\ RequestsTyped'
  <2> DEFINE rec == [mem.recent EXCEPT ![s] = @ - 1]
  <2>1. rec \in [Person -> Nat]
    BY <1>1, <1>4, RoomLogAssumption DEF WindowSlides, HotRoom
  <2>2. mem' = [mem EXCEPT !.recent = rec]
    BY <1>4 DEF WindowSlides
  <2> HIDE DEF rec
  <2>3. mem' \in HotRoom /\ Core(mem') = Core(mem)
    BY <1>1, <2>1, <2>2 DEF HotRoom, Core
  <2> QED
    BY <1>1, <1>4, <2>3 DEF WindowSlides, Effect, Aside, RequestsTyped, SealedFirst
<1> QED
  BY <1>2, <1>3, <1>4

(* A restart leaves no handler behind. *)
LEMMA RestartEffect ==
    ASSUME Restart
    PROVE  Effect /\ RequestsTyped'
<1>1. Idle \in RequestState /\ Idle.at = "idle"
  BY DEF Idle, RequestState
<1> QED
  BY <1>1 DEF Restart, Effect, RequestsTyped, SealedFirst

(* Every step of the loca has one of the effects. *)
LEMMA StepEffect ==
    ASSUME LogInv, RequestsTyped, [RoomNext]_roomVars
    PROVE  Effect /\ RequestsTyped'
<1>1. CASE UNCHANGED roomVars
  <2>1. UNCHANGED <<mem, db, nextId, req, sent, answers>>
    BY <1>1 DEF roomVars
  <2>2. Aside
    BY <2>1, StillAside, RoomLogAssumption DEF LogInv, LogTyped
  <2> QED
    BY <2>1, <2>2 DEF Effect, RequestsTyped, SealedFirst
<1>2. ASSUME NEW q \in Request, RequestStep(q)
      PROVE  Effect /\ RequestsTyped'
  BY <1>2, PostBeginEffect, BeginEffect, PostAsideEffect, PostCommitEffect, SetModeEffect, SetLeadEffect,
     SetSettingsEffect, ModerateEffect, DeleteEffect DEF RequestStep
<1>3. CASE GoesQuiet \/ ExpireLive \/ \E s \in Person : WindowSlides(s)
  BY <1>3, ClockEffect
<1>4. CASE Restart
  BY <1>4, RestartEffect
<1>5. CASE AnnounceJoinRequest
  BY <1>5, AnnounceEffect
<1> QED
  BY <1>1, <1>2, <1>3, <1>4, <1>5 DEF RoomNext

-----------------------------------------------------------------------------
(* The theorems *)

(* RoomInv is the two parts together. *)
LEMMA RoomInvParts == RoomInv <=> LogInv /\ RequestsTyped
  BY DEF RoomInv, RoomTyped, LogInv, LogTyped, RequestsTyped

(* The archive, its mirror and the answers agree in every reachable state. *)
THEOREM RoomInvariant == RoomSpec => []RoomInv
<1>1. RoomInit => RoomInv
  <2> SUFFICES ASSUME RoomInit PROVE RoomInv
    OBVIOUS
  <2>1. mem \in {EmptyRoom, NoRoom} /\ nextId = 1 /\ sent = {} /\ answers = {}
    BY NoRoomFacts DEF RoomInit
  <2>2. /\ db \in RoomRows /\ db.msgs = <<>> /\ ~db.row /\ db.state = DefaultState
    BY NoRoomFacts DEF RoomInit, RoomRows
  <2>3. 1 \in 1..(MaxId + 1)
    BY RoomLogAssumption
  <2>4. LogTyped
    BY <2>1, <2>2, <2>3, NoRoomFacts DEF LogTyped
  <2>5. Backed /\ HotMatches /\ Below(mem.history, nextId)
    BY <2>1, <2>2, NoRoomFacts DEF Backed, HotMatches, Matches
  <2>6. Ordered(db.msgs) /\ Below(db.msgs, nextId) /\ OneRowPerOp(db.msgs)
    BY <2>2, NoRoomFacts DEF Ordered, Below, OneRowPerOp
  <2>7. RequestsTyped
    BY DEF RoomInit, RequestsTyped, SealedFirst, Idle, RequestState
  <2> QED
    BY <2>4, <2>5, <2>6, <2>7, RoomInvParts DEF LogInv
<1>2. RoomInv /\ [RoomNext]_roomVars => RoomInv'
  <2> SUFFICES ASSUME RoomInv, [RoomNext]_roomVars PROVE RoomInv'
    OBVIOUS
  <2>1. LogInv /\ RequestsTyped
    BY RoomInvParts
  <2>2. Effect /\ RequestsTyped'
    BY <2>1, StepEffect
  <2>3. LogInv'
    BY <2>1, <2>2, AsideKeeps, WritesKeeps, RecordsKeeps, TellsKeeps, SealsKeeps, DropsKeeps, RestartKeeps DEF Effect
  <2> QED
    BY <2>2, <2>3 DEF RoomInv, RoomTyped, LogInv, LogTyped, RequestsTyped
<1> QED
  BY <1>1, <1>2, PTL DEF RoomSpec

(* The three flags stay Boolean. *)
LEMMA FlagsStep ==
    ASSUME RoomInv, tomb \in BOOLEAN, quiet \in BOOLEAN, home \in BOOLEAN, [RoomNext]_roomVars
    PROVE  tomb' \in BOOLEAN /\ quiet' \in BOOLEAN /\ home' \in BOOLEAN
<1>1. db.sealed \in BOOLEAN
  BY DEF RoomInv, RoomTyped, RoomRows
<1>2. ASSUME NEW q \in Request, RequestStep(q)
      PROVE  tomb' \in BOOLEAN /\ quiet' \in BOOLEAN
  <2>1. CASE PostCommit(q) \/ SetSettings(q) \/ DeleteBury(q)
    BY <2>1, Zenon DEF PostCommit, SetSettings, DeleteBury
  <2>2. CASE ~(PostCommit(q) \/ SetSettings(q) \/ DeleteBury(q))
    <3>1. UNCHANGED <<tomb, quiet>>
      BY <1>2, <2>2 DEF RequestStep, PostBegin, PostAnswered, PostRefused, SetModeBegin, SetMode, SetLeadBegin,
         SetLead, SetSettingsBegin, ModerateBegin, Moderate, DeleteBegin, DeleteSeal, DeleteRemove
    <3> QED
      BY <3>1
  <2> QED
    BY <2>1, <2>2
<1>3. ASSUME GoesQuiet \/ ExpireLive \/ AnnounceJoinRequest \/ Restart \/ \E s \in Person : WindowSlides(s)
      PROVE  tomb' \in BOOLEAN /\ quiet' \in BOOLEAN
  <2>1. CASE Restart
    BY <1>1, <2>1 DEF Restart
  <2>2. CASE AnnounceJoinRequest
    <3>1. UNCHANGED <<tomb, quiet>>
      BY <2>2, Zenon DEF AnnounceJoinRequest
    <3> QED
      BY <3>1
  <2>3. CASE GoesQuiet \/ ExpireLive \/ \E s \in Person : WindowSlides(s)
    BY <2>3 DEF GoesQuiet, ExpireLive, WindowSlides
  <2> QED
    BY <1>3, <2>1, <2>2, <2>3
<1>4. CASE UNCHANGED roomVars
  BY <1>4 DEF roomVars
<1>5. home' = home
  BY DEF RoomNext, roomVars
<1> QED
  BY <1>2, <1>3, <1>4, <1>5 DEF RoomNext

(* Every reachable state is well typed, for all inputs and bounds. *)
THEOREM RoomTyping == RoomSpec => []RoomTypeOK
<1>1. RoomInit => tomb \in BOOLEAN /\ quiet \in BOOLEAN /\ home \in BOOLEAN
  BY DEF RoomInit
<1>2. RoomInv /\ (tomb \in BOOLEAN /\ quiet \in BOOLEAN /\ home \in BOOLEAN) /\ [RoomNext]_roomVars
        => (tomb \in BOOLEAN /\ quiet \in BOOLEAN /\ home \in BOOLEAN)'
  BY FlagsStep
<1>3. RoomInv /\ (tomb \in BOOLEAN /\ quiet \in BOOLEAN /\ home \in BOOLEAN) => RoomTypeOK
  BY DEF RoomInv, RoomTyped, HotRoom, RoomRows, RequestState, RoomTypeOK
<1> QED
  BY <1>1, <1>2, <1>3, RoomInvariant, PTL DEF RoomSpec

(* Every retry of an operation is answered with the same message, for any number *)
(* of concurrent attempts, any size of the mirror and any restarts.              *)
THEOREM RetriesAgree == RoomSpec => []OneAnswerPerOperation
<1>1. RoomInv => OneAnswerPerOperation
  <2> SUFFICES ASSUME RoomInv, NEW a \in answers, NEW b \in answers, a[1] = b[1], a[2] = b[2]
               PROVE  a[3] = b[3]
    BY DEF OneAnswerPerOperation
  <2>1. LogInv
    BY RoomInvParts
  <2>2. /\ a[3] \in ToSet(db.msgs) /\ a[1] = a[3].sender /\ a[2] = a[3].op
        /\ b[3] \in ToSet(db.msgs) /\ b[1] = b[3].sender /\ b[2] = b[3].op
    BY DEF RoomInv, Backed
  <2>3. a[2] # NoOp
    BY RoomLogAssumption DEF RoomInv, RoomTyped
  <2>4. PICK i, j \in 1..Len(db.msgs) : a[3] = db.msgs[i] /\ b[3] = db.msgs[j]
    BY <2>1, <2>2, ArchivedMessage DEF ToSet
  <2>5. i = j
    BY <2>2, <2>3, <2>4 DEF RoomInv, OneRowPerOp
  <2> QED
    BY <2>4, <2>5
<1> QED
  BY <1>1, RoomInvariant, PTL

(* Nothing is broadcast that is not archived, but for the join requests that    *)
(* announce_join_request could not save.                                        *)
THEOREM SaidIsArchived == RoomSpec => []BroadcastIsDurable
<1>1. RoomInv => BroadcastIsDurable
  BY DEF RoomInv, Backed, BroadcastIsDurable
<1> QED
  BY <1>1, RoomInvariant, PTL

(* While the loca is not sealed, its hot copy is what a restart would load, but *)
(* for unsaved join requests and the limits of a loca without a row.            *)
THEOREM HotCopyIsDurable == RoomSpec => []HotCopyMatchesStore
<1>1. RoomInv => HotCopyMatchesStore
  <2> SUFFICES ASSUME RoomInv, ~db.sealed
               PROVE  /\ mem.present => /\ db.row => mem.state = db.state
                                        /\ ~db.row => mem.state \in {DefaultState, BuiltinState}
                                        /\ ShowsTailOf(mem.history, db.msgs)
                                        /\ ToSet(mem.ops) \subseteq ToSet(db.msgs)
                      /\ ~mem.present => ~db.row /\ db.msgs = <<>>
                      /\ \A i \in 2..Len(db.msgs) : db.msgs[i - 1].id < db.msgs[i].id
                      /\ db.msgs # <<>> => Last(db.msgs).id < nextId
    BY DEF HotCopyMatchesStore
  <2>1. LogInv
    BY RoomInvParts
  <2>2. /\ db.msgs \in Seq(Message) /\ Len(db.msgs) \in Nat
        /\ (db.msgs # <<>> <=> Len(db.msgs) # 0)
    BY <2>1, ArchivedMessage, EmptySeq
  <2>3. mem.present => Matches(mem, db)
    BY <2>1 DEF LogInv, HotMatches
  <2>4. \A i \in 2..Len(db.msgs) : db.msgs[i - 1].id < db.msgs[i].id
    BY <2>1, <2>2 DEF LogInv, Ordered
  <2>5. db.msgs # <<>> => Last(db.msgs).id < nextId
    BY <2>1, <2>2 DEF LogInv, Below, Last
  <2>6. ~mem.present => ~db.row /\ db.msgs = <<>>
    BY <2>1, <2>2 DEF LogInv, HotMatches
  <2>7. ToSet(mem.ops) \subseteq ToSet(db.msgs)
    BY <2>1 DEF LogInv, Backed
  <2> QED
    BY <2>3, <2>4, <2>5, <2>6, <2>7 DEF Matches
<1> QED
  BY <1>1, RoomInvariant, PTL

(* Each effect is a step of the promise: one message, one answer, one change of *)
(* state or the seal, or nothing at all.                                        *)
LEMMA EffectPromised ==
    ASSUME LogInv, LogInv', Effect
    PROVE  [Promise!PromiseNext]_Promise!promiseVars
<1> USE DEF Promise!PromiseNext, Promise!promiseVars
<1>1. CASE Aside
  <2>1. db'.msgs = db.msgs /\ db'.state = db.state /\ db'.sealed = db.sealed
    BY <1>1 DEF Aside, Rows
  <2>2. CASE answers' = answers
    BY <2>1, <2>2
  <2>3. ASSUME NEW m \in ToSet(db.msgs), m.op # NoOp, answers' = answers \cup {<<m.sender, m.op, m>>}
        PROVE  \E n \in Message : Promise!AnswerAgain(n)
    <3>1. m \in Message
      BY ArchivedMessage
    <3>2. Promise!AnswerAgain(m)
      BY <2>1, <2>3 DEF Promise!AnswerAgain, Promise!Answer, Promise!Archived, ToSet
    <3> QED
      BY <3>1, <3>2
  <2> QED
    BY <1>1, <2>2, <2>3 DEF Aside
<1>2. CASE Writes
  <2>1. Promise!Change
    <3>1. db.sealed \in BOOLEAN /\ db'.sealed \in BOOLEAN /\ db'.state \in RoomState
      BY <1>2 DEF Writes, LogInv, LogTyped, RoomRows
    <3>2. db'.sealed = db.sealed
      BY <1>2, <3>1 DEF Writes
    <3> QED
      BY <1>2, <3>1, <3>2 DEF Writes, Promise!Change
  <2> QED
    BY <2>1
<1>3. ASSUME NEW m \in Message, Records(m)
      PROVE  Promise!Record(m)
  <2>1. \A n \in Promise!Archived : n.id < m.id
    BY <1>3, ArchivedMessage DEF LogInv, Below, Records, Promise!Archived
  <2>2. \A n \in Promise!Archived : m.op # NoOp => <<n.sender, n.op>> # <<m.sender, m.op>>
    BY <1>3 DEF Records, MessageByOperation, Promise!Archived, ToSet
  <2>3. db'.state \in RoomState /\ db'.msgs = Append(db.msgs, m) /\ db'.sealed = db.sealed /\ ~db.sealed
    BY <1>3 DEF Records, RoomRows, LogInv, LogTyped
  <2>4. IF m.op = NoOp THEN answers' = answers ELSE Promise!Answer(m, {m})
    BY <1>3 DEF Records, Promise!Answer
  <2> QED
    BY <2>1, <2>2, <2>3, <2>4 DEF Promise!Record
<1>4. CASE Seals
  <2>1. Promise!Seal
    BY <1>4 DEF Seals, Promise!Seal, RoomRows
  <2> QED
    BY <2>1
<1>5. CASE Drops
  BY <1>5 DEF Drops
<1>6. CASE Restart
  BY <1>6 DEF Restart
<1>7. CASE \E m \in Message : Tells(m)
  BY <1>7 DEF Tells
<1> QED
  BY <1>1, <1>2, <1>3, <1>4, <1>5, <1>6, <1>7 DEF Effect

(* The loca, with its mirror, its requests in flight, failing writes and       *)
(* restarts, implements the promise: an archive that only grows in id order,   *)
(* one message per operation, answers that name it, and a seal that is final.  *)
THEOREM PromiseKept == RoomSpec => KeepsPromise
<1>1. RoomInit => Promise!PromiseInit
  <2> SUFFICES ASSUME RoomInit PROVE Promise!PromiseInit
    OBVIOUS
  <2> QED
    BY NoRoomFacts DEF RoomInit, Promise!PromiseInit
<1>2. RoomInv /\ RoomInv' /\ [RoomNext]_roomVars => [Promise!PromiseNext]_Promise!promiseVars
  <2> SUFFICES ASSUME RoomInv, RoomInv', [RoomNext]_roomVars
               PROVE  [Promise!PromiseNext]_Promise!promiseVars
    OBVIOUS
  <2>1. LogInv /\ RequestsTyped
    BY RoomInvParts
  <2>2. LogInv'
    BY DEF RoomInv, RoomTyped, LogInv, LogTyped
  <2> QED
    BY <2>1, <2>2, StepEffect, EffectPromised
<1> QED
  BY <1>1, <1>2, RoomInvariant, PTL DEF RoomSpec, KeepsPromise, Promise!PromiseSpec
=============================================================================
