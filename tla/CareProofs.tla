----------------------------- MODULE CareProofs -----------------------------
(***************************************************************************)
(* The ledger of declared work and care, its rows and its outbox, for any  *)
(* names, clients, limits and order of requests, sweeps and restarts.      *)
(***************************************************************************)
EXTENDS Care, FiniteSetTheorems, NaturalsInduction, WellFoundedInduction, TLAPS

-----------------------------------------------------------------------------
(* Ledgers and their parts *)

IsFcn(f) == f = [x \in DOMAIN f |-> f[x]]

IsAtt(r) == r = [st |-> r.st, owner |-> r.owner, by |-> r.by, seen |-> r.seen]

(* One copy of the ledger, field by field. *)
IsLedger(s) ==
    /\ s = [tasks |-> s.tasks, goals |-> s.goals, waits |-> s.waits,
            marks |-> s.marks, att |-> s.att, last |-> s.last]
    /\ IsFcn(s.tasks) /\ IsFcn(s.goals) /\ IsFcn(s.waits) /\ IsFcn(s.marks) /\ IsFcn(s.att)
    /\ \A a \in DOMAIN s.att : IsAtt(s.att[a])

(* Two copies declare the same work. *)
SameWork(m, d) == m.tasks = d.tasks /\ m.goals = d.goals /\ m.waits = d.waits

(* The attention shows as delivered.                                       *)
SeenRow(r) == [r EXCEPT !.seen = TRUE]

(* Two copies agree on marks and attentions, but for the silence; memory   *)
(* has still to show the attentions W as delivered.                        *)
SameCare(m, d, W) ==
    /\ W \subseteq DOMAIN d.att
    /\ \A k \in DOMAIN m.marks \cup DOMAIN d.marks : k # Silence =>
          k \in DOMAIN m.marks \cap DOMAIN d.marks /\ m.marks[k] = d.marks[k]
    /\ \A a \in DOMAIN m.att \cup DOMAIN d.att : a.key # Silence =>
          /\ a \in DOMAIN m.att \cap DOMAIN d.att
          /\ d.att[a] = IF a \in W THEN SeenRow(m.att[a]) ELSE m.att[a]

(* It does.                                                                *)
Shown(r) == r.seen = TRUE

LEMMA SeenRowIs ==
    ASSUME NEW r, NEW st, NEW owner, NEW by, NEW seen, r = [st |-> st, owner |-> owner, by |-> by, seen |-> seen]
    PROVE  SeenRow(r) = [st |-> st, owner |-> owner, by |-> by, seen |-> TRUE]
<1>1. SeenRow(r) = [r EXCEPT !.seen = TRUE]
  BY DEF SeenRow
<1>2. r = [st |-> st, owner |-> owner, by |-> by, seen |-> seen]
  OBVIOUS
<1> QED
  BY ONLY <1>1, <1>2

LEMMA SeenRowFacts ==
    ASSUME NEW r, IsAtt(r)
    PROVE  /\ IsAtt(SeenRow(r)) /\ SeenRow(r).st = r.st /\ SeenRow(r).owner = r.owner /\ SeenRow(r).by = r.by
           /\ Shown(SeenRow(r)) /\ (Shown(r) => SeenRow(r) = r)
           /\ [SeenRow(r) EXCEPT !.st = "resolved"] = SeenRow([r EXCEPT !.st = "resolved"])
<1>1. r = [st |-> r.st, owner |-> r.owner, by |-> r.by, seen |-> r.seen]
  BY DEF IsAtt
<1>2. SeenRow(r) = [st |-> r.st, owner |-> r.owner, by |-> r.by, seen |-> TRUE]
  BY <1>1, SeenRowIs
<1>3. /\ SeenRow(r).st = r.st /\ SeenRow(r).owner = r.owner /\ SeenRow(r).by = r.by
      /\ Shown(SeenRow(r)) /\ (Shown(r) => SeenRow(r) = r)
  BY ONLY <1>1, <1>2 DEF Shown
<1>4. IsAtt(SeenRow(r))
  BY <1>2, <1>3 DEF IsAtt
<1>5. [r EXCEPT !.st = "resolved"] = [st |-> "resolved", owner |-> r.owner, by |-> r.by, seen |-> r.seen]
  BY ONLY <1>1
<1>6. [SeenRow(r) EXCEPT !.st = "resolved"] = SeenRow([r EXCEPT !.st = "resolved"])
  <2> DEFINE yes == TRUE
             q == SeenRow(r)
             p == [r EXCEPT !.st = "resolved"]
  <2>1. q = [st |-> r.st, owner |-> r.owner, by |-> r.by, seen |-> yes] /\ SeenRow(p) = [p EXCEPT !.seen = yes]
    BY <1>2 DEF SeenRow
  <2>2. p = [st |-> "resolved", owner |-> r.owner, by |-> r.by, seen |-> r.seen]
    BY <1>5
  <2> HIDE DEF yes, q, p
  <2>3. [q EXCEPT !.st = "resolved"] = [st |-> "resolved", owner |-> r.owner, by |-> r.by, seen |-> yes]
    BY ONLY <2>1
  <2>4. SeenRow(p) = [st |-> "resolved", owner |-> r.owner, by |-> r.by, seen |-> yes]
    BY ONLY <2>1, <2>2
  <2>5. [q EXCEPT !.st = "resolved"] = SeenRow(p)
    BY ONLY <2>3, <2>4
  <2> QED
    BY <2>5 DEF q, p
<1> QED
  BY <1>3, <1>4, <1>6

(* What the rows say of an attention; its state is the one in memory. *)
RowAgrees(m, d, W, a) ==
    /\ a \in DOMAIN m.att /\ a \in DOMAIN d.att /\ IsAtt(m.att[a]) /\ d.att[a].st = m.att[a].st
    /\ a \in W => d.att[a] = SeenRow(m.att[a]) /\ Shown(d.att[a])
    /\ a \notin W => d.att[a] = m.att[a]

LEMMA SameCareRow ==
    ASSUME NEW m, NEW d, NEW W, IsLedger(m), SameCare(m, d, W), NEW a, a \in DOMAIN m.att \cup DOMAIN d.att,
           a.key # Silence
    PROVE  RowAgrees(m, d, W, a)
<1>1. /\ a \in DOMAIN m.att /\ a \in DOMAIN d.att
      /\ a \in W => d.att[a] = SeenRow(m.att[a])
      /\ a \notin W => d.att[a] = m.att[a]
  BY DEF SameCare
<1>2. IsAtt(m.att[a])
  BY <1>1 DEF IsLedger
<1>3. SeenRow(m.att[a]).st = m.att[a].st /\ Shown(SeenRow(m.att[a]))
  BY <1>2, SeenRowFacts
<1> QED
  BY ONLY <1>1, <1>2, <1>3 DEF RowAgrees

(* s2 is s with the attentions ids resolved and the marks keys removed.    *)
Retires(s, s2, ids, keys) ==
    /\ IsLedger(s2)
    /\ DOMAIN s2.att = DOMAIN s.att
    /\ \A a \in DOMAIN s.att :
          s2.att[a] = IF a \in ids THEN [s.att[a] EXCEPT !.st = "resolved"] ELSE s.att[a]
    /\ DOMAIN s2.marks = DOMAIN s.marks \ keys
    /\ \A k \in DOMAIN s2.marks : s2.marks[k] = s.marks[k]

(* A row of the outbox. *)
IsDelivery(r) ==
    /\ r = [att |-> r.att, owner |-> r.owner, home |-> r.home, acked |-> r.acked]
    /\ r.acked \in BOOLEAN

IsBox(box) == box \in Seq(Range(box)) /\ \A i \in DOMAIN box : IsDelivery(box[i])

(* Deliveries are of attentions with rows, and pending ones of open work.  *)
Backed(d, box) ==
    \A i \in DOMAIN box :
        /\ box[i].att \in DOMAIN d.att
        /\ ~box[i].acked => d.att[box[i].att].st # "resolved"

Sent(box, k) == {i \in DOMAIN box : box[i].att.key = k}

(* No mark counts more attempts than were sent. *)
Paid(s, box) ==
    \A k \in DOMAIN s.marks : s.marks[k] \in Nat /\ s.marks[k] <= Cardinality(Sent(box, k))

-----------------------------------------------------------------------------
(* Operators on one copy *)

(* Resolving attentions touches nothing else. *)
LEMMA ResolvedFacts ==
    ASSUME NEW s, IsLedger(s), NEW ids
    PROVE  /\ Retires(s, Resolved(s, ids), ids, {})
           /\ SameWork(Resolved(s, ids), s) /\ Resolved(s, ids).last = s.last
<1> DEFINE att == [a \in DOMAIN s.att |->
              IF a \in ids THEN [s.att[a] EXCEPT !.st = "resolved"] ELSE s.att[a]]
           s2 == [tasks |-> s.tasks, goals |-> s.goals, waits |-> s.waits,
                  marks |-> s.marks, att |-> att, last |-> s.last]
<1>1. Resolved(s, ids) = s2
  <2>1. s = [tasks |-> s.tasks, goals |-> s.goals, waits |-> s.waits,
             marks |-> s.marks, att |-> s.att, last |-> s.last]
    BY DEF IsLedger
  <2>2. Resolved(s, ids) = [s EXCEPT !.att = att]
    BY DEF Resolved
  <2> QED
    BY <2>1, <2>2
<1>2. \A a \in DOMAIN att : IsAtt(att[a])
  BY DEF IsLedger, IsAtt
<1>3. IsFcn(att) /\ DOMAIN att = DOMAIN s.att
  BY DEF IsFcn
<1>4. IsLedger(s2)
  BY <1>2, <1>3 DEF IsLedger
<1> QED
  BY <1>1, <1>4 DEF Retires, SameWork

(* Removing marks touches nothing else. *)
LEMMA UnmarkFacts ==
    ASSUME NEW s, IsLedger(s), NEW keys
    PROVE  /\ Retires(s, Unmark(s, keys), {}, keys)
           /\ SameWork(Unmark(s, keys), s) /\ Unmark(s, keys).last = s.last
<1> DEFINE marks == [k \in DOMAIN s.marks \ keys |-> s.marks[k]]
           s2 == [tasks |-> s.tasks, goals |-> s.goals, waits |-> s.waits,
                  marks |-> marks, att |-> s.att, last |-> s.last]
<1>1. Unmark(s, keys) = s2
  <2>1. s = [tasks |-> s.tasks, goals |-> s.goals, waits |-> s.waits,
             marks |-> s.marks, att |-> s.att, last |-> s.last]
    BY DEF IsLedger
  <2>2. Unmark(s, keys) = [s EXCEPT !.marks = marks]
    BY DEF Unmark, Restrict
  <2> QED
    BY <2>1, <2>2
<1>2. IsFcn(marks) /\ DOMAIN marks = DOMAIN s.marks \ keys
  BY DEF IsFcn
<1>3. IsLedger(s2)
  BY <1>2 DEF IsLedger
<1> QED
  BY <1>1, <1>3 DEF Retires, SameWork

(* Retirements one after the other retire what each of them does. *)
LEMMA RetiresTwice ==
    ASSUME NEW s, NEW s1, NEW s2, NEW i1, NEW i2, NEW k1, NEW k2, IsLedger(s),
           Retires(s, s1, i1, k1), Retires(s1, s2, i2, k2)
    PROVE  Retires(s, s2, i1 \cup i2, k1 \cup k2)
<1>1. ASSUME NEW a \in DOMAIN s.att
      PROVE  s2.att[a] = IF a \in i1 \cup i2 THEN [s.att[a] EXCEPT !.st = "resolved"] ELSE s.att[a]
  <2>1. s.att[a] = [st |-> s.att[a].st, owner |-> s.att[a].owner, by |-> s.att[a].by, seen |-> s.att[a].seen]
    BY DEF IsLedger, IsAtt
  <2>2. [[s.att[a] EXCEPT !.st = "resolved"] EXCEPT !.st = "resolved"] = [s.att[a] EXCEPT !.st = "resolved"]
    BY <2>1
  <2> QED
    BY <2>2 DEF Retires
<1> QED
  BY <1>1 DEF Retires

(* Progress on a condition. *)
LEMMA ProgressedFacts ==
    ASSUME NEW s, IsLedger(s), NEW key
    PROVE  /\ Retires(s, Progressed(s, key), Of(s, key), {key})
           /\ SameWork(Progressed(s, key), s) /\ Progressed(s, key).last = s.last
<1>1. Retires(s, Resolved(s, Of(s, key)), Of(s, key), {})
  BY ResolvedFacts
<1>2. Retires(Resolved(s, Of(s, key)), Progressed(s, key), {}, {key})
  BY <1>1, UnmarkFacts DEF Progressed, Retires
<1>3. Retires(s, Progressed(s, key), Of(s, key) \cup {}, {} \cup {key})
  BY <1>1, <1>2, RetiresTwice
<1>4. Of(s, key) \cup {} = Of(s, key) /\ {} \cup {key} = {key}
  OBVIOUS
<1> QED
  BY <1>1, <1>3, <1>4, ResolvedFacts, UnmarkFacts DEF Progressed, SameWork, Retires

(* The care of a wait. *)
LEMMA WaitRetiredFacts ==
    ASSUME NEW s, IsLedger(s), NEW n
    PROVE  /\ Retires(s, WaitRetired(s, n), Of(s, <<"wait", n>>) \cup OpenCycles(s, n),
                      {a.key : a \in OpenCycles(s, n)})
           /\ SameWork(WaitRetired(s, n), s) /\ WaitRetired(s, n).last = s.last
<1> DEFINE ids == Of(s, <<"wait", n>>) \cup OpenCycles(s, n)
           keys == {a.key : a \in OpenCycles(s, n)}
<1>0. WaitRetired(s, n) = Unmark(Resolved(s, ids), keys)
  BY DEF WaitRetired
<1> HIDE DEF ids, keys
<1>1. Retires(s, Resolved(s, ids), ids, {})
  BY ResolvedFacts
<1>2. Retires(Resolved(s, ids), WaitRetired(s, n), {}, keys)
  BY <1>0, <1>1, UnmarkFacts DEF Retires
<1>3. Retires(s, WaitRetired(s, n), ids \cup {}, {} \cup keys)
  BY <1>1, <1>2, RetiresTwice
<1>4. ids \cup {} = ids /\ {} \cup keys = keys
  OBVIOUS
<1>5. SameWork(WaitRetired(s, n), s) /\ WaitRetired(s, n).last = s.last
  BY <1>0, <1>1, ResolvedFacts, UnmarkFacts DEF SameWork, Retires
<1> QED
  BY <1>3, <1>4, <1>5 DEF ids, keys

(* Put writes one key. *)
LEMMA PutFacts ==
    ASSUME NEW f, NEW k, NEW v
    PROVE  /\ IsFcn(Put(f, k, v)) /\ DOMAIN Put(f, k, v) = DOMAIN f \cup {k}
           /\ Put(f, k, v)[k] = v
           /\ \A x \in DOMAIN f \ {k} : Put(f, k, v)[x] = f[x]
  BY DEF Put, IsFcn

(* The fields of a ledger, written one at a time. *)
SetTasks(s, f) == [s EXCEPT !.tasks = f]
SetGoals(s, f) == [s EXCEPT !.goals = f]
SetWaits(s, f) == [s EXCEPT !.waits = f]
SetMarks(s, f) == [s EXCEPT !.marks = f]
SetAtt(s, f) == [s EXCEPT !.att = f]
SetLast(s, f) == [s EXCEPT !.last = f]

LEMMA Written ==
    ASSUME NEW s, IsLedger(s), NEW f
    PROVE  /\ SetTasks(s, f) = [tasks |-> f, goals |-> s.goals, waits |-> s.waits,
                                marks |-> s.marks, att |-> s.att, last |-> s.last]
           /\ SetGoals(s, f) = [tasks |-> s.tasks, goals |-> f, waits |-> s.waits,
                                marks |-> s.marks, att |-> s.att, last |-> s.last]
           /\ SetWaits(s, f) = [tasks |-> s.tasks, goals |-> s.goals, waits |-> f,
                                marks |-> s.marks, att |-> s.att, last |-> s.last]
           /\ SetMarks(s, f) = [tasks |-> s.tasks, goals |-> s.goals, waits |-> s.waits,
                                marks |-> f, att |-> s.att, last |-> s.last]
           /\ SetAtt(s, f) = [tasks |-> s.tasks, goals |-> s.goals, waits |-> s.waits,
                              marks |-> s.marks, att |-> f, last |-> s.last]
           /\ SetLast(s, f) = [tasks |-> s.tasks, goals |-> s.goals, waits |-> s.waits,
                               marks |-> s.marks, att |-> s.att, last |-> f]
<1>1. s = [tasks |-> s.tasks, goals |-> s.goals, waits |-> s.waits,
           marks |-> s.marks, att |-> s.att, last |-> s.last]
  BY DEF IsLedger
<1> QED
  BY <1>1 DEF SetTasks, SetGoals, SetWaits, SetMarks, SetAtt, SetLast

(* What is written in this way is a ledger. *)
LEMMA WrittenLedger ==
    ASSUME NEW s, IsLedger(s), NEW f
    PROVE  /\ IsFcn(f) => /\ IsLedger(SetTasks(s, f)) /\ IsLedger(SetGoals(s, f))
                          /\ IsLedger(SetWaits(s, f)) /\ IsLedger(SetMarks(s, f))
           /\ IsFcn(f) /\ (\A a \in DOMAIN f : IsAtt(f[a])) => IsLedger(SetAtt(s, f))
           /\ IsLedger(SetLast(s, f))
  BY Written DEF IsLedger

(* A ledger whose work is rewritten after a retirement has still retired.  *)
LEMMA RetiresAndWrites ==
    ASSUME NEW s, NEW s1, NEW ids, NEW keys, Retires(s, s1, ids, keys), NEW f
    PROVE  /\ IsFcn(f) => /\ Retires(s, SetTasks(s1, f), ids, keys)
                          /\ Retires(s, SetGoals(s1, f), ids, keys)
                          /\ Retires(s, SetWaits(s1, f), ids, keys)
           /\ Retires(s, SetLast(s1, f), ids, keys)
<1>1. IsLedger(s1)
  BY DEF Retires
<1>2. \A x \in {SetTasks(s1, f), SetGoals(s1, f), SetWaits(s1, f), SetLast(s1, f)} :
         x.att = s1.att /\ x.marks = s1.marks
  BY <1>1, Written
<1>3. ASSUME NEW x, IsLedger(x), x.att = s1.att, x.marks = s1.marks
      PROVE  Retires(s, x, ids, keys)
  BY <1>3 DEF Retires
<1> QED
  BY <1>1, <1>2, <1>3, WrittenLedger

(* Nothing is retired when work is written alone. *)
LEMMA RetiresNothing ==
    ASSUME NEW s, IsLedger(s)
    PROVE  Retires(s, s, {}, {})
  BY DEF Retires

-----------------------------------------------------------------------------
(* Retirements keep the three relations *)

(* Copies that retire the same, but for the silence, still agree. *)
LEMMA RetiresAgree ==
    ASSUME NEW m, NEW d, NEW m2, NEW d2, NEW im, NEW id, NEW km, NEW kd, NEW W, SameCare(m, d, W), IsLedger(m), IsLedger(d),
           Retires(m, m2, im, km), Retires(d, d2, id, kd),
           \A a \in DOMAIN m.att \cup DOMAIN d.att : a.key # Silence => (a \in im <=> a \in id),
           \A k \in DOMAIN m.marks \cup DOMAIN d.marks : k # Silence => (k \in km <=> k \in kd)
    PROVE  SameCare(m2, d2, W)
<1>1. ASSUME NEW k \in DOMAIN m2.marks \cup DOMAIN d2.marks, k # Silence
      PROVE  k \in DOMAIN m2.marks \cap DOMAIN d2.marks /\ m2.marks[k] = d2.marks[k]
  <2>1. k \in DOMAIN m.marks \cup DOMAIN d.marks /\ ~(k \in km /\ k \in kd)
    BY <1>1 DEF Retires
  <2>2. k \in DOMAIN m.marks \cap DOMAIN d.marks /\ m.marks[k] = d.marks[k]
    BY <1>1, <2>1 DEF SameCare
  <2> QED
    BY <1>1, <2>1, <2>2 DEF Retires
<1>2. ASSUME NEW a \in DOMAIN m2.att \cup DOMAIN d2.att, a.key # Silence
      PROVE  /\ a \in DOMAIN m2.att \cap DOMAIN d2.att
             /\ d2.att[a] = IF a \in W THEN SeenRow(m2.att[a]) ELSE m2.att[a]
  <2>0. a \in DOMAIN m.att \cup DOMAIN d.att
    BY <1>2 DEF Retires
  <2>a. /\ a \in DOMAIN m.att /\ a \in DOMAIN d.att /\ IsAtt(m.att[a])
        /\ a \in W => d.att[a] = SeenRow(m.att[a])
        /\ a \notin W => d.att[a] = m.att[a]
    <3>1. RowAgrees(m, d, W, a)
      BY <1>2, <2>0, SameCareRow
    <3> QED
      BY ONLY <3>1 DEF RowAgrees
  <2>b. [SeenRow(m.att[a]) EXCEPT !.st = "resolved"] = SeenRow([m.att[a] EXCEPT !.st = "resolved"])
    BY <2>a, SeenRowFacts
  <2>1. /\ a \in DOMAIN m.att \cap DOMAIN d.att
        /\ a \in W => d.att[a] = SeenRow(m.att[a]) /\ [d.att[a] EXCEPT !.st = "resolved"] = SeenRow([m.att[a] EXCEPT !.st = "resolved"])
        /\ a \notin W => d.att[a] = m.att[a]
    BY ONLY <2>a, <2>b
  <2>2. /\ a \in DOMAIN m2.att /\ a \in DOMAIN d2.att
        /\ m2.att[a] = IF a \in im THEN [m.att[a] EXCEPT !.st = "resolved"] ELSE m.att[a]
        /\ d2.att[a] = IF a \in id THEN [d.att[a] EXCEPT !.st = "resolved"] ELSE d.att[a]
    BY <2>1 DEF Retires
  <2>3. a \in im <=> a \in id
    BY <1>2, <2>1
  <2>4. CASE a \in im
    BY ONLY <2>1, <2>2, <2>3, <2>4
  <2>5. CASE a \notin im
    BY ONLY <2>1, <2>2, <2>3, <2>5
  <2> QED
    BY <2>4, <2>5
<1>3. W \subseteq DOMAIN d2.att
  BY DEF SameCare, Retires
<1> QED
  BY <1>1, <1>2, <1>3 DEF SameCare

(* A retirement whose deliveries are acked leaves pending ones backed. *)
LEMMA RetiresBacked ==
    ASSUME NEW d, NEW d2, NEW box, NEW ids, NEW keys, NEW acks, IsLedger(d), IsBox(box), Backed(d, box),
           Retires(d, d2, ids, keys), ids \subseteq acks
    PROVE  IsBox(Acked(box, acks)) /\ Backed(d2, Acked(box, acks))
<1> DEFINE b2 == Acked(box, acks)
<1>1. DOMAIN b2 = DOMAIN box
  BY DEF Acked
<1>2. ASSUME NEW i \in DOMAIN box
      PROVE  /\ IsDelivery(b2[i]) /\ b2[i].att = box[i].att
             /\ b2[i].acked <=> box[i].acked \/ box[i].att \in acks
  <2>1. box[i] = [att |-> box[i].att, owner |-> box[i].owner, home |-> box[i].home, acked |-> box[i].acked]
    BY DEF IsBox, IsDelivery
  <2>2. b2[i] = [box[i] EXCEPT !.acked = box[i].acked \/ box[i].att \in acks]
    BY DEF Acked
  <2>3. b2[i] = [att |-> box[i].att, owner |-> box[i].owner, home |-> box[i].home,
                 acked |-> box[i].acked \/ box[i].att \in acks]
    BY ONLY <2>1, <2>2
  <2>4. /\ b2[i].att = box[i].att /\ b2[i].owner = box[i].owner /\ b2[i].home = box[i].home
        /\ b2[i].acked = (box[i].acked \/ box[i].att \in acks)
    BY ONLY <2>3
  <2>5. box[i].acked \in BOOLEAN
    BY DEF IsBox, IsDelivery
  <2> HIDE DEF b2
  <2>6. IsDelivery(b2[i])
    BY <2>3, <2>4, <2>5 DEF IsDelivery
  <2> QED
    BY <2>4, <2>5, <2>6
<1>3. b2 \in Seq(Range(b2))
  <2>1. Len(box) \in Nat /\ DOMAIN box = 1..Len(box)
    BY DEF IsBox
  <2>2. b2 = [i \in 1..Len(box) |-> b2[i]] /\ \A i \in 1..Len(box) : b2[i] \in Range(b2)
    BY <2>1 DEF Acked, Range
  <2> HIDE DEF b2
  <2> QED
    BY <2>1, <2>2
<1>4. ASSUME NEW i \in DOMAIN b2
      PROVE  b2[i].att \in DOMAIN d2.att /\ (~b2[i].acked => d2.att[b2[i].att].st # "resolved")
  BY <1>1, <1>2, ZenonT(60) DEF Backed, Retires
<1> QED
  BY <1>1, <1>2, <1>3, <1>4 DEF IsBox, Backed

(* What was sent is not changed by acks, and marks only go. *)
LEMMA RetiresPaid ==
    ASSUME NEW s, NEW s2, NEW box, NEW ids, NEW keys, NEW acks, IsBox(box), Paid(s, box),
           Retires(s, s2, ids, keys)
    PROVE  Paid(s2, box) /\ Paid(s2, Acked(box, acks))
<1>1. \A k : Sent(Acked(box, acks), k) = Sent(box, k)
  <2>1. ASSUME NEW i \in DOMAIN box PROVE Acked(box, acks)[i].att = box[i].att
    <3>1. box[i] = [att |-> box[i].att, owner |-> box[i].owner, home |-> box[i].home, acked |-> box[i].acked]
      BY DEF IsBox, IsDelivery
    <3>2. Acked(box, acks)[i] = [box[i] EXCEPT !.acked = box[i].acked \/ box[i].att \in acks]
      BY DEF Acked
    <3> QED
      BY ONLY <3>1, <3>2
  <2>2. DOMAIN Acked(box, acks) = DOMAIN box
    BY DEF Acked
  <2> QED
    BY <2>1, <2>2 DEF Sent
<1> QED
  BY <1>1 DEF Paid, Retires

-----------------------------------------------------------------------------
(* What each handler does to one copy *)

TaskKey(t) == <<"task", t>>
GoalKey(g) == <<"goal", g>>

(* The goal that progress of the task t reaches. *)
Reached(t) == CHOOSE g \in LinkedGoal(t) : TRUE

(* upsert_goal_with_care_reset *)
LEMMA GoalWrittenFacts ==
    ASSUME NEW s, IsLedger(s), NEW g, NEW row
    PROVE  /\ Retires(s, GoalWritten(s, g, row), Of(s, GoalKey(g)), {GoalKey(g)})
           /\ GoalWritten(s, g, row).tasks = s.tasks /\ GoalWritten(s, g, row).waits = s.waits
           /\ GoalWritten(s, g, row).goals = Put(s.goals, g, row)
<1> DEFINE p == Progressed(s, GoalKey(g))
<1>1. GoalWritten(s, g, row) = SetGoals(p, Put(s.goals, g, row))
  BY DEF GoalWritten, SetGoals, GoalKey
<1>2. /\ Retires(s, p, Of(s, GoalKey(g)), {GoalKey(g)}) /\ SameWork(p, s) /\ IsLedger(p)
  BY ProgressedFacts DEF Retires
<1> HIDE DEF p
<1>3. IsFcn(Put(s.goals, g, row))
  BY PutFacts
<1>4. /\ SetGoals(p, Put(s.goals, g, row)).tasks = s.tasks
      /\ SetGoals(p, Put(s.goals, g, row)).waits = s.waits
      /\ SetGoals(p, Put(s.goals, g, row)).goals = Put(s.goals, g, row)
  BY <1>2, Written DEF SameWork
<1> QED
  BY <1>1, <1>2, <1>3, <1>4, RetiresAndWrites

(* The task half of update_task. *)
TaskWritten(s, t, row) == SetTasks(Progressed(s, TaskKey(t)), Put(s.tasks, t, row))

LEMMA TaskWrittenFacts ==
    ASSUME NEW s, IsLedger(s), NEW t, NEW row
    PROVE  /\ Retires(s, TaskWritten(s, t, row), Of(s, TaskKey(t)), {TaskKey(t)})
           /\ TaskWritten(s, t, row).tasks = Put(s.tasks, t, row)
           /\ TaskWritten(s, t, row).goals = s.goals /\ TaskWritten(s, t, row).waits = s.waits
<1> DEFINE p == TaskWritten(s, t, row)
           q == Progressed(s, TaskKey(t))
<1>1. Retires(s, q, Of(s, TaskKey(t)), {TaskKey(t)}) /\ SameWork(q, s) /\ IsLedger(q)
  BY ProgressedFacts DEF Retires
<1> HIDE DEF q
<1>2. IsFcn(Put(s.tasks, t, row))
  BY PutFacts
<1>3. p = SetTasks(q, Put(s.tasks, t, row))
  BY DEF q, TaskWritten
<1>4. p.tasks = Put(s.tasks, t, row) /\ p.goals = s.goals /\ p.waits = s.waits
  BY <1>1, <1>3, Written DEF SameWork
<1> QED
  BY <1>1, <1>2, <1>3, <1>4, RetiresAndWrites

(* p is s after the progress of task t, and of the goal it reaches. *)
TaskMoved(s, p, t, row, now) ==
    /\ p.tasks = Put(s.tasks, t, row) /\ p.waits = s.waits
    /\ LinkedGoal(t) = {} =>
         p.goals = s.goals /\ Retires(s, p, Of(s, TaskKey(t)), {TaskKey(t)})
    /\ LinkedGoal(t) # {} =>
         /\ p.goals = Put(s.goals, Reached(t), GoalAfter(Reached(t), t, row, now))
         /\ Retires(s, p, Of(s, TaskKey(t)) \cup Of(s, GoalKey(Reached(t))),
                    {TaskKey(t)} \cup {GoalKey(Reached(t))})

(* update_task *)
LEMMA TaskProgressFacts ==
    ASSUME NEW s, IsLedger(s), NEW t, NEW row, NEW now, NEW p, p = TaskProgress(s, t, row, now)
    PROVE  TaskMoved(s, p, t, row, now)
<1> DEFINE s1 == TaskWritten(s, t, row)
<1>1. /\ Retires(s, s1, Of(s, TaskKey(t)), {TaskKey(t)})
      /\ s1.tasks = Put(s.tasks, t, row) /\ s1.goals = s.goals /\ s1.waits = s.waits
  BY TaskWrittenFacts
<1>2. IsLedger(s1)
  BY <1>1 DEF Retires
<1>3. CASE LinkedGoal(t) = {}
  <2>1. p = s1
    BY <1>3 DEF TaskProgress, TaskWritten, SetTasks, TaskKey
  <2> QED
    BY <1>1, <1>3, <2>1 DEF TaskMoved
<1>4. CASE LinkedGoal(t) # {}
  <2> DEFINE g == Reached(t)
             q == Progressed(s1, GoalKey(g))
             f == Put(s.goals, g, GoalAfter(g, t, row, now))
  <2>1. p = SetGoals(q, f)
    BY <1>4 DEF TaskProgress, TaskWritten, SetTasks, SetGoals, TaskKey, GoalKey, Reached
  <2> HIDE DEF s1
  <2>2. Retires(s1, q, Of(s1, GoalKey(g)), {GoalKey(g)}) /\ SameWork(q, s1) /\ IsLedger(q)
    BY <1>2, ProgressedFacts DEF Retires
  <2>3. IsFcn(f)
    BY PutFacts
  <2>4. Of(s1, GoalKey(g)) = Of(s, GoalKey(g))
    BY <1>1 DEF Retires, Of
  <2> HIDE DEF q, f, g
  <2>5. Retires(s, q, Of(s, TaskKey(t)) \cup Of(s, GoalKey(g)), {TaskKey(t)} \cup {GoalKey(g)})
    BY <1>1, <2>2, <2>4, RetiresTwice
  <2>6. Retires(s, p, Of(s, TaskKey(t)) \cup Of(s, GoalKey(g)), {TaskKey(t)} \cup {GoalKey(g)})
    BY <2>1, <2>3, <2>5, RetiresAndWrites
  <2>7. p.tasks = Put(s.tasks, t, row) /\ p.waits = s.waits /\ p.goals = f
    BY <1>1, <2>1, <2>2, Written DEF SameWork
  <2> QED
    BY <1>4, <2>6, <2>7 DEF g, f, TaskMoved
<1> QED
  BY <1>3, <1>4

(* The attentions and marks that go with the care of the waiter n. *)
WaitIds(s, n) == Of(s, <<"wait", n>>) \cup OpenCycles(s, n)
WaitKeys(s, n) == {a.key : a \in OpenCycles(s, n)}

(* p is s with that care retired and the waits w. *)
WaitWritten(s, n, p, w) ==
    /\ Retires(s, p, WaitIds(s, n), WaitKeys(s, n))
    /\ p.tasks = s.tasks /\ p.goals = s.goals /\ p.waits = w

(* replace_wait_with_care and delete_wait *)
LEMMA WaitWrittenFacts ==
    ASSUME NEW s, IsLedger(s), NEW n, NEW row
    PROVE  /\ WaitWritten(s, n, WaitReplaced(s, n, row), Put(s.waits, n, row))
           /\ WaitWritten(s, n, WaitDeleted(s, n), Restrict(s.waits, DOMAIN s.waits \ {n}))
<1> DEFINE q == WaitRetired(s, n)
           f == Put(s.waits, n, row)
           g == Restrict(s.waits, DOMAIN s.waits \ {n})
<1>1. Retires(s, q, WaitIds(s, n), WaitKeys(s, n)) /\ SameWork(q, s) /\ IsLedger(q)
  BY WaitRetiredFacts DEF Retires, WaitIds, WaitKeys
<1>2. IsFcn(f) /\ IsFcn(g)
  <2>1. IsFcn(f)
    BY PutFacts
  <2>2. IsFcn(g)
    BY DEF Restrict, IsFcn
  <2> QED
    BY <2>1, <2>2
<1>3. /\ WaitReplaced(s, n, row) = SetWaits(q, f)
      /\ WaitDeleted(s, n) = SetWaits(q, g)
  BY DEF WaitReplaced, WaitDeleted, SetWaits
<1> HIDE DEF q, f, g
<1>4. /\ SetWaits(q, f).waits = f /\ SetWaits(q, f).tasks = s.tasks /\ SetWaits(q, f).goals = s.goals
      /\ SetWaits(q, g).waits = g /\ SetWaits(q, g).tasks = s.tasks /\ SetWaits(q, g).goals = s.goals
  BY <1>1, Written DEF SameWork
<1>5. /\ Retires(s, SetWaits(q, f), WaitIds(s, n), WaitKeys(s, n))
      /\ Retires(s, SetWaits(q, g), WaitIds(s, n), WaitKeys(s, n))
  BY <1>1, <1>2, RetiresAndWrites
<1> QED
  BY <1>3, <1>4, <1>5 DEF f, g, WaitWritten

(* reset_silence_care *)
LEMMA SaidFacts ==
    ASSUME NEW s, IsLedger(s), NEW n
    PROVE  /\ Retires(s, Said(s, n), Of(s, Silence), {Silence})
           /\ SameWork(Said(s, n), s) /\ Said(s, n).last = n
<1> DEFINE p == Progressed(s, Silence)
<1>1. Said(s, n) = SetLast(p, n)
  BY DEF Said, SetLast
<1>2. Retires(s, p, Of(s, Silence), {Silence}) /\ SameWork(p, s) /\ IsLedger(p)
  BY ProgressedFacts DEF Retires
<1> HIDE DEF p
<1>3. SameWork(SetLast(p, n), s) /\ SetLast(p, n).last = n
  BY <1>2, Written DEF SameWork
<1> QED
  BY <1>1, <1>2, <1>3, RetiresAndWrites

(* pause_room_attentions *)
LEMMA PausedFacts ==
    ASSUME NEW s, IsLedger(s)
    PROVE  /\ Retires(s, Paused(s), {}, DOMAIN s.marks) /\ SameWork(Paused(s), s)
           /\ DOMAIN Paused(s).marks = {} /\ Paused(s).last = s.last
<1>1. Paused(s) = SetMarks(s, <<>>)
  BY DEF Paused, SetMarks
<1>2. IsFcn(<<>>) /\ DOMAIN <<>> = {}
  BY DEF IsFcn
<1>3. IsLedger(Paused(s))
  BY <1>1, <1>2, WrittenLedger
<1>4. /\ Paused(s).marks = <<>> /\ Paused(s).att = s.att
      /\ SameWork(Paused(s), s) /\ Paused(s).last = s.last
  BY <1>1, Written DEF SameWork
<1> QED
  BY <1>2, <1>3, <1>4 DEF Retires

-----------------------------------------------------------------------------
(* Signals *)

(* write_care on the rows. *)
LEMMA WriteCareFacts ==
    ASSUME NEW s, IsLedger(s), NEW a, NEW owner, NEW p, p = WriteCare(s, a, owner)
    PROVE  /\ IsLedger(p) /\ SameWork(p, s) /\ p.marks = s.marks /\ p.last = s.last
           /\ DOMAIN p.att = DOMAIN s.att \cup {a}
           /\ \A b \in DOMAIN s.att \ {a} : p.att[b] = s.att[b]
           /\ a \in DOMAIN s.att => /\ p.att[a].st = s.att[a].st /\ p.att[a].by = s.att[a].by
                                    /\ p.att[a].seen = s.att[a].seen
           /\ ~Frozen(s, a) => p.att[a].st = "open" /\ p.att[a].owner = owner
<1>1. CASE Frozen(s, a)
  BY <1>1 DEF WriteCare, Frozen, SameWork
<1>2. CASE ~Frozen(s, a)
  <2> DEFINE r == IF a \in DOMAIN s.att THEN [s.att[a] EXCEPT !.owner = owner]
                  ELSE [st |-> "open", owner |-> owner, by |-> None, seen |-> FALSE]
             f == Put(s.att, a, r)
  <2>1. p = SetAtt(s, f)
    BY <1>2 DEF WriteCare, SetAtt
  <2>2. /\ IsAtt(r) /\ r.st = "open" /\ r.owner = owner
        /\ a \in DOMAIN s.att => r.st = s.att[a].st /\ r.by = s.att[a].by /\ r.seen = s.att[a].seen
    <3>1. CASE a \in DOMAIN s.att
      <4>1. s.att[a] = [st |-> s.att[a].st, owner |-> s.att[a].owner, by |-> s.att[a].by, seen |-> s.att[a].seen]
        BY <3>1 DEF IsLedger, IsAtt
      <4>2. r = [st |-> s.att[a].st, owner |-> owner, by |-> s.att[a].by, seen |-> s.att[a].seen]
        BY <3>1, <4>1
      <4> QED
        BY <1>2, <3>1, <4>2 DEF IsAtt, Frozen
    <3>2. CASE a \notin DOMAIN s.att
      BY <3>2 DEF IsAtt
    <3> QED
      BY <3>1, <3>2
  <2> HIDE DEF r
  <2>3. /\ IsFcn(f) /\ DOMAIN f = DOMAIN s.att \cup {a} /\ f[a] = r
        /\ \A b \in DOMAIN s.att \ {a} : f[b] = s.att[b]
    BY DEF Put, IsFcn
  <2> HIDE DEF f
  <2>4. \A b \in DOMAIN f : IsAtt(f[b])
    BY <2>2, <2>3 DEF IsLedger
  <2>5. IsLedger(p)
    BY <2>1, <2>3, <2>4, WrittenLedger
  <2>6. p.att = f /\ SameWork(p, s) /\ p.marks = s.marks /\ p.last = s.last
    BY <2>1, Written DEF SameWork
  <2> QED
    BY <1>2, <2>2, <2>3, <2>5, <2>6
<1> QED
  BY <1>1, <1>2

(* publish_care_signal *)
LEMMA MirrorFacts ==
    ASSUME NEW m, IsLedger(m), NEW d, IsLedger(d), NEW ids, ids \subseteq DOMAIN d.att,
           NEW p, p = Mirror(m, d, ids)
    PROVE  /\ IsLedger(p) /\ SameWork(p, m) /\ p.marks = m.marks /\ p.last = m.last
           /\ DOMAIN p.att = DOMAIN m.att \cup ids
           /\ \A b \in ids : p.att[b] = d.att[b]
           /\ \A b \in DOMAIN m.att \ ids : p.att[b] = m.att[b]
<1> DEFINE f == Over(m.att, [a \in ids |-> d.att[a]])
<1>1. p = SetAtt(m, f)
  BY DEF Mirror, SetAtt
<1>2. /\ IsFcn(f) /\ DOMAIN f = DOMAIN m.att \cup ids
      /\ \A b \in ids : f[b] = d.att[b]
      /\ \A b \in DOMAIN m.att \ ids : f[b] = m.att[b]
  BY DEF Over, IsFcn
<1> HIDE DEF f
<1>3. \A b \in DOMAIN f : IsAtt(f[b])
  BY <1>2 DEF IsLedger
<1>4. IsLedger(p)
  BY <1>1, <1>2, <1>3, WrittenLedger
<1>5. p.att = f /\ SameWork(p, m) /\ p.marks = m.marks /\ p.last = m.last
  BY <1>1, Written DEF SameWork
<1> QED
  BY <1>2, <1>4, <1>5

(* An attempt is counted. *)
LEMMA MarkedFacts ==
    ASSUME NEW s, IsLedger(s), NEW key
    PROVE  /\ IsLedger(Marked(s, key)) /\ SameWork(Marked(s, key), s)
           /\ Marked(s, key).att = s.att /\ Marked(s, key).last = s.last
           /\ DOMAIN Marked(s, key).marks = DOMAIN s.marks \cup {key}
           /\ Marked(s, key).marks[key] = Count(s, key) + 1
           /\ \A k \in DOMAIN s.marks \ {key} : Marked(s, key).marks[k] = s.marks[k]
<1> DEFINE f == Put(s.marks, key, Count(s, key) + 1)
<1>1. Marked(s, key) = SetMarks(s, f)
  BY DEF Marked, SetMarks
<1>2. /\ IsFcn(f) /\ DOMAIN f = DOMAIN s.marks \cup {key} /\ f[key] = Count(s, key) + 1
      /\ \A k \in DOMAIN s.marks \ {key} : f[k] = s.marks[k]
  BY DEF Put, IsFcn
<1> HIDE DEF f
<1>3. IsLedger(Marked(s, key))
  BY <1>1, <1>2, WrittenLedger
<1>4. /\ Marked(s, key).marks = f /\ Marked(s, key).att = s.att
      /\ Marked(s, key).last = s.last /\ SameWork(Marked(s, key), s)
  BY <1>1, Written DEF SameWork
<1> QED
  BY <1>2, <1>3, <1>4

(* Both copies count the attempt. *)
LEMMA MarkedAgree ==
    ASSUME NEW m, NEW d, IsLedger(m), IsLedger(d), NEW key, NEW W, SameCare(m, d, W)
    PROVE  SameCare(Marked(m, key), Marked(d, key), W)
<1>1. key # Silence => Count(m, key) = Count(d, key)
  BY DEF SameCare, Count
<1> QED
  BY <1>1, MarkedFacts DEF SameCare

(* Memory takes over what the rows now say of the attentions ids. *)
LEMMA MirrorAgrees ==
    ASSUME NEW m, NEW d, NEW d2, IsLedger(m), IsLedger(d2), NEW ids, ids \subseteq DOMAIN d2.att,
           NEW W, SameCare(m, d, W), \A b \in ids \cap W : b.key # Silence => Shown(d2.att[b]),
           d2.marks = d.marks, DOMAIN d2.att = DOMAIN d.att \cup ids,
           \A b \in DOMAIN d.att \ ids : d2.att[b] = d.att[b]
    PROVE  SameCare(Mirror(m, d2, ids), d2, W)
<1> DEFINE p == Mirror(m, d2, ids)
<1>1. /\ p.marks = m.marks /\ DOMAIN p.att = DOMAIN m.att \cup ids
      /\ \A b \in ids : p.att[b] = d2.att[b]
      /\ \A b \in DOMAIN m.att \ ids : p.att[b] = m.att[b]
  BY MirrorFacts
<1> HIDE DEF p
<1>2. W \subseteq DOMAIN d2.att
  BY DEF SameCare
<1>3. ASSUME NEW a \in DOMAIN p.att \cup DOMAIN d2.att, a.key # Silence
      PROVE  /\ a \in DOMAIN p.att \cap DOMAIN d2.att
             /\ d2.att[a] = IF a \in W THEN SeenRow(p.att[a]) ELSE p.att[a]
  <2>1. CASE a \in ids
    <3>1. IsAtt(d2.att[a])
      BY <2>1 DEF IsLedger
    <3>2. a \in W => SeenRow(d2.att[a]) = d2.att[a]
      BY <1>3, <2>1, <3>1, SeenRowFacts
    <3> QED
      BY <1>1, <2>1, <3>2
  <2>2. CASE a \notin ids
    <3>1. a \in DOMAIN m.att \cup DOMAIN d.att
      BY <1>1, <1>3, <2>2
    <3>2. a \in DOMAIN m.att /\ a \in DOMAIN d.att /\ d.att[a] = IF a \in W THEN SeenRow(m.att[a]) ELSE m.att[a]
      BY <1>3, <3>1 DEF SameCare
    <3> QED
      BY <1>1, <2>2, <3>2
  <2> QED
    BY <2>1, <2>2
<1>4. \A k \in DOMAIN p.marks \cup DOMAIN d2.marks : k # Silence =>
         k \in DOMAIN p.marks \cap DOMAIN d2.marks /\ p.marks[k] = d2.marks[k]
  BY <1>1 DEF SameCare
<1> QED
  BY <1>2, <1>3, <1>4 DEF SameCare, p

(* Nothing that was sent is taken back. *)
Grows(box, b) ==
    \A k : /\ Cardinality(Sent(box, k)) \in Nat /\ Cardinality(Sent(b, k)) \in Nat
           /\ Cardinality(Sent(box, k)) <= Cardinality(Sent(b, k))

(* What is sent, once more deliveries follow. *)
LEMMA ConcatFacts ==
    ASSUME NEW d, NEW b1, NEW b2, IsBox(b1), IsBox(b2), Backed(d, b1), Backed(d, b2), NEW b, b = b1 \o b2
    PROVE  /\ IsBox(b) /\ Backed(d, b) /\ Grows(b1, b)
           /\ \A k : Sent(b2, k) # {} => Cardinality(Sent(b1, k)) + 1 <= Cardinality(Sent(b, k))
<1>1. /\ Len(b1) \in Nat /\ DOMAIN b1 = 1..Len(b1) /\ Len(b2) \in Nat /\ DOMAIN b2 = 1..Len(b2)
  BY DEF IsBox
<1>2. /\ b \in Seq(Range(b1) \cup Range(b2)) /\ Len(b) = Len(b1) + Len(b2) /\ DOMAIN b = 1..Len(b)
      /\ \A i \in 1..Len(b) : b[i] = IF i <= Len(b1) THEN b1[i] ELSE b2[i - Len(b1)]
  <2>1. b1 \in Seq(Range(b1) \cup Range(b2)) /\ b2 \in Seq(Range(b1) \cup Range(b2))
    <3>1. b1 \in Seq(Range(b1)) /\ b2 \in Seq(Range(b2))
      BY DEF IsBox
    <3>2. \A S, T, q : S \subseteq T /\ q \in Seq(S) => q \in Seq(T)
      OBVIOUS
    <3> QED
      BY <3>1, <3>2
  <2> QED
    BY <2>1
<1>3. b \in Seq(Range(b))
  <2>1. \A i \in 1..Len(b) : b[i] \in Range(b)
    BY <1>2 DEF Range
  <2>2. Len(b) \in Nat
    BY <1>1, <1>2
  <2>3. b \in Seq(Range(b1) \cup Range(b2))
    BY <1>2
  <2>4. b = [i \in 1..Len(b) |-> b[i]]
    BY ONLY <2>3
  <2> QED
    BY ONLY <2>1, <2>2, <2>4
<1>4. ASSUME NEW i \in DOMAIN b
      PROVE  /\ IsDelivery(b[i]) /\ b[i].att \in DOMAIN d.att
             /\ ~b[i].acked => d.att[b[i].att].st # "resolved"
  <2>1. CASE i <= Len(b1)
    BY <1>1, <1>2, <2>1 DEF IsBox, Backed
  <2>2. CASE ~(i <= Len(b1))
    <3>1. i - Len(b1) \in DOMAIN b2 /\ b[i] = b2[i - Len(b1)]
      BY <1>1, <1>2, <2>2
    <3> QED
      BY <3>1 DEF IsBox, Backed
  <2> QED
    BY <2>1, <2>2
<1>5. ASSUME NEW k
      PROVE  /\ Cardinality(Sent(b1, k)) \in Nat /\ Cardinality(Sent(b, k)) \in Nat
             /\ Cardinality(Sent(b1, k)) <= Cardinality(Sent(b, k))
             /\ Sent(b2, k) # {} => Cardinality(Sent(b1, k)) + 1 <= Cardinality(Sent(b, k))
  <2>1. IsFiniteSet(1..Len(b)) /\ IsFiniteSet(1..Len(b1))
    <3>1. 1 \in Int /\ Len(b) \in Int /\ Len(b1) \in Int
      BY <1>1, <1>2
    <3> QED
      BY <3>1, FS_Interval
  <2>2. /\ Sent(b, k) \subseteq 1..Len(b) /\ Sent(b1, k) \subseteq 1..Len(b1)
        /\ Sent(b1, k) \subseteq Sent(b, k)
    BY <1>1, <1>2 DEF Sent
  <2>3. /\ IsFiniteSet(Sent(b, k)) /\ IsFiniteSet(Sent(b1, k))
        /\ Cardinality(Sent(b1, k)) \in Nat /\ Cardinality(Sent(b, k)) \in Nat
        /\ Cardinality(Sent(b1, k)) <= Cardinality(Sent(b, k))
    BY <2>1, <2>2, FS_Subset, FS_CardinalityType
  <2>4. ASSUME NEW j \in Sent(b2, k) PROVE Cardinality(Sent(b1, k)) + 1 <= Cardinality(Sent(b, k))
    <3>1. j + Len(b1) \in Sent(b, k) /\ j + Len(b1) \notin Sent(b1, k)
      <4>1. j \in 1..Len(b2) /\ b2[j].att.key = k
        BY <1>1 DEF Sent
      <4>2. j + Len(b1) \in 1..Len(b) /\ ~(j + Len(b1) <= Len(b1)) /\ (j + Len(b1)) - Len(b1) = j
        BY <1>1, <1>2, <4>1
      <4>3. b[j + Len(b1)] = b2[j]
        BY <1>2, <4>2
      <4> QED
        BY <1>1, <1>2, <4>1, <4>2, <4>3 DEF Sent
    <3>2. Cardinality(Sent(b1, k) \cup {j + Len(b1)}) = Cardinality(Sent(b1, k)) + 1
      BY <2>3, <3>1, FS_AddElement
    <3>3. Sent(b1, k) \cup {j + Len(b1)} \subseteq Sent(b, k)
      BY <2>2, <3>1
    <3> QED
      BY <2>3, <3>2, <3>3, FS_Subset
  <2> QED
    BY <2>3, <2>4
<1> QED
  BY <1>3, <1>4, <1>5, <1>2 DEF IsBox, Backed, Grows

(* A mark that is paid for stays so when a further delivery pays it. *)
LEMMA MarkedPaid ==
    ASSUME NEW s, IsLedger(s), NEW key, NEW b1, NEW b, Paid(s, b1), Grows(b1, b),
           Cardinality(Sent(b1, key)) + 1 <= Cardinality(Sent(b, key))
    PROVE  Paid(Marked(s, key), b)
<1>1. Count(s, key) \in Nat /\ Count(s, key) <= Cardinality(Sent(b1, key))
  BY DEF Count, Paid, Grows
<1>2. ASSUME NEW k \in DOMAIN Marked(s, key).marks
      PROVE  Marked(s, key).marks[k] \in Nat /\ Marked(s, key).marks[k] <= Cardinality(Sent(b, k))
  <2>1. CASE k = key
    <3>1. Marked(s, key).marks[k] = Count(s, key) + 1
      BY <2>1, MarkedFacts
    <3> QED
      BY <1>1, <2>1, <3>1 DEF Grows
  <2>2. CASE k # key
    <3>1. k \in DOMAIN s.marks /\ Marked(s, key).marks[k] = s.marks[k]
      BY <1>2, <2>2, MarkedFacts
    <3>2. s.marks[k] \in Nat /\ s.marks[k] <= Cardinality(Sent(b1, k))
      BY <3>1 DEF Paid
    <3> QED
      BY <3>1, <3>2 DEF Grows
  <2> QED
    BY <2>1, <2>2
<1> QED
  BY <1>2 DEF Paid

-----------------------------------------------------------------------------
(* The inductive invariant *)

IsGoal(r) == r = [all |-> r.all, tasks |-> r.tasks, st |-> r.st, gen |-> r.gen]

IsRoom(r) ==
    /\ r = [lead |-> r.lead, to |-> r.to, archived |-> r.archived, sealed |-> r.sealed]
    /\ r.archived \in BOOLEAN /\ r.sealed \in BOOLEAN

(* Every task of the goal r is done in the tasks f. *)
AllDone(r, f) == r.all /\ r.tasks # {} /\ \A t \in r.tasks : t \in DOMAIN f /\ f[t].st = "done"

(* One active goal, its lead, and something left to do. *)
Accountable(m, lead) ==
    /\ \A g \in DOMAIN m.goals : IsGoal(m.goals[g])
    /\ \A g \in DOMAIN m.goals : m.goals[g].st = "active" =>
          /\ lead # None /\ ~AllDone(m.goals[g], m.tasks)
          /\ \A h \in DOMAIN m.goals : m.goals[h].st = "active" => h = g

(* The two copies and the outbox, whatever the state of the loca. *)
Books(m, d, box) == IsLedger(m) /\ IsLedger(d) /\ IsBox(box) /\ Backed(d, box)

(* The copies agree while the loca exists, and an archived one has no mark. *)
Agree(m, d, r, W) ==
    /\ ~r.sealed => SameWork(m, d) /\ SameCare(m, d, W)
    /\ r.archived => DOMAIN m.marks = {} /\ DOMAIN d.marks = {}

CareInv ==
    /\ scene \in Scenes /\ davets \subseteq Principal
    /\ IsRoom(room)
    /\ Books(mem, db, outbox) /\ Paid(mem, outbox) /\ Paid(db, outbox)
    /\ Agree(mem, db, room, unmirrored)
    /\ Accountable(mem, room.lead)

-----------------------------------------------------------------------------
(* Steps that only retire *)

(* The two copies retire the same care, but for the silence. *)
Alike(m, d, im, id, km, kd) ==
    /\ \A a \in DOMAIN m.att \cup DOMAIN d.att : a.key # Silence => (a \in im <=> a \in id)
    /\ \A k \in DOMAIN m.marks \cup DOMAIN d.marks : k # Silence => (k \in km <=> k \in kd)

(* Both copies retire, and the deliveries of what the rows retire are acked. *)
LEMMA RetireStep ==
    ASSUME NEW m, NEW d, NEW box, NEW r, Books(m, d, box), Paid(m, box), Paid(d, box), IsRoom(r), NEW W, Agree(m, d, r, W),
           NEW m2, NEW d2, NEW im, NEW id, NEW km, NEW kd, NEW acks,
           Retires(m, m2, im, km), Retires(d, d2, id, kd), id \subseteq acks
    PROVE  /\ Books(m2, d2, Acked(box, acks))
           /\ Paid(m2, Acked(box, acks)) /\ Paid(d2, Acked(box, acks))
           /\ r.archived => DOMAIN m2.marks = {} /\ DOMAIN d2.marks = {}
           /\ ~r.sealed /\ Alike(m, d, im, id, km, kd) => SameCare(m2, d2, W)
<1>1. IsLedger(m2) /\ IsLedger(d2) /\ IsLedger(d) /\ IsBox(box) /\ Backed(d, box)
  BY DEF Retires, Books
<1>2. IsBox(Acked(box, acks)) /\ Backed(d2, Acked(box, acks))
  BY <1>1, RetiresBacked
<1>3. Paid(m2, Acked(box, acks)) /\ Paid(d2, Acked(box, acks))
  BY <1>1, RetiresPaid
<1>4. r.archived => DOMAIN m2.marks = {} /\ DOMAIN d2.marks = {}
  BY DEF Retires, Agree
<1>5. ASSUME ~r.sealed, Alike(m, d, im, id, km, kd)
      PROVE  SameCare(m2, d2, W)
  <2>1. SameCare(m, d, W) /\ IsLedger(m)
    BY <1>5 DEF Agree, Books
  <2> QED
    BY <1>1, <1>5, <2>1, RetiresAgree DEF Alike
<1> QED
  BY <1>1, <1>2, <1>3, <1>4, <1>5 DEF Books

(* The rows of an attention are the same in both copies, but for the silence. *)
LEMMA OfAgree ==
    ASSUME NEW m, NEW d, IsLedger(m), IsLedger(d), NEW W, SameCare(m, d, W), NEW a \in DOMAIN m.att \cup DOMAIN d.att, a.key # Silence
    PROVE  /\ \A k : a \in Of(m, k) <=> a \in Of(d, k)
           /\ \A n : a \in OpenCycles(m, n) <=> a \in OpenCycles(d, n)
<1>1. a \in DOMAIN m.att /\ a \in DOMAIN d.att /\ m.att[a].st = d.att[a].st
  <2>1. RowAgrees(m, d, W, a)
    BY SameCareRow
  <2> QED
    BY ONLY <2>1 DEF RowAgrees
<1> QED
  BY <1>1 DEF Of, OpenCycles

LEMMA WaitsAgree ==
    ASSUME NEW m, NEW d, IsLedger(m), IsLedger(d), NEW W, SameCare(m, d, W), NEW n
    PROVE  Alike(m, d, WaitIds(m, n), WaitIds(d, n), WaitKeys(m, n), WaitKeys(d, n))
<1>1. ASSUME NEW a \in DOMAIN m.att \cup DOMAIN d.att, a.key # Silence
      PROVE  a \in WaitIds(m, n) <=> a \in WaitIds(d, n)
  BY <1>1, OfAgree DEF WaitIds
<1>2. ASSUME NEW k, k # Silence PROVE k \in WaitKeys(m, n) <=> k \in WaitKeys(d, n)
  <2>1. \A a \in OpenCycles(m, n) : a \in DOMAIN m.att
    BY DEF OpenCycles
  <2>2. \A a \in OpenCycles(d, n) : a \in DOMAIN d.att
    BY DEF OpenCycles
  <2>3. \A a : a.key = k => (a \in OpenCycles(m, n) <=> a \in OpenCycles(d, n))
    BY <1>2, <2>1, <2>2, OfAgree
  <2> QED
    BY <2>3 DEF WaitKeys
<1> QED
  BY <1>1, <1>2 DEF Alike

-----------------------------------------------------------------------------
(* Steps that signal *)

(* A delivery is appended unless the attention was frozen or nobody owns it. *)
LEMMA EnqueueFacts ==
    ASSUME NEW d, NEW box, NEW s, NEW a, NEW owner, IsBox(box), Backed(d, box), a \in DOMAIN d.att,
           ~Frozen(s, a) => d.att[a].st # "resolved", NEW b, b = Enqueue(box, s, a, owner)
    PROVE  /\ IsBox(b) /\ Backed(d, b) /\ Grows(box, b)
           /\ ~Frozen(s, a) /\ owner # None =>
                 Cardinality(Sent(box, a.key)) + 1 <= Cardinality(Sent(b, a.key))
<1> DEFINE row == [att |-> a, owner |-> owner, home |-> owner = Caretaker, acked |-> FALSE]
           one == <<row>>
<1>1. IsDelivery(row) /\ row.att = a
  BY DEF IsDelivery
<1>2. IsBox(one) /\ DOMAIN one = {1} /\ one[1] = row
  <2>1. one \in Seq({row}) /\ DOMAIN one = {1} /\ one[1] = row
    OBVIOUS
  <2>2. Range(one) = {row}
    BY <2>1 DEF Range
  <2> HIDE DEF one, row
  <2> QED
    BY <1>1, <2>1, <2>2 DEF IsBox
<1>3. Sent(one, a.key) # {}
  BY <1>1, <1>2 DEF Sent
<1>4. CASE Frozen(s, a) \/ owner = None
  <2>1. b = box
    BY <1>4 DEF Enqueue
  <2>2. \A k : Cardinality(Sent(box, k)) \in Nat
    <3> SUFFICES ASSUME NEW k PROVE Cardinality(Sent(box, k)) \in Nat
      OBVIOUS
    <3>1. Len(box) \in Nat /\ DOMAIN box = 1..Len(box)
      BY DEF IsBox
    <3>2. 1 \in Int /\ Len(box) \in Int
      BY <3>1
    <3>3. IsFiniteSet(1..Len(box))
      BY <3>2, FS_Interval
    <3>4. Sent(box, k) \subseteq 1..Len(box)
      BY <3>1 DEF Sent
    <3>5. IsFiniteSet(Sent(box, k))
      BY <3>3, <3>4, FS_Subset
    <3> QED
      BY <3>5, FS_CardinalityType
  <2> QED
    BY <1>4, <2>1, <2>2 DEF Grows
<1>5. CASE ~Frozen(s, a) /\ owner # None
  <2>1. box \in Seq(Range(box))
    BY DEF IsBox
  <2>2. b = Append(box, row)
    BY <1>5 DEF Enqueue
  <2>3. b = box \o one
    <3>1. box \in Seq(Range(box) \cup {row})
      <4>1. \A S, T, q : S \subseteq T /\ q \in Seq(S) => q \in Seq(T)
        OBVIOUS
      <4> HIDE DEF row
      <4> QED
        BY <2>1, <4>1
    <3>2. row \in Range(box) \cup {row}
      OBVIOUS
    <3> HIDE DEF row
    <3>3. Append(box, row) = box \o <<row>>
      BY <3>1, <3>2
    <3> QED
      BY <2>2, <3>3 DEF row
  <2>4. Backed(d, one)
    BY <1>1, <1>2, <1>5 DEF Backed
  <2> HIDE DEF one, row
  <2> QED
    BY <1>2, <1>3, <2>3, <2>4, ConcatFacts
<1> QED
  BY <1>4, <1>5

(* Marks that do not change stay paid while the outbox grows. *)
LEMMA PaidGrows ==
    ASSUME NEW s, NEW s2, NEW box, NEW b, Paid(s, box), s2.marks = s.marks, Grows(box, b)
    PROVE  Paid(s2, b)
<1>1. ASSUME NEW k \in DOMAIN s2.marks
      PROVE  s2.marks[k] \in Nat /\ s2.marks[k] <= Cardinality(Sent(b, k))
  <2>1. s.marks[k] \in Nat /\ s.marks[k] <= Cardinality(Sent(box, k))
    BY <1>1 DEF Paid
  <2> QED
    BY <2>1 DEF Grows
<1> QED
  BY <1>1 DEF Paid

(* write_care, its delivery and the copy in memory.  s is the copy that decides *)
(* whether the attention is frozen.                                             *)
LEMMA SignalStep ==
    ASSUME NEW m, NEW d, NEW box, NEW s, NEW a, NEW owner, Books(m, d, box),
           Frozen(s, a) <=> Frozen(d, a),
           NEW d2, d2 = WriteCare(d, a, owner), NEW m2, m2 = Mirror(m, d2, {a}),
           NEW b, b = Enqueue(box, s, a, owner)
    PROVE  /\ Books(m2, d2, b) /\ Grows(box, b)
           /\ SameWork(m2, m) /\ SameWork(d2, d) /\ m2.marks = m.marks /\ d2.marks = d.marks
           /\ SameCare(m, d, unmirrored) => SameCare(m2, d2, unmirrored)
           /\ ~Frozen(s, a) /\ owner # None =>
                 Cardinality(Sent(box, a.key)) + 1 <= Cardinality(Sent(b, a.key))
<1>1. IsLedger(m) /\ IsLedger(d) /\ IsBox(box) /\ Backed(d, box)
  BY DEF Books
<1>2. /\ IsLedger(d2) /\ SameWork(d2, d) /\ d2.marks = d.marks
      /\ DOMAIN d2.att = DOMAIN d.att \cup {a}
      /\ \A c \in DOMAIN d.att \ {a} : d2.att[c] = d.att[c]
      /\ a \in DOMAIN d.att => d2.att[a].st = d.att[a].st /\ d2.att[a].seen = d.att[a].seen
      /\ ~Frozen(d, a) => d2.att[a].st = "open"
  BY <1>1, WriteCareFacts
<1>3. {a} \subseteq DOMAIN d2.att
  BY <1>2
<1>4. IsLedger(m2) /\ SameWork(m2, m) /\ m2.marks = m.marks
  BY <1>1, <1>2, <1>3, MirrorFacts
<1>5. ASSUME SameCare(m, d, unmirrored) PROVE SameCare(m2, d2, unmirrored)
  <2>1. \A e \in {a} \cap unmirrored : e.key # Silence => Shown(d2.att[e])
    <3> SUFFICES ASSUME a \in unmirrored, a.key # Silence PROVE Shown(d2.att[a])
      OBVIOUS
    <3>1. a \in DOMAIN d.att
      BY <1>5 DEF SameCare
    <3>2. RowAgrees(m, d, unmirrored, a)
      BY <1>1, <1>5, <3>1, SameCareRow
    <3> QED
      BY <1>2, <3>1, <3>2 DEF RowAgrees, Shown
  <2> QED
    BY <1>1, <1>2, <1>3, <1>5, <2>1, MirrorAgrees
<1>6. Backed(d2, box)
  <2> SUFFICES ASSUME NEW i \in DOMAIN box
               PROVE  box[i].att \in DOMAIN d2.att /\ (~box[i].acked => d2.att[box[i].att].st # "resolved")
    BY DEF Backed
  <2>1. box[i].att \in DOMAIN d.att /\ (~box[i].acked => d.att[box[i].att].st # "resolved")
    BY <1>1 DEF Backed
  <2>2. d2.att[box[i].att].st = d.att[box[i].att].st
    BY <1>2, <2>1
  <2> QED
    BY <1>2, <2>1, <2>2
<1>7. ~Frozen(s, a) => d2.att[a].st # "resolved"
  BY <1>2
<1>8. /\ IsBox(b) /\ Backed(d2, b) /\ Grows(box, b)
      /\ ~Frozen(s, a) /\ owner # None =>
            Cardinality(Sent(box, a.key)) + 1 <= Cardinality(Sent(b, a.key))
  BY <1>1, <1>3, <1>6, <1>7, EnqueueFacts
<1> QED
  BY <1>2, <1>4, <1>5, <1>8 DEF Books

-----------------------------------------------------------------------------
(* Handlers that retire *)

LEMMA AckedNothing ==
    ASSUME NEW box, IsBox(box)
    PROVE  Acked(box, {}) = box
<1>1. DOMAIN Acked(box, {}) = DOMAIN box /\ Acked(box, {}) = [i \in DOMAIN box |-> Acked(box, {})[i]]
  BY DEF Acked
<1>2. box = [i \in DOMAIN box |-> box[i]]
  BY DEF IsBox
<1>3. ASSUME NEW i \in DOMAIN box PROVE Acked(box, {})[i] = box[i]
  <2>1. /\ box[i] = [att |-> box[i].att, owner |-> box[i].owner, home |-> box[i].home, acked |-> box[i].acked]
        /\ box[i].acked \in BOOLEAN
    BY DEF IsBox, IsDelivery
  <2>2. Acked(box, {})[i] = [box[i] EXCEPT !.acked = box[i].acked \/ box[i].att \in {}]
    BY DEF Acked
  <2>3. (box[i].acked \/ box[i].att \in {}) = box[i].acked
    BY <2>1
  <2>4. Acked(box, {})[i] = [box[i] EXCEPT !.acked = box[i].acked]
    BY <2>2, <2>3
  <2> QED
    BY ONLY <2>1, <2>4
<1> QED
  BY <1>1, <1>2, <1>3

LEMMA RetireHandler ==
    ASSUME CareInv, NEW im, NEW id, NEW km, NEW kd, NEW acks,
           Retires(mem, mem', im, km), Retires(db, db', id, kd), id \subseteq acks,
           outbox' = Acked(outbox, acks), UNCHANGED <<room, davets, unmirrored, scene>>,
           ~room.sealed => SameWork(mem', db') /\ Alike(mem, db, im, id, km, kd),
           Accountable(mem', room.lead)
    PROVE  CareInv'
<1>1. Books(mem, db, outbox) /\ Paid(mem, outbox) /\ Paid(db, outbox) /\ IsRoom(room) /\ Agree(mem, db, room, unmirrored)
  BY DEF CareInv
<1>2. /\ Books(mem', db', outbox') /\ Paid(mem', outbox') /\ Paid(db', outbox')
      /\ room.archived => DOMAIN mem'.marks = {} /\ DOMAIN db'.marks = {}
      /\ ~room.sealed /\ Alike(mem, db, im, id, km, kd) => SameCare(mem', db', unmirrored)
  BY <1>1, RetireStep
<1>3. Agree(mem', db', room', unmirrored)
  BY <1>2 DEF Agree
<1> QED
  BY <1>2, <1>3 DEF CareInv

LEMMA AccountableSame ==
    ASSUME NEW m, NEW m2, NEW lead, Accountable(m, lead), m2.goals = m.goals, m2.tasks = m.tasks
    PROVE  Accountable(m2, lead)
  BY DEF Accountable

(* Task progress reaches the active goal. *)
LEMMA AccountableTask ==
    ASSUME CareInv, NEW t, NEW row, NEW now, NEW m2,
           m2.tasks = Put(mem.tasks, t, row),
           LinkedGoal(t) = {} => m2.goals = mem.goals,
           LinkedGoal(t) # {} => m2.goals = Put(mem.goals, Reached(t), GoalAfter(Reached(t), t, row, now))
    PROVE  Accountable(m2, room.lead)
<1>1. Accountable(mem, room.lead)
  BY DEF CareInv
<1>2. /\ DOMAIN m2.tasks = DOMAIN mem.tasks \cup {t} /\ m2.tasks[t] = row
      /\ \A u \in DOMAIN mem.tasks \ {t} : m2.tasks[u] = mem.tasks[u]
  BY DEF Put
<1>3. CASE LinkedGoal(t) = {}
  <2>1. ASSUME NEW g \in DOMAIN mem.goals, mem.goals[g].st = "active"
        PROVE  ~AllDone(mem.goals[g], m2.tasks)
    <3>1. t \notin mem.goals[g].tasks
      BY <1>3, <2>1 DEF LinkedGoal
    <3>2. ~AllDone(mem.goals[g], mem.tasks)
      BY <1>1, <2>1 DEF Accountable
    <3> QED
      BY <1>2, <3>1, <3>2 DEF AllDone
  <2> QED
    BY <1>1, <1>3, <2>1 DEF Accountable
<1>4. CASE LinkedGoal(t) # {}
  <2> DEFINE g == Reached(t)
             old == mem.goals[g]
             new == GoalAfter(g, t, row, now)
             left == \E u \in old.tasks : (IF u = t THEN row.st ELSE mem.tasks[u].st) # "done"
             st == IF left THEN old.st ELSE "achieved"
  <2>1. g \in DOMAIN mem.goals /\ old.st = "active" /\ t \in old.tasks
    <3>1. g \in LinkedGoal(t)
      BY <1>4 DEF Reached
    <3> QED
      BY <3>1 DEF LinkedGoal
  <2>2. old = [all |-> old.all, tasks |-> old.tasks, st |-> old.st, gen |-> old.gen]
    BY <1>1, <2>1 DEF Accountable, IsGoal
  <2>3. new = [old EXCEPT !.gen = now, !.st = st]
    <3>1. new = [old EXCEPT !.gen = now,
                            !.st = IF \A u \in old.tasks : (IF u = t THEN row.st ELSE mem.tasks[u].st) = "done"
                                   THEN "achieved" ELSE old.st]
      BY DEF GoalAfter
    <3> QED
      BY ONLY <3>1
  <2>4. new = [all |-> old.all, tasks |-> old.tasks, st |-> st, gen |-> now]
    <3> HIDE DEF old, new, st
    <3> QED
      BY ONLY <2>2, <2>3
  <2>5. /\ DOMAIN m2.goals = DOMAIN mem.goals \cup {g} /\ m2.goals[g] = new
        /\ \A h \in DOMAIN mem.goals \ {g} : m2.goals[h] = mem.goals[h]
    <3>1. m2.goals = Put(mem.goals, g, new)
      BY <1>4
    <3> HIDE DEF g, new
    <3> QED
      BY <3>1 DEF Put
  <2>6. new.all = old.all /\ new.tasks = old.tasks /\ new.st = st /\ IsGoal(new)
    <3> HIDE DEF old, new, st
    <3> QED
      BY <2>4 DEF IsGoal
  <2>7. \A h \in DOMAIN mem.goals \ {g} : mem.goals[h].st # "active"
    BY <1>1, <2>1 DEF Accountable
  <2>8. room.lead # None
    BY <1>1, <2>1 DEF Accountable
  <2>9. new.st = "active" => ~AllDone(new, m2.tasks)
    <3> SUFFICES ASSUME new.st = "active", AllDone(new, m2.tasks) PROVE FALSE
      OBVIOUS
    <3>1. PICK u \in old.tasks : (IF u = t THEN row.st ELSE mem.tasks[u].st) # "done"
      BY <2>6
    <3>2. u \in DOMAIN m2.tasks /\ m2.tasks[u].st = "done"
      BY <2>6, <3>1 DEF AllDone
    <3> QED
      BY <1>2, <3>1, <3>2
  <2> HIDE DEF g, new, old
  <2> QED
    BY <1>1, <2>1, <2>5, <2>6, <2>7, <2>8, <2>9 DEF Accountable
<1> QED
  BY <1>3, <1>4

LEMMA UpdateTaskKeeps ==
    ASSUME CareInv, NEW t, NEW by, NEW op, NEW to, NEW st, NEW now, UpdateTask(t, by, op, to, st, now)
    PROVE  CareInv'
<1> DEFINE old == mem.tasks[t]
           assigned == IF to = None THEN old ELSE [old EXCEPT !.to = to]
           new == IF st = None THEN assigned ELSE [assigned EXCEPT !.st = st]
           goals == {<<"goal", g>> : g \in LinkedGoal(t)}
           at == Generation(gen, now, old.gen)
           then == IF goals = {} THEN at
                   ELSE Generation(at, at, mem.goals[CHOOSE g \in LinkedGoal(t) : TRUE].gen)
           row == [new EXCEPT !.gen = at]
           acks == UNION {Of(db, k) : k \in goals \cup {<<"task", t>>}}
<1>1. /\ mem' = TaskProgress(mem, t, row, then) /\ db' = TaskProgress(db, t, row, then)
      /\ outbox' = Acked(outbox, acks) /\ UNCHANGED <<room, davets, unmirrored, scene>>
  BY DEF UpdateTask, Commit, CommitSignal, Unmoved
<1>2. Of(db, TaskKey(t)) \subseteq acks /\ \A g \in LinkedGoal(t) : Of(db, GoalKey(g)) \subseteq acks
  BY DEF TaskKey, GoalKey
<1> HIDE DEF old, assigned, new, goals, at, then, row, acks
<1>3. IsLedger(mem) /\ IsLedger(db) /\ Agree(mem, db, room, unmirrored)
  BY DEF CareInv, Books
<1>3a. TaskMoved(mem, mem', t, row, then)
  <2>1. mem' = TaskProgress(mem, t, row, then) /\ IsLedger(mem)
    BY <1>1, <1>3
  <2> QED
    BY ONLY <2>1, TaskProgressFacts
<1>4. /\ mem'.tasks = Put(mem.tasks, t, row) /\ mem'.waits = mem.waits
      /\ LinkedGoal(t) = {} =>
           mem'.goals = mem.goals /\ Retires(mem, mem', Of(mem, TaskKey(t)), {TaskKey(t)})
      /\ LinkedGoal(t) # {} =>
           /\ mem'.goals = Put(mem.goals, Reached(t), GoalAfter(Reached(t), t, row, then))
           /\ Retires(mem, mem', Of(mem, TaskKey(t)) \cup Of(mem, GoalKey(Reached(t))),
                      {TaskKey(t)} \cup {GoalKey(Reached(t))})
  BY ONLY <1>3a DEF TaskMoved
<1>4a. TaskMoved(db, db', t, row, then)
  <2>1. db' = TaskProgress(db, t, row, then) /\ IsLedger(db)
    BY <1>1, <1>3
  <2> QED
    BY ONLY <2>1, TaskProgressFacts
<1>5. /\ db'.tasks = Put(db.tasks, t, row) /\ db'.waits = db.waits
      /\ LinkedGoal(t) = {} =>
           db'.goals = db.goals /\ Retires(db, db', Of(db, TaskKey(t)), {TaskKey(t)})
      /\ LinkedGoal(t) # {} =>
           /\ db'.goals = Put(db.goals, Reached(t), GoalAfter(Reached(t), t, row, then))
           /\ Retires(db, db', Of(db, TaskKey(t)) \cup Of(db, GoalKey(Reached(t))),
                      {TaskKey(t)} \cup {GoalKey(Reached(t))})
  BY ONLY <1>4a DEF TaskMoved
<1>6. Accountable(mem', room.lead)
  BY <1>4, AccountableTask
<1>7. ~room.sealed => SameWork(mem', db')
  BY <1>3, <1>4, <1>5 DEF Agree, SameWork
<1>8. CASE LinkedGoal(t) = {}
  <2>1. ~room.sealed => Alike(mem, db, Of(mem, TaskKey(t)), Of(db, TaskKey(t)), {TaskKey(t)}, {TaskKey(t)})
    BY <1>3, OfAgree DEF Alike, Agree
  <2> QED
    BY <1>1, <1>2, <1>4, <1>5, <1>6, <1>7, <1>8, <2>1, RetireHandler
<1>9. CASE LinkedGoal(t) # {}
  <2> DEFINE im == Of(mem, TaskKey(t)) \cup Of(mem, GoalKey(Reached(t)))
             id == Of(db, TaskKey(t)) \cup Of(db, GoalKey(Reached(t)))
             ks == {TaskKey(t)} \cup {GoalKey(Reached(t))}
  <2>1. ~room.sealed => Alike(mem, db, im, id, ks, ks)
    BY <1>3, OfAgree DEF Alike, Agree
  <2>2. Reached(t) \in LinkedGoal(t)
    BY <1>9 DEF Reached
  <2>3. id \subseteq acks
    BY <1>2, <2>2
  <2>4. Retires(mem, mem', im, ks) /\ Retires(db, db', id, ks)
    BY <1>4, <1>5, <1>9
  <2> HIDE DEF im, id, ks
  <2> QED
    BY <1>1, <1>6, <1>7, <2>1, <2>3, <2>4, RetireHandler
<1> QED
  BY <1>8, <1>9

(* A new task is open: no goal gets finished by it. *)
LEMMA CreateTaskKeeps ==
    ASSUME CareInv, NEW to, NEW now, CreateTask(to, now)
    PROVE  CareInv'
<1> DEFINE id == Cardinality(DOMAIN mem.tasks) + 1
           row == [to |-> to, st |-> "open", gen |-> now]
           fm == Put(mem.tasks, id, row)
           fd == Put(db.tasks, id, row)
<1>1. mem' = SetTasks(mem, fm) /\ db' = SetTasks(db, fd) /\ outbox' = outbox /\ UNCHANGED <<room, davets, unmirrored, scene>>
  BY DEF CreateTask, Commit, CommitSignal, Unmoved, SetTasks
<1>2. IsFcn(fm) /\ IsFcn(fd)
  BY DEF Put, IsFcn
<1>3. /\ DOMAIN fm = DOMAIN mem.tasks \cup {id} /\ fm[id].st = "open"
      /\ \A u \in DOMAIN mem.tasks \ {id} : fm[u] = mem.tasks[u]
  BY DEF Put
<1>4. mem.tasks = db.tasks => fm = fd
  OBVIOUS
<1> HIDE DEF id, row, fm, fd
<1>5. IsLedger(mem) /\ IsLedger(db) /\ IsBox(outbox) /\ Agree(mem, db, room, unmirrored) /\ Accountable(mem, room.lead)
  BY DEF CareInv, Books
<1>6. Retires(mem, mem', {}, {}) /\ Retires(db, db', {}, {})
  <2>1. Retires(mem, mem, {}, {}) /\ Retires(db, db, {}, {})
    BY <1>5, RetiresNothing
  <2> QED
    BY <1>1, <1>2, <2>1, RetiresAndWrites
<1>7. /\ mem'.tasks = fm /\ mem'.goals = mem.goals /\ mem'.waits = mem.waits
      /\ db'.tasks = fd /\ db'.goals = db.goals /\ db'.waits = db.waits
  BY <1>1, <1>5, Written
<1>8. ~room.sealed => SameWork(mem', db') /\ Alike(mem, db, {}, {}, {}, {})
  BY <1>4, <1>5, <1>7 DEF Agree, SameWork, Alike
<1>9. Accountable(mem', room.lead)
  <2>1. ASSUME NEW g \in DOMAIN mem.goals, mem.goals[g].st = "active"
        PROVE  ~AllDone(mem.goals[g], fm)
    <3>1. ~AllDone(mem.goals[g], mem.tasks)
      BY <1>5, <2>1 DEF Accountable
    <3> QED
      BY <1>3, <3>1 DEF AllDone
  <2> QED
    BY <1>5, <1>7, <2>1 DEF Accountable
<1>10. outbox' = Acked(outbox, {})
  BY <1>1, <1>5, AckedNothing
<1> QED
  BY <1>1, <1>6, <1>8, <1>9, <1>10, RetireHandler

(* A goal is written: it is the only active one, or it is not active. *)
LEMMA AccountableGoal ==
    ASSUME NEW m, NEW m2, NEW lead, NEW g, NEW row, Accountable(m, lead), IsGoal(row),
           m2.goals = Put(m.goals, g, row), m2.tasks = m.tasks,
           row.st = "active" =>
             /\ lead # None /\ ~AllDone(row, m.tasks)
             /\ \A h \in DOMAIN m.goals \ {g} : m.goals[h].st # "active"
    PROVE  Accountable(m2, lead)
<1>1. /\ DOMAIN m2.goals = DOMAIN m.goals \cup {g} /\ m2.goals[g] = row
      /\ \A h \in DOMAIN m.goals \ {g} : m2.goals[h] = m.goals[h]
  BY DEF Put
<1> QED
  BY <1>1 DEF Accountable

(* settled goals *)
LEMMA SettledFacts ==
    ASSUME NEW r, IsGoal(r)
    PROVE  /\ IsGoal(Settled(r)) /\ Settled(r).all = r.all /\ Settled(r).tasks = r.tasks
           /\ Settled(r).st = "active" => r.st = "active" /\ ~AllDone(r, mem.tasks)
<1>1. AllGoalTasksDone(r) <=> AllDone(r, mem.tasks)
  BY DEF AllGoalTasksDone, AllDone
<1>2. CASE r.st = "active" /\ AllGoalTasksDone(r)
  <2>1. r = [all |-> r.all, tasks |-> r.tasks, st |-> r.st, gen |-> r.gen]
    BY DEF IsGoal
  <2>2. Settled(r) = [r EXCEPT !.st = "achieved"]
    BY <1>2 DEF Settled
  <2>3. Settled(r) = [all |-> r.all, tasks |-> r.tasks, st |-> "achieved", gen |-> r.gen]
    BY ONLY <2>1, <2>2
  <2> QED
    BY <2>3 DEF IsGoal
<1>3. CASE ~(r.st = "active" /\ AllGoalTasksDone(r))
  BY <1>1, <1>3 DEF Settled
<1> QED
  BY <1>2, <1>3

LEMMA CreateGoalKeeps ==
    ASSUME CareInv, NEW all, NEW tasks, NEW now, CreateGoal(all, tasks, now)
    PROVE  CareInv'
<1> DEFINE id == Cardinality(DOMAIN mem.goals) + 1
           asked == [all |-> all, tasks |-> TasksNormalized(all, tasks), st |-> "active", gen |-> now]
           row == Settled(asked)
           fm == Put(mem.goals, id, row)
           fd == Put(db.goals, id, row)
<1>1. /\ mem' = SetGoals(mem, fm) /\ db' = SetGoals(db, fd) /\ outbox' = outbox
      /\ UNCHANGED <<room, davets, unmirrored, scene>>
      /\ room.lead # None /\ \A g \in DOMAIN mem.goals : mem.goals[g].st # "active"
  BY DEF CreateGoal, Commit, CommitSignal, Unmoved, SetGoals
<1>2. IsFcn(fm) /\ IsFcn(fd) /\ (mem.goals = db.goals => fm = fd)
  BY DEF Put, IsFcn
<1>3. IsGoal(asked)
  BY DEF IsGoal
<1> HIDE DEF id, asked
<1>4. IsGoal(row) /\ (row.st = "active" => ~AllDone(row, mem.tasks))
  BY <1>3, SettledFacts DEF AllDone
<1>5. IsLedger(mem) /\ IsLedger(db) /\ IsBox(outbox) /\ Agree(mem, db, room, unmirrored) /\ Accountable(mem, room.lead)
  BY DEF CareInv, Books
<1> HIDE DEF row
<1>6. /\ mem'.goals = fm /\ mem'.tasks = mem.tasks /\ mem'.waits = mem.waits
      /\ db'.goals = fd /\ db'.tasks = db.tasks /\ db'.waits = db.waits
  BY <1>1, <1>5, Written
<1>7. Accountable(mem', room.lead)
  BY <1>1, <1>4, <1>5, <1>6, AccountableGoal
<1> HIDE DEF fm, fd
<1>8. Retires(mem, mem', {}, {}) /\ Retires(db, db', {}, {})
  <2>1. Retires(mem, mem, {}, {}) /\ Retires(db, db, {}, {})
    BY <1>5, RetiresNothing
  <2> QED
    BY <1>1, <1>2, <2>1, RetiresAndWrites
<1>9. ~room.sealed => SameWork(mem', db') /\ Alike(mem, db, {}, {}, {}, {})
  BY <1>2, <1>5, <1>6 DEF Agree, SameWork, Alike
<1>10. outbox' = Acked(outbox, {})
  BY <1>1, <1>5, AckedNothing
<1> QED
  BY <1>1, <1>7, <1>8, <1>9, <1>10, RetireHandler

LEMMA UpdateGoalKeeps ==
    ASSUME CareInv, NEW g, NEW all, NEW tasks, NEW st, NEW text, NEW now,
           UpdateGoal(g, all, tasks, st, text, now)
    PROVE  CareInv'
<1> DEFINE old == mem.goals[g]
           stat == IF st = None THEN old.st ELSE st
           asked == [old EXCEPT !.all = all, !.tasks = TasksNormalized(all, tasks), !.st = stat]
           new == Settled(asked)
           row == [new EXCEPT !.gen = Generation(gen, now, old.gen)]
           norm == TasksNormalized(all, tasks)
           at == Generation(gen, now, old.gen)
           acks == Of(db, GoalKey(g))
<1>1. /\ mem' = GoalWritten(mem, g, row) /\ db' = GoalWritten(db, g, row)
      /\ outbox' = Acked(outbox, acks)
      /\ UNCHANGED <<room, davets, unmirrored, scene>>
      /\ g \in DOMAIN mem.goals
      /\ st = "active" => \A h \in DOMAIN mem.goals \ {g} : mem.goals[h].st # "active"
      /\ asked.st = "active" => room.lead # None
  BY DEF UpdateGoal, Commit, CommitSignal, Unmoved, GoalKey
<1>2. IsLedger(mem) /\ IsLedger(db) /\ IsBox(outbox) /\ Agree(mem, db, room, unmirrored) /\ Accountable(mem, room.lead)
  BY DEF CareInv, Books
<1>3. old = [all |-> old.all, tasks |-> old.tasks, st |-> old.st, gen |-> old.gen]
  BY <1>1, <1>2 DEF Accountable, IsGoal
<1>4. asked = [all |-> all, tasks |-> norm, st |-> stat, gen |-> old.gen]
  <2> HIDE DEF old, stat, norm
  <2>1. asked = [old EXCEPT !.all = all, !.tasks = norm, !.st = stat]
    BY DEF norm
  <2> HIDE DEF asked
  <2> QED
    BY ONLY <1>3, <2>1
<1>5. IsGoal(asked) /\ asked.st = stat
  <2> HIDE DEF asked, stat, norm, old
  <2> QED
    BY <1>4 DEF IsGoal
<1> HIDE DEF asked
<1>6. /\ IsGoal(new) /\ new.all = asked.all /\ new.tasks = asked.tasks
      /\ new.st = "active" => asked.st = "active" /\ ~AllDone(asked, mem.tasks)
  BY <1>5, SettledFacts
<1> HIDE DEF new
<1>7. row = [all |-> new.all, tasks |-> new.tasks, st |-> new.st, gen |-> at]
  <2>1. new = [all |-> new.all, tasks |-> new.tasks, st |-> new.st, gen |-> new.gen]
    BY <1>6 DEF IsGoal
  <2>2. row = [new EXCEPT !.gen = at]
    OBVIOUS
  <2> HIDE DEF row, at
  <2> QED
    BY ONLY <2>1, <2>2
<1> HIDE DEF row, at, acks
<1>8. IsGoal(row) /\ row.all = new.all /\ row.tasks = new.tasks /\ row.st = new.st
  BY <1>7 DEF IsGoal
<1>9. ASSUME row.st = "active"
      PROVE  /\ room.lead # None /\ ~AllDone(row, mem.tasks)
             /\ \A h \in DOMAIN mem.goals \ {g} : mem.goals[h].st # "active"
  <2>1. asked.st = "active" /\ ~AllDone(row, mem.tasks)
    BY <1>6, <1>8, <1>9 DEF AllDone
  <2>2. \A h \in DOMAIN mem.goals \ {g} : mem.goals[h].st # "active"
    BY <1>1, <1>2, <1>5, <2>1 DEF Accountable
  <2> QED
    BY <1>1, <2>1, <2>2
<1>10. /\ Retires(mem, mem', Of(mem, GoalKey(g)), {GoalKey(g)})
       /\ mem'.tasks = mem.tasks /\ mem'.waits = mem.waits /\ mem'.goals = Put(mem.goals, g, row)
  BY <1>1, <1>2, GoalWrittenFacts
<1>11. /\ Retires(db, db', Of(db, GoalKey(g)), {GoalKey(g)})
       /\ db'.tasks = db.tasks /\ db'.waits = db.waits /\ db'.goals = Put(db.goals, g, row)
  BY <1>1, <1>2, GoalWrittenFacts
<1>12. Accountable(mem', room.lead)
  BY <1>2, <1>8, <1>9, <1>10, AccountableGoal
<1>13. ~room.sealed => /\ SameWork(mem', db')
                       /\ Alike(mem, db, Of(mem, GoalKey(g)), Of(db, GoalKey(g)), {GoalKey(g)}, {GoalKey(g)})
  BY <1>2, <1>10, <1>11, OfAgree DEF Agree, SameWork, Alike
<1>14. Of(db, GoalKey(g)) \subseteq acks
  BY DEF acks
<1> QED
  BY <1>1, <1>10, <1>11, <1>12, <1>13, <1>14, RetireHandler

(* Declared, replaced and cleared waits retire their reminders and cycles. *)
LEMMA WaitKeeps ==
    ASSUME CareInv, NEW n, NEW row, NEW acks,
           \/ mem' = WaitReplaced(mem, n, row) /\ db' = WaitReplaced(db, n, row)
           \/ mem' = WaitDeleted(mem, n) /\ db' = WaitDeleted(db, n),
           WaitDeliveries(n) \subseteq acks,
           outbox' = Acked(outbox, acks), UNCHANGED <<room, davets, unmirrored, scene>>
    PROVE  CareInv'
<1>1. IsLedger(mem) /\ IsLedger(db) /\ Agree(mem, db, room, unmirrored) /\ Accountable(mem, room.lead)
  BY DEF CareInv, Books
<1>2. /\ Retires(mem, mem', WaitIds(mem, n), WaitKeys(mem, n))
      /\ mem'.tasks = mem.tasks /\ mem'.goals = mem.goals
      /\ Retires(db, db', WaitIds(db, n), WaitKeys(db, n))
      /\ db'.tasks = db.tasks /\ db'.goals = db.goals
      /\ mem.waits = db.waits => mem'.waits = db'.waits
  <2>1. CASE mem' = WaitReplaced(mem, n, row) /\ db' = WaitReplaced(db, n, row)
    <3>1. WaitWritten(mem, n, WaitReplaced(mem, n, row), Put(mem.waits, n, row))
      BY <1>1, WaitWrittenFacts
    <3>2. WaitWritten(db, n, WaitReplaced(db, n, row), Put(db.waits, n, row))
      BY <1>1, WaitWrittenFacts
    <3> QED
      BY <2>1, <3>1, <3>2 DEF WaitWritten
  <2>2. CASE mem' = WaitDeleted(mem, n) /\ db' = WaitDeleted(db, n)
    <3>1. WaitWritten(mem, n, WaitDeleted(mem, n), Restrict(mem.waits, DOMAIN mem.waits \ {n}))
      BY <1>1, WaitWrittenFacts
    <3>2. WaitWritten(db, n, WaitDeleted(db, n), Restrict(db.waits, DOMAIN db.waits \ {n}))
      BY <1>1, WaitWrittenFacts
    <3> QED
      BY <2>2, <3>1, <3>2 DEF WaitWritten
  <2> QED
    BY <2>1, <2>2
<1>4. ~room.sealed => Alike(mem, db, WaitIds(mem, n), WaitIds(db, n), WaitKeys(mem, n), WaitKeys(db, n))
  <2> SUFFICES ASSUME ~room.sealed
               PROVE  Alike(mem, db, WaitIds(mem, n), WaitIds(db, n), WaitKeys(mem, n), WaitKeys(db, n))
    OBVIOUS
  <2>1. SameCare(mem, db, unmirrored)
    BY <1>1 DEF Agree
  <2> QED
    BY <1>1, <2>1, WaitsAgree
<1>5. WaitIds(db, n) \subseteq acks
  BY DEF WaitDeliveries, WaitIds
<1>6. ~room.sealed => SameWork(mem', db')
  BY <1>1, <1>2 DEF Agree, SameWork
<1>7. Accountable(mem', room.lead)
  BY <1>1, <1>2, AccountableSame
<1> QED
  BY <1>2, <1>4, <1>5, <1>6, <1>7, RetireHandler

LEMMA SetWaitKeeps ==
    ASSUME CareInv, NEW by, NEW for, NEW why, NEW now, SetWait(by, for, why, now)
    PROVE  CareInv'
<1> DEFINE prev == IF by \in DOMAIN mem.waits THEN mem.waits[by].gen ELSE 0
           row == [for |-> for, why |-> why, gen |-> Generation(gen, now, prev), n |-> 0]
           acks == WaitDeliveries(by)
<1>1. /\ mem' = WaitReplaced(mem, by, row) /\ db' = WaitReplaced(db, by, row)
      /\ outbox' = Acked(outbox, acks) /\ UNCHANGED <<room, davets, unmirrored, scene>>
  BY DEF SetWait, Commit, CommitSignal, Unmoved
<1>2. WaitDeliveries(by) \subseteq acks
  OBVIOUS
<1> HIDE DEF prev, row, acks
<1> QED
  BY <1>1, <1>2, WaitKeeps

LEMMA ClearWaitKeeps ==
    ASSUME CareInv, NEW n, ClearWait(n)
    PROVE  CareInv'
<1> DEFINE acks == WaitDeliveries(n)
<1>1. /\ mem' = WaitDeleted(mem, n) /\ db' = WaitDeleted(db, n)
      /\ outbox' = Acked(outbox, acks) /\ UNCHANGED <<room, davets, unmirrored, scene>>
  BY DEF ClearWait, Commit, CommitSignal, Unmoved
<1>2. WaitDeliveries(n) \subseteq acks
  OBVIOUS
<1> HIDE DEF acks
<1> QED
  BY <1>1, <1>2, WaitKeeps

LEMMA PostPlainKeeps ==
    ASSUME CareInv, NEW by, NEW to, NEW now, PostPlain(by, to, now)
    PROVE  CareInv'
<1> DEFINE ts == Timestamp(now)
           acks == Of(db, Silence)
<1>1. /\ mem' = Said(mem, ts) /\ db' = Said(db, ts)
      /\ outbox' = Acked(outbox, acks) /\ UNCHANGED <<room, davets, unmirrored, scene>>
  BY DEF PostPlain, Commit, CommitSignal, Unmoved
<1> HIDE DEF ts
<1>2. IsLedger(mem) /\ IsLedger(db) /\ Agree(mem, db, room, unmirrored) /\ Accountable(mem, room.lead)
  BY DEF CareInv, Books
<1>3. /\ Retires(mem, mem', Of(mem, Silence), {Silence}) /\ SameWork(mem', mem)
      /\ Retires(db, db', Of(db, Silence), {Silence}) /\ SameWork(db', db)
  BY <1>1, <1>2, SaidFacts
<1>4. ~room.sealed => /\ SameWork(mem', db')
                      /\ Alike(mem, db, Of(mem, Silence), Of(db, Silence), {Silence}, {Silence})
  BY <1>2, <1>3 DEF Agree, SameWork, Alike, Of
<1>5. Accountable(mem', room.lead)
  BY <1>2, <1>3, AccountableSame DEF SameWork
<1>6. Of(db, Silence) \subseteq acks
  OBVIOUS
<1> HIDE DEF acks
<1> QED
  BY <1>1, <1>3, <1>4, <1>5, <1>6, RetireHandler

(* set_lead resets the silence in the rows only. *)
LEMMA SetLeadKeeps ==
    ASSUME CareInv, NEW to, NEW now, SetLead(to, now)
    PROVE  CareInv'
<1> DEFINE acks == Of(db, Silence)
<1>1. /\ mem' = mem /\ db' = Said(db, now) /\ outbox' = Acked(outbox, acks)
      /\ room' = [room EXCEPT !.lead = to] /\ UNCHANGED <<davets, unmirrored, scene>>
      /\ to = None => \A g \in DOMAIN mem.goals : mem.goals[g].st # "active"
  BY DEF SetLead, Commit, CommitSignal, Unmoved
<1>2. /\ Books(mem, db, outbox) /\ Paid(mem, outbox) /\ Paid(db, outbox)
      /\ IsRoom(room) /\ Agree(mem, db, room, unmirrored) /\ Accountable(mem, room.lead)
  BY DEF CareInv
<1>3. IsLedger(mem) /\ IsLedger(db)
  BY <1>2 DEF Books
<1>4. Retires(mem, mem', {}, {}) /\ Retires(db, db', Of(db, Silence), {Silence}) /\ SameWork(db', db)
  BY <1>1, <1>3, SaidFacts, RetiresNothing
<1>5. Alike(mem, db, {}, Of(db, Silence), {}, {Silence})
  BY DEF Alike, Of
<1>6. /\ IsRoom(room') /\ room'.lead = to /\ room'.archived = room.archived /\ room'.sealed = room.sealed
  <2>1. room = [lead |-> room.lead, to |-> room.to, archived |-> room.archived, sealed |-> room.sealed]
    BY <1>2 DEF IsRoom
  <2>2. room' = [room EXCEPT !.lead = to]
    BY <1>1
  <2>3. room' = [lead |-> to, to |-> room.to, archived |-> room.archived, sealed |-> room.sealed]
    BY ONLY <2>1, <2>2
  <2> QED
    BY <1>2, <2>3 DEF IsRoom
<1>7. Of(db, Silence) \subseteq acks
  OBVIOUS
<1> HIDE DEF acks
<1>8. /\ Books(mem', db', outbox') /\ Paid(mem', outbox') /\ Paid(db', outbox')
      /\ room.archived => DOMAIN mem'.marks = {} /\ DOMAIN db'.marks = {}
      /\ ~room.sealed => SameCare(mem', db', unmirrored)
  BY <1>1, <1>2, <1>4, <1>5, <1>7, RetireStep
<1>9. Agree(mem', db', room', unmirrored)
  BY <1>1, <1>2, <1>4, <1>6, <1>8 DEF Agree, SameWork
<1>10. Accountable(mem', room'.lead)
  BY <1>1, <1>2, <1>6 DEF Accountable
<1> QED
  BY <1>1, <1>2, <1>6, <1>8, <1>9, <1>10 DEF CareInv

-----------------------------------------------------------------------------
(* Closing, sealing and restarting *)

LEMMA EmptyFacts ==
    /\ IsLedger(Empty) /\ DOMAIN Empty.marks = {} /\ DOMAIN Empty.goals = {}
    /\ \A box : Paid(Empty, box)
    /\ \A lead : Accountable(Empty, lead)
<1>1. IsFcn(<<>>) /\ DOMAIN <<>> = {}
  BY DEF IsFcn
<1>2. IsLedger(Empty) /\ DOMAIN Empty.marks = {} /\ DOMAIN Empty.goals = {}
  BY <1>1 DEF Empty, IsLedger
<1> QED
  BY <1>2 DEF Paid, Accountable

(* The settings' record. *)
LEMMA NewSettings ==
    ASSUME CareInv, NEW f \in scene.settings, NEW new,
           new = CASE f[1] = "archived" -> [room EXCEPT !.archived = f[2]]
                   [] f[1] = "recipient" -> [room EXCEPT !.to = f[2]]
                   [] OTHER -> room
    PROVE  IsRoom(new) /\ new.lead = room.lead /\ new.sealed = room.sealed
<1>1. /\ room = [lead |-> room.lead, to |-> room.to, archived |-> room.archived, sealed |-> room.sealed]
      /\ room.archived \in BOOLEAN /\ room.sealed \in BOOLEAN
  BY DEF CareInv, IsRoom
<1>2. CASE f[1] = "archived"
  <2>1. f[2] \in BOOLEAN
    BY <1>2, CareAssumption DEF CareInv
  <2>2. new = [room EXCEPT !.archived = f[2]]
    BY <1>2
  <2>3. new = [lead |-> room.lead, to |-> room.to, archived |-> f[2], sealed |-> room.sealed]
    BY ONLY <1>1, <2>2
  <2> QED
    BY <1>1, <2>1, <2>3 DEF IsRoom
<1>3. CASE f[1] = "recipient"
  <2>1. f[1] # "archived"
    BY <1>3
  <2>2. new = [room EXCEPT !.to = f[2]]
    BY <1>3, <2>1
  <2>3. new = [lead |-> room.lead, to |-> f[2], archived |-> room.archived, sealed |-> room.sealed]
    BY ONLY <1>1, <2>2
  <2> QED
    BY <1>1, <2>3 DEF IsRoom
<1>4. CASE f[1] # "archived" /\ f[1] # "recipient"
  BY <1>1, <1>4 DEF IsRoom
<1> QED
  BY <1>2, <1>3, <1>4

LEMMA SetSettingsKeeps ==
    ASSUME CareInv, NEW f \in scene.settings, NEW now, SetSettings(f[1], f[2], now)
    PROVE  CareInv'
<1> DEFINE new == CASE f[1] = "archived" -> [room EXCEPT !.archived = f[2]]
                    [] f[1] = "recipient" -> [room EXCEPT !.to = f[2]]
                    [] OTHER -> room
           hot == IF new.archived /\ ~room.archived THEN Paused(mem) ELSE mem
           when == IF f[1] = "live" THEN now ELSE hot.last
<1>1. /\ ~room.sealed /\ room' = new /\ UNCHANGED <<davets, unmirrored, scene>>
      /\ mem' = SetLast(hot, when)
      /\ db' = IF new.archived THEN Paused(db) ELSE db
      /\ outbox' = IF new.archived THEN Acked(outbox, DOMAIN db.att) ELSE outbox
  BY DEF SetSettings, Commit, CommitSignal, Unmoved, SetLast
<1>2. IsRoom(new) /\ new.lead = room.lead /\ new.sealed = room.sealed
  BY NewSettings
<1> HIDE DEF new, when
<1>3. /\ Books(mem, db, outbox) /\ Paid(mem, outbox) /\ Paid(db, outbox)
      /\ IsRoom(room) /\ Agree(mem, db, room, unmirrored) /\ Accountable(mem, room.lead)
  BY DEF CareInv
<1>4. /\ IsLedger(mem) /\ IsLedger(db) /\ IsBox(outbox)
      /\ SameWork(mem, db) /\ SameCare(mem, db, unmirrored)
      /\ room.archived => DOMAIN mem.marks = {}
  BY <1>1, <1>3 DEF Books, Agree
<1>5. CASE new.archived
  <2>1. Retires(mem, hot, {}, DOMAIN mem.marks) /\ SameWork(hot, mem) /\ IsLedger(hot)
    <3>1. CASE room.archived
      <4>1. hot = mem /\ DOMAIN mem.marks = {}
        BY <1>4, <3>1
      <4> QED
        BY <1>4, <4>1, RetiresNothing DEF SameWork
    <3>2. CASE ~room.archived
      <4>1. hot = Paused(mem)
        BY <1>5, <3>2
      <4> QED
        BY <1>4, <4>1, PausedFacts DEF Retires
    <3> QED
      BY <3>1, <3>2
  <2> HIDE DEF hot
  <2>2. Retires(mem, mem', {}, DOMAIN mem.marks) /\ SameWork(mem', mem)
    BY <1>1, <2>1, RetiresAndWrites, Written DEF SameWork
  <2>3. Retires(db, db', {}, DOMAIN db.marks) /\ SameWork(db', db)
    BY <1>1, <1>4, <1>5, PausedFacts
  <2>4. Alike(mem, db, {}, {}, DOMAIN mem.marks, DOMAIN db.marks)
    BY <1>4 DEF Alike, SameCare
  <2>5. /\ Books(mem', db', outbox') /\ Paid(mem', outbox') /\ Paid(db', outbox')
        /\ SameCare(mem', db', unmirrored)
    <3> DEFINE none == {}
               acks == DOMAIN db.att
               km == DOMAIN mem.marks
               kd == DOMAIN db.marks
    <3>1. none \subseteq acks /\ outbox' = Acked(outbox, acks)
      BY <1>1, <1>5
    <3>2. /\ Retires(mem, mem', none, km) /\ Retires(db, db', none, kd)
          /\ Alike(mem, db, none, none, km, kd)
      BY <2>2, <2>3, <2>4
    <3> HIDE DEF none, acks, km, kd
    <3> QED
      BY <1>1, <1>3, <3>1, <3>2, RetireStep
  <2>6. Agree(mem', db', room', unmirrored)
    BY <1>4, <2>2, <2>3, <2>5 DEF Agree, SameWork, Retires
  <2>7. Accountable(mem', room'.lead)
    BY <1>1, <1>2, <1>3, <2>2, AccountableSame DEF SameWork
  <2> QED
    BY <1>1, <1>2, <2>5, <2>6, <2>7 DEF CareInv
<1>6. CASE ~new.archived
  <2>1. mem' = SetLast(mem, when) /\ db' = db /\ outbox' = outbox
    BY <1>1, <1>6
  <2> HIDE DEF hot
  <2>2. Retires(mem, mem, {}, {}) /\ Retires(db, db', {}, {})
    BY <1>4, <2>1, RetiresNothing
  <2>3. Retires(mem, mem', {}, {}) /\ SameWork(mem', mem)
    BY <1>4, <2>1, <2>2, RetiresAndWrites, Written DEF SameWork
  <2>4. Alike(mem, db, {}, {}, {}, {})
    BY DEF Alike
  <2>5. /\ Books(mem', db', outbox') /\ Paid(mem', outbox') /\ Paid(db', outbox')
        /\ SameCare(mem', db', unmirrored)
    <3>1. outbox' = Acked(outbox, {})
      BY <1>4, <2>1, AckedNothing
    <3> QED
      BY <1>1, <1>3, <2>2, <2>3, <2>4, <3>1, RetireStep
  <2>6. Agree(mem', db', room', unmirrored)
    BY <1>1, <1>4, <1>6, <2>1, <2>3, <2>5 DEF Agree, SameWork
  <2>7. Accountable(mem', room'.lead)
    BY <1>1, <1>2, <1>3, <2>3, AccountableSame DEF SameWork
  <2> QED
    BY <1>1, <1>2, <2>5, <2>6, <2>7 DEF CareInv
<1> QED
  BY <1>5, <1>6

LEMMA SealKeeps ==
    ASSUME CareInv, Seal
    PROVE  CareInv'
<1> DEFINE acks == DOMAIN db.att
<1>1. /\ room.archived /\ room' = [room EXCEPT !.sealed = TRUE] /\ UNCHANGED <<davets, unmirrored, scene>>
      /\ mem' = Empty /\ db' = Resolved(Paused(db), acks) /\ outbox' = Acked(outbox, acks)
  BY DEF Seal, Commit, CommitSignal, Unmoved
<1>2. /\ IsLedger(db) /\ IsBox(outbox) /\ Backed(db, outbox) /\ Paid(db, outbox) /\ IsRoom(room)
  BY DEF CareInv, Books
<1> HIDE DEF acks
<1>3. Retires(db, Paused(db), {}, DOMAIN db.marks) /\ DOMAIN Paused(db).marks = {} /\ IsLedger(Paused(db))
  BY <1>2, PausedFacts DEF Retires
<1>4. Retires(Paused(db), db', acks, {})
  BY <1>1, <1>3, ResolvedFacts
<1>5. Retires(db, db', {} \cup acks, DOMAIN db.marks \cup {})
  BY <1>2, <1>3, <1>4, RetiresTwice
<1>6. /\ IsRoom(room') /\ room'.sealed
  <2>1. room = [lead |-> room.lead, to |-> room.to, archived |-> room.archived, sealed |-> room.sealed]
    BY <1>2 DEF IsRoom
  <2>2. room' = [room EXCEPT !.sealed = TRUE]
    BY <1>1
  <2>3. room' = [lead |-> room.lead, to |-> room.to, archived |-> room.archived, sealed |-> TRUE]
    BY ONLY <2>1, <2>2
  <2> QED
    BY <1>2, <2>3 DEF IsRoom
<1>7. {} \cup acks \subseteq acks
  OBVIOUS
<1>8. IsBox(outbox') /\ Backed(db', outbox')
  BY <1>1, <1>2, <1>5, <1>7, RetiresBacked
<1>9. Paid(db', outbox')
  BY <1>1, <1>2, <1>5, RetiresPaid
<1>10. DOMAIN db'.marks = {} /\ IsLedger(db')
  BY <1>3, <1>4 DEF Retires
<1> QED
  BY <1>1, <1>6, <1>8, <1>9, <1>10, EmptyFacts DEF CareInv, Books, Agree

(* What is read back is what the rows hold. *)
LEMMA RestartKeeps ==
    ASSUME CareInv, Restart
    PROVE  CareInv'
<1>1. /\ mem' = (IF room.sealed THEN Empty ELSE db) /\ db' = db /\ outbox' = outbox
      /\ UNCHANGED <<room, davets, scene>> /\ unmirrored' = {}
  BY DEF Restart, Commit, CommitSignal
<1>2. CASE room.sealed
  BY <1>1, <1>2, EmptyFacts DEF CareInv, Books, Agree
<1>3. CASE ~room.sealed
  <2>1. mem' = db /\ SameWork(mem, db)
    BY <1>1, <1>3 DEF CareInv, Agree
  <2>2. SameWork(db, db) /\ SameCare(db, db, {})
    BY DEF SameWork, SameCare
  <2>3. Accountable(mem', room.lead)
    BY <2>1, AccountableSame DEF CareInv, SameWork
  <2> QED
    BY <1>1, <2>1, <2>2, <2>3 DEF CareInv, Books, Agree
<1> QED
  BY <1>2, <1>3

-----------------------------------------------------------------------------
(* Handlers that signal *)

LEMMA SignalHandler ==
    ASSUME CareInv, NEW m, NEW d, NEW box, NEW s, NEW a, NEW owner, Books(m, d, box),
           Frozen(s, a) <=> Frozen(d, a),
           db' = WriteCare(d, a, owner), mem' = Mirror(m, db', {a}), outbox' = Enqueue(box, s, a, owner),
           UNCHANGED <<room, davets, unmirrored, scene>>, Agree(m, d, room, unmirrored), Accountable(m, room.lead)
    PROVE  /\ Grows(box, outbox') /\ mem'.marks = m.marks /\ db'.marks = d.marks
           /\ ~Frozen(s, a) /\ owner # None =>
                 Cardinality(Sent(box, a.key)) + 1 <= Cardinality(Sent(outbox', a.key))
           /\ Paid(mem', outbox') /\ Paid(db', outbox') => CareInv'
<1>1. /\ Books(mem', db', outbox') /\ Grows(box, outbox')
      /\ SameWork(mem', m) /\ SameWork(db', d) /\ mem'.marks = m.marks /\ db'.marks = d.marks
      /\ SameCare(m, d, unmirrored) => SameCare(mem', db', unmirrored)
      /\ ~Frozen(s, a) /\ owner # None =>
            Cardinality(Sent(box, a.key)) + 1 <= Cardinality(Sent(outbox', a.key))
  BY SignalStep
<1>2. Agree(mem', db', room', unmirrored)
  BY <1>1 DEF Agree, SameWork
<1>3. Accountable(mem', room'.lead)
  BY <1>1, AccountableSame DEF SameWork
<1> QED
  BY <1>1, <1>2, <1>3 DEF CareInv

(* Copies with nothing but paid marks. *)
LEMMA SignalUncounted ==
    ASSUME CareInv, NEW m, NEW d, NEW box, NEW s, NEW a, NEW owner, Books(m, d, box),
           Frozen(s, a) <=> Frozen(d, a),
           db' = WriteCare(d, a, owner), mem' = Mirror(m, db', {a}), outbox' = Enqueue(box, s, a, owner),
           UNCHANGED <<room, davets, unmirrored, scene>>, Agree(m, d, room, unmirrored), Accountable(m, room.lead),
           Paid(m, box), Paid(d, box)
    PROVE  CareInv'
<1>1. /\ Grows(box, outbox') /\ mem'.marks = m.marks /\ db'.marks = d.marks
      /\ Paid(mem', outbox') /\ Paid(db', outbox') => CareInv'
  BY SignalHandler
<1>2. Paid(mem', outbox') /\ Paid(db', outbox')
  BY <1>1, PaidGrows
<1> QED
  BY <1>1, <1>2

LEMMA SweptFacts ==
    ASSUME Swept
    PROVE  /\ ~room.archived /\ ~room.sealed /\ UNCHANGED <<room, davets, unmirrored, scene>>
  BY DEF Swept, Unmoved

(* An attempt of a cycle or a condition: it is counted and delivered. *)
LEMMA CountedKeeps ==
    ASSUME CareInv, NEW k, NEW g, NEW owner, NEW hot, NEW n, Swept, owner # None,
           Eligible(k, g, n), Emit(k, g, owner, Marked(mem, k), Marked(db, k), hot)
    PROVE  CareInv'
<1> DEFINE a == AttentionOf(k, g, None)
           m == Marked(mem, k)
           d == Marked(db, k)
<1>1. /\ db' = WriteCare(d, a, owner) /\ mem' = Mirror(m, db', {a})
      /\ outbox' = Enqueue(outbox, d, a, owner)
  BY DEF Emit, CommitSignal
<1>2. a.key = k /\ ~Frozen(db, a)
  BY DEF AttentionOf, Eligible
<1>3. /\ ~room.archived /\ ~room.sealed /\ UNCHANGED <<room, davets, unmirrored, scene>>
  BY SweptFacts
<1>4. /\ IsLedger(mem) /\ IsLedger(db) /\ IsBox(outbox) /\ Backed(db, outbox)
      /\ SameWork(mem, db) /\ SameCare(mem, db, unmirrored) /\ Paid(mem, outbox) /\ Paid(db, outbox)
      /\ Accountable(mem, room.lead)
  BY <1>3 DEF CareInv, Books, Agree
<1>5. /\ IsLedger(m) /\ SameWork(m, mem) /\ m.att = mem.att
      /\ IsLedger(d) /\ SameWork(d, db) /\ d.att = db.att
  BY <1>4, MarkedFacts
<1>6. SameCare(m, d, unmirrored)
  BY <1>4, MarkedAgree
<1> HIDE DEF a
<1>7. ~Frozen(d, a)
  BY <1>2, <1>5 DEF Frozen
<1>8. Books(m, d, outbox) /\ Agree(m, d, room, unmirrored) /\ Accountable(m, room.lead)
  <2>1. Books(m, d, outbox)
    BY <1>4, <1>5 DEF Books, Backed
  <2>2. Agree(m, d, room, unmirrored)
    BY <1>3, <1>4, <1>5, <1>6 DEF Agree, SameWork
  <2>3. Accountable(m, room.lead)
    BY <1>4, <1>5, AccountableSame DEF SameWork
  <2> QED
    BY <2>1, <2>2, <2>3
<1> HIDE DEF m, d
<1>9. /\ Grows(outbox, outbox') /\ mem'.marks = m.marks /\ db'.marks = d.marks
      /\ Cardinality(Sent(outbox, k)) + 1 <= Cardinality(Sent(outbox', k))
      /\ Paid(mem', outbox') /\ Paid(db', outbox') => CareInv'
  BY <1>1, <1>2, <1>3, <1>7, <1>8, SignalHandler
<1>10. Paid(m, outbox') /\ Paid(d, outbox')
  BY <1>4, <1>9, MarkedPaid DEF m, d
<1>11. Paid(mem', outbox') /\ Paid(db', outbox')
  BY <1>9, <1>10 DEF Paid
<1> QED
  BY <1>9, <1>11

LEMMA SignalCycleKeeps ==
    ASSUME CareInv, NEW key, SignalCycle(key)
    PROVE  CareInv'
  BY CountedKeeps DEF SignalCycle

LEMMA SignalConditionKeeps ==
    ASSUME CareInv, NEW c, SignalCondition(c)
    PROVE  CareInv'
  BY CountedKeeps DEF SignalCondition

LEMMA NoteConditionKeeps ==
    ASSUME CareInv, NEW c, NoteCondition(c)
    PROVE  CareInv'
<1> DEFINE a == AttentionOf(c[1], c[2], None)
<1>1. /\ db' = WriteCare(db, a, None) /\ mem' = Mirror(mem, db', {a})
      /\ outbox' = Enqueue(outbox, db, a, None) /\ UNCHANGED <<room, davets, unmirrored, scene>>
  BY SweptFacts DEF NoteCondition, Emit, CommitSignal
<1>2. /\ Books(mem, db, outbox) /\ Agree(mem, db, room, unmirrored) /\ Accountable(mem, room.lead)
      /\ Paid(mem, outbox) /\ Paid(db, outbox)
  BY DEF CareInv
<1>3. Frozen(db, a) <=> Frozen(db, a)
  OBVIOUS
<1> HIDE DEF a
<1> QED
  BY <1>1, <1>2, <1>3, SignalUncounted

(* The attempts of a wait are counted in its row. *)
LEMMA SignalWaitKeeps ==
    ASSUME CareInv, NEW n, SignalWait(n)
    PROVE  CareInv'
<1> DEFINE w == mem.waits[n]
           row == [w EXCEPT !.n = w.n + 1]
           fm == Put(mem.waits, n, row)
           fd == Put(db.waits, n, row)
           m == SetWaits(mem, fm)
           d == SetWaits(db, fd)
           a == AttentionOf(<<"wait", n>>, w.gen, None)
           owner == CareOwner
<1>1. /\ db' = WriteCare(d, a, owner) /\ mem' = Mirror(m, db', {a})
      /\ outbox' = Enqueue(outbox, d, a, owner)
  BY DEF SignalWait, Emit, CommitSignal, SetWaits
<1>2. ~room.archived /\ ~room.sealed /\ UNCHANGED <<room, davets, unmirrored, scene>>
  BY SweptFacts DEF SignalWait
<1>3. /\ IsLedger(mem) /\ IsLedger(db) /\ IsBox(outbox) /\ Backed(db, outbox)
      /\ SameWork(mem, db) /\ SameCare(mem, db, unmirrored) /\ Paid(mem, outbox) /\ Paid(db, outbox)
      /\ Accountable(mem, room.lead)
  BY <1>2 DEF CareInv, Books, Agree
<1>4. IsFcn(fm) /\ IsFcn(fd) /\ fm = fd
  <2>1. mem.waits = db.waits
    BY <1>3 DEF SameWork
  <2> QED
    BY <2>1 DEF Put, IsFcn
<1> HIDE DEF w, row, fm, fd, a, owner
<1>5. /\ IsLedger(m) /\ m.tasks = mem.tasks /\ m.goals = mem.goals /\ m.waits = fm
      /\ m.marks = mem.marks /\ m.att = mem.att
  <2>1. IsLedger(SetWaits(mem, fm))
    BY <1>3, <1>4, WrittenLedger
  <2>2. SetWaits(mem, fm) = [tasks |-> mem.tasks, goals |-> mem.goals, waits |-> fm,
                           marks |-> mem.marks, att |-> mem.att, last |-> mem.last]
    BY <1>3, Written
  <2> QED
    BY <2>1, <2>2
<1>6. /\ IsLedger(d) /\ d.tasks = db.tasks /\ d.goals = db.goals /\ d.waits = fd
      /\ d.marks = db.marks /\ d.att = db.att
  <2>1. IsLedger(SetWaits(db, fd))
    BY <1>3, <1>4, WrittenLedger
  <2>2. SetWaits(db, fd) = [tasks |-> db.tasks, goals |-> db.goals, waits |-> fd,
                           marks |-> db.marks, att |-> db.att, last |-> db.last]
    BY <1>3, Written
  <2> QED
    BY <2>1, <2>2
<1> HIDE DEF m, d
<1>7. Books(m, d, outbox)
  BY <1>3, <1>5, <1>6 DEF Books, Backed
<1>8. Agree(m, d, room, unmirrored)
  BY <1>2, <1>3, <1>4, <1>5, <1>6 DEF Agree, SameWork, SameCare
<1>9. Accountable(m, room.lead)
  BY <1>3, <1>5, AccountableSame
<1>10. Paid(m, outbox) /\ Paid(d, outbox)
  BY <1>3, <1>5, <1>6 DEF Paid
<1>11. Frozen(d, a) <=> Frozen(d, a)
  OBVIOUS
<1> QED
  BY <1>1, <1>2, <1>7, <1>8, <1>9, <1>10, <1>11, SignalUncounted

LEMMA CreateAttentionKeeps ==
    ASSUME CareInv, NEW group, CreateAttention(group)
    PROVE  CareInv'
<1> DEFINE a == AttentionOf(<<"manual", Len(outbox) + 1>>, 0, None)
           owner == AttentionOwner(group)
<1>1. /\ db' = WriteCare(db, a, owner) /\ mem' = Mirror(mem, db', {a})
      /\ outbox' = Enqueue(outbox, db, a, owner) /\ UNCHANGED <<room, davets, unmirrored, scene>>
  BY DEF CreateAttention, Commit, CommitSignal, Unmoved
<1>2. /\ Books(mem, db, outbox) /\ Agree(mem, db, room, unmirrored) /\ Accountable(mem, room.lead)
      /\ Paid(mem, outbox) /\ Paid(db, outbox)
  BY DEF CareInv
<1>3. Frozen(db, a) <=> Frozen(db, a)
  OBVIOUS
<1> HIDE DEF a, owner
<1> QED
  BY <1>1, <1>2, <1>3, SignalUncounted

(* What is not retired is frozen as before. *)
LEMMA FrozenKept ==
    ASSUME NEW d, NEW d2, NEW ids, NEW keys, Retires(d, d2, ids, keys), NEW a, a \notin ids
    PROVE  Frozen(d, a) <=> Frozen(d2, a)
  BY DEF Retires, Frozen

(* A message, or the announcement of one, resets the silence in both copies. *)
LEMMA SaidAgree ==
    ASSUME CareInv, ~room.sealed, NEW n
    PROVE  /\ Retires(mem, Said(mem, n), Of(mem, Silence), {Silence})
           /\ Retires(db, Said(db, n), Of(db, Silence), {Silence})
           /\ IsLedger(Said(mem, n)) /\ SameWork(Said(mem, n), mem)
           /\ IsLedger(Said(db, n)) /\ SameWork(Said(db, n), db)
           /\ SameCare(Said(mem, n), Said(db, n), unmirrored)
<1>1. IsLedger(mem) /\ IsLedger(db) /\ SameCare(mem, db, unmirrored)
  BY DEF CareInv, Books, Agree
<1>2. /\ Retires(mem, Said(mem, n), Of(mem, Silence), {Silence}) /\ SameWork(Said(mem, n), mem)
      /\ Retires(db, Said(db, n), Of(db, Silence), {Silence}) /\ SameWork(Said(db, n), db)
  BY <1>1, SaidFacts
<1>3. Alike(mem, db, Of(mem, Silence), Of(db, Silence), {Silence}, {Silence})
  BY DEF Alike, Of
<1>4. SameCare(Said(mem, n), Said(db, n), unmirrored)
  BY <1>1, <1>2, <1>3, RetiresAgree DEF Alike
<1> QED
  BY <1>2, <1>4 DEF Retires

LEMMA PostSummonsKeeps ==
    ASSUME CareInv, NEW by, NEW to, NEW now, PostSummons(by, to, now)
    PROVE  CareInv'
<1> DEFINE g == Timestamp(now)
           a == AttentionOf(<<"summon", Len(outbox) + 1>>, 0, None)
           m == Said(mem, g)
           d == Said(db, g)
           acks == Of(db, Silence)
           box == Acked(outbox, acks)
<1>1. /\ db' = WriteCare(d, a, to) /\ mem' = Mirror(m, db', {a})
      /\ outbox' = Enqueue(box, db, a, to) /\ UNCHANGED <<room, davets, unmirrored, scene>> /\ ~room.sealed
  BY DEF PostSummons, Commit, CommitSignal, Unmoved, PostAdmitted
<1>2. a \notin Of(db, Silence)
  BY DEF Of, AttentionOf, Silence
<1> HIDE DEF a, g
<1>3. /\ Retires(mem, m, Of(mem, Silence), {Silence}) /\ IsLedger(m) /\ SameWork(m, mem)
      /\ Retires(db, d, Of(db, Silence), {Silence}) /\ IsLedger(d) /\ SameWork(d, db)
      /\ SameCare(m, d, unmirrored)
  BY <1>1, SaidAgree
<1>4. Frozen(db, a) <=> Frozen(d, a)
  BY <1>2, <1>3, FrozenKept
<1>5. /\ Books(mem, db, outbox) /\ Paid(mem, outbox) /\ Paid(db, outbox)
      /\ IsRoom(room) /\ Agree(mem, db, room, unmirrored) /\ Accountable(mem, room.lead)
  BY DEF CareInv
<1>6. Of(db, Silence) \subseteq acks
  OBVIOUS
<1> HIDE DEF acks, m, d
<1>7. /\ Books(m, d, box) /\ Paid(m, box) /\ Paid(d, box)
      /\ room.archived => DOMAIN m.marks = {} /\ DOMAIN d.marks = {}
  BY <1>3, <1>5, <1>6, RetireStep
<1>8. Agree(m, d, room, unmirrored) /\ Accountable(m, room.lead)
  <2>1. SameWork(mem, db)
    BY <1>1, <1>5 DEF Agree
  <2>2. SameWork(m, d)
    BY <1>3, <2>1 DEF SameWork
  <2>3. Accountable(m, room.lead)
    BY <1>3, <1>5, AccountableSame DEF SameWork
  <2> QED
    BY <1>3, <1>7, <2>2, <2>3 DEF Agree
<1> HIDE DEF box
<1> QED
  BY <1>1, <1>4, <1>7, <1>8, SignalUncounted

(* The answer to a waiter: its wait starts a new generation. *)
LEMMA PostReplyKeeps ==
    ASSUME CareInv, NEW by, NEW to, NEW now, PostReply(by, to, now)
    PROVE  CareInv'
<1> DEFINE g1 == Timestamp(now)
           g2 == Generation(g1, now, mem.waits[to].gen)
           a == AttentionOf(<<"reply", to>>, g2, None)
           row == [mem.waits[to] EXCEPT !.gen = g2, !.n = 0]
           m1 == Said(mem, g1)
           d1 == Said(db, g1)
           m == WaitReplaced(m1, to, row)
           d == WaitReplaced(d1, to, row)
           acks == Of(db, Silence) \cup WaitDeliveries(to)
           box == Acked(outbox, acks)
<1>1. /\ db' = WriteCare(d, a, to) /\ mem' = Mirror(m, db', {a})
      /\ outbox' = Enqueue(box, db, a, to) /\ UNCHANGED <<room, davets, unmirrored, scene>> /\ ~room.sealed
  BY DEF PostReply, Commit, CommitSignal, Unmoved, PostAdmitted, Answered
<1>2. a.key = <<"reply", to>>
  BY DEF AttentionOf
<1> HIDE DEF a, g1, g2, row
<1>3. /\ Retires(mem, m1, Of(mem, Silence), {Silence}) /\ IsLedger(m1) /\ SameWork(m1, mem)
      /\ Retires(db, d1, Of(db, Silence), {Silence}) /\ IsLedger(d1) /\ SameWork(d1, db)
      /\ SameCare(m1, d1, unmirrored)
  BY <1>1, SaidAgree
<1> HIDE DEF m1, d1
<1>4. WaitWritten(m1, to, m, Put(m1.waits, to, row)) /\ WaitWritten(d1, to, d, Put(d1.waits, to, row))
  BY <1>3, WaitWrittenFacts
<1> HIDE DEF m, d
<1>5. /\ Books(mem, db, outbox) /\ Paid(mem, outbox) /\ Paid(db, outbox)
      /\ IsRoom(room) /\ Agree(mem, db, room, unmirrored) /\ Accountable(mem, room.lead)
      /\ IsLedger(mem) /\ IsLedger(db)
  BY DEF CareInv, Books
<1> DEFINE im == Of(mem, Silence) \cup WaitIds(m1, to)
           id == Of(db, Silence) \cup WaitIds(d1, to)
           km == {Silence} \cup WaitKeys(m1, to)
           kd == {Silence} \cup WaitKeys(d1, to)
<1>6. Retires(mem, m, im, km) /\ Retires(db, d, id, kd)
  BY <1>3, <1>4, <1>5, RetiresTwice DEF WaitWritten
<1>7. Alike(mem, db, im, id, km, kd)
  <2>1. Alike(m1, d1, WaitIds(m1, to), WaitIds(d1, to), WaitKeys(m1, to), WaitKeys(d1, to))
    BY <1>3, WaitsAgree
  <2> QED
    BY <1>3, <2>1 DEF Alike, Retires, Of
<1>8. id \subseteq acks
  <2>1. ASSUME NEW x \in WaitIds(d1, to), x \notin Of(db, Silence) PROVE x \in WaitDeliveries(to)
    <3>1. x \in DOMAIN db.att /\ d1.att[x] = db.att[x]
      BY <1>3, <2>1 DEF Retires, WaitIds, Of, OpenCycles
    <3> QED
      BY <2>1, <3>1 DEF WaitIds, Of, OpenCycles, WaitDeliveries
  <2> QED
    BY <2>1
<1>9. a \notin id
  <2>1. a.key[1] = "reply" /\ a.key # Silence /\ a.key # <<"wait", to>>
    BY <1>2 DEF Silence
  <2> QED
    BY <2>1 DEF WaitIds, Of, OpenCycles
<1> HIDE DEF im, id, km, kd, acks
<1>10. Frozen(db, a) <=> Frozen(d, a)
  BY <1>6, <1>9, FrozenKept
<1>11. /\ Books(m, d, box) /\ Paid(m, box) /\ Paid(d, box)
       /\ room.archived => DOMAIN m.marks = {} /\ DOMAIN d.marks = {}
       /\ SameCare(m, d, unmirrored)
  BY <1>1, <1>5, <1>6, <1>7, <1>8, RetireStep
<1>12. Agree(m, d, room, unmirrored) /\ Accountable(m, room.lead)
  <2>1. SameWork(mem, db)
    BY <1>1, <1>5 DEF Agree
  <2>2. SameWork(m, d)
    BY <1>3, <1>4, <2>1 DEF SameWork, WaitWritten
  <2>3. Accountable(m, room.lead)
    BY <1>3, <1>4, <1>5, AccountableSame DEF SameWork, WaitWritten
  <2> QED
    BY <1>11, <2>2, <2>3 DEF Agree
<1> HIDE DEF box
<1> QED
  BY <1>1, <1>10, <1>11, <1>12, SignalUncounted

-----------------------------------------------------------------------------
(* Acknowledgements, claims and resolutions *)

(* One attention of both copies gets the same new row, not resolved. *)
SetRow(s, a, r) == SetAtt(s, [s.att EXCEPT ![a] = r])

LEMMA SetRowFacts ==
    ASSUME NEW s, IsLedger(s), NEW a \in DOMAIN s.att, NEW r, IsAtt(r)
    PROVE  /\ IsLedger(SetRow(s, a, r)) /\ SameWork(SetRow(s, a, r), s)
           /\ SetRow(s, a, r).marks = s.marks /\ DOMAIN SetRow(s, a, r).att = DOMAIN s.att
           /\ SetRow(s, a, r).att[a] = r
           /\ \A b \in DOMAIN s.att \ {a} : SetRow(s, a, r).att[b] = s.att[b]
<1> DEFINE f == [s.att EXCEPT ![a] = r]
<1>1. s.att = [b \in DOMAIN s.att |-> s.att[b]]
  BY DEF IsLedger, IsFcn
<1>2. /\ IsFcn(f) /\ DOMAIN f = DOMAIN s.att /\ f[a] = r
      /\ \A b \in DOMAIN s.att \ {a} : f[b] = s.att[b]
  BY <1>1 DEF IsFcn
<1> HIDE DEF f
<1>3. \A b \in DOMAIN f : IsAtt(f[b])
  BY <1>2 DEF IsLedger
<1>4. IsLedger(SetAtt(s, f))
  BY <1>2, <1>3, WrittenLedger
<1>5. SetAtt(s, f).att = f /\ SameWork(SetAtt(s, f), s) /\ SetAtt(s, f).marks = s.marks
  BY Written DEF SameWork
<1> QED
  BY <1>2, <1>4, <1>5 DEF SetRow, f

(* s2 is s, in which the attention a, if it is there, has the row r. *)
RowSet(s, s2, a, r) ==
    /\ IsLedger(s2) /\ SameWork(s2, s) /\ s2.marks = s.marks /\ DOMAIN s2.att = DOMAIN s.att
    /\ a \in DOMAIN s.att => s2.att[a] = r
    /\ \A b \in DOMAIN s.att \ {a} : s2.att[b] = s.att[b]

LEMMA RowHandler ==
    ASSUME CareInv, NEW a, NEW rm, NEW rd,
           RowSet(mem, mem', a, rm), RowSet(db, db', a, rd),
           rd.st = "resolved" => db.att[a].st = "resolved",
           ~room.sealed /\ a.key # Silence => rd = IF a \in unmirrored' THEN SeenRow(rm) ELSE rm,
           unmirrored' \ {a} = unmirrored \ {a}, unmirrored' \subseteq unmirrored \cup DOMAIN db.att,
           IsBox(outbox'), Backed(db, outbox'), \A k : Sent(outbox', k) = Sent(outbox, k),
           UNCHANGED <<room, davets, scene>>
    PROVE  CareInv'
<1>1. /\ IsLedger(mem) /\ IsLedger(db) /\ Paid(mem, outbox) /\ Paid(db, outbox)
      /\ IsRoom(room) /\ Agree(mem, db, room, unmirrored) /\ Accountable(mem, room.lead)
  BY DEF CareInv, Books
<1>2. /\ IsLedger(db') /\ SameWork(db', db) /\ db'.marks = db.marks /\ DOMAIN db'.att = DOMAIN db.att
      /\ a \in DOMAIN db.att => db'.att[a] = rd
      /\ \A b \in DOMAIN db.att \ {a} : db'.att[b] = db.att[b]
  BY DEF RowSet
<1>3. /\ IsLedger(mem') /\ SameWork(mem', mem) /\ mem'.marks = mem.marks /\ DOMAIN mem'.att = DOMAIN mem.att
      /\ a \in DOMAIN mem.att => mem'.att[a] = rm
      /\ \A b \in DOMAIN mem.att \ {a} : mem'.att[b] = mem.att[b]
  BY DEF RowSet
<1>4. Backed(db', outbox')
  <2> SUFFICES ASSUME NEW i \in DOMAIN outbox'
               PROVE  /\ outbox'[i].att \in DOMAIN db'.att
                      /\ ~outbox'[i].acked => db'.att[outbox'[i].att].st # "resolved"
    BY DEF Backed
  <2>1. /\ outbox'[i].att \in DOMAIN db.att
        /\ ~outbox'[i].acked => db.att[outbox'[i].att].st # "resolved"
    BY DEF Backed
  <2> QED
    BY <1>2, <2>1
<1>5. Paid(mem', outbox') /\ Paid(db', outbox')
  BY <1>1, <1>2, <1>3 DEF Paid
<1>6. ~room.sealed => SameCare(mem', db', unmirrored')
  <2> SUFFICES ASSUME ~room.sealed PROVE SameCare(mem', db', unmirrored')
    OBVIOUS
  <2>1. SameCare(mem, db, unmirrored)
    BY <1>1 DEF Agree
  <2>2. ASSUME NEW b \in DOMAIN mem'.att \cup DOMAIN db'.att, b.key # Silence
        PROVE  /\ b \in DOMAIN mem'.att \cap DOMAIN db'.att
               /\ db'.att[b] = IF b \in unmirrored' THEN SeenRow(mem'.att[b]) ELSE mem'.att[b]
    <3>1. /\ b \in DOMAIN mem.att /\ b \in DOMAIN db.att
          /\ db.att[b] = IF b \in unmirrored THEN SeenRow(mem.att[b]) ELSE mem.att[b]
      BY <1>2, <1>3, <2>1, <2>2 DEF SameCare
    <3>2. CASE b = a
      BY <1>2, <1>3, <2>2, <3>1, <3>2
    <3>3. CASE b # a
      <4>1. b \in unmirrored' <=> b \in unmirrored
        BY <3>3
      <4>2. db'.att[b] = db.att[b] /\ mem'.att[b] = mem.att[b]
        BY <1>2, <1>3, <3>1, <3>3
      <4> QED
        BY <1>2, <1>3, <3>1, <4>1, <4>2
    <3> QED
      BY <3>2, <3>3
  <2>3. unmirrored' \subseteq DOMAIN db'.att
    BY <1>2, <2>1 DEF SameCare
  <2>4. \A k \in DOMAIN mem'.marks \cup DOMAIN db'.marks : k # Silence =>
           k \in DOMAIN mem'.marks \cap DOMAIN db'.marks /\ mem'.marks[k] = db'.marks[k]
    BY <1>2, <1>3, <2>1 DEF SameCare
  <2> QED
    BY <2>2, <2>3, <2>4 DEF SameCare
<1>7. Agree(mem', db', room', unmirrored')
  BY <1>1, <1>2, <1>3, <1>6 DEF Agree, SameWork
<1>8. Accountable(mem', room'.lead)
  BY <1>1, <1>3, AccountableSame DEF SameWork
<1> QED
  BY <1>1, <1>2, <1>3, <1>4, <1>5, <1>7, <1>8 DEF CareInv, Books

ClaimedRow(r, n) == [r EXCEPT !.st = "claimed", !.by = n]

LEMMA ClaimedRowFacts ==
    ASSUME NEW r, IsAtt(r), NEW n
    PROVE  /\ IsAtt(ClaimedRow(r, n)) /\ ClaimedRow(r, n).st = "claimed"
           /\ ClaimedRow(SeenRow(r), n) = SeenRow(ClaimedRow(r, n))
<1> DEFINE yes == TRUE
           q == SeenRow(r)
           c == ClaimedRow(r, n)
<1>1. r = [st |-> r.st, owner |-> r.owner, by |-> r.by, seen |-> r.seen]
  BY DEF IsAtt
<1>2. /\ q = [r EXCEPT !.seen = yes] /\ SeenRow(c) = [c EXCEPT !.seen = yes]
      /\ c = [r EXCEPT !.st = "claimed", !.by = n] /\ ClaimedRow(q, n) = [q EXCEPT !.st = "claimed", !.by = n]
  BY DEF SeenRow, ClaimedRow
<1> HIDE DEF yes, q, c
<1>3. c = [st |-> "claimed", owner |-> r.owner, by |-> n, seen |-> r.seen]
  BY ONLY <1>1, <1>2
<1>4. q = [st |-> r.st, owner |-> r.owner, by |-> r.by, seen |-> yes]
  BY ONLY <1>1, <1>2
<1>5. SeenRow(c) = [st |-> "claimed", owner |-> r.owner, by |-> n, seen |-> yes]
  BY ONLY <1>2, <1>3
<1>6. ClaimedRow(q, n) = [st |-> "claimed", owner |-> r.owner, by |-> n, seen |-> yes]
  BY ONLY <1>2, <1>4
<1>7. IsAtt(c) /\ c.st = "claimed"
  BY <1>3 DEF IsAtt
<1>8. ClaimedRow(q, n) = SeenRow(c)
  BY ONLY <1>5, <1>6
<1> QED
  BY <1>7, <1>8 DEF q, c

(* An attention of one copy gets a new row; the other copy keeps its own. *)
LEMMA RowSetFacts ==
    ASSUME NEW s, IsLedger(s), NEW a
    PROVE  /\ RowSet(s, s, a, s.att[a])
           /\ RowSet(s, Seen(s, a), a, SeenRow(s.att[a]))
           /\ \A n : a \in DOMAIN s.att => RowSet(s, SetRow(s, a, ClaimedRow(s.att[a], n)), a, ClaimedRow(s.att[a], n))
<1>1. RowSet(s, s, a, s.att[a])
  BY DEF RowSet, SameWork
<1>2. a \in DOMAIN s.att => IsAtt(s.att[a])
  BY DEF IsLedger
<1>3. CASE a \notin DOMAIN s.att
  BY <1>1, <1>3 DEF RowSet, Seen
<1>4. CASE a \in DOMAIN s.att
  <2>1. Seen(s, a) = SetRow(s, a, SeenRow(s.att[a]))
    BY <1>4 DEF Seen, SetRow, SetAtt, SeenRow
  <2>2. RowSet(s, Seen(s, a), a, SeenRow(s.att[a]))
    <3>1. IsAtt(SeenRow(s.att[a]))
      BY <1>2, <1>4, SeenRowFacts
    <3> QED
      BY <1>4, <2>1, <3>1, SetRowFacts DEF RowSet
  <2>3. ASSUME NEW n
        PROVE  RowSet(s, SetRow(s, a, ClaimedRow(s.att[a], n)), a, ClaimedRow(s.att[a], n))
    BY <1>2, <1>4, ClaimedRowFacts, SetRowFacts DEF RowSet
  <2> QED
    BY <1>1, <2>2, <2>3
<1> QED
  BY <1>3, <1>4

(* What was sent is the same. *)
SameSent(box, b) == \A k : Sent(b, k) = Sent(box, k)

(* One delivery is acked. *)
LEMMA OneAcked ==
    ASSUME NEW d, NEW box, IsBox(box), Backed(d, box), NEW i \in DOMAIN box,
           NEW b, b = [box EXCEPT ![i].acked = TRUE]
    PROVE  IsBox(b) /\ Backed(d, b) /\ SameSent(box, b)
<1>1. /\ Len(box) \in Nat /\ DOMAIN box = 1..Len(box)
      /\ box = [j \in DOMAIN box |-> box[j]]
  BY DEF IsBox
<1>2. /\ DOMAIN b = DOMAIN box /\ b = [j \in DOMAIN box |-> b[j]]
      /\ b[i] = [box[i] EXCEPT !.acked = TRUE]
      /\ \A j \in DOMAIN box \ {i} : b[j] = box[j]
  BY <1>1
<1>3. IsDelivery(b[i]) /\ b[i].att = box[i].att /\ b[i].acked
  <2>1. box[i] = [att |-> box[i].att, owner |-> box[i].owner, home |-> box[i].home, acked |-> box[i].acked]
    BY DEF IsBox, IsDelivery
  <2>2. b[i] = [att |-> box[i].att, owner |-> box[i].owner, home |-> box[i].home, acked |-> TRUE]
    BY ONLY <1>2, <2>1
  <2> QED
    BY <2>2 DEF IsDelivery
<1>4. IsBox(b)
  <2>1. \A j \in DOMAIN box : IsDelivery(b[j])
    BY <1>2, <1>3 DEF IsBox
  <2>2. \A j \in DOMAIN box : b[j] \in Range(b)
    BY <1>2 DEF Range
  <2>3. b \in Seq(Range(b))
    BY ONLY <1>1, <1>2, <2>2
  <2> QED
    BY <1>2, <2>1, <2>3 DEF IsBox
<1>5. Backed(d, b)
  BY <1>2, <1>3 DEF Backed
<1>6. \A k : Sent(b, k) = Sent(box, k)
  <2>1. DOMAIN b = DOMAIN box /\ \A j \in DOMAIN box : b[j].att = box[j].att
    BY <1>2, <1>3
  <2> QED
    BY ONLY <2>1 DEF Sent
<1> QED
  BY <1>4, <1>5, <1>6 DEF SameSent

(* The rows of an acknowledgement are written; memory has yet to show it. *)
LEMMA CommitAckKeeps ==
    ASSUME CareInv, NEW i, NEW p, CommitAck(i, p)
    PROVE  CareInv'
<1>1. CASE RowAcks(i, p)
  <2> DEFINE a == outbox[i].att
  <2>1. /\ mem' = mem /\ db' = Seen(db, a) /\ outbox' = [outbox EXCEPT ![i].acked = TRUE]
        /\ unmirrored' = unmirrored \cup {a} /\ UNCHANGED <<room, davets, scene>>
    BY <1>1 DEF CommitAck, Commit, CommitSignal
  <2>2. /\ IsLedger(mem) /\ IsLedger(db) /\ IsBox(outbox) /\ Backed(db, outbox)
        /\ Agree(mem, db, room, unmirrored)
    BY DEF CareInv, Books
  <2>3. i \in DOMAIN outbox /\ a \in DOMAIN db.att
    BY <1>1, <2>2 DEF Backed, RowAcks
  <2>4. IsBox(outbox') /\ Backed(db, outbox') /\ \A k : Sent(outbox', k) = Sent(outbox, k)
    <3>1. i \in DOMAIN outbox /\ IsBox(outbox) /\ Backed(db, outbox)
      BY <2>2, <2>3
    <3>2. outbox' = [outbox EXCEPT ![i].acked = TRUE]
      BY <2>1
    <3>3. IsBox(outbox') /\ Backed(db, outbox') /\ SameSent(outbox, outbox')
      BY ONLY <3>1, <3>2, OneAcked
    <3> QED
      BY <3>3 DEF SameSent
  <2> HIDE DEF a
  <2> DEFINE rm == mem.att[a]
             rd == SeenRow(db.att[a])
  <2>5. RowSet(mem, mem', a, rm) /\ RowSet(db, db', a, rd)
    BY <2>1, <2>2, RowSetFacts
  <2>6. rd.st = db.att[a].st
    BY <2>2, <2>3, SeenRowFacts DEF IsLedger
  <2>7. ~room.sealed /\ a.key # Silence => rd = SeenRow(rm)
    <3> SUFFICES ASSUME ~room.sealed, a.key # Silence PROVE rd = SeenRow(rm)
      OBVIOUS
    <3>1. SameCare(mem, db, unmirrored)
      BY <2>2 DEF Agree
    <3>2. /\ IsAtt(mem.att[a])
          /\ a \in unmirrored => db.att[a] = SeenRow(mem.att[a])
          /\ a \notin unmirrored => db.att[a] = mem.att[a]
      <4>1. a \in DOMAIN mem.att \cup DOMAIN db.att /\ IsLedger(mem)
        BY <2>2, <2>3
      <4>2. RowAgrees(mem, db, unmirrored, a)
        BY <3>1, <4>1, SameCareRow
      <4> QED
        BY <4>2 DEF RowAgrees
    <3>3. SeenRow(SeenRow(mem.att[a])) = SeenRow(mem.att[a])
      BY <3>2, SeenRowFacts
    <3> QED
      BY <3>2, <3>3
  <2>8. /\ a \in unmirrored' /\ unmirrored' \ {a} = unmirrored \ {a}
        /\ unmirrored' \subseteq unmirrored \cup DOMAIN db.att
    BY <2>1, <2>3
  <2> HIDE DEF rm, rd
  <2> QED
    BY <2>1, <2>3, <2>4, <2>5, <2>6, <2>7, <2>8, RowHandler
<1>2. CASE ~RowAcks(i, p)
  BY <1>2 DEF CommitAck, CareInv
<1> QED
  BY <1>1, <1>2

(* Memory follows, if it still has the attention. *)
LEMMA MirrorAckKeeps ==
    ASSUME CareInv, NEW a \in unmirrored, MirrorAck(a)
    PROVE  CareInv'
<1>1. /\ mem' = Seen(mem, a) /\ db' = db /\ outbox' = outbox
      /\ unmirrored' = unmirrored \ {a} /\ UNCHANGED <<room, davets, scene>>
  BY DEF MirrorAck, Commit, CommitSignal
<1>2. /\ IsLedger(mem) /\ IsLedger(db) /\ IsBox(outbox) /\ Backed(db, outbox)
      /\ Agree(mem, db, room, unmirrored)
  BY DEF CareInv, Books
<1> DEFINE rm == SeenRow(mem.att[a])
           rd == db.att[a]
<1>3. RowSet(mem, mem', a, rm) /\ RowSet(db, db', a, rd)
  BY <1>1, <1>2, RowSetFacts
<1>4. ~room.sealed /\ a.key # Silence => rd = rm
  <2> SUFFICES ASSUME ~room.sealed, a.key # Silence PROVE rd = rm
    OBVIOUS
  <2>1. SameCare(mem, db, unmirrored)
    BY <1>2 DEF Agree
  <2>2. a \in DOMAIN db.att
    BY <2>1 DEF SameCare
  <2>3. a \in DOMAIN mem.att \cup DOMAIN db.att
    BY <2>2
  <2>4. a.key # Silence /\ a \in unmirrored
    OBVIOUS
  <2>5. RowAgrees(mem, db, unmirrored, a)
    BY <1>2, <2>1, <2>3, SameCareRow
  <2> QED
    BY <2>4, <2>5 DEF RowAgrees
<1>5. /\ a \notin unmirrored' /\ unmirrored' \ {a} = unmirrored \ {a}
      /\ unmirrored' \subseteq unmirrored \cup DOMAIN db.att
  BY <1>1
<1>7. \A k : Sent(outbox', k) = Sent(outbox, k)
  BY <1>1
<1>8. IsBox(outbox') /\ Backed(db, outbox')
  BY <1>1, <1>2
<1>9. rd.st = db.att[a].st
  OBVIOUS
<1> HIDE DEF rm, rd
<1> QED
  BY <1>1, <1>3, <1>4, <1>5, <1>7, <1>8, <1>9, RowHandler

LEMMA ClaimedFacts ==
    ASSUME NEW s, IsLedger(s), NEW a \in DOMAIN s.att, NEW n
    PROVE  Claimed(s, a, n) = SetRow(s, a, ClaimedRow(s.att[a], n))
<1> DEFINE r1 == [s.att[a] EXCEPT !.st = "claimed"]
           s1 == SetRow(s, a, r1)
           r2 == [s1.att[a] EXCEPT !.by = n]
<1>1. Claimed(s, a, n) = SetRow(s1, a, r2)
  BY DEF Claimed, SetRow, SetAtt
<1>2. s.att[a] = [st |-> s.att[a].st, owner |-> s.att[a].owner, by |-> s.att[a].by, seen |-> s.att[a].seen]
  BY DEF IsLedger, IsAtt
<1>3. r1 = [st |-> "claimed", owner |-> s.att[a].owner, by |-> s.att[a].by, seen |-> s.att[a].seen]
  BY ONLY <1>2
<1>4. IsAtt(r1)
  BY <1>3 DEF IsAtt
<1> HIDE DEF r1
<1>5. s1.att[a] = r1
  BY <1>4, SetRowFacts
<1>6. r2 = ClaimedRow(s.att[a], n)
  <2>1. r2 = [r1 EXCEPT !.by = n]
    BY <1>5
  <2> HIDE DEF r2
  <2>2. r2 = [st |-> "claimed", owner |-> s.att[a].owner, by |-> n, seen |-> s.att[a].seen]
    BY ONLY <1>3, <2>1
  <2>3. ClaimedRow(s.att[a], n) = [s.att[a] EXCEPT !.st = "claimed", !.by = n]
    BY DEF ClaimedRow
  <2>4. ClaimedRow(s.att[a], n)
          = [st |-> "claimed", owner |-> s.att[a].owner, by |-> n, seen |-> s.att[a].seen]
    BY ONLY <1>2, <2>3
  <2> QED
    BY ONLY <2>2, <2>4
<1>7. SetRow(s1, a, r2) = SetRow(s, a, r2)
  <2> HIDE DEF r2
  <2>1. s1.att = [s.att EXCEPT ![a] = r1] /\ s1 = SetAtt(s, [s.att EXCEPT ![a] = r1])
    BY Written DEF SetRow
  <2>2. [s1.att EXCEPT ![a] = r2] = [s.att EXCEPT ![a] = r2]
    <3>1. s.att = [b \in DOMAIN s.att |-> s.att[b]]
      BY DEF IsLedger, IsFcn
    <3> HIDE DEF s1
    <3> QED
      BY <2>1, <3>1
  <2>3. SetAtt(s1, [s1.att EXCEPT ![a] = r2]) = SetAtt(s, [s1.att EXCEPT ![a] = r2])
    <3> DEFINE f == [s1.att EXCEPT ![a] = r2]
               g == [s.att EXCEPT ![a] = r1]
    <3>1. s1 = SetAtt(s, g)
      BY <2>1
    <3> HIDE DEF f, g, s1
    <3>2. SetAtt(SetAtt(s, g), f) = SetAtt(s, f)
      BY DEF SetAtt
    <3> QED
      BY <3>1, <3>2 DEF f
  <2> QED
    BY <2>2, <2>3 DEF SetRow
<1> QED
  BY <1>1, <1>6, <1>7

LEMMA ClaimKeeps ==
    ASSUME CareInv, NEW a \in DOMAIN mem.att \cap DOMAIN db.att, NEW n, ClaimAttention(a, n)
    PROVE  CareInv'
<1>1. /\ mem' = Claimed(mem, a, n) /\ db' = Claimed(db, a, n) /\ outbox' = outbox
      /\ UNCHANGED <<room, davets, unmirrored, scene>>
  BY DEF ClaimAttention, Commit, CommitSignal, Unmoved
<1>2. /\ IsLedger(mem) /\ IsLedger(db) /\ IsBox(outbox) /\ Backed(db, outbox)
      /\ Agree(mem, db, room, unmirrored)
  BY DEF CareInv, Books
<1>3. Claimed(mem, a, n) = SetRow(mem, a, ClaimedRow(mem.att[a], n))
  BY <1>2, ClaimedFacts
<1>4. Claimed(db, a, n) = SetRow(db, a, ClaimedRow(db.att[a], n))
  BY <1>2, ClaimedFacts
<1>5. IsAtt(mem.att[a]) /\ IsAtt(db.att[a])
  BY <1>2 DEF IsLedger
<1> DEFINE rm == ClaimedRow(mem.att[a], n)
           rd == ClaimedRow(db.att[a], n)
<1>6. RowSet(mem, mem', a, rm) /\ RowSet(db, db', a, rd)
  BY <1>1, <1>2, <1>3, <1>4, RowSetFacts
<1>7. rd.st = "claimed"
  BY <1>5, ClaimedRowFacts
<1>8. ~room.sealed /\ a.key # Silence => rd = IF a \in unmirrored' THEN SeenRow(rm) ELSE rm
  <2> SUFFICES ASSUME ~room.sealed, a.key # Silence PROVE rd = IF a \in unmirrored THEN SeenRow(rm) ELSE rm
    BY <1>1
  <2>1. SameCare(mem, db, unmirrored)
    BY <1>2 DEF Agree
  <2>2. /\ a \in unmirrored => db.att[a] = SeenRow(mem.att[a])
        /\ a \notin unmirrored => db.att[a] = mem.att[a]
    <3>1. a \in DOMAIN mem.att \cup DOMAIN db.att /\ a.key # Silence
      OBVIOUS
    <3>2. RowAgrees(mem, db, unmirrored, a)
      BY <1>2, <2>1, <3>1, SameCareRow
    <3> QED
      BY <3>2 DEF RowAgrees
  <2> QED
    BY <1>5, <2>2, ClaimedRowFacts
<1>9. \A k : Sent(outbox', k) = Sent(outbox, k)
  BY <1>1
<1> HIDE DEF rm, rd
<1> QED
  BY <1>1, <1>2, <1>6, <1>7, <1>8, <1>9, RowHandler

LEMMA ResolveKeeps ==
    ASSUME CareInv, NEW a, NEW p, NEW op, ResolveAttention(a, p, op)
    PROVE  CareInv'
<1> DEFINE ids == {a}
<1>1. /\ mem' = Resolved(mem, ids) /\ db' = Resolved(db, ids) /\ outbox' = Acked(outbox, ids)
      /\ UNCHANGED <<room, davets, unmirrored, scene>>
  BY DEF ResolveAttention, Commit, CommitSignal, Unmoved
<1> HIDE DEF ids
<1>2. IsLedger(mem) /\ IsLedger(db) /\ Agree(mem, db, room, unmirrored) /\ Accountable(mem, room.lead)
  BY DEF CareInv, Books
<1>3. /\ Retires(mem, mem', ids, {}) /\ SameWork(mem', mem)
      /\ Retires(db, db', ids, {}) /\ SameWork(db', db)
  BY <1>1, <1>2, ResolvedFacts
<1>4. ~room.sealed => SameWork(mem', db') /\ Alike(mem, db, ids, ids, {}, {})
  BY <1>2, <1>3 DEF Agree, SameWork, Alike
<1>5. Accountable(mem', room.lead)
  BY <1>2, <1>3, AccountableSame DEF SameWork
<1>6. ids \subseteq ids
  OBVIOUS
<1> QED
  BY <1>1, <1>3, <1>4, <1>5, <1>6, RetireHandler

-----------------------------------------------------------------------------
(* A reminder to everyone *)

(* The sequence of a finite set has its elements and is empty only with it. *)
LEMMA SetToSeqFacts ==
    ASSUME NEW S, IsFiniteSet(S), NEW q, q = SetToSeq(S)
    PROVE  /\ q \in Seq(S) /\ DOMAIN q = 1..Cardinality(S) /\ Cardinality(S) \in Nat
           /\ \A i \in DOMAIN q : q[i] \in S
           /\ S # {} => 1 \in DOMAIN q
<1> DEFINE n == Cardinality(S)
<1>1. n \in Nat /\ ExistsBijection(1..n, S)
  BY FS_CardinalityType
<1>2. \E f \in [1..n -> S] : IsInjective(f)
  BY <1>1 DEF ExistsBijection, Bijection, Injection
<1>3. q \in [1..n -> S]
  BY <1>2 DEF SetToSeq
<1>4. S # {} => n # 0
  BY FS_EmptySet
<1> HIDE DEF n
<1> QED
  BY <1>1, <1>3, <1>4 DEF n

Delivery(a) == [att |-> a, owner |-> NameOf[a.who], home |-> NameOf[a.who] = Caretaker, acked |-> FALSE]

LEMMA FiniteDeliveries ==
    ASSUME NEW R, IsFiniteSet(R), NEW k, NEW g, NEW ids, ids \subseteq {AttentionOf(k, g, p) : p \in R}
    PROVE  IsFiniteSet({Delivery(a) : a \in ids})
<1> DEFINE T == {AttentionOf(k, g, p) : p \in R}
           f == [p \in R |-> AttentionOf(k, g, p)]
           S == {Delivery(a) : a \in ids}
           h == [a \in ids |-> Delivery(a)]
<1>1. f \in Surjection(R, T)
  BY DEF Surjection
<1>2. h \in Surjection(ids, S)
  BY DEF Surjection
<1> HIDE DEF f, h, T, S
<1>3. IsFiniteSet(T)
  BY <1>1, FS_Surjection
<1>4. IsFiniteSet(ids)
  BY <1>3, FS_Subset DEF T
<1>5. IsFiniteSet(S)
  BY <1>2, <1>4, FS_Surjection
<1> QED
  BY <1>5 DEF S

LEMMA SignalEveryoneKeeps ==
    ASSUME CareInv, NEW c, SignalEveryone(c)
    PROVE  CareInv'
<1> DEFINE k == c[1]
           R == EveryoneRecipients(c)
           ids == {a \in {AttentionOf(c[1], c[2], p) : p \in R} : ~Frozen(mem, a) /\ ~Frozen(db, a)}
           rows == [a \in ids |-> [st |-> "open", owner |-> NameOf[a.who], by |-> None,
                                   seen |-> a \in DOMAIN db.att /\ db.att[a].seen]]
           f == Over(db.att, rows)
           m1 == Marked(mem, k)
           d1 == Marked(db, k)
           d == SetAtt(d1, f)
           S == {Delivery(a) : a \in ids}
           new == SetToSeq(S)
<1>1. /\ db' = d /\ mem' = Mirror(m1, db', ids) /\ outbox' = outbox \o new /\ ids # {} /\ Swept
  BY DEF SignalEveryone, CommitSignal, SetAtt, Delivery
<1>2. ~room.archived /\ ~room.sealed /\ UNCHANGED <<room, davets, unmirrored, scene>>
  BY <1>1, SweptFacts
<1>3. /\ IsLedger(mem) /\ IsLedger(db) /\ IsBox(outbox) /\ Backed(db, outbox)
      /\ SameWork(mem, db) /\ SameCare(mem, db, unmirrored) /\ Paid(mem, outbox) /\ Paid(db, outbox)
      /\ Accountable(mem, room.lead)
  BY <1>2 DEF CareInv, Books, Agree
<1>4. IsFiniteSet(S)
  <2>1. R \subseteq davets
    BY DEF EveryoneRecipients
  <2>2. davets \subseteq Principal /\ IsFiniteSet(Principal)
    BY CareAssumption DEF CareInv
  <2>3. IsFiniteSet(R)
    <3>1. R \subseteq Principal
      BY <2>1, <2>2
    <3> HIDE DEF R
    <3> QED
      BY <2>2, <3>1, FS_Subset
  <2>4. ids \subseteq {AttentionOf(c[1], c[2], p) : p \in R}
    OBVIOUS
  <2> HIDE DEF R, ids
  <2> QED
    BY <2>3, <2>4, FiniteDeliveries
<1>5. /\ \A a \in ids : a.key = k
      /\ DOMAIN rows = ids /\ \A a \in ids : IsAtt(rows[a]) /\ rows[a].st = "open"
      /\ \A a \in ids : rows[a].seen = (a \in DOMAIN db.att /\ db.att[a].seen)
  BY DEF AttentionOf, IsAtt
<1> HIDE DEF ids, rows
<1>6. /\ IsFcn(f) /\ DOMAIN f = DOMAIN db.att \cup ids
      /\ \A a \in ids : f[a] = rows[a]
      /\ \A a \in DOMAIN db.att \ ids : f[a] = db.att[a]
  BY <1>5 DEF Over, IsFcn
<1> HIDE DEF f
<1>7. /\ IsLedger(m1) /\ SameWork(m1, mem) /\ m1.att = mem.att
      /\ IsLedger(d1) /\ SameWork(d1, db) /\ d1.att = db.att
  BY <1>3, MarkedFacts
<1>8. SameCare(m1, d1, unmirrored)
  BY <1>3, MarkedAgree
<1> HIDE DEF m1, d1
<1>9. IsLedger(d) /\ d.att = f /\ d.marks = d1.marks /\ SameWork(d, d1)
  <2>1. \A a \in DOMAIN f : IsAtt(f[a])
    BY <1>3, <1>5, <1>6 DEF IsLedger
  <2>2. IsLedger(d)
    BY <1>6, <1>7, <2>1, WrittenLedger
  <2> QED
    BY <1>7, <2>2, Written DEF SameWork
<1> HIDE DEF d
<1>10. /\ IsLedger(mem') /\ SameWork(mem', m1) /\ mem'.marks = m1.marks
       /\ SameCare(mem', db', unmirrored)
  <2>1. ids \subseteq DOMAIN d.att /\ DOMAIN d.att = DOMAIN d1.att \cup ids
    BY <1>6, <1>7, <1>9
  <2>2. \A a \in DOMAIN d1.att \ ids : d.att[a] = d1.att[a]
    BY <1>6, <1>7, <1>9
  <2>3. IsLedger(mem') /\ SameWork(mem', m1) /\ mem'.marks = m1.marks
    BY <1>1, <1>7, <1>9, <2>1, MirrorFacts
  <2>4. \A b \in ids \cap unmirrored : b.key # Silence => Shown(d.att[b])
    <3> SUFFICES ASSUME NEW b \in ids, b \in unmirrored, b.key # Silence PROVE Shown(d.att[b])
      OBVIOUS
    <3>1. b \in DOMAIN db.att
      BY <1>3 DEF SameCare
    <3>2. RowAgrees(mem, db, unmirrored, b)
      BY <1>3, <3>1, SameCareRow
    <3>3. db.att[b].seen = TRUE
      BY <3>2 DEF RowAgrees, Shown
    <3> QED
      BY <1>5, <1>6, <1>9, <3>1, <3>3 DEF Shown
  <2>5. SameCare(Mirror(m1, d, ids), d, unmirrored)
    BY <1>7, <1>8, <1>9, <2>1, <2>2, <2>4, MirrorAgrees
  <2> QED
    BY <1>1, <2>3, <2>5
<1>11. IsBox(new) /\ Backed(d, new) /\ Sent(new, k) # {}
  <2>1. S # {}
    BY <1>1
  <2>2. ASSUME NEW x \in S
        PROVE  IsDelivery(x) /\ x.att \in ids
    <3>1. PICK a \in ids : x = Delivery(a)
      BY <2>2
    <3>2. \E w, h : x = [att |-> a, owner |-> w, home |-> h, acked |-> FALSE]
      BY <3>1 DEF Delivery
    <3>3. IsDelivery(x) /\ x.att = a
      BY <3>2 DEF IsDelivery
    <3> QED
      BY <3>3
  <2> HIDE DEF S
  <2>3. /\ new \in Seq(S) /\ DOMAIN new = 1..Cardinality(S) /\ Cardinality(S) \in Nat
        /\ (\A i \in DOMAIN new : new[i] \in S) /\ 1 \in DOMAIN new
    BY <1>4, <2>1, SetToSeqFacts
  <2> HIDE DEF new
  <2>4. new \in Seq(Range(new))
    <3>1. \A i \in 1..Len(new) : new[i] \in Range(new)
      BY <2>3 DEF Range
    <3>2. new = [i \in 1..Len(new) |-> new[i]] /\ Len(new) \in Nat
      BY ONLY <2>3
    <3> QED
      BY ONLY <3>1, <3>2
  <2>5. \A i \in DOMAIN new : /\ IsDelivery(new[i]) /\ new[i].att \in DOMAIN d.att
                              /\ d.att[new[i].att].st = "open" /\ new[i].att.key = k
    BY <1>5, <1>6, <1>9, <2>2, <2>3
  <2> QED
    BY <2>3, <2>4, <2>5 DEF IsBox, Backed, Sent
<1> HIDE DEF new, k
<1>12. Backed(d, outbox)
  <2> SUFFICES ASSUME NEW i \in DOMAIN outbox
               PROVE  outbox[i].att \in DOMAIN d.att /\ (~outbox[i].acked => d.att[outbox[i].att].st # "resolved")
    BY DEF Backed
  <2>1. outbox[i].att \in DOMAIN db.att /\ (~outbox[i].acked => db.att[outbox[i].att].st # "resolved")
    BY <1>3 DEF Backed
  <2> QED
    BY <1>5, <1>6, <1>9, <2>1
<1>13. /\ IsBox(outbox') /\ Backed(d, outbox') /\ Grows(outbox, outbox')
       /\ Cardinality(Sent(outbox, k)) + 1 <= Cardinality(Sent(outbox', k))
  BY <1>1, <1>3, <1>11, <1>12, ConcatFacts
<1>14. Paid(m1, outbox') /\ Paid(d1, outbox')
  BY <1>3, <1>13, MarkedPaid DEF m1, d1
<1>15. Paid(mem', outbox') /\ Paid(db', outbox')
  BY <1>1, <1>9, <1>10, <1>14 DEF Paid
<1>16. Agree(mem', db', room', unmirrored)
  BY <1>1, <1>2, <1>3, <1>7, <1>9, <1>10 DEF Agree, SameWork
<1>17. Accountable(mem', room'.lead)
  BY <1>2, <1>3, <1>7, <1>10, AccountableSame DEF SameWork
<1> QED
  BY <1>1, <1>2, <1>9, <1>10, <1>13, <1>15, <1>16, <1>17 DEF CareInv, Books

-----------------------------------------------------------------------------
(* The theorems *)

LEMMA CareInitial ==
    ASSUME CareInit
    PROVE  CareInv
<1>1. /\ scene \in Scenes /\ davets = scene.davets /\ mem = Empty /\ db = Empty /\ outbox = <<>> /\ unmirrored = {}
      /\ room = [lead |-> scene.lead, to |-> scene.recipient, archived |-> FALSE, sealed |-> FALSE]
  BY DEF CareInit
<1>2. davets \subseteq Principal
  BY <1>1, CareAssumption
<1>3. IsRoom(room)
  BY <1>1 DEF IsRoom
<1>4. IsBox(outbox) /\ Backed(db, outbox)
  <2>1. DOMAIN outbox = {} /\ outbox \in Seq(Range(outbox))
    BY <1>1
  <2> QED
    BY <2>1 DEF IsBox, Backed
<1>5. SameWork(Empty, Empty) /\ SameCare(Empty, Empty, {})
  BY DEF SameWork, SameCare
<1> QED
  BY <1>1, <1>2, <1>3, <1>4, <1>5, EmptyFacts DEF CareInv, Books, Agree

LEMMA CareStuttering ==
    ASSUME CareInv, UNCHANGED <<mem, db, outbox, room, davets, unmirrored, scene>>
    PROVE  CareInv'
  BY DEF CareInv

(* Every request, sweep, acknowledgement, passing of time and restart. *)
LEMMA CareStep ==
    ASSUME CareInv, [CareNext]_careVars
    PROVE  CareInv'
<1>1. ASSUME NEW now \in scene.clock, WorkStep(now) PROVE CareInv'
  <2>1. CASE \E r \in scene.newTask : CreateTaskRequest(r[1], r[2], now)
    BY <2>1, CreateTaskKeeps DEF CreateTaskRequest
  <2>2. CASE \E t \in DOMAIN mem.tasks, r \in scene.task : UpdateTaskRequest(t, r[1], r[2], r[3], now)
    BY <2>2, UpdateTaskKeeps DEF UpdateTaskRequest
  <2>3. CASE \E r \in scene.newGoal : CreateGoalRequest(r[1], r[2], r[3], now)
    BY <2>3, CreateGoalKeeps DEF CreateGoalRequest
  <2>4. CASE \E g \in DOMAIN mem.goals, r \in scene.goal : UpdateGoalRequest(r[1], g, r[2], r[3], r[4], r[5], now)
    BY <2>4, UpdateGoalKeeps DEF UpdateGoalRequest
  <2>5. CASE \E r \in scene.wait : SetWaitRequest(r[1], r[2], r[3], now)
    BY <2>5, SetWaitKeeps DEF SetWaitRequest
  <2>6. CASE \E r \in scene.unwait : ClearWaitRequest(r[1], r[2])
    BY <2>6, ClearWaitKeeps DEF ClearWaitRequest
  <2> QED
    BY <1>1, <2>1, <2>2, <2>3, <2>4, <2>5, <2>6 DEF WorkStep
<1>2. ASSUME NEW now \in scene.clock, RoomStep(now) PROVE CareInv'
  <2>1. CASE \E r \in scene.post : PostPlain(r[1], r[2], now) \/ PostSummons(r[1], r[2], now) \/ PostReply(r[1], r[2], now)
    BY <2>1, PostPlainKeeps, PostSummonsKeeps, PostReplyKeeps
  <2>2. CASE \E to \in scene.setLead : SetLead(to, now)
    BY <2>2, SetLeadKeeps
  <2>3. CASE \E f \in scene.settings : SetSettings(f[1], f[2], now)
    BY <2>3, SetSettingsKeeps
  <2>4. CASE Seal
    BY <2>4, SealKeeps
  <2> QED
    BY <1>2, <2>1, <2>2, <2>3, <2>4 DEF RoomStep
<1>3. CASE TickCare
  <2>1. CASE \E key \in CycleKeys(mem) : SignalCycle(key)
    BY <2>1, SignalCycleKeeps
  <2>2. CASE \E n \in DOMAIN mem.waits : SignalWait(n)
    BY <2>2, SignalWaitKeeps
  <2>3. CASE \E c \in aged \cap Conditions(mem) : NoteCondition(c) \/ SignalCondition(c) \/ SignalEveryone(c)
    BY <2>3, NoteConditionKeeps, SignalConditionKeeps, SignalEveryoneKeeps
  <2> QED
    BY <1>3, <2>1, <2>2, <2>3 DEF TickCare
<1>4. CASE LedgerStep
  <2>1. CASE \E i \in DOMAIN outbox, p \in scene.ack : CheckAck(i, p)
    BY <2>1, CareStuttering DEF CheckAck
  <2>2. CASE \E a \in DOMAIN mem.att \cap DOMAIN db.att : \E n \in scene.claim : ClaimAttentionRequest(a, n)
    BY <2>2, ClaimKeeps DEF ClaimAttentionRequest
  <2>3. CASE \E a \in DOMAIN mem.att \cap DOMAIN db.att : \E p \in scene.resolve : ResolveAttentionRequest(a, p)
    BY <2>3, ResolveKeeps DEF ResolveAttentionRequest
  <2>4. CASE \E r \in scene.attention : CreateAttentionRequest(r[1], r[2])
    BY <2>4, CreateAttentionKeeps DEF CreateAttentionRequest
  <2>5. CASE \E k \in checked : CommitAck(k[1], k[2])
    BY <2>5, CommitAckKeeps
  <2>6. CASE \E a \in unmirrored : MirrorAck(a)
    BY <2>6, MirrorAckKeeps
  <2> QED
    BY <1>4, <2>1, <2>2, <2>3, <2>4, <2>5, <2>6 DEF LedgerStep
<1>5. CASE TimeStep
  BY <1>5, CareStuttering DEF TimeStep, Ages, Cools, HealthAges
<1>6. CASE WorldStep
  <2>1. CASE \E r \in scene.report : Report(r[1], r[2], r[3])
    BY <2>1, CareStuttering DEF Report
  <2>2. CASE \E n \in scene.sits : Sits(n)
    BY <2>2, CareStuttering DEF Sits
  <2>3. CASE \E p \in scene.invite : Davet(p)
    <3>1. PICK p \in scene.invite : Davet(p)
      BY <2>3
    <3>2. p \in Principal
      BY CareAssumption DEF CareInv
    <3>3. davets' \subseteq Principal /\ UNCHANGED <<mem, db, outbox, room, unmirrored, scene>>
      BY <3>1, <3>2 DEF Davet, CareInv
    <3> QED
      BY <3>3 DEF CareInv
  <2>4. CASE Restart
    BY <2>4, RestartKeeps
  <2> QED
    BY <1>6, <2>1, <2>2, <2>3, <2>4 DEF WorldStep
<1>7. CASE UNCHANGED careVars
  BY <1>7, CareStuttering DEF careVars
<1> QED
  BY <1>1, <1>2, <1>3, <1>4, <1>5, <1>6, <1>7 DEF CareNext

(* The books of the care are kept by every behaviour: pending deliveries   *)
(* are backed by open rows, marks are paid for, the copies agree while the *)
(* loca exists, an archived loca has no mark and its goal is accountable.  *)
THEOREM BooksAreKept == CareSpec => []CareInv
<1>1. CareInit => CareInv
  BY CareInitial
<1>2. CareInv /\ [CareNext]_careVars => CareInv'
  BY CareStep
<1> QED
  BY <1>1, <1>2, PTL DEF CareSpec

(* What a reconnecting session is sent again is never retired work         *)
(* (pending_care_scoped, retire_condition_attentions).                     *)
THEOREM NothingRetiredIsReplayed == CareSpec => []RetiredNeverReplayed
<1>1. CareInv => RetiredNeverReplayed
  BY DEF CareInv, Books, Backed, RetiredNeverReplayed
<1> QED
  BY <1>1, BooksAreKept, PTL

(* Memory shows the work and the care that a restart would bring back, but *)
(* for the silence and for an acknowledgement that is committed and not    *)
(* yet mirrored (publish_care_signal, ack_care, Hub::build).               *)
THEOREM HotLedgerIsTheStore == CareSpec => []HotLedgerMatchesStore
<1>1. ASSUME CareInv PROVE HotLedgerMatchesStore
  <2> SUFFICES ASSUME ~room.sealed
      PROVE  /\ mem.tasks = db.tasks /\ mem.goals = db.goals /\ mem.waits = db.waits
             /\ Restrict(mem.marks, DOMAIN mem.marks \ {Silence}) = Restrict(db.marks, DOMAIN db.marks \ {Silence})
             /\ \A a \in DOMAIN mem.att \cup DOMAIN db.att : a.key # Silence =>
                   /\ a \in DOMAIN mem.att \cap DOMAIN db.att
                   /\ db.att[a] = IF a \in unmirrored THEN [mem.att[a] EXCEPT !.seen = TRUE] ELSE mem.att[a]
    BY DEF HotLedgerMatchesStore
  <2>1. SameWork(mem, db) /\ SameCare(mem, db, unmirrored)
    BY <1>1 DEF CareInv, Agree
  <2>2. DOMAIN mem.marks \ {Silence} = DOMAIN db.marks \ {Silence}
    BY <2>1 DEF SameCare
  <2>3. \A k \in DOMAIN mem.marks \ {Silence} : mem.marks[k] = db.marks[k]
    BY <2>1 DEF SameCare
  <2>4. Restrict(mem.marks, DOMAIN mem.marks \ {Silence}) = Restrict(db.marks, DOMAIN db.marks \ {Silence})
    BY <2>2, <2>3 DEF Restrict
  <2> QED
    BY <2>1, <2>4 DEF SameWork, SameCare, SeenRow
<1> QED
  BY <1>1, BooksAreKept, PTL

(* An attempt is spent only on a signal that was sent (emit_care_signal).  *)
THEOREM AttemptsAreSent == CareSpec => []NoBurntAttempts
<1>1. CareInv => NoBurntAttempts
  BY DEF CareInv, Paid, Sent, NoBurntAttempts
<1> QED
  BY <1>1, BooksAreKept, PTL

(* At most one goal is active, somebody leads it and something of it is    *)
(* left to do (create_goal, update_goal, update_task, set_lead).           *)
THEOREM GoalsAreAccountable == CareSpec => []GoalIsAccountable
<1>1. ASSUME CareInv PROVE GoalIsAccountable
  <2> DEFINE active == {g \in DOMAIN mem.goals : mem.goals[g].st = "active"}
  <2>1. Accountable(mem, room.lead)
    BY <1>1 DEF CareInv
  <2>2. Cardinality(active) <= 1
    <3>1. CASE active = {}
      <4>1. Cardinality(active) = 0
        BY <3>1, FS_EmptySet
      <4> QED
        BY <4>1
    <3>2. CASE active # {}
      <4>1. PICK g : g \in active
        BY <3>2
      <4>2. active = {g}
        BY <2>1, <4>1 DEF Accountable
      <4>3. Cardinality(active) = 1
        BY <4>2, FS_Singleton
      <4> QED
        BY <4>3
    <3> QED
      BY <3>1, <3>2
  <2>3. active # {} => room.lead # None
    BY <2>1 DEF Accountable
  <2>4. \A g \in active : ~AllGoalTasksDone(mem.goals[g])
    BY <2>1 DEF Accountable, AllGoalTasksDone, AllDone
  <2> QED
    BY <2>2, <2>3, <2>4 DEF GoalIsAccountable
<1> QED
  BY <1>1, BooksAreKept, PTL

-----------------------------------------------------------------------------
(* Least and greatest numbers *)

(* A non-empty set of natural numbers has a least element.                 *)
LEMMA LeastOf ==
    ASSUME NEW N, N \subseteq Nat, N # {}
    PROVE  \E x \in N : \A y \in N : x <= y
<1> DEFINE R == OpToRel(<, Nat)
<1>1. IsWellFoundedOn(R, Nat)
  BY NatLessThanWellFounded
<1>2. \A x, y \in Nat : <<x, y>> \in R <=> x < y
  BY DEF OpToRel
<1> HIDE DEF R
<1>3. PICK x \in N : \A y \in N : ~(<<y, x>> \in R)
  BY <1>1, WFMin
<1>4. ASSUME NEW y \in N PROVE x <= y
  <2>1. x \in Nat /\ y \in Nat /\ ~(<<y, x>> \in R)
    BY <1>3
  <2> QED
    BY <1>2, <2>1
<1> QED
  BY <1>3, <1>4

(* Min picks it.                                                           *)
LEMMA MinFacts ==
    ASSUME NEW S, S \subseteq Nat, S # {}
    PROVE  Min(S) \in S /\ \A y \in S : Min(S) <= y
  BY LeastOf DEF Min

(* Max picks the greatest element of a bounded set.                        *)
LEMMA MaxFacts ==
    ASSUME NEW S, NEW n \in Nat, S \subseteq 0..n, S # {}
    PROVE  Max(S) \in S /\ \A y \in S : y <= Max(S)
<1> DEFINE N == {k \in Nat : \A y \in S : y <= k}
<1>1. N \subseteq Nat /\ n \in N
  OBVIOUS
<1>2. PICK k \in N : \A m \in N : k <= m
  BY <1>1, LeastOf
<1>3. k \in S
  <2>1. PICK s \in S : TRUE
    OBVIOUS
  <2>2. SUFFICES ASSUME k \notin S PROVE FALSE
    OBVIOUS
  <2>3. k \in Nat /\ k > 0
    BY <1>2, <2>1, <2>2
  <2>4. k - 1 \in N
    BY <1>2, <2>2, <2>3
  <2> QED
    BY <1>2, <2>3, <2>4
<1>4. \A y \in S : y <= k
  BY <1>2
<1>5. \E x \in S : \A y \in S : x >= y
  BY <1>3, <1>4
<1>6. /\ Max(S) \in S /\ \A y \in S : Max(S) >= y
  BY ONLY <1>5 DEF Max
<1> QED
  BY <1>6

-----------------------------------------------------------------------------
(* Cycles of waits *)

(* The recursion that follows the edges of the waits for N steps.          *)
IsWalk(f, w, n, N) ==
    f = [i \in 0..N |-> IF i = 0 THEN n ELSE IF f[i - 1] \in DOMAIN w THEN w[f[i - 1]].for ELSE None]

(* It has a solution, so that CHOOSE finds one.                            *)
LEMMA WalkExists ==
    ASSUME NEW w, NEW n, NEW N \in Nat
    PROVE  \E f : IsWalk(f, w, n, N)
<1> DEFINE Next1(x) == IF x \in DOMAIN w THEN w[x].for ELSE None
           Good(k) == \E f : IsWalk(f, w, n, k)
           Bad == {k \in Nat : ~Good(k)}
<1>1. SUFFICES ASSUME Bad # {} PROVE FALSE
  OBVIOUS
<1> HIDE DEF Good
<1>2. PICK k \in Bad : \A m \in Bad : k <= m
  <2>1. Bad \subseteq Nat
    OBVIOUS
  <2> HIDE DEF Bad
  <2> QED
    BY <1>1, <2>1, LeastOf
<1> USE DEF Good
<1>3. CASE k = 0
  <2> DEFINE g == [i \in 0..0 |-> n]
             h == [i \in 0..0 |-> IF i = 0 THEN n ELSE Next1(g[i - 1])]
  <2>1. \A i \in 0..0 : g[i] = h[i]
    OBVIOUS
  <2>2. g = h
    BY <2>1
  <2>3. IsWalk(g, w, n, 0)
    BY <2>2 DEF IsWalk
  <2> QED
    BY <1>3, <2>3
<1>4. CASE k # 0
  <2>1. k \in Nat /\ k - 1 \in Nat /\ k > 0
    BY <1>4
  <2>2. k - 1 \notin Bad
    BY <1>2, <2>1
  <2>3. PICK f : IsWalk(f, w, n, k - 1)
    BY <2>1, <2>2
  <2> DEFINE g == [i \in 0..k |-> IF i = k THEN Next1(f[i - 1]) ELSE f[i]]
             h == [i \in 0..k |-> IF i = 0 THEN n ELSE Next1(g[i - 1])]
  <2>4. ASSUME NEW i \in 0..k PROVE g[i] = h[i]
    <3> HIDE DEF Next1
    <3>1. CASE i = k
      BY <2>1, <3>1
    <3>2. CASE i # k
      <4>1. i \in 0..(k - 1) /\ g[i] = f[i] /\ (i # 0 => g[i - 1] = f[i - 1])
        BY <2>1, <3>2
      <4>2. f[i] = IF i = 0 THEN n ELSE Next1(f[i - 1])
        BY <2>3, <4>1 DEF IsWalk, Next1
      <4> QED
        BY <4>1, <4>2
    <3> QED
      BY <3>1, <3>2
  <2>5. g = h
    BY <2>4
  <2>6. IsWalk(g, w, n, k)
    BY <2>5 DEF IsWalk
  <2> QED
    BY <2>6
<1> QED
  BY <1>3, <1>4

(* What Steps computes by.                                                 *)
LEMMA StepsFacts ==
    ASSUME NEW w, NEW n
    PROVE  IsWalk(Steps(w, n), w, n, Cardinality(Name))
<1>1. Cardinality(Name) \in Nat
  BY CareAssumption, FS_CardinalityType
<1>2. Steps(w, n) = CHOOSE f : IsWalk(f, w, n, Cardinality(Name))
  BY DEF Steps, IsWalk
<1> QED
  BY <1>1, <1>2, WalkExists

(* Every member of a cycle of waits waits: a walk that leaves the waiters  *)
(* never comes back (wait_cycle_after).                                    *)
LEMMA CycleMembersWait ==
    ASSUME NEW w, None \notin DOMAIN w, NEW c \in WaitCycles(w)
    PROVE  c # {} /\ c \subseteq DOMAIN w
<1>1. PICK n \in DOMAIN w : c = WaitCycleAfter(w, n) /\ c # {}
  BY DEF WaitCycles
<1> DEFINE walk == Steps(w, n)
           N == Cardinality(Name)
           back == {i \in DOMAIN walk : i > 0 /\ walk[i] = n}
           last == Min(back)
<1>2. N \in Nat
  BY CareAssumption, FS_CardinalityType
<1>3. c = {walk[i] : i \in 0..(last - 1)} /\ back # {}
  BY <1>1 DEF WaitCycleAfter
<1>4. IsWalk(walk, w, n, N)
  BY StepsFacts
<1> HIDE DEF walk, N
<1>5. /\ DOMAIN walk = 0..N /\ walk[0] = n
      /\ \A i \in 1..N : walk[i] = IF walk[i - 1] \in DOMAIN w THEN w[walk[i - 1]].for ELSE None
  BY <1>2, <1>4 DEF IsWalk
<1>6. back \subseteq 1..N
  BY <1>2, <1>5
<1>7. last \in back /\ last \in 1..N
  BY <1>2, <1>3, <1>6, MinFacts
<1> HIDE DEF last
<1>8. walk[last] = n
  BY <1>7
<1> DEFINE Lost == {i \in 0..(last - 1) : walk[i] \notin DOMAIN w}
<1>9. Lost = {}
  <2>1. SUFFICES ASSUME NEW i \in Lost PROVE FALSE
    OBVIOUS
  <2> DEFINE Late == {j \in Nat : j > i /\ j <= last /\ walk[j] # None}
  <2>2. last \in Late
    BY <1>1, <1>7, <1>8, <1>2
  <2>3. PICK j \in Late : \A m \in Late : j <= m
    BY <2>2, LeastOf
  <2>4. j \in 1..N /\ j - 1 \in Nat /\ i <= j - 1 /\ j - 1 <= last
    BY <1>2, <1>7
  <2>5. walk[j - 1] \in DOMAIN w
    BY <1>5, <2>4
  <2>6. j - 1 # i
    BY <2>5
  <2>7. walk[j - 1] = None
    BY <2>3, <2>4, <2>6
  <2> QED
    BY <2>5, <2>7
<1> QED
  BY <1>1, <1>3, <1>9

-----------------------------------------------------------------------------
(* Generations: a new one is above every attention of its condition *)

(* Rows of tasks and waits have their columns, and the key of a wait.      *)
IsTask(r) == r = [to |-> r.to, st |-> r.st, gen |-> r.gen]
IsWait(r) == r = [for |-> r.for, why |-> r.why, gen |-> r.gen, n |-> r.n]
WaitKey(x) == <<"wait", x>>

(* A task in these states can come due.                                    *)
Live == {"open", "taken"}

(* The greatest generation of the behaviour.                               *)
Top == scene.gens

(* Rows are numbered without a gap, so that a new one takes no old id.     *)
Numbered(f) == \E k \in Nat : DOMAIN f = 1..k

(* The counter n is ahead of the waits. It is not ahead of tasks, goals    *)
(* and the silence, which may be stamped with the bare clock.              *)
Dated(s, n, L) ==
    /\ s.last \in 0..L
    /\ Numbered(s.tasks) /\ Numbered(s.goals)
    /\ \A t \in DOMAIN s.tasks : IsTask(s.tasks[t]) /\ s.tasks[t].gen \in 0..L
    /\ \A g \in DOMAIN s.goals : s.goals[g].gen \in 0..L
    /\ None \notin DOMAIN s.waits
    /\ \A x \in DOMAIN s.waits : IsWait(s.waits[x]) /\ s.waits[x].gen \in 0..n

(* An attention of a task or a goal is not newer than its row,             *)
Earlier(a, s) ==
    /\ \A t : a.key = TaskKey(t) => t \in DOMAIN s.tasks /\ a.gen <= s.tasks[t].gen
    /\ \A g : a.key = GoalKey(g) => g \in DOMAIN s.goals /\ a.gen <= s.goals[g].gen

(* and one of a wait not newer than the counter: the wait may be gone.     *)
AttsDated(s, n, L) ==
    \A a \in DOMAIN s.att : a.gen \in 0..L /\ (\A x : a.key = WaitKey(x) => a.gen <= n) /\ Earlier(a, s)

(* The attentions of an open loca are behind its work and the counter. It  *)
(* is not claimed of a sealed one, whose restart reads nothing back.       *)
GenInv ==
    ~room.sealed =>
        /\ gen \in 0..Top
        /\ Dated(mem, gen, Top) /\ Dated(db, gen, Top) /\ AttsDated(db, gen, Top)

(* What one handler may do to the tasks: leave one, stamp it with a later  *)
(* generation, or create one.                                              *)
TasksMove(s, p, L) ==
    /\ Numbered(p.tasks)
    /\ \A t \in DOMAIN p.tasks :
          \/ t \in DOMAIN s.tasks /\ p.tasks[t] = s.tasks[t]
          \/ /\ IsTask(p.tasks[t]) /\ p.tasks[t].gen \in 0..L
             /\ t \in DOMAIN s.tasks => s.tasks[t].gen < p.tasks[t].gen

(* To the goals the same.                                                  *)
GoalsMove(s, p, L) ==
    /\ Numbered(p.goals)
    /\ \A g \in DOMAIN p.goals :
          \/ g \in DOMAIN s.goals /\ p.goals[g] = s.goals[g]
          \/ /\ p.goals[g].gen \in 0..L
             /\ g \in DOMAIN s.goals => s.goals[g].gen < p.goals[g].gen

(* A wait keeps its generation or gets one off the counter.                *)
WaitsMove(s, p, n, n2) ==
    \A x \in DOMAIN p.waits :
        /\ x # None
        /\ \/ x \in DOMAIN s.waits /\ IsWait(p.waits[x]) /\ p.waits[x].gen = s.waits[x].gen
           \/ IsWait(p.waits[x]) /\ p.waits[x].gen \in (n + 1)..n2

(* One step of one copy of the ledger.                                     *)
Moved(s, p, n, n2, L) ==
    TasksMove(s, p, L) /\ GoalsMove(s, p, L) /\ WaitsMove(s, p, n, n2) /\ p.last \in 0..L

(* An attention of the current generation of a task or a goal, or of a     *)
(* wait's that the counter has passed.                                     *)
Current(a, s, n, L) ==
    /\ a.gen \in 0..L
    /\ \A x : a.key = WaitKey(x) => a.gen <= n
    /\ \A t : a.key = TaskKey(t) => t \in DOMAIN s.tasks /\ a.gen = s.tasks[t].gen
    /\ \A g : a.key = GoalKey(g) => g \in DOMAIN s.goals /\ a.gen = s.goals[g].gen

(* New attentions are about current work.                                  *)
AttsMove(s, p, n2, L) ==
    /\ DOMAIN s.tasks \subseteq DOMAIN p.tasks /\ DOMAIN s.goals \subseteq DOMAIN p.goals
    /\ \A a \in DOMAIN p.att : a \in DOMAIN s.att \/ Current(a, p, n2, L)

(* Conditions, as an operator of the watched kinds.                        *)
Conds(s, watch) ==
    {c \in {<<TaskKey(t), s.tasks[t].gen>> : t \in {u \in DOMAIN s.tasks : s.tasks[u].st \in Live}}
           \cup {<<GoalKey(g), s.goals[g].gen>> : g \in {h \in DOMAIN s.goals : s.goals[h].st = "active"}}
           \cup (IF s.last > 0 THEN {<<Silence, s.last>>} ELSE {}) : c[1][1] \in watch}

(* Such steps keep the rows dated...                                       *)
LEMMA MovedDated ==
    ASSUME NEW n \in Nat, NEW n2 \in Nat, n <= n2, NEW L, NEW s, NEW p, Dated(s, n, L), Moved(s, p, n, n2, L)
    PROVE  Dated(p, n2, L)
<1>1. p.last \in 0..L /\ Numbered(p.tasks) /\ Numbered(p.goals)
  BY DEF Moved, TasksMove, GoalsMove
<1>2. ASSUME NEW t \in DOMAIN p.tasks PROVE IsTask(p.tasks[t]) /\ p.tasks[t].gen \in 0..L
  BY DEF Moved, TasksMove, Dated
<1>3. ASSUME NEW g \in DOMAIN p.goals PROVE p.goals[g].gen \in 0..L
  BY DEF Moved, GoalsMove, Dated
<1>4. ASSUME NEW x \in DOMAIN p.waits PROVE x # None /\ IsWait(p.waits[x]) /\ p.waits[x].gen \in 0..n2
  <2>1. x # None /\ IsWait(p.waits[x])
        /\ (\/ x \in DOMAIN s.waits /\ p.waits[x].gen = s.waits[x].gen
            \/ p.waits[x].gen \in (n + 1)..n2)
    BY DEF Moved, WaitsMove
  <2>2. x \in DOMAIN s.waits => s.waits[x].gen \in 0..n
    BY DEF Dated
  <2> QED
    BY <2>1, <2>2
<1> QED
  BY <1>1, <1>2, <1>3, <1>4 DEF Dated

(* ...and the attentions behind their rows.                                *)
LEMMA MovedAtts ==
    ASSUME NEW n \in Nat, NEW n2 \in Nat, n <= n2, NEW L \in Nat, NEW s, NEW p, Dated(s, n, L), AttsDated(s, n, L),
           Moved(s, p, n, n2, L), AttsMove(s, p, n2, L)
    PROVE  AttsDated(p, n2, L)
<1> SUFFICES ASSUME NEW a \in DOMAIN p.att
             PROVE  a.gen \in 0..L /\ (\A x : a.key = WaitKey(x) => a.gen <= n2) /\ Earlier(a, p)
  BY DEF AttsDated
<1>1. CASE a \notin DOMAIN s.att
  <2>1. Current(a, p, n2, L)
    BY <1>1 DEF AttsMove
  <2> QED
    BY <2>1 DEF Current, Earlier
<1>2. CASE a \in DOMAIN s.att
  <2>1. a.gen \in 0..L /\ (\A x : a.key = WaitKey(x) => a.gen <= n) /\ Earlier(a, s)
    BY <1>2 DEF AttsDated
  <2>2. ASSUME NEW t, a.key = TaskKey(t)
        PROVE  t \in DOMAIN p.tasks /\ a.gen <= p.tasks[t].gen
    <3>1. t \in DOMAIN s.tasks /\ a.gen <= s.tasks[t].gen
      BY <2>1, <2>2 DEF Earlier
    <3>2. t \in DOMAIN p.tasks
      BY <3>1 DEF AttsMove
    <3>3. p.tasks[t] = s.tasks[t] \/ (p.tasks[t].gen \in 0..L /\ s.tasks[t].gen < p.tasks[t].gen)
      BY <3>1, <3>2 DEF Moved, TasksMove
    <3>4. s.tasks[t].gen \in 0..L
      BY <3>1 DEF Dated
    <3> QED
      BY <2>1, <3>1, <3>2, <3>3, <3>4
  <2>3. ASSUME NEW g, a.key = GoalKey(g)
        PROVE  g \in DOMAIN p.goals /\ a.gen <= p.goals[g].gen
    <3>1. g \in DOMAIN s.goals /\ a.gen <= s.goals[g].gen
      BY <2>1, <2>3 DEF Earlier
    <3>2. g \in DOMAIN p.goals
      BY <3>1 DEF AttsMove
    <3>3. p.goals[g] = s.goals[g] \/ (p.goals[g].gen \in 0..L /\ s.goals[g].gen < p.goals[g].gen)
      BY <3>1, <3>2 DEF Moved, GoalsMove
    <3>4. s.goals[g].gen \in 0..L
      BY <3>1 DEF Dated
    <3> QED
      BY <2>1, <3>1, <3>2, <3>3, <3>4
  <2>4. \A x : a.key = WaitKey(x) => a.gen <= n2
    BY <2>1
  <2> QED
    BY <2>1, <2>2, <2>3, <2>4 DEF Earlier
<1> QED
  BY <1>1, <1>2

(* A condition of the new ledger is the silence, an old one, or has no     *)
(* attention.                                                              *)
FreshMove(m, d, m2, watch) ==
    \A c \in Conds(m2, watch) \cup WaitConditions(m2) :
        \/ c[1] = Silence
        \/ c \in Conds(m, watch) \cup WaitConditions(m)
        \/ \A a \in DOMAIN d.att : <<a.key, a.gen>> # c

(* What a condition is about.                                              *)
LEMMA CondCases ==
    ASSUME NEW s, NEW watch, NEW c \in Conds(s, watch)
    PROVE  /\ c[1][1] \in watch
           /\ \/ \E t \in DOMAIN s.tasks : s.tasks[t].st \in Live /\ c = <<TaskKey(t), s.tasks[t].gen>>
              \/ \E g \in DOMAIN s.goals : s.goals[g].st = "active" /\ c = <<GoalKey(g), s.goals[g].gen>>
              \/ s.last > 0 /\ c = <<Silence, s.last>>
<1>1. /\ c[1][1] \in watch
      /\ \/ c \in {<<TaskKey(t), s.tasks[t].gen>> : t \in {u \in DOMAIN s.tasks : s.tasks[u].st \in Live}}
         \/ c \in {<<GoalKey(g), s.goals[g].gen>> : g \in {h \in DOMAIN s.goals : s.goals[h].st = "active"}}
         \/ c \in IF s.last > 0 THEN {<<Silence, s.last>>} ELSE {}
  BY DEF Conds
<1> QED
  BY ONLY <1>1

(* Open work is a condition.                                               *)
LEMMA CondIntro ==
    ASSUME NEW s, NEW watch, NEW c, c[1][1] \in watch,
           \/ \E t \in DOMAIN s.tasks : s.tasks[t].st \in Live /\ c = <<TaskKey(t), s.tasks[t].gen>>
           \/ \E g \in DOMAIN s.goals : s.goals[g].st = "active" /\ c = <<GoalKey(g), s.goals[g].gen>>
           \/ s.last > 0 /\ c = <<Silence, s.last>>
    PROVE  c \in Conds(s, watch)
<1>1. \/ c \in {<<TaskKey(t), s.tasks[t].gen>> : t \in {u \in DOMAIN s.tasks : s.tasks[u].st \in Live}}
      \/ c \in {<<GoalKey(g), s.goals[g].gen>> : g \in {h \in DOMAIN s.goals : s.goals[h].st = "active"}}
      \/ c \in IF s.last > 0 THEN {<<Silence, s.last>>} ELSE {}
  OBVIOUS
<1> QED
  BY <1>1 DEF Conds

(* Such a step starts no condition whose attention exists: a later row is  *)
(* above every attention of its condition, a new wait above the counter,   *)
(* and an attention of a task or a goal has a row.                         *)
LEMMA MovedFresh ==
    ASSUME NEW n \in Nat, NEW n2 \in Nat, n <= n2, NEW L \in Nat, NEW m, NEW d, NEW m2, NEW watch,
           Dated(m, n, L), AttsDated(d, n, L), d.tasks = m.tasks, d.goals = m.goals, Moved(m, m2, n, n2, L)
    PROVE  FreshMove(m, d, m2, watch)
<1> SUFFICES ASSUME NEW c \in Conds(m2, watch) \cup WaitConditions(m2), c[1] # Silence,
                    NEW a \in DOMAIN d.att, <<a.key, a.gen>> = c
             PROVE  c \in Conds(m, watch) \cup WaitConditions(m)
  BY DEF FreshMove
<1>0. c[1] = a.key /\ c[2] = a.gen /\ c = <<a.key, a.gen>>
  OBVIOUS
<1>1. a.gen \in 0..L /\ (\A x : a.key = WaitKey(x) => a.gen <= n) /\ Earlier(a, d)
  BY DEF AttsDated
<1>2. ASSUME NEW t \in DOMAIN m2.tasks, c[1][1] \in watch, m2.tasks[t].st \in Live,
             c = <<TaskKey(t), m2.tasks[t].gen>>
      PROVE  c \in Conds(m, watch)
  <2>1. a.key = TaskKey(t) /\ a.gen = m2.tasks[t].gen
    BY <1>0, <1>2
  <2>2. t \in DOMAIN m.tasks /\ a.gen <= m.tasks[t].gen
    BY <1>1, <2>1 DEF Earlier
  <2>3. m.tasks[t].gen \in 0..L
    BY <2>2 DEF Dated
  <2>4. m2.tasks[t] = m.tasks[t] \/ m.tasks[t].gen < m2.tasks[t].gen
    BY <2>2 DEF Moved, TasksMove
  <2>5. m2.tasks[t] = m.tasks[t]
    BY <1>1, <2>1, <2>2, <2>3, <2>4
  <2> QED
    BY <1>2, <2>2, <2>5, CondIntro
<1>3. ASSUME NEW g \in DOMAIN m2.goals, c[1][1] \in watch, m2.goals[g].st = "active",
             c = <<GoalKey(g), m2.goals[g].gen>>
      PROVE  c \in Conds(m, watch)
  <2>1. a.key = GoalKey(g) /\ a.gen = m2.goals[g].gen
    BY <1>0, <1>3
  <2>2. g \in DOMAIN m.goals /\ a.gen <= m.goals[g].gen
    BY <1>1, <2>1 DEF Earlier
  <2>3. m.goals[g].gen \in 0..L
    BY <2>2 DEF Dated
  <2>4. m2.goals[g] = m.goals[g] \/ m.goals[g].gen < m2.goals[g].gen
    BY <2>2 DEF Moved, GoalsMove
  <2>5. m2.goals[g] = m.goals[g]
    BY <1>1, <2>1, <2>2, <2>3, <2>4
  <2> QED
    BY <1>3, <2>2, <2>5, CondIntro
<1>4. ASSUME c \in WaitConditions(m2)
      PROVE  c \in WaitConditions(m)
  <2>1. PICK x \in DOMAIN m2.waits : c = <<WaitKey(x), m2.waits[x].gen>>
    BY <1>4 DEF WaitConditions, WaitKey
  <2>2. a.gen = m2.waits[x].gen /\ a.gen <= n
    BY <1>0, <1>1, <2>1
  <2>3. \/ x \in DOMAIN m.waits /\ m2.waits[x].gen = m.waits[x].gen
        \/ m2.waits[x].gen \in (n + 1)..n2
    BY DEF Moved, WaitsMove
  <2>4. x \in DOMAIN m.waits /\ m2.waits[x].gen = m.waits[x].gen
    BY <1>1, <2>2, <2>3
  <2> QED
    BY <2>1, <2>4 DEF WaitConditions, WaitKey
<1>5. CASE c \in Conds(m2, watch)
  BY <1>2, <1>3, <1>5, CondCases
<1> QED
  BY <1>4, <1>5

(* One step of FreshGenerations.                                           *)
FreshStep ==
    ~(room.sealed)' =>
        \A c \in Conditions(mem)' \cup WaitConditions(mem)' :
            \/ c[1] = Silence
            \/ c \in Conditions(mem) \cup WaitConditions(mem)
            \/ \A a \in DOMAIN db.att : <<a.key, a.gen>> # c

(* The step, from the two ledgers.                                         *)
LEMMA FreshFromMove ==
    ASSUME scene' = scene, FreshMove(mem, db, mem', scene.watch)
    PROVE  FreshStep
<1>1. Conditions(mem) = Conds(mem, scene.watch)
  BY DEF Conditions, Conds, TaskKey, GoalKey, Silence, Live
<1>2. Conditions(mem)' = Conds(mem', scene.watch)
  BY DEF Conditions, Conds, TaskKey, GoalKey, Silence, Live
<1>3. WaitConditions(mem)' = WaitConditions(mem')
  BY DEF WaitConditions
<1> QED
  BY <1>1, <1>2, <1>3 DEF FreshMove, FreshStep

(* What every step has to show.                                            *)
Kept == GenInv' /\ FreshStep

(* What is known of an open loca.                                          *)
LEMMA OpenWork ==
    ASSUME CareInv, GenInv, ~room.sealed
    PROVE  /\ IsLedger(mem) /\ IsLedger(db)
           /\ db.tasks = mem.tasks /\ db.goals = mem.goals /\ db.waits = mem.waits
           /\ Top \in Nat /\ scene.clock \subseteq 1..Top /\ gen \in Nat /\ gen <= Top
           /\ Dated(mem, gen, Top) /\ Dated(db, gen, Top) /\ AttsDated(db, gen, Top)
<1>1. scene \in Scenes /\ IsLedger(mem) /\ IsLedger(db) /\ SameWork(mem, db)
  BY DEF CareInv, Agree, Books
<1>2. Top \in Nat /\ scene.clock \subseteq 1..Top
  BY <1>1, CareAssumption DEF Top
<1>3. gen \in 0..Top /\ Dated(mem, gen, Top) /\ Dated(db, gen, Top) /\ AttsDated(db, gen, Top)
  BY DEF GenInv
<1> QED
  BY <1>1, <1>2, <1>3 DEF SameWork

(* A step that only moves rows shows it.                                   *)
LEMMA MoveKeeps ==
    ASSUME CareInv, GenInv, ~room.sealed, gen' \in Nat, gen <= gen', gen' <= Top, scene' = scene,
           Moved(mem, mem', gen, gen', Top), Moved(db, db', gen, gen', Top), AttsMove(db, db', gen', Top)
    PROVE  Kept
<1>1. /\ Top \in Nat /\ gen \in Nat /\ Dated(mem, gen, Top) /\ Dated(db, gen, Top) /\ AttsDated(db, gen, Top)
      /\ db.tasks = mem.tasks /\ db.goals = mem.goals
  BY OpenWork
<1>2. FreshMove(mem, db, mem', scene.watch)
  BY <1>1, MovedFresh
<1>3. Dated(mem', gen', Top)
  BY <1>1, MovedDated
<1>4. Dated(db', gen', Top)
  BY <1>1, MovedDated
<1>5. AttsDated(db', gen', Top)
  BY <1>1, MovedAtts
<1>6. Top' = Top /\ gen' \in 0..Top
  BY <1>1 DEF Top
<1>7. GenInv'
  BY <1>3, <1>4, <1>5, <1>6 DEF GenInv, Dated, AttsDated, Earlier
<1> QED
  BY <1>2, <1>7, FreshFromMove DEF Kept

(* The work and the silence are as they were.                              *)
SameRows(s, p) == SameWork(p, s) /\ p.last = s.last

(* Rows that stay move.                                                    *)
LEMMA SameRowsMoved ==
    ASSUME NEW s, NEW p, SameRows(s, p), NEW n, NEW n2, NEW L, Dated(s, n, L)
    PROVE  Moved(s, p, n, n2, L)
  BY DEF SameRows, SameWork, Moved, TasksMove, GoalsMove, WaitsMove, Dated

(* A step that leaves the rows alone, whatever it does to attentions that  *)
(* exist.                                                                  *)
LEMMA QuietKeeps ==
    ASSUME CareInv, GenInv, ~room.sealed, SameRows(mem, mem'), SameRows(db, db'), DOMAIN db'.att = DOMAIN db.att,
           gen' = gen, scene' = scene
    PROVE  Kept
<1>1. gen \in Nat /\ gen <= Top /\ Dated(mem, gen, Top) /\ Dated(db, gen, Top)
  BY OpenWork
<1>2. Moved(mem, mem', gen, gen', Top) /\ Moved(db, db', gen, gen', Top)
  BY <1>1, SameRowsMoved
<1>3. AttsMove(db, db', gen', Top)
  BY DEF SameRows, SameWork, AttsMove
<1>4. gen' \in Nat /\ gen <= gen' /\ gen' <= Top
  BY <1>1
<1> QED
  BY <1>2, <1>3, <1>4, MoveKeeps

(* A new generation is above the counter, the clock and the row's own.     *)
LEMMA GenerationFacts ==
    ASSUME NEW c \in Nat, NEW now \in Nat, NEW prev \in Nat, NEW g, g = Generation(c, now, prev)
    PROVE  g \in Nat /\ c < g /\ prev < g /\ now <= g
<1> DEFINE S == {now, prev + 1, c + 1}
           top == now + prev + c + 1
<1>1. S \subseteq 0..top /\ top \in Nat /\ S # {} /\ now \in S /\ prev + 1 \in S /\ c + 1 \in S
  OBVIOUS
<1>2. g = Max(S)
  BY DEF Generation
<1> HIDE DEF S, top
<1>3. g \in S /\ \A y \in S : y <= g
  BY <1>1, <1>2, MaxFacts
<1>4. g \in Nat
  BY <1>1, <1>3
<1> QED
  BY <1>1, <1>3, <1>4

(* Work is written without touching the silence.                           *)
LEMMA LastKept ==
    ASSUME NEW s, IsLedger(s)
    PROVE  /\ \A g, row : GoalWritten(s, g, row).last = s.last
           /\ \A n, row : WaitReplaced(s, n, row).last = s.last
           /\ \A n : WaitDeleted(s, n).last = s.last
           /\ \A t, row, now : TaskProgress(s, t, row, now).last = s.last
<1>1. ASSUME NEW q, IsLedger(q), NEW k, NEW f
      PROVE  /\ SetGoals(Progressed(q, k), f).last = q.last
             /\ SetTasks(Progressed(q, k), f).last = q.last
  <2>1. IsLedger(Progressed(q, k)) /\ Progressed(q, k).last = q.last
    BY <1>1, ProgressedFacts DEF Retires
  <2> QED
    BY <2>1, Written
<1>2. ASSUME NEW n, NEW f
      PROVE  SetWaits(WaitRetired(s, n), f).last = s.last
  <2>1. IsLedger(WaitRetired(s, n)) /\ WaitRetired(s, n).last = s.last
    BY WaitRetiredFacts DEF Retires
  <2> QED
    BY <2>1, Written
<1>3. ASSUME NEW g, NEW row PROVE GoalWritten(s, g, row).last = s.last
  <2>1. GoalWritten(s, g, row) = SetGoals(Progressed(s, <<"goal", g>>), Put(s.goals, g, row))
    BY DEF GoalWritten, SetGoals
  <2> QED
    BY <1>1, <2>1
<1>4. ASSUME NEW n, NEW row PROVE WaitReplaced(s, n, row).last = s.last /\ WaitDeleted(s, n).last = s.last
  <2>1. /\ WaitReplaced(s, n, row) = SetWaits(WaitRetired(s, n), Put(s.waits, n, row))
        /\ WaitDeleted(s, n) = SetWaits(WaitRetired(s, n), Restrict(s.waits, DOMAIN s.waits \ {n}))
    BY DEF WaitReplaced, WaitDeleted, SetWaits
  <2> QED
    BY <1>2, <2>1
<1>5. ASSUME NEW t, NEW row, NEW now PROVE TaskProgress(s, t, row, now).last = s.last
  <2> DEFINE s1 == TaskWritten(s, t, row)
             g == CHOOSE g \in LinkedGoal(t) : TRUE
             p2 == SetGoals(Progressed(s1, <<"goal", g>>), Put(s.goals, g, GoalAfter(g, t, row, now)))
  <2>1. TaskProgress(s, t, row, now) = IF LinkedGoal(t) = {} THEN s1 ELSE p2
    BY DEF TaskProgress, TaskWritten, SetTasks, SetGoals, TaskKey
  <2>2. IsLedger(s1)
    BY TaskWrittenFacts DEF Retires
  <2>3. s1.last = s.last
    BY <1>1 DEF TaskWritten
  <2> HIDE DEF s1
  <2>4. p2.last = s1.last
    BY <1>1, <2>2
  <2> QED
    BY <2>1, <2>3, <2>4
<1> QED
  BY <1>3, <1>4, <1>5

-----------------------------------------------------------------------------
(* Requests *)

(* A row is written under its id, or under the next one.                   *)
LEMMA PutNumbered ==
    ASSUME NEW f, Numbered(f), NEW t, NEW row, t \in DOMAIN f \/ t = Cardinality(DOMAIN f) + 1
    PROVE  /\ Numbered(Put(f, t, row)) /\ (t = Cardinality(DOMAIN f) + 1 => t \notin DOMAIN f)
<1>1. PICK k \in Nat : DOMAIN f = 1..k
  BY DEF Numbered
<1>2. Cardinality(DOMAIN f) = k
  BY <1>1, FS_Interval
<1>3. DOMAIN Put(f, t, row) = DOMAIN f \cup {t}
  BY DEF Put
<1>4. CASE t \in DOMAIN f
  <2>1. DOMAIN Put(f, t, row) = 1..k
    BY <1>1, <1>3, <1>4
  <2> QED
    BY <1>1, <1>2, <1>4, <2>1 DEF Numbered
<1>5. CASE t = Cardinality(DOMAIN f) + 1
  <2>1. DOMAIN Put(f, t, row) = 1..(k + 1) /\ t \notin DOMAIN f
    BY <1>1, <1>2, <1>3, <1>5
  <2>2. k + 1 \in Nat
    OBVIOUS
  <2> QED
    BY <2>1, <2>2 DEF Numbered
<1> QED
  BY <1>4, <1>5

(* One task is written.                                                    *)
LEMMA PutTaskMoved ==
    ASSUME NEW s, NEW p, NEW n, NEW L, Dated(s, n, L), NEW t, NEW row,
           p.tasks = Put(s.tasks, t, row), IsTask(row), row.gen \in 0..L,
           \/ t \in DOMAIN s.tasks /\ s.tasks[t].gen < row.gen
           \/ t = Cardinality(DOMAIN s.tasks) + 1
    PROVE  TasksMove(s, p, L) /\ DOMAIN s.tasks \subseteq DOMAIN p.tasks
<1>1. /\ DOMAIN p.tasks = DOMAIN s.tasks \cup {t} /\ p.tasks[t] = row
      /\ \A x \in DOMAIN s.tasks \ {t} : p.tasks[x] = s.tasks[x]
  BY DEF Put
<1>2. Numbered(p.tasks) /\ (t \in DOMAIN s.tasks => s.tasks[t].gen < row.gen)
  BY PutNumbered DEF Dated
<1> QED
  BY <1>1, <1>2 DEF TasksMove

(* One goal is written.                                                    *)
LEMMA PutGoalMoved ==
    ASSUME NEW s, NEW p, NEW n, NEW L, Dated(s, n, L), NEW g, NEW row,
           p.goals = Put(s.goals, g, row), row.gen \in 0..L,
           \/ g \in DOMAIN s.goals /\ s.goals[g].gen < row.gen
           \/ g = Cardinality(DOMAIN s.goals) + 1
    PROVE  GoalsMove(s, p, L) /\ DOMAIN s.goals \subseteq DOMAIN p.goals
<1>1. /\ DOMAIN p.goals = DOMAIN s.goals \cup {g} /\ p.goals[g] = row
      /\ \A x \in DOMAIN s.goals \ {g} : p.goals[x] = s.goals[x]
  BY DEF Put
<1>2. Numbered(p.goals) /\ (g \in DOMAIN s.goals => s.goals[g].gen < row.gen)
  BY PutNumbered DEF Dated
<1> QED
  BY <1>1, <1>2 DEF GoalsMove

(* One wait is written.                                                    *)
LEMMA PutWaitMoved ==
    ASSUME NEW s, NEW p, NEW n, NEW n2, NEW L, Dated(s, n, L), NEW x, x # None, NEW row,
           p.waits = Put(s.waits, x, row), IsWait(row),
           row.gen \in (n + 1)..n2 \/ (x \in DOMAIN s.waits /\ row.gen = s.waits[x].gen)
    PROVE  WaitsMove(s, p, n, n2)
<1>1. /\ DOMAIN p.waits = DOMAIN s.waits \cup {x} /\ p.waits[x] = row
      /\ \A y \in DOMAIN s.waits \ {x} : p.waits[y] = s.waits[y]
  BY DEF Put
<1> QED
  BY <1>1 DEF WaitsMove, Dated

(* Tasks that are not written,                                             *)
LEMMA SameTasksMoved ==
    ASSUME NEW s, NEW p, NEW n, NEW L, Dated(s, n, L), p.tasks = s.tasks
    PROVE  TasksMove(s, p, L) /\ DOMAIN s.tasks \subseteq DOMAIN p.tasks
  BY DEF TasksMove, Dated

(* goals,                                                                  *)
LEMMA SameGoalsMoved ==
    ASSUME NEW s, NEW p, NEW n, NEW L, Dated(s, n, L), p.goals = s.goals
    PROVE  GoalsMove(s, p, L) /\ DOMAIN s.goals \subseteq DOMAIN p.goals
  BY DEF GoalsMove, Dated

(* and waits.                                                              *)
LEMMA SameWaitsMoved ==
    ASSUME NEW s, NEW p, NEW n, NEW n2, NEW L, Dated(s, n, L), p.waits = s.waits
    PROVE  WaitsMove(s, p, n, n2)
  BY DEF WaitsMove, Dated

(* create_task: the row takes the clock and an id nothing is about.        *)
LEMMA CreateTaskFresh ==
    ASSUME CareInv, GenInv, ~room.sealed, NEW now \in scene.clock, NEW to, CreateTask(to, now)
    PROVE  Kept
<1> DEFINE id == Cardinality(DOMAIN mem.tasks) + 1
           row == [to |-> to, st |-> "open", gen |-> now]
           fm == Put(mem.tasks, id, row)
           fd == Put(db.tasks, id, row)
<1>1. mem' = SetTasks(mem, fm) /\ db' = SetTasks(db, fd) /\ UNCHANGED <<scene, gen>>
  BY DEF CreateTask, Commit, CommitSignal, Unmoved, SetTasks
<1>2. /\ IsLedger(mem) /\ IsLedger(db) /\ db.tasks = mem.tasks
      /\ gen \in Nat /\ gen <= Top /\ Top \in Nat /\ now \in 0..Top
      /\ Dated(mem, gen, Top) /\ Dated(db, gen, Top)
  BY OpenWork
<1>3. IsTask(row) /\ row.gen = now
  BY DEF IsTask
<1>4. id = Cardinality(DOMAIN mem.tasks) + 1 /\ id = Cardinality(DOMAIN db.tasks) + 1
  BY <1>2
<1> HIDE DEF id, row
<1>5. /\ mem'.tasks = fm /\ mem'.goals = mem.goals /\ mem'.waits = mem.waits /\ mem'.last = mem.last
      /\ db'.tasks = fd /\ db'.goals = db.goals /\ db'.waits = db.waits /\ db'.last = db.last
      /\ db'.att = db.att
  <2>1. mem' = SetTasks(mem, fm) /\ IsLedger(mem) /\ db' = SetTasks(db, fd) /\ IsLedger(db)
    BY <1>1, <1>2
  <2> HIDE DEF fm, fd
  <2> QED
    BY ONLY <2>1, Written
<1>6. /\ TasksMove(mem, mem', Top) /\ TasksMove(db, db', Top)
      /\ DOMAIN db.tasks \subseteq DOMAIN db'.tasks
  <2>1. mem'.tasks = Put(mem.tasks, id, row) /\ db'.tasks = Put(db.tasks, id, row)
    BY <1>5
  <2>2. IsTask(row) /\ row.gen \in 0..Top
    BY <1>2, <1>3
  <2> QED
    BY ONLY <1>2, <1>4, <2>1, <2>2, PutTaskMoved
<1>7. /\ GoalsMove(mem, mem', Top) /\ GoalsMove(db, db', Top)
      /\ DOMAIN db.goals \subseteq DOMAIN db'.goals
  BY <1>2, <1>5, SameGoalsMoved
<1>8. WaitsMove(mem, mem', gen, gen') /\ WaitsMove(db, db', gen, gen')
  BY <1>2, <1>5, SameWaitsMoved
<1>9. mem'.last \in 0..Top /\ db'.last \in 0..Top
  BY <1>2, <1>5 DEF Dated
<1>10. Moved(mem, mem', gen, gen', Top) /\ Moved(db, db', gen, gen', Top) /\ AttsMove(db, db', gen', Top)
  BY <1>5, <1>6, <1>7, <1>8, <1>9 DEF Moved, AttsMove
<1> QED
  BY <1>1, <1>2, <1>10, MoveKeeps

(* create_goal: the same.                                                  *)
LEMMA CreateGoalFresh ==
    ASSUME CareInv, GenInv, ~room.sealed, NEW now \in scene.clock, NEW all, NEW tasks, CreateGoal(all, tasks, now)
    PROVE  Kept
<1> DEFINE id == Cardinality(DOMAIN mem.goals) + 1
           asked == [all |-> all, tasks |-> TasksNormalized(all, tasks), st |-> "active", gen |-> now]
           row == Settled(asked)
           fm == Put(mem.goals, id, row)
           fd == Put(db.goals, id, row)
<1>1. mem' = SetGoals(mem, fm) /\ db' = SetGoals(db, fd) /\ UNCHANGED <<scene, gen>>
  BY DEF CreateGoal, Commit, CommitSignal, Unmoved, SetGoals
<1>2. /\ IsLedger(mem) /\ IsLedger(db) /\ db.goals = mem.goals
      /\ gen \in Nat /\ gen <= Top /\ Top \in Nat /\ now \in 0..Top
      /\ Dated(mem, gen, Top) /\ Dated(db, gen, Top)
  BY OpenWork
<1>3. row.gen = now
  BY DEF Settled
<1>4. id = Cardinality(DOMAIN mem.goals) + 1 /\ id = Cardinality(DOMAIN db.goals) + 1
  BY <1>2
<1> HIDE DEF id, row
<1>5. /\ mem'.goals = fm /\ mem'.tasks = mem.tasks /\ mem'.waits = mem.waits /\ mem'.last = mem.last
      /\ db'.goals = fd /\ db'.tasks = db.tasks /\ db'.waits = db.waits /\ db'.last = db.last
      /\ db'.att = db.att
  <2>1. mem' = SetGoals(mem, fm) /\ IsLedger(mem) /\ db' = SetGoals(db, fd) /\ IsLedger(db)
    BY <1>1, <1>2
  <2> HIDE DEF fm, fd
  <2> QED
    BY ONLY <2>1, Written
<1>6. /\ GoalsMove(mem, mem', Top) /\ GoalsMove(db, db', Top)
      /\ DOMAIN db.goals \subseteq DOMAIN db'.goals
  <2>1. mem'.goals = Put(mem.goals, id, row) /\ db'.goals = Put(db.goals, id, row)
    BY <1>5
  <2>2. row.gen \in 0..Top
    BY <1>2, <1>3
  <2> QED
    BY ONLY <1>2, <1>4, <2>1, <2>2, PutGoalMoved
<1>7. /\ TasksMove(mem, mem', Top) /\ TasksMove(db, db', Top)
      /\ DOMAIN db.tasks \subseteq DOMAIN db'.tasks
  BY <1>2, <1>5, SameTasksMoved
<1>8. WaitsMove(mem, mem', gen, gen') /\ WaitsMove(db, db', gen, gen')
  BY <1>2, <1>5, SameWaitsMoved
<1>9. mem'.last \in 0..Top /\ db'.last \in 0..Top
  BY <1>2, <1>5 DEF Dated
<1>10. Moved(mem, mem', gen, gen', Top) /\ Moved(db, db', gen, gen', Top) /\ AttsMove(db, db', gen', Top)
  BY <1>5, <1>6, <1>7, <1>8, <1>9 DEF Moved, AttsMove
<1> QED
  BY <1>1, <1>2, <1>10, MoveKeeps

(* update_goal starts a generation.                                        *)
LEMMA UpdateGoalFresh ==
    ASSUME CareInv, GenInv, ~room.sealed, NEW now \in scene.clock, NEW g, NEW all, NEW tasks, NEW st, NEW text,
           UpdateGoal(g, all, tasks, st, text, now)
    PROVE  Kept
<1> DEFINE old == mem.goals[g]
           stat == IF st = None THEN old.st ELSE st
           asked == [old EXCEPT !.all = all, !.tasks = TasksNormalized(all, tasks), !.st = stat]
           new == Settled(asked)
           at == Generation(gen, now, old.gen)
           row == [new EXCEPT !.gen = at]
           norm == TasksNormalized(all, tasks)
<1>1. /\ mem' = GoalWritten(mem, g, row) /\ db' = GoalWritten(db, g, row)
      /\ UNCHANGED scene /\ Advance(row.gen)
      /\ g \in DOMAIN mem.goals
  BY DEF UpdateGoal, Commit, CommitSignal, Unmoved
<1>2. /\ IsLedger(mem) /\ IsLedger(db) /\ db.goals = mem.goals
      /\ gen \in Nat /\ gen <= Top /\ Top \in Nat /\ now \in 1..Top
      /\ Dated(mem, gen, Top) /\ Dated(db, gen, Top)
  BY OpenWork
<1>3. IsGoal(old) /\ old.gen \in 0..Top
  BY <1>1, <1>2 DEF CareInv, Accountable, Dated
<1>4. at \in Nat /\ gen < at /\ old.gen < at
  <2>1. at = Generation(gen, now, old.gen) /\ gen \in Nat /\ now \in Nat /\ old.gen \in Nat
    BY <1>2, <1>3
  <2> HIDE DEF old, at
  <2> QED
    BY ONLY <2>1, GenerationFacts
<1> HIDE DEF old, stat, at
<1>5. asked = [all |-> all, tasks |-> norm, st |-> stat, gen |-> old.gen]
  <2>1. old = [all |-> old.all, tasks |-> old.tasks, st |-> old.st, gen |-> old.gen]
    BY <1>3 DEF IsGoal
  <2> HIDE DEF norm
  <2>2. asked = [old EXCEPT !.all = all, !.tasks = norm, !.st = stat]
    BY DEF norm
  <2> HIDE DEF asked
  <2> QED
    BY ONLY <2>1, <2>2
<1>6. IsGoal(asked)
  BY <1>5 DEF IsGoal
<1> HIDE DEF asked
<1>7. IsGoal(new)
  BY <1>6, SettledFacts
<1> HIDE DEF new
<1>8. row.gen = at
  <2>1. new = [all |-> new.all, tasks |-> new.tasks, st |-> new.st, gen |-> new.gen]
    BY <1>7 DEF IsGoal
  <2>2. row = [new EXCEPT !.gen = at]
    OBVIOUS
  <2> HIDE DEF row
  <2> QED
    BY ONLY <2>1, <2>2
<1> HIDE DEF row
<1>9. /\ mem'.tasks = mem.tasks /\ mem'.waits = mem.waits /\ mem'.goals = Put(mem.goals, g, row)
      /\ db'.tasks = db.tasks /\ db'.waits = db.waits /\ db'.goals = Put(db.goals, g, row)
      /\ DOMAIN db'.att = DOMAIN db.att
  BY <1>1, <1>2, GoalWrittenFacts DEF Retires
<1>10. mem'.last = mem.last /\ db'.last = db.last
  BY <1>1, <1>2, LastKept
<1>11. row.gen \in 0..Top /\ gen' \in Nat /\ gen <= gen' /\ gen' <= Top
  BY <1>1, <1>2, <1>4, <1>8 DEF Advance, Top
<1>12. g \in DOMAIN mem.goals /\ mem.goals[g].gen < row.gen /\ g \in DOMAIN db.goals /\ db.goals[g].gen < row.gen
  BY <1>1, <1>2, <1>4, <1>8 DEF old
<1>13. /\ GoalsMove(mem, mem', Top) /\ GoalsMove(db, db', Top)
       /\ DOMAIN db.goals \subseteq DOMAIN db'.goals
  BY ONLY <1>2, <1>9, <1>11, <1>12, PutGoalMoved
<1>14. /\ TasksMove(mem, mem', Top) /\ TasksMove(db, db', Top)
       /\ DOMAIN db.tasks \subseteq DOMAIN db'.tasks
  BY <1>2, <1>9, SameTasksMoved
<1>15. WaitsMove(mem, mem', gen, gen') /\ WaitsMove(db, db', gen, gen')
  BY <1>2, <1>9, SameWaitsMoved
<1>16. mem'.last \in 0..Top /\ db'.last \in 0..Top
  BY <1>2, <1>10 DEF Dated
<1>17. Moved(mem, mem', gen, gen', Top) /\ Moved(db, db', gen, gen', Top) /\ AttsMove(db, db', gen', Top)
  BY <1>9, <1>13, <1>14, <1>15, <1>16 DEF Moved, AttsMove
<1> QED
  BY <1>1, <1>11, <1>17, MoveKeeps

(* update_task starts one for the task and a later one for the goal it is  *)
(* linked to.                                                              *)
LEMMA UpdateTaskFresh ==
    ASSUME CareInv, GenInv, ~room.sealed, NEW now \in scene.clock, NEW t, NEW by, NEW op, NEW to, NEW st,
           UpdateTask(t, by, op, to, st, now)
    PROVE  Kept
<1> DEFINE old == mem.tasks[t]
           assigned == IF to = None THEN old ELSE [old EXCEPT !.to = to]
           new == IF st = None THEN assigned ELSE [assigned EXCEPT !.st = st]
           goals == {<<"goal", g>> : g \in LinkedGoal(t)}
           at == Generation(gen, now, old.gen)
           pg == mem.goals[CHOOSE g \in LinkedGoal(t) : TRUE].gen
           then == IF goals = {} THEN at ELSE Generation(at, at, pg)
           row == [new EXCEPT !.gen = at]
<1>1. /\ mem' = TaskProgress(mem, t, row, then) /\ db' = TaskProgress(db, t, row, then)
      /\ UNCHANGED scene /\ Advance(then) /\ t \in DOMAIN mem.tasks
  BY DEF UpdateTask, Commit, CommitSignal, Unmoved
<1>2. /\ IsLedger(mem) /\ IsLedger(db) /\ db.tasks = mem.tasks /\ db.goals = mem.goals
      /\ gen \in Nat /\ gen <= Top /\ Top \in Nat /\ now \in 1..Top
      /\ Dated(mem, gen, Top) /\ Dated(db, gen, Top)
  BY OpenWork
<1>3. Accountable(mem, room.lead)
  BY DEF CareInv
<1>4. IsTask(old) /\ old.gen \in 0..Top
  BY <1>1, <1>2 DEF Dated
<1>5. at \in Nat /\ gen < at /\ old.gen < at
  <2>1. at = Generation(gen, now, old.gen) /\ gen \in Nat /\ now \in Nat /\ old.gen \in Nat
    BY <1>2, <1>4
  <2> HIDE DEF old, at
  <2> QED
    BY ONLY <2>1, GenerationFacts
<1> HIDE DEF old, at
<1>6. /\ then \in Nat /\ at <= then
      /\ LinkedGoal(t) # {} => mem.goals[Reached(t)].gen < then /\ Reached(t) \in DOMAIN mem.goals
  <2>1. CASE LinkedGoal(t) = {}
    <3>1. then = at
      BY <2>1
    <3> QED
      BY <1>5, <2>1, <3>1
  <2>2. CASE LinkedGoal(t) # {}
    <3>1. then = Generation(at, at, pg)
      BY <2>2
    <3>2. Reached(t) \in LinkedGoal(t) /\ pg = mem.goals[Reached(t)].gen
      BY <2>2 DEF Reached
    <3>3. Reached(t) \in DOMAIN mem.goals /\ pg \in 0..Top
      BY <1>2, <3>2 DEF LinkedGoal, Dated
    <3>4. pg \in Nat
      BY <1>2, <3>3
    <3> HIDE DEF pg, then
    <3>5. then \in Nat /\ at < then /\ pg < then
      BY <1>5, <3>1, <3>4, GenerationFacts
    <3> QED
      BY <1>5, <3>2, <3>3, <3>5
  <2> QED
    BY <2>1, <2>2
<1> HIDE DEF goals, then
<1>7. IsTask(assigned)
  <2>1. old = [to |-> old.to, st |-> old.st, gen |-> old.gen]
    BY <1>4 DEF IsTask
  <2>2. [old EXCEPT !.to = to] = [to |-> to, st |-> old.st, gen |-> old.gen]
    BY ONLY <2>1
  <2> QED
    BY <2>1, <2>2 DEF IsTask
<1> HIDE DEF assigned
<1>8. IsTask(new)
  <2>1. assigned = [to |-> assigned.to, st |-> assigned.st, gen |-> assigned.gen]
    BY <1>7 DEF IsTask
  <2>2. [assigned EXCEPT !.st = st] = [to |-> assigned.to, st |-> st, gen |-> assigned.gen]
    BY ONLY <2>1
  <2> QED
    BY <2>1, <2>2 DEF IsTask
<1> HIDE DEF new
<1>9. IsTask(row) /\ row.gen = at
  <2>1. new = [to |-> new.to, st |-> new.st, gen |-> new.gen]
    BY <1>8 DEF IsTask
  <2>2. row = [new EXCEPT !.gen = at]
    OBVIOUS
  <2> HIDE DEF row
  <2>3. row = [to |-> new.to, st |-> new.st, gen |-> at]
    BY ONLY <2>1, <2>2
  <2> QED
    BY <2>3 DEF IsTask
<1>10. gen' = then /\ gen' \in Nat /\ gen <= gen' /\ gen' <= Top /\ row.gen \in 0..Top /\ then \in 0..Top
  BY <1>1, <1>2, <1>5, <1>6, <1>9 DEF Advance, Top
<1> HIDE DEF row
<1>11. TaskMoved(mem, mem', t, row, then) /\ TaskMoved(db, db', t, row, then)
  <2>1. mem' = TaskProgress(mem, t, row, then) /\ IsLedger(mem)
    BY <1>1, <1>2
  <2>2. db' = TaskProgress(db, t, row, then) /\ IsLedger(db)
    BY <1>1, <1>2
  <2>3. TaskMoved(mem, mem', t, row, then)
    BY ONLY <2>1, TaskProgressFacts
  <2>4. TaskMoved(db, db', t, row, then)
    BY ONLY <2>2, TaskProgressFacts
  <2> QED
    BY <2>3, <2>4
<1>12. mem'.last \in 0..Top /\ db'.last \in 0..Top
  <2>1. mem'.last = mem.last /\ db'.last = db.last
    BY <1>1, <1>2, LastKept
  <2> QED
    BY <1>2, <2>1 DEF Dated
<1>13. /\ TasksMove(mem, mem', Top) /\ TasksMove(db, db', Top)
       /\ DOMAIN db.tasks \subseteq DOMAIN db'.tasks
  <2>1. mem'.tasks = Put(mem.tasks, t, row) /\ db'.tasks = Put(db.tasks, t, row)
    BY <1>11 DEF TaskMoved
  <2>2. t \in DOMAIN mem.tasks /\ mem.tasks[t].gen < row.gen /\ t \in DOMAIN db.tasks /\ db.tasks[t].gen < row.gen
    BY <1>1, <1>2, <1>5, <1>9 DEF old
  <2> QED
    BY ONLY <1>2, <1>9, <1>10, <2>1, <2>2, PutTaskMoved
<1>14. WaitsMove(mem, mem', gen, gen') /\ WaitsMove(db, db', gen, gen')
  <2>1. mem'.waits = mem.waits /\ db'.waits = db.waits
    BY <1>11 DEF TaskMoved
  <2> QED
    BY <1>2, <2>1, SameWaitsMoved
<1>15. /\ GoalsMove(mem, mem', Top) /\ GoalsMove(db, db', Top)
       /\ DOMAIN db.goals \subseteq DOMAIN db'.goals /\ DOMAIN db'.att = DOMAIN db.att
  <2>1. CASE LinkedGoal(t) = {}
    <3>1. mem'.goals = mem.goals /\ db'.goals = db.goals /\ DOMAIN db'.att = DOMAIN db.att
      BY <1>11, <2>1 DEF TaskMoved, Retires
    <3> QED
      BY <1>2, <3>1, SameGoalsMoved
  <2>2. CASE LinkedGoal(t) # {}
    <3> DEFINE g == Reached(t)
               r == GoalAfter(g, t, row, then)
    <3>1. mem'.goals = Put(mem.goals, g, r) /\ db'.goals = Put(db.goals, g, r) /\ DOMAIN db'.att = DOMAIN db.att
      BY <1>11, <2>2 DEF TaskMoved, Retires
    <3>2. g \in DOMAIN mem.goals /\ mem.goals[g].gen < then
      BY <1>6, <2>2
    <3> HIDE DEF g
    <3>3. IsGoal(mem.goals[g])
      BY <1>3, <3>2 DEF Accountable
    <3>4. r.gen = then
      <4> DEFINE o == mem.goals[g]
                 s2 == IF \A u \in o.tasks : (IF u = t THEN row.st ELSE mem.tasks[u].st) = "done"
                       THEN "achieved" ELSE o.st
      <4>1. o = [all |-> o.all, tasks |-> o.tasks, st |-> o.st, gen |-> o.gen]
        BY <3>3 DEF IsGoal
      <4>2. r = [o EXCEPT !.gen = then, !.st = s2]
        BY DEF GoalAfter
      <4> HIDE DEF o, s2, r
      <4> QED
        BY ONLY <4>1, <4>2
    <3> HIDE DEF r
    <3>5. r.gen \in 0..Top /\ mem.goals[g].gen < r.gen /\ g \in DOMAIN db.goals /\ db.goals[g].gen < r.gen
      BY <1>2, <1>10, <3>2, <3>4
    <3> QED
      BY ONLY <1>2, <3>1, <3>2, <3>5, PutGoalMoved
  <2> QED
    BY <2>1, <2>2
<1>16. Moved(mem, mem', gen, gen', Top) /\ Moved(db, db', gen, gen', Top) /\ AttsMove(db, db', gen', Top)
  BY <1>12, <1>13, <1>14, <1>15 DEF Moved, AttsMove
<1> QED
  BY <1>1, <1>10, <1>16, MoveKeeps

(* A wait is replaced or deleted.                                          *)
LEMMA WaitFresh ==
    ASSUME CareInv, GenInv, ~room.sealed, scene' = scene, NEW n, NEW row,
           gen' \in Nat, gen <= gen', gen' <= Top,
           \/ /\ mem' = WaitReplaced(mem, n, row) /\ db' = WaitReplaced(db, n, row)
              /\ n # None /\ IsWait(row) /\ row.gen \in (gen + 1)..gen'
           \/ mem' = WaitDeleted(mem, n) /\ db' = WaitDeleted(db, n)
    PROVE  Kept
<1>1. IsLedger(mem) /\ IsLedger(db) /\ Dated(mem, gen, Top) /\ Dated(db, gen, Top)
  BY OpenWork
<1>2. mem'.last \in 0..Top /\ db'.last \in 0..Top
  <2>1. mem'.last = mem.last /\ db'.last = db.last
    BY <1>1, LastKept
  <2> QED
    BY <1>1, <2>1 DEF Dated
<1>3. /\ mem'.tasks = mem.tasks /\ mem'.goals = mem.goals /\ db'.tasks = db.tasks /\ db'.goals = db.goals
      /\ DOMAIN db'.att = DOMAIN db.att
      /\ WaitsMove(mem, mem', gen, gen') /\ WaitsMove(db, db', gen, gen')
  <2>1. CASE /\ mem' = WaitReplaced(mem, n, row) /\ db' = WaitReplaced(db, n, row)
             /\ n # None /\ IsWait(row) /\ row.gen \in (gen + 1)..gen'
    <3>1. WaitWritten(mem, n, WaitReplaced(mem, n, row), Put(mem.waits, n, row))
      BY <1>1, WaitWrittenFacts
    <3>2. WaitWritten(db, n, WaitReplaced(db, n, row), Put(db.waits, n, row))
      BY <1>1, WaitWrittenFacts
    <3>3. /\ mem'.tasks = mem.tasks /\ mem'.goals = mem.goals /\ mem'.waits = Put(mem.waits, n, row)
          /\ db'.tasks = db.tasks /\ db'.goals = db.goals /\ db'.waits = Put(db.waits, n, row)
          /\ DOMAIN db'.att = DOMAIN db.att
      BY <2>1, <3>1, <3>2 DEF WaitWritten, Retires
    <3>4. WaitsMove(mem, mem', gen, gen')
      BY ONLY <1>1, <2>1, <3>3, PutWaitMoved
    <3>5. WaitsMove(db, db', gen, gen')
      BY ONLY <1>1, <2>1, <3>3, PutWaitMoved
    <3> QED
      BY <3>3, <3>4, <3>5
  <2>2. CASE mem' = WaitDeleted(mem, n) /\ db' = WaitDeleted(db, n)
    <3>1. WaitWritten(mem, n, WaitDeleted(mem, n), Restrict(mem.waits, DOMAIN mem.waits \ {n}))
      BY <1>1, WaitWrittenFacts
    <3>2. WaitWritten(db, n, WaitDeleted(db, n), Restrict(db.waits, DOMAIN db.waits \ {n}))
      BY <1>1, WaitWrittenFacts
    <3>3. /\ mem'.tasks = mem.tasks /\ mem'.goals = mem.goals
          /\ mem'.waits = Restrict(mem.waits, DOMAIN mem.waits \ {n})
          /\ db'.tasks = db.tasks /\ db'.goals = db.goals
          /\ db'.waits = Restrict(db.waits, DOMAIN db.waits \ {n})
          /\ DOMAIN db'.att = DOMAIN db.att
      BY <2>2, <3>1, <3>2 DEF WaitWritten, Retires
    <3>4. ASSUME NEW s, NEW p, Dated(s, gen, Top), p.waits = Restrict(s.waits, DOMAIN s.waits \ {n})
          PROVE  WaitsMove(s, p, gen, gen')
      <4>1. /\ DOMAIN p.waits \subseteq DOMAIN s.waits
            /\ \A x \in DOMAIN p.waits : p.waits[x] = s.waits[x]
        BY <3>4 DEF Restrict
      <4> QED
        BY <3>4, <4>1 DEF WaitsMove, Dated
    <3> QED
      BY <1>1, <3>3, <3>4
  <2> QED
    BY <2>1, <2>2
<1>4. /\ TasksMove(mem, mem', Top) /\ TasksMove(db, db', Top)
      /\ DOMAIN db.tasks \subseteq DOMAIN db'.tasks
  BY <1>1, <1>3, SameTasksMoved
<1>5. /\ GoalsMove(mem, mem', Top) /\ GoalsMove(db, db', Top)
      /\ DOMAIN db.goals \subseteq DOMAIN db'.goals
  BY <1>1, <1>3, SameGoalsMoved
<1>6. Moved(mem, mem', gen, gen', Top) /\ Moved(db, db', gen, gen', Top) /\ AttsMove(db, db', gen', Top)
  BY <1>2, <1>3, <1>4, <1>5 DEF Moved, AttsMove
<1> QED
  BY <1>6, MoveKeeps

(* set_wait.                                                               *)
LEMMA SetWaitFresh ==
    ASSUME CareInv, GenInv, ~room.sealed, NEW now \in scene.clock, NEW by, by # None, NEW for, NEW why,
           SetWait(by, for, why, now)
    PROVE  Kept
<1> DEFINE prev == IF by \in DOMAIN mem.waits THEN mem.waits[by].gen ELSE 0
           at == Generation(gen, now, prev)
           row == [for |-> for, why |-> why, gen |-> at, n |-> 0]
<1>1. /\ mem' = WaitReplaced(mem, by, row) /\ db' = WaitReplaced(db, by, row)
      /\ UNCHANGED scene /\ Advance(row.gen)
  BY DEF SetWait, Commit, CommitSignal, Unmoved
<1>2. /\ gen \in Nat /\ Top \in Nat /\ now \in 1..Top /\ Dated(mem, gen, Top)
  BY OpenWork
<1>3. prev \in Nat
  BY <1>2 DEF Dated
<1>4. at \in Nat /\ gen < at
  <2>1. at = Generation(gen, now, prev) /\ gen \in Nat /\ now \in Nat /\ prev \in Nat
    BY <1>2, <1>3
  <2> HIDE DEF prev, at
  <2> QED
    BY ONLY <2>1, GenerationFacts
<1> HIDE DEF prev, at
<1>5. IsWait(row) /\ row.gen = at
  BY DEF IsWait
<1> HIDE DEF row
<1>6. row.gen \in (gen + 1)..gen' /\ gen' \in Nat /\ gen <= gen' /\ gen' <= Top
  BY <1>1, <1>2, <1>4, <1>5 DEF Advance, Top
<1> QED
  BY <1>1, <1>5, <1>6, WaitFresh

(* clear_wait.                                                             *)
LEMMA ClearWaitFresh ==
    ASSUME CareInv, GenInv, ~room.sealed, NEW n, ClearWait(n)
    PROVE  Kept
<1>1. /\ mem' = WaitDeleted(mem, n) /\ db' = WaitDeleted(db, n) /\ UNCHANGED <<scene, gen>>
  BY DEF ClearWait, Commit, CommitSignal, Unmoved
<1>2. gen' \in Nat /\ gen <= gen' /\ gen' <= Top
  BY <1>1, OpenWork
<1> QED
  BY <1>1, <1>2, WaitFresh

(* Attentions and marks written afterwards are no matter.                  *)
LEMMA MovedThen ==
    ASSUME NEW s, NEW q, NEW p, NEW n, NEW n2, NEW L, Moved(s, q, n, n2, L), SameRows(q, p)
    PROVE  Moved(s, p, n, n2, L)
  BY DEF Moved, TasksMove, GoalsMove, WaitsMove, SameRows, SameWork

(* A handler or a sweep that writes one attention of current work.         *)
LEMMA EmitFresh ==
    ASSUME CareInv, GenInv, ~room.sealed, gen' \in Nat, gen <= gen', gen' <= Top, scene' = scene,
           NEW m, NEW d, IsLedger(m), IsLedger(d), Moved(mem, m, gen, gen', Top), Moved(db, d, gen, gen', Top),
           AttsMove(db, d, gen', Top), NEW a, Current(a, d, gen', Top), NEW owner,
           db' = WriteCare(d, a, owner), mem' = Mirror(m, db', {a})
    PROVE  Kept
<1>1. SameRows(d, db') /\ IsLedger(db') /\ DOMAIN db'.att = DOMAIN d.att \cup {a}
  BY WriteCareFacts DEF SameRows
<1>2. SameRows(m, mem')
  <2>1. {a} \subseteq DOMAIN db'.att
    BY <1>1
  <2> QED
    BY <1>1, <2>1, MirrorFacts DEF SameRows
<1>3. Moved(mem, mem', gen, gen', Top) /\ Moved(db, db', gen, gen', Top)
  BY <1>1, <1>2, MovedThen
<1>4. db'.tasks = d.tasks /\ db'.goals = d.goals
  BY <1>1 DEF SameRows, SameWork
<1>5. ASSUME NEW e, Current(e, d, gen', Top) PROVE Current(e, db', gen', Top)
  BY <1>4, <1>5 DEF Current
<1>6. AttsMove(db, db', gen', Top)
  <2>1. ASSUME NEW e \in DOMAIN db'.att, e \notin DOMAIN db.att
        PROVE  Current(e, d, gen', Top)
    BY <1>1, <2>1 DEF AttsMove
  <2>2. DOMAIN db.tasks \subseteq DOMAIN d.tasks /\ DOMAIN db.goals \subseteq DOMAIN d.goals
    BY DEF AttsMove
  <2> QED
    BY <1>4, <1>5, <2>1, <2>2 DEF AttsMove
<1> QED
  BY <1>3, <1>6, MoveKeeps

(* A message restarts the silence.                                         *)
LEMMA SaidMoved ==
    ASSUME NEW s, IsLedger(s), NEW n, NEW n2, NEW L, Dated(s, n, L), NEW g \in 0..L
    PROVE  /\ Moved(s, Said(s, g), n, n2, L) /\ IsLedger(Said(s, g))
           /\ DOMAIN Said(s, g).att = DOMAIN s.att /\ SameWork(Said(s, g), s) /\ Said(s, g).last = g
<1> DEFINE p == Said(s, g)
<1>1. IsLedger(p) /\ DOMAIN p.att = DOMAIN s.att /\ SameWork(p, s) /\ p.last = g
  BY SaidFacts DEF Retires
<1> HIDE DEF p
<1>2. Moved(s, p, n, n2, L)
  BY <1>1, SameTasksMoved, SameGoalsMoved, SameWaitsMoved DEF SameWork, Moved
<1> QED
  BY <1>1, <1>2 DEF p

(* No new attention.                                                       *)
LEMMA SameAtts ==
    ASSUME NEW s, NEW p, SameWork(p, s), DOMAIN p.att = DOMAIN s.att, NEW n, NEW L
    PROVE  AttsMove(s, p, n, L)
  BY DEF AttsMove, SameWork

(* The timestamp of a message is above the counter.                        *)
LEMMA TimestampFacts ==
    ASSUME CareInv, GenInv, ~room.sealed, NEW now \in scene.clock, NEW ts, ts = Timestamp(now)
    PROVE  ts \in Nat /\ gen < ts
<1>1. gen \in Nat /\ Top \in Nat /\ now \in 1..Top /\ Dated(mem, gen, Top)
  BY OpenWork
<1>2. mem.last \in 0..Top
  BY <1>1 DEF Dated
<1> DEFINE last == mem.last
<1>3. ts = Generation(gen, now, last) /\ gen \in Nat /\ now \in Nat /\ last \in Nat
  BY <1>1, <1>2 DEF Timestamp
<1> HIDE DEF last
<1> QED
  BY ONLY <1>3, GenerationFacts

(* A message that wakes nobody.                                            *)
LEMMA PostPlainFresh ==
    ASSUME CareInv, GenInv, ~room.sealed, NEW now \in scene.clock, NEW by, NEW to, PostPlain(by, to, now)
    PROVE  Kept
<1> DEFINE ts == Timestamp(now)
<1>1. mem' = Said(mem, ts) /\ db' = Said(db, ts) /\ UNCHANGED scene /\ Advance(ts)
  BY DEF PostPlain, Commit, CommitSignal, Unmoved
<1>2. /\ IsLedger(mem) /\ IsLedger(db) /\ gen \in Nat /\ Top \in Nat
      /\ Dated(mem, gen, Top) /\ Dated(db, gen, Top)
  BY OpenWork
<1>3. ts \in Nat /\ gen < ts
  BY TimestampFacts
<1> HIDE DEF ts
<1>4. ts \in 0..Top /\ gen' \in Nat /\ gen <= gen' /\ gen' <= Top
  BY <1>1, <1>2, <1>3 DEF Advance, Top
<1>5. Moved(mem, mem', gen, gen', Top)
  BY <1>1, <1>2, <1>4, SaidMoved
<1>6. Moved(db, db', gen, gen', Top) /\ SameWork(db', db) /\ DOMAIN db'.att = DOMAIN db.att
  BY <1>1, <1>2, <1>4, SaidMoved
<1>7. AttsMove(db, db', gen', Top)
  BY <1>6, SameAtts
<1> QED
  BY <1>1, <1>4, <1>5, <1>6, <1>7, MoveKeeps

(* A new lead restarts the silence in the rows only, at the bare clock.    *)
LEMMA SetLeadFresh ==
    ASSUME CareInv, GenInv, ~room.sealed, NEW now \in scene.clock, NEW to, SetLead(to, now)
    PROVE  Kept
<1>1. mem' = mem /\ db' = Said(db, now) /\ UNCHANGED <<scene, gen>>
  BY DEF SetLead, Commit, CommitSignal, Unmoved
<1>2. /\ IsLedger(mem) /\ IsLedger(db) /\ gen \in Nat /\ gen <= Top /\ now \in 0..Top
      /\ Dated(mem, gen, Top) /\ Dated(db, gen, Top)
  BY OpenWork
<1>3. SameRows(mem, mem')
  BY <1>1 DEF SameRows, SameWork
<1>4. Moved(mem, mem', gen, gen', Top)
  BY <1>2, <1>3, SameRowsMoved
<1>5. Moved(db, db', gen, gen', Top) /\ SameWork(db', db) /\ DOMAIN db'.att = DOMAIN db.att
  BY <1>1, <1>2, SaidMoved
<1>6. AttsMove(db, db', gen', Top)
  BY <1>5, SameAtts
<1>7. gen' \in Nat /\ gen <= gen' /\ gen' <= Top
  BY <1>1, <1>2
<1> QED
  BY <1>1, <1>4, <1>5, <1>6, <1>7, MoveKeeps

(* A message to the caretaker.                                             *)
LEMMA PostSummonsFresh ==
    ASSUME CareInv, GenInv, ~room.sealed, NEW now \in scene.clock, NEW by, NEW to, PostSummons(by, to, now)
    PROVE  Kept
<1> DEFINE ts == Timestamp(now)
           a == AttentionOf(<<"summon", Len(outbox) + 1>>, 0, None)
           m == Said(mem, ts)
           d == Said(db, ts)
<1>1. /\ db' = WriteCare(d, a, to) /\ mem' = Mirror(m, db', {a})
      /\ UNCHANGED scene /\ Advance(ts)
  BY DEF PostSummons, Commit, CommitSignal, Unmoved
<1>2. /\ IsLedger(mem) /\ IsLedger(db) /\ gen \in Nat /\ Top \in Nat
      /\ Dated(mem, gen, Top) /\ Dated(db, gen, Top)
  BY OpenWork
<1>3. ts \in Nat /\ gen < ts
  BY TimestampFacts
<1> HIDE DEF ts
<1>4. ts \in 0..Top /\ gen' \in Nat /\ gen <= gen' /\ gen' <= Top
  BY <1>1, <1>2, <1>3 DEF Advance, Top
<1>5. Current(a, d, gen', Top)
  BY <1>2, <1>4 DEF AttentionOf, Current, TaskKey, GoalKey, WaitKey
<1> HIDE DEF a
<1>6. Moved(mem, m, gen, gen', Top) /\ IsLedger(m)
  BY <1>2, <1>4, SaidMoved
<1>7. Moved(db, d, gen, gen', Top) /\ IsLedger(d) /\ SameWork(d, db) /\ DOMAIN d.att = DOMAIN db.att
  BY <1>2, <1>4, SaidMoved
<1> HIDE DEF m, d
<1>8. AttsMove(db, d, gen', Top)
  BY <1>7, SameAtts
<1> QED
  BY <1>1, <1>4, <1>5, <1>6, <1>7, <1>8, EmitFresh

(* The answer restarts the silence and the waiter's edge.                  *)
LEMMA ReplyMoved ==
    ASSUME NEW s, IsLedger(s), NEW n \in Nat, NEW n2 \in Nat, NEW L, Dated(s, n, L), NEW g1, NEW x, x # None, NEW row,
           g1 \in 0..L, IsWait(row), row.gen \in (n + 1)..n2,
           NEW p, p = WaitReplaced(Said(s, g1), x, row)
    PROVE  Moved(s, p, n, n2, L) /\ IsLedger(p) /\ DOMAIN p.att = DOMAIN s.att
           /\ p.tasks = s.tasks /\ p.goals = s.goals
<1> DEFINE q == Said(s, g1)
<1>1. IsLedger(q) /\ DOMAIN q.att = DOMAIN s.att /\ SameWork(q, s) /\ q.last = g1
  BY SaidFacts DEF Retires
<1> HIDE DEF q
<1>2. p = WaitReplaced(q, x, row)
  BY DEF q
<1>3. p.last = g1
  BY <1>1, <1>2, LastKept
<1>4. WaitWritten(q, x, p, Put(q.waits, x, row))
  BY <1>1, <1>2, WaitWrittenFacts
<1>5. /\ IsLedger(p) /\ DOMAIN p.att = DOMAIN s.att /\ p.tasks = s.tasks /\ p.goals = s.goals
      /\ p.waits = Put(s.waits, x, row)
  BY <1>1, <1>4 DEF WaitWritten, Retires, SameWork
<1>6. WaitsMove(s, p, n, n2)
  BY <1>5, PutWaitMoved
<1>7. TasksMove(s, p, L) /\ GoalsMove(s, p, L)
  BY <1>5, SameTasksMoved, SameGoalsMoved
<1> QED
  BY <1>3, <1>5, <1>6, <1>7 DEF Moved

(* A message that answers a wait.                                          *)
LEMMA PostReplyFresh ==
    ASSUME CareInv, GenInv, ~room.sealed, NEW now \in scene.clock, NEW by, NEW to, PostReply(by, to, now)
    PROVE  Kept
<1> DEFINE w == mem.waits[to]
           ts == Timestamp(now)
           since == Generation(ts, now, w.gen)
           a == AttentionOf(<<"reply", to>>, since, None)
           row == [w EXCEPT !.gen = since, !.n = 0]
           m == WaitReplaced(Said(mem, ts), to, row)
           d == WaitReplaced(Said(db, ts), to, row)
<1>1. /\ db' = WriteCare(d, a, to) /\ mem' = Mirror(m, db', {a})
      /\ UNCHANGED scene /\ to \in DOMAIN mem.waits /\ Advance(since)
  BY DEF PostReply, Commit, CommitSignal, Unmoved, Answered, Wakes
<1>2. /\ IsLedger(mem) /\ IsLedger(db) /\ gen \in Nat /\ Top \in Nat /\ now \in 1..Top
      /\ Dated(mem, gen, Top) /\ Dated(db, gen, Top)
  BY OpenWork
<1>3. ts \in Nat /\ gen < ts
  BY TimestampFacts
<1>4. IsWait(w) /\ to # None /\ w.gen \in 0..gen
  BY <1>1, <1>2 DEF Dated
<1> HIDE DEF w, ts
<1>5. since \in Nat /\ ts < since
  <2> DEFINE prev == w.gen
  <2>1. since = Generation(ts, now, prev) /\ ts \in Nat /\ now \in Nat /\ prev \in Nat
    BY <1>2, <1>3, <1>4
  <2> HIDE DEF prev, since
  <2> QED
    BY ONLY <2>1, GenerationFacts
<1> HIDE DEF since
<1>6. ts \in 0..Top /\ since \in (gen + 1)..gen' /\ since \in 0..Top /\ gen' \in Nat /\ gen <= gen' /\ gen' <= Top
  BY <1>1, <1>2, <1>3, <1>5 DEF Advance, Top
<1>7. Current(a, d, gen', Top)
  BY <1>6 DEF AttentionOf, Current, TaskKey, GoalKey, WaitKey
<1> HIDE DEF a
<1>8. IsWait(row) /\ row.gen = since
  <2>1. w = [for |-> w.for, why |-> w.why, gen |-> w.gen, n |-> w.n]
    BY <1>4 DEF IsWait
  <2>2. row = [w EXCEPT !.gen = since, !.n = 0]
    OBVIOUS
  <2> HIDE DEF row
  <2>3. row = [for |-> w.for, why |-> w.why, gen |-> since, n |-> 0]
    BY ONLY <2>1, <2>2
  <2> QED
    BY <2>3 DEF IsWait
<1> HIDE DEF row
<1>9. row.gen \in (gen + 1)..gen'
  BY <1>6, <1>8
<1>10. Moved(mem, m, gen, gen', Top) /\ IsLedger(m)
  <2>1. m = WaitReplaced(Said(mem, ts), to, row)
    OBVIOUS
  <2> HIDE DEF m
  <2> QED
    BY ONLY <1>2, <1>4, <1>6, <1>8, <1>9, <2>1, ReplyMoved
<1>11. Moved(db, d, gen, gen', Top) /\ IsLedger(d) /\ DOMAIN d.att = DOMAIN db.att
       /\ d.tasks = db.tasks /\ d.goals = db.goals
  <2>1. d = WaitReplaced(Said(db, ts), to, row)
    OBVIOUS
  <2> HIDE DEF d
  <2> QED
    BY ONLY <1>2, <1>4, <1>6, <1>8, <1>9, <2>1, ReplyMoved
<1> HIDE DEF m, d
<1>12. AttsMove(db, d, gen', Top)
  BY <1>11 DEF AttsMove
<1> QED
  BY <1>1, <1>6, <1>7, <1>10, <1>11, <1>12, EmitFresh

-----------------------------------------------------------------------------
(* Settings, restart and the sweeps *)

(* An empty ledger mentions no generation.                                 *)
LEMMA EmptyDated ==
    /\ DOMAIN Empty.tasks = {} /\ DOMAIN Empty.goals = {} /\ DOMAIN Empty.waits = {} /\ DOMAIN Empty.att = {}
    /\ Empty.last = 0
<1>1. DOMAIN <<>> = {}
  OBVIOUS
<1> QED
  BY <1>1 DEF Empty

(* Settings: going live restarts the silence in memory only, at the bare   *)
(* clock.                                                                  *)
LEMMA SetSettingsFresh ==
    ASSUME CareInv, GenInv, ~room.sealed, NEW now \in scene.clock, NEW f \in scene.settings,
           SetSettings(f[1], f[2], now)
    PROVE  Kept
<1> DEFINE new == CASE f[1] = "archived" -> [room EXCEPT !.archived = f[2]]
                    [] f[1] = "recipient" -> [room EXCEPT !.to = f[2]]
                    [] OTHER -> room
           hot == IF new.archived /\ ~room.archived THEN Paused(mem) ELSE mem
           when == IF f[1] = "live" THEN now ELSE hot.last
<1>1. /\ UNCHANGED <<scene, gen>>
      /\ mem' = SetLast(hot, when)
      /\ db' = IF new.archived THEN Paused(db) ELSE db
  BY DEF SetSettings, Commit, CommitSignal, Unmoved, SetLast
<1> HIDE DEF new
<1>2. /\ IsLedger(mem) /\ IsLedger(db) /\ gen \in Nat /\ gen <= Top /\ now \in 0..Top
      /\ Dated(mem, gen, Top) /\ Dated(db, gen, Top)
  BY OpenWork
<1>3. SameRows(mem, hot) /\ IsLedger(hot)
  BY <1>2, PausedFacts DEF SameRows, Retires, SameWork
<1>4. SameRows(db, db') /\ DOMAIN db'.att = DOMAIN db.att
  BY <1>1, <1>2, PausedFacts DEF SameRows, Retires, SameWork
<1>5. when \in 0..Top
  BY <1>2, <1>3 DEF SameRows, Dated
<1> HIDE DEF hot, when
<1>6. mem'.tasks = mem.tasks /\ mem'.goals = mem.goals /\ mem'.waits = mem.waits /\ mem'.last = when
  BY <1>1, <1>3, Written DEF SameRows, SameWork
<1>7. Moved(mem, mem', gen, gen', Top)
  BY <1>2, <1>5, <1>6, SameTasksMoved, SameGoalsMoved, SameWaitsMoved DEF Moved
<1>8. Moved(db, db', gen, gen', Top)
  BY <1>2, <1>4, SameRowsMoved
<1>9. AttsMove(db, db', gen', Top)
  BY <1>4, SameAtts DEF SameRows
<1>10. gen' \in Nat /\ gen <= gen' /\ gen' <= Top
  BY <1>1, <1>2
<1> QED
  BY <1>1, <1>7, <1>8, <1>9, <1>10, MoveKeeps

(* The restart takes the greatest generation of the rows and their         *)
(* attentions: no attention of a wait that it reads back is ahead of the   *)
(* counter, and its work is that of the rows.                              *)
LEMMA RestartFresh ==
    ASSUME CareInv, GenInv, ~room.sealed, Restart
    PROVE  Kept
<1> DEFINE S == WorkGenerations(db) \cup {a.gen : a \in DOMAIN db.att}
<1>1. /\ mem' = db /\ db' = db /\ gen' = Max(S) /\ UNCHANGED <<room, scene>>
  BY DEF Restart, Commit, CommitSignal, RecoveredGeneration
<1>2. 0 \in S
  BY DEF WorkGenerations
<1>3. /\ gen \in Nat /\ gen <= Top /\ Top \in Nat
      /\ Dated(mem, gen, Top) /\ Dated(db, gen, Top) /\ AttsDated(db, gen, Top)
      /\ db.tasks = mem.tasks /\ db.goals = mem.goals /\ db.waits = mem.waits
  BY OpenWork
<1>4. S \subseteq 0..Top
  <2>1. /\ db.last \in 0..Top /\ \A t \in DOMAIN db.tasks : db.tasks[t].gen \in 0..Top
        /\ \A g \in DOMAIN db.goals : db.goals[g].gen \in 0..Top
        /\ \A x \in DOMAIN db.waits : db.waits[x].gen \in 0..gen
    BY <1>3 DEF Dated
  <2>2. \A a \in DOMAIN db.att : a.gen \in 0..Top
    BY <1>3 DEF AttsDated
  <2> QED
    BY <1>3, <2>1, <2>2 DEF WorkGenerations
<1>5. /\ \A x \in DOMAIN db.waits : db.waits[x].gen \in S
      /\ \A a \in DOMAIN db.att : a.gen \in S
  BY DEF WorkGenerations
<1> HIDE DEF S
<1>6. gen' \in S /\ \A y \in S : y <= gen'
  BY <1>1, <1>2, <1>3, <1>4, MaxFacts
<1>7. gen' \in 0..Top /\ \A y \in S : y \in 0..gen'
  BY <1>3, <1>4, <1>6
<1>8. Dated(db, gen', Top)
  BY <1>3, <1>5, <1>7 DEF Dated
<1>9. AttsDated(db, gen', Top)
  BY <1>3, <1>5, <1>6 DEF AttsDated
<1>10. GenInv'
  <2>1. Dated(mem', gen', Top) /\ Dated(db', gen', Top) /\ AttsDated(db', gen', Top)
    BY <1>1, <1>8, <1>9
  <2>2. Top' = Top
    BY <1>1 DEF Top
  <2> QED
    BY <1>7, <2>1, <2>2 DEF GenInv, Dated, AttsDated, Earlier
<1>11. FreshMove(mem, db, mem', scene.watch)
  <2> SUFFICES ASSUME NEW c \in Conds(db, scene.watch) \cup WaitConditions(db), c[1] # Silence
               PROVE  c \in Conds(mem, scene.watch) \cup WaitConditions(mem)
    BY <1>1 DEF FreshMove
  <2>1. CASE c \in Conds(db, scene.watch)
    BY <1>3, <2>1, CondCases, CondIntro
  <2>2. CASE c \in WaitConditions(db)
    BY <1>3, <2>2 DEF WaitConditions
  <2> QED
    BY <2>1, <2>2
<1> QED
  BY <1>1, <1>10, <1>11, FreshFromMove DEF Kept

(* A sweep runs on an open loca.                                           *)
LEMMA SweptFresh ==
    ASSUME Swept
    PROVE  UNCHANGED <<scene, gen>> /\ ~room.sealed
  BY DEF Swept, Unmoved

(* The attention of a condition that is due is about current work.         *)
LEMMA ConditionCurrent ==
    ASSUME NEW c \in Conditions(mem), NEW n, NEW L, Dated(mem, n, L), NEW d, d.tasks = mem.tasks, d.goals = mem.goals,
           NEW who, NEW a, a = AttentionOf(c[1], c[2], who)
    PROVE  Current(a, d, n, L)
<1>0. a.key = c[1] /\ a.gen = c[2]
  BY DEF AttentionOf
<1>1. c \in Conds(mem, scene.watch)
  BY DEF Conditions, Conds, TaskKey, GoalKey, Silence, Live
<1>2. CASE \E t \in DOMAIN mem.tasks : mem.tasks[t].st \in Live /\ c = <<TaskKey(t), mem.tasks[t].gen>>
  <2>1. PICK t \in DOMAIN mem.tasks : mem.tasks[t].st \in Live /\ c = <<TaskKey(t), mem.tasks[t].gen>>
    BY <1>2
  <2>2. a.key = TaskKey(t) /\ a.gen = mem.tasks[t].gen
    BY <1>0, <2>1
  <2>3. a.gen \in 0..L
    BY <2>2 DEF Dated
  <2>4. (\A u : a.key = TaskKey(u) => u = t) /\ (\A g : a.key # GoalKey(g)) /\ \A x : a.key # WaitKey(x)
    BY <2>2 DEF TaskKey, GoalKey, WaitKey
  <2> QED
    BY <2>1, <2>2, <2>3, <2>4 DEF Current
<1>3. CASE \E g \in DOMAIN mem.goals : mem.goals[g].st = "active" /\ c = <<GoalKey(g), mem.goals[g].gen>>
  <2>1. PICK g \in DOMAIN mem.goals : mem.goals[g].st = "active" /\ c = <<GoalKey(g), mem.goals[g].gen>>
    BY <1>3
  <2>2. a.key = GoalKey(g) /\ a.gen = mem.goals[g].gen
    BY <1>0, <2>1
  <2>3. a.gen \in 0..L
    BY <2>2 DEF Dated
  <2>4. (\A u : a.key = GoalKey(u) => u = g) /\ (\A t : a.key # TaskKey(t)) /\ \A x : a.key # WaitKey(x)
    BY <2>2 DEF TaskKey, GoalKey, WaitKey
  <2> QED
    BY <2>1, <2>2, <2>3, <2>4 DEF Current
<1>4. CASE mem.last > 0 /\ c = <<Silence, mem.last>>
  <2>1. a.key = Silence /\ a.gen = mem.last
    BY <1>0, <1>4
  <2>2. a.gen \in 0..L
    BY <2>1 DEF Dated
  <2>3. (\A g : a.key # GoalKey(g)) /\ (\A t : a.key # TaskKey(t)) /\ \A x : a.key # WaitKey(x)
    BY <2>1 DEF TaskKey, GoalKey, WaitKey, Silence
  <2> QED
    BY <2>2, <2>3 DEF Current
<1> QED
  BY <1>1, <1>2, <1>3, <1>4, CondCases

(* A sweep that writes an attention of current work...                     *)
LEMMA SweepFresh ==
    ASSUME CareInv, GenInv, Swept, NEW m, NEW d, IsLedger(m), IsLedger(d),
           Moved(mem, m, gen, gen, Top), Moved(db, d, gen, gen, Top),
           d.tasks = db.tasks, d.goals = db.goals, DOMAIN d.att = DOMAIN db.att,
           NEW k, NEW g, Current(AttentionOf(k, g, None), d, gen, Top), NEW owner, NEW hot,
           Emit(k, g, owner, m, d, hot)
    PROVE  Kept
<1> DEFINE a == AttentionOf(k, g, None)
<1>1. db' = WriteCare(d, a, owner) /\ mem' = Mirror(m, db', {a})
  BY DEF Emit, CommitSignal
<1>2. UNCHANGED <<scene, gen>> /\ ~room.sealed
  BY SweptFresh
<1>3. gen' \in Nat /\ gen <= gen' /\ gen' <= Top
  BY <1>2, OpenWork
<1> HIDE DEF a
<1>4. AttsMove(db, d, gen', Top)
  BY DEF AttsMove
<1>5. Moved(mem, m, gen, gen', Top) /\ Moved(db, d, gen, gen', Top) /\ Current(a, d, gen', Top)
  BY <1>2 DEF a
<1> QED
  BY <1>1, <1>2, <1>3, <1>4, <1>5, EmitFresh

(* ...and counts it in the mark.                                           *)
LEMMA MarkedFresh ==
    ASSUME CareInv, GenInv, Swept, NEW k, NEW g, Current(AttentionOf(k, g, None), db, gen, Top),
           NEW owner, NEW hot, Emit(k, g, owner, Marked(mem, k), Marked(db, k), hot)
    PROVE  Kept
<1> DEFINE m == Marked(mem, k)
           d == Marked(db, k)
<1>1. IsLedger(mem) /\ IsLedger(db) /\ Dated(mem, gen, Top) /\ Dated(db, gen, Top)
  BY SweptFresh, OpenWork
<1>2. /\ IsLedger(m) /\ SameRows(mem, m) /\ IsLedger(d) /\ SameRows(db, d) /\ d.att = db.att
  BY <1>1, MarkedFacts DEF SameRows
<1>3. Emit(k, g, owner, m, d, hot)
  OBVIOUS
<1> HIDE DEF m, d
<1>4. Moved(mem, m, gen, gen, Top) /\ Moved(db, d, gen, gen, Top)
  BY <1>1, <1>2, SameRowsMoved
<1>5. d.tasks = db.tasks /\ d.goals = db.goals /\ DOMAIN d.att = DOMAIN db.att
  BY <1>2 DEF SameRows, SameWork
<1>6. Current(AttentionOf(k, g, None), d, gen, Top)
  BY <1>5 DEF Current
<1> QED
  BY <1>2, <1>3, <1>4, <1>5, <1>6, SweepFresh

(* A cycle's generation is the greatest of its members', all of which      *)
(* wait.                                                                   *)
LEMMA SignalCycleFresh ==
    ASSUME CareInv, GenInv, NEW key \in CycleKeys(mem), SignalCycle(key)
    PROVE  Kept
<1>1. Swept /\ Emit(key, key[3], CareOwner, Marked(mem, key), Marked(db, key), {key})
  BY DEF SignalCycle
<1>2. gen \in Nat /\ gen <= Top /\ Top \in Nat /\ Dated(mem, gen, Top)
  BY <1>1, SweptFresh, OpenWork
<1>3. PICK c \in WaitCycles(mem.waits) : key = <<"cycle", c, Max({mem.waits[n].gen : n \in c})>>
  BY DEF CycleKeys
<1> DEFINE S == {mem.waits[n].gen : n \in c}
<1>4. c # {} /\ c \subseteq DOMAIN mem.waits
  BY <1>2, CycleMembersWait DEF Dated
<1>5. S \subseteq 0..gen /\ S # {}
  BY <1>2, <1>4 DEF Dated
<1>6. key[3] = Max(S)
  BY <1>3
<1> HIDE DEF S
<1>7. key[3] \in 0..gen
  BY <1>2, <1>5, <1>6, MaxFacts
<1>8. Current(AttentionOf(key, key[3], None), db, gen, Top)
  <2>1. AttentionOf(key, key[3], None).key = key /\ AttentionOf(key, key[3], None).gen = key[3]
    BY DEF AttentionOf
  <2>2. (\A g : key # GoalKey(g)) /\ (\A t : key # TaskKey(t)) /\ \A x : key # WaitKey(x)
    BY <1>3 DEF GoalKey, TaskKey, WaitKey
  <2>3. key[3] \in 0..Top
    BY <1>2, <1>7
  <2> QED
    BY <2>1, <2>2, <2>3 DEF Current
<1> QED
  BY <1>1, <1>8, MarkedFresh

(* A due condition is signalled to the owner,                              *)
LEMMA SignalConditionFresh ==
    ASSUME CareInv, GenInv, NEW c \in Conditions(mem), SignalCondition(c)
    PROVE  Kept
<1>1. Swept /\ Emit(c[1], c[2], CareOwner, Marked(mem, c[1]), Marked(db, c[1]), {c[1]})
  BY DEF SignalCondition
<1>2. Dated(mem, gen, Top) /\ db.tasks = mem.tasks /\ db.goals = mem.goals
  BY <1>1, SweptFresh, OpenWork
<1>3. Current(AttentionOf(c[1], c[2], None), db, gen, Top)
  BY <1>2, ConditionCurrent
<1> QED
  BY <1>1, <1>3, MarkedFresh

(* noted without one,                                                      *)
LEMMA NoteConditionFresh ==
    ASSUME CareInv, GenInv, NEW c \in Conditions(mem), NoteCondition(c)
    PROVE  Kept
<1>1. Swept /\ Emit(c[1], c[2], None, mem, db, {})
  BY DEF NoteCondition
<1>2. /\ Dated(mem, gen, Top) /\ Dated(db, gen, Top) /\ IsLedger(mem) /\ IsLedger(db)
      /\ db.tasks = mem.tasks /\ db.goals = mem.goals
  BY <1>1, SweptFresh, OpenWork
<1>3. Current(AttentionOf(c[1], c[2], None), db, gen, Top)
  BY <1>2, ConditionCurrent
<1>4. SameRows(mem, mem) /\ SameRows(db, db)
  BY DEF SameRows, SameWork
<1>5. Moved(mem, mem, gen, gen, Top) /\ Moved(db, db, gen, gen, Top)
  BY <1>2, <1>4, SameRowsMoved
<1> QED
  BY <1>1, <1>2, <1>3, <1>5, SweepFresh

(* a wait nudged,                                                          *)
LEMMA SignalWaitFresh ==
    ASSUME CareInv, GenInv, NEW n \in DOMAIN mem.waits, SignalWait(n)
    PROVE  Kept
<1> DEFINE w == mem.waits[n]
           row == [w EXCEPT !.n = w.n + 1]
           fm == Put(mem.waits, n, row)
           fd == Put(db.waits, n, row)
           m == SetWaits(mem, fm)
           d == SetWaits(db, fd)
           k == <<"wait", n>>
<1>1. Swept /\ Emit(k, w.gen, CareOwner, m, d, {<<k, w.gen>>})
  BY DEF SignalWait, SetWaits
<1>2. gen \in Nat /\ gen <= Top /\ Top \in Nat /\ Dated(mem, gen, Top) /\ Dated(db, gen, Top)
  BY <1>1, SweptFresh, OpenWork
<1>3. db.waits = mem.waits /\ IsLedger(mem) /\ IsLedger(db)
  BY <1>1, SweptFresh, OpenWork
<1>4. IsWait(w) /\ n # None /\ w.gen \in 0..gen
  BY <1>2 DEF Dated
<1>5. IsWait(row) /\ row.gen = w.gen
  <2>1. w = [for |-> w.for, why |-> w.why, gen |-> w.gen, n |-> w.n]
    BY <1>4 DEF IsWait
  <2> DEFINE n1 == w.n + 1
  <2>2. row = [w EXCEPT !.n = n1]
    OBVIOUS
  <2> HIDE DEF n1, row, w
  <2>3. row = [for |-> w.for, why |-> w.why, gen |-> w.gen, n |-> n1]
    BY ONLY <2>1, <2>2
  <2> QED
    BY <2>3 DEF IsWait
<1>6. IsFcn(fm) /\ IsFcn(fd)
  BY DEF Put, IsFcn
<1>7. row.gen = mem.waits[n].gen /\ row.gen = db.waits[n].gen /\ n \in DOMAIN db.waits
  BY <1>3, <1>5
<1>8. (\A g : k # GoalKey(g)) /\ \A t : k # TaskKey(t)
  BY DEF GoalKey, TaskKey
<1>9. Current(AttentionOf(k, w.gen, None), d, gen, Top)
  <2>1. AttentionOf(k, w.gen, None).key = k /\ AttentionOf(k, w.gen, None).gen = w.gen
    BY DEF AttentionOf
  <2>2. w.gen \in 0..Top /\ w.gen <= gen
    BY <1>2, <1>4
  <2> QED
    BY <1>8, <2>1, <2>2 DEF Current
<1> HIDE DEF w, row, k
<1>10. /\ IsLedger(m) /\ m.tasks = mem.tasks /\ m.goals = mem.goals /\ m.waits = fm
       /\ m.att = mem.att /\ m.last = mem.last
  <2> HIDE DEF fm
  <2>1. IsLedger(SetWaits(mem, fm))
    BY <1>3, <1>6, WrittenLedger
  <2>2. SetWaits(mem, fm) = [tasks |-> mem.tasks, goals |-> mem.goals, waits |-> fm,
                           marks |-> mem.marks, att |-> mem.att, last |-> mem.last]
    BY <1>3, Written
  <2> QED
    BY <2>1, <2>2
<1>11. /\ IsLedger(d) /\ d.tasks = db.tasks /\ d.goals = db.goals /\ d.waits = fd
       /\ d.att = db.att /\ d.last = db.last
  <2> HIDE DEF fd
  <2>1. IsLedger(SetWaits(db, fd))
    BY <1>3, <1>6, WrittenLedger
  <2>2. SetWaits(db, fd) = [tasks |-> db.tasks, goals |-> db.goals, waits |-> fd,
                           marks |-> db.marks, att |-> db.att, last |-> db.last]
    BY <1>3, Written
  <2> QED
    BY <2>1, <2>2
<1> HIDE DEF m, d
<1>12. WaitsMove(mem, m, gen, gen)
  BY <1>2, <1>4, <1>5, <1>7, <1>10, PutWaitMoved
<1>13. WaitsMove(db, d, gen, gen)
  BY <1>2, <1>4, <1>5, <1>7, <1>11, PutWaitMoved
<1>14. TasksMove(mem, m, Top) /\ TasksMove(db, d, Top) /\ GoalsMove(mem, m, Top) /\ GoalsMove(db, d, Top)
  BY <1>2, <1>10, <1>11, SameTasksMoved, SameGoalsMoved
<1>15. m.last \in 0..Top /\ d.last \in 0..Top
  BY <1>2, <1>10, <1>11 DEF Dated
<1>16. Moved(mem, m, gen, gen, Top) /\ Moved(db, d, gen, gen, Top)
  BY <1>12, <1>13, <1>14, <1>15 DEF Moved
<1> QED
  BY <1>1, <1>9, <1>10, <1>11, <1>16, SweepFresh

(* or all members reminded.                                                *)
LEMMA SignalEveryoneFresh ==
    ASSUME CareInv, GenInv, NEW c \in Conditions(mem), SignalEveryone(c)
    PROVE  Kept
<1> DEFINE k == c[1]
           ids == {a \in {AttentionOf(c[1], c[2], p) : p \in EveryoneRecipients(c)} : ~Frozen(mem, a) /\ ~Frozen(db, a)}
           rows == [a \in ids |-> [st |-> "open", owner |-> NameOf[a.who], by |-> None,
                                   seen |-> a \in DOMAIN db.att /\ db.att[a].seen]]
           f == Over(db.att, rows)
           m1 == Marked(mem, k)
           d1 == Marked(db, k)
           d == SetAtt(d1, f)
<1>1. db' = d /\ mem' = Mirror(m1, db', ids) /\ Swept
  BY DEF SignalEveryone, CommitSignal, SetAtt
<1>2. UNCHANGED <<scene, gen>> /\ ~room.sealed
  BY <1>1, SweptFresh
<1>3. gen \in Nat /\ gen <= Top /\ Dated(mem, gen, Top) /\ Dated(db, gen, Top)
  BY <1>2, OpenWork
<1>4. db.tasks = mem.tasks /\ db.goals = mem.goals /\ IsLedger(mem) /\ IsLedger(db)
  BY <1>2, OpenWork
<1>5. \A a \in ids : Current(a, db, gen, Top)
  BY <1>3, <1>4, ConditionCurrent
<1>6. DOMAIN rows = ids /\ \A a \in ids : IsAtt(rows[a])
  BY DEF IsAtt
<1> HIDE DEF ids, rows
<1>7. /\ IsFcn(f) /\ DOMAIN f = DOMAIN db.att \cup ids
      /\ \A a \in ids : f[a] = rows[a]
      /\ \A a \in DOMAIN db.att \ ids : f[a] = db.att[a]
  BY <1>6 DEF Over, IsFcn
<1> HIDE DEF f
<1>8. /\ IsLedger(m1) /\ SameRows(mem, m1) /\ IsLedger(d1) /\ SameRows(db, d1)
  BY <1>4, MarkedFacts DEF SameRows
<1> HIDE DEF m1, d1
<1>9. IsLedger(d) /\ d.att = f /\ SameRows(db, d)
  <2>1. \A a \in DOMAIN f : IsAtt(f[a])
    BY <1>4, <1>6, <1>7 DEF IsLedger
  <2>2. IsLedger(d)
    BY <1>7, <1>8, <2>1, WrittenLedger
  <2>3. d = [tasks |-> d1.tasks, goals |-> d1.goals, waits |-> d1.waits,
             marks |-> d1.marks, att |-> f, last |-> d1.last]
    BY <1>8, Written
  <2> QED
    BY <1>8, <2>2, <2>3 DEF SameRows, SameWork
<1> HIDE DEF d
<1>10. SameRows(m1, mem')
  <2>1. ids \subseteq DOMAIN db'.att /\ IsLedger(db')
    BY <1>1, <1>7, <1>9
  <2> QED
    BY <1>1, <1>8, <2>1, MirrorFacts DEF SameRows
<1>11. SameRows(mem, mem') /\ SameRows(db, db')
  BY <1>1, <1>8, <1>9, <1>10 DEF SameRows, SameWork
<1>12. Moved(mem, mem', gen, gen', Top) /\ Moved(db, db', gen, gen', Top)
  BY <1>3, <1>11, SameRowsMoved
<1>13. AttsMove(db, db', gen', Top)
  <2>1. db'.tasks = db.tasks /\ db'.goals = db.goals /\ DOMAIN db'.att = DOMAIN db.att \cup ids
    BY <1>1, <1>7, <1>9, <1>11 DEF SameRows, SameWork
  <2>2. \A a \in ids : Current(a, db', gen', Top)
    BY <1>2, <1>5, <2>1 DEF Current
  <2> QED
    BY <2>1, <2>2 DEF AttsMove
<1>14. gen' \in Nat /\ gen <= gen' /\ gen' <= Top
  BY <1>2, <1>3
<1> QED
  BY <1>2, <1>12, <1>13, <1>14, MoveKeeps

(* A manual attention is about no condition.                               *)
LEMMA CreateAttentionFresh ==
    ASSUME CareInv, GenInv, ~room.sealed, NEW group, CreateAttention(group)
    PROVE  Kept
<1> DEFINE a == AttentionOf(<<"manual", Len(outbox) + 1>>, 0, None)
           owner == AttentionOwner(group)
<1>1. db' = WriteCare(db, a, owner) /\ mem' = Mirror(mem, db', {a}) /\ UNCHANGED <<scene, gen>>
  BY DEF CreateAttention, Commit, CommitSignal, Unmoved
<1>2. /\ IsLedger(mem) /\ IsLedger(db) /\ gen \in Nat /\ gen <= Top /\ Top \in Nat
      /\ Dated(mem, gen, Top) /\ Dated(db, gen, Top)
  BY OpenWork
<1>3. gen' \in Nat /\ gen <= gen' /\ gen' <= Top
  BY <1>1, <1>2
<1>4. Current(a, db, gen', Top)
  BY <1>2, <1>3 DEF AttentionOf, Current, TaskKey, GoalKey, WaitKey
<1> HIDE DEF a, owner
<1>5. SameRows(mem, mem) /\ SameRows(db, db)
  BY DEF SameRows, SameWork
<1>6. Moved(mem, mem, gen, gen', Top) /\ Moved(db, db, gen, gen', Top)
  BY <1>2, <1>5, SameRowsMoved
<1>7. AttsMove(db, db, gen', Top)
  BY DEF AttsMove
<1> QED
  BY <1>1, <1>2, <1>3, <1>4, <1>6, <1>7, EmitFresh

(* One attention gets a new row.                                           *)
LEMMA SetRowSame ==
    ASSUME NEW s, IsLedger(s), NEW a \in DOMAIN s.att, NEW r
    PROVE  SameRows(s, SetRow(s, a, r)) /\ DOMAIN SetRow(s, a, r).att = DOMAIN s.att
<1> DEFINE f == [s.att EXCEPT ![a] = r]
<1>1. DOMAIN f = DOMAIN s.att
  OBVIOUS
<1> HIDE DEF f
<1>2. SetAtt(s, f) = [tasks |-> s.tasks, goals |-> s.goals, waits |-> s.waits,
                      marks |-> s.marks, att |-> f, last |-> s.last]
  BY Written
<1>3. SetRow(s, a, r) = SetAtt(s, f)
  BY DEF SetRow, f
<1> QED
  BY <1>1, <1>2, <1>3 DEF SameRows, SameWork

(* ack_care writes an attention that exists, first in the rows...          *)
LEMMA SeenSame ==
    ASSUME NEW s, IsLedger(s), NEW a
    PROVE  SameRows(s, Seen(s, a)) /\ DOMAIN Seen(s, a).att = DOMAIN s.att
<1>1. CASE a \in DOMAIN s.att
  <2>1. Seen(s, a) = SetRow(s, a, SeenRow(s.att[a]))
    BY <1>1 DEF Seen, SetRow, SetAtt, SeenRow
  <2> QED
    BY <1>1, <2>1, SetRowSame
<1>2. CASE a \notin DOMAIN s.att
  BY <1>2 DEF Seen, SameRows, SameWork
<1> QED
  BY <1>1, <1>2

LEMMA CommitAckFresh ==
    ASSUME CareInv, GenInv, ~room.sealed, NEW i, NEW p, CommitAck(i, p)
    PROVE  Kept
<1>1. IsLedger(mem) /\ IsLedger(db)
  BY OpenWork
<1>2. mem' = mem /\ (db' = db \/ db' = Seen(db, outbox[i].att)) /\ UNCHANGED <<scene, gen>>
  BY DEF CommitAck, Commit, CommitSignal
<1>3. SameRows(db, db') /\ DOMAIN db'.att = DOMAIN db.att
  <2>1. CASE db' = db
    BY <2>1 DEF SameRows, SameWork
  <2>2. CASE db' = Seen(db, outbox[i].att)
    BY <1>1, <2>2, SeenSame
  <2> QED
    BY <1>2, <2>1, <2>2
<1>4. SameRows(mem, mem')
  BY <1>2 DEF SameRows, SameWork
<1> QED
  BY <1>2, <1>3, <1>4, QuietKeeps

(* ...then in memory; so do claims and resolutions.                        *)
LEMMA MirrorAckFresh ==
    ASSUME CareInv, GenInv, ~room.sealed, NEW a, MirrorAck(a)
    PROVE  Kept
<1>1. IsLedger(mem)
  BY OpenWork
<1>2. mem' = Seen(mem, a) /\ db' = db /\ UNCHANGED <<scene, gen>>
  BY DEF MirrorAck, Commit, CommitSignal
<1>3. SameRows(db, db') /\ DOMAIN db'.att = DOMAIN db.att
  BY <1>2 DEF SameRows, SameWork
<1>4. SameRows(mem, mem')
  BY <1>1, <1>2, SeenSame
<1> QED
  BY <1>2, <1>3, <1>4, QuietKeeps

(* claim_attention.                                                        *)
LEMMA ClaimFresh ==
    ASSUME CareInv, GenInv, ~room.sealed, NEW a \in DOMAIN mem.att \cap DOMAIN db.att, NEW n,
           ClaimAttention(a, n)
    PROVE  Kept
<1>1. mem' = Claimed(mem, a, n) /\ db' = Claimed(db, a, n) /\ UNCHANGED <<room, scene, gen>>
  BY DEF ClaimAttention, Commit, CommitSignal, Unmoved
<1>2. IsLedger(mem) /\ IsLedger(db)
  BY DEF CareInv, Books
<1>3. mem' = SetRow(mem, a, ClaimedRow(mem.att[a], n))
  BY <1>1, <1>2, ClaimedFacts
<1>4. db' = SetRow(db, a, ClaimedRow(db.att[a], n))
  BY <1>1, <1>2, ClaimedFacts
<1>5. SameRows(db, db') /\ DOMAIN db'.att = DOMAIN db.att /\ SameRows(mem, mem')
  BY <1>2, <1>3, <1>4, SetRowSame
<1> QED
  BY <1>1, <1>5, QuietKeeps

(* resolve_attention.                                                      *)
LEMMA ResolveFresh ==
    ASSUME CareInv, GenInv, ~room.sealed, NEW a, NEW p, NEW op, ResolveAttention(a, p, op)
    PROVE  Kept
<1> DEFINE ids == {a}
<1>1. mem' = Resolved(mem, ids) /\ db' = Resolved(db, ids) /\ UNCHANGED <<room, scene, gen>>
  BY DEF ResolveAttention, Commit, CommitSignal, Unmoved
<1> HIDE DEF ids
<1>2. IsLedger(mem) /\ IsLedger(db)
  BY DEF CareInv, Books
<1>3. SameRows(db, db') /\ DOMAIN db'.att = DOMAIN db.att /\ SameRows(mem, mem')
  BY <1>1, <1>2, ResolvedFacts DEF SameRows, Retires
<1> QED
  BY <1>1, <1>3, QuietKeeps

(* Steps that leave the ledger, the clock and the room alone.              *)
LEMMA StillFresh ==
    ASSUME CareInv, GenInv, ~room.sealed, UNCHANGED <<mem, db, gen, scene>>
    PROVE  Kept
<1>1. SameRows(db, db') /\ DOMAIN db'.att = DOMAIN db.att /\ SameRows(mem, mem')
  BY DEF SameRows, SameWork
<1> QED
  BY <1>1, QuietKeeps

(* A sealed loca stays sealed, and nothing is said of it.                  *)
LEMMA SealedKept ==
    ASSUME room'.sealed
    PROVE  Kept
  BY DEF Kept, GenInv, FreshStep

LEMMA SealedStays ==
    ASSUME CareInv, room.sealed, [CareNext]_careVars
    PROVE  room'.sealed
<1>1. room' = room => room'.sealed
  OBVIOUS
<1>2. ASSUME NEW now \in scene.clock, WorkStep(now)
      PROVE  room' = room
  BY <1>2 DEF WorkStep, CreateTaskRequest, CreateTask, UpdateTaskRequest, UpdateTask, CreateGoalRequest,
              CreateGoal, UpdateGoalRequest, UpdateGoal, SetWaitRequest, SetWait, ClearWaitRequest, ClearWait
<1>3. ASSUME NEW now \in scene.clock, RoomStep(now)
      PROVE  FALSE
  BY <1>3 DEF RoomStep, PostPlain, PostSummons, PostReply, PostAdmitted, SetLead, SetSettings, Seal
<1>4. TickCare => room' = room
  BY DEF TickCare, SignalCycle, SignalWait, NoteCondition, SignalCondition, SignalEveryone, Swept
<1>5. LedgerStep => room' = room
  BY DEF LedgerStep, CheckAck, CommitAck, MirrorAck, ClaimAttentionRequest, ClaimAttention,
         ResolveAttentionRequest, ResolveAttention, CreateAttentionRequest, CreateAttention
<1>6. TimeStep \/ WorldStep => room' = room
  BY DEF TimeStep, Ages, Cools, HealthAges, WorldStep, Report, Sits, Davet, Restart
<1>7. UNCHANGED careVars => room' = room
  BY DEF careVars
<1> QED
  BY <1>1, <1>2, <1>3, <1>4, <1>5, <1>6, <1>7 DEF CareNext

(* Sealing.                                                                *)
LEMMA SealFresh ==
    ASSUME CareInv, Seal
    PROVE  Kept
<1>1. room = [lead |-> room.lead, to |-> room.to, archived |-> room.archived, sealed |-> room.sealed]
  BY DEF CareInv, Books, IsRoom
<1>2. room' = [room EXCEPT !.sealed = TRUE]
  BY DEF Seal
<1>3. room'.sealed
  BY ONLY <1>1, <1>2
<1> QED
  BY <1>3, SealedKept

(* An empty ledger is behind the counter.                                  *)
LEMMA GenerationsInitial ==
    ASSUME CareInit
    PROVE  GenInv
<1>1. mem = Empty /\ db = Empty /\ gen = 0 /\ scene \in Scenes
  BY DEF CareInit
<1>2. Top \in Nat
  BY <1>1, CareAssumption DEF Top
<1>3. Numbered(Empty.tasks) /\ Numbered(Empty.goals)
  <2>1. {} = 1..0 /\ 0 \in Nat
    OBVIOUS
  <2> QED
    BY <2>1, EmptyDated DEF Numbered
<1>4. Dated(mem, gen, Top) /\ AttsDated(db, gen, Top)
  BY <1>1, <1>2, <1>3, EmptyDated DEF Dated, AttsDated
<1> QED
  BY <1>1, <1>2, <1>4 DEF GenInv

(* Every request, sweep, acknowledgement, passing of time and restart      *)
(* keeps the attentions behind the work and starts fresh conditions only.  *)
LEMMA GenerationsStep ==
    ASSUME CareInv, GenInv, [CareNext]_careVars
    PROVE  Kept
<1>0. CASE room.sealed
  BY <1>0, SealedStays, SealedKept
<1>1. ASSUME ~room.sealed, NEW now \in scene.clock, WorkStep(now) PROVE Kept
  <2>1. CASE \E r \in scene.newTask : CreateTaskRequest(r[1], r[2], now)
    BY <1>1, <2>1, CreateTaskFresh DEF CreateTaskRequest
  <2>2. CASE \E t \in DOMAIN mem.tasks, r \in scene.task : UpdateTaskRequest(t, r[1], r[2], r[3], now)
    BY <1>1, <2>2, UpdateTaskFresh DEF UpdateTaskRequest
  <2>3. CASE \E r \in scene.newGoal : CreateGoalRequest(r[1], r[2], r[3], now)
    BY <1>1, <2>3, CreateGoalFresh DEF CreateGoalRequest
  <2>4. CASE \E g \in DOMAIN mem.goals, r \in scene.goal : UpdateGoalRequest(r[1], g, r[2], r[3], r[4], r[5], now)
    BY <1>1, <2>4, UpdateGoalFresh DEF UpdateGoalRequest
  <2>5. CASE \E r \in scene.wait : SetWaitRequest(r[1], r[2], r[3], now)
    <3>1. PICK r \in scene.wait : SetWaitRequest(r[1], r[2], r[3], now)
      BY <2>5
    <3>2. r[1] # None
      BY CareAssumption DEF CareInv
    <3> QED
      BY <1>1, <3>1, <3>2, SetWaitFresh DEF SetWaitRequest
  <2>6. CASE \E r \in scene.unwait : ClearWaitRequest(r[1], r[2])
    BY <1>1, <2>6, ClearWaitFresh DEF ClearWaitRequest
  <2> QED
    BY <1>1, <2>1, <2>2, <2>3, <2>4, <2>5, <2>6 DEF WorkStep
<1>2. ASSUME ~room.sealed, NEW now \in scene.clock, RoomStep(now) PROVE Kept
  <2>1. CASE \E r \in scene.post : PostPlain(r[1], r[2], now) \/ PostSummons(r[1], r[2], now) \/ PostReply(r[1], r[2], now)
    BY <1>2, <2>1, PostPlainFresh, PostSummonsFresh, PostReplyFresh
  <2>2. CASE \E to \in scene.setLead : SetLead(to, now)
    BY <1>2, <2>2, SetLeadFresh
  <2>3. CASE \E f \in scene.settings : SetSettings(f[1], f[2], now)
    BY <1>2, <2>3, SetSettingsFresh
  <2>4. CASE Seal
    BY <2>4, SealFresh
  <2> QED
    BY <1>2, <2>1, <2>2, <2>3, <2>4 DEF RoomStep
<1>3. ASSUME ~room.sealed, TickCare PROVE Kept
  <2>1. CASE \E key \in CycleKeys(mem) : SignalCycle(key)
    BY <2>1, SignalCycleFresh
  <2>2. CASE \E n \in DOMAIN mem.waits : SignalWait(n)
    BY <2>2, SignalWaitFresh
  <2>3. CASE \E c \in aged \cap Conditions(mem) : NoteCondition(c) \/ SignalCondition(c) \/ SignalEveryone(c)
    BY <2>3, NoteConditionFresh, SignalConditionFresh, SignalEveryoneFresh
  <2> QED
    BY <1>3, <2>1, <2>2, <2>3 DEF TickCare
<1>4. ASSUME ~room.sealed, LedgerStep PROVE Kept
  <2>1. CASE \E i \in DOMAIN outbox, p \in scene.ack : CheckAck(i, p)
    BY <1>4, <2>1, StillFresh DEF CheckAck
  <2>2. CASE \E k \in checked : CommitAck(k[1], k[2])
    BY <1>4, <2>2, CommitAckFresh
  <2>3. CASE \E a \in unmirrored : MirrorAck(a)
    BY <1>4, <2>3, MirrorAckFresh
  <2>4. CASE \E a \in DOMAIN mem.att \cap DOMAIN db.att : \E n \in scene.claim : ClaimAttentionRequest(a, n)
    BY <1>4, <2>4, ClaimFresh DEF ClaimAttentionRequest
  <2>5. CASE \E a \in DOMAIN mem.att \cap DOMAIN db.att : \E p \in scene.resolve : ResolveAttentionRequest(a, p)
    BY <1>4, <2>5, ResolveFresh DEF ResolveAttentionRequest
  <2>6. CASE \E r \in scene.attention : CreateAttentionRequest(r[1], r[2])
    BY <1>4, <2>6, CreateAttentionFresh DEF CreateAttentionRequest
  <2> QED
    BY <1>4, <2>1, <2>2, <2>3, <2>4, <2>5, <2>6 DEF LedgerStep
<1>5. ASSUME ~room.sealed, TimeStep PROVE Kept
  BY <1>5, StillFresh DEF TimeStep, Ages, Cools, HealthAges
<1>6. ASSUME ~room.sealed, WorldStep PROVE Kept
  <2>1. CASE \E r \in scene.report : Report(r[1], r[2], r[3])
    BY <1>6, <2>1, StillFresh DEF Report
  <2>2. CASE \E n \in scene.sits : Sits(n)
    BY <1>6, <2>2, StillFresh DEF Sits
  <2>3. CASE \E p \in scene.invite : Davet(p)
    BY <1>6, <2>3, StillFresh DEF Davet
  <2>4. CASE Restart
    BY <1>6, <2>4, RestartFresh
  <2> QED
    BY <1>6, <2>1, <2>2, <2>3, <2>4 DEF WorldStep
<1>7. ASSUME ~room.sealed, UNCHANGED careVars PROVE Kept
  BY <1>7, StillFresh DEF careVars
<1> QED
  BY <1>0, <1>1, <1>2, <1>3, <1>4, <1>5, <1>6, <1>7 DEF CareNext

(* The attentions of an open loca are never ahead of the task or goal they *)
(* are about, nor those of waits ahead of the counter, although rows are   *)
(* also stamped with a wall clock that may repeat or go back, and although *)
(* a restart recovers the counter (restore of condition_generation).       *)
THEOREM GenerationsAreDated == CareSpec => []GenInv
<1>1. CareInit => GenInv
  BY GenerationsInitial
<1>2. CareInv /\ GenInv /\ [CareNext]_careVars => GenInv'
  BY GenerationsStep DEF Kept
<1> QED
  BY <1>1, <1>2, BooksAreKept, PTL DEF CareSpec

(* A task, goal or wait of an open loca that starts a new generation has   *)
(* no attention of it yet, whatever the clock said and whatever was        *)
(* resolved, deleted or restarted before (next_condition_generation).      *)
THEOREM GenerationsAreFresh == CareSpec => FreshGenerations
<1>1. CareInv /\ GenInv /\ [CareNext]_careVars => [FreshStep]_careVars
  BY GenerationsStep DEF Kept
<1>2. CareSpec => [][FreshStep]_careVars
  BY <1>1, BooksAreKept, GenerationsAreDated, PTL DEF CareSpec
<1>3. FreshGenerations <=> [][FreshStep]_careVars
  BY DEF FreshGenerations, FreshStep
<1> QED
  BY <1>2, <1>3, PTL

=============================================================================
