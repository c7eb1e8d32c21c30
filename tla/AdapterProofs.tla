--------------------------- MODULE AdapterProofs ---------------------------
(***************************************************************************)
(* The fencing lease, for any set of adapter processes, any time to live   *)
(* and any bound on the epochs.  Then the adapter, with its crashes,       *)
(* stalls, recoveries and dispatches, for any processes, attentions,       *)
(* turns and bounds: it uses the lease as the lease specification says, so *)
(* that what is proved of the lease alone holds of the whole adapter; the  *)
(* outcome of a relay is final; and the whole state keeps its types.       *)
(*                                                                         *)
(* The types are not inductive alone.  A queued notification is handled    *)
(* long after it was sent, a view is used long after it was read, and the  *)
(* row of a turn is written from the memory of a process; so the invariant *)
(* AdapterInv also says that every report and every view is true of Codex  *)
(* and stays true while Codex goes on, and what each point of the program  *)
(* may rely on.  Its proof has one lemma per transaction of the ledger     *)
(* (...Effect, ...Rows), one per action for what the action writes of its  *)
(* own process (...Acts), and one per action for the invariant (...Keeps). *)
(***************************************************************************)
EXTENDS CodexAdapter, FiniteSetTheorems, NaturalsInduction, WellFoundedInduction, TLAPS

-----------------------------------------------------------------------------
(* The lease alone *)

(* The lease row and the remembered epochs start consistent. *)
LEMMA LeaseInitInv == LeaseInit => LeaseInv
  BY NoOwnerAssumption, TTLAssumption
  DEF LeaseInit, LeaseInv, LeaseTypeOK, OneOwnerPerEpoch

(* Every claim, renewal, release, tick and death keeps them consistent. *)
LEMMA LeaseStepInv == LeaseInv /\ [LeaseNext]_leaseVars => LeaseInv'
  <1> SUFFICES ASSUME LeaseInv, [LeaseNext]_leaseVars
               PROVE  LeaseInv'
      OBVIOUS
  <1> USE NoOwnerAssumption, TTLAssumption
      DEF LeaseInv, LeaseTypeOK, OneOwnerPerEpoch
  <1>1. ASSUME NEW o \in alive, claim_lease(o)
        PROVE  LeaseInv'
    <2>1. o \in Owner
        OBVIOUS
    <2>2. CASE lease.owner = o
        BY <1>1, <2>1, <2>2 DEF claim_lease, ClaimedEpoch
    <2>3. CASE lease.owner # o
        BY <1>1, <2>1, <2>3 DEF claim_lease, ClaimedEpoch
    <2> QED
        BY <2>2, <2>3
  <1>2. ASSUME NEW o \in alive, renew_lease(o)
        PROVE  LeaseInv'
        BY <1>2 DEF renew_lease
  <1>3. ASSUME NEW o \in alive, release_lease(o)
        PROVE  LeaseInv'
        BY <1>3 DEF release_lease
  <1>4. ASSUME NEW o \in alive, Die(o)
        PROVE  LeaseInv'
        BY <1>4 DEF Die
  <1>5. CASE Tick
        BY <1>5 DEF Tick
  <1>6. CASE UNCHANGED leaseVars
        BY <1>6 DEF leaseVars
  <1> QED
      BY <1>1, <1>2, <1>3, <1>4, <1>5, <1>6 DEF LeaseNext

(* The row and the epochs the processes remember stay consistent in every  *)
(* reachable state.                                                        *)
THEOREM LeaseInvariant == LeaseSpec => []LeaseInv
  BY LeaseInitInv, LeaseStepInv, PTL DEF LeaseSpec

(* The fencing token names one process: no two adapters ever remember the  *)
(* same epoch.                                                             *)
THEOREM FencingToken == LeaseSpec => []OneOwnerPerEpoch
  <1>1. LeaseInv => OneOwnerPerEpoch
      BY DEF LeaseInv
  <1> QED
      BY <1>1, LeaseInvariant, PTL

(* One step never gives the fence back to a superseded process. *)
LEMMA SupersededStep ==
  ASSUME LeaseInv, [LeaseNext]_leaseVars, NEW o \in Owner,
         epochOf[o] # 0, ~Current(o), epochOf'[o] = epochOf[o]
  PROVE  ~Current(o)'
  <1> USE NoOwnerAssumption DEF Current, LeaseInv, LeaseTypeOK
  <1>1. ASSUME NEW p \in alive, claim_lease(p)
        PROVE  ~Current(o)'
    <2>1. p \in Owner
        OBVIOUS
    <2>2. CASE p = o
        BY <1>1, <2>1, <2>2 DEF claim_lease, ClaimedEpoch
    <2>3. CASE p # o
        BY <1>1, <2>1, <2>3 DEF claim_lease
    <2> QED
        BY <2>2, <2>3
  <1>2. ASSUME NEW p \in alive, renew_lease(p) \/ release_lease(p) \/ Die(p)
        PROVE  ~Current(o)'
        BY <1>2 DEF renew_lease, release_lease, Die
  <1>3. CASE Tick \/ UNCHANGED leaseVars
        BY <1>3 DEF Tick, leaseVars
  <1> QED
      BY <1>1, <1>2, <1>3 DEF LeaseNext

(* A superseded adapter never passes the fence again at its old epoch. *)
THEOREM Superseded == LeaseSpec => SupersededStaysSuperseded
  <1>1. LeaseInv /\ [LeaseNext]_leaseVars =>
          [\A o \in Owner :
             epochOf[o] # 0 /\ ~Current(o) /\ epochOf'[o] = epochOf[o]
             => ~Current(o)']_leaseVars
      BY SupersededStep
  <1> QED
      BY <1>1, LeaseInvariant, PTL DEF LeaseSpec, SupersededStaysSuperseded

-----------------------------------------------------------------------------
(* The lease in the adapter *)

(* A process that has not ended is one the operating system still runs.    *)
ProcessInv ==
    /\ pc \in [Owner -> Point]
    /\ \A o \in Owner : pc[o] # "dead" => o \in alive

(* A step of process o that leaves the lease alone and does not end o. *)
Continues(o) ==
    /\ UNCHANGED leaseVars
    /\ pc' = pc \/ \E p \in Point \ {"dead"} : pc[o] # "dead" /\ pc' = [pc EXCEPT ![o] = p]

(* Such a step keeps the process invariant. *)
LEMMA ContinuesKeepsInv ==
    ASSUME ProcessInv, NEW o \in Owner, Continues(o)
    PROVE  ProcessInv'
  BY DEF ProcessInv, Continues, leaseVars

(* Recovery after the claim only moves the process on. *)
LEMMA RecoveryContinues ==
    ASSUME NEW o \in Owner, Recovery(o), ~Start(o)
    PROVE  Continues(o)
<1> USE DEF Continues, At, Goto, KeepRest, Point
<1>1. CASE ResumeMissing(o)
  BY <1>1 DEF ResumeMissing
<1>2. CASE ResumeThread(o)
  BY <1>2 DEF ResumeThread
<1>3. CASE reconcile_dispatches(o)
  BY <1>3 DEF reconcile_dispatches
<1>4. CASE reconcile_accepted_turns(o)
  BY <1>4 DEF reconcile_accepted_turns
<1>5. CASE ReplayHistory(o)
  BY <1>5 DEF ReplayHistory
<1>6. CASE Reap(o)
  BY <1>6 DEF Reap
<1> QED
  BY <1>1, <1>2, <1>3, <1>4, <1>5, <1>6 DEF Recovery

(* So does the handling of Codex messages. *)
LEMMA MessagesContinue ==
    ASSUME NEW o \in Owner, Messages(o)
    PROVE  Continues(o)
<1> USE DEF Continues, KeepRest
<1>1. CASE handle_agent_item(o)
  BY <1>1 DEF handle_agent_item
<1>2. CASE HandleNoReply(o)
  BY <1>2 DEF HandleNoReply
<1>3. CASE PromoteCandidate(o)
  BY <1>3 DEF PromoteCandidate
<1>4. CASE handle_turn_completed(o)
  BY <1>4 DEF handle_turn_completed
<1>5. CASE drain_messages(o)
  BY <1>5 DEF drain_messages
<1> QED
  BY <1>1, <1>2, <1>3, <1>4, <1>5 DEF Messages

(* So do dispatches and controls. *)
LEMMA DispatchContinues ==
    ASSUME NEW o \in Owner, Dispatch(o)
    PROVE  Continues(o)
<1> USE DEF Continues, At, AtSteer, Goto, KeepRest, Point, Select, EndDispatch
<1>1. CASE DispatchLegacy(o) \/ create_thread(o) \/ PrepareDispatch(o)
  BY <1>1 DEF DispatchLegacy, create_thread, PrepareDispatch
<1>2. CASE StartTurn(o) \/ SteerTurn(o) \/ SteerMismatch(o)
  BY <1>2 DEF StartTurn, SteerTurn, SteerMismatch
<1>3. CASE BindDispatch(o)
  BY <1>3 DEF BindDispatch
<1>4. CASE RpcRejected(o) \/ SteerInactive(o) \/ DeferRejected(o)
  BY <1>4 DEF RpcRejected, SteerInactive, DeferRejected
<1>5. CASE StopInterrupt(o)
  BY <1>5 DEF StopInterrupt
<1>6. CASE StopTurn(o) \/ StopPending(o)
  BY <1>6 DEF StopTurn, StopPending
<1>7. CASE CloseRoom(o)
  BY <1>7 DEF CloseRoom
<1> QED
  BY <1>1, <1>2, <1>3, <1>4, <1>5, <1>6, <1>7 DEF Dispatch

(* So does the release of output. *)
LEMMA RelaysContinue ==
    ASSUME NEW o \in Owner, Relays(o)
    PROVE  Continues(o)
<1> USE DEF Continues, At, Goto, KeepRest, Point
<1>1. CASE AssertLease(o)
  BY <1>1 DEF AssertLease, TakeRow
<1>2. CASE PostAccepted(o) \/ PostFailed(o)
  BY <1>2 DEF PostAccepted, PostFailed, NextRow
<1>3. CASE MarkRelay(o)
  BY <1>3 DEF MarkRelay, RecordSent, NextRow
<1> QED
  BY <1>1, <1>2, <1>3 DEF Relays

(* Codex and the clock of deferred attentions touch neither. *)
LEMMA EnvironmentContinues ==
    ASSUME CodexStep \/ \E a \in Attention : Elapsed(a)
    PROVE  UNCHANGED leaseVars /\ pc' = pc
<1>1. CASE CodexStep
  BY <1>1 DEF CodexStep, CodexItem, CodexPersist, CodexFinish, CodexDrop,
              CodexRollOver, LoseThread, KeepAdapter
<1>2. CASE \E a \in Attention : Elapsed(a)
  BY <1>2 DEF Elapsed, adapterVars
<1> QED
  BY <1>1, <1>2

(* Every step is a step of the lease, or leaves it alone, and keeps the     *)
(* process invariant: a claim is made by a running process, and a process   *)
(* that ends was running.                                                   *)
LEMMA AdapterStepRefines ==
    ASSUME ProcessInv, [Next]_vars
    PROVE  [LeaseNext]_leaseVars /\ ProcessInv'
<1>1. ASSUME NEW o \in Owner, Continues(o)
      PROVE  [LeaseNext]_leaseVars /\ ProcessInv'
  BY <1>1, ContinuesKeepsInv DEF Continues
<1>2. ASSUME NEW o \in Owner, Start(o)
      PROVE  [LeaseNext]_leaseVars /\ ProcessInv'
  BY <1>2 DEF Start, Goto, claim_lease, ProcessInv, LeaseNext, Point
<1>3. ASSUME NEW o \in Owner, Crash(o) \/ Stale(o)
      PROVE  [LeaseNext]_leaseVars /\ ProcessInv'
  BY <1>3 DEF Crash, Stale, Leave, Goto, Die, ProcessInv, LeaseNext, Point
<1>4. CASE Stall
  BY <1>4 DEF Stall, Tick, adapterVars, ProcessInv, LeaseNext
<1>5. CASE CodexStep \/ \E a \in Attention : Elapsed(a)
  BY <1>5, EnvironmentContinues DEF ProcessInv, leaseVars
<1>6. CASE UNCHANGED vars
  BY <1>6 DEF vars, adapterVars, leaseVars, ProcessInv
<1>7. ASSUME NEW o \in Owner, Ingest(o) \/ reconcile_active_turn(o)
      PROVE  Continues(o)
  BY <1>7 DEF Ingest, reconcile_active_turn, Continues, KeepRest
<1>8. ASSUME NEW o \in Owner, AdapterStep(o)
      PROVE  Continues(o) \/ Start(o) \/ Stale(o)
  BY <1>8, RecoveryContinues, MessagesContinue, DispatchContinues,
     RelaysContinue DEF AdapterStep
<1> QED
  BY <1>1, <1>2, <1>3, <1>4, <1>5, <1>6, <1>7, <1>8 DEF Next

(* The whole adapter implements the lease: recovery, dispatch, controls and *)
(* relays never touch the lease row, and only a running process claims it.  *)
THEOREM AdapterImplementsLease == Spec => LeaseSpec
<1>1. Init => LeaseInit /\ ProcessInv
  BY DEF Init, LeaseInit, ProcessInv, Point
<1>2. ProcessInv /\ [Next]_vars => [LeaseNext]_leaseVars /\ ProcessInv'
  BY AdapterStepRefines
<1> QED
  BY <1>1, <1>2, PTL DEF Spec, LeaseSpec

(* Hence in the whole adapter no two processes ever hold the same fencing   *)
(* token.                                                                   *)
THEOREM AdapterFencingToken == Spec => []OneOwnerPerEpoch
  BY AdapterImplementsLease, FencingToken, PTL

-----------------------------------------------------------------------------
(* The outcome of a relay *)

(* A row of relay_items, whatever its operation. *)
IsRow(r) == r = [op |-> r.op, status |-> r.status]

(* What a process remembers, field by field. *)
IsMemory(m) ==
    m = [thread |-> m.thread, active |-> m.active, cur |-> m.cur,
         acc |-> m.acc, now |-> m.now, view |-> m.view,
         sending |-> m.sending, batch |-> m.batch]

(* The points of process_relays. *)
Releasing == {"batch", "post", "mark"}

(* The memory of a releasing process agrees with the ledger as long as the  *)
(* row of the lease names it: what it is sending and what it will send next *)
(* is still pending.  A process whose lease expired is covered too, because *)
(* nobody changes the ledger before a takeover; a superseded one is not.    *)
Releases(o) ==
    /\ work[o] = <<>>
    /\ lease.owner = o =>
         /\ mem[o].batch \subseteq pending_relays \ {mem[o].sending}
         /\ pc[o] \in {"post", "mark"} => mem[o].sending \in pending_relays

(* The inductive invariant of the outcome of a relay: one row per op_id,    *)
(* and a releasing process sends pending rows.                              *)
RelayInv ==
    /\ pc \in [Owner -> Point]
    /\ mem = [o \in Owner |-> mem[o]] /\ work = [o \in Owner |-> work[o]]
    /\ \A o \in Owner : IsMemory(mem[o])
    /\ \A r \in relay : IsRow(r)
    /\ \A r, q \in relay : r.op = q.op => r = q
    /\ \A o \in Owner : pc[o] \in Releasing => Releases(o)

(* Rows that stay, or are suppressed, keep their operations apart, and the  *)
(* outcome of a row that is sent or suppressed already.                     *)
LEMMA SuppressKeeps ==
    ASSUME \A r \in relay : IsRow(r), \A r, q \in relay : r.op = q.op => r = q,
           NEW S, SuppressRelays(S)
    PROVE  /\ \A r \in relay' : IsRow(r)
           /\ \A r, q \in relay' : r.op = q.op => r = q
           /\ \A r \in relay : r.status \in {"suppressed", "accepted"} => r \in relay'
<1> DEFINE f(r) == IF r.op.turn \in S /\ r.status \in {"pending", "held"}
                   THEN [r EXCEPT !.status = "suppressed"] ELSE r
<1>1. relay' = {f(r) : r \in relay}
  BY DEF SuppressRelays
<1>2. ASSUME NEW r \in relay
      PROVE  IsRow(f(r)) /\ f(r).op = r.op /\ (r.status \in {"suppressed", "accepted"} => f(r) = r)
  <2>1. r = [op |-> r.op, status |-> r.status]
    BY DEF IsRow
  <2>2. [r EXCEPT !.status = "suppressed"] = [op |-> r.op, status |-> "suppressed"]
    BY <2>1
  <2> QED
    BY <2>1, <2>2 DEF IsRow
<1> HIDE DEF f
<1> QED
  BY <1>1, <1>2

(* A new row has an operation of its own: INSERT OR IGNORE on its key. *)
LEMMA CreateKeeps ==
    ASSUME \A r \in relay : IsRow(r), \A r, q \in relay : r.op = q.op => r = q,
           NEW op, NEW status, create_relay_item(op, status)
    PROVE  /\ \A r \in relay' : IsRow(r)
           /\ \A r, q \in relay' : r.op = q.op => r = q
           /\ relay \subseteq relay'
  BY DEF create_relay_item, IsRow

(* The row that is marked was pending, and it is the only one of its        *)
(* operation.                                                               *)
LEMMA MarkKeeps ==
    ASSUME \A r \in relay : IsRow(r), \A r, q \in relay : r.op = q.op => r = q,
           NEW s \in pending_relays, mark_relay_accepted(s)
    PROVE  /\ \A r \in relay' : IsRow(r)
           /\ \A r, q \in relay' : r.op = q.op => r = q
           /\ \A r \in relay : r # s => r \in relay'
<1> DEFINE f(r) == IF r.op = s.op THEN [r EXCEPT !.status = "accepted"] ELSE r
<1>1. relay' = {f(r) : r \in relay}
  BY DEF mark_relay_accepted
<1>2. ASSUME NEW r \in relay
      PROVE  IsRow(f(r)) /\ f(r).op = r.op /\ (r # s => f(r) = r)
  <2>1. r = [op |-> r.op, status |-> r.status]
    BY DEF IsRow
  <2>2. [r EXCEPT !.status = "accepted"] = [op |-> r.op, status |-> "accepted"]
    BY <2>1
  <2>3. s \in relay
    BY DEF pending_relays
  <2> QED
    BY <2>1, <2>2, <2>3 DEF IsRow
<1> HIDE DEF f
<1> QED
  BY <1>1, <1>2

(* Everything but the relays of a step of o: only o's own state moves.      *)
Local(o) ==
    /\ pc' \in [Owner -> Point]
    /\ mem' = [p \in Owner |-> mem'[p]] /\ work' = [p \in Owner |-> work'[p]]
    /\ IsMemory(mem'[o])
    /\ \A p \in Owner \ {o} : pc'[p] = pc[p] /\ mem'[p] = mem[p] /\ work'[p] = work[p]
    /\ lease' = lease

(* Rows are well formed, one per operation, and outcomes are kept. *)
RowsKept ==
    /\ \A r \in relay' : IsRow(r)
    /\ \A r, q \in relay' : r.op = q.op => r = q
    /\ \A r \in relay : r.status \in {"suppressed", "accepted"} => r \in relay'

(* A step of o outside process_relays: only the lease holder touches rows. *)
Steady(o) ==
    /\ Local(o)
    /\ pc'[o] \notin Releasing
    /\ RowsKept
    /\ relay' # relay => lease.owner = o

(* Rows that nobody touches are kept. *)
LEMMA SameRowsKept ==
    ASSUME RelayInv, relay' = relay
    PROVE  RowsKept
  BY DEF RelayInv, RowsKept

(* A step of o outside process_relays keeps the invariant. *)
LEMMA SteadyKeeps ==
    ASSUME RelayInv, NEW o \in Owner, Steady(o)
    PROVE  RelayInv'
<1>1. ASSUME NEW p \in Owner
      PROVE  IsMemory(mem'[p]) /\ (pc'[p] \in Releasing => Releases(p)')
  <2>1. CASE p = o
    BY <2>1 DEF Steady, Local
  <2>2. CASE p # o
    BY <2>2 DEF Steady, Local, RelayInv, Releases, pending_relays, IsMemory
  <2> QED
    BY <2>1, <2>2
<1> QED
  BY <1>1 DEF RelayInv, Steady, Local, RowsKept

(* One field of one memory is written. *)
LEMMA OneField ==
    ASSUME NEW m, m = [p \in Owner |-> m[p]], NEW o \in Owner, IsMemory(m[o]), NEW n, NEW v,
           \/ n = [m EXCEPT ![o].cur = v]
           \/ n = [m EXCEPT ![o].active = v]
           \/ n = [m EXCEPT ![o].sending = v]
    PROVE  /\ n = [p \in Owner |-> n[p]] /\ \A p \in Owner \ {o} : n[p] = m[p]
           /\ IsMemory(n[o])
<1>1. n = [p \in Owner |-> n[p]] /\ \A p \in Owner \ {o} : n[p] = m[p]
  OBVIOUS
<1>2. m[o] = [thread |-> m[o].thread, active |-> m[o].active, cur |-> m[o].cur,
              acc |-> m[o].acc, now |-> m[o].now, view |-> m[o].view,
              sending |-> m[o].sending, batch |-> m[o].batch]
  BY DEF IsMemory
<1>3. CASE n = [m EXCEPT ![o].cur = v]
  <2>1. n[o] = [m[o] EXCEPT !.cur = v]
    BY <1>3
  <2>2. n[o] = [thread |-> m[o].thread, active |-> m[o].active, cur |-> v,
                acc |-> m[o].acc, now |-> m[o].now, view |-> m[o].view,
                sending |-> m[o].sending, batch |-> m[o].batch]
    BY ONLY <1>2, <2>1
  <2> QED
    BY ONLY <1>1, <2>2 DEF IsMemory
<1>4. CASE n = [m EXCEPT ![o].active = v]
  <2>1. n[o] = [m[o] EXCEPT !.active = v]
    BY <1>4
  <2>2. n[o] = [thread |-> m[o].thread, active |-> v, cur |-> m[o].cur,
                acc |-> m[o].acc, now |-> m[o].now, view |-> m[o].view,
                sending |-> m[o].sending, batch |-> m[o].batch]
    BY ONLY <1>2, <2>1
  <2> QED
    BY ONLY <1>1, <2>2 DEF IsMemory
<1>5. CASE n = [m EXCEPT ![o].sending = v]
  <2>1. n[o] = [m[o] EXCEPT !.sending = v]
    BY <1>5
  <2>2. n[o] = [thread |-> m[o].thread, active |-> m[o].active, cur |-> m[o].cur,
                acc |-> m[o].acc, now |-> m[o].now, view |-> m[o].view,
                sending |-> v, batch |-> m[o].batch]
    BY ONLY <1>2, <2>1
  <2> QED
    BY ONLY <1>1, <2>2 DEF IsMemory
<1> QED
  BY <1>3, <1>4, <1>5

(* A process that writes two fields of its memory writes nothing else. *)
LEMMA TwoFields ==
    ASSUME NEW m, m = [p \in Owner |-> m[p]], NEW o \in Owner, IsMemory(m[o]), NEW n, NEW v, NEW w,
           \/ n = [m EXCEPT ![o].view = v, ![o].active = w]
           \/ n = [m EXCEPT ![o].now = v, ![o].active = w]
    PROVE  /\ n = [p \in Owner |-> n[p]] /\ \A p \in Owner \ {o} : n[p] = m[p]
           /\ IsMemory(n[o])
<1>1. n = [p \in Owner |-> n[p]] /\ \A p \in Owner \ {o} : n[p] = m[p]
  OBVIOUS
<1>2. m[o] = [thread |-> m[o].thread, active |-> m[o].active, cur |-> m[o].cur,
              acc |-> m[o].acc, now |-> m[o].now, view |-> m[o].view,
              sending |-> m[o].sending, batch |-> m[o].batch]
  BY DEF IsMemory
<1>3. CASE n = [m EXCEPT ![o].view = v, ![o].active = w]
  <2>1. n[o] = [m[o] EXCEPT !.view = v, !.active = w]
    BY <1>3
  <2>2. n[o] = [thread |-> m[o].thread, active |-> w, cur |-> m[o].cur,
                acc |-> m[o].acc, now |-> m[o].now, view |-> v,
                sending |-> m[o].sending, batch |-> m[o].batch]
    BY ONLY <1>2, <2>1
  <2> QED
    BY <1>1, <2>2 DEF IsMemory
<1>4. CASE n = [m EXCEPT ![o].now = v, ![o].active = w]
  <2>1. n[o] = [m[o] EXCEPT !.now = v, !.active = w]
    BY <1>4
  <2>2. n[o] = [thread |-> m[o].thread, active |-> w, cur |-> m[o].cur,
                acc |-> m[o].acc, now |-> v, view |-> m[o].view,
                sending |-> m[o].sending, batch |-> m[o].batch]
    BY ONLY <1>2, <2>1
  <2> QED
    BY <1>1, <2>2 DEF IsMemory
<1> QED
  BY <1>3, <1>4

(* Recovery. *)
LEMMA RecoverySteady ==
    ASSUME RelayInv, NEW o \in Owner, Recovery(o), ~Start(o)
    PROVE  Steady(o)
<1> USE DEF RelayInv, Steady, Local, IsMemory, Releasing, Point, KeepRest, leaseVars
<1>1. CASE ResumeMissing(o)
  <2>1. relay' = relay
    BY <1>1 DEF ResumeMissing, retry_unobserved_dispatch, requeue_missing_thread
  <2> QED
    BY <1>1, <2>1, SameRowsKept DEF ResumeMissing, At, Goto
<1>2. CASE ResumeThread(o)
  BY <1>2, SameRowsKept DEF ResumeThread, At, Goto, set_thread
<1>3. CASE reconcile_dispatches(o)
  <2>1. relay' = relay
    BY <1>3 DEF reconcile_dispatches, finalize_dispatch, retry_unobserved_dispatch
  <2> QED
    BY <1>3, <2>1, SameRowsKept DEF reconcile_dispatches, At
<1>4. CASE reconcile_accepted_turns(o)
  <2>1. relay' = relay
    BY <1>4 DEF reconcile_accepted_turns, adopt_recovered_turn, requeue_missing_turn
  <2>2. mem' = mem \/ \E t : mem' = [mem EXCEPT ![o].active = t]
    BY <1>4 DEF reconcile_accepted_turns
  <2> QED
    BY <1>4, <2>1, <2>2, SameRowsKept DEF reconcile_accepted_turns, At
<1>5. CASE ReplayHistory(o)
  <2>1. /\ \E w : work' = [work EXCEPT ![o] = w]
        /\ \E v, a : mem' = [mem EXCEPT ![o].view = v, ![o].active = a]
        /\ pc' = [pc EXCEPT ![o] = "replay"] /\ relay' = relay /\ lease' = lease
    BY <1>5 DEF ReplayHistory, Goto, storeVars
  <2>2. PICK v, a : mem' = [mem EXCEPT ![o].view = v, ![o].active = a]
    BY <2>1
  <2>3. /\ mem' = [p \in Owner |-> mem'[p]] /\ \A p \in Owner \ {o} : mem'[p] = mem[p]
        /\ IsMemory(mem'[o])
    BY ONLY <2>2, RelayInv, TwoFields, o \in Owner, SMTT(40) DEF RelayInv
  <2> QED
    BY <2>1, <2>3, SameRowsKept, SMTT(40)
<1>6. CASE Reap(o)
  <2>1. RowsKept
    BY <1>6, SuppressKeeps DEF Reap, reap_stale_turns_after_recovery, RowsKept
  <2> QED
    BY <1>6, <2>1 DEF Reap, Goto, Fenced, Current
<1> QED
  BY <1>1, <1>2, <1>3, <1>4, <1>5, <1>6 DEF Recovery

(* Messages are handled at points where nothing is being released. *)
LEMMA MessagesSteady ==
    ASSUME RelayInv, NEW o \in Owner, Messages(o)
    PROVE  Steady(o)
<1> USE DEF RelayInv, Steady, Local, IsMemory, KeepRest, leaseVars
<1>1. work[o] # <<>> => pc[o] \notin Releasing
  BY SMTT(40) DEF Releases
<1>2. CASE handle_agent_item(o)
  <2>1. RowsKept
    BY <1>2, SameRowsKept, CreateKeeps DEF handle_agent_item, create_output, storeVars, RowsKept
  <2>2. \E w : work' = [work EXCEPT ![o] = w]
    BY <1>2 DEF handle_agent_item, Handled
  <2> QED
    BY <1>1, <1>2, <2>1, <2>2 DEF handle_agent_item, Handling, Fenced, Current
<1>3. CASE HandleNoReply(o)
  BY <1>1, <1>3, SameRowsKept DEF HandleNoReply, Handling, Handled, mark_turn_no_reply
<1>4. CASE PromoteCandidate(o)
  <2>1. RowsKept
    BY <1>4, SameRowsKept, CreateKeeps DEF PromoteCandidate, create_output, storeVars, RowsKept
  <2> QED
    BY <1>1, <1>4, <2>1 DEF PromoteCandidate, Handling, Fenced, Current
<1>5. CASE handle_turn_completed(o)
  <2>1. RowsKept
    BY <1>5, SameRowsKept, SuppressKeeps
    DEF handle_turn_completed, mark_turn_completed, storeVars, RowsKept
  <2>2. \E a : mem' = [mem EXCEPT ![o].active = a]
    BY <1>5 DEF handle_turn_completed
  <2> QED
    BY <1>1, <1>5, <2>1, <2>2 DEF handle_turn_completed, Handling, Handled, Fenced, Current
<1>6. CASE drain_messages(o)
  BY <1>6, SameRowsKept DEF drain_messages, At, storeVars, Releasing
<1> QED
  BY <1>2, <1>3, <1>4, <1>5, <1>6 DEF Messages

(* Dispatches and controls. *)
LEMMA DispatchSteady ==
    ASSUME RelayInv, NEW o \in Owner, Dispatch(o)
    PROVE  Steady(o)
<1> USE DEF RelayInv, Steady, Local, IsMemory, Releasing, Point, KeepRest, leaseVars,
            At, AtSteer, Goto, Select, EndDispatch
<1>1. CASE DispatchLegacy(o) \/ create_thread(o) \/ PrepareDispatch(o)
  <2>1. CASE DispatchLegacy(o)
    BY <2>1, SameRowsKept DEF DispatchLegacy, retire_legacy_context
  <2>2. CASE create_thread(o)
    BY <2>2, SameRowsKept, SMTT(40) DEF create_thread, set_thread
  <2>3. CASE PrepareDispatch(o)
    <3>1. PICK a \in Attention : mem' = [mem EXCEPT ![o].cur = a]
      BY <2>3 DEF PrepareDispatch
    <3>2. pc' = [pc EXCEPT ![o] = "rpc"] /\ work' = work /\ lease' = lease /\ relay' = relay
      BY <2>3 DEF PrepareDispatch, prepare_dispatch
    <3>3. mem' = [p \in Owner |-> mem'[p]] /\ (\A p \in Owner \ {o} : mem'[p] = mem[p]) /\ IsMemory(mem'[o])
      BY ONLY <3>1, RelayInv, OneField, o \in Owner DEF RelayInv
    <3> QED
      BY <3>2, <3>3, SameRowsKept
  <2> QED
    BY <1>1, <2>1, <2>2, <2>3
<1>2. CASE StartTurn(o)
  BY <1>2, SameRowsKept DEF StartTurn, storeVars
<1>3. CASE SteerTurn(o)
  BY <1>3, SameRowsKept DEF SteerTurn, storeVars
<1>4. CASE SteerMismatch(o)
  BY <1>4, SameRowsKept DEF SteerMismatch, storeVars
<1>5. CASE BindDispatch(o)
  BY <1>5, SameRowsKept DEF BindDispatch, finalize_dispatch
<1>6. CASE RpcRejected(o)
  BY <1>6, SameRowsKept DEF RpcRejected, storeVars
<1>7. CASE SteerInactive(o)
  <2>1. relay' = relay
    BY <1>7 DEF SteerInactive, requeue_missing_turn, storeVars
  <2>2. /\ work' = work \/ \E w : work' = [work EXCEPT ![o] = w]
        /\ \/ mem' = [mem EXCEPT ![o].now = TRUE]
           \/ mem' = [mem EXCEPT ![o].now = Requeues(mem[o].active),
                                 ![o].active = IF Requeues(mem[o].active) THEN 0 ELSE @]
    BY <1>7 DEF SteerInactive, ReplayFinished
  <2>3. pc' = [pc EXCEPT ![o] = "rejected"] /\ lease' = lease
    BY <1>7 DEF SteerInactive
  <2>4. /\ mem' = [p \in Owner |-> mem'[p]] /\ \A p \in Owner \ {o} : mem'[p] = mem[p]
        /\ IsMemory(mem'[o])
    <3>1. CASE mem' = [mem EXCEPT ![o].now = TRUE]
      BY <3>1
    <3>2. CASE mem' # [mem EXCEPT ![o].now = TRUE]
      <4> DEFINE a == IF Requeues(mem[o].active) THEN 0 ELSE mem[o].active
                 n == Requeues(mem[o].active)
      <4>1. mem' = [mem EXCEPT ![o].now = n, ![o].active = a]
        BY <2>2, <3>2
      <4> HIDE DEF a, n
      <4> QED
        BY ONLY <4>1, RelayInv, TwoFields, o \in Owner DEF RelayInv
    <3> QED
      BY <3>1, <3>2
  <2> QED
    BY <2>1, <2>2, <2>3, <2>4, SameRowsKept
<1>8. CASE DeferRejected(o)
  BY <1>8, SameRowsKept DEF DeferRejected, retry_and_defer
<1>9. CASE StopInterrupt(o)
  <2>1. relay' = relay
    BY <1>9 DEF StopInterrupt, defer_attention, storeVars
  <2>2. /\ mem' = mem \/ \E c : mem' = [mem EXCEPT ![o].cur = c]
        /\ \E p \in {"stopTurn", "relay", "run"} : pc' = [pc EXCEPT ![o] = p]
        /\ work' = work /\ lease' = lease
    BY <1>9 DEF StopInterrupt
  <2> QED
    BY <2>1, <2>2, SameRowsKept
<1>10. CASE StopTurn(o)
  <2>1. RowsKept
    BY <1>10, SameRowsKept, SuppressKeeps
    DEF StopTurn, interrupt_turn_for_control, storeVars, RowsKept
  <2>2. /\ mem' = [mem EXCEPT ![o].active = 0] /\ pc' = [pc EXCEPT ![o] = "stopPending"]
        /\ work' = work /\ lease' = lease /\ lease.owner = o
    BY <1>10 DEF StopTurn, Fenced, Current
  <2>3. mem' = [p \in Owner |-> mem'[p]] /\ (\A p \in Owner \ {o} : mem'[p] = mem[p]) /\ IsMemory(mem'[o])
    BY ONLY <2>2, RelayInv, OneField, o \in Owner DEF RelayInv
  <2> QED
    BY <2>1, <2>2, <2>3
<1>11. CASE StopPending(o)
  <2>1. /\ mem' = [mem EXCEPT ![o].cur = 0] /\ work' = work /\ lease' = lease /\ relay' = relay
        /\ \E p \in {"relay", "run"} : pc' = [pc EXCEPT ![o] = p]
    BY <1>11 DEF StopPending, cancel_pending_before_control
  <2>2. mem' = [p \in Owner |-> mem'[p]] /\ (\A p \in Owner \ {o} : mem'[p] = mem[p]) /\ IsMemory(mem'[o])
    BY ONLY <2>1, RelayInv, OneField, o \in Owner DEF RelayInv
  <2> QED
    BY <2>1, <2>2, SameRowsKept
<1>12. CASE CloseRoom(o)
  <2>1. RowsKept
    BY <1>12, SuppressKeeps DEF CloseRoom, close_room_for_control, RowsKept
  <2> QED
    BY <1>12, <2>1 DEF CloseRoom, Fenced, Current
<1> QED
  BY <1>1, <1>2, <1>3, <1>4, <1>5, <1>6, <1>7, <1>8, <1>9, <1>10, <1>11, <1>12 DEF Dispatch

(* A step of process_relays: what is sent next is pending, and the row that *)
(* is marked was.                                                           *)
LEMMA RelaysKeep ==
    ASSUME RelayInv, NEW o \in Owner, Relays(o)
    PROVE  RelayInv' /\ RowsKept
<1> USE DEF KeepRest, leaseVars, At, Goto
<1>1. ASSUME Local(o), RowsKept, relay' # relay => lease.owner = o,
             pc'[o] \in Releasing => Releases(o)'
      PROVE  RelayInv' /\ RowsKept
  <2>1. ASSUME NEW p \in Owner
        PROVE  IsMemory(mem'[p]) /\ (pc'[p] \in Releasing => Releases(p)')
    <3>1. CASE p = o
      BY <1>1, <3>1 DEF Local
    <3>2. CASE p # o
      BY <1>1, <3>2 DEF Local, RelayInv, Releases, pending_relays
    <3> QED
      BY <3>1, <3>2
  <2> QED
    BY <1>1, <2>1 DEF RelayInv, Local, RowsKept
<1>2. ASSUME NEW rows, rows \subseteq pending_relays \/ lease.owner # o, TakeRow(o, rows), work[o] = <<>>
      PROVE  RelayInv' /\ RowsKept
  <2>1. PICK r \in rows : mem' = [mem EXCEPT ![o].sending = r, ![o].batch = rows \ {r}]
    BY <1>2 DEF TakeRow
  <2>2. /\ pc' = [pc EXCEPT ![o] = "post"] /\ relay' = relay /\ work' = work /\ lease' = lease
    BY <1>2 DEF TakeRow, storeVars
  <2>3. /\ mem' = [p \in Owner |-> mem'[p]] /\ \A p \in Owner \ {o} : mem'[p] = mem[p]
        /\ IsMemory(mem'[o]) /\ mem'[o].sending = r /\ mem'[o].batch = rows \ {r}
    <3>1. mem' = [p \in Owner |-> mem'[p]] /\ \A p \in Owner \ {o} : mem'[p] = mem[p]
      BY <2>1 DEF RelayInv
    <3>2. mem[o] = [thread |-> mem[o].thread, active |-> mem[o].active, cur |-> mem[o].cur,
                    acc |-> mem[o].acc, now |-> mem[o].now, view |-> mem[o].view,
                    sending |-> mem[o].sending, batch |-> mem[o].batch]
      BY DEF RelayInv, IsMemory
    <3>3. mem'[o] = [mem[o] EXCEPT !.sending = r, !.batch = rows \ {r}]
      BY <2>1 DEF RelayInv
    <3>4. mem'[o] = [thread |-> mem[o].thread, active |-> mem[o].active, cur |-> mem[o].cur,
                     acc |-> mem[o].acc, now |-> mem[o].now, view |-> mem[o].view,
                     sending |-> r, batch |-> rows \ {r}]
      BY ONLY <3>2, <3>3
    <3> QED
      BY <3>1, <3>4 DEF IsMemory
  <2>4. Local(o) /\ mem'[o].sending = r /\ mem'[o].batch = rows \ {r} /\ pc'[o] = "post"
    BY <2>2, <2>3 DEF RelayInv, Local, Point
  <2>5. Releases(o)'
    BY <1>2, <2>2, <2>4 DEF Releases, pending_relays
  <2> QED
    BY <1>1, <2>2, <2>4, <2>5, SameRowsKept
<1>3. ASSUME NextRow(o), RowsKept, work' = work, lease' = lease, relay' # relay => lease.owner = o,
             pc[o] \in Releasing, mem[o].batch \subseteq pending_relays' \/ lease.owner # o
      PROVE  RelayInv' /\ RowsKept
  <2>1. /\ Local(o) /\ mem'[o].sending = NoRelay /\ mem'[o].batch = mem[o].batch
        /\ pc'[o] \in {"run", "batch"}
    <3>1. mem' = [mem EXCEPT ![o].sending = NoRelay] /\ \E p \in {"run", "batch"} : pc' = [pc EXCEPT ![o] = p]
      BY <1>3 DEF NextRow
    <3>2. mem' = [p \in Owner |-> mem'[p]] /\ (\A p \in Owner \ {o} : mem'[p] = mem[p]) /\ IsMemory(mem'[o])
      BY ONLY <3>1, RelayInv, OneField, o \in Owner DEF RelayInv
    <3>3. mem'[o] = [mem[o] EXCEPT !.sending = NoRelay] /\ IsMemory(mem[o])
      BY <3>1 DEF RelayInv
    <3>4. mem'[o].sending = NoRelay /\ mem'[o].batch = mem[o].batch
      BY ONLY <3>3 DEF IsMemory
    <3> QED
      BY <1>3, <3>1, <3>2, <3>4 DEF RelayInv, Local, Point
  <2>2. NoRelay \notin pending_relays'
    BY DEF NoRelay, pending_relays
  <2>3. Releases(o)'
    BY <1>3, <2>1, <2>2 DEF RelayInv, Releases
  <2> QED
    BY <1>1, <1>3, <2>1, <2>3
<1>4. CASE AssertLease(o)
  BY <1>2, <1>4 DEF AssertLease, RelayInv, Releases, Releasing
<1>5. CASE PostAccepted(o)
  <2>1. Local(o) /\ relay' = relay /\ pc'[o] = "mark" /\ pc[o] = "post" /\ mem' = mem /\ work' = work
    BY <1>5 DEF PostAccepted, RelayInv, Local, Point, storeVars
  <2>2. Releases(o)'
    BY <2>1 DEF RelayInv, Releases, Releasing, pending_relays, Local
  <2> QED
    BY <1>1, <2>1, <2>2, SameRowsKept
<1>6. CASE PostFailed(o)
  BY <1>3, <1>6, SameRowsKept DEF PostFailed, storeVars, RelayInv, Releases, Releasing, pending_relays
<1>7. CASE MarkRelay(o)
  <2>1. /\ pc[o] = "mark" /\ lease.owner = o /\ mark_relay_accepted(mem[o].sending) /\ NextRow(o)
        /\ work' = work /\ lease' = lease
    BY <1>7 DEF MarkRelay, RecordSent, Fenced, Current
  <2>2. /\ mem[o].sending \in pending_relays
        /\ mem[o].batch \subseteq pending_relays \ {mem[o].sending}
    BY <2>1 DEF RelayInv, Releases, Releasing
  <2>3. /\ \A r \in relay' : IsRow(r)
        /\ \A r, q \in relay' : r.op = q.op => r = q
        /\ \A r \in relay : r # mem[o].sending => r \in relay'
    BY <2>1, <2>2, MarkKeeps DEF RelayInv
  <2>4. RowsKept
    BY <2>2, <2>3 DEF RowsKept, pending_relays
  <2>5. mem[o].batch \subseteq pending_relays'
    BY <2>2, <2>3 DEF pending_relays
  <2> QED
    BY <1>3, <2>1, <2>4, <2>5 DEF Releasing
<1> QED
  BY <1>4, <1>5, <1>6, <1>7 DEF Relays

(* Every step keeps the invariant and the outcomes. *)
LEMMA RelayStep ==
    ASSUME RelayInv, [Next]_vars
    PROVE  RelayInv' /\ RowsKept
<1>1. ASSUME NEW o \in Owner, Steady(o)
      PROVE  RelayInv' /\ RowsKept
  BY <1>1, SteadyKeeps DEF Steady
<1>2. ASSUME NEW o \in Owner, AdapterStep(o), ~Start(o), ~Stale(o)
      PROVE  RelayInv' /\ RowsKept
  BY <1>1, <1>2, RecoverySteady, MessagesSteady, DispatchSteady, RelaysKeep DEF AdapterStep
<1>3. ASSUME NEW o \in Owner, Start(o)
      PROVE  RelayInv' /\ RowsKept
  <2>1. /\ pc' = [pc EXCEPT ![o] = "resume"] /\ relay' = relay /\ mem' = mem /\ work' = work
        /\ lease'.owner = o
    BY <1>3 DEF Start, Goto, claim_lease, storeVars
  <2> QED
    BY <2>1, SameRowsKept DEF RelayInv, Releases, Releasing, Point, pending_relays
<1>4. ASSUME NEW o \in Owner, Crash(o) \/ Stale(o)
      PROVE  RelayInv' /\ RowsKept
  <2>1. /\ pc' = [pc EXCEPT ![o] = "dead"] /\ relay' = relay /\ lease' = lease
        /\ mem' = [mem EXCEPT ![o] = NoMem] /\ work' = [work EXCEPT ![o] = <<>>]
    BY <1>4 DEF Crash, Stale, Leave, Goto, Die, storeVars
  <2>2. IsMemory(NoMem)
    BY DEF IsMemory, NoMem
  <2>3. Steady(o)
    BY <2>1, <2>2, SameRowsKept DEF RelayInv, Steady, Local, Point, Releasing
  <2> QED
    BY <1>1, <2>3
<1>5. ASSUME relay' = relay, pc' = pc, mem' = mem, work' = work, lease'.owner = lease.owner
      PROVE  RelayInv' /\ RowsKept
  BY <1>5, SameRowsKept DEF RelayInv, Releases, pending_relays
<1>6. CASE Stall
  <2>1. lease'.owner = lease.owner
    BY <1>6, SMTT(40) DEF Stall, Tick
  <2> QED
    BY <1>5, <1>6, <2>1 DEF Stall, storeVars, adapterVars
<1>7. CASE CodexStep
  BY <1>5, <1>7 DEF CodexStep, CodexItem, CodexPersist, CodexFinish, CodexDrop,
     CodexRollOver, LoseThread, KeepAdapter, storeVars, leaseVars
<1>8. CASE \E a \in Attention : Elapsed(a)
  BY <1>5, <1>8 DEF Elapsed, BackoffElapsed, adapterVars, leaseVars
<1>9. ASSUME NEW o \in Owner, Ingest(o)
      PROVE  RelayInv' /\ RowsKept
  BY <1>5, <1>9 DEF Ingest, ingest_inbox, KeepRest, leaseVars
<1>10. ASSUME NEW o \in Owner, reconcile_active_turn(o)
       PROVE  RelayInv' /\ RowsKept
  <2>1. relay' = relay
    BY <1>10 DEF reconcile_active_turn, requeue_missing_turn, storeVars
  <2>2. /\ work' = work \/ \E w : work' = [work EXCEPT ![o] = w]
        /\ mem' = mem \/ mem' = [mem EXCEPT ![o].active = 0]
        /\ pc' = pc /\ pc[o] = "run" /\ lease' = lease
    BY <1>10 DEF reconcile_active_turn, ReplayFinished, KeepRest, leaseVars, At
  <2>3. Steady(o)
    BY <2>1, <2>2, SameRowsKept DEF RelayInv, Steady, Local, IsMemory, Releasing
  <2> QED
    BY <1>1, <2>3
<1>11. CASE UNCHANGED vars
  BY <1>5, <1>11 DEF vars, storeVars, adapterVars, leaseVars
<1> QED
  BY <1>2, <1>3, <1>4, <1>6, <1>7, <1>8, <1>9, <1>10, <1>11 DEF Next

(* One row per operation, and a process that holds the lease releases only  *)
(* what is still pending, in every reachable state.                         *)
THEOREM RelayInvariant == Spec => []RelayInv
<1>1. Init => RelayInv
  <2> SUFFICES ASSUME Init PROVE RelayInv
    OBVIOUS
  <2>1. \A o \in Owner : IsMemory(mem[o])
    <3>1. IsMemory(NoMem)
      BY DEF IsMemory, NoMem
    <3> QED
      BY <3>1 DEF Init
  <2>2. relay = {} /\ \A o \in Owner : pc[o] \notin Releasing
    BY DEF Init, StoreInit, Releasing
  <2> QED
    BY <2>1, <2>2 DEF Init, RelayInv, Point
<1> QED
  BY <1>1, RelayStep, PTL DEF Spec

(* The outcome of a relay is final: suppressed output is never sent later   *)
(* and sent output keeps its record, whichever process lost its lease       *)
(* between the post and the bookkeeping.                                    *)
THEOREM OutcomesAreFinal == Spec => RelayOutcomeIsFinal
<1>1. RelayInv /\ [Next]_vars =>
        [\A r \in relay : r.status \in {"suppressed", "accepted"} => r \in relay']_vars
  BY RelayStep DEF RowsKept
<1> QED
  BY <1>1, RelayInvariant, PTL DEF Spec, RelayOutcomeIsFinal

(* A set of natural numbers has a least element. *)
LEMMA LeastOf ==
    ASSUME NEW N, N \subseteq Nat, N # {}
    PROVE  \E x \in N : \A y \in N : x <= y
<1> DEFINE R == OpToRel(<, Nat)
<1>1. IsWellFoundedOn(R, Nat)
  BY NatLessThanWellFounded
<1>2. \A x, y \in Nat : <<x, y>> \in R <=> x < y
  BY DEF OpToRel
<1> HIDE DEF R
<1>3. PICK x \in N : \A y \in N : ~(<<y, x>> \in R)
  BY <1>1, WFMin
<1>4. ASSUME NEW y \in N PROVE x <= y
  <2>1. x \in Nat /\ y \in Nat /\ ~(<<y, x>> \in R)
    BY <1>3
  <2> QED
    BY <1>2, <2>1
<1> QED
  BY <1>3, <1>4

(* The first and the last turn of a set are in the set. *)
LEMMA FirstIn ==
    ASSUME NEW S, S \subseteq Turn, S # {}
    PROVE  First(S) \in S
<1>1. S \subseteq Nat
  BY DEF Turn
<1>2. \E x \in S : \A y \in S : x <= y
  BY <1>1, LeastOf
<1> QED
  BY <1>2 DEF First

(* The last turn of a set is in the set. *)
LEMMA LastIn ==
    ASSUME NEW S, S \subseteq Turn, S # {}
    PROVE  Last(S) \in S
<1> DEFINE N == {n \in Nat : \A y \in S : y <= n}
<1>0. MaxTurn \in Nat /\ \A y \in S : y \in Nat /\ y > 0 /\ y <= MaxTurn
  BY BoundAssumption DEF Turn
<1>1. N \subseteq Nat /\ MaxTurn \in N
  BY <1>0
<1>2. PICK n \in N : \A m \in N : n <= m
  BY <1>1, LeastOf
<1>3. n \in S
  <2>1. PICK s \in S : TRUE
    OBVIOUS
  <2>2. SUFFICES ASSUME n \notin S PROVE FALSE
    OBVIOUS
  <2>3. n \in Nat /\ n > 0
    BY <1>0, <1>2, <2>1
  <2>4. n - 1 \in N
    BY <1>0, <1>2, <2>2, <2>3
  <2> QED
    BY <1>2, <2>3, <2>4
<1>4. \A y \in S : y <= n
  BY <1>2
<1> QED
  BY <1>3, <1>4 DEF Last

(* What the recursion of FlattenSeq computes by. *)
IsFlattening(f, s, N) == f = [i \in 1..N |-> IF i = 1 THEN s[i] ELSE f[i-1] \o s[i]]

(* FlattenSeq of a nonempty sequence is the last value of its recursion. *)
LEMMA FlattenUnfolds ==
    ASSUME NEW s, Len(s) # 0
    PROVE  Seqs!FlattenSeq(s) = (CHOOSE f : IsFlattening(f, s, Len(s)))[Len(s)]
  BY DEF Seqs!FlattenSeq, IsFlattening

(* That recursion has a solution for every sequence of sequences. *)
LEMMA FlattenExists ==
    ASSUME NEW S, NEW N \in Nat, NEW s \in [1..N -> Seq(S)]
    PROVE  \E f : IsFlattening(f, s, N)
<1> DEFINE Good(n) == \E f : IsFlattening(f, s, n)
           Bad == {n \in 0..N : ~Good(n)}
<1>1. SUFFICES Bad = {}
  OBVIOUS
<1>2. SUFFICES ASSUME Bad # {} PROVE FALSE
  OBVIOUS
<1> HIDE DEF Good
<1>3. PICK n \in Bad : \A m \in Bad : n <= m
  <2>1. Bad \subseteq Nat
    OBVIOUS
  <2> HIDE DEF Bad
  <2> QED
    BY <1>2, <2>1, LeastOf
<1> USE DEF Good
<1>4. CASE n = 0
  <2>1. IsFlattening(<<>>, s, 0)
    BY DEF IsFlattening
  <2> QED
    BY <1>4, <2>1
<1>5. CASE n # 0
  <2>1. n \in Nat /\ n - 1 \in 0..N /\ n <= N /\ n > 0
    BY <1>5
  <2>2. n - 1 \notin Bad
    BY <1>3, <2>1
  <2>3. PICK f : IsFlattening(f, s, n - 1)
    BY <2>1, <2>2
  <2> DEFINE g == [i \in 1..n |-> IF i = n THEN IF i = 1 THEN s[i] ELSE f[i-1] \o s[i] ELSE f[i]]
  <2>4. ASSUME NEW i \in 1..n PROVE g[i] = IF i = 1 THEN s[i] ELSE g[i-1] \o s[i]
    <3>1. CASE i = n
      BY <2>1, <3>1
    <3>2. CASE i # n
      <4>1. i \in 1..(n-1) /\ g[i] = f[i] /\ (i # 1 => g[i-1] = f[i-1])
        BY <2>1, <3>2
      <4>2. f[i] = IF i = 1 THEN s[i] ELSE f[i-1] \o s[i]
        BY <2>3, <4>1 DEF IsFlattening
      <4> QED
        BY <4>1, <4>2
    <3> QED
      BY <3>1, <3>2
  <2>5. IsFlattening(g, s, n)
    <3> DEFINE h == [i \in 1..n |-> IF i = 1 THEN s[i] ELSE g[i-1] \o s[i]]
    <3>1. \A i \in 1..n : g[i] = h[i]
      BY <2>4
    <3>2. g = [i \in 1..n |-> g[i]] /\ h = [i \in 1..n |-> h[i]]
      OBVIOUS
    <3>3. g = h
      BY <3>1, <3>2
    <3> QED
      BY <3>3 DEF IsFlattening
  <2> QED
    BY <2>5
<1> QED
  BY <1>4, <1>5

(* Flattening sequences over S gives a sequence over S: the replay of several *)
(* turns is a queue of messages.                                              *)
LEMMA Flattened ==
    ASSUME NEW S, NEW N \in Nat, NEW s \in [1..N -> Seq(S)]
    PROVE  Seqs!FlattenSeq(s) \in Seq(S)
<1>0. s \in Seq(Seq(S)) /\ Len(s) = N
  OBVIOUS
<1>1. CASE N = 0
  <2>1. s = <<>>
    BY <1>0, <1>1
  <2> QED
    BY <1>0, <1>1, <2>1 DEF Seqs!FlattenSeq
<1>2. CASE N # 0
  <2>1. PICK f : Seqs!FlattenSeq(s) = f[N] /\ IsFlattening(f, s, N)
    BY <1>0, <1>2, FlattenUnfolds, FlattenExists
  <2> DEFINE Bad == {n \in 1..N : f[n] \notin Seq(S)}
  <2>2. SUFFICES ASSUME f[N] \notin Seq(S) PROVE FALSE
    BY <2>1
  <2>20. N \in Bad /\ Bad \subseteq Nat
    BY <1>2, <2>2
  <2>3. PICK n \in Bad : \A m \in Bad : n <= m
    BY <2>20, LeastOf
  <2>4. f[n] = IF n = 1 THEN s[n] ELSE f[n-1] \o s[n]
    BY <2>1 DEF IsFlattening
  <2>5. CASE n = 1
    BY <2>4, <2>5
  <2>6. CASE n # 1
    <3>1. n - 1 \in 1..N /\ n - 1 < n
      BY <2>6
    <3>2. f[n-1] \in Seq(S) /\ s[n] \in Seq(S)
      BY <2>3, <3>1
    <3>3. f[n-1] \o s[n] \in Seq(S)
      BY ONLY <3>2
    <3> QED
      BY <2>4, <2>6, <3>3
  <2> QED
    BY <2>5, <2>6
<1> QED
  BY <1>1, <1>2

-----------------------------------------------------------------------------
(* Codex *)

(* The statuses a rollout can hold. *)
Recorded == {"inProgress", "completed", "failed", "interrupted"}

(* A history within its bound; what does not come from an attention has the *)
(* phase of an agent message.                                               *)
History == {h \in Seq(Entry) : /\ Len(h) <= MaxItem
                               /\ \A i \in 1..Len(h) : h[i].from = 0 => h[i].phase \in Phase}

(* What the adapter may rely on of Codex: the rollout of a running turn     *)
(* exists, a turn that runs is in progress, a durable one has a recorded    *)
(* status, and a server runs at most one turn of a thread.                  *)
CodexInv ==
    /\ codex \in [Turn -> CodexTurn]
    /\ \A t \in Turn : codex[t].hist \in History
    /\ gone \subseteq Thread
    /\ \A t \in Turn :
          /\ Live(t) => /\ codex[t].thread # 0 /\ codex[t].thread \notin gone
                        /\ codex[t].status = "inProgress"
          /\ codex[t].durable => codex[t].status \in Recorded
    /\ \A t, u \in Turn :
          Live(t) /\ codex[u].srv = codex[t].srv /\ codex[u].thread = codex[t].thread => t = u

(* A turn that was started keeps its thread, its history and its stop       *)
(* request, stays with its server, and does not run again once it has       *)
(* ended; only o's server may take up a turn.                               *)
Continued(t) ==
    /\ codex'[t].thread = codex[t].thread
    /\ codex[t].stop => codex'[t].stop
    /\ ~Live(t) => ~Live(t)'
    /\ codex'[t].srv \in {codex[t].srv, NoOwner}
    /\ Len(codex[t].hist) <= Len(codex'[t].hist)
    /\ \A i \in 1..Len(codex[t].hist) : codex'[t].hist[i] = codex[t].hist[i]

(* A step of Codex in which only the server of o may take up a turn. *)
CodexGrows(o) ==
    /\ \A t \in Turn : codex[t].thread # 0 => Continued(t)
    /\ \A t \in Turn : codex'[t].srv \in {codex[t].srv, NoOwner, o}

(* Codex at rest satisfies both. *)
LEMMA CodexSame ==
    ASSUME CodexInv, codex' = codex, gone' = gone, NEW o
    PROVE  CodexInv' /\ CodexGrows(o)
  BY DEF CodexInv, CodexGrows, Continued, Live, CodexTurn

(* A turn/start on an idle server of a living thread starts one new turn. *)
LEMMA CodexNew ==
    ASSUME CodexInv, NEW o \in Owner, NEW t \in Turn, NEW h \in History, NewTurn(o, t, h), gone' = gone,
           mem[o].thread \in Thread \ gone, IdleServer(o, mem[o].thread)
    PROVE  CodexInv' /\ CodexGrows(o)
<1> DEFINE n == [thread |-> mem[o].thread, durable |-> FALSE, status |-> "inProgress",
                 stop |-> FALSE, srv |-> o, hist |-> h]
<1>1. codex' = [codex EXCEPT ![t] = n] /\ codex[t].thread = 0 /\ mem[o].thread # 0
  BY BoundAssumption DEF NewTurn, Thread
<1>2. n \in CodexTurn /\ n.hist \in History
  BY DEF CodexTurn, History
<1>3. codex'[t] = n /\ \A u \in Turn \ {t} : codex'[u] = codex[u]
  BY <1>1 DEF CodexInv
<1>4. codex' \in [Turn -> CodexTurn] /\ \A u \in Turn : codex'[u].hist \in History
  BY <1>1, <1>2, <1>3 DEF CodexInv
<1>5. ASSUME NEW u \in Turn
      PROVE  /\ Live(u)' => /\ codex'[u].thread # 0 /\ codex'[u].thread \notin gone
                            /\ codex'[u].status = "inProgress"
             /\ codex'[u].durable => codex'[u].status \in Recorded
  BY <1>1, <1>3 DEF CodexInv, Live
<1>6. ASSUME NEW u \in Turn, NEW v \in Turn, Live(u)', codex'[v].srv = codex'[u].srv,
             codex'[v].thread = codex'[u].thread
      PROVE  u = v
  BY <1>1, <1>3, <1>6 DEF CodexInv, Live, IdleServer
<1>7. CodexInv'
  BY <1>4, <1>5, <1>6 DEF CodexInv
<1>8. CodexGrows(o)
  BY <1>1, <1>3 DEF CodexInv, CodexGrows, Continued, Live, CodexTurn
<1> QED
  BY <1>7, <1>8

(* A turn is kept, continued or ended. *)
Rewritten(t, n) ==
    /\ n \in CodexTurn /\ n.hist \in History
    /\ n.thread = codex[t].thread /\ (codex[t].stop => n.stop)
    /\ n.srv \in {codex[t].srv, NoOwner} /\ (n.srv # NoOwner => n.status = "inProgress")
    /\ n.durable => n.status \in Recorded
    /\ Len(codex[t].hist) <= Len(n.hist)
    /\ \A i \in 1..Len(codex[t].hist) : n.hist[i] = codex[t].hist[i]

(* A turn that is not written is kept. *)
LEMMA RewrittenSame ==
    ASSUME CodexInv, NEW t \in Turn
    PROVE  Rewritten(t, codex[t])
<1>1. Len(codex[t].hist) \in Nat
  BY DEF CodexInv, CodexTurn
<1> QED
  BY <1>1 DEF CodexInv, Rewritten, Live

(* The turns of codex are kept, continued or ended. *)
LEMMA CodexRows ==
    ASSUME CodexInv, NEW o, gone' = gone, codex' = [t \in Turn |-> codex'[t]],
           \A t \in Turn : Rewritten(t, codex'[t])
    PROVE  CodexInv' /\ CodexGrows(o)
<1>4. codex' \in [Turn -> CodexTurn] /\ \A u \in Turn : codex'[u].hist \in History
  BY DEF Rewritten
<1>5. ASSUME NEW u \in Turn
      PROVE  /\ Live(u)' => Live(u) /\ codex'[u].srv = codex[u].srv
             /\ codex'[u].thread = codex[u].thread
             /\ Live(u)' => codex'[u].status = "inProgress"
             /\ codex'[u].durable => codex'[u].status \in Recorded
  BY DEF Rewritten, Live
<1>7. CodexInv'
  <2>1. ASSUME NEW u \in Turn, NEW v \in Turn, Live(u)', codex'[v].srv = codex'[u].srv,
               codex'[v].thread = codex'[u].thread
        PROVE  u = v
    <3>1. codex'[v].srv = codex[v].srv
      BY <1>5, <2>1 DEF Live
    <3> QED
      BY <1>5, <2>1, <3>1, ZenonT(60) DEF CodexInv
  <2> QED
    BY <1>4, <1>5, <2>1 DEF CodexInv
<1>8. CodexGrows(o)
  <2>1. ASSUME NEW u \in Turn PROVE Continued(u)
    BY <1>5 DEF Rewritten, Continued
  <2> QED
    BY <2>1 DEF Rewritten, CodexGrows
<1> QED
  BY <1>7, <1>8

(* One turn of Codex is rewritten, the others are not. *)
LEMMA CodexRow ==
    ASSUME CodexInv, NEW o, NEW t \in Turn, gone' = gone, NEW n,
           codex' = [codex EXCEPT ![t] = n], Rewritten(t, n)
    PROVE  CodexInv' /\ CodexGrows(o) /\ codex'[t] = n /\ \A u \in Turn \ {t} : codex'[u] = codex[u]
<1>1. codex' = [u \in Turn |-> codex'[u]] /\ codex'[t] = n /\ \A u \in Turn \ {t} : codex'[u] = codex[u]
  BY DEF CodexInv
<1>2. \A u \in Turn : Rewritten(u, codex'[u])
  BY <1>1, RewrittenSame
<1> QED
  BY <1>1, <1>2, CodexRows

(* A turn of codex, field by field. *)
IsTurn(c) == c = [thread |-> c.thread, durable |-> c.durable, status |-> c.status,
                  stop |-> c.stop, srv |-> c.srv, hist |-> c.hist]

(* A written field of a turn is that field alone. *)
LEMMA TurnFields ==
    ASSUME NEW c, IsTurn(c), NEW v, NEW w, NEW x
    PROVE  /\ [c EXCEPT !.stop = v] = [thread |-> c.thread, durable |-> c.durable, status |-> c.status,
                                       stop |-> v, srv |-> c.srv, hist |-> c.hist]
           /\ [c EXCEPT !.durable = v] = [thread |-> c.thread, durable |-> v, status |-> c.status,
                                       stop |-> c.stop, srv |-> c.srv, hist |-> c.hist]
           /\ [c EXCEPT !.hist = v] = [thread |-> c.thread, durable |-> c.durable, status |-> c.status,
                                       stop |-> c.stop, srv |-> c.srv, hist |-> v]
<1>1. [c EXCEPT !.stop = v] = [thread |-> c.thread, durable |-> c.durable, status |-> c.status,
                               stop |-> v, srv |-> c.srv, hist |-> c.hist]
  BY DEF IsTurn
<1>2. [c EXCEPT !.durable = v] = [thread |-> c.thread, durable |-> v, status |-> c.status,
                                  stop |-> c.stop, srv |-> c.srv, hist |-> c.hist]
  BY DEF IsTurn
<1>3. [c EXCEPT !.hist = v] = [thread |-> c.thread, durable |-> c.durable, status |-> c.status,
                               stop |-> c.stop, srv |-> c.srv, hist |-> v]
  BY DEF IsTurn
<1> QED
  BY <1>1, <1>2, <1>3

(* The turns of codex are records. *)
LEMMA TurnIs ==
    ASSUME CodexInv, NEW t \in Turn
    PROVE  IsTurn(codex[t])
  BY DEF CodexInv, CodexTurn, IsTurn

(* A record of the right fields that continues a turn. *)
LEMMA RewrittenRecord ==
    ASSUME CodexInv, NEW t \in Turn, NEW d \in BOOLEAN, NEW st \in BOOLEAN, NEW s, NEW v, NEW h \in History,
           codex[t].stop => st, v \in {codex[t].srv, NoOwner}, v # NoOwner => s = "inProgress",
           s \in Recorded \/ (s = "lost" /\ ~d) \/ (s = codex[t].status /\ d = codex[t].durable),
           Len(codex[t].hist) <= Len(h),
           \A i \in 1..Len(codex[t].hist) : h[i] = codex[t].hist[i]
    PROVE  Rewritten(t, [thread |-> codex[t].thread, durable |-> d, status |-> s,
                         stop |-> st, srv |-> v, hist |-> h])
<1> DEFINE n == [thread |-> codex[t].thread, durable |-> d, status |-> s, stop |-> st, srv |-> v, hist |-> h]
<1>0. codex[t] \in CodexTurn
  BY DEF CodexInv
<1>1. n.thread = codex[t].thread /\ n.durable = d /\ n.status = s /\ n.stop = st /\ n.srv = v /\ n.hist = h
  OBVIOUS
<1>2. n \in CodexTurn
  BY <1>0 DEF CodexTurn, Recorded, History
<1>3. d => s \in Recorded
  BY DEF CodexInv
<1> HIDE DEF n
<1>4. Rewritten(t, n)
  BY <1>1, <1>2, <1>3 DEF Rewritten
<1> QED
  BY <1>4 DEF n

(* An entry appended within the bound gives a history with the old one as its *)
(* prefix.                                                                    *)
LEMMA HistoryAppend ==
    ASSUME NEW h \in History, NEW e \in Entry, Len(h) < MaxItem, e.from = 0 => e.phase \in Phase
    PROVE  /\ Append(h, e) \in History /\ Len(h) <= Len(Append(h, e))
           /\ \A i \in 1..Len(h) : Append(h, e)[i] = h[i]
<1> DEFINE n == Append(h, e)
<1>1. h \in Seq(Entry) /\ Len(h) \in Nat /\ MaxItem \in Nat
  BY BoundAssumption DEF History
<1>2. n \in Seq(Entry) /\ Len(n) = Len(h) + 1 /\ n[Len(h) + 1] = e /\ \A i \in 1..Len(h) : n[i] = h[i]
  BY ONLY <1>1, e \in Entry
<1> HIDE DEF n
<1>3. ASSUME NEW i \in 1..Len(n), n[i].from = 0 PROVE n[i].phase \in Phase
  <2>1. CASE i = Len(h) + 1
    BY <1>2, <1>3, <2>1
  <2>2. CASE i # Len(h) + 1
    BY <1>1, <1>2, <1>3, <2>2 DEF History
  <2> QED
    BY <2>1, <2>2
<1>4. n \in History /\ Len(h) <= Len(n)
  BY <1>1, <1>2, <1>3 DEF History
<1> QED
  BY <1>2, <1>4 DEF n

(* An item appended to a running turn: the history of that turn grows by it. *)
LEMMA CodexAppend ==
    ASSUME CodexInv, NEW o, NEW t \in Turn, NEW e \in Entry, gone' = gone,
           Len(codex[t].hist) < MaxItem, e.from = 0 => e.phase \in Phase,
           codex' = [codex EXCEPT ![t].hist = Append(@, e)]
    PROVE  /\ CodexInv' /\ CodexGrows(o)
           /\ codex'[t].hist = Append(codex[t].hist, e)
           /\ \A u \in Turn : codex'[u].srv = codex[u].srv
<1> DEFINE c == codex[t]
           n == [thread |-> c.thread, durable |-> c.durable, status |-> c.status,
                 stop |-> c.stop, srv |-> c.srv, hist |-> Append(c.hist, e)]
<1>1. c.hist \in History /\ c.hist \in Seq(Entry) /\ c.stop \in BOOLEAN /\ c.durable \in BOOLEAN
  BY DEF CodexInv, CodexTurn
<1>2. Append(c.hist, e) \in History /\ Len(c.hist) <= Len(Append(c.hist, e))
      /\ \A i \in 1..Len(c.hist) : Append(c.hist, e)[i] = c.hist[i]
  BY ONLY <1>1, HistoryAppend, e \in Entry, Len(c.hist) < MaxItem, e.from = 0 => e.phase \in Phase
<1>3. [c EXCEPT !.hist = Append(c.hist, e)] = n
  BY ONLY TurnFields, TurnIs, CodexInv, t \in Turn
<1>4. codex' = [codex EXCEPT ![t] = n]
  BY <1>3
<1>5. c.srv # NoOwner => c.status = "inProgress"
  BY DEF CodexInv, Live
<1>6. Rewritten(t, n)
  BY <1>1, <1>2, <1>5, RewrittenRecord
<1>7. n.hist = Append(c.hist, e) /\ n.srv = c.srv
  OBVIOUS
<1> HIDE DEF n
<1> QED
  BY <1>4, <1>6, <1>7, CodexRow

(* One field of one turn. *)
LEMMA NestedWrite ==
    ASSUME NEW f, NEW t, NEW n, NEW g, NEW v
    PROVE  /\ g = [f EXCEPT ![t].stop = v] /\ [f[t] EXCEPT !.stop = v] = n => g = [f EXCEPT ![t] = n]
           /\ g = [f EXCEPT ![t].durable = v] /\ [f[t] EXCEPT !.durable = v] = n => g = [f EXCEPT ![t] = n]
  BY Zenon

(* A turn that is asked to stop is otherwise the same. *)
LEMMA StopWritten ==
    ASSUME CodexInv, NEW t \in Turn, NEW y \in BOOLEAN, y
    PROVE  Rewritten(t, [codex[t] EXCEPT !.stop = y]) /\ [codex[t] EXCEPT !.stop = y].stop = y
<1> DEFINE c == codex[t]
           n == [thread |-> c.thread, durable |-> c.durable, status |-> c.status,
                 stop |-> y, srv |-> c.srv, hist |-> c.hist]
<1>1. c.hist \in History /\ c.durable \in BOOLEAN /\ Len(c.hist) \in Nat
  BY DEF CodexInv, CodexTurn
<1>2. c.srv # NoOwner => c.status = "inProgress"
  BY DEF CodexInv, Live
<1>3. Rewritten(t, n)
  <2>1. /\ codex[t].stop => y
        /\ c.srv \in {codex[t].srv, NoOwner}
        /\ c.status = codex[t].status /\ c.durable = codex[t].durable
        /\ \A i \in 1..Len(codex[t].hist) : c.hist[i] = codex[t].hist[i]
    OBVIOUS
  <2>2. Len(codex[t].hist) <= Len(c.hist)
    BY <1>1
  <2> QED
    BY ONLY CodexInv, t \in Turn, y \in BOOLEAN, <1>1, <1>2, <2>1, <2>2, RewrittenRecord
<1>4. [c EXCEPT !.stop = y] = n
  BY ONLY TurnFields, TurnIs, CodexInv, t \in Turn
<1>5. n.stop = y
  OBVIOUS
<1> HIDE DEF n
<1> QED
  BY <1>3, <1>4, <1>5

(* turn/interrupt only sets the stop request of its turn. *)
LEMMA CodexStop ==
    ASSUME CodexInv, NEW o, NEW t \in Turn, gone' = gone,
           codex' = [codex EXCEPT ![t].stop = TRUE]
    PROVE  CodexInv' /\ CodexGrows(o) /\ codex'[t].stop
<1>1. Rewritten(t, [codex[t] EXCEPT !.stop = TRUE]) /\ [codex[t] EXCEPT !.stop = TRUE].stop = TRUE
  BY ONLY CodexInv, t \in Turn, StopWritten, Zenon
<1>2. codex' = [codex EXCEPT ![t] = [codex[t] EXCEPT !.stop = TRUE]]
  BY Zenon
<1> DEFINE n == [codex[t] EXCEPT !.stop = TRUE]
<1> HIDE DEF n
<1>3. Rewritten(t, n) /\ n.stop
  BY ONLY <1>1, Zenon DEF n
<1>4. codex' = [codex EXCEPT ![t] = n]
  BY ONLY <1>2, Zenon DEF n
<1> QED
  BY ONLY CodexInv, t \in Turn, gone' = gone, <1>3, <1>4, CodexRow, Zenon

(* Codex may write the rollout of a running turn at any time. *)
LEMMA CodexPersists ==
    ASSUME CodexInv, NEW o, NEW t \in Turn, gone' = gone, Live(t),
           codex' = [codex EXCEPT ![t].durable = TRUE]
    PROVE  CodexInv' /\ CodexGrows(o)
<1> DEFINE c == codex[t]
           n(y) == [thread |-> c.thread, durable |-> y, status |-> c.status,
                    stop |-> c.stop, srv |-> c.srv, hist |-> c.hist]
<1>1. c.hist \in History /\ c.stop \in BOOLEAN /\ Len(c.hist) \in Nat
  BY DEF CodexInv, CodexTurn
<1>5. c.status \in Recorded /\ c.status = "inProgress"
  BY DEF CodexInv, Recorded
<1>6. ASSUME NEW y \in BOOLEAN PROVE Rewritten(t, n(y))
  BY <1>1, <1>5, RewrittenRecord
<1>3. [c EXCEPT !.durable = TRUE] = n(TRUE)
  BY ONLY TurnFields, TurnIs, CodexInv, t \in Turn, Zenon
<1> HIDE DEF n
<1>4. codex' = [codex EXCEPT ![t] = n(TRUE)]
  BY <1>3, NestedWrite, Zenon
<1> QED
  BY <1>4, <1>6, CodexRow, Zenon

(* A turn that ends keeps its thread and history and leaves its server. *)
LEMMA EndWritten ==
    ASSUME CodexInv, NEW t \in Turn, NEW y \in BOOLEAN, NEW s, s \in Recorded \/ (s = "lost" /\ ~y),
           NEW n,
           \/ n = [codex[t] EXCEPT !.status = s, !.srv = NoOwner, !.durable = y]
           \/ n = [codex[t] EXCEPT !.srv = NoOwner, !.status = s] /\ y = codex[t].durable
           \/ n = [codex[t] EXCEPT !.status = s, !.srv = NoOwner] /\ y = codex[t].durable
    PROVE  Rewritten(t, n) /\ n.srv = NoOwner
<1> DEFINE c == codex[t]
           r == [thread |-> c.thread, durable |-> y, status |-> s,
                 stop |-> c.stop, srv |-> NoOwner, hist |-> c.hist]
<1>1. c.hist \in History /\ c.stop \in BOOLEAN /\ Len(c.hist) \in Nat
  BY ONLY CodexInv, t \in Turn DEF CodexInv, CodexTurn
<1>2. Rewritten(t, r)
  BY <1>1, RewrittenRecord
<1>3. n = r
  <2>1. IsTurn(c)
    BY TurnIs
  <2>2. CASE n = [c EXCEPT !.status = s, !.srv = NoOwner, !.durable = y]
    BY ONLY <2>1, <2>2 DEF IsTurn
  <2>3. CASE n = [c EXCEPT !.srv = NoOwner, !.status = s] /\ y = c.durable
    BY ONLY <2>1, <2>3 DEF IsTurn
  <2>4. CASE n = [c EXCEPT !.status = s, !.srv = NoOwner] /\ y = c.durable
    BY ONLY <2>1, <2>4 DEF IsTurn
  <2> QED
    BY <2>2, <2>3, <2>4
<1>4. r.srv = NoOwner
  OBVIOUS
<1> HIDE DEF r
<1> QED
  BY <1>2, <1>3, <1>4

(* A turn that finishes is durable and no longer runs. *)
LEMMA CodexFinishes ==
    ASSUME CodexInv, NEW o, NEW t \in Turn, gone' = gone, NEW s \in Recorded,
           codex' = [codex EXCEPT ![t].status = s, ![t].srv = NoOwner, ![t].durable = TRUE]
    PROVE  CodexInv' /\ CodexGrows(o) /\ ~Live(t)'
<1>1. \A y \in BOOLEAN : Rewritten(t, [codex[t] EXCEPT !.status = s, !.srv = NoOwner, !.durable = y])
                 /\ [codex[t] EXCEPT !.status = s, !.srv = NoOwner, !.durable = y].srv = NoOwner
  BY ONLY CodexInv, t \in Turn, s \in Recorded, EndWritten, ZenonT(30)
<1>2. codex' = [codex EXCEPT ![t] = [codex[t] EXCEPT !.status = s, !.srv = NoOwner, !.durable = TRUE]]
  BY Zenon
<1> DEFINE n == [codex[t] EXCEPT !.status = s, !.srv = NoOwner, !.durable = TRUE]
<1>3. Rewritten(t, n) /\ n.srv = NoOwner
  BY ONLY <1>1, Zenon
<1> HIDE DEF n
<1>4. codex' = [codex EXCEPT ![t] = n]
  BY ONLY <1>2, Zenon DEF n
<1>6. CodexInv' /\ CodexGrows(o) /\ codex'[t] = n
  BY ONLY CodexInv, t \in Turn, gone' = gone, <1>3, <1>4, CodexRow, Zenon
<1> QED
  BY ONLY <1>3, <1>6, Zenon DEF Live

(* A turn that was never durable can be lost with its server. *)
LEMMA CodexDrops ==
    ASSUME CodexInv, NEW o, NEW t \in Turn, gone' = gone, ~codex[t].durable,
           codex' = [codex EXCEPT ![t].status = "lost", ![t].srv = NoOwner]
    PROVE  CodexInv' /\ CodexGrows(o)
<1> DEFINE n == [codex[t] EXCEPT !.status = "lost", !.srv = NoOwner]
<1>1. codex[t].durable \in BOOLEAN
  BY DEF CodexInv, CodexTurn
<1>2. Rewritten(t, n)
  BY ONLY CodexInv, t \in Turn, ~codex[t].durable, <1>1, EndWritten, ZenonT(30)
<1>3. codex' = [codex EXCEPT ![t] = n]
  BY Zenon
<1> HIDE DEF n
<1> QED
  BY <1>2, <1>3, CodexRow

(* The turns of a server that exits stop running; those without a rollout are *)
(* lost.                                                                      *)
LEMMA CodexAbandoned ==
    ASSUME CodexInv, NEW o \in Owner, gone' = gone, AbandonTurns(o)
    PROVE  CodexInv' /\ CodexGrows(o) /\ \A t \in Turn : codex'[t].srv # o
<1>1. PICK ended : codex' = [t \in Turn |->
            IF codex[t].srv # o THEN codex[t]
            ELSE [codex[t] EXCEPT !.srv = NoOwner,
                                  !.status = IF ~codex[t].durable THEN "lost"
                                             ELSE IF t \in ended THEN "interrupted"
                                             ELSE "inProgress"]]
  BY DEF AbandonTurns
<1>2. ASSUME NEW t \in Turn PROVE Rewritten(t, codex'[t]) /\ codex'[t].srv # o
  <2>1. CASE codex[t].srv # o
    BY <1>1, <2>1, RewrittenSame
  <2>2. CASE codex[t].srv = o
    <3> DEFINE c == codex[t]
               s == IF ~c.durable THEN "lost" ELSE IF t \in ended THEN "interrupted" ELSE "inProgress"
    <3>1. codex'[t] = [c EXCEPT !.srv = NoOwner, !.status = s]
      BY <1>1, <2>2
    <3>2. c.hist \in History /\ c.stop \in BOOLEAN /\ c.durable \in BOOLEAN /\ Len(c.hist) \in Nat
      BY DEF CodexInv, CodexTurn
    <3>3. s \in Recorded \/ (s = "lost" /\ ~c.durable)
      BY <3>2 DEF Recorded
    <3> HIDE DEF s
    <3> DEFINE n == codex'[t]
    <3>n. n = [codex[t] EXCEPT !.srv = NoOwner, !.status = s] /\ c.durable = codex[t].durable
      BY ONLY <3>1
    <3> HIDE DEF n, c
    <3>4. Rewritten(t, n) /\ n.srv = NoOwner
      BY ONLY CodexInv, t \in Turn, <3>n, <3>2, <3>3, EndWritten, ZenonT(30)
    <3> QED
      BY <3>4, NoOwnerAssumption DEF n
  <2> QED
    BY <2>1, <2>2
<1>3. codex' = [t \in Turn |-> codex'[t]]
  BY <1>1
<1> QED
  BY <1>2, <1>3, CodexRows, SMTT(40)

(* A thread whose rollout is deleted has no running turn. *)
LEMMA CodexLosesThread ==
    ASSUME CodexInv, NEW o, NEW th \in Thread, LoseThread(th)
    PROVE  CodexInv' /\ CodexGrows(o)
<1>1. codex' = codex /\ gone' = gone \cup {th} /\ \A t \in Turn : codex[t].thread = th => ~Live(t)
  BY DEF LoseThread
<1>2. CodexInv'
  BY <1>1 DEF CodexInv, Live
<1>3. ASSUME NEW t \in Turn PROVE Len(codex[t].hist) \in Nat
  BY DEF CodexInv, CodexTurn
<1>4. CodexGrows(o)
  BY <1>1, <1>3 DEF CodexGrows, Continued, Live
<1> QED
  BY <1>2, <1>4

-----------------------------------------------------------------------------
(* What a process writes into its memory *)

(* A memory, field by field. *)
Memo(th, ac, cu, ab, nw, vw, se, ba) ==
    [thread |-> th, active |-> ac, cur |-> cu, acc |-> ab, now |-> nw,
     view |-> vw, sending |-> se, batch |-> ba]

(* The memory m with one or two fields written. *)
PutThread(m, v) ==
    Memo(v, m.active, m.cur, m.acc, m.now, m.view, m.sending, m.batch)
PutActive(m, v) ==
    Memo(m.thread, v, m.cur, m.acc, m.now, m.view, m.sending, m.batch)
PutCur(m, v) ==
    Memo(m.thread, m.active, v, m.acc, m.now, m.view, m.sending, m.batch)
PutAcc(m, v) ==
    Memo(m.thread, m.active, m.cur, v, m.now, m.view, m.sending, m.batch)
PutNow(m, v) ==
    Memo(m.thread, m.active, m.cur, m.acc, v, m.view, m.sending, m.batch)
PutSending(m, v) ==
    Memo(m.thread, m.active, m.cur, m.acc, m.now, m.view, v, m.batch)
PutThreadView(m, v, w) ==
    Memo(v, m.active, m.cur, m.acc, m.now, w, m.sending, m.batch)
PutViewActive(m, v, w) ==
    Memo(m.thread, w, m.cur, m.acc, m.now, v, m.sending, m.batch)
PutActiveAcc(m, v, w) ==
    Memo(m.thread, v, m.cur, w, m.now, m.view, m.sending, m.batch)
PutCurAcc(m, v, w) ==
    Memo(m.thread, m.active, v, w, m.now, m.view, m.sending, m.batch)
PutNowActive(m, v, w) ==
    Memo(m.thread, w, m.cur, m.acc, v, m.view, m.sending, m.batch)
PutCurNow(m, v, w) ==
    Memo(m.thread, m.active, v, m.acc, w, m.view, m.sending, m.batch)
PutActiveThread(m, v, w) ==
    Memo(w, v, m.cur, m.acc, m.now, m.view, m.sending, m.batch)
PutSendingBatch(m, v, w) ==
    Memo(m.thread, m.active, m.cur, m.acc, m.now, m.view, v, w)

(* The function n is m but for process o, whose value is r. *)
Wrote(n, m, o, r) ==
    /\ n = [p \in Owner |-> n[p]] /\ n[o] = r
    /\ \A p \in Owner \ {o} : n[p] = m[p]

(* Writing one component of a per-process function. *)
LEMMA WriteValue ==
    ASSUME NEW m, m = [p \in Owner |-> m[p]], NEW o \in Owner, NEW n, NEW v, n = [m EXCEPT ![o] = v]
    PROVE  Wrote(n, m, o, v)
  BY DEF Wrote

(* Writing nothing is writing the old value. *)
LEMMA WriteNothing ==
    ASSUME NEW m, m = [p \in Owner |-> m[p]], NEW o \in Owner, NEW n, n = m
    PROVE  Wrote(n, m, o, m[o])
  BY DEF Wrote

(* Every process has a memory with all its fields. *)
Memories(m) == m = [p \in Owner |-> m[p]] /\ \A p \in Owner : IsMemory(m[p])

(* A step that writes thread writes nothing else. *)
LEMMA WriteThread ==
    ASSUME NEW m, Memories(m), NEW o \in Owner, NEW n, NEW v,
           n = [m EXCEPT ![o].thread = v]
    PROVE  Wrote(n, m, o, PutThread(m[o], v))
<1>1. n = [p \in Owner |-> n[p]] /\ (\A p \in Owner \ {o} : n[p] = m[p]) /\ n[o] = [m[o] EXCEPT !.thread = v]
  BY DEF Memories
<1>2. IsMemory(m[o])
  BY DEF Memories
<1>3. n[o] = PutThread(m[o], v)
  BY ONLY <1>1, <1>2 DEF IsMemory, Memo, PutThread
<1> QED
  BY ONLY <1>1, <1>3 DEF Wrote

(* A step that writes active writes nothing else. *)
LEMMA WriteActive ==
    ASSUME NEW m, Memories(m), NEW o \in Owner, NEW n, NEW v,
           n = [m EXCEPT ![o].active = v]
    PROVE  Wrote(n, m, o, PutActive(m[o], v))
<1>1. n = [p \in Owner |-> n[p]] /\ (\A p \in Owner \ {o} : n[p] = m[p]) /\ n[o] = [m[o] EXCEPT !.active = v]
  BY DEF Memories
<1>2. IsMemory(m[o])
  BY DEF Memories
<1>3. n[o] = PutActive(m[o], v)
  BY ONLY <1>1, <1>2 DEF IsMemory, Memo, PutActive
<1> QED
  BY ONLY <1>1, <1>3 DEF Wrote

(* A step that writes cur writes nothing else. *)
LEMMA WriteCur ==
    ASSUME NEW m, Memories(m), NEW o \in Owner, NEW n, NEW v,
           n = [m EXCEPT ![o].cur = v]
    PROVE  Wrote(n, m, o, PutCur(m[o], v))
<1>1. n = [p \in Owner |-> n[p]] /\ (\A p \in Owner \ {o} : n[p] = m[p]) /\ n[o] = [m[o] EXCEPT !.cur = v]
  BY DEF Memories
<1>2. IsMemory(m[o])
  BY DEF Memories
<1>3. n[o] = PutCur(m[o], v)
  BY ONLY <1>1, <1>2 DEF IsMemory, Memo, PutCur
<1> QED
  BY ONLY <1>1, <1>3 DEF Wrote

(* A step that writes acc writes nothing else. *)
LEMMA WriteAcc ==
    ASSUME NEW m, Memories(m), NEW o \in Owner, NEW n, NEW v,
           n = [m EXCEPT ![o].acc = v]
    PROVE  Wrote(n, m, o, PutAcc(m[o], v))
<1>1. n = [p \in Owner |-> n[p]] /\ (\A p \in Owner \ {o} : n[p] = m[p]) /\ n[o] = [m[o] EXCEPT !.acc = v]
  BY DEF Memories
<1>2. IsMemory(m[o])
  BY DEF Memories
<1>3. n[o] = PutAcc(m[o], v)
  BY ONLY <1>1, <1>2 DEF IsMemory, Memo, PutAcc
<1> QED
  BY ONLY <1>1, <1>3 DEF Wrote

(* A step that writes now writes nothing else. *)
LEMMA WriteNow ==
    ASSUME NEW m, Memories(m), NEW o \in Owner, NEW n, NEW v,
           n = [m EXCEPT ![o].now = v]
    PROVE  Wrote(n, m, o, PutNow(m[o], v))
<1>1. n = [p \in Owner |-> n[p]] /\ (\A p \in Owner \ {o} : n[p] = m[p]) /\ n[o] = [m[o] EXCEPT !.now = v]
  BY DEF Memories
<1>2. IsMemory(m[o])
  BY DEF Memories
<1>3. n[o] = PutNow(m[o], v)
  BY ONLY <1>1, <1>2 DEF IsMemory, Memo, PutNow
<1> QED
  BY ONLY <1>1, <1>3 DEF Wrote

(* A step that writes sending writes nothing else. *)
LEMMA WriteSending ==
    ASSUME NEW m, Memories(m), NEW o \in Owner, NEW n, NEW v,
           n = [m EXCEPT ![o].sending = v]
    PROVE  Wrote(n, m, o, PutSending(m[o], v))
<1>1. n = [p \in Owner |-> n[p]] /\ (\A p \in Owner \ {o} : n[p] = m[p]) /\ n[o] = [m[o] EXCEPT !.sending = v]
  BY DEF Memories
<1>2. IsMemory(m[o])
  BY DEF Memories
<1>3. n[o] = PutSending(m[o], v)
  BY ONLY <1>1, <1>2 DEF IsMemory, Memo, PutSending
<1> QED
  BY ONLY <1>1, <1>3 DEF Wrote

(* A step that writes thread and view writes nothing else. *)
LEMMA WriteThreadView ==
    ASSUME NEW m, Memories(m), NEW o \in Owner, NEW n, NEW v, NEW w,
           n = [m EXCEPT ![o].thread = v, ![o].view = w]
    PROVE  Wrote(n, m, o, PutThreadView(m[o], v, w))
<1>1. n = [p \in Owner |-> n[p]] /\ (\A p \in Owner \ {o} : n[p] = m[p]) /\ n[o] = [m[o] EXCEPT !.thread = v, !.view = w]
  BY DEF Memories
<1>2. IsMemory(m[o])
  BY DEF Memories
<1>3. n[o] = PutThreadView(m[o], v, w)
  BY ONLY <1>1, <1>2 DEF IsMemory, Memo, PutThreadView
<1> QED
  BY ONLY <1>1, <1>3 DEF Wrote

(* A step that writes view and active writes nothing else. *)
LEMMA WriteViewActive ==
    ASSUME NEW m, Memories(m), NEW o \in Owner, NEW n, NEW v, NEW w,
           n = [m EXCEPT ![o].view = v, ![o].active = w]
    PROVE  Wrote(n, m, o, PutViewActive(m[o], v, w))
<1>1. n = [p \in Owner |-> n[p]] /\ (\A p \in Owner \ {o} : n[p] = m[p]) /\ n[o] = [m[o] EXCEPT !.view = v, !.active = w]
  BY DEF Memories
<1>2. IsMemory(m[o])
  BY DEF Memories
<1>3. n[o] = PutViewActive(m[o], v, w)
  BY ONLY <1>1, <1>2 DEF IsMemory, Memo, PutViewActive
<1> QED
  BY ONLY <1>1, <1>3 DEF Wrote

(* A step that writes active and acc writes nothing else. *)
LEMMA WriteActiveAcc ==
    ASSUME NEW m, Memories(m), NEW o \in Owner, NEW n, NEW v, NEW w,
           n = [m EXCEPT ![o].active = v, ![o].acc = w]
    PROVE  Wrote(n, m, o, PutActiveAcc(m[o], v, w))
<1>1. n = [p \in Owner |-> n[p]] /\ (\A p \in Owner \ {o} : n[p] = m[p]) /\ n[o] = [m[o] EXCEPT !.active = v, !.acc = w]
  BY DEF Memories
<1>2. IsMemory(m[o])
  BY DEF Memories
<1>3. n[o] = PutActiveAcc(m[o], v, w)
  BY ONLY <1>1, <1>2 DEF IsMemory, Memo, PutActiveAcc
<1> QED
  BY ONLY <1>1, <1>3 DEF Wrote

(* A step that writes cur and acc writes nothing else. *)
LEMMA WriteCurAcc ==
    ASSUME NEW m, Memories(m), NEW o \in Owner, NEW n, NEW v, NEW w,
           n = [m EXCEPT ![o].cur = v, ![o].acc = w]
    PROVE  Wrote(n, m, o, PutCurAcc(m[o], v, w))
<1>1. n = [p \in Owner |-> n[p]] /\ (\A p \in Owner \ {o} : n[p] = m[p]) /\ n[o] = [m[o] EXCEPT !.cur = v, !.acc = w]
  BY DEF Memories
<1>2. IsMemory(m[o])
  BY DEF Memories
<1>3. n[o] = PutCurAcc(m[o], v, w)
  BY ONLY <1>1, <1>2 DEF IsMemory, Memo, PutCurAcc
<1> QED
  BY ONLY <1>1, <1>3 DEF Wrote

(* A step that writes now and active writes nothing else. *)
LEMMA WriteNowActive ==
    ASSUME NEW m, Memories(m), NEW o \in Owner, NEW n, NEW v, NEW w,
           n = [m EXCEPT ![o].now = v, ![o].active = w]
    PROVE  Wrote(n, m, o, PutNowActive(m[o], v, w))
<1>1. n = [p \in Owner |-> n[p]] /\ (\A p \in Owner \ {o} : n[p] = m[p]) /\ n[o] = [m[o] EXCEPT !.now = v, !.active = w]
  BY DEF Memories
<1>2. IsMemory(m[o])
  BY DEF Memories
<1>3. n[o] = PutNowActive(m[o], v, w)
  BY ONLY <1>1, <1>2 DEF IsMemory, Memo, PutNowActive
<1> QED
  BY ONLY <1>1, <1>3 DEF Wrote

(* A step that writes cur and now writes nothing else. *)
LEMMA WriteCurNow ==
    ASSUME NEW m, Memories(m), NEW o \in Owner, NEW n, NEW v, NEW w,
           n = [m EXCEPT ![o].cur = v, ![o].now = w]
    PROVE  Wrote(n, m, o, PutCurNow(m[o], v, w))
<1>1. n = [p \in Owner |-> n[p]] /\ (\A p \in Owner \ {o} : n[p] = m[p]) /\ n[o] = [m[o] EXCEPT !.cur = v, !.now = w]
  BY DEF Memories
<1>2. IsMemory(m[o])
  BY DEF Memories
<1>3. n[o] = PutCurNow(m[o], v, w)
  BY ONLY <1>1, <1>2 DEF IsMemory, Memo, PutCurNow
<1> QED
  BY ONLY <1>1, <1>3 DEF Wrote

(* A step that writes active and thread writes nothing else. *)
LEMMA WriteActiveThread ==
    ASSUME NEW m, Memories(m), NEW o \in Owner, NEW n, NEW v, NEW w,
           n = [m EXCEPT ![o].active = v, ![o].thread = w]
    PROVE  Wrote(n, m, o, PutActiveThread(m[o], v, w))
<1>1. n = [p \in Owner |-> n[p]] /\ (\A p \in Owner \ {o} : n[p] = m[p]) /\ n[o] = [m[o] EXCEPT !.active = v, !.thread = w]
  BY DEF Memories
<1>2. IsMemory(m[o])
  BY DEF Memories
<1>3. n[o] = PutActiveThread(m[o], v, w)
  BY ONLY <1>1, <1>2 DEF IsMemory, Memo, PutActiveThread
<1> QED
  BY ONLY <1>1, <1>3 DEF Wrote

(* A step that writes sending and batch writes nothing else. *)
LEMMA WriteSendingBatch ==
    ASSUME NEW m, Memories(m), NEW o \in Owner, NEW n, NEW v, NEW w,
           n = [m EXCEPT ![o].sending = v, ![o].batch = w]
    PROVE  Wrote(n, m, o, PutSendingBatch(m[o], v, w))
<1>1. n = [p \in Owner |-> n[p]] /\ (\A p \in Owner \ {o} : n[p] = m[p]) /\ n[o] = [m[o] EXCEPT !.sending = v, !.batch = w]
  BY DEF Memories
<1>2. IsMemory(m[o])
  BY DEF Memories
<1>3. n[o] = PutSendingBatch(m[o], v, w)
  BY ONLY <1>1, <1>2 DEF IsMemory, Memo, PutSendingBatch
<1> QED
  BY ONLY <1>1, <1>3 DEF Wrote

-----------------------------------------------------------------------------
(* What a process knows of Codex *)

(* Messages that report what Codex did. *)
Known(c) == {m \in Message :
               /\ c[m.t].thread # 0
               /\ m.k = "done" => m.status # "none" /\ c[m.t].srv = NoOwner
               /\ m.k = "item" => m.i \in 1..Len(c[m.t].hist) /\ c[m.t].hist[m.i].from = 0}

(* t is a turn of the thread th. *)
Seen(c, th, t) == th # 0 /\ c[t].thread = th

(* A view of the thread th that is not newer than Codex. *)
Viewed(c, th, view) ==
    /\ view \in [Turn -> [status: Recorded \cup {"absent"}, len: Nat]]
    /\ \A t \in Turn :
          /\ view[t].status = "absent" => view[t].len = 0
          /\ view[t].status # "absent" =>
                /\ Seen(c, th, t) /\ view[t].len <= Len(c[t].hist)
                /\ view[t].status # "inProgress" => c[t].srv = NoOwner

Idle == {"new", "resume", "dead"}
(* The points between the recorded intent and its outcome. *)
Busy == {"rpc", "retry", "bind", "rejected"}

(* A memory of the right type that agrees with Codex. *)
MemoryOK(c, m) ==
    /\ m.thread \in Thread \cup {0}
    /\ m.active \in Turn \cup {0}
    /\ m.cur \in Attention \cup {0}
    /\ m.acc \in Turn \cup {0}
    /\ m.sending \in Relay \cup {NoRelay}
    /\ m.batch \subseteq Relay
    /\ m.active # 0 => Seen(c, m.thread, m.active)
    /\ Viewed(c, m.thread, m.view)

(* What holds of process o at a point of the program. *)
PointOK(c, o, p, m, w, q) ==
    /\ p # "reconcile" => m.view = NoView
    /\ p = "reconcile" => m.thread # 0
    /\ p \in Idle => /\ m.thread = 0 /\ m.active = 0 /\ w = <<>> /\ q = <<>>
                     /\ \A t \in Turn : c[t].srv # o
    /\ p \in Busy => m.thread # 0 /\ m.cur \in Attention
    /\ p \in {"rpc", "retry", "stopTurn"} => w = <<>>
    /\ p = "retry" => m.active # 0
    /\ p = "bind" => m.acc \in Turn /\ Seen(c, m.thread, m.acc)
    /\ p \in {"stopTurn", "stopPending"} => m.cur \in Attention /\ Class[m.cur] = "stop"
    /\ p = "stopTurn" => m.active # 0 /\ c[m.active].stop
    /\ p \in {"post", "mark"} => m.sending \in Relay

(* Process o: its memory agrees with Codex, its point is consistent, its *)
(* queues hold true reports.                                             *)
Process(o) ==
    /\ MemoryOK(codex, mem[o]) /\ PointOK(codex, o, pc[o], mem[o], work[o], inq[o])
    /\ work[o] \in Seq(Known(codex)) /\ inq[o] \in Seq(Known(codex))

(* Sequences over a set are sequences over a larger one. *)
LEMMA SeqGrows ==
    ASSUME NEW S, NEW T, S \subseteq T
    PROVE  Seq(S) \subseteq Seq(T)
  OBVIOUS

(* A report that is true stays true while Codex grows. *)
LEMMA KnownGrows ==
    ASSUME CodexInv, CodexInv', NEW o, CodexGrows(o)
    PROVE  Known(codex) \subseteq Known(codex') /\ Seq(Known(codex)) \subseteq Seq(Known(codex'))
<1>1. ASSUME NEW m \in Known(codex) PROVE m \in Known(codex')
  <2>1. m \in Message /\ m.t \in Turn /\ codex[m.t].thread # 0
    BY DEF Known, Message
  <2>2. Continued(m.t)
    BY <2>1 DEF CodexGrows
  <2>3. Len(codex[m.t].hist) \in Nat /\ Len(codex[m.t].hist) <= Len(codex'[m.t].hist)
        /\ Len(codex'[m.t].hist) \in Nat
    BY <2>1, <2>2 DEF CodexInv, History, Continued
  <2>4. m.k = "done" => m.status # "none" /\ codex'[m.t].srv = NoOwner
    BY <2>2 DEF Known, Continued, Live
  <2>5. m.k = "item" => m.i \in 1..Len(codex'[m.t].hist) /\ codex'[m.t].hist[m.i].from = 0
    <3> SUFFICES ASSUME m.k = "item" PROVE m.i \in 1..Len(codex'[m.t].hist) /\ codex'[m.t].hist[m.i].from = 0
      OBVIOUS
    <3>1. m.i \in 1..Len(codex[m.t].hist) /\ codex[m.t].hist[m.i].from = 0
      BY DEF Known
    <3>2. codex'[m.t].hist[m.i] = codex[m.t].hist[m.i]
      BY <2>2, <3>1 DEF Continued
    <3> QED
      BY <2>3, <3>1, <3>2
  <2> QED
    BY <2>1, <2>2, <2>4, <2>5 DEF Known, Continued
<1>2. Known(codex) \subseteq Known(codex')
  BY <1>1
<1> QED
  BY <1>2, SeqGrows

(* A view that was read stays a prefix of Codex's history while Codex grows. *)
LEMMA ViewedGrows ==
    ASSUME CodexInv, CodexInv', NEW o, CodexGrows(o), NEW th, NEW view, Viewed(codex, th, view)
    PROVE  Viewed(codex', th, view)
<1>1. ASSUME NEW t \in Turn, view[t].status # "absent"
      PROVE  /\ Seen(codex', th, t) /\ view[t].len <= Len(codex'[t].hist)
             /\ view[t].status # "inProgress" => codex'[t].srv = NoOwner
  <2>1. Seen(codex, th, t) /\ view[t].len <= Len(codex[t].hist) /\ view[t].len \in Nat
        /\ (view[t].status # "inProgress" => ~Live(t))
    BY <1>1 DEF Viewed, Live
  <2>2. Continued(t)
    BY <2>1 DEF Seen, CodexGrows
  <2>3. Len(codex[t].hist) \in Nat /\ Len(codex'[t].hist) \in Nat
    BY DEF CodexInv, History
  <2> QED
    BY <2>1, <2>2, <2>3 DEF Continued, Seen, Live
<1> QED
  BY <1>1 DEF Viewed

(* Codex only grows under a process that does not move. *)
LEMMA MemoryGrows ==
    ASSUME CodexInv, CodexInv', NEW o, CodexGrows(o), NEW m, MemoryOK(codex, m)
    PROVE  MemoryOK(codex', m)
<1>1. Viewed(codex', m.thread, m.view)
  BY ViewedGrows DEF MemoryOK
<1>2. m.active # 0 => Seen(codex', m.thread, m.active)
  BY DEF MemoryOK, Seen, CodexGrows, Continued
<1> QED
  BY <1>1, <1>2 DEF MemoryOK

(* What holds of a process at its point stays true while Codex grows. *)
LEMMA PointGrows ==
    ASSUME NEW o, CodexGrows(o), NEW u, NEW p, NEW m, NEW w, NEW q, NEW r, PointOK(codex, u, p, m, w, q),
           MemoryOK(codex, m), u # o \/ p \notin Idle, NoOwner # u, p \in Idle => r = q
    PROVE  PointOK(codex', u, p, m, w, r)
<1>1. p \in Idle => \A t \in Turn : codex'[t].srv # u
  BY DEF PointOK, CodexGrows
<1>2. p = "bind" => Seen(codex', m.thread, m.acc)
  BY DEF PointOK, Seen, CodexGrows, Continued
<1>3. p = "stopTurn" => codex'[m.active].stop
  BY DEF PointOK, MemoryOK, Seen, CodexGrows, Continued
<1> QED
  BY <1>1, <1>2, <1>3 DEF PointOK

(* A process that does not move stays consistent while Codex grows. *)
LEMMA ProcessGrows ==
    ASSUME CodexInv, CodexInv', NEW o, CodexGrows(o), NEW u \in Owner, Process(u),
           pc'[u] = pc[u], mem'[u] = mem[u], work'[u] = work[u],
           inq'[u] = inq[u] \/ (pc[u] \notin Idle /\ inq'[u] \in Seq(Known(codex'))),
           u # o \/ pc[u] \notin Idle
    PROVE  Process(u)'
<1>1. MemoryOK(codex', mem[u])
  BY MemoryGrows DEF Process
<1>2. PointOK(codex', u, pc[u], mem[u], work[u], inq'[u])
  BY PointGrows, NoOwnerAssumption DEF Process
<1>3. work'[u] \in Seq(Known(codex')) /\ inq'[u] \in Seq(Known(codex'))
  BY KnownGrows DEF Process
<1> QED
  BY <1>1, <1>2, <1>3 DEF Process

(* A step of o: its own state becomes p, m, w, q, that of the others stays. *)
Acts(o, p, m, w, q) ==
    Wrote(pc', pc, o, p) /\ Wrote(mem', mem, o, m) /\ Wrote(work', work, o, w) /\ Wrote(inq', inq, o, q)

(* A step of one process that leaves it consistent leaves all of them *)
(* consistent.                                                        *)
LEMMA ProcessActs ==
    ASSUME CodexInv, CodexInv', \A u \in Owner : Process(u), NEW o \in Owner, CodexGrows(o),
           NEW p, NEW m, NEW w, NEW q, Acts(o, p, m, w, q), MemoryOK(codex', m), PointOK(codex', o, p, m, w, q),
           w \in Seq(Known(codex')), q \in Seq(Known(codex'))
    PROVE  \A u \in Owner : Process(u)'
<1>1. Process(o)'
  BY DEF Acts, Wrote, Process
<1>2. ASSUME NEW u \in Owner, u # o PROVE Process(u)'
  BY <1>2, ProcessGrows DEF Acts, Wrote
<1> QED
  BY <1>1, <1>2

(* A view read from Codex. *)
LEMMA ViewRead ==
    ASSUME CodexInv, NEW th \in Thread
    PROVE  Viewed(codex, th, authoritative_turns(th))
<1> DEFINE v == authoritative_turns(th)
<1>1. ASSUME NEW t \in Turn
      PROVE  /\ v[t] \in [status: Recorded \cup {"absent"}, len: Nat]
             /\ v[t].status = "absent" => v[t].len = 0
             /\ v[t].status # "absent" =>
                  /\ Seen(codex, th, t) /\ v[t].len <= Len(codex[t].hist)
                  /\ v[t].status # "inProgress" => ~Live(t)
  <2>0. Len(codex[t].hist) \in Nat
    BY DEF CodexInv, History
  <2>1. CASE InHistory(th, t)
    <3>1. v[t] = [status |-> codex[t].status, len |-> Len(codex[t].hist)]
      BY <2>1 DEF authoritative_turns
    <3>2. codex[t].status \in Recorded /\ "absent" \notin Recorded
      BY <2>1 DEF InHistory, CodexInv, Recorded
    <3>3. Seen(codex, th, t)
      BY <2>1, BoundAssumption DEF InHistory, Seen, Thread
    <3> QED
      BY <2>0, <3>1, <3>2, <3>3 DEF CodexInv, Live
  <2>2. CASE ~InHistory(th, t)
    <3>1. v[t] = [status |-> "absent", len |-> 0]
      BY <2>2 DEF authoritative_turns
    <3> QED
      BY <3>1
  <2> QED
    BY <2>1, <2>2
<1>2. v = [t \in Turn |-> v[t]]
  BY DEF authoritative_turns
<1> HIDE DEF v
<1>3. Viewed(codex, th, v)
  BY <1>1, <1>2 DEF Viewed, Live
<1> QED
  BY <1>3 DEF v

(* The empty view is a view of every thread. *)
LEMMA NothingViewed == \A c, th : Viewed(c, th, NoView)
  BY DEF Viewed, NoView, Recorded

(* A queue of one message. *)
LEMMA OneMessage ==
    ASSUME NEW S, NEW x \in S
    PROVE  <<x>> \in Seq(S)
  OBVIOUS

(* What Codex reports of the turns in S. *)
KnownOf(S) == {m \in Known(codex) : m.t \in S}

(* The messages of a recovered turn. *)
LEMMA Recovered ==
    ASSUME CodexInv, NEW th, NEW view, Viewed(codex, th, view), NEW t \in Turn, view[t].status # "absent"
    PROVE  recover_turn(view, t) \in Seq(KnownOf({t}))
<1> DEFINE n == view[t].len
           s == [i \in 1..n |-> IF codex[t].hist[i].from = 0 THEN <<ItemMessage(t, i)>> ELSE <<>>]
           items == Seqs!FlattenSeq(s)
<1>1. n \in Nat /\ n <= Len(codex[t].hist) /\ Len(codex[t].hist) \in Nat /\ Len(codex[t].hist) <= MaxItem /\ MaxItem \in Nat
  BY BoundAssumption DEF Viewed, CodexInv, History, Live
<1>2. codex[t].thread # 0 /\ view[t].status \in Recorded /\ (view[t].status # "inProgress" => ~Live(t))
  BY DEF Viewed, Seen, Live
<1>3. ASSUME NEW i \in 1..n, codex[t].hist[i].from = 0
      PROVE  ItemMessage(t, i) \in KnownOf({t})
  <2>1. i \in 1..Len(codex[t].hist) /\ i \in 0..MaxItem
    BY <1>1
  <2>2. ItemMessage(t, i) \in Message
    BY <2>1 DEF ItemMessage, Message
  <2> QED
    BY <1>2, <1>3, <2>1, <2>2 DEF KnownOf, Known, ItemMessage, Live
<1>4. s \in [1..n -> Seq(KnownOf({t}))]
  <2>1. ASSUME NEW i \in 1..n PROVE s[i] \in Seq(KnownOf({t}))
    <3>1. CASE codex[t].hist[i].from = 0
      <4>1. ItemMessage(t, i) \in KnownOf({t})
        BY <1>3, <3>1
      <4>2. s[i] = <<ItemMessage(t, i)>>
        BY <3>1
      <4> QED
        BY ONLY <4>1, <4>2, OneMessage
    <3>2. CASE codex[t].hist[i].from # 0
      <4>1. s[i] = <<>>
        BY <3>2
      <4> QED
        BY ONLY <4>1
    <3> QED
      BY <3>1, <3>2
  <2> QED
    BY <2>1
<1>5. items \in Seq(KnownOf({t}))
  BY ONLY <1>1, <1>4, Flattened
<1>6. view[t].status # "inProgress" => DoneMessage(t, view[t].status) \in KnownOf({t})
  BY <1>1, <1>2 DEF DoneMessage, Message, KnownOf, Known, Recorded, Live
<1>7. recover_turn(view, t) = IF view[t].status = "inProgress" THEN items
                              ELSE Append(items, DoneMessage(t, view[t].status))
  BY DEF recover_turn
<1> HIDE DEF items
<1> QED
  BY <1>5, <1>6, <1>7

(* The replay of a set of turns reports only what Codex recorded of them. *)
LEMMA ReplayedAll ==
    ASSUME CodexInv, NEW th, NEW view, Viewed(codex, th, view), NEW S,
           \A t \in Turn : t \in S => view[t].status # "absent"
    PROVE  ReplayAll(view, S) \in Seq(KnownOf(S))
<1> DEFINE s == [t \in Turn |-> IF t \in S THEN recover_turn(view, t) ELSE <<>>]
<1>1. s \in [1..MaxTurn -> Seq(KnownOf(S))]
  <2>1. ASSUME NEW t \in Turn PROVE s[t] \in Seq(KnownOf(S))
    <3>1. CASE t \in S
      <4>1. recover_turn(view, t) \in Seq(KnownOf({t}))
        BY <3>1, Recovered
      <4>2. KnownOf({t}) \subseteq KnownOf(S)
        BY <3>1 DEF KnownOf
      <4> QED
        BY <3>1, <4>1, <4>2, SeqGrows
    <3>2. CASE t \notin S
      BY <3>2
    <3> QED
      BY <3>1, <3>2
  <2> QED
    BY <2>1 DEF Turn
<1>2. MaxTurn \in Nat
  BY BoundAssumption
<1> QED
  BY ONLY <1>1, <1>2, Flattened DEF ReplayAll

(* Reports about some turns are reports. *)
LEMMA KnownOfIn == \A S : Seq(KnownOf(S)) \subseteq Seq(Known(codex))
  BY SeqGrows DEF KnownOf

(* The head and the tail of what a process has read. *)
LEMMA ReadMessages ==
    ASSUME NEW S, NEW w \in Seq(S), w # <<>>
    PROVE  /\ Head(w) \in S /\ Tail(w) \in Seq(S)
           /\ \A m \in S : <<m>> \o Tail(w) \in Seq(S)
  OBVIOUS

-----------------------------------------------------------------------------
(* The rows of the ledger *)

(* An attention that is written keeps what no other column says. *)
Keeps(r, n) == n.stored = r.stored /\ n.final = r.final

(* The row of an attention when due is written. *)
LEMMA DueRow ==
    ASSUME NEW r \in AttentionRow, NEW n, NEW v \in BOOLEAN, n = [r EXCEPT !.due = v]
    PROVE  /\ n \in AttentionRow /\ Keeps(r, n)
           /\ n.accepted = r.accepted /\ n.turn = r.turn /\ n.done = r.done /\ n.term = r.term
  BY DEF AttentionRow, Keeps

(* The row of an attention when it is stored. *)
LEMMA StoredRow ==
    ASSUME NEW r \in AttentionRow, NEW n, NEW v \in BOOLEAN, n = [r EXCEPT !.stored = v]
    PROVE  /\ n \in AttentionRow /\ n.stored = v /\ n.final = r.final
           /\ n.accepted = r.accepted /\ n.turn = r.turn /\ n.done = r.done /\ n.term = r.term
  BY DEF AttentionRow

(* The row of an attention when its outcome is written. *)
LEMMA TermRow ==
    ASSUME NEW r \in AttentionRow, NEW n, NEW v \in Terminal \cup {Open}, n = [r EXCEPT !.term = v]
    PROVE  /\ n \in AttentionRow /\ Keeps(r, n)
           /\ n.accepted = r.accepted /\ n.turn = r.turn /\ n.done = r.done /\ n.term = v
  BY DEF AttentionRow, Keeps

(* The row of an attention when it is done with an outcome. *)
LEMMA DoneRow ==
    ASSUME NEW r \in AttentionRow, NEW n, NEW v \in Terminal \cup {Open},
           n = [r EXCEPT !.done = TRUE, !.term = v]
    PROVE  /\ n \in AttentionRow /\ Keeps(r, n)
           /\ n.accepted = r.accepted /\ n.turn = r.turn /\ n.done = TRUE /\ n.term = v
  BY DEF AttentionRow, Keeps

(* Counters are capped at DeferMax. *)
LEMMA CapType == \A n \in Nat : Cap(n) \in 0..DeferMax
  BY BoundAssumption DEF Cap

(* The row of an attention when a turn accepts it. *)
LEMMA AcceptedRow ==
    ASSUME NEW r \in AttentionRow, NEW n, NEW t \in Turn,
           n = [r EXCEPT !.accepted = TRUE, !.turn = t, !.attempts = Cap(@ + 1)]
    PROVE  /\ n \in AttentionRow /\ Keeps(r, n)
           /\ n.accepted = TRUE /\ n.turn = t /\ n.done = r.done /\ n.term = r.term
<1>1. r.attempts + 1 \in Nat
  BY BoundAssumption DEF AttentionRow
<1>2. Cap(r.attempts + 1) \in 0..DeferMax
  BY <1>1, CapType
<1> QED
  BY <1>2 DEF AttentionRow, Keeps

(* The row of an attention that goes back to the pending lane. *)
LEMMA RequeuedRow ==
    ASSUME NEW r \in AttentionRow, NEW n, NEW v \in BOOLEAN,
           n = [Requeued(r) EXCEPT !.first = v] \/ n = Requeued(r)
    PROVE  /\ n \in AttentionRow /\ Keeps(r, n)
           /\ n.accepted = FALSE /\ n.turn = 0 /\ n.done = FALSE /\ n.term = Open
<1>1. Requeued(r) \in AttentionRow /\ Keeps(r, Requeued(r)) /\ Requeued(r).accepted = FALSE
      /\ Requeued(r).turn = 0 /\ Requeued(r).done = FALSE /\ Requeued(r).term = Open
  BY DEF AttentionRow, Keeps, Requeued
<1> QED
  BY <1>1 DEF AttentionRow, Keeps

(* The row of an attention that is deferred, or failed at the limit. *)
LEMMA DeferredRow ==
    ASSUME NEW r \in AttentionRow
    PROVE  /\ Deferred(r) \in AttentionRow /\ Keeps(r, Deferred(r))
           /\ Deferred(r).accepted = r.accepted /\ Deferred(r).turn = r.turn /\ Deferred(r).done = r.done
           /\ Deferred(r).term \in {r.term, "failed"}
<1>1. r.attempts + 1 \in Nat /\ r.attempts \in Nat /\ DeferMax \in Nat
  BY BoundAssumption DEF AttentionRow
<1>2. Cap(r.attempts + 1) \in 0..DeferMax
  BY <1>1, CapType
<1>3. CASE r.attempts + 1 >= DeferMax
  <2>1. Deferred(r) = [r EXCEPT !.attempts = Cap(@ + 1), !.term = "failed"]
    BY <1>3 DEF Deferred
  <2> QED
    BY <1>2, <2>1 DEF AttentionRow, Keeps, Terminal
<1>4. CASE ~(r.attempts + 1 >= DeferMax)
  <2>1. Deferred(r) = [r EXCEPT !.attempts = @ + 1, !.due = FALSE]
    BY <1>4 DEF Deferred
  <2>2. r.attempts + 1 \in 0..DeferMax
    BY <1>1, <1>4
  <2> QED
    BY <2>1, <2>2 DEF AttentionRow, Keeps
<1> QED
  BY <1>3, <1>4

(* The row of a /stop event when it is done. *)
LEMMA ControlRow ==
    ASSUME NEW r \in AttentionRow, NEW n,
           \/ n = [r EXCEPT !.accepted = TRUE, !.done = TRUE, !.term = "cancelled", !.attempts = Cap(@ + 1)]
    PROVE  /\ n \in AttentionRow /\ Keeps(r, n)
           /\ n.accepted = TRUE /\ n.turn = r.turn /\ n.done = TRUE /\ n.term = "cancelled"
<1>1. r.attempts + 1 \in Nat
  BY BoundAssumption DEF AttentionRow
<1>2. Cap(r.attempts + 1) \in 0..DeferMax
  BY <1>1, CapType
<1> QED
  BY <1>2 DEF AttentionRow, Keeps, Terminal

(* The row of a room-closed event when it is accepted. *)
LEMMA ClosedRow ==
    ASSUME NEW r \in AttentionRow, NEW n, n = [r EXCEPT !.accepted = TRUE, !.attempts = Cap(@ + 1)]
    PROVE  /\ n \in AttentionRow /\ Keeps(r, n)
           /\ n.accepted = TRUE /\ n.turn = r.turn /\ n.done = r.done /\ n.term = r.term
<1>1. r.attempts + 1 \in Nat
  BY BoundAssumption DEF AttentionRow
<1>2. Cap(r.attempts + 1) \in 0..DeferMax
  BY <1>1, CapType
<1> QED
  BY <1>2 DEF AttentionRow, Keeps

(* The row of a turn when it ends. *)
LEMMA EndedRow ==
    ASSUME NEW r \in TurnRow, NEW n, NEW v \in Terminal \cup {Open}, n = [r EXCEPT !.done = TRUE, !.term = v]
    PROVE  /\ n \in TurnRow /\ n.row = r.row /\ n.thread = r.thread /\ n.epoch = r.epoch /\ n.done = TRUE /\ n.term = v
  BY DEF TurnRow

(* The row of a turn when a new epoch adopts it. *)
LEMMA AdoptedRow ==
    ASSUME NEW r \in TurnRow, NEW n, NEW v \in Nat, n = [r EXCEPT !.epoch = v]
    PROVE  /\ n \in TurnRow /\ n.row = r.row /\ n.thread = r.thread /\ n.epoch = v /\ n.done = r.done /\ n.term = r.term
  BY DEF TurnRow

(* The intent row when its status is written. *)
LEMMA IntentStatus ==
    ASSUME NEW r \in IntentRow, NEW n, NEW v \in {"none", "prepared", "accepted", "reconciled", "failed"},
           n = [r EXCEPT !.status = v]
    PROVE  n \in IntentRow /\ n.thread = r.thread /\ n.status = v
  BY DEF IntentRow

-----------------------------------------------------------------------------
(* The transactions of the ledger *)

(* The tables have their types, and a turn joins finitely many attentions. *)
StoreInv == StoreTypeOK /\ \A t \in Turn : IsFiniteSet(turnAtt[t])

(* What the ledger records of an attention's dispatch. *)
CoreSame(a) ==
    /\ att'[a].stored = att[a].stored /\ att'[a].accepted = att[a].accepted
    /\ att'[a].turn = att[a].turn /\ att'[a].done = att[a].done
    /\ att'[a].term = att[a].term /\ att'[a].final = att[a].final

(* Writing the row of one attention. *)
LEMMA AttWritten ==
    ASSUME att \in [Attention -> AttentionRow], NEW a \in Attention, NEW n \in AttentionRow,
           att' = [att EXCEPT ![a] = n]
    PROVE  /\ att' \in [Attention -> AttentionRow] /\ att'[a] = n
           /\ \A b \in Attention : b # a => att'[b] = att[b]
  OBVIOUS

(* ingest_inbox stores the next event of the inbox. *)
LEMMA IngestEffect ==
    ASSUME StoreInv, ingest_inbox
    PROVE  /\ StoreInv'
           /\ \E a \in Attention :
                /\ ~att[a].stored /\ \A b \in Attention : b < a => att[b].stored
                /\ att'[a].stored /\ att'[a].accepted = att[a].accepted /\ att'[a].turn = att[a].turn
                /\ att'[a].done = att[a].done /\ att'[a].term = att[a].term /\ att'[a].final = att[a].final
                /\ \A b \in Attention : b # a => att'[b] = att[b]
<1>1. PICK a \in Attention : ~att[a].stored /\ (\A b \in Attention : b < a => att[b].stored)
                             /\ att' = [att EXCEPT ![a].stored = TRUE]
  BY Zenon DEF ingest_inbox
<1> DEFINE n == [att[a] EXCEPT !.stored = TRUE]
<1>2. att' = [att EXCEPT ![a] = n]
  BY ONLY <1>1, Zenon
<1>3. att[a] \in AttentionRow /\ att \in [Attention -> AttentionRow]
  BY DEF StoreInv, StoreTypeOK
<1>4. n \in AttentionRow /\ n.stored /\ n.final = att[a].final /\ n.accepted = att[a].accepted
      /\ n.turn = att[a].turn /\ n.done = att[a].done /\ n.term = att[a].term
  BY ONLY <1>3, StoredRow
<1> HIDE DEF n
<1>5. /\ att' \in [Attention -> AttentionRow] /\ att'[a] = n
      /\ \A b \in Attention : b # a => att'[b] = att[b]
  BY ONLY <1>2, <1>3, <1>4, AttWritten, a \in Attention
<1>6. StoreInv'
  BY <1>5 DEF StoreInv, StoreTypeOK, ingest_inbox
<1>7. ~att[a].stored /\ \A b \in Attention : b < a => att[b].stored
  BY ONLY <1>1, Zenon
<1>8. att'[a].stored /\ att'[a].accepted = att[a].accepted /\ att'[a].turn = att[a].turn
      /\ att'[a].done = att[a].done /\ att'[a].term = att[a].term /\ att'[a].final = att[a].final
  BY ONLY <1>4, <1>5
<1> QED
  BY ONLY <1>5, <1>6, <1>7, <1>8, a \in Attention, Zenon

(* mark_accepted joins the attention to its turn and writes the turn's row *)
(* once.                                                                   *)
LEMMA AcceptEffect ==
    ASSUME StoreInv, NEW a \in Attention, NEW t \in Turn, NEW th \in Thread \cup {0}, NEW e \in Nat,
           MarkAccepted(a, th, t, e)
    PROVE  /\ att' \in [Attention -> AttentionRow] /\ turn' \in [Turn -> TurnRow]
           /\ turnAtt' \in [Turn -> SUBSET (Attention \X Nat)] /\ \A u \in Turn : IsFiniteSet(turnAtt'[u])
           /\ att'[a].accepted /\ att'[a].turn = t /\ att'[a].stored = att[a].stored
           /\ att'[a].done = att[a].done /\ att'[a].term = att[a].term /\ att'[a].final = att[a].final
           /\ \A b \in Attention : b # a => att'[b] = att[b]
           /\ \A u \in Turn : u # t => turn'[u] = turn[u] /\ turnAtt'[u] = turnAtt[u]
           /\ turn[t].row => turn'[t] = turn[t]
           /\ turn'[t].row
           /\ ~turn[t].row => /\ turn'[t].thread = th /\ ~turn'[t].done /\ turn'[t].term = Open
           /\ turnAtt[t] \subseteq turnAtt'[t] /\ \A x \in turnAtt'[t] : x \in turnAtt[t] \/ x[1] = a
           /\ turnAtt'[t] # {}
<1> DEFINE n == [att[a] EXCEPT !.accepted = TRUE, !.turn = t, !.attempts = Cap(@ + 1)]
           p == Cardinality(turnAtt[t])
           ignored == \E x \in turnAtt[t] : x[1] = a \/ x[2] = p
           d == [row |-> TRUE, thread |-> th, epoch |-> e, done |-> FALSE, term |-> Open]
<1>0. att' = [att EXCEPT ![a].accepted = TRUE, ![a].turn = t, ![a].attempts = Cap(@ + 1)]
  BY ONLY MarkAccepted(a, th, t, e), Zenon DEF MarkAccepted
<1>1. att' = [att EXCEPT ![a] = n]
  BY ONLY <1>0, Zenon
<1>2. att[a] \in AttentionRow /\ att \in [Attention -> AttentionRow]
  BY DEF StoreInv, StoreTypeOK
<1>3. n \in AttentionRow /\ n.accepted /\ n.turn = t /\ n.stored = att[a].stored /\ n.final = att[a].final
      /\ n.done = att[a].done /\ n.term = att[a].term
  BY ONLY <1>2, AcceptedRow, t \in Turn DEF Keeps
<1> HIDE DEF n
<1>4. /\ att' \in [Attention -> AttentionRow] /\ att'[a] = n
      /\ \A b \in Attention : b # a => att'[b] = att[b]
  BY ONLY <1>1, <1>2, <1>3, AttWritten, a \in Attention
<1>5. turn' = (IF turn[t].row THEN turn ELSE [turn EXCEPT ![t] = d])
      /\ turnAtt' = (IF ignored THEN turnAtt ELSE [turnAtt EXCEPT ![t] = @ \cup {<<a, p>>}])
  BY ONLY MarkAccepted(a, th, t, e), Zenon DEF MarkAccepted
<1>6. d \in TurnRow /\ d.thread = th /\ d.row /\ ~d.done /\ d.term = Open
  BY DEF TurnRow
<1> HIDE DEF d
<1>7. /\ turn' \in [Turn -> TurnRow] /\ \A u \in Turn : u # t => turn'[u] = turn[u]
      /\ turn[t].row => turn'[t] = turn[t]
      /\ turn'[t].row
      /\ ~turn[t].row => turn'[t].thread = th /\ ~turn'[t].done /\ turn'[t].term = Open
  BY ONLY <1>5, <1>6, StoreInv, t \in Turn DEF StoreInv, StoreTypeOK
<1>8. p \in Nat /\ IsFiniteSet(turnAtt[t])
  BY FS_CardinalityType DEF StoreInv
<1>9. turnAtt \in [Turn -> SUBSET (Attention \X Nat)]
  BY DEF StoreInv, StoreTypeOK
<1> HIDE DEF p
<1>10. turnAtt'[t] = (IF ignored THEN turnAtt[t] ELSE turnAtt[t] \cup {<<a, p>>})
       /\ turnAtt' \in [Turn -> SUBSET (Attention \X Nat)] /\ \A u \in Turn : u # t => turnAtt'[u] = turnAtt[u]
  BY ONLY <1>5, <1>8, <1>9, t \in Turn, a \in Attention
<1>14. ignored => turnAtt[t] # {}
  BY ONLY TRUE
<1> HIDE DEF ignored
<1>11. IsFiniteSet(turnAtt[t] \cup {<<a, p>>})
  BY ONLY <1>8, FS_AddElement, Zenon
<1>15. IsFiniteSet(turnAtt'[t])
  BY ONLY <1>8, <1>10, <1>11
<1>12. \A u \in Turn : IsFiniteSet(turnAtt'[u])
  BY ONLY <1>10, <1>15, StoreInv, Zenon DEF StoreInv
<1>13. turnAtt[t] \subseteq turnAtt'[t] /\ (\A x \in turnAtt'[t] : x \in turnAtt[t] \/ x[1] = a) /\ turnAtt'[t] # {}
  <2>1. <<a, p>>[1] = a
    OBVIOUS
  <2>2. CASE ignored
    BY ONLY <1>10, <1>14, <2>2, Zenon
  <2>3. CASE ~ignored
    <3>1. turnAtt'[t] = turnAtt[t] \cup {<<a, p>>}
      BY ONLY <1>10, <2>3, Zenon
    <3> QED
      BY ONLY <2>1, <3>1, Zenon
  <2> QED
    BY ONLY <2>2, <2>3
<1> QED
  BY ONLY <1>3, <1>4, <1>7, <1>10, <1>12, <1>13, Zenon

(* Writing the status of one intent. *)
LEMMA IntentWritten ==
    ASSUME intent \in [Attention -> IntentRow], NEW a \in Attention,
           NEW s \in {"none", "prepared", "accepted", "reconciled", "failed"},
           intent' = [intent EXCEPT ![a].status = s]
    PROVE  /\ intent' \in [Attention -> IntentRow]
           /\ intent'[a].status = s /\ intent'[a].thread = intent[a].thread
           /\ \A b \in Attention : b # a => intent'[b] = intent[b]
<1> DEFINE n == [intent[a] EXCEPT !.status = s]
<1>1. intent' = [intent EXCEPT ![a] = n]
  BY Zenon
<1>2. n \in IntentRow /\ n.thread = intent[a].thread /\ n.status = s
  BY IntentStatus
<1> HIDE DEF n
<1> QED
  BY ONLY <1>1, <1>2, a \in Attention, intent \in [Attention -> IntentRow]

(* finalize_dispatch closes the intent and accepts the attention. *)
LEMMA FinalizeEffect ==
    ASSUME StoreInv, NEW a \in Attention, NEW t \in Turn, NEW th \in Thread \cup {0}, NEW e \in Nat,
           NEW s \in {"accepted", "reconciled"}, finalize_dispatch(a, th, t, e, s)
    PROVE  /\ StoreInv'
           /\ intent'[a].status = s
           /\ \A b \in Attention : b # a => intent'[b] = intent[b]
           /\ thread' = thread /\ relay' = relay
<1>1. MarkAccepted(a, th, t, e) /\ intent' = [intent EXCEPT ![a].status = s] /\ thread' = thread /\ relay' = relay
  BY DEF finalize_dispatch
<1>2. /\ intent' \in [Attention -> IntentRow] /\ intent'[a].status = s
      /\ \A b \in Attention : b # a => intent'[b] = intent[b]
  BY <1>1, IntentWritten DEF StoreInv, StoreTypeOK
<1>3. /\ att' \in [Attention -> AttentionRow] /\ turn' \in [Turn -> TurnRow]
      /\ turnAtt' \in [Turn -> SUBSET (Attention \X Nat)] /\ \A u \in Turn : IsFiniteSet(turnAtt'[u])
  BY <1>1, AcceptEffect
<1> QED
  BY <1>1, <1>2, <1>3 DEF StoreInv, StoreTypeOK

(* retry_unobserved_dispatch fails the intent of a dispatch that Codex never *)
(* saw.                                                                      *)
LEMMA RetryEffect ==
    ASSUME StoreInv, NEW a \in Attention, retry_unobserved_dispatch(a)
    PROVE  /\ StoreInv'
           /\ intent'[a].status = "failed" /\ intent'[a].thread = intent[a].thread
           /\ \A b \in Attention : b # a => intent'[b] = intent[b]
           /\ \A b \in Attention : CoreSame(b)
           /\ UNCHANGED <<turn, turnAtt, thread, relay>>
<1> DEFINE n == [att[a] EXCEPT !.due = TRUE]
<1>1. intent' = [intent EXCEPT ![a].status = "failed"] /\ UNCHANGED <<turn, turnAtt, thread, relay>>
  BY Zenon DEF retry_unobserved_dispatch
<1>2. att' = att \/ att' = [att EXCEPT ![a].due = TRUE]
  BY Zenon DEF retry_unobserved_dispatch
<1>3. att' = att \/ att' = [att EXCEPT ![a] = n]
  BY ONLY <1>2, Zenon
<1>4. att \in [Attention -> AttentionRow] /\ att[a] \in AttentionRow /\ intent \in [Attention -> IntentRow]
  BY DEF StoreInv, StoreTypeOK
<1>5. /\ n \in AttentionRow /\ Keeps(att[a], n)
      /\ n.accepted = att[a].accepted /\ n.turn = att[a].turn /\ n.done = att[a].done /\ n.term = att[a].term
  BY ONLY <1>4, DueRow
<1> HIDE DEF n
<1>6. att' \in [Attention -> AttentionRow] /\ \A b \in Attention : CoreSame(b)
  BY ONLY <1>3, <1>4, <1>5, a \in Attention DEF CoreSame, Keeps
<1>7. /\ intent' \in [Attention -> IntentRow] /\ intent'[a].status = "failed" /\ intent'[a].thread = intent[a].thread
      /\ \A b \in Attention : b # a => intent'[b] = intent[b]
  BY ONLY <1>1, <1>4, IntentWritten, a \in Attention
<1> QED
  BY ONLY StoreInv, <1>1, <1>6, <1>7 DEF StoreInv, StoreTypeOK

(* retire_legacy_context cancels one event. *)
LEMMA RetireEffect ==
    ASSUME StoreInv, NEW a \in Attention, retire_legacy_context(a)
    PROVE  /\ StoreInv'
           /\ att'[a].accepted = att[a].accepted /\ att'[a].turn = att[a].turn /\ att'[a].stored = att[a].stored
           /\ att'[a].done = att[a].done /\ att'[a].term = "cancelled" /\ att'[a].final = att[a].final
           /\ \A b \in Attention : b # a => att'[b] = att[b]
           /\ UNCHANGED <<turn, turnAtt, intent, thread, relay>>
<1> DEFINE n == [att[a] EXCEPT !.term = "cancelled"]
<1>1. UNCHANGED <<turn, turnAtt, intent, thread, relay>> /\ att' = [att EXCEPT ![a].term = "cancelled"]
  BY Zenon DEF retire_legacy_context
<1>3. att' = [att EXCEPT ![a] = n]
  BY ONLY <1>1, Zenon
<1>4. att \in [Attention -> AttentionRow] /\ att[a] \in AttentionRow
  BY DEF StoreInv, StoreTypeOK
<1>5. /\ n \in AttentionRow /\ Keeps(att[a], n)
      /\ n.accepted = att[a].accepted /\ n.turn = att[a].turn /\ n.done = att[a].done /\ n.term = "cancelled"
  BY ONLY <1>4, TermRow DEF Terminal
<1> HIDE DEF n
<1>6. att' \in [Attention -> AttentionRow] /\ att'[a] = n /\ \A b \in Attention : b # a => att'[b] = att[b]
  BY ONLY <1>3, <1>4, <1>5, a \in Attention
<1> QED
  BY ONLY StoreInv, <1>1, <1>5, <1>6 DEF StoreInv, StoreTypeOK, Keeps

(* prepare_dispatch writes the intent before the call. *)
LEMMA PrepareEffect ==
    ASSUME StoreInv, NEW a \in Attention, NEW th \in Thread, prepare_dispatch(a, th)
    PROVE  /\ StoreInv'
           /\ intent'[a].status = "prepared" /\ intent'[a].thread = th
           /\ \A b \in Attention : b # a => intent'[b] = intent[b]
           /\ UNCHANGED <<att, turn, turnAtt, thread, relay>>
<1> DEFINE n == [status |-> "prepared", thread |-> th]
<1>1. n \in IntentRow /\ n.status = "prepared" /\ n.thread = th
  BY DEF IntentRow
<1>2. intent' = [intent EXCEPT ![a] = n] /\ UNCHANGED <<att, turn, turnAtt, thread, relay>>
  BY DEF prepare_dispatch
<1> HIDE DEF n
<1> QED
  BY <1>1, <1>2 DEF StoreInv, StoreTypeOK

(* An attention that is refused stays where it is, or fails. *)
DeferSame(a) ==
    /\ att'[a].stored = att[a].stored /\ att'[a].accepted = att[a].accepted
    /\ att'[a].turn = att[a].turn /\ att'[a].done = att[a].done
    /\ att'[a].term \in {att[a].term, "failed"} /\ att'[a].final = att[a].final

(* defer_attention postpones one attention, or fails it at the limit. *)
LEMMA DeferEffect ==
    ASSUME StoreInv, NEW a \in Attention, defer_attention(a)
    PROVE  /\ StoreInv'
           /\ DeferSame(a)
           /\ \A b \in Attention : b # a => att'[b] = att[b]
           /\ UNCHANGED <<turn, turnAtt, intent, thread, relay>>
<1>1. UNCHANGED <<turn, turnAtt, intent, thread, relay>> /\ att' = [att EXCEPT ![a] = Deferred(att[a])]
  BY DEF defer_attention
<1>2. att \in [Attention -> AttentionRow] /\ att[a] \in AttentionRow
  BY DEF StoreInv, StoreTypeOK
<1>3. att' \in [Attention -> AttentionRow] /\ DeferSame(a) /\ \A b \in Attention : b # a => att'[b] = att[b]
  BY ONLY <1>1, <1>2, DeferredRow, a \in Attention DEF DeferSame, Keeps
<1> QED
  BY ONLY StoreInv, <1>1, <1>3 DEF StoreInv, StoreTypeOK

(* A refused dispatch fails its intent and postpones its attention. *)
LEMMA RetryDeferEffect ==
    ASSUME StoreInv, NEW a \in Attention, NEW now, retry_and_defer(a, now)
    PROVE  /\ StoreInv'
           /\ intent'[a].status = "failed" /\ intent'[a].thread = intent[a].thread
           /\ \A b \in Attention : b # a => intent'[b] = intent[b]
           /\ DeferSame(a)
           /\ \A b \in Attention : b # a => att'[b] = att[b]
           /\ UNCHANGED <<turn, turnAtt, thread, relay>>
<1> DEFINE n == [att[a] EXCEPT !.due = TRUE]
<1>1. intent' = [intent EXCEPT ![a].status = "failed"] /\ UNCHANGED <<turn, turnAtt, thread, relay>>
  BY Zenon DEF retry_and_defer
<1>2. att' = [att EXCEPT ![a] = IF now THEN n ELSE Deferred(att[a])]
  BY Zenon DEF retry_and_defer
<1>4. att \in [Attention -> AttentionRow] /\ att[a] \in AttentionRow /\ intent \in [Attention -> IntentRow]
  BY DEF StoreInv, StoreTypeOK
<1>5. /\ n \in AttentionRow /\ Keeps(att[a], n)
      /\ n.accepted = att[a].accepted /\ n.turn = att[a].turn /\ n.done = att[a].done /\ n.term = att[a].term
  BY ONLY <1>4, DueRow
<1> HIDE DEF n
<1>3. att' = [att EXCEPT ![a] = n] \/ att' = [att EXCEPT ![a] = Deferred(att[a])]
  BY ONLY <1>2, Zenon
<1>6. att' \in [Attention -> AttentionRow] /\ DeferSame(a) /\ \A b \in Attention : b # a => att'[b] = att[b]
  BY ONLY <1>3, <1>4, <1>5, DeferredRow, a \in Attention DEF DeferSame, Keeps
<1>7. /\ intent' \in [Attention -> IntentRow] /\ intent'[a].status = "failed" /\ intent'[a].thread = intent[a].thread
      /\ \A b \in Attention : b # a => intent'[b] = intent[b]
  BY ONLY <1>1, <1>4, IntentWritten, a \in Attention
<1> QED
  BY ONLY StoreInv, <1>1, <1>6, <1>7 DEF StoreInv, StoreTypeOK

(* adopt_recovered_turn moves a turn to the new epoch. *)
LEMMA AdoptEffect ==
    ASSUME StoreInv, NEW t \in Turn, NEW e \in Nat, adopt_recovered_turn(t, e)
    PROVE  /\ StoreInv'
           /\ \A u \in Turn : turn'[u].row = turn[u].row /\ turn'[u].thread = turn[u].thread
                              /\ turn'[u].done = turn[u].done /\ turn'[u].term = turn[u].term
           /\ UNCHANGED <<att, turnAtt, intent, thread, relay>>
<1> DEFINE n == [turn[t] EXCEPT !.epoch = e]
<1>1. UNCHANGED <<att, turnAtt, intent, thread, relay>> /\ (turn' = turn \/ turn' = [turn EXCEPT ![t].epoch = e])
  BY Zenon DEF adopt_recovered_turn
<1>2. turn' = turn \/ turn' = [turn EXCEPT ![t] = n]
  BY ONLY <1>1, Zenon
<1>3. turn \in [Turn -> TurnRow] /\ turn[t] \in TurnRow
  BY DEF StoreInv, StoreTypeOK
<1>4. n \in TurnRow /\ n.row = turn[t].row /\ n.thread = turn[t].thread /\ n.done = turn[t].done /\ n.term = turn[t].term
  BY ONLY <1>3, AdoptedRow, e \in Nat
<1> HIDE DEF n
<1>5. turn' \in [Turn -> TurnRow] /\ \A u \in Turn : turn'[u].row = turn[u].row /\ turn'[u].thread = turn[u].thread
                              /\ turn'[u].done = turn[u].done /\ turn'[u].term = turn[u].term
  BY ONLY <1>2, <1>3, <1>4, t \in Turn
<1> QED
  BY ONLY StoreInv, <1>1, <1>5 DEF StoreInv, StoreTypeOK

(* The suppression of a turn's output leaves no row of it waiting and adds *)
(* none.                                                                   *)
LEMMA SuppressEffect ==
    ASSUME relay \subseteq Relay, NEW S, SuppressRelays(S)
    PROVE  /\ relay' \subseteq Relay
           /\ \A r \in relay' : \E q \in relay : r.op = q.op
           /\ \A r \in relay : \E q \in relay' : r.op = q.op
           /\ \A r \in relay' : r.status \in {"pending", "held"} => r \in relay /\ r.op.turn \notin S
<1> DEFINE f(r) == IF r.op.turn \in S /\ r.status \in {"pending", "held"}
                   THEN [r EXCEPT !.status = "suppressed"] ELSE r
<1>1. relay' = {f(r) : r \in relay}
  BY DEF SuppressRelays
<1>2. ASSUME NEW r \in relay
      PROVE  f(r) \in Relay /\ f(r).op = r.op
             /\ (f(r).status \in {"pending", "held"} => f(r) = r /\ r.op.turn \notin S)
  <2>1. r \in Relay
    OBVIOUS
  <2>2. ASSUME NEW n, n = [r EXCEPT !.status = "suppressed"]
        PROVE  n \in Relay /\ n.op = r.op /\ n.status = "suppressed"
    BY <2>1, <2>2 DEF Relay
  <2>3. CASE r.op.turn \in S /\ r.status \in {"pending", "held"}
    BY <2>2, <2>3
  <2>4. CASE ~(r.op.turn \in S /\ r.status \in {"pending", "held"})
    BY <2>1, <2>4
  <2> QED
    BY <2>3, <2>4
<1> HIDE DEF f
<1> QED
  BY <1>1, <1>2

(* create_relay_item adds at most one row. *)
LEMMA CreateEffect ==
    ASSUME StoreInv, NEW op \in RelayOp, NEW s \in {"pending", "held", "suppressed"}, create_relay_item(op, s)
    PROVE  /\ StoreInv'
           /\ relay \subseteq relay' /\ \A r \in relay' : r \in relay \/ (r.op = op /\ r.status = s)
           /\ UNCHANGED <<att, turn, turnAtt, intent, thread>>
<1>1. UNCHANGED <<att, turn, turnAtt, intent, thread>> /\ (relay' = relay \/ relay' = relay \cup {[op |-> op, status |-> s]})
  BY DEF create_relay_item
<1>2. [op |-> op, status |-> s] \in Relay
  BY DEF Relay
<1> QED
  BY <1>1, <1>2 DEF StoreInv, StoreTypeOK

(* mark_relay_accepted settles one row and notes what it answered. *)
LEMMA MarkEffect ==
    ASSUME StoreInv, NEW s \in Relay, mark_relay_accepted(s)
    PROVE  /\ StoreInv'
           /\ \A r \in relay' : \E q \in relay : r.op = q.op
           /\ \A r \in relay : \E q \in relay' : r.op = q.op
           /\ \A r \in relay' : r.status \in {"pending", "held"} => r \in relay
           /\ \A a \in Attention : /\ att'[a].stored = att[a].stored /\ att'[a].accepted = att[a].accepted
                                   /\ att'[a].turn = att[a].turn /\ att'[a].done = att[a].done
                                   /\ att'[a].term = att[a].term /\ (att[a].final => att'[a].final)
                                   /\ att'[a].final /\ ~att[a].final => a \in s.op.cov /\ s.op.kind = "final"
           /\ UNCHANGED <<turn, turnAtt, intent, thread>>
<1> DEFINE f(r) == IF r.op = s.op THEN [r EXCEPT !.status = "accepted"] ELSE r
<1>1. relay' = {f(r) : r \in relay}
  BY DEF mark_relay_accepted
<1>2. ASSUME NEW r \in relay
      PROVE  f(r) \in Relay /\ f(r).op = r.op
             /\ (f(r).status \in {"pending", "held"} => f(r) = r)
  <2>1. r \in Relay
    BY DEF StoreInv, StoreTypeOK
  <2>2. ASSUME NEW n, n = [r EXCEPT !.status = "accepted"]
        PROVE  n \in Relay /\ n.op = r.op /\ n.status = "accepted"
    BY <2>1, <2>2 DEF Relay
  <2>3. CASE r.op = s.op
    BY <2>2, <2>3
  <2>4. CASE r.op # s.op
    BY <2>1, <2>4
  <2> QED
    BY <2>3, <2>4
<1> HIDE DEF f
<1>3. /\ relay' \subseteq Relay
      /\ \A r \in relay' : \E q \in relay : r.op = q.op
      /\ \A r \in relay : \E q \in relay' : r.op = q.op
      /\ \A r \in relay' : r.status \in {"pending", "held"} => r \in relay
  BY <1>1, <1>2
<1>4. att' = [a \in Attention |-> att'[a]]
  BY DEF mark_relay_accepted
<1>5. ASSUME NEW a \in Attention
      PROVE  /\ att'[a] \in AttentionRow
             /\ att'[a].stored = att[a].stored /\ att'[a].accepted = att[a].accepted
             /\ att'[a].turn = att[a].turn /\ att'[a].done = att[a].done
             /\ att'[a].term = att[a].term /\ (att[a].final => att'[a].final)
             /\ att'[a].final /\ ~att[a].final => a \in s.op.cov /\ s.op.kind = "final"
  <2>1. att[a] \in AttentionRow
    BY DEF StoreInv, StoreTypeOK
  <2>2. CASE a \in s.op.cov
    <3>1. PICK v \in BOOLEAN : (att[a].final => v) /\ (v => att[a].final \/ s.op.kind = "final")
                               /\ att'[a] = [att[a] EXCEPT !.first = TRUE, !.final = v]
      <4> DEFINE v == att[a].final \/ s.op.kind = "final"
      <4>1. att'[a] = [att[a] EXCEPT !.first = TRUE, !.final = v]
        BY <2>2, Zenon DEF mark_relay_accepted
      <4>2. v \in BOOLEAN
        BY <2>1 DEF AttentionRow
      <4> QED
        BY <4>1, <4>2, Zenon
    <3>2. /\ att'[a] \in AttentionRow /\ att'[a].stored = att[a].stored /\ att'[a].final = v
          /\ att'[a].accepted = att[a].accepted /\ att'[a].turn = att[a].turn
          /\ att'[a].done = att[a].done /\ att'[a].term = att[a].term
      <4>1. att'[a] = [att[a] EXCEPT !.first = TRUE, !.final = v]
        BY ONLY <3>1, Zenon
      <4> QED
        <5> DEFINE n == [att[a] EXCEPT !.first = TRUE, !.final = v]
        <5>1. n \in AttentionRow /\ n.stored = att[a].stored /\ n.final = v /\ n.accepted = att[a].accepted
              /\ n.turn = att[a].turn /\ n.done = att[a].done /\ n.term = att[a].term
          BY ONLY <2>1, v \in BOOLEAN DEF AttentionRow
        <5>2. att'[a] = n
          BY ONLY <4>1, Zenon
        <5> HIDE DEF n
        <5> QED
          BY ONLY <5>1, <5>2
    <3>3. (att[a].final => v) /\ (v => att[a].final \/ s.op.kind = "final")
      BY ONLY <3>1, Zenon
    <3> QED
      BY ONLY <2>2, <3>2, <3>3
  <2>3. CASE a \notin s.op.cov
    BY <2>1, <2>3 DEF mark_relay_accepted
  <2> QED
    BY <2>2, <2>3
<1>6. UNCHANGED <<turn, turnAtt, intent, thread>>
  BY DEF mark_relay_accepted
<1>7. att' \in [Attention -> AttentionRow]
  BY ONLY <1>4, <1>5
<1> QED
  BY <1>3, <1>5, <1>6, <1>7 DEF StoreInv, StoreTypeOK

(* mark_turn_no_reply cancels what the turn will not answer. *)
LEMMA NoReplyEffect ==
    ASSUME StoreInv, NEW t \in Turn, mark_turn_no_reply(t)
    PROVE  /\ StoreInv'
           /\ \A a \in Attention : att'[a] = att[a] \/
                /\ att'[a].stored = att[a].stored /\ att'[a].accepted = att[a].accepted
                /\ att'[a].turn = att[a].turn /\ att'[a].done = att[a].done
                /\ att'[a].final = att[a].final /\ att'[a].term = "cancelled"
           /\ UNCHANGED <<turn, turnAtt, intent, thread, relay>>
<1>1. UNCHANGED <<turn, turnAtt, intent, thread, relay>> /\ att' = [a \in Attention |-> att'[a]]
  BY DEF mark_turn_no_reply
<1>2. ASSUME NEW a \in Attention
      PROVE  /\ att'[a] \in AttentionRow
             /\ att'[a] = att[a] \/
                /\ att'[a].stored = att[a].stored /\ att'[a].accepted = att[a].accepted
                /\ att'[a].turn = att[a].turn /\ att'[a].done = att[a].done
                /\ att'[a].final = att[a].final /\ att'[a].term = "cancelled"
  <2>1. att[a] \in AttentionRow
    BY DEF StoreInv, StoreTypeOK
  <2>2. att'[a] = att[a] \/ att'[a] = [att[a] EXCEPT !.term = "cancelled"]
    BY DEF mark_turn_no_reply
  <2> QED
    BY ONLY <2>1, <2>2, TermRow DEF Terminal, Keeps
<1>3. att' \in [Attention -> AttentionRow]
  BY ONLY <1>1, <1>2
<1> QED
  BY ONLY StoreInv, <1>1, <1>2, <1>3 DEF StoreInv, StoreTypeOK

(* The attentions a transaction leaves, or ends with the status v. *)
LEMMA RequeueEffect ==
    ASSUME StoreInv, NEW S, S \subseteq Turn, NEW forget \in BOOLEAN, RequeueTurns(S, forget)
    PROVE  /\ att' \in [Attention -> AttentionRow] /\ turn' \in [Turn -> TurnRow]
           /\ turnAtt' \in [Turn -> SUBSET (Attention \X Nat)] /\ \A u \in Turn : IsFiniteSet(turnAtt'[u])
           /\ \A t \in S : /\ turn'[t].row = turn[t].row /\ turn'[t].thread = turn[t].thread
                           /\ turn'[t].done = TRUE /\ turn'[t].term = "failed" /\ turnAtt'[t] = {}
           /\ \A t \in Turn : t \notin S => turn'[t] = turn[t] /\ turnAtt'[t] = turnAtt[t]
           /\ \A a \in Attention :
                \/ att'[a] = att[a]
                   /\ \A t \in S : a \in Attached(t) => att[a].final
                \/ /\ \E t \in S : a \in Attached(t)
                   /\ att'[a].stored = att[a].stored /\ att'[a].final = att[a].final /\ ~att[a].final
                   /\ att'[a].accepted = FALSE /\ att'[a].turn = 0 /\ att'[a].done = FALSE /\ att'[a].term = Open
<1> DEFINE back == {a \in UNION {Attached(t) : t \in S} : ~att[a].final}
<1>1. /\ turn' = [t \in Turn |-> IF t \in S THEN [turn[t] EXCEPT !.done = TRUE, !.term = "failed"] ELSE turn[t]]
      /\ turnAtt' = [t \in Turn |-> IF t \in S THEN {} ELSE turnAtt[t]]
      /\ att' = [a \in Attention |-> IF a \in back THEN [Requeued(att[a]) EXCEPT !.first = @ /\ ~forget] ELSE att[a]]
  BY DEF RequeueTurns
<1>2. ASSUME NEW t \in Turn PROVE turn'[t] \in TurnRow /\ (t \notin S => turn'[t] = turn[t])
         /\ (t \in S => /\ turn'[t].row = turn[t].row /\ turn'[t].thread = turn[t].thread
                        /\ turn'[t].done = TRUE /\ turn'[t].term = "failed")
  <2>1. turn[t] \in TurnRow
    BY DEF StoreInv, StoreTypeOK
  <2>2. t \in S => turn'[t] = [turn[t] EXCEPT !.done = TRUE, !.term = "failed"]
    BY <1>1, Zenon
  <2>3. t \notin S => turn'[t] = turn[t]
    BY <1>1, Zenon
  <2> QED
    <3> DEFINE n == [turn[t] EXCEPT !.done = TRUE, !.term = "failed"]
    <3>1. n \in TurnRow /\ n.row = turn[t].row /\ n.thread = turn[t].thread /\ n.done = TRUE /\ n.term = "failed"
      BY ONLY <2>1, EndedRow DEF Terminal
    <3>2. t \in S => turn'[t] = n
      BY ONLY <2>2, Zenon
    <3> HIDE DEF n
    <3> QED
      BY ONLY <2>1, <2>3, <3>1, <3>2, SMTT(40)
<1>3. ASSUME NEW a \in Attention
      PROVE  /\ att'[a] \in AttentionRow
             /\ \/ att'[a] = att[a] /\ \A t \in S : a \in Attached(t) => att[a].final
                \/ /\ \E t \in S : a \in Attached(t)
                   /\ att'[a].stored = att[a].stored /\ att'[a].final = att[a].final /\ ~att[a].final
                   /\ att'[a].accepted = FALSE /\ att'[a].turn = 0 /\ att'[a].done = FALSE /\ att'[a].term = Open
  <2>1. att[a] \in AttentionRow
    BY DEF StoreInv, StoreTypeOK
  <2>2. CASE a \in back
    <3>1. att'[a] = [Requeued(att[a]) EXCEPT !.first = @ /\ ~forget]
      BY <1>1, <2>2, Zenon
    <3>2. \E v \in BOOLEAN : att'[a] = [Requeued(att[a]) EXCEPT !.first = v]
      <4> DEFINE v == Requeued(att[a]).first /\ ~forget
      <4>1. v \in BOOLEAN
        OBVIOUS
      <4>2. att'[a] = [Requeued(att[a]) EXCEPT !.first = v]
        BY <3>1, Zenon
      <4> QED
        BY <4>1, <4>2, Zenon
    <3>3. /\ att'[a] \in AttentionRow /\ Keeps(att[a], att'[a])
          /\ att'[a].accepted = FALSE /\ att'[a].turn = 0 /\ att'[a].done = FALSE /\ att'[a].term = Open
      BY ONLY <2>1, <3>2, RequeuedRow
    <3>4. ~att[a].final /\ \E t \in S : a \in Attached(t)
      BY <2>2
    <3> QED
      BY ONLY <3>3, <3>4 DEF Keeps
  <2>3. CASE a \notin back
    <3>1. att'[a] = att[a]
      BY <1>1, <2>3, Zenon
    <3>2. \A t \in S : a \in Attached(t) => att[a].final
      BY <2>3
    <3> QED
      BY ONLY <2>1, <3>1, <3>2
  <2> QED
    BY <2>2, <2>3
<1>4. /\ att' = [a \in Attention |-> att'[a]] /\ turn' = [t \in Turn |-> turn'[t]]
  BY <1>1, Zenon
<1>5. att' \in [Attention -> AttentionRow] /\ turn' \in [Turn -> TurnRow]
  BY ONLY <1>2, <1>3, <1>4
<1>6. turnAtt' \in [Turn -> SUBSET (Attention \X Nat)]
      /\ \A t \in Turn : (t \in S => turnAtt'[t] = {}) /\ (t \notin S => turnAtt'[t] = turnAtt[t])
  BY ONLY <1>1, StoreInv DEF StoreInv, StoreTypeOK
<1>7. \A u \in Turn : IsFiniteSet(turnAtt'[u])
  BY ONLY <1>6, StoreInv, FS_EmptySet, Zenon DEF StoreInv
<1> QED
  BY ONLY S \subseteq Turn, <1>2, <1>3, <1>5, <1>6, <1>7

(* A turn keeps its row, or ends with the status v. *)
TurnEnds(t, v) ==
    /\ turn'[t].row = turn[t].row /\ turn'[t].thread = turn[t].thread
    /\ turn'[t].done = TRUE /\ turn'[t].term = v

(* An attention keeps its dispatch, and ends with the status v. *)
AttentionEnds(a, v) ==
    /\ att'[a].stored = att[a].stored /\ att'[a].final = att[a].final
    /\ att'[a].accepted = att[a].accepted /\ att'[a].turn = att[a].turn
    /\ att'[a].done = TRUE /\ att'[a].term = v

(* An attention goes back to the pending lane. *)
AttentionBack(a) ==
    /\ att'[a].stored = att[a].stored /\ att'[a].final = att[a].final /\ ~att[a].final
    /\ att'[a].accepted = FALSE /\ att'[a].turn = 0 /\ att'[a].done = FALSE /\ att'[a].term = Open

(* A turn that is written as done ends. *)
LEMMA TurnEnding ==
    ASSUME NEW t, turn[t] \in TurnRow, NEW v \in Terminal \cup {Open},
           turn'[t] = [turn[t] EXCEPT !.done = TRUE, !.term = v]
    PROVE  turn'[t] \in TurnRow /\ TurnEnds(t, v)
<1> DEFINE n == turn'[t]
<1>2. n = [turn[t] EXCEPT !.done = TRUE, !.term = v]
  OBVIOUS
<1> HIDE DEF n
<1>1. n \in TurnRow /\ n.row = turn[t].row /\ n.thread = turn[t].thread /\ n.done = TRUE /\ n.term = v
  BY ONLY turn[t] \in TurnRow, v \in Terminal \cup {Open}, <1>2, EndedRow, Zenon
<1>3. n = turn'[t]
  BY DEF n
<1> QED
  BY ONLY <1>1, <1>3 DEF TurnEnds

(* An attention that is written as done ends. *)
LEMMA AttentionEnding ==
    ASSUME NEW a, att[a] \in AttentionRow, NEW v \in Terminal \cup {Open},
           att'[a] = [att[a] EXCEPT !.done = TRUE, !.term = v]
    PROVE  att'[a] \in AttentionRow /\ AttentionEnds(a, v)
<1> DEFINE n == att'[a]
<1>2. n = [att[a] EXCEPT !.done = TRUE, !.term = v]
  OBVIOUS
<1> HIDE DEF n
<1>1. n \in AttentionRow /\ Keeps(att[a], n) /\ n.accepted = att[a].accepted /\ n.turn = att[a].turn
      /\ n.done = TRUE /\ n.term = v
  BY ONLY att[a] \in AttentionRow, v \in Terminal \cup {Open}, <1>2, DoneRow, ZenonT(60)
<1>3. n = att'[a]
  BY DEF n
<1> QED
  BY ONLY <1>1, <1>3 DEF AttentionEnds, Keeps

(* requeue_missing_thread forgets the thread and requeues its silent turns. *)
LEMMA MissingThreadEffect ==
    ASSUME StoreInv, NEW th, requeue_missing_thread(th)
    PROVE  /\ StoreInv' /\ (thread' = thread \/ (thread = th /\ thread' = 0)) /\ (thread = th => thread' = 0)
           /\ UNCHANGED <<intent, relay>>
           /\ RequeueTurns({t \in incomplete_turn_ids(th) : RelaysOf(t) = {}}, FALSE)
<1>1. /\ RequeueTurns({t \in incomplete_turn_ids(th) : RelaysOf(t) = {}}, FALSE)
      /\ thread' = (IF thread = th THEN 0 ELSE thread) /\ UNCHANGED <<intent, relay>>
  BY Zenon DEF requeue_missing_thread
<1>2. {t \in incomplete_turn_ids(th) : RelaysOf(t) = {}} \subseteq Turn
  BY DEF incomplete_turn_ids
<1>3. /\ att' \in [Attention -> AttentionRow] /\ turn' \in [Turn -> TurnRow]
      /\ turnAtt' \in [Turn -> SUBSET (Attention \X Nat)] /\ \A u \in Turn : IsFiniteSet(turnAtt'[u])
  BY ONLY StoreInv, <1>1, <1>2, RequeueEffect, Zenon
<1>4. thread' \in Thread \cup {0} /\ (thread' = thread \/ (thread = th /\ thread' = 0)) /\ (thread = th => thread' = 0)
  BY ONLY StoreInv, <1>1 DEF StoreInv, StoreTypeOK
<1>5. StoreInv'
  BY ONLY StoreInv, <1>1, <1>3, <1>4 DEF StoreInv, StoreTypeOK
<1> QED
  BY ONLY <1>1, <1>4, <1>5, Zenon

(* requeue_missing_turn requeues a turn without output, or does nothing. *)
LEMMA MissingTurnEffect ==
    ASSUME StoreInv, NEW t \in Turn, requeue_missing_turn(t)
    PROVE  /\ StoreInv' /\ UNCHANGED <<intent, thread, relay>>
           /\ Replayable(t) => RequeueTurns({t}, TRUE)
           /\ ~Replayable(t) => UNCHANGED <<att, turn, turnAtt>>
<1>1. /\ UNCHANGED <<intent, thread, relay>>
      /\ Replayable(t) => RequeueTurns({t}, TRUE)
      /\ ~Replayable(t) => UNCHANGED <<att, turn, turnAtt>>
  BY Zenon DEF requeue_missing_turn
<1>2. CASE Replayable(t)
  <2>1. {t} \subseteq Turn /\ TRUE \in BOOLEAN
    OBVIOUS
  <2>2. /\ att' \in [Attention -> AttentionRow] /\ turn' \in [Turn -> TurnRow]
        /\ turnAtt' \in [Turn -> SUBSET (Attention \X Nat)] /\ \A u \in Turn : IsFiniteSet(turnAtt'[u])
    BY ONLY StoreInv, <1>1, <1>2, <2>1, RequeueEffect, Zenon
  <2>3. StoreInv'
    BY ONLY StoreInv, <1>1, <2>2 DEF StoreInv, StoreTypeOK
  <2> QED
    BY ONLY <1>1, <2>3, Zenon
<1>3. CASE ~Replayable(t)
  <2>1. StoreInv'
    BY ONLY StoreInv, <1>1, <1>3 DEF StoreInv, StoreTypeOK
  <2> QED
    BY ONLY <1>1, <2>1, Zenon
<1> QED
  BY <1>2, <1>3

(* The unfinished turns of epochs before e. *)
StaleTurns(e) == {t \in Turn : /\ turn[t].row /\ ~turn[t].done
                               /\ turn[t].term = Open /\ turn[t].epoch < e}

(* reap_stale_turns_after_recovery interrupts turns of earlier epochs, not *)
(* what still needs a reply.                                               *)
LEMMA ReapEffect ==
    ASSUME StoreInv, NEW e \in Nat, reap_stale_turns_after_recovery(e)
    PROVE  /\ StoreInv' /\ UNCHANGED <<turnAtt, intent, thread>>
           /\ SuppressRelays(StaleTurns(e))
           /\ \A t \in StaleTurns(e) : TurnEnds(t, "interrupted")
           /\ \A t \in Turn \ StaleTurns(e) : turn'[t] = turn[t]
           /\ \A a \in Attention :
                LET ends == att[a].turn \in StaleTurns(e) /\ att[a].term = Open /\ a \notin ReplyRequired IN
                /\ ends => AttentionEnds(a, "interrupted")
                /\ ~ends => att'[a] = att[a]
<1> DEFINE S == StaleTurns(e)
<1>1. /\ turn' = [t \in Turn |-> IF t \in S THEN [turn[t] EXCEPT !.done = TRUE, !.term = "interrupted"] ELSE turn[t]]
      /\ att' = [a \in Attention |->
                 IF att[a].turn \in S /\ att[a].term = Open /\ a \notin ReplyRequired
                 THEN [att[a] EXCEPT !.done = TRUE, !.term = "interrupted"] ELSE att[a]]
      /\ SuppressRelays(S) /\ UNCHANGED <<turnAtt, intent, thread>>
  BY DEF reap_stale_turns_after_recovery, StaleTurns
<1> HIDE DEF S
<1>2. ASSUME NEW t \in Turn PROVE turn'[t] \in TurnRow /\ (t \in S => TurnEnds(t, "interrupted")) /\ (t \notin S => turn'[t] = turn[t])
  <2>1. turn[t] \in TurnRow
    BY DEF StoreInv, StoreTypeOK
  <2>2. CASE t \in S
    <3>1. turn'[t] = [turn[t] EXCEPT !.done = TRUE, !.term = "interrupted"]
      BY ONLY <1>1, <2>2, t \in Turn, Zenon
    <3> QED
      BY ONLY <2>1, <2>2, <3>1, TurnEnding, Zenon DEF Terminal
  <2>3. CASE t \notin S
    BY ONLY <1>1, <2>1, <2>3, t \in Turn, Zenon
  <2> QED
    BY <2>2, <2>3
<1>3. ASSUME NEW a \in Attention
      PROVE  /\ att'[a] \in AttentionRow
             /\ att[a].turn \in S /\ att[a].term = Open /\ a \notin ReplyRequired => AttentionEnds(a, "interrupted")
             /\ ~(att[a].turn \in S /\ att[a].term = Open /\ a \notin ReplyRequired) => att'[a] = att[a]
  <2>1. att[a] \in AttentionRow
    BY DEF StoreInv, StoreTypeOK
  <2>2. CASE att[a].turn \in S /\ att[a].term = Open /\ a \notin ReplyRequired
    <3>1. att'[a] = [att[a] EXCEPT !.done = TRUE, !.term = "interrupted"]
      BY ONLY <1>1, <2>2, a \in Attention, Zenon
    <3> QED
      BY ONLY <2>1, <2>2, <3>1, AttentionEnding, Zenon DEF Terminal
  <2>3. CASE ~(att[a].turn \in S /\ att[a].term = Open /\ a \notin ReplyRequired)
    BY ONLY <1>1, <2>1, <2>3, a \in Attention, Zenon
  <2> QED
    BY <2>2, <2>3
<1>4. att' = [a \in Attention |-> att'[a]] /\ turn' = [t \in Turn |-> turn'[t]]
  BY ONLY <1>1, Zenon
<1>5. att' \in [Attention -> AttentionRow] /\ turn' \in [Turn -> TurnRow]
  BY ONLY <1>2, <1>3, <1>4
<1>6. relay' \subseteq Relay
  BY <1>1, SuppressEffect DEF StoreInv, StoreTypeOK
<1>7. StoreInv'
  BY ONLY StoreInv, <1>1, <1>5, <1>6 DEF StoreInv, StoreTypeOK
<1>8. S \subseteq Turn
  BY DEF S, StaleTurns
<1> QED
  BY ONLY <1>1, <1>2, <1>3, <1>7, <1>8, Zenon DEF S

(* An attention that waits is cancelled. *)
AttentionCancelled(a) ==
    /\ att'[a].stored = att[a].stored /\ att'[a].final = att[a].final
    /\ att'[a].accepted = att[a].accepted /\ att'[a].turn = att[a].turn
    /\ att'[a].done = att[a].done /\ att'[a].term = "cancelled"

(* An attention whose outcome is written as cancelled keeps the rest of its *)
(* row.                                                                     *)
LEMMA AttentionCancelling ==
    ASSUME NEW a, att[a] \in AttentionRow, att'[a] = [att[a] EXCEPT !.term = "cancelled"]
    PROVE  att'[a] \in AttentionRow /\ AttentionCancelled(a)
<1> DEFINE n == [att[a] EXCEPT !.term = "cancelled"]
<1>1. n \in AttentionRow /\ Keeps(att[a], n) /\ n.accepted = att[a].accepted /\ n.turn = att[a].turn
      /\ n.done = att[a].done /\ n.term = "cancelled"
  BY ONLY att[a] \in AttentionRow, TermRow DEF Terminal
<1>2. att'[a] = n
  BY Zenon
<1> HIDE DEF n
<1> QED
  BY ONLY <1>1, <1>2 DEF AttentionCancelled, Keeps

(* cancel_pending_before_control cancels what waits before the control event, *)
(* protected work excepted.                                                   *)
LEMMA CancelEffect ==
    ASSUME StoreInv, NEW c \in Attention, cancel_pending_before_control(c)
    PROVE  /\ StoreInv' /\ UNCHANGED <<turn, turnAtt, intent, thread, relay>>
           /\ att'[c].stored = att[c].stored /\ att'[c].accepted /\ att'[c].turn = att[c].turn
           /\ att'[c].done /\ att'[c].term = "cancelled" /\ att'[c].final = att[c].final
           /\ \A a \in Attention : a # c =>
                \/ Pending(a) /\ AttentionCancelled(a) /\ a \notin Protected
                \/ att'[a] = att[a]
<1>1. /\ att' = [a \in Attention |->
            IF a = c
            THEN [att[a] EXCEPT !.accepted = TRUE, !.done = TRUE,
                                !.term = "cancelled", !.attempts = Cap(@ + 1)]
            ELSE IF Pending(a) /\ a < c /\ a \notin Protected
            THEN [att[a] EXCEPT !.term = "cancelled"]
            ELSE att[a]]
      /\ UNCHANGED <<turn, turnAtt, intent, thread, relay>>
  BY DEF cancel_pending_before_control
<1>2. att \in [Attention -> AttentionRow]
  BY DEF StoreInv, StoreTypeOK
<1>3. /\ att'[c] \in AttentionRow /\ att'[c].stored = att[c].stored /\ att'[c].accepted /\ att'[c].turn = att[c].turn
      /\ att'[c].done /\ att'[c].term = "cancelled" /\ att'[c].final = att[c].final
  <2> DEFINE n == [att[c] EXCEPT !.accepted = TRUE, !.done = TRUE, !.term = "cancelled", !.attempts = Cap(@ + 1)]
  <2>1. n \in AttentionRow /\ Keeps(att[c], n) /\ n.accepted = TRUE /\ n.turn = att[c].turn /\ n.done = TRUE
        /\ n.term = "cancelled"
    BY ONLY <1>2, c \in Attention, ControlRow
  <2>2. att'[c] = n
    BY ONLY <1>1, c \in Attention, Zenon
  <2> HIDE DEF n
  <2> QED
    BY ONLY <2>1, <2>2 DEF Keeps
<1>4. ASSUME NEW a \in Attention, a # c
      PROVE  /\ att'[a] \in AttentionRow
             /\ \/ Pending(a) /\ AttentionCancelled(a) /\ a \notin Protected
                \/ att'[a] = att[a]
  <2>1. CASE Pending(a) /\ a < c /\ a \notin Protected
    <3>1. att'[a] = [att[a] EXCEPT !.term = "cancelled"]
      BY ONLY <1>1, <1>4, <2>1, Zenon
    <3> QED
      BY ONLY <1>2, <2>1, <3>1, AttentionCancelling, a \in Attention, Zenon
  <2>2. CASE ~(Pending(a) /\ a < c /\ a \notin Protected)
    BY ONLY <1>1, <1>2, <1>4, <2>2, Zenon
  <2> QED
    BY <2>1, <2>2
<1>5. att' = [a \in Attention |-> att'[a]]
  BY ONLY <1>1, Zenon
<1>6. att' \in [Attention -> AttentionRow]
  BY ONLY <1>3, <1>4, <1>5
<1>7. StoreInv'
  BY ONLY StoreInv, <1>1, <1>6 DEF StoreInv, StoreTypeOK
<1> QED
  BY ONLY <1>1, <1>3, <1>4, <1>7, Zenon

(* interrupt_turn_for_control ends the turn and returns its unanswered *)
(* protected work.                                                     *)
LEMMA InterruptEffect ==
    ASSUME StoreInv, NEW t \in Turn, interrupt_turn_for_control(t), turn[t].row
    PROVE  /\ StoreInv' /\ UNCHANGED <<intent, thread>>
           /\ SuppressRelays({t})
           /\ TurnEnds(t, "interrupted")
           /\ \A u \in Turn : u # t => turn'[u] = turn[u] /\ turnAtt'[u] = turnAtt[u]
           /\ turnAtt'[t] = {p \in turnAtt[t] : p[1] \notin Unanswered(t)}
           /\ \A a \in Attention :
                /\ a \in Unanswered(t) => AttentionBack(a)
                /\ a \in Attached(t) \ Unanswered(t) => AttentionEnds(a, "interrupted")
                /\ a \notin Attached(t) => att'[a] = att[a]
<1> DEFINE U == Unanswered(t)
<1>0. InterruptTurn(t, U) /\ SuppressRelays({t})
  BY Zenon DEF interrupt_turn_for_control
<1>u. U \subseteq Attached(t) /\ \A a \in U : ~att[a].final
  BY DEF Unanswered
<1> HIDE DEF U
<1>1. /\ turn' = [turn EXCEPT ![t].done = TRUE, ![t].term = "interrupted"]
      /\ turnAtt' = [turnAtt EXCEPT ![t] = {p \in @ : p[1] \notin U}]
      /\ att' = [a \in Attention |->
          IF a \in U THEN Requeued(att[a])
          ELSE IF a \in Attached(t)
          THEN [att[a] EXCEPT !.done = TRUE, !.term = "interrupted"]
          ELSE att[a]]
      /\ UNCHANGED <<intent, thread>>
  BY <1>0, Zenon DEF InterruptTurn
<1>2. att \in [Attention -> AttentionRow] /\ turn \in [Turn -> TurnRow]
  BY DEF StoreInv, StoreTypeOK
<1>3. turn' \in [Turn -> TurnRow] /\ TurnEnds(t, "interrupted") /\ \A u \in Turn : u # t => turn'[u] = turn[u]
  <2> DEFINE n == [turn[t] EXCEPT !.done = TRUE, !.term = "interrupted"]
  <2>1. n \in TurnRow /\ n.row = turn[t].row /\ n.thread = turn[t].thread /\ n.done = TRUE /\ n.term = "interrupted"
    <3>1. turn[t] \in TurnRow
      BY ONLY <1>2, t \in Turn
    <3> QED
      BY ONLY <3>1, EndedRow DEF Terminal
  <2>2. turn' = [turn EXCEPT ![t] = n]
    BY ONLY <1>1, Zenon
  <2> HIDE DEF n
  <2> QED
    BY ONLY <1>2, <2>1, <2>2, t \in Turn, SMTT(40) DEF TurnEnds
<1>4. ASSUME NEW a \in Attention
      PROVE  /\ att'[a] \in AttentionRow
             /\ a \in U => AttentionBack(a)
             /\ a \in Attached(t) \ U => AttentionEnds(a, "interrupted")
             /\ a \notin Attached(t) => att'[a] = att[a]
  <2>1. CASE a \in U
    <3>1. att'[a] = Requeued(att[a])
      BY ONLY <1>1, <2>1, a \in Attention, Zenon
    <3>2. att'[a] \in AttentionRow /\ Keeps(att[a], att'[a])
          /\ att'[a].accepted = FALSE /\ att'[a].turn = 0 /\ att'[a].done = FALSE /\ att'[a].term = Open
      BY ONLY <1>2, <3>1, RequeuedRow, a \in Attention
    <3> QED
      BY ONLY <1>u, <2>1, <3>2 DEF AttentionBack, Keeps
  <2>2. CASE a \in Attached(t) /\ a \notin U
    <3>1. att'[a] = [att[a] EXCEPT !.done = TRUE, !.term = "interrupted"]
      BY ONLY <1>1, <2>2, a \in Attention, Zenon
    <3> QED
      BY ONLY <1>2, <2>2, <3>1, AttentionEnding, a \in Attention, Zenon DEF Terminal
  <2>3. CASE a \notin Attached(t) /\ a \notin U
    <3>1. att'[a] = att[a]
      BY ONLY <1>1, <2>3, a \in Attention, Zenon
    <3> QED
      BY ONLY <1>2, <2>3, <3>1, a \in Attention
  <2> QED
    BY <1>u, <2>1, <2>2, <2>3
<1>5. att' = [a \in Attention |-> att'[a]]
  BY ONLY <1>1, Zenon
<1>6. att' \in [Attention -> AttentionRow]
  BY ONLY <1>4, <1>5
<1>7. /\ turnAtt'[t] = {p \in turnAtt[t] : p[1] \notin U} /\ (\A u \in Turn : u # t => turnAtt'[u] = turnAtt[u])
      /\ turnAtt' \in [Turn -> SUBSET (Attention \X Nat)]
  BY ONLY <1>1, StoreInv, t \in Turn DEF StoreInv, StoreTypeOK
<1>8. \A u \in Turn : IsFiniteSet(turnAtt'[u])
  <2>1. turnAtt'[t] \subseteq turnAtt[t] /\ IsFiniteSet(turnAtt[t])
    BY ONLY <1>7, StoreInv, t \in Turn DEF StoreInv
  <2>2. IsFiniteSet(turnAtt'[t])
    BY ONLY <2>1, FS_Subset, Zenon
  <2> QED
    BY ONLY <1>7, <2>2, StoreInv, Zenon DEF StoreInv
<1>9. relay' \subseteq Relay
  BY <1>0, SuppressEffect DEF StoreInv, StoreTypeOK
<1>10. StoreInv'
  BY ONLY StoreInv, <1>1, <1>3, <1>6, <1>7, <1>8, <1>9 DEF StoreInv, StoreTypeOK
<1> QED
  BY ONLY <1>0, <1>1, <1>3, <1>4, <1>7, <1>10, Zenon DEF U

(* What close_room_for_control ends. *)
Unfinished == {a \in Attention :
    /\ att[a].stored /\ att[a].term = Open
    /\ \/ ~att[a].accepted \/ ~att[a].done
       \/ a \in ReplyRequired /\ ~att[a].final}

(* close_room_for_control ends all unfinished work and forgets the thread. *)
LEMMA CloseEffect ==
    ASSUME StoreInv, NEW c \in Attention, close_room_for_control(c)
    PROVE  /\ StoreInv' /\ UNCHANGED <<turnAtt, intent>> /\ thread' = 0
           /\ SuppressRelays({t \in Turn : turn[t].row})
           /\ \A t \in Turn : /\ turn[t].row /\ ~turn[t].done => TurnEnds(t, "cancelled")
                              /\ ~(turn[t].row /\ ~turn[t].done) => turn'[t] = turn[t]
           /\ \A a \in Attention : a # c =>
                /\ a \in Unfinished => AttentionEnds(a, "cancelled")
                /\ a \notin Unfinished => att'[a] = att[a]
           /\ att'[c].accepted /\ att'[c].stored = att[c].stored /\ att'[c].final = att[c].final
           /\ att'[c].turn = att[c].turn
           /\ c \in Unfinished => att'[c].done = TRUE /\ att'[c].term = "cancelled"
           /\ c \notin Unfinished => att'[c].done = att[c].done /\ att'[c].term = att[c].term
<1> DEFINE f == [a \in Attention |->
                  IF a \in Unfinished
                  THEN [att[a] EXCEPT !.done = TRUE, !.term = "cancelled"] ELSE att[a]]
<1>1. /\ turn' = [t \in Turn |-> IF turn[t].row /\ ~turn[t].done
                  THEN [turn[t] EXCEPT !.done = TRUE, !.term = "cancelled"]
                  ELSE turn[t]]
      /\ att' = [f EXCEPT ![c].accepted = TRUE, ![c].attempts = Cap(@ + 1)]
      /\ SuppressRelays({t \in Turn : turn[t].row})
      /\ thread' = 0
      /\ UNCHANGED <<turnAtt, intent>>
  BY Zenon DEF close_room_for_control, Unfinished
<1>2. att \in [Attention -> AttentionRow] /\ turn \in [Turn -> TurnRow]
  BY DEF StoreInv, StoreTypeOK
<1>3. ASSUME NEW t \in Turn
      PROVE  /\ turn'[t] \in TurnRow
             /\ turn[t].row /\ ~turn[t].done => TurnEnds(t, "cancelled")
             /\ ~(turn[t].row /\ ~turn[t].done) => turn'[t] = turn[t]
  <2>1. turn[t] \in TurnRow
    BY ONLY <1>2, t \in Turn
  <2>2. CASE turn[t].row /\ ~turn[t].done
    <3>1. turn'[t] = [turn[t] EXCEPT !.done = TRUE, !.term = "cancelled"]
      BY ONLY <1>1, <2>2, t \in Turn, Zenon
    <3> QED
      BY ONLY <2>1, <2>2, <3>1, TurnEnding, Zenon DEF Terminal
  <2>3. CASE ~(turn[t].row /\ ~turn[t].done)
    BY ONLY <1>1, <2>1, <2>3, t \in Turn, Zenon
  <2> QED
    BY <2>2, <2>3
<1>4. ASSUME NEW a \in Attention
      PROVE  /\ f[a] \in AttentionRow /\ f[a].stored = att[a].stored /\ f[a].final = att[a].final
             /\ f[a].accepted = att[a].accepted /\ f[a].turn = att[a].turn
             /\ a \in Unfinished => f[a].done = TRUE /\ f[a].term = "cancelled"
             /\ a \notin Unfinished => f[a] = att[a]
  <2>1. att[a] \in AttentionRow
    BY ONLY <1>2, a \in Attention
  <2>2. CASE a \in Unfinished
    <3> DEFINE n == f[a]
    <3>2. n = [att[a] EXCEPT !.done = TRUE, !.term = "cancelled"]
      BY ONLY <2>2, a \in Attention, Zenon
    <3>3. n = f[a]
      OBVIOUS
    <3>4. "cancelled" \in Terminal \cup {Open}
      BY DEF Terminal
    <3> HIDE DEF n, f
    <3>1. n \in AttentionRow /\ Keeps(att[a], n) /\ n.accepted = att[a].accepted /\ n.turn = att[a].turn
          /\ n.done = TRUE /\ n.term = "cancelled"
      BY ONLY <2>1, <3>2, <3>4, DoneRow, ZenonT(60)
    <3> QED
      BY ONLY <2>2, <3>1, <3>3 DEF Keeps
  <2>3. CASE a \notin Unfinished
    <3>1. f[a] = att[a]
      BY ONLY <2>3, a \in Attention, Zenon
    <3> HIDE DEF f
    <3> QED
      BY ONLY <2>1, <2>3, <3>1
  <2> QED
    BY <2>2, <2>3
<1>5. f = [a \in Attention |-> f[a]]
  BY ONLY TRUE, Zenon
<1> HIDE DEF f
<1>6. f \in [Attention -> AttentionRow]
  BY ONLY <1>4, <1>5
<1> DEFINE n == [f[c] EXCEPT !.accepted = TRUE, !.attempts = Cap(@ + 1)]
<1>7. n \in AttentionRow /\ Keeps(f[c], n) /\ n.accepted = TRUE /\ n.turn = f[c].turn /\ n.done = f[c].done
      /\ n.term = f[c].term
  <2>1. f[c] \in AttentionRow
    BY ONLY <1>6, c \in Attention
  <2> QED
    BY ONLY <2>1, ClosedRow
<1>8. att' = [f EXCEPT ![c] = n]
  BY ONLY <1>1, Zenon
<1> HIDE DEF n
<1>9. att' \in [Attention -> AttentionRow] /\ att'[c] = n /\ \A a \in Attention : a # c => att'[a] = f[a]
  BY ONLY <1>6, <1>7, <1>8, c \in Attention
<1>10. /\ att'[c].accepted /\ att'[c].stored = att[c].stored /\ att'[c].final = att[c].final
       /\ att'[c].turn = att[c].turn
       /\ c \in Unfinished => att'[c].done = TRUE /\ att'[c].term = "cancelled"
       /\ c \notin Unfinished => att'[c].done = att[c].done /\ att'[c].term = att[c].term
  BY ONLY <1>4, <1>7, <1>9, c \in Attention DEF Keeps
<1>11. ASSUME NEW a \in Attention, a # c
       PROVE  /\ a \in Unfinished => AttentionEnds(a, "cancelled")
              /\ a \notin Unfinished => att'[a] = att[a]
  BY ONLY <1>4, <1>9, <1>11 DEF AttentionEnds
<1>12. turn' \in [Turn -> TurnRow]
  <2>1. turn' = [t \in Turn |-> turn'[t]]
    BY ONLY <1>1, Zenon
  <2> QED
    BY ONLY <1>3, <2>1
<1>13. relay' \subseteq Relay
  BY <1>1, SuppressEffect DEF StoreInv, StoreTypeOK
<1>14. StoreInv'
  BY ONLY StoreInv, <1>1, <1>9, <1>12, <1>13 DEF StoreInv, StoreTypeOK
<1> QED
  BY ONLY <1>1, <1>3, <1>10, <1>11, <1>14, Zenon

(* mark_turn_completed ends the turn and what it carries. *)
LEMMA CompleteEffect ==
    ASSUME StoreInv, NEW t \in Turn, NEW s, mark_turn_completed(t, s), turn[t].row
    PROVE  LET v == IF s \in Terminal THEN s ELSE Open IN
           /\ StoreInv' /\ UNCHANGED <<turnAtt, intent, thread>>
           /\ IF s \in Terminal THEN SuppressRelays({t}) ELSE relay' = relay
           /\ TurnEnds(t, v)
           /\ \A u \in Turn : u # t => turn'[u] = turn[u]
           /\ \A a \in Attention :
                /\ att[a].turn = t => AttentionEnds(a, IF att[a].term = Open THEN v ELSE att[a].term)
                /\ att[a].turn # t => att'[a] = att[a]
<1> DEFINE v == IF s \in Terminal THEN s ELSE Open
<1>1. CompleteTurn(t, v) /\ (IF s \in Terminal THEN SuppressRelays({t}) ELSE relay' = relay)
  BY Zenon DEF mark_turn_completed
<1>2. v \in Terminal \cup {Open}
  OBVIOUS
<1> HIDE DEF v
<1>3. /\ turn' = [turn EXCEPT ![t].done = TRUE, ![t].term = v]
      /\ att' = [a \in Attention |-> IF att[a].turn = t
                 THEN [att[a] EXCEPT !.done = TRUE,
                                     !.term = IF att[a].term = Open THEN v ELSE att[a].term]
                 ELSE att[a]]
      /\ UNCHANGED <<turnAtt, intent, thread>>
  BY <1>1, Zenon DEF CompleteTurn
<1>4. att \in [Attention -> AttentionRow] /\ turn \in [Turn -> TurnRow]
  BY DEF StoreInv, StoreTypeOK
<1>5. turn' \in [Turn -> TurnRow] /\ TurnEnds(t, v) /\ \A u \in Turn : u # t => turn'[u] = turn[u]
  <2> DEFINE n == [turn[t] EXCEPT !.done = TRUE, !.term = v]
  <2>1. n \in TurnRow /\ n.row = turn[t].row /\ n.thread = turn[t].thread /\ n.done = TRUE /\ n.term = v
    <3>1. turn[t] \in TurnRow
      BY ONLY <1>4, t \in Turn
    <3> QED
      BY ONLY <1>2, <3>1 DEF TurnRow
  <2>2. turn' = [turn EXCEPT ![t] = n]
    BY ONLY <1>3, Zenon
  <2> HIDE DEF n
  <2> QED
    BY ONLY <1>4, <2>1, <2>2, t \in Turn DEF TurnEnds
<1>6. ASSUME NEW a \in Attention
      PROVE  /\ att'[a] \in AttentionRow
             /\ att[a].turn = t => AttentionEnds(a, IF att[a].term = Open THEN v ELSE att[a].term)
             /\ att[a].turn # t => att'[a] = att[a]
  <2>1. att[a] \in AttentionRow
    BY ONLY <1>4, a \in Attention
  <2>2. CASE att[a].turn = t
    <3> DEFINE w == IF att[a].term = Open THEN v ELSE att[a].term
    <3>1. att'[a] = [att[a] EXCEPT !.done = TRUE, !.term = w]
      BY ONLY <1>3, <2>2, a \in Attention, Zenon
    <3>2. w \in Terminal \cup {Open}
      BY ONLY <1>2, <2>1 DEF AttentionRow
    <3> HIDE DEF w
    <3>3. att'[a] \in AttentionRow /\ AttentionEnds(a, w)
      BY ONLY <2>1, <3>1, <3>2, AttentionEnding, Zenon
    <3> QED
      BY ONLY <2>2, <3>3, Zenon DEF w
  <2>3. CASE att[a].turn # t
    BY ONLY <1>3, <2>1, <2>3, a \in Attention, Zenon
  <2> QED
    BY <2>2, <2>3
<1>7. att' \in [Attention -> AttentionRow]
  <2>1. att' = [a \in Attention |-> att'[a]]
    BY ONLY <1>3, Zenon
  <2> QED
    BY ONLY <1>6, <2>1
<1>8. relay' \subseteq Relay
  BY <1>1, SuppressEffect DEF StoreInv, StoreTypeOK
<1>9. StoreInv'
  BY ONLY StoreInv, <1>3, <1>5, <1>7, <1>8 DEF StoreInv, StoreTypeOK
<1> QED
  BY ONLY <1>1, <1>3, <1>5, <1>6, <1>9, Zenon DEF v

-----------------------------------------------------------------------------
(* What each action does to the process that takes it *)

(* The per-process variables are functions with the fields the steps write. *)
Functions ==
    /\ pc \in [Owner -> Point] /\ Memories(mem)
    /\ work = [p \in Owner |-> work[p]] /\ inq = [p \in Owner |-> inq[p]]

(* Goto writes the point of its own process. *)
LEMMA GotoWrites ==
    ASSUME Functions, NEW o \in Owner, NEW p, Goto(o, p)
    PROVE  Wrote(pc', pc, o, p)
  BY WriteValue DEF Functions, Goto

(* A variable that is unchanged is written with its old value. *)
LEMMA StayWrites ==
    ASSUME Functions, NEW o \in Owner
    PROVE  /\ pc' = pc => Wrote(pc', pc, o, pc[o])
           /\ mem' = mem => Wrote(mem', mem, o, mem[o])
           /\ work' = work => Wrote(work', work, o, work[o])
           /\ inq' = inq => Wrote(inq', inq, o, inq[o])
  BY WriteNothing DEF Functions, Memories

(* Resuming a thread that Codex no longer has, which requeues its unfinished *)
(* turns writes the program point, the memory and the queues of its own      *)
(* process only, as stated.                                                  *)
LEMMA ResumeMissingActs ==
    ASSUME Functions, NEW o \in Owner, ResumeMissing(o)
    PROVE  Acts(o, IF unresolved_dispatches(thread) = {} THEN "replay" ELSE pc[o], mem[o], work[o], inq[o])
<1>1. mem' = mem /\ work' = work /\ inq' = inq
  BY Zenon DEF ResumeMissing, KeepRest
<1>2. IF unresolved_dispatches(thread) = {} THEN Goto(o, "replay") ELSE pc' = pc \/ FALSE
  BY Zenon DEF ResumeMissing
<1> QED
  BY ONLY Functions, o \in Owner, <1>1, <1>2, GotoWrites, StayWrites DEF Acts

(* Resuming the stored thread and reading its history writes the program *)
(* point, the memory and the queues of its own process only, as stated.  *)
LEMMA ResumeThreadActs ==
    ASSUME Functions, NEW o \in Owner, ResumeThread(o)
    PROVE  Acts(o, "reconcile", PutThreadView(mem[o], thread, authoritative_turns(thread)), work[o], inq[o])
<1> DEFINE v == authoritative_turns(thread)
<1>1. mem' = [mem EXCEPT ![o].thread = thread, ![o].view = v]
  BY Zenon DEF ResumeThread
<1> HIDE DEF v
<1>2. Goto(o, "reconcile") /\ work' = work /\ inq' = inq
  BY Zenon DEF ResumeThread, KeepRest
<1>3. Wrote(mem', mem, o, PutThreadView(mem[o], thread, v))
  BY ONLY Functions, o \in Owner, <1>1, WriteThreadView DEF Functions
<1>4. Wrote(mem', mem, o, PutThreadView(mem[o], thread, authoritative_turns(thread)))
  BY ONLY <1>3 DEF v
<1> QED
  BY ONLY Functions, o \in Owner, <1>2, <1>4, GotoWrites, StayWrites DEF Acts

(* Binding or giving up one dispatch that a crash left in flight writes the *)
(* program point, the memory and the queues of its own process only, as     *)
(* stated.                                                                  *)
LEMMA ReconcileActs ==
    ASSUME Functions, NEW o \in Owner, reconcile_dispatches(o) \/ PromoteCandidate(o) \/ Ingest(o)
    PROVE  Acts(o, pc[o], mem[o], work[o], inq[o])
<1>1. pc' = pc /\ mem' = mem /\ work' = work /\ inq' = inq
  BY Zenon DEF reconcile_dispatches, PromoteCandidate, Ingest, KeepRest
<1> QED
  BY ONLY Functions, o \in Owner, <1>1, StayWrites DEF Acts

(* Adopting or requeueing one accepted turn after a restart writes the  *)
(* program point, the memory and the queues of its own process only, as *)
(* stated.                                                              *)
LEMMA AdoptActs ==
    ASSUME Functions, NEW o \in Owner, reconcile_accepted_turns(o)
    PROVE  \/ Acts(o, pc[o], mem[o], work[o], inq[o])
           \/ \E t \in Unclassified(o) :
                /\ Absent(o, t) /\ adopt_recovered_turn(t, epochOf[o])
                /\ Acts(o, pc[o], PutActive(mem[o], IF mem[o].active = 0 THEN t ELSE mem[o].active), work[o], inq[o])
<1>1. pc' = pc /\ work' = work /\ inq' = inq
  BY Zenon DEF reconcile_accepted_turns, KeepRest
<1>2. CASE mem' = mem
  BY ONLY Functions, o \in Owner, <1>1, <1>2, StayWrites DEF Acts
<1>3. CASE mem' # mem
  <2>1. PICK t \in Unclassified(o) :
          /\ Absent(o, t) /\ adopt_recovered_turn(t, epochOf[o])
          /\ mem' = [mem EXCEPT ![o].active = IF mem[o].active = 0 THEN t ELSE mem[o].active]
    BY <1>3, Zenon DEF reconcile_accepted_turns
  <2> DEFINE v == IF mem[o].active = 0 THEN t ELSE mem[o].active
  <2>2. mem' = [mem EXCEPT ![o].active = v]
    BY <2>1, Zenon
  <2> HIDE DEF v
  <2>3. Wrote(mem', mem, o, PutActive(mem[o], v))
    BY ONLY Functions, o \in Owner, <2>2, WriteActive DEF Functions
  <2>4. Acts(o, pc[o], PutActive(mem[o], v), work[o], inq[o])
    BY ONLY Functions, o \in Owner, <1>1, <2>3, StayWrites DEF Acts
  <2> QED
    BY <2>1, <2>4, Zenon DEF v
<1> QED
  BY <1>2, <1>3

(* Replaying the recorded items of running and unfinished turns writes the *)
(* program point, the memory and the queues of its own process only, as    *)
(* stated.                                                                 *)
LEMMA ReplayActs ==
    ASSUME Functions, NEW o \in Owner, ReplayHistory(o)
    PROVE  LET running == {t \in Turn : mem[o].view[t].status = "inProgress"}
               unfinished == {t \in incomplete_turn_ids(mem[o].thread) : ~Absent(o, t)}
           IN  Acts(o, "replay",
                    PutViewActive(mem[o], NoView, IF running # {} THEN Last(running) ELSE mem[o].active),
                    ReplayAll(mem[o].view, running \cup unfinished), inq[o])
<1> DEFINE running == {t \in Turn : mem[o].view[t].status = "inProgress"}
           unfinished == {t \in incomplete_turn_ids(mem[o].thread) : ~Absent(o, t)}
           v == IF running # {} THEN Last(running) ELSE mem[o].active
           w == ReplayAll(mem[o].view, running \cup unfinished)
<1>1. /\ mem' = [mem EXCEPT ![o].view = NoView, ![o].active = v]
      /\ work' = [work EXCEPT ![o] = w] /\ inq' = inq /\ Goto(o, "replay")
  BY Zenon DEF ReplayHistory, KeepRest
<1> HIDE DEF v, w
<1>2. Wrote(mem', mem, o, PutViewActive(mem[o], NoView, v)) /\ Wrote(work', work, o, w)
  BY ONLY Functions, o \in Owner, <1>1, WriteViewActive, WriteValue DEF Functions
<1>3. Acts(o, "replay", PutViewActive(mem[o], NoView, v), w, inq[o])
  BY ONLY Functions, o \in Owner, <1>1, <1>2, GotoWrites, StayWrites DEF Acts
<1> QED
  BY ONLY <1>3 DEF v, w

(* Reaping the turns of earlier epochs at the end of recovery writes the *)
(* program point, the memory and the queues of its own process only, as  *)
(* stated.                                                               *)
LEMMA ReapActs ==
    ASSUME Functions, NEW o \in Owner, Reap(o)
    PROVE  Acts(o, "run", mem[o], work[o], inq[o])
<1>1. Goto(o, "run") /\ mem' = mem /\ work' = work /\ inq' = inq
  BY Zenon DEF Reap, KeepRest
<1> QED
  BY ONLY Functions, o \in Owner, <1>1, GotoWrites, StayWrites DEF Acts

(* Handling one agent item of a notification writes the program point, the *)
(* memory and the queues of its own process only, as stated.               *)
LEMMA ItemActs ==
    ASSUME Functions, NEW o \in Owner, handle_agent_item(o)
    PROVE  \E w : /\ w = Tail(work[o]) \/ w = <<NoReplyMessage(Head(work[o]).t)>> \o Tail(work[o])
                  /\ Acts(o, pc[o], mem[o], w, inq[o])
<1>1. pc' = pc /\ mem' = mem /\ inq' = inq
  BY Zenon DEF handle_agent_item, KeepRest
<1>2. PICK w : /\ w = Tail(work[o]) \/ w = <<NoReplyMessage(Head(work[o]).t)>> \o Tail(work[o])
               /\ work' = [work EXCEPT ![o] = w]
  BY Zenon DEF handle_agent_item, Handled
<1>3. Wrote(work', work, o, w)
  BY ONLY Functions, o \in Owner, <1>2, WriteValue DEF Functions
<1>4. Acts(o, pc[o], mem[o], w, inq[o])
  BY ONLY Functions, o \in Owner, <1>1, <1>3, StayWrites DEF Acts
<1> QED
  BY <1>2, <1>4

(* Handling the marker of a turn that will not reply writes the program *)
(* point, the memory and the queues of its own process only, as stated. *)
LEMMA NoReplyActs ==
    ASSUME Functions, NEW o \in Owner, HandleNoReply(o)
    PROVE  Acts(o, pc[o], mem[o], Tail(work[o]), inq[o])
<1>1. pc' = pc /\ mem' = mem /\ inq' = inq /\ work' = [work EXCEPT ![o] = Tail(work[o])]
  BY Zenon DEF HandleNoReply, Handled, KeepRest
<1>3. Wrote(work', work, o, Tail(work[o]))
  BY ONLY Functions, o \in Owner, <1>1, WriteValue DEF Functions
<1> QED
  BY ONLY Functions, o \in Owner, <1>1, <1>3, StayWrites DEF Acts

(* Handling a turn/completed notification writes the program point, the *)
(* memory and the queues of its own process only, as stated.            *)
LEMMA DoneActs ==
    ASSUME Functions, NEW o \in Owner, handle_turn_completed(o)
    PROVE  Acts(o, pc[o], PutActive(mem[o], IF mem[o].active = Head(work[o]).t THEN 0 ELSE mem[o].active),
                Tail(work[o]), inq[o])
<1> DEFINE v == IF mem[o].active = Head(work[o]).t THEN 0 ELSE mem[o].active
<1>1. pc' = pc /\ inq' = inq /\ work' = [work EXCEPT ![o] = Tail(work[o])]
      /\ mem' = [mem EXCEPT ![o].active = v]
  BY Zenon DEF handle_turn_completed, Handled, KeepRest
<1> HIDE DEF v
<1>2. Wrote(work', work, o, Tail(work[o])) /\ Wrote(mem', mem, o, PutActive(mem[o], v))
  BY ONLY Functions, o \in Owner, <1>1, WriteValue, WriteActive DEF Functions
<1>3. Acts(o, pc[o], PutActive(mem[o], v), Tail(work[o]), inq[o])
  BY ONLY Functions, o \in Owner, <1>1, <1>2, StayWrites DEF Acts
<1> QED
  BY ONLY <1>3 DEF v

(* Reading the queue of notifications writes the program point, the memory *)
(* and the queues of its own process only, as stated.                      *)
LEMMA DrainActs ==
    ASSUME Functions, NEW o \in Owner, drain_messages(o)
    PROVE  Acts(o, pc[o], mem[o], inq[o], <<>>)
<1>1. pc' = pc /\ mem' = mem /\ inq' = [inq EXCEPT ![o] = <<>>] /\ work' = [work EXCEPT ![o] = inq[o]]
  BY Zenon DEF drain_messages
<1>2. Wrote(work', work, o, inq[o]) /\ Wrote(inq', inq, o, <<>>)
  BY ONLY Functions, o \in Owner, <1>1, WriteValue DEF Functions
<1> QED
  BY ONLY Functions, o \in Owner, <1>1, <1>2, StayWrites DEF Acts

(* Reconciling the active turn when its notifications stop writes the program *)
(* point, the memory and the queues of its own process only, as stated.       *)
LEMMA ActiveActs ==
    ASSUME Functions, NEW o \in Owner, reconcile_active_turn(o)
    PROVE  \/ /\ ReplayFinished(o, mem[o].active) /\ UNCHANGED storeVars
              /\ Acts(o, pc[o], mem[o], recover_turn(authoritative_turns(mem[o].thread), mem[o].active), inq[o])
           \/ /\ ~InHistory(mem[o].thread, mem[o].active) /\ IdleServer(o, mem[o].thread) /\ Requeues(mem[o].active)
              /\ requeue_missing_turn(mem[o].active)
              /\ Acts(o, pc[o], PutActive(mem[o], 0), work[o], inq[o])
<1>1. pc' = pc /\ inq' = inq
  BY Zenon DEF reconcile_active_turn, KeepRest
<1>2. CASE ReplayFinished(o, mem[o].active) /\ UNCHANGED <<storeVars, mem>>
  <2> DEFINE w == recover_turn(authoritative_turns(mem[o].thread), mem[o].active)
  <2>1. work' = [work EXCEPT ![o] = w] /\ mem' = mem
    BY ONLY <1>2, Zenon DEF ReplayFinished
  <2> HIDE DEF w
  <2>2. Wrote(work', work, o, w)
    BY ONLY Functions, o \in Owner, <2>1, WriteValue DEF Functions
  <2>3. Acts(o, pc[o], mem[o], w, inq[o])
    BY ONLY Functions, o \in Owner, <1>1, <2>1, <2>2, StayWrites DEF Acts
  <2> QED
    BY ONLY <1>2, <2>3, Zenon DEF w
<1>3. CASE ~(ReplayFinished(o, mem[o].active) /\ UNCHANGED <<storeVars, mem>>)
  <2>1. /\ ~InHistory(mem[o].thread, mem[o].active) /\ IdleServer(o, mem[o].thread) /\ Requeues(mem[o].active)
        /\ requeue_missing_turn(mem[o].active)
        /\ mem' = [mem EXCEPT ![o].active = 0] /\ work' = work
    BY <1>3, Zenon DEF reconcile_active_turn
  <2>2. Wrote(mem', mem, o, PutActive(mem[o], 0))
    BY ONLY Functions, o \in Owner, <2>1, WriteActive DEF Functions
  <2>3. Acts(o, pc[o], PutActive(mem[o], 0), work[o], inq[o])
    BY ONLY Functions, o \in Owner, <1>1, <2>1, <2>2, StayWrites DEF Acts
  <2> QED
    BY ONLY <2>1, <2>3, Zenon
<1> QED
  BY <1>2, <1>3

(* The end of a dispatch goes to the relay loop or back to the run loop. *)
LEMMA EndWrites ==
    ASSUME Functions, NEW o \in Owner, EndDispatch(o)
    PROVE  \E p \in {"relay", "run"} : Wrote(pc', pc, o, p)
<1>1. \E p \in {"relay", "run"} : Goto(o, p)
  BY Zenon DEF EndDispatch
<1> QED
  BY ONLY Functions, o \in Owner, <1>1, GotoWrites

(* Retiring a legacy context event writes the program point, the memory and *)
(* the queues of its own process only, as stated.                           *)
LEMMA LegacyActs ==
    ASSUME Functions, NEW o \in Owner, DispatchLegacy(o)
    PROVE  \E p \in {"relay", "run"} : Acts(o, p, mem[o], work[o], inq[o])
<1>1. EndDispatch(o) /\ mem' = mem /\ work' = work /\ inq' = inq
  BY Zenon DEF DispatchLegacy, KeepRest
<1> QED
  BY ONLY Functions, o \in Owner, <1>1, EndWrites, StayWrites DEF Acts

(* Starting and storing a new thread writes the program point, the memory and *)
(* the queues of its own process only, as stated.                             *)
LEMMA ThreadActs ==
    ASSUME Functions, NEW o \in Owner, create_thread(o)
    PROVE  \E th \in Thread : /\ th \notin gone /\ \A t \in Turn : codex[t].thread # th
                              /\ mem[o].thread = 0 /\ set_thread(th)
                              /\ Acts(o, pc[o], PutThread(mem[o], th), work[o], inq[o])
<1>1. PICK th \in Thread : /\ th \notin gone /\ \A t \in Turn : codex[t].thread # th
                           /\ mem[o].thread = 0 /\ set_thread(th)
                           /\ mem' = [mem EXCEPT ![o].thread = th]
                           /\ pc' = pc /\ work' = work /\ inq' = inq
  BY Zenon DEF create_thread, KeepRest
<1>2. Wrote(mem', mem, o, PutThread(mem[o], th))
  BY ONLY Functions, o \in Owner, <1>1, WriteThread DEF Functions
<1>3. Acts(o, pc[o], PutThread(mem[o], th), work[o], inq[o])
  BY ONLY Functions, o \in Owner, <1>1, <1>2, StayWrites DEF Acts
<1> QED
  BY <1>1, <1>3

(* Recording the intent to dispatch an attention writes the program point, *)
(* the memory and the queues of its own process only, as stated.           *)
LEMMA PrepareActs ==
    ASSUME Functions, NEW o \in Owner, PrepareDispatch(o)
    PROVE  \E a \in Attention : /\ Select(o, a, {"task", "direct", "chat"}) /\ mem[o].thread # 0
                                /\ prepare_dispatch(a, mem[o].thread)
                                /\ Acts(o, "rpc", PutCur(mem[o], a), work[o], inq[o])
<1>1. PICK a \in Attention : /\ Select(o, a, {"task", "direct", "chat"}) /\ mem[o].thread # 0
                             /\ prepare_dispatch(a, mem[o].thread)
                             /\ mem' = [mem EXCEPT ![o].cur = a]
                             /\ Goto(o, "rpc") /\ work' = work /\ inq' = inq
  BY Zenon DEF PrepareDispatch, KeepRest
<1>2. Wrote(mem', mem, o, PutCur(mem[o], a))
  BY ONLY Functions, o \in Owner, <1>1, WriteCur DEF Functions
<1>3. Acts(o, "rpc", PutCur(mem[o], a), work[o], inq[o])
  BY ONLY Functions, o \in Owner, <1>1, <1>2, GotoWrites, StayWrites DEF Acts
<1> QED
  BY <1>1, <1>3

(* An accepted turn/start writes the program point, the memory and the queues *)
(* of its own process only, as stated.                                        *)
LEMMA StartTurnActs ==
    ASSUME Functions, NEW o \in Owner, StartTurn(o)
    PROVE  \E t \in Turn : /\ NewTurn(o, t, <<UserEntry(mem[o].cur)>>)
                           /\ Acts(o, "bind", PutActiveAcc(mem[o], t, t), work[o], inq[o])
<1>1. PICK t \in Turn : /\ NewTurn(o, t, <<UserEntry(mem[o].cur)>>)
                        /\ mem' = [mem EXCEPT ![o].active = t, ![o].acc = t]
                        /\ Goto(o, "bind") /\ work' = work /\ inq' = inq
  BY Zenon DEF StartTurn
<1>2. Wrote(mem', mem, o, PutActiveAcc(mem[o], t, t))
  BY ONLY Functions, o \in Owner, <1>1, WriteActiveAcc DEF Functions
<1>3. Acts(o, "bind", PutActiveAcc(mem[o], t, t), work[o], inq[o])
  BY ONLY Functions, o \in Owner, <1>1, <1>2, GotoWrites, StayWrites DEF Acts
<1> QED
  BY <1>1, <1>3

(* An accepted turn/steer writes the program point, the memory and the queues *)
(* of its own process only, as stated.                                        *)
LEMMA SteerActs ==
    ASSUME Functions, NEW o \in Owner, SteerTurn(o)
    PROVE  Acts(o, "bind", PutAcc(mem[o], mem[o].active), inq[o], <<>>)
<1>1. /\ mem' = [mem EXCEPT ![o].acc = mem[o].active]
      /\ work' = [work EXCEPT ![o] = inq[o]] /\ inq' = [inq EXCEPT ![o] = <<>>]
      /\ Goto(o, "bind")
  BY Zenon DEF SteerTurn
<1>2. Wrote(mem', mem, o, PutAcc(mem[o], mem[o].active))
      /\ Wrote(work', work, o, inq[o]) /\ Wrote(inq', inq, o, <<>>)
  BY ONLY Functions, o \in Owner, <1>1, WriteAcc, WriteValue DEF Functions
<1> QED
  BY ONLY Functions, o \in Owner, <1>1, <1>2, GotoWrites DEF Acts

(* A steer refused because another turn is active writes the program point, *)
(* the memory and the queues of its own process only, as stated.            *)
LEMMA MismatchActs ==
    ASSUME Functions, NEW o \in Owner, SteerMismatch(o)
    PROVE  \E t \in Turn : /\ codex[t].srv = o /\ codex[t].thread = mem[o].thread
                           /\ Acts(o, "retry", PutActive(mem[o], t), work[o], inq[o])
<1>1. PICK t \in Turn : /\ codex[t].srv = o /\ codex[t].thread = mem[o].thread
                        /\ mem' = [mem EXCEPT ![o].active = t]
                        /\ Goto(o, "retry") /\ work' = work /\ inq' = inq
  BY Zenon DEF SteerMismatch, KeepRest
<1>2. Wrote(mem', mem, o, PutActive(mem[o], t))
  BY ONLY Functions, o \in Owner, <1>1, WriteActive DEF Functions
<1>3. Acts(o, "retry", PutActive(mem[o], t), work[o], inq[o])
  BY ONLY Functions, o \in Owner, <1>1, <1>2, GotoWrites, StayWrites DEF Acts
<1> QED
  BY <1>1, <1>3

(* Binding an accepted dispatch to its turn writes the program point, the *)
(* memory and the queues of its own process only, as stated.              *)
LEMMA BindActs ==
    ASSUME Functions, NEW o \in Owner, BindDispatch(o)
    PROVE  \E p \in {"relay", "run"} : Acts(o, p, PutCurAcc(mem[o], 0, 0), work[o], inq[o])
<1>1. /\ mem' = [mem EXCEPT ![o].cur = 0, ![o].acc = 0]
      /\ EndDispatch(o) /\ work' = work /\ inq' = inq
  BY Zenon DEF BindDispatch, KeepRest
<1>2. Wrote(mem', mem, o, PutCurAcc(mem[o], 0, 0))
  BY ONLY Functions, o \in Owner, <1>1, WriteCurAcc DEF Functions
<1> QED
  BY ONLY Functions, o \in Owner, <1>1, <1>2, EndWrites, StayWrites DEF Acts

(* A refused call writes the program point, the memory and the queues of its *)
(* own process only, as stated.                                              *)
LEMMA RejectActs ==
    ASSUME Functions, NEW o \in Owner, RpcRejected(o)
    PROVE  Acts(o, "rejected", PutNow(mem[o], FALSE), work[o], inq[o])
<1>1. /\ mem' = [mem EXCEPT ![o].now = FALSE]
      /\ Goto(o, "rejected") /\ work' = work /\ inq' = inq
  BY Zenon DEF RpcRejected, KeepRest
<1>2. Wrote(mem', mem, o, PutNow(mem[o], FALSE))
  BY ONLY Functions, o \in Owner, <1>1, WriteNow DEF Functions
<1> QED
  BY ONLY Functions, o \in Owner, <1>1, <1>2, GotoWrites, StayWrites DEF Acts

(* A steer refused because no turn is active writes the program point, the *)
(* memory and the queues of its own process only, as stated.               *)
LEMMA InactiveActs ==
    ASSUME Functions, NEW o \in Owner, SteerInactive(o)
    PROVE  \/ /\ ReplayFinished(o, mem[o].active) /\ UNCHANGED storeVars
              /\ Acts(o, "rejected", PutNow(mem[o], TRUE),
                      recover_turn(authoritative_turns(mem[o].thread), mem[o].active), inq[o])
           \/ /\ requeue_missing_turn(mem[o].active)
              /\ Acts(o, "rejected",
                      PutNowActive(mem[o], Requeues(mem[o].active),
                                   IF Requeues(mem[o].active) THEN 0 ELSE mem[o].active),
                      work[o], inq[o])
<1>1. Goto(o, "rejected") /\ inq' = inq
  BY Zenon DEF SteerInactive, KeepRest
<1>2. CASE ReplayFinished(o, mem[o].active) /\ mem' = [mem EXCEPT ![o].now = TRUE] /\ UNCHANGED storeVars
  <2> DEFINE w == recover_turn(authoritative_turns(mem[o].thread), mem[o].active)
  <2>1. work' = [work EXCEPT ![o] = w] /\ mem' = [mem EXCEPT ![o].now = TRUE]
    BY ONLY <1>2, Zenon DEF ReplayFinished
  <2> HIDE DEF w
  <2>2. Wrote(work', work, o, w) /\ Wrote(mem', mem, o, PutNow(mem[o], TRUE))
    BY ONLY Functions, o \in Owner, <2>1, WriteValue, WriteNow DEF Functions
  <2>3. Acts(o, "rejected", PutNow(mem[o], TRUE), w, inq[o])
    BY ONLY Functions, o \in Owner, <1>1, <2>1, <2>2, GotoWrites, StayWrites DEF Acts
  <2> QED
    BY ONLY <1>2, <2>3, Zenon DEF w
<1>3. CASE ~(ReplayFinished(o, mem[o].active) /\ mem' = [mem EXCEPT ![o].now = TRUE] /\ UNCHANGED storeVars)
  <2> DEFINE n == Requeues(mem[o].active)
             v == IF Requeues(mem[o].active) THEN 0 ELSE mem[o].active
  <2>1. /\ requeue_missing_turn(mem[o].active) /\ work' = work
        /\ mem' = [mem EXCEPT ![o].now = n, ![o].active = v]
    BY <1>3, Zenon DEF SteerInactive
  <2> HIDE DEF n, v
  <2>2. Wrote(mem', mem, o, PutNowActive(mem[o], n, v))
    BY ONLY Functions, o \in Owner, <2>1, WriteNowActive DEF Functions
  <2>3. Acts(o, "rejected", PutNowActive(mem[o], n, v), work[o], inq[o])
    BY ONLY Functions, o \in Owner, <1>1, <2>1, <2>2, GotoWrites, StayWrites DEF Acts
  <2> QED
    BY ONLY <2>1, <2>3, Zenon DEF n, v
<1> QED
  BY <1>2, <1>3

(* Deferring an attention whose call was refused writes the program point, *)
(* the memory and the queues of its own process only, as stated.           *)
LEMMA DeferActs ==
    ASSUME Functions, NEW o \in Owner, DeferRejected(o)
    PROVE  \E p \in {"relay", "run"} : Acts(o, p, PutCurNow(mem[o], 0, FALSE), work[o], inq[o])
<1>1. /\ mem' = [mem EXCEPT ![o].cur = 0, ![o].now = FALSE]
      /\ EndDispatch(o) /\ work' = work /\ inq' = inq
  BY Zenon DEF DeferRejected, KeepRest
<1>2. Wrote(mem', mem, o, PutCurNow(mem[o], 0, FALSE))
  BY ONLY Functions, o \in Owner, <1>1, WriteCurNow DEF Functions
<1> QED
  BY ONLY Functions, o \in Owner, <1>1, <1>2, EndWrites, StayWrites DEF Acts

(* Asking Codex to interrupt the active turn for a /stop writes the program *)
(* point, the memory and the queues of its own process only, as stated.     *)
LEMMA StopInterruptActs ==
    ASSUME Functions, NEW o \in Owner, StopInterrupt(o)
    PROVE  \E c \in Attention :
              /\ Select(o, c, {"stop"}) /\ mem[o].active # 0
              /\ \/ /\ codex' = [codex EXCEPT ![mem[o].active].stop = TRUE] /\ UNCHANGED storeVars
                    /\ Acts(o, "stopTurn", PutCur(mem[o], c), work[o], inq[o])
                 \/ /\ Fenced(o) /\ defer_attention(c) /\ codex' = codex
                    /\ \E p \in {"relay", "run"} : Acts(o, p, mem[o], work[o], inq[o])
<1>1. PICK c \in Attention :
        /\ Select(o, c, {"stop"}) /\ mem[o].active # 0
        /\ work' = work /\ inq' = inq
        /\ \/ /\ mem' = [mem EXCEPT ![o].cur = c]
              /\ codex' = [codex EXCEPT ![mem[o].active].stop = TRUE]
              /\ Goto(o, "stopTurn") /\ UNCHANGED storeVars
           \/ /\ Fenced(o) /\ defer_attention(c) /\ EndDispatch(o) /\ mem' = mem /\ codex' = codex
  BY Zenon DEF StopInterrupt
<1>2. CASE /\ mem' = [mem EXCEPT ![o].cur = c]
           /\ codex' = [codex EXCEPT ![mem[o].active].stop = TRUE]
           /\ Goto(o, "stopTurn") /\ UNCHANGED storeVars
  <2>1. Wrote(mem', mem, o, PutCur(mem[o], c))
    BY ONLY Functions, o \in Owner, <1>2, WriteCur DEF Functions
  <2>2. Acts(o, "stopTurn", PutCur(mem[o], c), work[o], inq[o])
    BY ONLY Functions, o \in Owner, <1>1, <1>2, <2>1, GotoWrites, StayWrites DEF Acts
  <2> QED
    BY ONLY <1>1, <1>2, <2>2, Zenon
<1>3. CASE Fenced(o) /\ defer_attention(c) /\ EndDispatch(o) /\ mem' = mem /\ codex' = codex
  <2>1. \E p \in {"relay", "run"} : Acts(o, p, mem[o], work[o], inq[o])
    BY ONLY Functions, o \in Owner, <1>1, <1>3, EndWrites, StayWrites DEF Acts
  <2> QED
    BY ONLY <1>1, <1>3, <2>1, Zenon
<1> QED
  BY <1>1, <1>2, <1>3, Zenon

(* Recording the interrupted turn of a /stop writes the program point, the *)
(* memory and the queues of its own process only, as stated.               *)
LEMMA StopTurnActs ==
    ASSUME Functions, NEW o \in Owner, StopTurn(o)
    PROVE  Acts(o, "stopPending", PutActive(mem[o], 0), work[o], inq[o])
<1>1. /\ mem' = [mem EXCEPT ![o].active = 0]
      /\ Goto(o, "stopPending") /\ work' = work /\ inq' = inq
  BY Zenon DEF StopTurn, KeepRest
<1>2. Wrote(mem', mem, o, PutActive(mem[o], 0))
  BY ONLY Functions, o \in Owner, <1>1, WriteActive DEF Functions
<1> QED
  BY ONLY Functions, o \in Owner, <1>1, <1>2, GotoWrites, StayWrites DEF Acts

(* Cancelling the pending attentions before a /stop writes the program point, *)
(* the memory and the queues of its own process only, as stated.              *)
LEMMA StopPendingActs ==
    ASSUME Functions, NEW o \in Owner, StopPending(o)
    PROVE  \E p \in {"relay", "run"} : Acts(o, p, PutCur(mem[o], 0), work[o], inq[o])
<1>1. /\ mem' = [mem EXCEPT ![o].cur = 0]
      /\ EndDispatch(o) /\ work' = work /\ inq' = inq
  BY Zenon DEF StopPending, KeepRest
<1>2. Wrote(mem', mem, o, PutCur(mem[o], 0))
  BY ONLY Functions, o \in Owner, <1>1, WriteCur DEF Functions
<1> QED
  BY ONLY Functions, o \in Owner, <1>1, <1>2, EndWrites, StayWrites DEF Acts

(* Closing the room writes the program point, the memory and the queues of *)
(* its own process only, as stated.                                        *)
LEMMA CloseActs ==
    ASSUME Functions, NEW o \in Owner, CloseRoom(o)
    PROVE  \E p \in {"relay", "run"} : Acts(o, p, PutActiveThread(mem[o], 0, 0), work[o], inq[o])
<1>1. /\ mem' = [mem EXCEPT ![o].active = 0, ![o].thread = 0]
      /\ EndDispatch(o) /\ work' = work /\ inq' = inq
  BY Zenon DEF CloseRoom
<1>2. Wrote(mem', mem, o, PutActiveThread(mem[o], 0, 0))
  BY ONLY Functions, o \in Owner, <1>1, WriteActiveThread DEF Functions
<1> QED
  BY ONLY Functions, o \in Owner, <1>1, <1>2, EndWrites, StayWrites DEF Acts

(* Taking a row puts it in hand and leaves the others in the batch. *)
LEMMA TakeRowActs ==
    ASSUME Functions, NEW o \in Owner, NEW rows, TakeRow(o, rows)
    PROVE  \E r \in rows : Acts(o, "post", PutSendingBatch(mem[o], r, rows \ {r}), work[o], inq[o])
<1>1. PICK r \in rows : mem' = [mem EXCEPT ![o].sending = r, ![o].batch = rows \ {r}]
  BY Zenon DEF TakeRow
<1>2. Goto(o, "post") /\ work' = work /\ inq' = inq
  BY Zenon DEF TakeRow, KeepRest
<1> DEFINE b == rows \ {r}
<1>3. mem' = [mem EXCEPT ![o].sending = r, ![o].batch = b]
  BY <1>1
<1> HIDE DEF b
<1>4. Wrote(mem', mem, o, PutSendingBatch(mem[o], r, b))
  BY ONLY Functions, o \in Owner, <1>3, WriteSendingBatch DEF Functions
<1>5. Acts(o, "post", PutSendingBatch(mem[o], r, b), work[o], inq[o])
  BY ONLY Functions, o \in Owner, <1>2, <1>4, GotoWrites, StayWrites DEF Acts
<1> QED
  BY <1>5, Zenon DEF b

(* After a row the process takes the next of its batch, or goes back to the *)
(* run loop.                                                                *)
LEMMA NextRowActs ==
    ASSUME Functions, NEW o \in Owner, NextRow(o), work' = work, inq' = inq
    PROVE  \E p \in {"run", "batch"} : Acts(o, p, PutSending(mem[o], NoRelay), work[o], inq[o])
<1>1. mem' = [mem EXCEPT ![o].sending = NoRelay] /\ \E p \in {"run", "batch"} : Goto(o, p)
  BY Zenon DEF NextRow
<1>2. Wrote(mem', mem, o, PutSending(mem[o], NoRelay))
  BY ONLY Functions, o \in Owner, <1>1, WriteSending DEF Functions
<1> QED
  BY ONLY Functions, o \in Owner, work' = work, inq' = inq, <1>1, <1>2, GotoWrites, StayWrites DEF Acts

(* Posting a relay row, accepted or failed writes the program point, the *)
(* memory and the queues of its own process only, as stated.             *)
LEMMA PostActs ==
    ASSUME Functions, NEW o \in Owner, PostAccepted(o)
    PROVE  Acts(o, "mark", mem[o], work[o], inq[o])
<1>1. Goto(o, "mark") /\ mem' = mem /\ work' = work /\ inq' = inq
  BY Zenon DEF PostAccepted
<1> QED
  BY ONLY Functions, o \in Owner, <1>1, GotoWrites, StayWrites DEF Acts

(* Claiming the lease and starting the server writes the program point, the *)
(* memory and the queues of its own process only, as stated.                *)
LEMMA StartActs ==
    ASSUME Functions, NEW o \in Owner, Start(o)
    PROVE  Acts(o, "resume", mem[o], work[o], inq[o])
<1>1. Goto(o, "resume") /\ mem' = mem /\ work' = work /\ inq' = inq
  BY Zenon DEF Start
<1> QED
  BY ONLY Functions, o \in Owner, <1>1, GotoWrites, StayWrites DEF Acts

(* The exit or crash of a process writes the program point, the memory and *)
(* the queues of its own process only, as stated.                          *)
LEMMA LeaveActs ==
    ASSUME Functions, NEW o \in Owner, Leave(o)
    PROVE  Acts(o, "dead", NoMem, <<>>, <<>>)
<1>1. /\ Goto(o, "dead") /\ mem' = [mem EXCEPT ![o] = NoMem]
      /\ work' = [work EXCEPT ![o] = <<>>] /\ inq' = [inq EXCEPT ![o] = <<>>]
  BY Zenon DEF Leave
<1>2. Wrote(mem', mem, o, NoMem) /\ Wrote(work', work, o, <<>>) /\ Wrote(inq', inq, o, <<>>)
  BY ONLY Functions, o \in Owner, <1>1, WriteValue DEF Functions, Memories
<1> QED
  BY ONLY Functions, o \in Owner, <1>1, <1>2, GotoWrites DEF Acts

-----------------------------------------------------------------------------
(* The types of the whole state *)

(* The inductive invariant of the types: tables, Codex, every process, and *)
(* turn rows that name the turn's own thread.                              *)
AdapterInv ==
    /\ StoreInv /\ CodexInv
    /\ inq = [o \in Owner |-> inq[o]]
    /\ \A o \in Owner : Process(o)
    /\ posted \subseteq RelayOp
    /\ \A t \in Turn : turn[t].row => Seen(codex, turn[t].thread, t)

(* A turn row is kept, or written for a turn of its thread. *)
RowsKeep ==
    \A t \in Turn : turn'[t].row => \/ turn[t].row /\ turn'[t].thread = turn[t].thread
                                    \/ Seen(codex, turn'[t].thread, t)

(* The invariants give the shapes the steps write. *)
LEMMA AreFunctions == RelayInv /\ AdapterInv => Functions
  BY DEF RelayInv, AdapterInv, Functions, Memories

(* A step of one process that keeps it, the tables and Codex consistent keeps *)
(* the invariant.                                                             *)
LEMMA ActsKeep ==
    ASSUME AdapterInv, StoreInv', CodexInv', NEW o \in Owner, CodexGrows(o), RowsKeep,
           NEW p, NEW m, NEW w, NEW q, Acts(o, p, m, w, q), MemoryOK(codex', m), PointOK(codex', o, p, m, w, q),
           w \in Seq(Known(codex')), q \in Seq(Known(codex')), posted' \subseteq RelayOp
    PROVE  AdapterInv'
<1>1. \A u \in Owner : Process(u)'
  BY ProcessActs DEF AdapterInv
<1>2. inq' = [u \in Owner |-> inq'[u]]
  BY DEF Acts, Wrote
<1>3. \A t \in Turn : turn'[t].row => Seen(codex', turn'[t].thread, t)
  BY DEF AdapterInv, RowsKeep, Seen, CodexGrows, Continued
<1> QED
  BY <1>1, <1>2, <1>3 DEF AdapterInv

(* The same for a step that leaves Codex alone. *)
LEMMA ActsQuiet ==
    ASSUME AdapterInv, StoreInv', RowsKeep, codex' = codex, gone' = gone, NEW o \in Owner,
           NEW p, NEW m, NEW w, NEW q, Acts(o, p, m, w, q), MemoryOK(codex, m), PointOK(codex, o, p, m, w, q),
           w \in Seq(Known(codex)), q \in Seq(Known(codex)), posted' = posted
    PROVE  AdapterInv'
<1>1. CodexInv' /\ CodexGrows(o)
  BY CodexSame DEF AdapterInv
<1>2. MemoryOK(codex', m) /\ PointOK(codex', o, p, m, w, q)
      /\ w \in Seq(Known(codex')) /\ q \in Seq(Known(codex'))
  OBVIOUS
<1>3. posted' \subseteq RelayOp
  BY DEF AdapterInv
<1> QED
  BY <1>1, <1>2, <1>3, ActsKeep

(* What KeepRest keeps. *)
LEMMA RestKept == KeepRest => codex' = codex /\ gone' = gone /\ posted' = posted /\ inq' = inq
                              /\ lease' = lease /\ epochOf' = epochOf /\ alive' = alive
  BY DEF KeepRest, codexVars, leaseVars

(* Tables at rest keep their types. *)
LEMMA StoreSame ==
    ASSUME StoreInv, UNCHANGED storeVars
    PROVE  StoreInv'
  BY DEF StoreInv, StoreTypeOK, storeVars

(* set_thread writes the thread of the room. *)
LEMMA SetThreadEffect ==
    ASSUME StoreInv, NEW th \in Thread \cup {0}, set_thread(th)
    PROVE  StoreInv' /\ thread' = th /\ UNCHANGED <<att, turn, turnAtt, intent, relay>>
  BY DEF StoreInv, StoreTypeOK, set_thread

(* The attentions of a turn are attentions. *)
LEMMA AttachedIn ==
    ASSUME StoreInv, NEW t \in Turn
    PROVE  Attached(t) \subseteq Attention /\ accepted_for_turn(t) \subseteq Attention
  BY DEF StoreInv, StoreTypeOK, Attached, accepted_for_turn

(* The kind and the status that an item of some phase gets. *)
LEMMA KindTypes ==
    ASSUME NEW t, NEW phase \in Phase
    PROVE  KindOf(t, phase)[1] \in RelayKind /\ KindOf(t, phase)[2] \in {"pending", "held", "suppressed"}
  BY DEF KindOf, Phase, RelayKind

(* o's process, in the parts its steps use. *)
LEMMA ProcessOf ==
    ASSUME AdapterInv, NEW o \in Owner
    PROVE  /\ MemoryOK(codex, mem[o]) /\ PointOK(codex, o, pc[o], mem[o], work[o], inq[o])
           /\ work[o] \in Seq(Known(codex)) /\ inq[o] \in Seq(Known(codex))
           /\ <<>> \in Seq(Known(codex))
  BY DEF AdapterInv, Process

(* The transactions, for the types and the turn rows. *)
LEMMA RowsSame ==
    ASSUME turn' = turn
    PROVE  RowsKeep
  BY DEF RowsKeep

(* What a requeue does to each turn and each attention. *)
LEMMA RequeueParts ==
    ASSUME StoreInv, NEW X, X \subseteq Turn, RequeueTurns(X, TRUE) \/ RequeueTurns(X, FALSE)
    PROVE  /\ \A t \in X : TurnEnds(t, "failed") /\ turnAtt'[t] = {}
           /\ \A t \in Turn : t \notin X => turn'[t] = turn[t] /\ turnAtt'[t] = turnAtt[t]
           /\ \A a \in Attention :
                \/ att'[a] = att[a] /\ \A t \in X : a \in Attached(t) => att[a].final
                \/ (\E t \in X : a \in Attached(t)) /\ AttentionBack(a)
<1>1. TRUE \in BOOLEAN /\ FALSE \in BOOLEAN
  OBVIOUS
<1>2. /\ \A t \in X : /\ turn'[t].row = turn[t].row /\ turn'[t].thread = turn[t].thread
                      /\ turn'[t].done = TRUE /\ turn'[t].term = "failed" /\ turnAtt'[t] = {}
      /\ \A t \in Turn : t \notin X => turn'[t] = turn[t] /\ turnAtt'[t] = turnAtt[t]
      /\ \A a \in Attention :
           \/ att'[a] = att[a]
              /\ \A t \in X : a \in Attached(t) => att[a].final
           \/ /\ \E t \in X : a \in Attached(t)
              /\ att'[a].stored = att[a].stored /\ att'[a].final = att[a].final /\ ~att[a].final
              /\ att'[a].accepted = FALSE /\ att'[a].turn = 0 /\ att'[a].done = FALSE /\ att'[a].term = Open
  <2>1. CASE RequeueTurns(X, TRUE)
    BY ONLY StoreInv, X \subseteq Turn, <1>1, <2>1, RequeueEffect, Zenon
  <2>2. CASE RequeueTurns(X, FALSE)
    BY ONLY StoreInv, X \subseteq Turn, <1>1, <2>2, RequeueEffect, Zenon
  <2> QED
    BY <2>1, <2>2
<1> QED
  BY ONLY <1>2, Zenon DEF TurnEnds, AttentionBack

(* A requeued turn loses its attentions, which go back to the pending lane *)
(* unless answered; the types and the turn rows are kept.                  *)
LEMMA RequeueRows ==
    ASSUME StoreInv, NEW X, X \subseteq Turn, RequeueTurns(X, TRUE) \/ RequeueTurns(X, FALSE)
    PROVE  RowsKeep
<1>1. /\ \A t \in X : TurnEnds(t, "failed")
      /\ \A t \in Turn : t \notin X => turn'[t] = turn[t]
  BY RequeueParts, Zenon
<1> QED
  BY <1>1 DEF RowsKeep, TurnEnds

(* finalize_dispatch closes the intent and accepts the attention; the types *)
(* and the turn rows are kept.                                              *)
LEMMA FinalizeRows ==
    ASSUME StoreInv, NEW a \in Attention, NEW t \in Turn, NEW th \in Thread \cup {0}, NEW e \in Nat,
           NEW s \in {"accepted", "reconciled"}, finalize_dispatch(a, th, t, e, s), Seen(codex, th, t)
    PROVE  StoreInv' /\ RowsKeep
<1>1. StoreInv'
  BY FinalizeEffect
<1>2. MarkAccepted(a, th, t, e)
  BY DEF finalize_dispatch
<1>3. /\ \A u \in Turn : u # t => turn'[u] = turn[u]
      /\ turn[t].row => turn'[t] = turn[t]
      /\ ~turn[t].row => turn'[t].thread = th
  BY <1>2, AcceptEffect
<1> QED
  BY <1>1, <1>3 DEF RowsKeep

(* retry_unobserved_dispatch fails the intent of a dispatch that Codex never *)
(* saw; the types and the turn rows are kept.                                *)
LEMMA RetryRows ==
    ASSUME StoreInv, NEW a \in Attention, retry_unobserved_dispatch(a)
    PROVE  StoreInv' /\ RowsKeep
  BY RetryEffect, RowsSame

(* requeue_missing_thread forgets the thread and requeues its silent turns; *)
(* the types and the turn rows are kept.                                    *)
LEMMA MissingThreadRows ==
    ASSUME StoreInv, NEW th, requeue_missing_thread(th)
    PROVE  StoreInv' /\ RowsKeep
<1> DEFINE S == {t \in incomplete_turn_ids(th) : RelaysOf(t) = {}}
<1>1. StoreInv' /\ RequeueTurns(S, FALSE)
  BY MissingThreadEffect
<1>2. S \subseteq Turn
  BY DEF incomplete_turn_ids
<1> HIDE DEF S
<1> QED
  BY <1>1, <1>2, RequeueRows

(* requeue_missing_turn requeues a turn without output, or does nothing; the *)
(* types and the turn rows are kept.                                         *)
LEMMA MissingTurnRows ==
    ASSUME StoreInv, NEW t \in Turn, requeue_missing_turn(t)
    PROVE  StoreInv' /\ RowsKeep
  BY MissingTurnEffect, RequeueRows, RowsSame

(* adopt_recovered_turn moves a turn to the new epoch; the types and the turn *)
(* rows are kept.                                                             *)
LEMMA AdoptRows ==
    ASSUME StoreInv, NEW t \in Turn, NEW e \in Nat, adopt_recovered_turn(t, e)
    PROVE  StoreInv' /\ RowsKeep
  BY AdoptEffect DEF RowsKeep

(* reap_stale_turns_after_recovery interrupts turns of earlier epochs, not *)
(* what still needs a reply; the types and the turn rows are kept.         *)
LEMMA ReapRows ==
    ASSUME StoreInv, NEW e \in Nat, reap_stale_turns_after_recovery(e)
    PROVE  StoreInv' /\ RowsKeep
  BY ReapEffect DEF RowsKeep, TurnEnds

(* interrupt_turn_for_control ends the turn and returns its unanswered *)
(* protected work; the types and the turn rows are kept.               *)
LEMMA InterruptRows ==
    ASSUME StoreInv, NEW t \in Turn, interrupt_turn_for_control(t)
    PROVE  StoreInv' /\ RowsKeep
<1>1. CASE turn[t].row
  BY <1>1, InterruptEffect DEF RowsKeep, TurnEnds
<1>2. CASE ~turn[t].row
  <2>1. UNCHANGED storeVars
    BY <1>2 DEF interrupt_turn_for_control
  <2> QED
    BY <2>1, StoreSame, RowsSame DEF storeVars
<1> QED
  BY <1>1, <1>2

(* mark_turn_completed ends the turn and what it carries; the types and the *)
(* turn rows are kept.                                                      *)
LEMMA CompleteRows ==
    ASSUME StoreInv, NEW t \in Turn, NEW s, mark_turn_completed(t, s)
    PROVE  StoreInv' /\ RowsKeep
<1>1. CASE turn[t].row
  BY <1>1, CompleteEffect DEF RowsKeep, TurnEnds
<1>2. CASE ~turn[t].row
  <2>1. UNCHANGED storeVars
    BY <1>2 DEF mark_turn_completed
  <2> QED
    BY <2>1, StoreSame, RowsSame DEF storeVars
<1> QED
  BY <1>1, <1>2

(* close_room_for_control ends all unfinished work and forgets the thread; *)
(* the types and the turn rows are kept.                                   *)
LEMMA CloseRows ==
    ASSUME StoreInv, NEW c \in Attention, close_room_for_control(c)
    PROVE  StoreInv' /\ RowsKeep
<1>1. /\ StoreInv'
      /\ \A t \in Turn : /\ turn[t].row /\ ~turn[t].done => TurnEnds(t, "cancelled")
                         /\ ~(turn[t].row /\ ~turn[t].done) => turn'[t] = turn[t]
  BY CloseEffect, Zenon
<1>2. ASSUME NEW t \in Turn PROVE turn'[t].row = turn[t].row /\ turn'[t].thread = turn[t].thread
  <2>1. CASE turn[t].row /\ ~turn[t].done
    BY <1>1, <2>1 DEF TurnEnds
  <2>2. CASE ~(turn[t].row /\ ~turn[t].done)
    BY <1>1, <2>2
  <2> QED
    BY <2>1, <2>2
<1> QED
  BY <1>1, <1>2 DEF RowsKeep

(* create_relay_item adds at most one row; the types and the turn rows are *)
(* kept.                                                                   *)
LEMMA CreateRows ==
    ASSUME StoreInv, NEW op \in RelayOp, NEW s \in {"pending", "held", "suppressed"}, create_relay_item(op, s)
    PROVE  StoreInv' /\ RowsKeep
  BY CreateEffect, RowsSame

(* The output of an item or a candidate adds at most one row; the types and *)
(* the turn rows are kept.                                                  *)
LEMMA OutputRows ==
    ASSUME StoreInv, NEW t \in Turn, NEW i \in Item, NEW f \in BOOLEAN, NEW k \in RelayKind,
           NEW cov, cov \subseteq Attention, NEW s \in {"pending", "held", "suppressed"},
           create_output(t, i, f, k, cov, s)
    PROVE  StoreInv' /\ RowsKeep
<1>1. CASE cov = {}
  <2>1. UNCHANGED storeVars
    BY <1>1 DEF create_output
  <2> QED
    BY <2>1, StoreSame, RowsSame DEF storeVars
<1>2. CASE cov # {}
  <2>1. create_relay_item(Op(t, i, f, k, cov), s)
    BY <1>2 DEF create_output
  <2>2. Op(t, i, f, k, cov) \in RelayOp
    BY DEF Op, RelayOp
  <2> QED
    BY <2>1, <2>2, CreateRows
<1> QED
  BY <1>1, <1>2

(* ingest_inbox stores the next event of the inbox; the types and the turn *)
(* rows are kept.                                                          *)
LEMMA IngestRows ==
    ASSUME StoreInv, ingest_inbox
    PROVE  StoreInv' /\ RowsKeep
<1>1. StoreInv' /\ turn' = turn
  BY IngestEffect DEF ingest_inbox
<1> QED
  BY <1>1, RowsSame

(* Resuming a thread that Codex no longer has, which requeues its unfinished *)
(* turns keeps the types and what every process knows of Codex.              *)
LEMMA ResumeMissingKeeps ==
    ASSUME Functions, AdapterInv, LeaseInv, NEW o \in Owner, ResumeMissing(o)
    PROVE  AdapterInv'
<1> DEFINE p == IF unresolved_dispatches(thread) = {} THEN "replay" ELSE pc[o]
<1>1. Acts(o, p, mem[o], work[o], inq[o])
  BY ResumeMissingActs
<1>2. KeepRest /\ At(o, "resume")
  BY Zenon DEF ResumeMissing
<1>3. StoreInv' /\ RowsKeep
  <2>1. (\E a \in unresolved_dispatches(thread) : retry_unobserved_dispatch(a)) \/ requeue_missing_thread(thread)
    BY Zenon DEF ResumeMissing
  <2> QED
    BY ONLY AdapterInv, <2>1, RetryRows, MissingThreadRows DEF AdapterInv, unresolved_dispatches
<1>4. PointOK(codex, o, p, mem[o], work[o], inq[o])
  BY ONLY <1>2, ProcessOf, AdapterInv, o \in Owner DEF PointOK, Idle, Busy, At
<1> HIDE DEF p
<1> QED
  BY ONLY AdapterInv, o \in Owner, <1>1, <1>2, <1>3, <1>4, ActsQuiet, ProcessOf, RestKept

(* Resuming the stored thread and reading its history keeps the types and *)
(* what every process knows of Codex.                                     *)
LEMMA ResumeThreadKeeps ==
    ASSUME Functions, AdapterInv, LeaseInv, NEW o \in Owner, ResumeThread(o)
    PROVE  AdapterInv'
<1> DEFINE v == authoritative_turns(thread)
           m == PutThreadView(mem[o], thread, v)
<1>1. Acts(o, "reconcile", m, work[o], inq[o])
  BY ResumeThreadActs
<1>2. KeepRest /\ At(o, "resume") /\ thread \in Thread /\ set_thread(thread)
  BY Zenon DEF ResumeThread
<1>3. StoreInv' /\ RowsKeep
  BY ONLY AdapterInv, <1>2, SetThreadEffect, RowsSame DEF AdapterInv
<1>4. Viewed(codex, thread, v)
  BY ONLY AdapterInv, <1>2, ViewRead DEF AdapterInv
<1> HIDE DEF v
<1>5. mem[o].active = 0 /\ thread # 0
  BY <1>2, ProcessOf DEF PointOK, Idle, At, Thread
<1>6. MemoryOK(codex, m) /\ PointOK(codex, o, "reconcile", m, work[o], inq[o])
  BY ONLY <1>2, <1>4, <1>5, ProcessOf, AdapterInv, o \in Owner DEF MemoryOK, PointOK, Idle, Busy, PutThreadView, Memo
<1> HIDE DEF m
<1> QED
  BY ONLY AdapterInv, o \in Owner, <1>1, <1>2, <1>3, <1>6, ActsQuiet, ProcessOf, RestKept

(* A turn that a view shows with some client's message is of the thread. *)
LEMMA ClientSeen ==
    ASSUME NEW th, NEW view, Viewed(codex, th, view), NEW a, NEW t \in TurnsWithClient(view, a)
    PROVE  t \in Turn /\ Seen(codex, th, t)
<1>1. t \in Turn /\ view[t].len # 0
  BY DEF TurnsWithClient
<1> QED
  BY <1>1 DEF Viewed

(* Binding or giving up one dispatch that a crash left in flight keeps the *)
(* types and what every process knows of Codex.                            *)
LEMMA ReconcileKeeps ==
    ASSUME Functions, AdapterInv, LeaseInv, NEW o \in Owner, reconcile_dispatches(o)
    PROVE  AdapterInv'
<1>1. Acts(o, pc[o], mem[o], work[o], inq[o])
  BY ReconcileActs
<1>2. KeepRest
  BY Zenon DEF reconcile_dispatches
<1>3. PICK a \in unresolved_dispatches(mem[o].thread) :
        LET found == TurnsWithClient(mem[o].view, a) IN
          IF found # {} THEN finalize_dispatch(a, mem[o].thread, First(found), epochOf[o], "reconciled")
          ELSE retry_unobserved_dispatch(a)
  BY Zenon DEF reconcile_dispatches
<1>4. a \in Attention /\ epochOf[o] \in Nat /\ mem[o].thread \in Thread \cup {0}
      /\ Viewed(codex, mem[o].thread, mem[o].view)
  BY <1>3, ProcessOf DEF unresolved_dispatches, LeaseInv, LeaseTypeOK, MemoryOK
<1> DEFINE found == TurnsWithClient(mem[o].view, a)
<1>5. found \subseteq Turn /\ \A t \in found : Seen(codex, mem[o].thread, t)
  BY <1>4, ClientSeen
<1>6. IF found # {} THEN finalize_dispatch(a, mem[o].thread, First(found), epochOf[o], "reconciled")
          ELSE retry_unobserved_dispatch(a)
  BY <1>3
<1> HIDE DEF found
<1>7. StoreInv' /\ RowsKeep
  <2>1. CASE found # {}
    <3>1. First(found) \in Turn /\ Seen(codex, mem[o].thread, First(found))
      BY <1>5, <2>1, FirstIn
    <3> QED
      BY ONLY AdapterInv, <1>4, <1>6, <2>1, <3>1, FinalizeRows DEF AdapterInv
  <2>2. CASE found = {}
    BY ONLY AdapterInv, <1>4, <1>6, <2>2, RetryRows DEF AdapterInv
  <2> QED
    BY <2>1, <2>2
<1> QED
  BY ONLY AdapterInv, o \in Owner, <1>1, <1>2, <1>7, ActsQuiet, ProcessOf, RestKept

(* Adopting or requeueing one accepted turn after a restart keeps the types *)
(* and what every process knows of Codex.                                   *)
LEMMA AdoptKeeps ==
    ASSUME Functions, AdapterInv, LeaseInv, NEW o \in Owner, reconcile_accepted_turns(o)
    PROVE  AdapterInv'
<1>1. KeepRest /\ At(o, "reconcile")
  BY Zenon DEF reconcile_accepted_turns
<1>2. epochOf[o] \in Nat /\ Unclassified(o) \subseteq Turn
  BY DEF LeaseInv, LeaseTypeOK, Unclassified, incomplete_turn_ids
<1>3. StoreInv' /\ RowsKeep
  <2>1. \E t \in Unclassified(o) : adopt_recovered_turn(t, epochOf[o]) \/ requeue_missing_turn(t)
    BY Zenon DEF reconcile_accepted_turns
  <2> QED
    BY ONLY AdapterInv, <1>2, <2>1, AdoptRows, MissingTurnRows DEF AdapterInv
<1>4. CASE Acts(o, pc[o], mem[o], work[o], inq[o])
  BY ONLY AdapterInv, o \in Owner, <1>1, <1>3, <1>4, ActsQuiet, ProcessOf, RestKept
<1>5. CASE ~Acts(o, pc[o], mem[o], work[o], inq[o])
  <2>1. PICK t \in Unclassified(o) :
          Acts(o, pc[o], PutActive(mem[o], IF mem[o].active = 0 THEN t ELSE mem[o].active), work[o], inq[o])
    BY <1>5, AdoptActs
  <2> DEFINE v == IF mem[o].active = 0 THEN t ELSE mem[o].active
             m == PutActive(mem[o], v)
  <2>2. t \in Turn /\ turn[t].row /\ turn[t].thread = mem[o].thread
    BY <2>1 DEF Unclassified, incomplete_turn_ids
  <2>3. Seen(codex, mem[o].thread, v) /\ v \in Turn
    BY <2>2, ProcessOf DEF AdapterInv, MemoryOK, Turn
  <2> HIDE DEF v
  <2>4. MemoryOK(codex, m) /\ PointOK(codex, o, pc[o], m, work[o], inq[o])
    BY ONLY <1>1, <2>3, ProcessOf, AdapterInv, o \in Owner DEF MemoryOK, PointOK, At, Idle, Busy, PutActive, Memo
  <2>5. Acts(o, pc[o], m, work[o], inq[o])
    BY <2>1 DEF v
  <2> HIDE DEF m
  <2> QED
    BY ONLY AdapterInv, o \in Owner, <1>1, <1>3, <2>4, <2>5, ActsQuiet, ProcessOf, RestKept
<1> QED
  BY <1>4, <1>5

(* Replaying the recorded items of running and unfinished turns keeps the *)
(* types and what every process knows of Codex.                           *)
LEMMA ReplayKeeps ==
    ASSUME Functions, AdapterInv, LeaseInv, NEW o \in Owner, ReplayHistory(o)
    PROVE  AdapterInv'
<1> DEFINE running == {t \in Turn : mem[o].view[t].status = "inProgress"}
           unfinished == {t \in incomplete_turn_ids(mem[o].thread) : ~Absent(o, t)}
           v == IF running # {} THEN Last(running) ELSE mem[o].active
           m == PutViewActive(mem[o], NoView, v)
           w == ReplayAll(mem[o].view, running \cup unfinished)
<1>1. Acts(o, "replay", m, w, inq[o])
  BY ReplayActs
<1>2. KeepRest /\ At(o, "reconcile") /\ UNCHANGED storeVars
  BY Zenon DEF ReplayHistory
<1>3. StoreInv' /\ RowsKeep
  BY ONLY AdapterInv, <1>2, StoreSame, RowsSame DEF AdapterInv, storeVars
<1>4. Viewed(codex, mem[o].thread, mem[o].view) /\ mem[o].thread # 0
  BY <1>2, ProcessOf DEF MemoryOK, PointOK, At
<1>5. w \in Seq(Known(codex))
  <2> DEFINE X == running \cup unfinished
  <2>1. \A t \in Turn : t \in X => mem[o].view[t].status # "absent"
    BY DEF Absent
  <2> HIDE DEF X
  <2>2. ReplayAll(mem[o].view, X) \in Seq(Known(codex))
    BY ONLY AdapterInv, <1>4, <2>1, ReplayedAll, KnownOfIn DEF AdapterInv
  <2> QED
    BY <2>2 DEF X
<1>6. v \in Turn \cup {0} /\ (v # 0 => Seen(codex, mem[o].thread, v))
  <2>1. CASE running # {}
    <3>1. Last(running) \in running /\ running \subseteq Turn
      BY <2>1, LastIn
    <3>2. v \in running
      BY <2>1, <3>1
    <3>3. v \in Turn /\ mem[o].view[v].status # "absent"
      BY <3>2
    <3> QED
      BY <1>4, <3>3 DEF Viewed
  <2>2. CASE running = {}
    BY <2>2, ProcessOf DEF MemoryOK
  <2> QED
    BY <2>1, <2>2
<1> HIDE DEF v, w
<1>7. MemoryOK(codex, m) /\ PointOK(codex, o, "replay", m, w, inq[o])
  BY ONLY <1>4, <1>6, ProcessOf, AdapterInv, o \in Owner, NothingViewed
     DEF MemoryOK, PointOK, Idle, Busy, PutViewActive, Memo
<1> HIDE DEF m
<1> QED
  BY ONLY AdapterInv, o \in Owner, <1>1, <1>2, <1>3, <1>5, <1>7, ActsQuiet, ProcessOf, RestKept

(* Reaping the turns of earlier epochs at the end of recovery keeps the types *)
(* and what every process knows of Codex.                                     *)
LEMMA ReapKeeps ==
    ASSUME Functions, AdapterInv, LeaseInv, NEW o \in Owner, Reap(o)
    PROVE  AdapterInv'
<1>1. Acts(o, "run", mem[o], work[o], inq[o])
  BY ReapActs
<1>2. KeepRest /\ pc[o] \in {"replay", "resume"} /\ reap_stale_turns_after_recovery(epochOf[o])
  BY Zenon DEF Reap, At
<1>3. epochOf[o] \in Nat
  BY DEF LeaseInv, LeaseTypeOK
<1>4. StoreInv' /\ RowsKeep
  BY ONLY AdapterInv, <1>2, <1>3, ReapRows DEF AdapterInv
<1>5. PointOK(codex, o, "run", mem[o], work[o], inq[o])
  BY ONLY <1>2, ProcessOf, AdapterInv, o \in Owner, SMTT(40) DEF PointOK, Idle, Busy
<1> QED
  BY ONLY AdapterInv, o \in Owner, <1>1, <1>2, <1>4, <1>5, ActsQuiet, ProcessOf, RestKept

(* The first message a process has read. *)
LEMMA HeadKnown ==
    ASSUME AdapterInv, NEW o \in Owner, work[o] # <<>>
    PROVE  /\ Head(work[o]) \in Known(codex) /\ Tail(work[o]) \in Seq(Known(codex))
           /\ Head(work[o]) \in Message /\ Head(work[o]).t \in Turn
           /\ \A m \in Known(codex) : <<m>> \o Tail(work[o]) \in Seq(Known(codex))
<1>1. /\ Head(work[o]) \in Known(codex) /\ Tail(work[o]) \in Seq(Known(codex))
      /\ \A m \in Known(codex) : <<m>> \o Tail(work[o]) \in Seq(Known(codex))
  BY ProcessOf, ReadMessages
<1> QED
  BY <1>1 DEF Known, Message

(* A process with messages to handle is at none of the points without. *)
LEMMA HandlingPoint ==
    ASSUME AdapterInv, NEW o \in Owner, work[o] # <<>>, NEW w
    PROVE  PointOK(codex, o, pc[o], mem[o], w, inq[o])
  BY ProcessOf DEF PointOK, Idle

(* Handling one agent item of a notification keeps the types and what every *)
(* process knows of Codex.                                                  *)
LEMMA ItemKeeps ==
    ASSUME Functions, AdapterInv, LeaseInv, NEW o \in Owner, handle_agent_item(o)
    PROVE  AdapterInv'
<1> DEFINE m == Head(work[o])
           phase == codex[m.t].hist[m.i].phase
           kind == KindOf(m.t, phase)
<1>1. PICK w : /\ w = Tail(work[o]) \/ w = <<NoReplyMessage(m.t)>> \o Tail(work[o])
               /\ Acts(o, pc[o], mem[o], w, inq[o])
  BY ItemActs
<1>2. KeepRest /\ work[o] # <<>> /\ m.k = "item"
  BY Zenon DEF handle_agent_item, Handling
<1>3. m \in Known(codex) /\ m.t \in Turn
  BY <1>2, HeadKnown
<1>5. UNCHANGED storeVars \/ create_output(m.t, m.i, FALSE, kind[1], accepted_for_turn(m.t), kind[2])
  BY Zenon DEF handle_agent_item
<1>9. w = Tail(work[o]) \/ (NoReplyMessage(m.t) \in Known(codex) => w \in Seq(Known(codex)))
  BY <1>1, <1>2, HeadKnown
<1> HIDE DEF m
<1>4. phase \in Phase /\ m.i \in Item
  <2>1. m.i \in 1..Len(codex[m.t].hist) /\ codex[m.t].hist[m.i].from = 0
    BY <1>2, <1>3 DEF Known
  <2>2. \A t \in Turn : codex[t].hist \in History
    BY ONLY AdapterInv, Zenon DEF AdapterInv, CodexInv
  <2>3. codex[m.t].hist \in History
    BY ONLY <1>3, <2>2
  <2> QED
    BY ONLY <2>1, <2>3, BoundAssumption DEF History, Item
<1> DEFINE cov == accepted_for_turn(m.t)
<1>6. cov \subseteq Attention
  BY <1>3, AttachedIn DEF AdapterInv
<1>7. kind[1] \in RelayKind /\ kind[2] \in {"pending", "held", "suppressed"}
  BY <1>4, KindTypes
<1>8. NoReplyMessage(m.t) \in Known(codex)
  <2>1. m.t \in Turn /\ codex[m.t].thread # 0
    BY <1>3 DEF Known
  <2>2. 0 \in 0..MaxItem
    BY BoundAssumption
  <2>3. NoReplyMessage(m.t) \in Message /\ NoReplyMessage(m.t).t = m.t /\ NoReplyMessage(m.t).k = "noReply"
    BY ONLY <2>1, <2>2 DEF NoReplyMessage, Message
  <2> QED
    BY ONLY <2>1, <2>3 DEF Known
<1>12. w \in Seq(Known(codex))
  BY <1>2, <1>8, <1>9, HeadKnown
<1>10. PointOK(codex, o, pc[o], mem[o], w, inq[o])
  BY <1>2, HandlingPoint
<1> HIDE DEF kind, phase, cov
<1>11. StoreInv' /\ RowsKeep
  <2>1. CASE UNCHANGED storeVars
    BY ONLY AdapterInv, <2>1, StoreSame, RowsSame DEF AdapterInv, storeVars
  <2>2. CASE create_output(m.t, m.i, FALSE, kind[1], cov, kind[2])
    <3>1. FALSE \in BOOLEAN
      OBVIOUS
    <3> QED
      BY ONLY AdapterInv, <2>2, <3>1, <1>3, <1>4, <1>6, <1>7, OutputRows DEF AdapterInv
  <2> QED
    BY <1>5, <2>1, <2>2 DEF cov
<1> QED
  BY ONLY AdapterInv, o \in Owner, <1>1, <1>2, <1>10, <1>11, <1>12, ActsQuiet, ProcessOf, RestKept

(* Handling the marker of a turn that will not reply keeps the types and what *)
(* every process knows of Codex.                                              *)
LEMMA NoReplyKeeps ==
    ASSUME Functions, AdapterInv, LeaseInv, NEW o \in Owner, HandleNoReply(o)
    PROVE  AdapterInv'
<1>1. Acts(o, pc[o], mem[o], Tail(work[o]), inq[o])
  BY NoReplyActs
<1>2. KeepRest /\ work[o] # <<>> /\ mark_turn_no_reply(Head(work[o]).t)
  BY Zenon DEF HandleNoReply, Handling
<1>3. Head(work[o]).t \in Turn /\ Tail(work[o]) \in Seq(Known(codex))
  BY <1>2, HeadKnown
<1>4. StoreInv' /\ RowsKeep
  BY ONLY AdapterInv, <1>2, <1>3, NoReplyEffect, RowsSame DEF AdapterInv
<1>5. PointOK(codex, o, pc[o], mem[o], Tail(work[o]), inq[o])
  BY <1>2, HandlingPoint
<1> QED
  BY ONLY AdapterInv, o \in Owner, <1>1, <1>2, <1>3, <1>4, <1>5, ActsQuiet, ProcessOf, RestKept

(* Promoting the held candidate of a turn to its final output keeps the types *)
(* and what every process knows of Codex.                                     *)
LEMMA PromoteKeeps ==
    ASSUME Functions, AdapterInv, LeaseInv, NEW o \in Owner, PromoteCandidate(o)
    PROVE  AdapterInv'
<1>1. Acts(o, pc[o], mem[o], work[o], inq[o])
  BY ReconcileActs
<1>2. KeepRest
  BY Zenon DEF PromoteCandidate
<1>3. PICK r \in Promotable(Head(work[o])) :
        create_output(r.op.turn, r.op.item, TRUE, "final", r.op.cov \cap accepted_for_turn(r.op.turn), "pending")
  BY Zenon DEF PromoteCandidate
<1>4. r \in Relay
  BY <1>3 DEF Promotable, latest_unknown_item, RelaysOf, AdapterInv, StoreInv, StoreTypeOK
<1>5. r.op.turn \in Turn /\ r.op.item \in Item /\ r.op.cov \subseteq Attention
  BY <1>4 DEF Relay, RelayOp
<1> DEFINE cov == r.op.cov \cap accepted_for_turn(r.op.turn)
<1>6. cov \subseteq Attention
  BY <1>5
<1>7. create_output(r.op.turn, r.op.item, TRUE, "final", cov, "pending")
  BY <1>3
<1> HIDE DEF cov
<1>8. StoreInv' /\ RowsKeep
  <2>1. TRUE \in BOOLEAN /\ "final" \in RelayKind /\ "pending" \in {"pending", "held", "suppressed"}
    BY DEF RelayKind
  <2> QED
    BY ONLY AdapterInv, <1>5, <1>6, <1>7, <2>1, OutputRows DEF AdapterInv
<1> QED
  BY ONLY AdapterInv, o \in Owner, <1>1, <1>2, <1>8, ActsQuiet, ProcessOf, RestKept

(* Handling a turn/completed notification keeps the types and what every *)
(* process knows of Codex.                                               *)
LEMMA DoneKeeps ==
    ASSUME Functions, AdapterInv, LeaseInv, NEW o \in Owner, handle_turn_completed(o)
    PROVE  AdapterInv'
<1> DEFINE v == IF mem[o].active = Head(work[o]).t THEN 0 ELSE mem[o].active
           m == PutActive(mem[o], v)
<1>1. Acts(o, pc[o], m, Tail(work[o]), inq[o])
  BY DoneActs
<1>2. KeepRest /\ work[o] # <<>> /\ mark_turn_completed(Head(work[o]).t, Head(work[o]).status)
  BY Zenon DEF handle_turn_completed, Handling
<1>3. Head(work[o]).t \in Turn /\ Tail(work[o]) \in Seq(Known(codex))
  BY <1>2, HeadKnown
<1>4. StoreInv' /\ RowsKeep
  BY ONLY AdapterInv, <1>2, <1>3, CompleteRows DEF AdapterInv
<1>5. v \in Turn \cup {0} /\ (v # 0 => v = mem[o].active)
  BY ProcessOf DEF MemoryOK
<1> HIDE DEF v
<1>6. MemoryOK(codex, m) /\ PointOK(codex, o, pc[o], m, Tail(work[o]), inq[o])
  BY ONLY <1>2, <1>5, ProcessOf, AdapterInv, o \in Owner DEF MemoryOK, PointOK, Idle, Busy, PutActive, Memo
<1> HIDE DEF m
<1> QED
  BY ONLY AdapterInv, o \in Owner, <1>1, <1>2, <1>3, <1>4, <1>6, ActsQuiet, ProcessOf, RestKept

(* Reading the queue of notifications keeps the types and what every process *)
(* knows of Codex.                                                           *)
LEMMA DrainKeeps ==
    ASSUME Functions, AdapterInv, LeaseInv, NEW o \in Owner, drain_messages(o)
    PROVE  AdapterInv'
<1>1. Acts(o, pc[o], mem[o], inq[o], <<>>)
  BY DrainActs
<1>2. pc[o] \in {"run", "relay"} /\ UNCHANGED storeVars /\ codex' = codex /\ gone' = gone /\ posted' = posted
  BY DEF drain_messages, At, codexVars
<1>3. StoreInv' /\ RowsKeep
  BY ONLY AdapterInv, <1>2, StoreSame, RowsSame DEF AdapterInv, storeVars
<1>4. PointOK(codex, o, pc[o], mem[o], inq[o], <<>>)
  BY ONLY <1>2, ProcessOf, AdapterInv, o \in Owner DEF PointOK, Idle, Busy
<1> QED
  BY ONLY AdapterInv, o \in Owner, <1>1, <1>2, <1>3, <1>4, ActsQuiet, ProcessOf

(* Storing one event of the inbox keeps the types and what every process *)
(* knows of Codex.                                                       *)
LEMMA IngestKeeps ==
    ASSUME Functions, AdapterInv, LeaseInv, NEW o \in Owner, Ingest(o)
    PROVE  AdapterInv'
<1>1. Acts(o, pc[o], mem[o], work[o], inq[o])
  BY ReconcileActs
<1>2. KeepRest /\ ingest_inbox
  BY Zenon DEF Ingest
<1>3. StoreInv' /\ RowsKeep
  BY ONLY AdapterInv, <1>2, IngestRows DEF AdapterInv
<1> QED
  BY ONLY AdapterInv, o \in Owner, <1>1, <1>2, <1>3, ActsQuiet, ProcessOf, RestKept

(* A turn that history shows is replayed from it. *)
LEMMA ReplayedTurn ==
    ASSUME CodexInv, NEW th \in Thread, NEW t \in Turn, InHistory(th, t)
    PROVE  /\ recover_turn(authoritative_turns(th), t) \in Seq(Known(codex))
           /\ recover_turn(authoritative_turns(th), t) \in Seq(KnownOf({t}))
<1> DEFINE view == authoritative_turns(th)
<1>1. Viewed(codex, th, view)
  BY ViewRead
<1>2. view[t].status = codex[t].status
  BY DEF authoritative_turns
<1>3. codex[t].status \in Recorded
  BY DEF CodexInv, InHistory
<1>4. view[t].status # "absent"
  BY <1>2, <1>3 DEF Recorded
<1> HIDE DEF view
<1>5. recover_turn(view, t) \in Seq(KnownOf({t}))
  BY <1>1, <1>4, Recovered
<1>6. recover_turn(view, t) \in Seq(Known(codex))
  BY ONLY <1>5, KnownOfIn
<1> QED
  BY <1>5, <1>6 DEF view

(* Reconciling the active turn when its notifications stop keeps the types *)
(* and what every process knows of Codex.                                  *)
LEMMA ActiveKeeps ==
    ASSUME Functions, AdapterInv, LeaseInv, NEW o \in Owner, reconcile_active_turn(o)
    PROVE  AdapterInv'
<1>1. KeepRest /\ pc[o] = "run" /\ mem[o].active # 0
  BY Zenon DEF reconcile_active_turn, At
<1>2. mem[o].active \in Turn /\ mem[o].thread \in Thread
  BY <1>1, ProcessOf DEF MemoryOK, Seen
<1> DEFINE w == recover_turn(authoritative_turns(mem[o].thread), mem[o].active)
<1>3. CASE ReplayFinished(o, mem[o].active) /\ UNCHANGED storeVars /\ Acts(o, pc[o], mem[o], w, inq[o])
  <2>1. w \in Seq(Known(codex))
    BY <1>2, <1>3, ReplayedTurn DEF ReplayFinished, AdapterInv
  <2>2. StoreInv' /\ RowsKeep
    BY ONLY AdapterInv, <1>3, StoreSame, RowsSame DEF AdapterInv, storeVars
  <2>3. PointOK(codex, o, pc[o], mem[o], w, inq[o])
    BY ONLY <1>1, ProcessOf, AdapterInv, o \in Owner DEF PointOK, Idle, Busy
  <2> HIDE DEF w
  <2> QED
    BY ONLY AdapterInv, o \in Owner, <1>1, <1>3, <2>1, <2>2, <2>3, ActsQuiet, ProcessOf, RestKept
<1>4. CASE requeue_missing_turn(mem[o].active) /\ Acts(o, pc[o], PutActive(mem[o], 0), work[o], inq[o])
  <2> DEFINE m == PutActive(mem[o], 0)
  <2>1. StoreInv' /\ RowsKeep
    BY ONLY AdapterInv, <1>2, <1>4, MissingTurnRows DEF AdapterInv
  <2>2. MemoryOK(codex, m) /\ PointOK(codex, o, pc[o], m, work[o], inq[o])
    BY ONLY <1>1, ProcessOf, AdapterInv, o \in Owner DEF MemoryOK, PointOK, Idle, Busy, PutActive, Memo
  <2>3. Acts(o, pc[o], m, work[o], inq[o])
    BY <1>4
  <2> HIDE DEF m
  <2> QED
    BY ONLY AdapterInv, o \in Owner, <1>1, <2>1, <2>2, <2>3, ActsQuiet, ProcessOf, RestKept
<1> QED
  BY <1>3, <1>4, ActiveActs

(* Retiring a legacy context event keeps the types and what every process *)
(* knows of Codex.                                                        *)
LEMMA LegacyKeeps ==
    ASSUME Functions, AdapterInv, LeaseInv, NEW o \in Owner, DispatchLegacy(o)
    PROVE  AdapterInv'
<1>1. PICK p \in {"relay", "run"} : Acts(o, p, mem[o], work[o], inq[o])
  BY LegacyActs
<1>2. PICK a \in Attention : retire_legacy_context(a)
  BY Zenon DEF DispatchLegacy
<1>3. KeepRest /\ pc[o] = "run"
  BY Zenon DEF DispatchLegacy, Select, At
<1>4. StoreInv' /\ RowsKeep
  BY ONLY AdapterInv, <1>2, RetireEffect, RowsSame DEF AdapterInv
<1>5. PointOK(codex, o, p, mem[o], work[o], inq[o])
  BY ONLY <1>1, <1>3, ProcessOf, AdapterInv, o \in Owner DEF PointOK, Idle, Busy
<1> QED
  BY ONLY AdapterInv, o \in Owner, <1>1, <1>3, <1>4, <1>5, ActsQuiet, ProcessOf, RestKept

(* Starting and storing a new thread keeps the types and what every process *)
(* knows of Codex.                                                          *)
LEMMA ThreadKeeps ==
    ASSUME Functions, AdapterInv, LeaseInv, NEW o \in Owner, create_thread(o)
    PROVE  AdapterInv'
<1>1. PICK th \in Thread : /\ mem[o].thread = 0 /\ set_thread(th)
                           /\ Acts(o, pc[o], PutThread(mem[o], th), work[o], inq[o])
  BY ThreadActs
<1> DEFINE m == PutThread(mem[o], th)
<1>2. KeepRest /\ pc[o] = "run"
  BY Zenon DEF create_thread, Select, At
<1>3. StoreInv' /\ RowsKeep
  BY ONLY AdapterInv, <1>1, SetThreadEffect, RowsSame DEF AdapterInv
<1>4. mem[o].active = 0 /\ mem[o].view = NoView
  BY <1>1, <1>2, ProcessOf DEF MemoryOK, PointOK, Seen
<1>5. MemoryOK(codex, m) /\ PointOK(codex, o, pc[o], m, work[o], inq[o])
  BY ONLY <1>1, <1>2, <1>4, ProcessOf, NothingViewed, AdapterInv, o \in Owner
     DEF MemoryOK, PointOK, Idle, Busy, PutThread, Memo
<1>6. Acts(o, pc[o], m, work[o], inq[o])
  BY <1>1
<1> HIDE DEF m
<1> QED
  BY ONLY AdapterInv, o \in Owner, <1>2, <1>3, <1>5, <1>6, ActsQuiet, ProcessOf, RestKept

(* Recording the intent to dispatch an attention keeps the types and what *)
(* every process knows of Codex.                                          *)
LEMMA PrepareKeeps ==
    ASSUME Functions, AdapterInv, LeaseInv, NEW o \in Owner, PrepareDispatch(o)
    PROVE  AdapterInv'
<1>1. PICK a \in Attention : /\ Select(o, a, {"task", "direct", "chat"}) /\ mem[o].thread # 0
                             /\ prepare_dispatch(a, mem[o].thread)
                             /\ Acts(o, "rpc", PutCur(mem[o], a), work[o], inq[o])
  BY PrepareActs
<1> DEFINE m == PutCur(mem[o], a)
<1>2. KeepRest /\ pc[o] = "run" /\ work[o] = <<>>
  BY Zenon DEF PrepareDispatch, Select, At
<1>3. mem[o].thread \in Thread
  BY <1>1, ProcessOf DEF MemoryOK
<1>4. StoreInv' /\ RowsKeep
  BY ONLY AdapterInv, <1>1, <1>3, PrepareEffect, RowsSame DEF AdapterInv
<1>5. MemoryOK(codex, m) /\ PointOK(codex, o, "rpc", m, work[o], inq[o])
  BY ONLY <1>1, <1>2, ProcessOf, AdapterInv, o \in Owner DEF MemoryOK, PointOK, Idle, Busy, PutCur, Memo
<1>6. Acts(o, "rpc", m, work[o], inq[o])
  BY <1>1
<1> HIDE DEF m
<1> QED
  BY ONLY AdapterInv, o \in Owner, <1>2, <1>4, <1>5, <1>6, ActsQuiet, ProcessOf, RestKept

(* Binding an accepted dispatch to its turn keeps the types and what every *)
(* process knows of Codex.                                                 *)
LEMMA BindKeeps ==
    ASSUME Functions, AdapterInv, LeaseInv, NEW o \in Owner, BindDispatch(o)
    PROVE  AdapterInv'
<1> DEFINE m == PutCurAcc(mem[o], 0, 0)
<1>1. PICK p \in {"relay", "run"} : Acts(o, p, m, work[o], inq[o])
  BY BindActs
<1>2. /\ KeepRest /\ pc[o] = "bind"
      /\ finalize_dispatch(mem[o].cur, mem[o].thread, mem[o].acc, epochOf[o], "accepted")
  BY Zenon DEF BindDispatch, At
<1>3. mem[o].cur \in Attention /\ mem[o].thread \in Thread \cup {0} /\ mem[o].acc \in Turn
      /\ Seen(codex, mem[o].thread, mem[o].acc) /\ epochOf[o] \in Nat /\ "accepted" \in {"accepted", "reconciled"}
  BY <1>2, ProcessOf DEF MemoryOK, PointOK, Busy, LeaseInv, LeaseTypeOK
<1>4. StoreInv' /\ RowsKeep
  BY ONLY AdapterInv, <1>2, <1>3, FinalizeRows DEF AdapterInv
<1>5. MemoryOK(codex, m) /\ PointOK(codex, o, p, m, work[o], inq[o])
  BY ONLY <1>1, <1>2, ProcessOf, AdapterInv, o \in Owner DEF MemoryOK, PointOK, Idle, Busy, PutCurAcc, Memo
<1> HIDE DEF m
<1> QED
  BY ONLY AdapterInv, o \in Owner, <1>1, <1>2, <1>4, <1>5, ActsQuiet, ProcessOf, RestKept

(* A steer refused because another turn is active keeps the types and what *)
(* every process knows of Codex.                                           *)
LEMMA MismatchKeeps ==
    ASSUME Functions, AdapterInv, LeaseInv, NEW o \in Owner, SteerMismatch(o)
    PROVE  AdapterInv'
<1>1. PICK t \in Turn : /\ codex[t].srv = o /\ codex[t].thread = mem[o].thread
                        /\ Acts(o, "retry", PutActive(mem[o], t), work[o], inq[o])
  BY MismatchActs
<1> DEFINE m == PutActive(mem[o], t)
<1>2. KeepRest /\ pc[o] = "rpc" /\ UNCHANGED storeVars
  BY Zenon DEF SteerMismatch, At
<1>3. StoreInv' /\ RowsKeep
  BY ONLY AdapterInv, <1>2, StoreSame, RowsSame DEF AdapterInv, storeVars
<1>4. Seen(codex, mem[o].thread, t) /\ t # 0
  BY <1>1, <1>2, ProcessOf DEF PointOK, Busy, Seen, Turn
<1>5. MemoryOK(codex, m) /\ PointOK(codex, o, "retry", m, work[o], inq[o])
  BY ONLY <1>2, <1>4, t \in Turn, ProcessOf, AdapterInv, o \in Owner DEF MemoryOK, PointOK, Idle, Busy, PutActive, Memo
<1>6. Acts(o, "retry", m, work[o], inq[o])
  BY <1>1
<1> HIDE DEF m
<1> QED
  BY ONLY AdapterInv, o \in Owner, <1>2, <1>3, <1>5, <1>6, ActsQuiet, ProcessOf, RestKept

(* A refused call keeps the types and what every process knows of Codex. *)
LEMMA RejectKeeps ==
    ASSUME Functions, AdapterInv, LeaseInv, NEW o \in Owner, RpcRejected(o)
    PROVE  AdapterInv'
<1> DEFINE m == PutNow(mem[o], FALSE)
<1>1. Acts(o, "rejected", m, work[o], inq[o])
  BY RejectActs
<1>2. KeepRest /\ pc[o] \in {"rpc", "retry"} /\ UNCHANGED storeVars
  BY DEF RpcRejected, At
<1>3. StoreInv' /\ RowsKeep
  BY ONLY AdapterInv, <1>2, StoreSame, RowsSame DEF AdapterInv, storeVars
<1>5. MemoryOK(codex, m) /\ PointOK(codex, o, "rejected", m, work[o], inq[o])
  BY ONLY <1>2, ProcessOf, AdapterInv, o \in Owner DEF MemoryOK, PointOK, Idle, Busy, PutNow, Memo
<1> HIDE DEF m
<1> QED
  BY ONLY AdapterInv, o \in Owner, <1>1, <1>2, <1>3, <1>5, ActsQuiet, ProcessOf, RestKept

(* A steer refused because no turn is active keeps the types and what every *)
(* process knows of Codex.                                                  *)
LEMMA InactiveKeeps ==
    ASSUME Functions, AdapterInv, LeaseInv, NEW o \in Owner, SteerInactive(o)
    PROVE  AdapterInv'
<1>1. KeepRest /\ pc[o] \in {"rpc", "retry"} /\ mem[o].active # 0
  BY DEF SteerInactive, AtSteer, At
<1>2. mem[o].active \in Turn /\ mem[o].thread \in Thread
  BY <1>1, ProcessOf DEF MemoryOK, Seen
<1> DEFINE w == recover_turn(authoritative_turns(mem[o].thread), mem[o].active)
           n == PutNow(mem[o], TRUE)
           r == Requeues(mem[o].active)
           v == IF Requeues(mem[o].active) THEN 0 ELSE mem[o].active
           k == PutNowActive(mem[o], r, v)
<1>3. CASE ReplayFinished(o, mem[o].active) /\ UNCHANGED storeVars /\ Acts(o, "rejected", n, w, inq[o])
  <2>1. w \in Seq(Known(codex))
    BY <1>2, <1>3, ReplayedTurn DEF ReplayFinished, AdapterInv
  <2>2. StoreInv' /\ RowsKeep
    BY ONLY AdapterInv, <1>3, StoreSame, RowsSame DEF AdapterInv, storeVars
  <2> HIDE DEF w
  <2>3. MemoryOK(codex, n) /\ PointOK(codex, o, "rejected", n, w, inq[o])
    BY ONLY <1>1, ProcessOf, AdapterInv, o \in Owner DEF MemoryOK, PointOK, Idle, Busy, PutNow, Memo
  <2> HIDE DEF n
  <2> QED
    BY ONLY AdapterInv, o \in Owner, <1>1, <1>3, <2>1, <2>2, <2>3, ActsQuiet, ProcessOf, RestKept
<1>4. CASE requeue_missing_turn(mem[o].active) /\ Acts(o, "rejected", k, work[o], inq[o])
  <2>1. StoreInv' /\ RowsKeep
    BY ONLY AdapterInv, <1>2, <1>4, MissingTurnRows DEF AdapterInv
  <2>2. v \in {0, mem[o].active}
    OBVIOUS
  <2> HIDE DEF r, v
  <2>3. MemoryOK(codex, k) /\ PointOK(codex, o, "rejected", k, work[o], inq[o])
    BY ONLY <1>1, <2>2, ProcessOf, AdapterInv, o \in Owner DEF MemoryOK, PointOK, Idle, Busy, PutNowActive, Memo
  <2> HIDE DEF k
  <2> QED
    BY ONLY AdapterInv, o \in Owner, <1>1, <1>4, <2>1, <2>3, ActsQuiet, ProcessOf, RestKept
<1> QED
  BY <1>3, <1>4, InactiveActs

(* Deferring an attention whose call was refused keeps the types and what *)
(* every process knows of Codex.                                          *)
LEMMA DeferKeeps ==
    ASSUME Functions, AdapterInv, LeaseInv, NEW o \in Owner, DeferRejected(o)
    PROVE  AdapterInv'
<1> DEFINE m == PutCurNow(mem[o], 0, FALSE)
<1>1. PICK p \in {"relay", "run"} : Acts(o, p, m, work[o], inq[o])
  BY DeferActs
<1>2. KeepRest /\ pc[o] = "rejected" /\ retry_and_defer(mem[o].cur, mem[o].now)
  BY Zenon DEF DeferRejected, At
<1>3. mem[o].cur \in Attention
  BY <1>2, ProcessOf DEF PointOK, Busy
<1>4. StoreInv' /\ RowsKeep
  BY ONLY AdapterInv, <1>2, <1>3, RetryDeferEffect, RowsSame DEF AdapterInv
<1>5. MemoryOK(codex, m) /\ PointOK(codex, o, p, m, work[o], inq[o])
  BY ONLY <1>1, <1>2, ProcessOf, AdapterInv, o \in Owner DEF MemoryOK, PointOK, Idle, Busy, PutCurNow, Memo
<1> HIDE DEF m
<1> QED
  BY ONLY AdapterInv, o \in Owner, <1>1, <1>2, <1>4, <1>5, ActsQuiet, ProcessOf, RestKept

(* Recording the interrupted turn of a /stop keeps the types and what every *)
(* process knows of Codex.                                                  *)
LEMMA StopTurnKeeps ==
    ASSUME Functions, AdapterInv, LeaseInv, NEW o \in Owner, StopTurn(o)
    PROVE  AdapterInv'
<1> DEFINE m == PutActive(mem[o], 0)
<1>1. Acts(o, "stopPending", m, work[o], inq[o])
  BY StopTurnActs
<1>2. KeepRest /\ pc[o] = "stopTurn" /\ interrupt_turn_for_control(mem[o].active)
  BY Zenon DEF StopTurn, At
<1>3. mem[o].active \in Turn
  BY <1>2, ProcessOf DEF PointOK, MemoryOK
<1>4. StoreInv' /\ RowsKeep
  BY ONLY AdapterInv, <1>2, <1>3, InterruptRows DEF AdapterInv
<1>5. MemoryOK(codex, m) /\ PointOK(codex, o, "stopPending", m, work[o], inq[o])
  BY ONLY <1>2, ProcessOf, AdapterInv, o \in Owner DEF MemoryOK, PointOK, Idle, Busy, PutActive, Memo
<1> HIDE DEF m
<1> QED
  BY ONLY AdapterInv, o \in Owner, <1>1, <1>2, <1>4, <1>5, ActsQuiet, ProcessOf, RestKept

(* Cancelling the pending attentions before a /stop keeps the types and what *)
(* every process knows of Codex.                                             *)
LEMMA StopPendingKeeps ==
    ASSUME Functions, AdapterInv, LeaseInv, NEW o \in Owner, StopPending(o)
    PROVE  AdapterInv'
<1> DEFINE m == PutCur(mem[o], 0)
<1>1. PICK p \in {"relay", "run"} : Acts(o, p, m, work[o], inq[o])
  BY StopPendingActs
<1>2. KeepRest /\ pc[o] \in {"stopPending", "run"} /\ \E c \in Attention : cancel_pending_before_control(c)
  BY Zenon DEF StopPending, Select, At
<1>4. StoreInv' /\ RowsKeep
  BY ONLY AdapterInv, <1>2, CancelEffect, RowsSame DEF AdapterInv
<1>5. MemoryOK(codex, m) /\ PointOK(codex, o, p, m, work[o], inq[o])
  BY ONLY <1>1, <1>2, ProcessOf, AdapterInv, o \in Owner DEF MemoryOK, PointOK, Idle, Busy, PutCur, Memo
<1> HIDE DEF m
<1> QED
  BY ONLY AdapterInv, o \in Owner, <1>1, <1>2, <1>4, <1>5, ActsQuiet, ProcessOf, RestKept

(* Asking Codex to interrupt the active turn for a /stop keeps the types and *)
(* what every process knows of Codex.                                        *)
LEMMA StopInterruptKeeps ==
    ASSUME Functions, AdapterInv, LeaseInv, NEW o \in Owner, StopInterrupt(o)
    PROVE  AdapterInv'
<1>1. PICK c \in Attention :
        /\ Select(o, c, {"stop"}) /\ mem[o].active # 0
        /\ \/ /\ codex' = [codex EXCEPT ![mem[o].active].stop = TRUE] /\ UNCHANGED storeVars
              /\ Acts(o, "stopTurn", PutCur(mem[o], c), work[o], inq[o])
           \/ /\ Fenced(o) /\ defer_attention(c) /\ codex' = codex
              /\ \E p \in {"relay", "run"} : Acts(o, p, mem[o], work[o], inq[o])
  BY StopInterruptActs
<1>2. pc[o] = "run" /\ work[o] = <<>> /\ Class[c] = "stop"
  BY <1>1 DEF Select, At
<1>3. gone' = gone /\ posted' = posted
  BY Zenon DEF StopInterrupt
<1>4. mem[o].active \in Turn /\ posted' \subseteq RelayOp
  BY <1>1, <1>3, ProcessOf DEF MemoryOK, AdapterInv
<1>5. CASE /\ codex' = [codex EXCEPT ![mem[o].active].stop = TRUE] /\ UNCHANGED storeVars
           /\ Acts(o, "stopTurn", PutCur(mem[o], c), work[o], inq[o])
  <2> DEFINE m == PutCur(mem[o], c)
  <2>1. CodexInv' /\ CodexGrows(o) /\ codex'[mem[o].active].stop
    BY ONLY AdapterInv, <1>3, <1>4, <1>5, CodexStop DEF AdapterInv
  <2>2. StoreInv' /\ RowsKeep
    BY ONLY AdapterInv, <1>5, StoreSame, RowsSame DEF AdapterInv, storeVars
  <2>3. MemoryOK(codex, m)
    BY ONLY ProcessOf, AdapterInv, o \in Owner, c \in Attention DEF MemoryOK, PutCur, Memo
  <2>4. MemoryOK(codex', m)
    BY ONLY AdapterInv, <2>1, <2>3, MemoryGrows DEF AdapterInv
  <2>5. PointOK(codex', o, "stopTurn", m, work[o], inq[o])
    BY ONLY <1>1, <1>2, <2>1, ProcessOf, AdapterInv, o \in Owner DEF PointOK, Idle, Busy, PutCur, Memo
  <2>6. work[o] \in Seq(Known(codex')) /\ inq[o] \in Seq(Known(codex'))
    BY ONLY AdapterInv, o \in Owner, <2>1, KnownGrows, ProcessOf DEF AdapterInv
  <2>7. Acts(o, "stopTurn", m, work[o], inq[o])
    BY <1>5
  <2> HIDE DEF m
  <2> QED
    BY ONLY AdapterInv, o \in Owner, <1>4, <2>1, <2>2, <2>4, <2>5, <2>6, <2>7, ActsKeep
<1>6. CASE /\ Fenced(o) /\ defer_attention(c) /\ codex' = codex
           /\ \E p \in {"relay", "run"} : Acts(o, p, mem[o], work[o], inq[o])
  <2>1. PICK p \in {"relay", "run"} : Acts(o, p, mem[o], work[o], inq[o])
    BY <1>6
  <2>2. StoreInv' /\ RowsKeep
    BY ONLY AdapterInv, c \in Attention, <1>6, DeferEffect, RowsSame DEF AdapterInv
  <2>3. PointOK(codex, o, p, mem[o], work[o], inq[o])
    BY ONLY <1>2, <2>1, ProcessOf, AdapterInv, o \in Owner DEF PointOK, Idle, Busy
  <2> QED
    BY ONLY AdapterInv, o \in Owner, <1>3, <1>6, <2>1, <2>2, <2>3, ActsQuiet, ProcessOf
<1> QED
  BY <1>1, <1>5, <1>6

(* Closing the room keeps the types and what every process knows of Codex. *)
LEMMA CloseKeeps ==
    ASSUME Functions, AdapterInv, LeaseInv, NEW o \in Owner, CloseRoom(o)
    PROVE  AdapterInv' /\ CodexGrows(o)
<1> DEFINE m == PutActiveThread(mem[o], 0, 0)
<1>1. PICK p \in {"relay", "run"} : Acts(o, p, m, work[o], inq[o])
  BY CloseActs
<1>2. /\ pc[o] = "run" /\ work[o] = <<>> /\ \E c \in Attention : close_room_for_control(c)
      /\ gone' = gone /\ posted' = posted
  BY Zenon DEF CloseRoom, Select, At
<1>3. codex' = [t \in Turn |-> IF t = mem[o].active THEN [codex[t] EXCEPT !.stop = TRUE] ELSE codex[t]]
  BY Zenon DEF CloseRoom
<1>4. ASSUME NEW t \in Turn PROVE Rewritten(t, codex'[t])
  <2>1. Rewritten(t, codex[t])
    BY ONLY AdapterInv, t \in Turn, RewrittenSame DEF AdapterInv
  <2>2. TRUE \in BOOLEAN
    OBVIOUS
  <2> DEFINE n == [codex[t] EXCEPT !.stop = TRUE]
  <2>3. Rewritten(t, n)
    BY ONLY AdapterInv, t \in Turn, <2>2, StopWritten, Zenon DEF AdapterInv
  <2>4. codex'[t] = IF t = mem[o].active THEN n ELSE codex[t]
    BY ONLY <1>3, t \in Turn, Zenon
  <2> HIDE DEF n
  <2> QED
    BY ONLY <2>1, <2>3, <2>4, Zenon
<1>5. codex' = [t \in Turn |-> codex'[t]]
  BY <1>3, Zenon
<1>6. CodexInv' /\ CodexGrows(o)
  BY ONLY AdapterInv, <1>2, <1>4, <1>5, CodexRows DEF AdapterInv
<1>7. StoreInv' /\ RowsKeep
  BY ONLY AdapterInv, <1>2, CloseRows DEF AdapterInv
<1>8. mem[o].view = NoView
  BY <1>2, ProcessOf DEF PointOK
<1>9. MemoryOK(codex', m)
  BY ONLY <1>8, ProcessOf, NothingViewed, AdapterInv, o \in Owner DEF MemoryOK, PutActiveThread, Memo
<1>10. PointOK(codex', o, p, m, work[o], inq[o])
  BY ONLY <1>1, <1>8, ProcessOf, AdapterInv, o \in Owner DEF PointOK, Idle, Busy, PutActiveThread, Memo
<1>11. work[o] \in Seq(Known(codex')) /\ inq[o] \in Seq(Known(codex'))
  BY ONLY AdapterInv, o \in Owner, <1>6, KnownGrows, ProcessOf DEF AdapterInv
<1>12. posted' \subseteq RelayOp
  BY <1>2 DEF AdapterInv
<1> HIDE DEF m
<1> QED
  BY ONLY AdapterInv, o \in Owner, <1>1, <1>6, <1>7, <1>9, <1>10, <1>11, <1>12, ActsKeep

(* An accepted turn/start keeps the types and what every process knows of *)
(* Codex.                                                                 *)
LEMMA StartTurnKeeps ==
    ASSUME Functions, AdapterInv, LeaseInv, NEW o \in Owner, StartTurn(o)
    PROVE  AdapterInv' /\ CodexGrows(o)
<1>1. PICK t \in Turn : /\ NewTurn(o, t, <<UserEntry(mem[o].cur)>>)
                        /\ Acts(o, "bind", PutActiveAcc(mem[o], t, t), work[o], inq[o])
  BY StartTurnActs
<1> DEFINE m == PutActiveAcc(mem[o], t, t)
           h == <<UserEntry(mem[o].cur)>>
<1>2. /\ pc[o] = "rpc" /\ mem[o].thread \notin gone /\ IdleServer(o, mem[o].thread)
      /\ UNCHANGED storeVars /\ gone' = gone /\ posted' = posted
  BY Zenon DEF StartTurn, At
<1>3. mem[o].thread \in Thread /\ mem[o].cur \in Attention /\ mem[o].view = NoView /\ mem[o].thread # 0
  BY <1>2, ProcessOf DEF PointOK, MemoryOK, Busy
<1>4. h \in History
  <2>1. UserEntry(mem[o].cur) \in Entry /\ UserEntry(mem[o].cur).from # 0
    BY <1>3, AttentionAssumption DEF UserEntry, Entry
  <2>3. \A e \in Entry : <<e>> \in Seq(Entry) /\ Len(<<e>>) = 1 /\ <<e>>[1] = e
    OBVIOUS
  <2>2. h \in Seq(Entry) /\ Len(h) = 1 /\ h[1] = UserEntry(mem[o].cur)
    BY ONLY <2>1, <2>3, Zenon DEF h
  <2> HIDE DEF h
  <2>4. Len(h) <= MaxItem
    BY ONLY <2>2, BoundAssumption
  <2>5. ASSUME NEW i \in 1..Len(h) PROVE h[i].from # 0
    <3>1. i = 1
      BY ONLY <2>2, i \in 1..Len(h)
    <3> QED
      BY ONLY <2>1, <2>2, <3>1
  <2> QED
    BY ONLY <2>2, <2>4, <2>5 DEF History
<1> HIDE DEF h
<1>5. NewTurn(o, t, h)
  BY <1>1 DEF h
<1>6. CodexInv' /\ CodexGrows(o)
  BY ONLY AdapterInv, o \in Owner, t \in Turn, <1>2, <1>3, <1>4, <1>5, CodexNew DEF AdapterInv
<1>7. codex'[t].thread = mem[o].thread
  <2>1. t \in DOMAIN codex
    BY DEF AdapterInv, CodexInv
  <2> QED
    BY <1>5, <2>1 DEF NewTurn
<1>8. StoreInv' /\ RowsKeep
  BY ONLY AdapterInv, <1>2, StoreSame, RowsSame DEF AdapterInv, storeVars
<1>9. MemoryOK(codex', m)
  BY ONLY <1>3, <1>7, t \in Turn, ProcessOf, NothingViewed, AdapterInv, o \in Owner
     DEF MemoryOK, PutActiveAcc, Memo, Seen
<1>10. PointOK(codex', o, "bind", m, work[o], inq[o])
  BY ONLY <1>3, <1>7, t \in Turn, ProcessOf, AdapterInv, o \in Owner DEF PointOK, Idle, Busy, PutActiveAcc, Memo, Seen
<1>11. work[o] \in Seq(Known(codex')) /\ inq[o] \in Seq(Known(codex'))
  BY ONLY AdapterInv, o \in Owner, <1>6, KnownGrows, ProcessOf DEF AdapterInv
<1>12. posted' \subseteq RelayOp /\ Acts(o, "bind", m, work[o], inq[o])
  BY <1>1, <1>2 DEF AdapterInv
<1> HIDE DEF m
<1> QED
  BY ONLY AdapterInv, o \in Owner, <1>6, <1>8, <1>9, <1>10, <1>11, <1>12, ActsKeep

(* An accepted turn/steer keeps the types and what every process knows of *)
(* Codex.                                                                 *)
LEMMA SteerKeeps ==
    ASSUME Functions, AdapterInv, LeaseInv, NEW o \in Owner, SteerTurn(o)
    PROVE  AdapterInv' /\ CodexGrows(o)
<1> DEFINE m == PutAcc(mem[o], mem[o].active)
           e == UserEntry(mem[o].cur)
<1>1. Acts(o, "bind", m, inq[o], <<>>)
  BY SteerActs
<1>2. /\ pc[o] \in {"rpc", "retry"} /\ mem[o].active # 0
      /\ Len(codex[mem[o].active].hist) < MaxItem
      /\ codex' = [codex EXCEPT ![mem[o].active].hist = Append(@, e)]
      /\ UNCHANGED storeVars /\ gone' = gone /\ posted' = posted
  BY Zenon DEF SteerTurn, AtSteer, At
<1>3. mem[o].active \in Turn /\ mem[o].cur \in Attention /\ mem[o].view = NoView
      /\ mem[o].thread # 0 /\ Seen(codex, mem[o].thread, mem[o].active)
  BY <1>2, ProcessOf DEF PointOK, MemoryOK, Busy
<1>4. e \in Entry /\ e.from # 0
  BY <1>3, AttentionAssumption DEF UserEntry, Entry
<1> HIDE DEF e
<1>6. CodexInv' /\ CodexGrows(o)
  BY ONLY AdapterInv, <1>2, <1>3, <1>4, CodexAppend DEF AdapterInv
<1>8. StoreInv' /\ RowsKeep
  BY ONLY AdapterInv, <1>2, StoreSame, RowsSame DEF AdapterInv, storeVars
<1>7. Seen(codex', mem[o].thread, mem[o].active)
  BY <1>3, <1>6 DEF CodexGrows, Continued, Seen
<1>9. MemoryOK(codex', m)
  BY ONLY <1>3, <1>7, ProcessOf, NothingViewed, AdapterInv, o \in Owner DEF MemoryOK, PutAcc, Memo
<1>10. PointOK(codex', o, "bind", m, inq[o], <<>>)
  BY ONLY <1>2, <1>3, <1>7, ProcessOf, AdapterInv, o \in Owner DEF PointOK, Idle, Busy, PutAcc, Memo
<1>11. inq[o] \in Seq(Known(codex')) /\ <<>> \in Seq(Known(codex'))
  BY ONLY AdapterInv, o \in Owner, <1>6, KnownGrows, ProcessOf DEF AdapterInv
<1>12. posted' \subseteq RelayOp
  BY <1>2 DEF AdapterInv
<1> HIDE DEF m
<1> QED
  BY ONLY AdapterInv, o \in Owner, <1>1, <1>6, <1>8, <1>9, <1>10, <1>11, <1>12, ActsKeep

(* Taking one relay row to post, under the lease keeps the types and what *)
(* every process knows of Codex.                                          *)
LEMMA TakeKeeps ==
    ASSUME Functions, AdapterInv, LeaseInv, NEW o \in Owner, AssertLease(o)
    PROVE  AdapterInv'
<1>1. PICK rows \in {pending_relays, mem[o].batch} : TakeRow(o, rows) /\ pc[o] \in {"relay", "batch", "run"}
  BY Zenon DEF AssertLease, At
<1>2. rows \subseteq Relay
  BY <1>1, ProcessOf DEF pending_relays, AdapterInv, StoreInv, StoreTypeOK, MemoryOK
<1>3. PICK r \in rows : Acts(o, "post", PutSendingBatch(mem[o], r, rows \ {r}), work[o], inq[o])
  BY <1>1, TakeRowActs
<1>4. KeepRest /\ UNCHANGED storeVars
  BY <1>1, Zenon DEF TakeRow
<1> DEFINE b == rows \ {r}
           m == PutSendingBatch(mem[o], r, b)
<1>5. StoreInv' /\ RowsKeep
  BY ONLY AdapterInv, <1>4, StoreSame, RowsSame DEF AdapterInv, storeVars
<1>6. b \subseteq Relay /\ r \in Relay
  BY <1>2, <1>3
<1> HIDE DEF b
<1>7. MemoryOK(codex, m) /\ PointOK(codex, o, "post", m, work[o], inq[o])
  BY ONLY <1>1, <1>6, ProcessOf, AdapterInv, o \in Owner DEF MemoryOK, PointOK, Idle, Busy, PutSendingBatch, Memo
<1>8. Acts(o, "post", m, work[o], inq[o])
  BY <1>3 DEF b
<1> HIDE DEF m
<1> QED
  BY ONLY AdapterInv, o \in Owner, <1>4, <1>5, <1>7, <1>8, ActsQuiet, ProcessOf, RestKept

(* A process that has dealt with a row is consistent at its next point. *)
LEMMA NextRowOK ==
    ASSUME AdapterInv, NEW o \in Owner, pc[o] \in {"post", "mark"}, NEW p \in {"run", "batch"}
    PROVE  /\ MemoryOK(codex, PutSending(mem[o], NoRelay))
           /\ PointOK(codex, o, p, PutSending(mem[o], NoRelay), work[o], inq[o])
  BY ProcessOf DEF MemoryOK, PointOK, Idle, Busy, PutSending, Memo

(* Posting a relay row, accepted or failed keeps the types and what every *)
(* process knows of Codex.                                                *)
LEMMA PostKeeps ==
    ASSUME Functions, AdapterInv, LeaseInv, NEW o \in Owner, PostAccepted(o) \/ PostFailed(o)
    PROVE  AdapterInv'
<1>1. /\ pc[o] = "post" /\ UNCHANGED storeVars /\ codex' = codex /\ gone' = gone
      /\ posted' = posted \/ posted' = posted \cup {mem[o].sending.op}
  BY Zenon DEF PostAccepted, PostFailed, At, codexVars
<1>2. StoreInv' /\ RowsKeep
  BY ONLY AdapterInv, <1>1, StoreSame, RowsSame DEF AdapterInv, storeVars
<1>3. mem[o].sending.op \in RelayOp
  BY <1>1, ProcessOf DEF PointOK, Relay
<1>4. posted' \subseteq RelayOp
  BY <1>1, <1>3 DEF AdapterInv
<1>5. CodexInv' /\ CodexGrows(o)
  BY ONLY AdapterInv, <1>1, CodexSame DEF AdapterInv
<1>6. CASE PostAccepted(o)
  <2>1. Acts(o, "mark", mem[o], work[o], inq[o])
    BY <1>6, PostActs
  <2>2. PointOK(codex', o, "mark", mem[o], work[o], inq[o])
    BY ONLY <1>1, ProcessOf, AdapterInv, o \in Owner DEF PointOK, Idle, Busy
  <2>3. MemoryOK(codex', mem[o]) /\ work[o] \in Seq(Known(codex')) /\ inq[o] \in Seq(Known(codex'))
    BY ONLY <1>1, ProcessOf, AdapterInv, o \in Owner
  <2> QED
    BY ONLY AdapterInv, o \in Owner, <1>2, <1>4, <1>5, <2>1, <2>2, <2>3, ActsKeep
<1>7. CASE PostFailed(o)
  <2> DEFINE m == PutSending(mem[o], NoRelay)
  <2>1. NextRow(o) /\ work' = work /\ inq' = inq
    BY <1>7, Zenon DEF PostFailed
  <2>2. PICK p \in {"run", "batch"} : Acts(o, p, m, work[o], inq[o])
    BY <2>1, NextRowActs
  <2>3. MemoryOK(codex', m) /\ PointOK(codex', o, p, m, work[o], inq[o])
        /\ work[o] \in Seq(Known(codex')) /\ inq[o] \in Seq(Known(codex'))
    BY ONLY <1>1, ProcessOf, NextRowOK, p \in {"run", "batch"}, AdapterInv, o \in Owner
  <2> HIDE DEF m
  <2> QED
    BY ONLY AdapterInv, o \in Owner, <1>2, <1>4, <1>5, <2>2, <2>3, ActsKeep
<1> QED
  BY <1>6, <1>7

(* Marking a posted relay accepted keeps the types and what every process *)
(* knows of Codex.                                                        *)
LEMMA MarkKeepsTypes ==
    ASSUME Functions, AdapterInv, LeaseInv, NEW o \in Owner, MarkRelay(o)
    PROVE  AdapterInv'
<1> DEFINE m == PutSending(mem[o], NoRelay)
<1>1. pc[o] = "mark" /\ mark_relay_accepted(mem[o].sending) /\ NextRow(o) /\ work' = work /\ KeepRest
  BY Zenon DEF MarkRelay, RecordSent, At
<1>2. mem[o].sending \in Relay
  BY <1>1, ProcessOf DEF PointOK
<1>3. StoreInv' /\ RowsKeep
  BY ONLY AdapterInv, <1>1, <1>2, MarkEffect, RowsSame DEF AdapterInv
<1>4. PICK p \in {"run", "batch"} : Acts(o, p, m, work[o], inq[o])
  BY <1>1, NextRowActs, RestKept
<1>5. MemoryOK(codex, m) /\ PointOK(codex, o, p, m, work[o], inq[o])
  BY ONLY <1>1, NextRowOK, p \in {"run", "batch"}, AdapterInv, o \in Owner
<1> HIDE DEF m
<1> QED
  BY ONLY AdapterInv, o \in Owner, <1>1, <1>3, <1>4, <1>5, ActsQuiet, ProcessOf, RestKept

(* Claiming the lease and starting the server keeps the types and what every *)
(* process knows of Codex.                                                   *)
LEMMA StartKeeps ==
    ASSUME Functions, AdapterInv, LeaseInv, NEW o \in Owner, Start(o)
    PROVE  AdapterInv'
<1>1. Acts(o, "resume", mem[o], work[o], inq[o])
  BY StartActs
<1>2. pc[o] = "new" /\ UNCHANGED storeVars /\ codex' = codex /\ gone' = gone /\ posted' = posted
  BY Zenon DEF Start, codexVars
<1>3. StoreInv' /\ RowsKeep
  BY ONLY AdapterInv, <1>2, StoreSame, RowsSame DEF AdapterInv, storeVars
<1>4. PointOK(codex, o, "resume", mem[o], work[o], inq[o])
  BY ONLY <1>2, ProcessOf, AdapterInv, o \in Owner DEF PointOK, Idle, Busy
<1> QED
  BY ONLY AdapterInv, o \in Owner, <1>1, <1>2, <1>3, <1>4, ActsQuiet, ProcessOf

(* The exit or crash of a process keeps the types and what every process *)
(* knows of Codex.                                                       *)
LEMMA LeaveKeeps ==
    ASSUME Functions, AdapterInv, LeaseInv, NEW o \in Owner, Leave(o)
    PROVE  AdapterInv' /\ CodexGrows(o)
<1>1. Acts(o, "dead", NoMem, <<>>, <<>>)
  BY LeaveActs
<1>2. UNCHANGED storeVars /\ AbandonTurns(o) /\ gone' = gone /\ posted' = posted
  BY Zenon DEF Leave
<1>3. StoreInv' /\ RowsKeep
  BY ONLY AdapterInv, <1>2, StoreSame, RowsSame DEF AdapterInv, storeVars
<1>4. CodexInv' /\ CodexGrows(o) /\ \A t \in Turn : codex'[t].srv # o
  BY ONLY AdapterInv, o \in Owner, <1>2, CodexAbandoned DEF AdapterInv
<1>5. MemoryOK(codex', NoMem) /\ PointOK(codex', o, "dead", NoMem, <<>>, <<>>)
  BY ONLY <1>4, NothingViewed DEF MemoryOK, PointOK, Idle, Busy, NoMem
<1>6. posted' \subseteq RelayOp /\ <<>> \in Seq(Known(codex'))
  BY <1>2 DEF AdapterInv
<1> QED
  BY ONLY AdapterInv, o \in Owner, <1>1, <1>3, <1>4, <1>5, <1>6, ActsKeep

(* Codex moves; the adapter only hears of it. *)
LEMMA EnvironmentKeeps ==
    ASSUME AdapterInv, CodexInv', NEW o, CodexGrows(o), o \in Owner => pc[o] \notin Idle, KeepAdapter,
           inq' = [u \in Owner |-> inq'[u]],
           \A u \in Owner : inq'[u] = inq[u] \/ (pc[u] \notin Idle /\ inq'[u] \in Seq(Known(codex')))
    PROVE  AdapterInv'
<1>1. UNCHANGED storeVars /\ pc' = pc /\ mem' = mem /\ work' = work /\ posted' = posted
  BY DEF KeepAdapter
<1>2. StoreInv' /\ turn' = turn
  BY <1>1, StoreSame DEF AdapterInv, storeVars
<1>3. ASSUME NEW u \in Owner PROVE Process(u)'
  <2>1. Process(u)
    BY DEF AdapterInv
  <2> QED
    BY <1>1, <2>1, ProcessGrows DEF AdapterInv
<1>4. \A t \in Turn : turn'[t].row => Seen(codex', turn'[t].thread, t)
  BY <1>2 DEF AdapterInv, Seen, CodexGrows, Continued
<1> QED
  BY <1>1, <1>2, <1>3, <1>4 DEF AdapterInv

(* A process whose server runs a turn is past its start. *)
LEMMA ServesAwake ==
    ASSUME AdapterInv, NEW t \in Turn, Live(t)
    PROVE  codex[t].srv \in Owner /\ pc[codex[t].srv] \notin Idle
<1>1. codex[t].srv \in Owner
  BY DEF AdapterInv, CodexInv, CodexTurn, Live
<1> QED
  BY <1>1, ProcessOf DEF PointOK

(* A notification to the process whose server runs the turn is a true report. *)
LEMMA NotifyKeeps ==
    ASSUME AdapterInv, CodexInv', CodexGrows(NoOwner), KeepAdapter, NEW t \in Turn, Live(t),
           NEW m \in Known(codex'), Notify(codex[t].srv, m)
    PROVE  AdapterInv'
<1> DEFINE u == codex[t].srv
<1>1. u \in Owner /\ pc[u] \notin Idle
  BY ServesAwake
<1>2. inq' = [inq EXCEPT ![u] = Append(inq[u], m)] /\ inq = [p \in Owner |-> inq[p]]
  BY Zenon DEF Notify, AdapterInv
<1> HIDE DEF u
<1>3. Wrote(inq', inq, u, Append(inq[u], m))
  BY <1>1, <1>2, WriteValue
<1>4. inq[u] \in Seq(Known(codex'))
  BY ONLY AdapterInv, CodexInv', CodexGrows(NoOwner), <1>1, KnownGrows, ProcessOf DEF AdapterInv
<1>5. Append(inq[u], m) \in Seq(Known(codex'))
  BY ONLY <1>4, m \in Known(codex')
<1>6. \A p \in Owner : inq'[p] = inq[p] \/ (pc[p] \notin Idle /\ inq'[p] \in Seq(Known(codex')))
  BY ONLY <1>1, <1>3, <1>5 DEF Wrote
<1>7. inq' = [p \in Owner |-> inq'[p]]
  BY ONLY <1>3 DEF Wrote
<1> QED
  BY ONLY AdapterInv, CodexInv', CodexGrows(NoOwner), KeepAdapter, <1>6, <1>7, NoOwnerAssumption, EnvironmentKeeps

(* Codex adding an item and reporting it keeps the invariant. *)
LEMMA CodexItemKeeps ==
    ASSUME AdapterInv, NEW t \in Turn, NEW phase \in Phases, CodexItem(t, phase)
    PROVE  AdapterInv' /\ CodexInv' /\ CodexGrows(NoOwner)
<1> DEFINE e == [from |-> 0, phase |-> phase]
           n == Len(codex[t].hist) + 1
           m == ItemMessage(t, n)
<1>1. /\ Live(t) /\ Len(codex[t].hist) < MaxItem /\ gone' = gone /\ KeepAdapter
      /\ codex' = [codex EXCEPT ![t].hist = Append(@, e)]
      /\ Notify(codex[t].srv, m)
  BY Zenon DEF CodexItem
<1>2. e \in Entry /\ e.phase \in Phase /\ e.from = 0
  BY PhaseAssumption DEF Entry
<1> HIDE DEF e
<1>3. CodexInv' /\ CodexGrows(NoOwner) /\ codex'[t].hist = Append(codex[t].hist, e)
  BY ONLY AdapterInv, t \in Turn, <1>1, <1>2, CodexAppend DEF AdapterInv
<1>4. codex'[t].thread # 0
  BY <1>1, <1>3 DEF AdapterInv, CodexInv, CodexGrows, Continued
<1>5. codex[t].hist \in Seq(Entry) /\ Len(codex[t].hist) \in Nat
  <2>1. codex[t].hist \in History
    BY DEF AdapterInv, CodexInv
  <2> QED
    BY ONLY <2>1 DEF History
<1>6. n \in 1..Len(codex'[t].hist) /\ codex'[t].hist[n].from = 0
  BY ONLY <1>2, <1>3, <1>5
<1>7. n \in 0..MaxItem
  BY ONLY <1>1, <1>5, BoundAssumption
<1> HIDE DEF n
<1>8. m \in Known(codex')
  <2>1. m \in Message /\ m.t = t /\ m.i = n /\ m.k = "item"
    BY ONLY t \in Turn, <1>7 DEF ItemMessage, Message
  <2> HIDE DEF m
  <2> QED
    BY ONLY <1>4, <1>6, <2>1 DEF Known
<1> HIDE DEF m
<1> QED
  BY ONLY AdapterInv, t \in Turn, <1>1, <1>3, <1>8, NotifyKeeps

(* Codex finishing a turn and reporting it keeps the invariant. *)
LEMMA CodexFinishKeeps ==
    ASSUME AdapterInv, NEW t \in Turn, NEW s \in {"completed", "failed", "interrupted"}, CodexFinish(t, s)
    PROVE  AdapterInv' /\ CodexInv' /\ CodexGrows(NoOwner) /\ ~Live(t)'
<1> DEFINE m == DoneMessage(t, s)
<1>1. /\ Live(t) /\ gone' = gone /\ KeepAdapter
      /\ codex' = [codex EXCEPT ![t].status = s, ![t].srv = NoOwner, ![t].durable = TRUE]
      /\ Notify(codex[t].srv, m)
  BY Zenon DEF CodexFinish
<1>2. s \in Recorded
  BY DEF Recorded
<1>3. CodexInv' /\ CodexGrows(NoOwner) /\ ~Live(t)'
  BY ONLY AdapterInv, t \in Turn, <1>1, <1>2, CodexFinishes DEF AdapterInv
<1>4. codex'[t].thread # 0 /\ codex'[t].srv = NoOwner
  BY <1>1, <1>3 DEF AdapterInv, CodexInv, CodexGrows, Continued, Live
<1>5. 0 \in 0..MaxItem
  BY BoundAssumption
<1>8. m \in Known(codex')
  <2>1. m \in Message /\ m.t = t /\ m.status = s /\ m.k = "done"
    BY ONLY t \in Turn, s \in {"completed", "failed", "interrupted"}, <1>5 DEF DoneMessage, Message
  <2> HIDE DEF m
  <2> QED
    BY ONLY <1>4, <2>1, s \in {"completed", "failed", "interrupted"} DEF Known
<1> HIDE DEF m
<1> QED
  BY ONLY AdapterInv, t \in Turn, <1>1, <1>3, <1>8, NotifyKeeps

(* Codex persisting or dropping a turn keeps the invariant. *)
LEMMA CodexQuietKeeps ==
    ASSUME AdapterInv, NEW t \in Turn, CodexPersist(t) \/ CodexDrop(t)
    PROVE  AdapterInv' /\ CodexInv' /\ CodexGrows(NoOwner)
<1>1. gone' = gone /\ inq' = inq /\ KeepAdapter
  BY Zenon DEF CodexPersist, CodexDrop
<1>2. CodexInv' /\ CodexGrows(NoOwner)
  <2>1. CASE CodexPersist(t)
    <3>1. Live(t) /\ codex' = [codex EXCEPT ![t].durable = TRUE]
      BY <2>1, Zenon DEF CodexPersist
    <3> QED
      BY ONLY AdapterInv, t \in Turn, <1>1, <3>1, CodexPersists DEF AdapterInv
  <2>2. CASE CodexDrop(t)
    <3>1. ~codex[t].durable /\ codex' = [codex EXCEPT ![t].status = "lost", ![t].srv = NoOwner]
      BY <2>2, Zenon DEF CodexDrop
    <3> QED
      BY ONLY AdapterInv, t \in Turn, <1>1, <3>1, CodexDrops DEF AdapterInv
  <2> QED
    BY <2>1, <2>2
<1> QED
  BY ONLY AdapterInv, <1>1, <1>2, NoOwnerAssumption, EnvironmentKeeps DEF AdapterInv

(* Codex continuing a thread in another turn keeps the invariant. *)
LEMMA RollOverKeeps ==
    ASSUME AdapterInv, NEW o \in Owner, CodexRollOver(o)
    PROVE  AdapterInv' /\ CodexInv' /\ CodexGrows(o)
<1>1. /\ mem[o].active # 0 /\ mem[o].thread \notin gone /\ IdleServer(o, mem[o].thread)
      /\ gone' = gone /\ inq' = inq /\ KeepAdapter
  BY Zenon DEF CodexRollOver
<1>2. PICK t \in Turn : NewTurn(o, t, <<>>)
  BY Zenon DEF CodexRollOver
<1>3. mem[o].thread \in Thread /\ pc[o] \notin Idle
  BY <1>1, ProcessOf DEF MemoryOK, PointOK, Seen
<1>4. <<>> \in History
  BY BoundAssumption DEF History
<1>5. CodexInv' /\ CodexGrows(o)
  BY ONLY AdapterInv, o \in Owner, t \in Turn, <1>1, <1>2, <1>3, <1>4, CodexNew DEF AdapterInv
<1> QED
  BY ONLY AdapterInv, o \in Owner, <1>1, <1>3, <1>5, EnvironmentKeeps DEF AdapterInv

(* The loss of a thread keeps the invariant. *)
LEMMA LoseThreadKeeps ==
    ASSUME AdapterInv, NEW th \in Thread, LoseThread(th)
    PROVE  AdapterInv' /\ CodexInv' /\ CodexGrows(NoOwner)
<1>1. inq' = inq /\ KeepAdapter
  BY Zenon DEF LoseThread
<1>2. CodexInv' /\ CodexGrows(NoOwner)
  BY ONLY AdapterInv, th \in Thread, LoseThread(th), CodexLosesThread DEF AdapterInv
<1> QED
  BY ONLY AdapterInv, <1>1, <1>2, NoOwnerAssumption, EnvironmentKeeps DEF AdapterInv

(* A backoff that elapses only makes its attention due. *)
LEMMA ElapsedEffect ==
    ASSUME StoreInv, NEW a \in Attention, BackoffElapsed(a)
    PROVE  /\ StoreInv' /\ \A b \in Attention : CoreSame(b)
           /\ UNCHANGED <<turn, turnAtt, intent, thread, relay>>
<1> DEFINE n == [att[a] EXCEPT !.due = TRUE]
<1>1. att' = [att EXCEPT ![a] = n] /\ UNCHANGED <<turn, turnAtt, intent, thread, relay>>
  BY Zenon DEF BackoffElapsed
<1>2. att[a] \in AttentionRow /\ att \in [Attention -> AttentionRow]
  BY DEF StoreInv, StoreTypeOK
<1>3. n \in AttentionRow /\ n.stored = att[a].stored /\ n.accepted = att[a].accepted /\ n.turn = att[a].turn
      /\ n.done = att[a].done /\ n.term = att[a].term /\ n.final = att[a].final
  BY <1>2 DEF AttentionRow
<1> HIDE DEF n
<1>4. /\ att' \in [Attention -> AttentionRow] /\ att'[a] = n
      /\ \A b \in Attention : b # a => att'[b] = att[b]
  BY <1>1, <1>2, <1>3, AttWritten
<1>5. StoreInv'
  BY <1>1, <1>4 DEF StoreInv, StoreTypeOK
<1>6. \A b \in Attention : CoreSame(b)
  BY <1>3, <1>4 DEF CoreSame
<1> QED
  BY <1>1, <1>5, <1>6

(* Stuttering, stalls and elapsed backoffs keep the invariant. *)
LEMMA QuietKeeps ==
    ASSUME AdapterInv, UNCHANGED <<adapterVars, codexVars, posted>>,
           UNCHANGED storeVars \/ \E a \in Attention : BackoffElapsed(a)
    PROVE  AdapterInv'
<1>1. UNCHANGED <<pc, mem, work, inq, codex, gone, posted>>
  BY DEF adapterVars, codexVars
<1>2. StoreInv' /\ turn' = turn
  BY StoreSame, ElapsedEffect DEF AdapterInv, storeVars
<1> QED
  BY <1>1, <1>2 DEF AdapterInv, CodexInv, Process, Live

(* Every step of an adapter process keeps the invariant. *)
LEMMA AdapterStepKeeps ==
    ASSUME Functions, AdapterInv, LeaseInv, NEW o \in Owner, AdapterStep(o)
    PROVE  AdapterInv'
<1>1. CASE Recovery(o)
  BY <1>1, StartKeeps, ResumeMissingKeeps, ResumeThreadKeeps, ReconcileKeeps, AdoptKeeps, ReplayKeeps,
     ReapKeeps DEF Recovery
<1>2. CASE Messages(o)
  BY <1>2, ItemKeeps, NoReplyKeeps, PromoteKeeps, DoneKeeps, DrainKeeps DEF Messages
<1>3. CASE Dispatch(o)
  BY <1>3, LegacyKeeps, ThreadKeeps, PrepareKeeps, StartTurnKeeps, SteerKeeps, MismatchKeeps, BindKeeps,
     RejectKeeps, InactiveKeeps, DeferKeeps, StopInterruptKeeps, StopTurnKeeps, StopPendingKeeps,
     CloseKeeps DEF Dispatch
<1>4. CASE Relays(o)
  BY <1>4, TakeKeeps, PostKeeps, MarkKeepsTypes DEF Relays
<1>5. CASE Stale(o)
  <2>1. Leave(o)
    BY <1>5 DEF Stale
  <2> QED
    BY <2>1, LeaveKeeps
<1> QED
  BY <1>1, <1>2, <1>3, <1>4, <1>5 DEF AdapterStep

(* Every step of the whole system keeps the invariant. *)
LEMMA AdapterInvStep ==
    ASSUME RelayInv, LeaseInv, AdapterInv, [Next]_vars
    PROVE  AdapterInv'
<1>1. Functions
  BY AreFunctions
<1>2. ASSUME NEW o \in Owner, AdapterStep(o) \/ Ingest(o) \/ reconcile_active_turn(o)
      PROVE  AdapterInv'
  BY <1>1, <1>2, AdapterStepKeeps, IngestKeeps, ActiveKeeps
<1>3. ASSUME NEW o \in Owner, Crash(o) PROVE AdapterInv'
  <2>1. Leave(o)
    BY <1>3 DEF Crash
  <2> QED
    BY <1>1, <2>1, LeaveKeeps
<1>4. CASE Stall \/ (\E a \in Attention : Elapsed(a)) \/ UNCHANGED vars
  <2>1. UNCHANGED <<adapterVars, codexVars, posted>>
    BY <1>4 DEF Stall, Elapsed, vars
  <2>2. UNCHANGED storeVars \/ \E a \in Attention : BackoffElapsed(a)
    BY <1>4 DEF Stall, Elapsed, vars
  <2> QED
    BY <2>1, <2>2, QuietKeeps
<1>5. CASE CodexStep
  BY <1>5, CodexItemKeeps, CodexFinishKeeps, CodexQuietKeeps, RollOverKeeps, LoseThreadKeeps DEF CodexStep
<1> QED
  BY <1>2, <1>3, <1>4, <1>5 DEF Next

(* It holds of a new agent home. *)
LEMMA AdapterInvInit == Init => AdapterInv
<1> SUFFICES ASSUME Init PROVE AdapterInv
  OBVIOUS
<1>1. StoreInv
  <2>1. StoreTypeOK
    BY BoundAssumption DEF Init, StoreInit, StoreTypeOK, AttentionRow, TurnRow, IntentRow, Open
  <2>2. \A t \in Turn : turnAtt[t] = {}
    BY DEF Init, StoreInit
  <2> QED
    BY <2>1, <2>2, FS_EmptySet DEF StoreInv
<1>2. \A t \in Turn : codex[t] = UnusedTurn
  BY DEF Init
<1>3. UnusedTurn \in CodexTurn /\ UnusedTurn.hist \in History /\ UnusedTurn.srv = NoOwner /\ ~UnusedTurn.durable
  BY BoundAssumption DEF UnusedTurn, CodexTurn, History
<1>4. CodexInv
  <2>1. codex \in [Turn -> CodexTurn] /\ gone \subseteq Thread
    BY <1>3 DEF Init
  <2>2. \A t \in Turn : codex[t].hist \in History /\ ~Live(t) /\ ~codex[t].durable
    BY <1>2, <1>3 DEF Live
  <2> QED
    BY <2>1, <2>2 DEF CodexInv
<1>5. ASSUME NEW o \in Owner PROVE Process(o)
  <2>1. pc[o] = "new" /\ mem[o] = NoMem /\ work[o] = <<>> /\ inq[o] = <<>>
    BY DEF Init
  <2>2. \A t \in Turn : codex[t].srv # o
    BY <1>2, <1>3, NoOwnerAssumption
  <2>3. MemoryOK(codex, NoMem) /\ PointOK(codex, o, "new", NoMem, <<>>, <<>>)
    BY <2>2, NothingViewed DEF MemoryOK, PointOK, Idle, Busy, NoMem
  <2> QED
    BY <2>1, <2>3 DEF Process
<1>6. inq = [o \in Owner |-> inq[o]] /\ posted = {} /\ \A t \in Turn : ~turn[t].row
  BY DEF Init, StoreInit
<1> QED
  BY <1>1, <1>4, <1>5, <1>6 DEF AdapterInv

(* In every behaviour of the adapter, for any processes, attentions, threads, *)
(* turns and bounds, and through crashes, takeovers and lost threads: the     *)
(* tables have their types, queued notifications report what Codex did, the   *)
(* active turn and the view of a process belong to the thread it resumed, a   *)
(* server runs at most one turn of a thread, and turn rows name the thread of *)
(* their turn.                                                                *)
THEOREM AdapterInvariant == Spec => [](LeaseInv /\ RelayInv /\ AdapterInv)
<1>1. LeaseInv /\ RelayInv /\ AdapterInv /\ [Next]_vars => AdapterInv'
  BY AdapterInvStep
<1> QED
  BY <1>1, AdapterInvInit, AdapterImplementsLease, LeaseInvariant, RelayInvariant, PTL DEF Spec

(* Type correctness: the tables of attention_store.py, the memory and the *)
(* queues of codex_adapter_v2.py and the turns of Codex always hold what  *)
(* their columns and classes allow.                                       *)
THEOREM AdapterTypes == Spec => []TypeOK
<1>1. LeaseInv /\ RelayInv /\ AdapterInv => TypeOK
  <2> SUFFICES ASSUME LeaseInv, RelayInv, AdapterInv PROVE TypeOK
    OBVIOUS
  <2>1. ASSUME NEW o \in Owner
        PROVE  /\ \A n \in 1..Len(work[o]) : work[o][n] \in Message
               /\ \A n \in 1..Len(inq[o]) : inq[o][n] \in Message
    <3>1. Known(codex) \subseteq Message
      BY DEF Known
    <3> QED
      BY <3>1, ProcessOf
  <2>2. \A o \in Owner : MemoryOK(codex, mem[o])
    BY ProcessOf
  <2>3. \A t \in Turn : codex[t] \in CodexTurn /\ Len(codex[t].hist) <= MaxItem
    BY DEF AdapterInv, CodexInv, History
  <2>4. LeaseTypeOK /\ StoreTypeOK /\ pc \in [Owner -> Point] /\ gone \subseteq Thread /\ posted \subseteq RelayOp
    BY DEF LeaseInv, RelayInv, AdapterInv, StoreInv, CodexInv
  <2> QED
    BY <2>1, <2>2, <2>3, <2>4 DEF TypeOK, MemoryOK
<1> QED
  BY <1>1, AdapterInvariant, PTL
=============================================================================
