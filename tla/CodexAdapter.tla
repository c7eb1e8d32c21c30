---------------------------- MODULE CodexAdapter ----------------------------
(***************************************************************************)
(* The persistent Codex adapter (skill/agent-room/codex_adapter_v2.py)     *)
(* over the attention ledger: adapter processes that may crash, stall past *)
(* their lease and be replaced; the Codex app-server each of them owns     *)
(* (external); and the room that receives relayed output.                  *)
(*                                                                         *)
(* A step is one ledger transaction, one Codex RPC or one HTTP post: a     *)
(* process can be killed or superseded between any two of them.            *)
(***************************************************************************)
EXTENDS AttentionStore, Sequences

Seqs == INSTANCE SequencesExt

CONSTANTS
    Phases,          \* agent message phases the model may emit
    FinishStatus,    \* statuses with which Codex may end a turn
    CanReject,       \* Codex may refuse an RPC it could have served
    CanLoseThread,   \* a Codex thread's rollout may disappear
    CanRollOver      \* Codex may open a turn of its own after a finished one

VARIABLES
    pc,        \* where each adapter process is
    mem,       \* its memory: scope_threads, active_turns and locals
    work,      \* messages it has read and is handling, in order
    inq,       \* notifications of its app-server it has not read
    codex,     \* Codex turns: durable history and live execution (external)
    gone,      \* Codex threads whose rollout no longer exists (external)
    posted     \* operations the room server has accepted, by op_id

adapterVars == <<pc, mem, work, inq>>
codexVars == <<codex, gone>>
vars == <<leaseVars, storeVars, adapterVars, codexVars, posted>>

Phase == {"commentary", "final_answer", "none", "no_reply"}

ASSUME PhaseAssumption ==
    /\ Phases \subseteq Phase
    /\ FinishStatus \subseteq {"completed", "failed", "interrupted"}
    /\ CanReject \in BOOLEAN
    /\ CanLoseThread \in BOOLEAN
    /\ CanRollOver \in BOOLEAN

(* Program points of an adapter process. *)
Point == {"new", "resume", "reconcile", "replay", "run", "rpc", "retry",
          "bind", "rejected", "stopTurn", "stopPending", "relay", "batch", "post",
          "mark", "dead"}

(* A history entry: a user message carrying an attention's client id, or a  *)
(* completed agent message with its phase.                                  *)
Entry == [from: Attention \cup {0}, phase: Phase \cup {"user"}]

CodexTurn == [thread: Thread \cup {0}, durable: BOOLEAN,
              status: {"none", "inProgress", "completed", "failed",
                       "interrupted", "lost"},
              stop: BOOLEAN, srv: Owner \cup {NoOwner}, hist: Seq(Entry)]

NoRelay == [op |-> [turn |-> 0, item |-> 0, fallback |-> FALSE,
                    kind |-> "none", cov |-> {}],
            status |-> "none"]
NoView == [t \in Turn |-> [status |-> "absent", len |-> 0]]
NoMem == [thread |-> 0, active |-> 0, cur |-> 0, acc |-> 0, now |-> FALSE,
          view |-> NoView, sending |-> NoRelay, batch |-> {}]
UnusedTurn == [thread |-> 0, durable |-> FALSE, status |-> "none",
               stop |-> FALSE, srv |-> NoOwner, hist |-> <<>>]

Message == [k: {"item", "noReply", "done"}, t: Turn, i: 0..MaxItem,
            status: {"none", "completed", "failed", "interrupted"}]

TypeOK ==
    /\ LeaseTypeOK
    /\ StoreTypeOK
    /\ pc \in [Owner -> Point]
    /\ \A o \in Owner :
          /\ mem[o].thread \in Thread \cup {0}
          /\ mem[o].active \in Turn \cup {0}
          /\ mem[o].cur \in Attention \cup {0}
          /\ mem[o].acc \in Turn \cup {0}
          /\ mem[o].sending \in Relay \cup {NoRelay}
          /\ mem[o].batch \subseteq Relay
          /\ \A n \in 1..Len(work[o]) : work[o][n] \in Message
          /\ \A n \in 1..Len(inq[o]) : inq[o][n] \in Message
    /\ \A t \in Turn : codex[t] \in CodexTurn /\ Len(codex[t].hist) <= MaxItem
    /\ gone \subseteq Thread
    /\ posted \subseteq RelayOp

Init ==
    /\ LeaseInit
    /\ StoreInit
    /\ pc = [o \in Owner |-> "new"]
    /\ mem = [o \in Owner |-> NoMem]
    /\ work = [o \in Owner |-> <<>>]
    /\ inq = [o \in Owner |-> <<>>]
    /\ codex = [t \in Turn |-> UnusedTurn]
    /\ gone = {}
    /\ posted = {}

-----------------------------------------------------------------------------
(* Helpers. *)

Goto(o, point) == pc' = [pc EXCEPT ![o] = point]

(* `o' is at `point' with every message it has read already handled. *)
At(o, point) == pc[o] = point /\ work[o] = <<>>

Live(t) == codex[t].srv # NoOwner

(* Mutant: a thread is idle unless proven otherwise. *)
AssumeIdle(o, th) == TRUE

(* o's app-server runs no turn of the thread. *)
IdleServer(o, th) == \A t \in Turn : ~(codex[t].srv = o /\ codex[t].thread = th)

(* The turns of a thread that its durable history shows. *)
InHistory(th, t) == codex[t].thread = th /\ codex[t].durable

(* thread/read(includeTurns): status and length of every turn in history. *)
authoritative_turns(th) ==
    [t \in Turn |-> IF InHistory(th, t)
                    THEN [status |-> codex[t].status, len |-> Len(codex[t].hist)]
                    ELSE [status |-> "absent", len |-> 0]]

(* turn_for_client_message: the turns of a view that hold a's client id. *)
TurnsWithClient(view, a) ==
    {t \in Turn : \E i \in 1..view[t].len : codex[t].hist[i].from = a}

(* RPC turn/start: the next unused turn id begins with `hist'. *)
NewTurn(o, t, hist) ==
    /\ codex[t].thread = 0 /\ \A u \in Turn : u < t => codex[u].thread # 0
    /\ codex' = [codex EXCEPT ![t] = [thread |-> mem[o].thread, durable |-> FALSE,
                                      status |-> "inProgress", stop |-> FALSE,
                                      srv |-> o, hist |-> hist]]

First(S) == CHOOSE t \in S : \A u \in S : t <= u
Last(S) == CHOOSE t \in S : \A u \in S : u <= t

ItemMessage(t, i) == [k |-> "item", t |-> t, i |-> i, status |-> "none"]
DoneMessage(t, s) == [k |-> "done", t |-> t, i |-> 0, status |-> s]
NoReplyMessage(t) == [k |-> "noReply", t |-> t, i |-> 0, status |-> "none"]

(* recover_turn: replay a turn's agent messages, then its completion. *)
recover_turn(view, t) ==
    LET items == Seqs!FlattenSeq([i \in 1..view[t].len |->
                   IF codex[t].hist[i].from = 0 THEN <<ItemMessage(t, i)>> ELSE <<>>])
    IN  IF view[t].status = "inProgress" THEN items
        ELSE Append(items, DoneMessage(t, view[t].status))

(* Replay of several turns, in history order. *)
ReplayAll(view, S) ==
    Seqs!FlattenSeq([t \in Turn |-> IF t \in S THEN recover_turn(view, t) ELSE <<>>])

(* Bound of the model: a process may be lost only while another can follow. *)
SpareOwner == \E o \in Owner : pc[o] = "new"

-----------------------------------------------------------------------------
(* Starting, stopping and losing a process. *)

(* Mutant: a new process takes the lease although its owner is busy. *)
StartSteals(o) ==
    /\ pc[o] = "new" /\ lease.epoch < MaxEpoch
    /\ lease' = [owner |-> o, epoch |-> lease.epoch + 1, left |-> TTL]
    /\ epochOf' = [epochOf EXCEPT ![o] = lease.epoch + 1]
    /\ Goto(o, "resume")
    /\ UNCHANGED <<alive, storeVars, mem, work, inq, codexVars, posted>>

(* initialize: claim the lease. *)
Start(o) ==
    /\ pc[o] = "new"
    /\ claim_lease(o)
    /\ Goto(o, "resume")
    /\ UNCHANGED <<storeVars, mem, work, inq, codexVars, posted>>

(* o's app-server is a child process: its turns end with it.  What never    *)
(* reached the rollout is lost; the rest may or may not get a terminal      *)
(* record.                                                                  *)
AbandonTurns(o) ==
    \E ended \in SUBSET {t \in Turn : codex[t].srv = o /\ codex[t].durable} :
        codex' = [t \in Turn |->
            IF codex[t].srv # o THEN codex[t]
            ELSE [codex[t] EXCEPT !.srv = NoOwner,
                                  !.status = IF ~codex[t].durable THEN "lost"
                                             ELSE IF t \in ended THEN "interrupted"
                                             ELSE "inProgress"]]

Leave(o) ==
    /\ pc[o] \notin {"new", "dead"}
    /\ Goto(o, "dead")
    /\ mem' = [mem EXCEPT ![o] = NoMem]
    /\ work' = [work EXCEPT ![o] = <<>>]
    /\ inq' = [inq EXCEPT ![o] = <<>>]
    /\ AbandonTurns(o)
    /\ UNCHANGED <<storeVars, gone, posted>>

(* The process is killed.  An error exit, which also releases the lease,    *)
(* leaves its successor the same choices: claim_lease finds the owner dead. *)
Crash(o) ==
    /\ SpareOwner
    /\ Leave(o)
    /\ Die(o)

(* StaleLease: the next fenced transaction of a superseded process fails.   *)
Stale(o) ==
    /\ pc[o] \notin {"rpc", "retry", "post"}
    /\ ~Fenced(o)
    /\ Leave(o)
    /\ Die(o)

(* LeaseBusy: another process owns the identity; the runtime tries later.   *)
(* The refusal changes nothing, so it is the absence of Start.              *)

(* The owner fails to renew for LEASE_TTL_MS. *)
Stall ==
    /\ SpareOwner
    /\ Tick
    /\ UNCHANGED <<storeVars, adapterVars, codexVars, posted>>

-----------------------------------------------------------------------------
(* initialize: recover_existing_threads and the reaper. *)

(* What a ledger transaction of `o' leaves alone. *)
KeepRest == UNCHANGED <<leaseVars, codexVars, posted, inq>>

(* The saved thread no longer exists: its prepared dispatches are retried   *)
(* and its output-free turns requeued.                                      *)
ResumeMissing(o) ==
    /\ At(o, "resume") /\ thread \in gone /\ Fenced(o)
    /\ \/ \E a \in unresolved_dispatches(thread) :
             /\ retry_unobserved_dispatch(a)
             /\ UNCHANGED pc
       \/ /\ unresolved_dispatches(thread) = {}
          /\ requeue_missing_thread(thread)
          /\ Goto(o, "replay")
    /\ UNCHANGED <<mem, work>> /\ KeepRest

ResumeThread(o) ==
    /\ At(o, "resume") /\ thread \in Thread \ gone /\ Fenced(o)
    /\ set_thread(thread)
    /\ mem' = [mem EXCEPT ![o].thread = thread,
                          ![o].view = authoritative_turns(thread)]
    /\ Goto(o, "reconcile")
    /\ UNCHANGED work /\ KeepRest

(* reconcile_dispatches: a prepared intent is bound to the turn whose       *)
(* history holds its client id, or retried when no turn does.               *)
reconcile_dispatches(o) ==
    /\ At(o, "reconcile") /\ Fenced(o)
    /\ \E a \in unresolved_dispatches(mem[o].thread) :
          LET found == TurnsWithClient(mem[o].view, a) IN
          IF found # {}
          THEN finalize_dispatch(a, mem[o].thread, First(found), epochOf[o],
                                 "reconciled")
          ELSE retry_unobserved_dispatch(a)
    /\ UNCHANGED <<pc, mem, work>> /\ KeepRest

(* Incomplete turns that recovery has not classified yet: an adopted turn   *)
(* carries the new epoch and a requeued one is complete.                    *)
Unclassified(o) == {t \in incomplete_turn_ids(mem[o].thread) :
                      turn[t].epoch # epochOf[o]}
Absent(o, t) == mem[o].view[t].status = "absent"

(* reconcile_accepted_turns, forced: a turn in history is adopted; one that *)
(* is absent is adopted without idle evidence and requeued with it.  A      *)
(* thread/read that fails or reports another status is no evidence.         *)
reconcile_accepted_turns(o) ==
    /\ At(o, "reconcile") /\ Fenced(o)
    /\ unresolved_dispatches(mem[o].thread) = {}
    /\ \E t \in Unclassified(o) :
          \/ /\ ~Absent(o, t)
             /\ adopt_recovered_turn(t, epochOf[o])
             /\ UNCHANGED mem
          \/ /\ Absent(o, t)
             /\ adopt_recovered_turn(t, epochOf[o])
             /\ mem' = [mem EXCEPT ![o].active = IF @ = 0 THEN t ELSE @]
          \/ /\ Absent(o, t) /\ IdleServer(o, mem[o].thread)
             /\ Replayable(t)
             /\ requeue_missing_turn(t)
             /\ UNCHANGED mem
    /\ UNCHANGED <<pc, work>> /\ KeepRest

(* Absent turns with output stay as they are; the turns in history that are *)
(* unfinished, or running, are replayed.                                    *)
ReplayHistory(o) ==
    LET view == mem[o].view
        running == {t \in Turn : view[t].status = "inProgress"}
        unfinished == {t \in incomplete_turn_ids(mem[o].thread) : ~Absent(o, t)}
    IN
    /\ At(o, "reconcile") /\ unresolved_dispatches(mem[o].thread) = {}
    /\ \A t \in Unclassified(o) : Absent(o, t) /\ ~Replayable(t)
    /\ work' = [work EXCEPT ![o] = ReplayAll(view, running \cup unfinished)]
    /\ mem' = [mem EXCEPT ![o].view = NoView,
                          ![o].active = IF running # {} THEN Last(running) ELSE @]
    /\ Goto(o, "replay")
    /\ UNCHANGED storeVars /\ KeepRest

(* With no saved thread there is nothing to replay. *)
Reap(o) ==
    /\ At(o, "replay") \/ (At(o, "resume") /\ thread = 0)
    /\ Fenced(o)
    /\ reap_stale_turns_after_recovery(epochOf[o])
    /\ Goto(o, "run")
    /\ UNCHANGED <<mem, work>> /\ KeepRest

-----------------------------------------------------------------------------
(* Handling Codex messages: handle_message. *)

(* The points at which read messages are handled. *)
Handling(o) == work[o] # <<>> /\ Fenced(o)

Handled(o) == work' = [work EXCEPT ![o] = Tail(@)]

Op(t, i, fallback, kind, cov) ==
    [turn |-> t, item |-> i, fallback |-> fallback, kind |-> kind, cov |-> cov]

(* create_output: nothing accepted, nothing created. *)
create_output(t, i, fallback, kind, cov, status) ==
    IF cov = {} THEN UNCHANGED storeVars
    ELSE create_relay_item(Op(t, i, fallback, kind, cov), status)

(* The relay kind and status an agent message of a turn gets. *)
KindOf(t, phase) ==
    CASE phase = "no_reply" -> <<"no_reply", "suppressed">>
      [] phase = "commentary" /\ turn_allows_commentary(t)
           -> <<"commentary", "pending">>
      [] phase = "commentary" /\ ~turn_allows_commentary(t)
           -> <<"commentary_suppressed", "suppressed">>
      [] phase = "final_answer" /\ uncovered_final_attention_ids(t) # {}
           -> <<"final", "pending">>
      [] phase = "final_answer" /\ uncovered_final_attention_ids(t) = {}
           -> <<"final_suppressed", "suppressed">>
      [] phase = "none" -> <<"candidate", "held">>

(* handle_agent_item: a replayed item keeps its first coverage; the         *)
(* no-reply sentinel is followed by mark_turn_no_reply.                     *)
handle_agent_item(o) ==
    /\ Handling(o) /\ Head(work[o]).k = "item"
    /\ LET m == Head(work[o])
           phase == codex[m.t].hist[m.i].phase
           kind == KindOf(m.t, phase)
       IN
       IF turn_has_relay_item(m.t, m.i)
       THEN UNCHANGED storeVars /\ Handled(o)
       ELSE /\ create_output(m.t, m.i, FALSE, kind[1], accepted_for_turn(m.t),
                             kind[2])
            /\ IF phase = "no_reply"
               THEN work' = [work EXCEPT ![o] =
                               <<NoReplyMessage(m.t)>> \o Tail(@)]
               ELSE Handled(o)
    /\ UNCHANGED <<pc, mem>> /\ KeepRest

HandleNoReply(o) ==
    /\ Handling(o) /\ Head(work[o]).k = "noReply"
    /\ mark_turn_no_reply(Head(work[o]).t)
    /\ Handled(o)
    /\ UNCHANGED <<pc, mem>> /\ KeepRest

(* The candidate that completion promotes to a final, if any. *)
Promotable(m) ==
    {r \in latest_unknown_item(m.t) :
        /\ m.status = "completed"
        /\ r.op.cov \cap uncovered_final_attention_ids(m.t) # {}
        /\ r.op.cov \cap accepted_for_turn(m.t) # {}}

(* handle_turn_completed, first transaction: an uncovered attention may be  *)
(* answered by the last item without a phase, under its original coverage.  *)
PromoteCandidate(o) ==
    /\ Handling(o) /\ Head(work[o]).k = "done"
    /\ \E r \in Promotable(Head(work[o])) :
          create_output(r.op.turn, r.op.item, TRUE, "final",
                        r.op.cov \cap accepted_for_turn(r.op.turn), "pending")
    /\ UNCHANGED <<pc, mem, work>> /\ KeepRest

(* handle_turn_completed, second transaction. *)
handle_turn_completed(o) ==
    /\ Handling(o) /\ Head(work[o]).k = "done"
    /\ LET m == Head(work[o]) IN
       /\ Promotable(m) = {}
       /\ mark_turn_completed(m.t, m.status)
       /\ mem' = [mem EXCEPT ![o].active = IF @ = m.t THEN 0 ELSE @]
    /\ Handled(o)
    /\ UNCHANGED pc /\ KeepRest

(* drain_messages at the top of a cycle and after a dispatch. *)
drain_messages(o) ==
    /\ At(o, "run") \/ At(o, "relay")
    /\ inq[o] # <<>>
    /\ work' = [work EXCEPT ![o] = inq[o]]
    /\ inq' = [inq EXCEPT ![o] = <<>>]
    /\ UNCHANGED <<leaseVars, storeVars, pc, mem, codexVars, posted>>

-----------------------------------------------------------------------------
(* cycle: ingest, drain, reconcile, dispatch, relay. *)

Ingest(o) ==
    /\ At(o, "run")
    /\ ingest_inbox
    /\ UNCHANGED <<pc, mem, work>> /\ KeepRest

(* reconcile_active_turn's choice for turn t of o's thread: a terminal      *)
(* record is replayed, otherwise the turn is requeued if it is output-free. *)
Terminated(t) == codex[t].status \in {"completed", "failed", "interrupted"}

(* requeue_missing_turn would return a count above zero. *)
Requeues(t) == Replayable(t) /\ \E a \in Attached(t) : ~att[a].final

ReplayFinished(o, t) ==
    /\ InHistory(mem[o].thread, t) /\ Terminated(t)
    /\ work' = [work EXCEPT ![o] = recover_turn(authoritative_turns(mem[o].thread), t)]

(* reconcile_active_turns_if_due: the completion event may have been lost;  *)
(* absence from history counts only with live idle evidence.                *)
reconcile_active_turn(o) ==
    LET t == mem[o].active IN
    /\ At(o, "run") /\ t # 0 /\ mem[o].thread \notin gone /\ Fenced(o)
    /\ \/ /\ ReplayFinished(o, t)
          /\ UNCHANGED <<storeVars, mem>>
       \/ /\ ~InHistory(mem[o].thread, t)
          /\ IdleServer(o, mem[o].thread)
          /\ Requeues(t)
          /\ requeue_missing_turn(t)
          /\ mem' = [mem EXCEPT ![o].active = 0]
          /\ UNCHANGED work
    /\ UNCHANGED pc /\ KeepRest

(* dispatch_one selects `a', of a class in `classes', once the cycle has    *)
(* drained what Codex sent.                                                 *)
Select(o, a, classes) ==
    /\ At(o, "run") /\ inq[o] = <<>>
    /\ next_pending(a) /\ Class[a] \in classes

(* After a dispatch the cycle releases pending output. *)
EndDispatch(o) ==
    Goto(o, IF \E r \in relay' : r.status = "pending" THEN "relay" ELSE "run")

DispatchLegacy(o) ==
    \E a \in Attention :
        /\ Select(o, a, {"legacy"}) /\ Fenced(o)
        /\ retire_legacy_context(a)
        /\ EndDispatch(o)
        /\ UNCHANGED <<mem, work>> /\ KeepRest

(* create_thread: thread/start and set_thread. *)
create_thread(o) ==
    \E a \in Attention, th \in Thread :
        /\ Select(o, a, {"task", "direct", "chat"}) /\ Fenced(o)
        /\ mem[o].thread = 0
        /\ th \notin gone /\ \A t \in Turn : codex[t].thread # th
        /\ \A n \in Thread : n < th => \E t \in Turn : codex[t].thread = n
        /\ set_thread(th)
        /\ mem' = [mem EXCEPT ![o].thread = th]
        /\ UNCHANGED <<pc, work>> /\ KeepRest

(* The intent is durable before either RPC. *)
PrepareDispatch(o) ==
    \E a \in Attention :
        /\ Select(o, a, {"task", "direct", "chat"}) /\ Fenced(o)
        /\ mem[o].thread # 0
        /\ prepare_dispatch(a, mem[o].thread)
        /\ mem' = [mem EXCEPT ![o].cur = a]
        /\ Goto(o, "rpc")
        /\ UNCHANGED work /\ KeepRest

UserEntry(a) == [from |-> a, phase |-> "user"]

(* turn/start accepted. *)
StartTurn(o) ==
    /\ At(o, "rpc") /\ mem[o].active = 0
    /\ mem[o].thread \notin gone /\ IdleServer(o, mem[o].thread)
    /\ \E t \in Turn :
          /\ NewTurn(o, t, <<UserEntry(mem[o].cur)>>)
          /\ mem' = [mem EXCEPT ![o].active = t, ![o].acc = t]
    /\ Goto(o, "bind")
    /\ UNCHANGED <<leaseVars, storeVars, work, inq, gone, posted>>

(* The point of a steer RPC: the first attempt, or the one retry after the  *)
(* server named another active turn.                                        *)
AtSteer(o) == (At(o, "rpc") \/ At(o, "retry")) /\ mem[o].active # 0

(* Mutant: what was read before the response waits for the next cycle. *)
SteerUndrained(o) ==
    /\ AtSteer(o) /\ codex[mem[o].active].srv = o
    /\ Len(codex[mem[o].active].hist) < MaxItem
    /\ codex' = [codex EXCEPT ![mem[o].active].hist =
                   Append(@, UserEntry(mem[o].cur))]
    /\ mem' = [mem EXCEPT ![o].acc = mem[o].active]
    /\ Goto(o, "bind")
    /\ UNCHANGED <<leaseVars, storeVars, work, inq, gone, posted>>

(* turn/steer accepted.  Notifications that came before the response are    *)
(* handled before the new attention is bound.                               *)
SteerTurn(o) ==
    LET t == mem[o].active IN
    /\ AtSteer(o)
    /\ codex[t].srv = o /\ codex[t].thread = mem[o].thread
    /\ Len(codex[t].hist) < MaxItem
    /\ codex' = [codex EXCEPT ![t].hist = Append(@, UserEntry(mem[o].cur))]
    /\ mem' = [mem EXCEPT ![o].acc = t]
    /\ work' = [work EXCEPT ![o] = inq[o]]
    /\ inq' = [inq EXCEPT ![o] = <<>>]
    /\ Goto(o, "bind")
    /\ UNCHANGED <<leaseVars, storeVars, gone, posted>>

(* turn/steer rejected because another turn is active: only the pointer is  *)
(* corrected, and the steer repeated once.                                  *)
SteerMismatch(o) ==
    /\ At(o, "rpc") /\ mem[o].active # 0
    /\ \E t \in Turn \ {mem[o].active} :
          /\ codex[t].srv = o /\ codex[t].thread = mem[o].thread
          /\ mem' = [mem EXCEPT ![o].active = t]
    /\ Goto(o, "retry")
    /\ UNCHANGED <<storeVars, work>> /\ KeepRest

BindDispatch(o) ==
    /\ At(o, "bind") /\ Fenced(o)
    /\ finalize_dispatch(mem[o].cur, mem[o].thread, mem[o].acc, epochOf[o],
                         "accepted")
    /\ mem' = [mem EXCEPT ![o].cur = 0, ![o].acc = 0]
    /\ EndDispatch(o)
    /\ UNCHANGED work /\ KeepRest

(* No turn can serve the RPC at o's server. *)
Unserved(o) ==
    \/ mem[o].thread \in gone
    \/ mem[o].active = 0 /\ (\/ ~IdleServer(o, mem[o].thread)
                             \/ \A t \in Turn : codex[t].thread # 0)
    \/ mem[o].active # 0 /\ Len(codex[mem[o].active].hist) = MaxItem

(* turn/start or turn/steer rejected, other than for an inactive turn. *)
RpcRejected(o) ==
    /\ At(o, "rpc") \/ At(o, "retry")
    /\ \/ CanReject \/ Unserved(o)
       \/ pc[o] = "retry" /\ codex[mem[o].active].srv # o
    /\ mem' = [mem EXCEPT ![o].now = FALSE]
    /\ Goto(o, "rejected")
    /\ UNCHANGED <<storeVars, work>> /\ KeepRest

(* turn/steer rejected because no turn is active: reconcile_active_turn     *)
(* with force_orphan, then an immediate retry if that recovered the turn.   *)
SteerInactive(o) ==
    LET t == mem[o].active IN
    /\ AtSteer(o) /\ mem[o].thread \notin gone
    /\ IdleServer(o, mem[o].thread) /\ Fenced(o)
    /\ \/ /\ ReplayFinished(o, t)
          /\ mem' = [mem EXCEPT ![o].now = TRUE]
          /\ UNCHANGED storeVars
       \/ /\ ~(InHistory(mem[o].thread, t) /\ Terminated(t))
          /\ requeue_missing_turn(t)
          /\ mem' = [mem EXCEPT ![o].now = Requeues(t),
                                ![o].active = IF Requeues(t) THEN 0 ELSE @]
          /\ UNCHANGED work
    /\ Goto(o, "rejected")
    /\ KeepRest

(* The rejected attention stays pending: retry_unobserved_dispatch and then *)
(* defer_attention, at once when the turn was recovered.                    *)
DeferRejected(o) ==
    /\ At(o, "rejected") /\ Fenced(o)
    /\ retry_and_defer(mem[o].cur, mem[o].now)
    /\ mem' = [mem EXCEPT ![o].cur = 0, ![o].now = FALSE]
    /\ EndDispatch(o)
    /\ UNCHANGED work /\ KeepRest

-----------------------------------------------------------------------------
(* Controls. *)

(* handle_stop_control: turn/interrupt is accepted, or rejected and the     *)
(* control retried.                                                         *)
StopInterrupt(o) ==
    \E c \in Attention :
        /\ Select(o, c, {"stop"}) /\ mem[o].active # 0
        /\ \/ /\ mem' = [mem EXCEPT ![o].cur = c]
              /\ codex' = [codex EXCEPT ![mem[o].active].stop = TRUE]
              /\ Goto(o, "stopTurn")
              /\ UNCHANGED storeVars
           \/ /\ CanReject \/ ~Live(mem[o].active)
              /\ Fenced(o)
              /\ defer_attention(c)
              /\ EndDispatch(o)
              /\ UNCHANGED <<mem, codex>>
        /\ UNCHANGED <<leaseVars, work, inq, gone, posted>>

StopTurn(o) ==
    /\ At(o, "stopTurn") /\ Fenced(o)
    /\ interrupt_turn_for_control(mem[o].active)
    /\ mem' = [mem EXCEPT ![o].active = 0]
    /\ Goto(o, "stopPending")
    /\ UNCHANGED work /\ KeepRest

StopPending(o) ==
    \E c \in Attention :
        /\ \/ At(o, "stopPending") /\ c = mem[o].cur
           \/ Select(o, c, {"stop"}) /\ mem[o].active = 0
        /\ Fenced(o)
        /\ cancel_pending_before_control(c)
        /\ mem' = [mem EXCEPT ![o].cur = 0]
        /\ EndDispatch(o)
        /\ UNCHANGED work /\ KeepRest

(* handle_room_closed_control: turn/interrupt may be accepted or not; the   *)
(* thread is forgotten in memory and in the ledger all the same.            *)
CloseRoom(o) ==
    \E c \in Attention :
        /\ Select(o, c, {"closed"}) /\ Fenced(o)
        /\ close_room_for_control(c)
        /\ mem' = [mem EXCEPT ![o].active = 0, ![o].thread = 0]
        /\ codex' = [t \in Turn |-> IF t = mem[o].active
                       THEN [codex[t] EXCEPT !.stop = TRUE] ELSE codex[t]]
        /\ EndDispatch(o)
        /\ UNCHANGED <<leaseVars, work, inq, gone, posted>>

-----------------------------------------------------------------------------
(* process_relays. *)

(* Of each row in turn the lease is asserted, then the post is made: two    *)
(* separate steps.                                                          *)
TakeRow(o, rows) ==
    /\ Fenced(o)
    /\ \E r \in rows :
          mem' = [mem EXCEPT ![o].sending = r, ![o].batch = rows \ {r}]
    /\ Goto(o, "post")
    /\ UNCHANGED <<storeVars, work>> /\ KeepRest

pending_relays == {r \in relay : r.status = "pending"}

(* Mutant: a cycle without a dispatch releases nothing. *)
ReleaseAfterDispatch(o) ==
    \/ At(o, "relay") /\ TakeRow(o, pending_relays)
    \/ At(o, "batch") /\ TakeRow(o, mem[o].batch)

(* Output is released after a dispatch, or when nothing can be dispatched.  *)
AssertLease(o) ==
    \/ At(o, "relay") /\ TakeRow(o, pending_relays)
    \/ At(o, "batch") /\ TakeRow(o, mem[o].batch)
    \/ /\ At(o, "run") /\ inq[o] = <<>> /\ NothingPending
       /\ TakeRow(o, pending_relays)

NextRow(o) ==
    /\ mem' = [mem EXCEPT ![o].sending = NoRelay]
    /\ Goto(o, IF mem[o].batch = {} THEN "run" ELSE "batch")

(* The server keeps one message per op_id, so a repeated post is absorbed.  *)
PostAccepted(o) ==
    /\ At(o, "post")
    /\ posted' = posted \cup {mem[o].sending.op}
    /\ Goto(o, "mark")
    /\ UNCHANGED <<leaseVars, storeVars, mem, work, inq, codexVars>>

(* The post fails, or its answer is lost; mark_relay_failed moves only the  *)
(* retry time of the row, which stays pending for a later cycle.            *)
PostFailed(o) ==
    /\ At(o, "post")
    /\ \/ posted' = posted \cup {mem[o].sending.op}
       \/ UNCHANGED posted
    /\ NextRow(o)
    /\ UNCHANGED <<leaseVars, storeVars, work, inq, codexVars>>

RecordSent(o) ==
    /\ At(o, "mark")
    /\ mark_relay_accepted(mem[o].sending)
    /\ NextRow(o)
    /\ UNCHANGED work /\ KeepRest

(* Mutant: a superseded process may still record what it sent. *)
MarkUnfenced(o) == RecordSent(o)

MarkRelay(o) == Fenced(o) /\ RecordSent(o)

-----------------------------------------------------------------------------
(* Codex, as the adapter uses it (external). *)

Notify(o, m) == inq' = [inq EXCEPT ![o] = Append(@, m)]

KeepAdapter == UNCHANGED <<leaseVars, storeVars, pc, mem, work, posted>>

(* The model completes an agent message. *)
CodexItem(t, phase) ==
    /\ Live(t) /\ Len(codex[t].hist) < MaxItem
    /\ codex' = [codex EXCEPT ![t].hist = Append(@, [from |-> 0, phase |-> phase])]
    /\ Notify(codex[t].srv, ItemMessage(t, Len(codex[t].hist) + 1))
    /\ UNCHANGED gone /\ KeepAdapter

(* The turn reaches the durable rollout. *)
CodexPersist(t) ==
    /\ Live(t) /\ ~codex[t].durable
    /\ codex' = [codex EXCEPT ![t].durable = TRUE]
    /\ UNCHANGED <<gone, inq>> /\ KeepAdapter

CodexFinish(t, status) ==
    /\ Live(t)
    /\ status \in FinishStatus \/ (status = "interrupted" /\ codex[t].stop)
    /\ codex' = [codex EXCEPT ![t].status = status, ![t].srv = NoOwner,
                              ![t].durable = TRUE]
    /\ Notify(codex[t].srv, DoneMessage(t, status))
    /\ UNCHANGED gone /\ KeepAdapter

(* An accepted turn disappears before it reaches the rollout; nobody is     *)
(* told.                                                                    *)
CodexDrop(t) ==
    /\ Live(t) /\ ~codex[t].durable
    /\ codex' = [codex EXCEPT ![t].status = "lost", ![t].srv = NoOwner]
    /\ UNCHANGED <<gone, inq>> /\ KeepAdapter

(* Codex continues a thread in a turn the adapter did not start. *)
CodexRollOver(o) ==
    /\ CanRollOver
    /\ mem[o].active # 0 /\ mem[o].thread \notin gone
    /\ codex[mem[o].active].status = "completed"
    /\ IdleServer(o, mem[o].thread)
    /\ \E t \in Turn : NewTurn(o, t, <<>>)
    /\ UNCHANGED <<gone, inq>> /\ KeepAdapter

LoseThread(th) ==
    /\ CanLoseThread /\ th \notin gone
    /\ \E t \in Turn : codex[t].thread = th
    /\ \A t \in Turn : codex[t].thread = th => ~Live(t)
    /\ gone' = gone \cup {th}
    /\ UNCHANGED <<codex, inq>> /\ KeepAdapter

-----------------------------------------------------------------------------
Recovery(o) ==
    \/ Start(o) \/ ResumeMissing(o) \/ ResumeThread(o)
    \/ reconcile_dispatches(o) \/ reconcile_accepted_turns(o)
    \/ ReplayHistory(o) \/ Reap(o)

Messages(o) ==
    \/ handle_agent_item(o) \/ HandleNoReply(o) \/ PromoteCandidate(o)
    \/ handle_turn_completed(o) \/ drain_messages(o)

Dispatch(o) ==
    \/ DispatchLegacy(o) \/ create_thread(o) \/ PrepareDispatch(o)
    \/ StartTurn(o) \/ SteerTurn(o) \/ SteerMismatch(o)
    \/ BindDispatch(o)
    \/ RpcRejected(o) \/ SteerInactive(o) \/ DeferRejected(o)
    \/ StopInterrupt(o) \/ StopTurn(o) \/ StopPending(o) \/ CloseRoom(o)

Relays(o) == AssertLease(o) \/ PostAccepted(o) \/ PostFailed(o) \/ MarkRelay(o)

(* What a running adapter does by itself. *)
AdapterStep(o) == Recovery(o) \/ Messages(o) \/ Dispatch(o) \/ Relays(o) \/ Stale(o)

CodexStep ==
    \/ \E t \in Turn :
          \/ \E phase \in Phases : CodexItem(t, phase)
          \/ CodexPersist(t)
          \/ \E status \in {"completed", "failed", "interrupted"} :
                CodexFinish(t, status)
          \/ CodexDrop(t)
    \/ \E o \in Owner : CodexRollOver(o)
    \/ \E th \in Thread : LoseThread(th)

Elapsed(a) ==
    /\ BackoffElapsed(a)
    /\ UNCHANGED <<leaseVars, adapterVars, codexVars, posted>>

Next ==
    \/ \E o \in Owner : \/ AdapterStep(o)
                        \/ Ingest(o) \/ reconcile_active_turn(o)
                        \/ Crash(o)
    \/ Stall
    \/ CodexStep
    \/ \E a \in Attention : Elapsed(a)

Spec == Init /\ [][Next]_vars

(* A scheduled process keeps running its loop, time passes, and the room    *)
(* server does not refuse every retry of a post for ever.                   *)
Fairness ==
    /\ \A o \in Owner : WF_vars(AdapterStep(o)) /\ SF_vars(PostAccepted(o))
    /\ \A a \in Attention : WF_vars(Elapsed(a))

FairSpec == Spec /\ Fairness

-----------------------------------------------------------------------------
(* Safety. *)

(* The output budget of a turn: every relayed update and every final answer *)
(* was created while some accepted attention had none of that kind, so a    *)
(* turn never has more of a kind than attentions that kind covers, however  *)
(* often its items are replayed (turn_allows_commentary,                    *)
(* uncovered_final_attention_ids, turn_has_relay_item).                     *)
OutputEarned ==
    \A t \in Turn, kind \in {"commentary", "final"} :
        Cardinality({r \in RelaysOf(t) : r.op.kind = kind})
            <= Cardinality(Covered(t, kind))

(* Across crashes, takeovers and requeues a call is answered by one turn:   *)
(* two final answers the room accepted for the same call come from the same *)
(* Codex turn (only output-free turns are replayed).  Protected work is     *)
(* left out: /stop detaches a task whose answer the ledger does not know to *)
(* be sent, and a second turn answers it again.                             *)
AnsweredByOneTurn ==
    \A p, q \in posted :
        /\ p.kind = "final" /\ q.kind = "final"
        /\ (p.cov \cap q.cov) \ Protected # {}
        => p.turn = q.turn

(* A turn that ended badly, was stopped, reaped or closed has no output     *)
(* left to send: every transaction that sets terminal_status of a turn      *)
(* suppresses its pending and held relays, and nothing creates more.  Two   *)
(* exceptions: an attention that recovery has bound to the turn again       *)
(* (finalize_dispatch with reconciled), and a call the reaper left open     *)
(* ("Reply-required attentions remain durable pending obligations"), which  *)
(* a later recovery answers when the turn shows up in history after all.    *)
TerminatedTurnIsSilent ==
    \A t \in Turn : turn[t].term # Open =>
        \A r \in RelaysOf(t) : r.status \in {"pending", "held"} =>
            \A a \in r.op.cov :
                \/ intent[a].status = "reconciled"
                \/ turn[t].term = "interrupted" /\ a \in ReplyRequired

(* Output answers only what its turn had been given when the item was       *)
(* produced: the covered attention's message precedes the item in the       *)
(* turn's history, for steered calls and for promoted items alike.  It      *)
(* holds while one process runs; recovery breaks it, because                *)
(* reconcile_dispatches binds a steer that a dead process left unrecorded   *)
(* before the turn's items are replayed.                                    *)
CoverageFollowsInput ==
    \A r \in relay : \A a \in r.op.cov :
        \E i \in 1..(r.op.item - 1) : codex[r.op.turn].hist[i].from = a

(* /stop never ends unanswered protected work: a task of a turn whose       *)
(* interruption Codex accepted is not terminal with that turn, and one that *)
(* waits is not cancelled.                                                  *)
TasksSurviveStop ==
    \A a \in Attention : Class[a] = "task" /\ ~att[a].final =>
        /\ att[a].turn = 0 => att[a].term # "cancelled"
        /\ att[a].turn # 0 /\ codex[att[a].turn].stop =>
              att[a].term \notin {"interrupted", "cancelled"}

(* Older chat that /stop disposed of never comes back to the pending lane.  *)
StoppedChatStaysStopped ==
    \A c, a \in Attention :
        /\ Class[c] = "stop" /\ att[c].accepted
        /\ Class[a] = "chat" /\ a < c
        => ~Pending(a)

(* The output of a turn that /stop interrupted is fenced for good.          *)
StoppedTurnStaysSilent ==
    \A t \in Turn : turn[t].term = "interrupted" =>
        \A r \in RelaysOf(t) : r.status \notin {"pending", "held"}

(* What /stop promises, kept together whatever Codex rejects, loses or      *)
(* starts by itself (interrupt_turn_for_control,                            *)
(* cancel_pending_before_control).                                          *)
StopIsHonoured == TasksSurviveStop /\ StoppedChatStaysStopped /\ StoppedTurnStaysSilent

(* Accepted work is offered to Codex again only when the owner's server no  *)
(* longer runs its turn, or /stop has interrupted it: history that lags and *)
(* a corrected turn pointer are no evidence (requeue_missing_turn).         *)
RunningWorkIsNotRequeued ==
    [][\A a \in Attention : att[a].accepted /\ ~att'[a].accepted =>
          LET t == codex[att[a].turn] IN
          t.stop \/ \A o \in Owner : Fenced(o) => t.srv # o]_vars

(* After a room-closed control nothing of the room that was recorded before *)
(* it is pending, running or waiting to be sent, whatever crashed, was      *)
(* recovered or arrives late from Codex.                                    *)
ClosedRoomIsQuiet ==
    \A c \in Attention : Class[c] = "closed" /\ att[c].accepted =>
        /\ \A a \in Attention : a < c => ~Pending(a)
        /\ \A t \in Turn : turn[t].row /\ ~turn[t].done =>
              \E a \in Attached(t) : a > c
        /\ \A r \in relay : r.status \in {"pending", "held"} =>
              \E a \in r.op.cov : a > c

(* Suppressed output is never sent later, and sent output keeps its record: *)
(* a process that lost its lease between the post and the bookkeeping       *)
(* cannot overrule what its successor decided.                              *)
RelayOutcomeIsFinal ==
    [][\A r \in relay : r.status \in {"suppressed", "accepted"} => r \in relay']_vars

-----------------------------------------------------------------------------
(* Liveness. *)

(* Every recorded attention leaves the pending lane: it is accepted by a    *)
(* turn, cancelled, or given up at the retry ceiling.                       *)
PendingResolves == \A a \in Attention : Pending(a) ~> ~Pending(a)

(* Every output waiting to be sent is sent or suppressed. *)
OutputResolves ==
    (\E r \in relay : r.status = "pending")
        ~> (\A r \in relay : r.status # "pending")
=============================================================================
