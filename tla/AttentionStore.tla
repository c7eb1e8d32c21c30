--------------------------- MODULE AttentionStore ---------------------------
(***************************************************************************)
(* The durable attention ledger of one agent identity                      *)
(* (skill/agent-room/attention_store.py), for one (server, room) scope.    *)
(*                                                                         *)
(* One definition per ledger transaction.  Each is the body of one         *)
(* BEGIN IMMEDIATE transaction: it either commits whole or, when the       *)
(* caller `o' fails the fence, does not happen at all.  Millisecond        *)
(* columns are kept as "has happened" Booleans; the columns nothing reads  *)
(* (reasons, attempt times of relays, lease_epoch of an attention) are     *)
(* left out.                                                               *)
(***************************************************************************)
EXTENDS Lease, FiniteSets

CONSTANTS
    Attention,    \* inbox records 1..N; the number is the source_offset
    Class,        \* what each record is (see Classes)
    MaxTurn,      \* bound: Codex turns
    MaxItem,      \* bound: entries of one turn's history
    MaxThread,    \* bound: Codex threads
    DeferMax      \* DEFER_MAX_ATTEMPTS

(* Delivery classes, by what the ledger does with them: the controls        *)
(* "stop" and "closed" (security_control), a protected "task" (explicit     *)
(* task or care signal), a "direct" human call that requires a reply,       *)
(* disposable "chat" (an addressed agent message), and "legacy" metadata    *)
(* that older listeners queued and no agent should work on.                 *)
Classes == {"stop", "closed", "task", "direct", "chat", "legacy"}

ASSUME AttentionAssumption == Attention \subseteq Nat \ {0}
ASSUME ClassAssumption == Class \in [Attention -> Classes]
ASSUME BoundAssumption ==
    /\ MaxTurn \in Nat \ {0}
    /\ MaxItem \in Nat \ {0}
    /\ MaxThread \in Nat \ {0}
    /\ DeferMax \in Nat \ {0}

VARIABLES
    att,          \* attentions
    turn,         \* turns
    turnAtt,      \* turn_attentions: per turn, pairs <<attention, position>>
    intent,       \* dispatch_intents
    thread,       \* the scope's row of threads; 0 when there is none
    relay         \* relay_items

storeVars == <<att, turn, turnAtt, intent, thread, relay>>

Turn == 1..MaxTurn
Item == 1..MaxItem
Thread == 1..MaxThread

Open == "open"    \* terminal_status IS NULL
Terminal == {"failed", "interrupted", "cancelled"}
RelayKind == {"commentary", "commentary_suppressed", "final",
              "final_suppressed", "candidate", "no_reply"}

(* A relay's op_id is a hash of its coverage, turn, item and kind; an item  *)
(* promoted at turn completion has the id "<item>:fallback".                *)
RelayOp == [turn: Turn, item: Item, fallback: BOOLEAN, kind: RelayKind,
            cov: SUBSET Attention]
Relay == [op: RelayOp, status: {"pending", "held", "suppressed", "accepted"}]

AttentionRow ==
    [stored: BOOLEAN, accepted: BOOLEAN, first: BOOLEAN, final: BOOLEAN,
     done: BOOLEAN, term: Terminal \cup {Open}, turn: Turn \cup {0},
     attempts: 0..DeferMax, due: BOOLEAN]
TurnRow == [row: BOOLEAN, thread: Thread \cup {0}, epoch: Nat,
            done: BOOLEAN, term: Terminal \cup {Open}]
IntentRow == [status: {"none", "prepared", "accepted", "reconciled", "failed"},
              thread: Thread \cup {0}]

StoreTypeOK ==
    /\ att \in [Attention -> AttentionRow]
    /\ turn \in [Turn -> TurnRow]
    /\ turnAtt \in [Turn -> SUBSET (Attention \X Nat)]
    /\ intent \in [Attention -> IntentRow]
    /\ thread \in Thread \cup {0}
    /\ relay \subseteq Relay

StoreInit ==
    /\ att = [a \in Attention |->
          [stored |-> FALSE, accepted |-> FALSE, first |-> FALSE,
           final |-> FALSE, done |-> FALSE, term |-> Open, turn |-> 0,
           attempts |-> 0, due |-> TRUE]]
    /\ turn = [t \in Turn |-> [row |-> FALSE, thread |-> 0, epoch |-> 0,
                               done |-> FALSE, term |-> Open]]
    /\ turnAtt = [t \in Turn |-> {}]
    /\ intent = [a \in Attention |-> [status |-> "none", thread |-> 0]]
    /\ thread = 0
    /\ relay = {}

-----------------------------------------------------------------------------
(* Reads. *)

Protected == {a \in Attention : Class[a] \in {"stop", "closed", "task"}}
ReplyRequired == {a \in Attention : Class[a] = "direct"}

(* PRIORITY_RANKS of the classes. *)
Rank(a) == CASE Class[a] \in {"stop", "closed"} -> 0
             [] Class[a] = "direct" -> 1
             [] Class[a] = "task" -> 3
             [] Class[a] \in {"chat", "legacy"} -> 6

Pending(a) == att[a].stored /\ ~att[a].accepted /\ att[a].term = Open

Before(a, b) == Rank(a) < Rank(b) \/ (Rank(a) = Rank(b) /\ a < b)

(* next_pending returns `a'. *)
next_pending(a) ==
    /\ Pending(a) /\ att[a].due
    /\ \A b \in Attention \ {a} : Pending(b) /\ att[b].due => Before(a, b)

NothingPending == \A a \in Attention : ~(Pending(a) /\ att[a].due)

(* The attentions joined to a turn by turn_attentions. *)
Attached(t) == {pair[1] : pair \in turnAtt[t]}

accepted_for_turn(t) == {a \in Attached(t) : att[a].term = Open}

(* The nonterminal attentions whose turn_id column names the turn. *)
Bound(t) == {a \in Attention :
               att[a].turn = t /\ att[a].accepted /\ att[a].term = Open}

RelaysOf(t) == {r \in relay : r.op.turn = t}

Covered(t, kind) == UNION {r.op.cov : r \in {q \in RelaysOf(t) : q.op.kind = kind}}

uncovered_final_attention_ids(t) == Bound(t) \ Covered(t, "final")

turn_has_relay_item(t, i) ==
    \E r \in RelaysOf(t) : r.op.item = i /\ ~r.op.fallback

(* Mutant: no commentary budget. *)
CommentaryUnbounded(t) == TRUE

turn_allows_commentary(t) ==
    \/ \A r \in RelaysOf(t) : r.op.kind # "commentary"
    \/ \E a \in Bound(t) : /\ Class[a] \in {"direct", "chat"}
                           /\ a \notin Covered(t, "commentary")

incomplete_turn_ids(th) ==
    {t \in Turn : turn[t].row /\ turn[t].thread = th /\ ~turn[t].done}

unresolved_dispatches(th) ==
    {a \in Attention : intent[a].status = "prepared" /\ intent[a].thread = th}

latest_unknown_item(t) ==
    LET held == {r \in RelaysOf(t) : r.op.kind = "candidate"}
    IN  {r \in held : \A q \in held : q.op.item <= r.op.item}

-----------------------------------------------------------------------------
(* Row updates shared by several transactions. *)

Cap(n) == IF n > DeferMax THEN DeferMax ELSE n

(* An accepted attention goes back to the pending lane. *)
Requeued(r) == [r EXCEPT !.accepted = FALSE, !.turn = 0, !.done = FALSE,
                         !.term = Open, !.due = TRUE]

(* Unsent output of the turns `S' is suppressed. *)
SuppressRelays(S) ==
    relay' = {IF r.op.turn \in S /\ r.status \in {"pending", "held"}
              THEN [r EXCEPT !.status = "suppressed"] ELSE r : r \in relay}

(* Output-free incomplete turns `S' fail and their unanswered attentions    *)
(* go back to the pending lane; `forget' clears first_response_at_ms too.   *)
RequeueTurns(S, forget) ==
    LET back == {a \in UNION {Attached(t) : t \in S} : ~att[a].final} IN
    /\ turn' = [t \in Turn |-> IF t \in S
                  THEN [turn[t] EXCEPT !.done = TRUE, !.term = "failed"]
                  ELSE turn[t]]
    /\ turnAtt' = [t \in Turn |-> IF t \in S THEN {} ELSE turnAtt[t]]
    /\ att' = [a \in Attention |-> IF a \in back
                 THEN [Requeued(att[a]) EXCEPT !.first = @ /\ ~forget]
                 ELSE att[a]]

-----------------------------------------------------------------------------
(* Transactions. *)

(* ingest_inbox: the next complete inbox record becomes an attention.  It   *)
(* is the one transaction without a fence.                                  *)
ingest_inbox ==
    /\ \E a \in Attention :
          /\ ~att[a].stored
          /\ \A b \in Attention : b < a => att[b].stored
          /\ att' = [att EXCEPT ![a].stored = TRUE]
    /\ UNCHANGED <<turn, turnAtt, intent, thread, relay>>

set_thread(th) ==
    /\ thread' = th
    /\ UNCHANGED <<att, turn, turnAtt, intent, relay>>

(* _mark_accepted_in_transaction: INSERT OR IGNORE keeps an existing turn   *)
(* row, and drops the join row when its position is already taken.          *)
MarkAccepted(a, th, t, epoch) ==
    LET position == Cardinality(turnAtt[t])
        ignored == \E pair \in turnAtt[t] : pair[1] = a \/ pair[2] = position
    IN
    /\ turn' = IF turn[t].row THEN turn
               ELSE [turn EXCEPT ![t] = [row |-> TRUE, thread |-> th,
                                         epoch |-> epoch, done |-> FALSE,
                                         term |-> Open]]
    /\ turnAtt' = IF ignored THEN turnAtt
                  ELSE [turnAtt EXCEPT ![t] = @ \cup {<<a, position>>}]
    /\ att' = [att EXCEPT ![a].accepted = TRUE, ![a].turn = t,
                          ![a].attempts = Cap(@ + 1)]

(* retire_legacy_context: undispatched old metadata is archived. *)
retire_legacy_context(a) ==
    /\ att' = [att EXCEPT ![a].term = "cancelled"]
    /\ UNCHANGED <<turn, turnAtt, intent, thread, relay>>

prepare_dispatch(a, th) ==
    /\ intent' = [intent EXCEPT ![a] = [status |-> "prepared", thread |-> th]]
    /\ UNCHANGED <<att, turn, turnAtt, thread, relay>>

finalize_dispatch(a, th, t, epoch, status) ==
    /\ MarkAccepted(a, th, t, epoch)
    /\ intent' = [intent EXCEPT ![a].status = status]
    /\ UNCHANGED <<thread, relay>>

retry_unobserved_dispatch(a) ==
    /\ intent' = [intent EXCEPT ![a].status = "failed"]
    /\ att' = IF Pending(a) THEN [att EXCEPT ![a].due = TRUE] ELSE att
    /\ UNCHANGED <<turn, turnAtt, thread, relay>>

(* Mutant: back off for ever. *)
DeferredForEver(r) == [r EXCEPT !.attempts = Cap(@ + 1), !.due = FALSE]

(* defer_attention with a delay: back off, and give up at the ceiling. *)
Deferred(r) ==
    IF r.attempts + 1 >= DeferMax
    THEN [r EXCEPT !.attempts = Cap(@ + 1), !.term = "failed"]
    ELSE [r EXCEPT !.attempts = @ + 1, !.due = FALSE]

defer_attention(a) ==
    /\ att' = [att EXCEPT ![a] = Deferred(@)]
    /\ UNCHANGED <<turn, turnAtt, intent, thread, relay>>

(* retry_unobserved_dispatch followed by defer_attention, whose zero delay  *)
(* means: retry at once, without consuming the budget.                      *)
retry_and_defer(a, now) ==
    /\ intent' = [intent EXCEPT ![a].status = "failed"]
    /\ att' = [att EXCEPT ![a] = IF now THEN [@ EXCEPT !.due = TRUE]
                                 ELSE Deferred(@)]
    /\ UNCHANGED <<turn, turnAtt, thread, relay>>

adopt_recovered_turn(t, epoch) ==
    /\ turn' = IF turn[t].row /\ ~turn[t].done
               THEN [turn EXCEPT ![t].epoch = epoch] ELSE turn
    /\ UNCHANGED <<att, turnAtt, intent, thread, relay>>

(* requeue_missing_thread: only output-free turns are replayed. *)
requeue_missing_thread(th) ==
    /\ RequeueTurns({t \in incomplete_turn_ids(th) : RelaysOf(t) = {}}, FALSE)
    /\ thread' = IF thread = th THEN 0 ELSE thread
    /\ UNCHANGED <<intent, relay>>

(* Mutant: a turn is replayed although it produced output. *)
ReplayableDespiteOutput(t) == turn[t].row /\ ~turn[t].done

(* requeue_missing_turn has an effect. *)
Replayable(t) == turn[t].row /\ ~turn[t].done /\ RelaysOf(t) = {}

requeue_missing_turn(t) ==
    /\ IF Replayable(t)
       THEN RequeueTurns({t}, TRUE)
       ELSE UNCHANGED <<turn, turnAtt, att>>
    /\ UNCHANGED <<intent, thread, relay>>

(* reap_stale_turns_after_recovery: what recovery did not adopt is over;    *)
(* a reply-required attention is left as an open obligation.                *)
reap_stale_turns_after_recovery(epoch) ==
    LET stale == {t \in Turn : /\ turn[t].row /\ ~turn[t].done
                               /\ turn[t].term = Open /\ turn[t].epoch < epoch}
    IN
    /\ turn' = [t \in Turn |-> IF t \in stale
                  THEN [turn[t] EXCEPT !.done = TRUE, !.term = "interrupted"]
                  ELSE turn[t]]
    /\ att' = [a \in Attention |->
                 IF att[a].turn \in stale /\ att[a].term = Open
                    /\ a \notin ReplyRequired
                 THEN [att[a] EXCEPT !.done = TRUE, !.term = "interrupted"]
                 ELSE att[a]]
    /\ SuppressRelays(stale)
    /\ UNCHANGED <<turnAtt, intent, thread>>

(* cancel_pending_before_control: older disposable chat is cancelled and    *)
(* the control itself is recorded.                                          *)
cancel_pending_before_control(c) ==
    /\ att' = [a \in Attention |->
          IF a = c
          THEN [att[a] EXCEPT !.accepted = TRUE, !.done = TRUE,
                              !.term = "cancelled", !.attempts = Cap(@ + 1)]
          ELSE IF Pending(a) /\ a < c /\ a \notin Protected
          THEN [att[a] EXCEPT !.term = "cancelled"]
          ELSE att[a]]
    /\ UNCHANGED <<turn, turnAtt, intent, thread, relay>>

(* The attentions `detached' are requeued; the rest of the turn is over.    *)
InterruptTurn(t, detached) ==
    /\ turn' = [turn EXCEPT ![t].done = TRUE, ![t].term = "interrupted"]
    /\ turnAtt' = [turnAtt EXCEPT ![t] = {p \in @ : p[1] \notin detached}]
    /\ att' = [a \in Attention |->
          IF a \in detached THEN Requeued(att[a])
          ELSE IF a \in Attached(t)
          THEN [att[a] EXCEPT !.done = TRUE, !.term = "interrupted"]
          ELSE att[a]]
    /\ UNCHANGED <<intent, thread>>

Unanswered(t) == {a \in Attached(t) : a \in Protected /\ ~att[a].final}

(* Mutant: nothing is protected. *)
InterruptAll(t) == InterruptTurn(t, {}) /\ SuppressRelays({t})

(* interrupt_turn_for_control: protected unanswered work is detached and    *)
(* requeued.                                                                *)
interrupt_turn_for_control(t) ==
    IF ~turn[t].row THEN UNCHANGED storeVars
    ELSE InterruptTurn(t, Unanswered(t)) /\ SuppressRelays({t})

(* Mutant: only work that no turn has accepted is cancelled. *)
ClosePendingOnly(c) ==
    /\ att' = [a \in Attention |->
          IF Pending(a)
          THEN [att[a] EXCEPT !.done = TRUE, !.term = "cancelled",
                              !.accepted = @ \/ a = c]
          ELSE att[a]]
    /\ SuppressRelays({t \in Turn : turn[t].row})
    /\ thread' = 0
    /\ UNCHANGED <<turn, turnAtt, intent>>

(* close_room_for_control: every unfinished record of the room is over.     *)
close_room_for_control(c) ==
    LET unfinished == {a \in Attention :
          /\ att[a].stored /\ att[a].term = Open
          /\ \/ ~att[a].accepted \/ ~att[a].done
             \/ a \in ReplyRequired /\ ~att[a].final}
        cancelled == [a \in Attention |->
          IF a \in unfinished
          THEN [att[a] EXCEPT !.done = TRUE, !.term = "cancelled"] ELSE att[a]]
    IN
    /\ turn' = [t \in Turn |-> IF turn[t].row /\ ~turn[t].done
                  THEN [turn[t] EXCEPT !.done = TRUE, !.term = "cancelled"]
                  ELSE turn[t]]
    /\ att' = [cancelled EXCEPT ![c].accepted = TRUE, ![c].attempts = Cap(@ + 1)]
    /\ SuppressRelays({t \in Turn : turn[t].row})
    /\ thread' = 0
    /\ UNCHANGED <<turnAtt, intent>>

(* create_relay_item: INSERT OR IGNORE on (turn, item, kind). *)
create_relay_item(op, status) ==
    /\ relay' = IF \E r \in relay : /\ r.op.turn = op.turn /\ r.op.item = op.item
                                    /\ r.op.fallback = op.fallback
                                    /\ r.op.kind = op.kind
                THEN relay
                ELSE relay \cup {[op |-> op, status |-> status]}
    /\ UNCHANGED <<att, turn, turnAtt, intent, thread>>

(* mark_relay_accepted: the covered attentions reach their milestones. *)
mark_relay_accepted(r) ==
    /\ relay' = {IF q.op = r.op THEN [q EXCEPT !.status = "accepted"] ELSE q :
                   q \in relay}
    /\ att' = [a \in Attention |-> IF a \in r.op.cov
                 THEN [att[a] EXCEPT !.first = TRUE,
                                     !.final = @ \/ r.op.kind = "final"]
                 ELSE att[a]]
    /\ UNCHANGED <<turn, turnAtt, intent, thread>>

(* mark_turn_no_reply: the model may waive optional attentions only. *)
mark_turn_no_reply(t) ==
    /\ att' = [a \in Attention |->
          IF /\ turn[t].row /\ att[a].turn = t /\ ~att[a].final
             /\ att[a].term = Open /\ a \notin ReplyRequired
          THEN [att[a] EXCEPT !.term = "cancelled"] ELSE att[a]]
    /\ UNCHANGED <<turn, turnAtt, intent, thread, relay>>

(* Turn t ends with a terminal_status, or with none. *)
CompleteTurn(t, terminal) ==
    /\ turn' = [turn EXCEPT ![t].done = TRUE, ![t].term = terminal]
    /\ att' = [a \in Attention |-> IF att[a].turn = t
                 THEN [att[a] EXCEPT !.done = TRUE,
                                     !.term = IF @ = Open THEN terminal ELSE @]
                 ELSE att[a]]
    /\ UNCHANGED <<turnAtt, intent, thread>>

(* Mutants: the Codex status is stored as it comes; output of a turn that   *)
(* ended badly stays pending.                                               *)
CompletedIsTerminal(t, status) ==
    IF ~turn[t].row THEN UNCHANGED storeVars
    ELSE CompleteTurn(t, status) /\ UNCHANGED relay
CompletedKeepsOutput(t, status) ==
    IF ~turn[t].row THEN UNCHANGED storeVars
    ELSE /\ CompleteTurn(t, IF status \in Terminal THEN status ELSE Open)
         /\ UNCHANGED relay

(* mark_turn_completed with a Codex status. *)
mark_turn_completed(t, status) ==
    IF ~turn[t].row THEN UNCHANGED storeVars
    ELSE IF status \in Terminal
    THEN CompleteTurn(t, status) /\ SuppressRelays({t})
    ELSE CompleteTurn(t, Open) /\ UNCHANGED relay

(* A deferred attention's next_attempt_at_ms passes. *)
BackoffElapsed(a) ==
    /\ ~att[a].due
    /\ att' = [att EXCEPT ![a].due = TRUE]
    /\ UNCHANGED <<turn, turnAtt, intent, thread, relay>>
=============================================================================
