---------------------------- MODULE LedgerProofs ----------------------------
(***************************************************************************)
(* What the attention ledger promises through crashes, takeovers, lost     *)
(* threads, /stop and the closing of the room, for any processes,          *)
(* attentions, turns and bounds.                                           *)
(*                                                                         *)
(* Every action is first shown to be one of a few steps of the ledger      *)
(* (LedgerStep: an attention is stored, prepared, accepted by a turn, or   *)
(* moved between its lanes by a transaction), and the invariants are then  *)
(* proved of those steps: LedgerInv and HolderInv, which tie the rows of   *)
(* attentions, turns and intents to each other and to the process that     *)
(* holds the lease; CoverageInv and SentInv, which tie what is relayed and *)
(* posted to the turn that earned it; ClosedInv, what a closed room leaves *)
(* behind; and SilentTurns and SilentHolder, which keep the turns that     *)
(* ended with an outcome without work to answer.                           *)
(***************************************************************************)
EXTENDS AdapterProofs

-----------------------------------------------------------------------------
(* The ledger between dispatch, recovery and completion *)

(* The attentions that go to Codex; control events and legacy context do not. *)
Dispatchable == {a \in Attention : Class[a] \in {"task", "direct", "chat"}}

(* A joined attention is accepted, and by the turn it is joined to. *)
JoinsOK ==
    \A t \in Turn : \A a \in Attached(t) :
        att[a].stored /\ att[a].accepted /\ att[a].turn = t /\ a \in Dispatchable

(* What waits is bound to no turn, and not done. *)
LanesOK ==
    \A a \in Attention : ~att[a].accepted =>
        att[a].turn = 0 /\ (att[a].term = Open => ~att[a].done)

(* A turn with attentions has a row; an incomplete one has attentions. *)
TurnsOK ==
    \A t \in Turn :
        /\ turnAtt[t] # {} => turn[t].row
        /\ turn[t].row /\ ~turn[t].done => turnAtt[t] # {} /\ turn[t].term = Open

(* An open attention that is done was joined to a turn that is over. *)
DoneOK ==
    \A t \in Turn : \A a \in Attached(t) :
        att[a].done /\ att[a].term = Open => turn[t].done /\ ~Live(t)

(* A prepared dispatch is of a pending call, for the room's thread. *)
IntentsOK ==
    \A a \in Attention : intent[a].status = "prepared" =>
        Pending(a) /\ a \in Dispatchable /\ intent[a].thread = thread /\ thread # 0

(* The inbox is read in order. *)
InboxOK == \A a, b \in Attention : att[a].stored /\ b < a => att[b].stored

(* The inductive invariant of the ledger. *)
LedgerInv == JoinsOK /\ LanesOK /\ TurnsOK /\ DoneOK /\ IntentsOK /\ InboxOK

(* What the process that holds the lease knows of the ledger. *)
HolderAt(p, m, i, th) ==
    /\ p # "resume" /\ m.thread # 0 => m.thread = th
    /\ p \in Busy => /\ i[m.cur].status = "prepared"
                     /\ \A a \in Attention : i[a].status = "prepared" => a = m.cur
    /\ p \notin Busy \cup {"resume", "reconcile", "dead"} =>
          \A a \in Attention : i[a].status # "prepared"

(* The process that holds the lease agrees with the stored thread and the *)
(* intents.                                                               *)
HolderInv == \A o \in Owner : lease.owner = o => HolderAt(pc[o], mem[o], intent, thread)

-----------------------------------------------------------------------------
(* The moves of the ledger that no dispatch makes *)

(* The row keeps its lane: only counters, due and first may be written. *)
Stays(a) ==
    /\ att'[a].stored = att[a].stored /\ att'[a].accepted = att[a].accepted
    /\ att'[a].turn = att[a].turn /\ att'[a].done = att[a].done /\ att'[a].term = att[a].term

(* An attention is over, with a terminal status; a control is accepted.     *)
Closes(a) ==
    /\ att'[a].stored = att[a].stored /\ (att[a].accepted => att'[a].accepted)
    /\ att'[a].accepted => att[a].accepted \/ Class[a] = "stop" \/ \E o \in Owner : CloseRoom(o)
    /\ att'[a].turn = att[a].turn /\ att'[a].term # Open

(* Turn t is of the room's thread, and no server of the process that holds  *)
(* the lease runs it, or /stop has interrupted it.                          *)
NotRunning(t) ==
    /\ codex[t].thread = thread
    /\ codex[t].stop \/ \A o \in Owner : Fenced(o) => codex[t].srv # o

(* An attention goes back to the pending lane. *)
Returns(a) ==
    /\ AttentionBack(a) /\ \A u \in Turn : a \notin Attached(u)'
    /\ \E t \in Turn : a \in Attached(t) /\ NotRunning(t)

(* An open attention is done with its turn. *)
Completes(a) ==
    /\ att'[a].stored = att[a].stored /\ att'[a].accepted = att[a].accepted
    /\ att'[a].turn = att[a].turn /\ att'[a].term = att[a].term
    /\ att[a].turn \in Turn /\ turn'[att[a].turn].done /\ ~Live(att[a].turn)'

(* What a transaction may do to an attention. *)
AttentionMoves(a) == Stays(a) \/ Closes(a) \/ Returns(a) \/ Completes(a)

(* The output of turn t that is still to be sent. *)
Waiting(r) == r.status \in {"pending", "held"}

(* What a transaction may do to a turn: nothing, or end it, and only an ended *)
(* turn loses attentions.                                                     *)
TurnMoves(t) ==
    /\ turn'[t].row = turn[t].row /\ turn'[t].thread = turn[t].thread
    /\ \/ turn'[t].done = turn[t].done /\ turn'[t].term = turn[t].term /\ turnAtt'[t] = turnAtt[t]
       \/ /\ turn'[t].done
          /\ \/ turnAtt'[t] = turnAtt[t]
             \/ turnAtt'[t] = {} /\ RelaysOf(t) = {}
             \/ /\ turnAtt'[t] \subseteq turnAtt[t] /\ Attached(t) \ Protected \subseteq Attached(t)'
                /\ \A r \in relay' : Waiting(r) => r.op.turn # t

(* An intent that is in flight after the step was in flight before it, and *)
(* its attention did not move.                                             *)
IntentMoves ==
    /\ \A a \in Attention : intent'[a].status = "prepared" => intent'[a] = intent[a] /\ Stays(a)
    /\ (\E a \in Attention : intent'[a].status = "prepared") => thread' = thread

(* The process that holds the lease handles a message of turn t. *)
Reported(t) == \E o \in Owner : lease.owner = o /\ work[o] # <<>> /\ Head(work[o]).t = t

(* Output of a reported turn, for what it was given. *)
FreshOutput(r) ==
    /\ Reported(r.op.turn)
    /\ r.op.turn \in Turn /\ turn[r.op.turn].row /\ turnAtt'[r.op.turn] = turnAtt[r.op.turn]
    /\ r.op.cov # {} /\ r.op.cov \subseteq accepted_for_turn(r.op.turn)

(* Rows are never dropped, and only the output of a reported turn adds one. *)
RelayMoves ==
    /\ \A r \in relay' : (\E q \in relay : q.op = r.op) \/ FreshOutput(r)
    /\ \A r \in relay : \E q \in relay' : q.op = r.op
    /\ \A r \in relay' : Waiting(r) => r \in relay \/ FreshOutput(r)

(* What a transaction other than accepting, preparing and storing does. *)
LedgerMoves ==
    /\ \A a \in Attention : AttentionMoves(a)
    /\ \A t \in Turn : TurnMoves(t)
    /\ IntentMoves /\ RelayMoves

(* Turns that are over do not run again. *)
EndedStayEnded == \A t \in Turn : turn[t].row /\ ~Live(t) => ~Live(t)'

(* A turn never gains attentions from these transactions. *)
LEMMA JoinedLess ==
    ASSUME StoreInv, NEW t \in Turn, TurnMoves(t)
    PROVE  Attached(t)' \subseteq Attached(t)
  BY DEF TurnMoves, Attached

(* These transactions keep the ledger consistent. *)
LEMMA LedgerMovesKeep ==
    ASSUME StoreInv, StoreInv', LedgerInv, LedgerMoves, EndedStayEnded
    PROVE  LedgerInv'
<1>1. ASSUME NEW t \in Turn PROVE Attached(t)' \subseteq Attached(t) /\ Attached(t) \subseteq Attention
  BY JoinedLess, AttachedIn DEF LedgerMoves
<1>2. JoinsOK'
  <2> SUFFICES ASSUME NEW t \in Turn, NEW a \in Attached(t)'
               PROVE  att'[a].stored /\ att'[a].accepted /\ att'[a].turn = t /\ a \in Dispatchable
    BY DEF JoinsOK
  <2>1. a \in Attached(t) /\ a \in Attention
    BY <1>1
  <2>2. att[a].stored /\ att[a].accepted /\ att[a].turn = t /\ a \in Dispatchable
    BY <2>1 DEF LedgerInv, JoinsOK
  <2>3. AttentionMoves(a)
    BY <2>1 DEF LedgerMoves
  <2> QED
    BY <2>2, <2>3 DEF AttentionMoves, Stays, Closes, Returns, Completes
<1>3. LanesOK'
  <2> SUFFICES ASSUME NEW a \in Attention, ~att'[a].accepted
               PROVE  att'[a].turn = 0 /\ (att'[a].term = Open => ~att'[a].done)
    BY DEF LanesOK
  <2>1. AttentionMoves(a) /\ (~att[a].accepted => att[a].turn = 0 /\ (att[a].term = Open => ~att[a].done))
    BY DEF LedgerMoves, LedgerInv, LanesOK
  <2>2. 0 \notin Turn
    BY DEF Turn
  <2> QED
    BY <2>1, <2>2 DEF AttentionMoves, Stays, Closes, Returns, AttentionBack, Completes
<1>4. TurnsOK'
  <2> SUFFICES ASSUME NEW t \in Turn
               PROVE  /\ turnAtt'[t] # {} => turn'[t].row
                      /\ turn'[t].row /\ ~turn'[t].done => turnAtt'[t] # {} /\ turn'[t].term = Open
    BY DEF TurnsOK
  <2>1. TurnMoves(t) /\ (turnAtt[t] # {} => turn[t].row)
        /\ (turn[t].row /\ ~turn[t].done => turnAtt[t] # {} /\ turn[t].term = Open)
    BY DEF LedgerMoves, LedgerInv, TurnsOK
  <2> QED
    BY <2>1 DEF TurnMoves
<1>5. DoneOK'
  <2> SUFFICES ASSUME NEW t \in Turn, NEW a \in Attached(t)', att'[a].done, att'[a].term = Open
               PROVE  turn'[t].done /\ ~Live(t)'
    BY DEF DoneOK
  <2>1. a \in Attached(t) /\ a \in Attention
    BY <1>1
  <2>2. att[a].turn = t /\ (att[a].done /\ att[a].term = Open => turn[t].done /\ ~Live(t)) /\ turn[t].row
    BY <2>1 DEF LedgerInv, JoinsOK, DoneOK, TurnsOK, Attached
  <2>3. AttentionMoves(a) /\ TurnMoves(t) /\ (turn[t].row /\ ~Live(t) => ~Live(t)')
    BY <2>1 DEF LedgerMoves, EndedStayEnded
  <2>4. turn[t].done => turn'[t].done
    BY <2>3 DEF TurnMoves
  <2>5. Completes(a) => turn'[t].done /\ ~Live(t)'
    BY <2>2 DEF Completes
  <2>6. Stays(a) => turn[t].done /\ ~Live(t)
    BY <2>2 DEF Stays
  <2> QED
    BY <2>2, <2>3, <2>4, <2>5, <2>6 DEF AttentionMoves, Closes, Returns
<1>6. IntentsOK'
  <2> SUFFICES ASSUME NEW a \in Attention, intent'[a].status = "prepared"
               PROVE  Pending(a)' /\ a \in Dispatchable /\ intent'[a].thread = thread' /\ thread' # 0
    BY DEF IntentsOK
  <2>1. intent'[a] = intent[a] /\ Stays(a) /\ thread' = thread
    BY DEF LedgerMoves, IntentMoves
  <2>2. Pending(a) /\ a \in Dispatchable /\ intent[a].thread = thread /\ thread # 0
    BY <2>1 DEF LedgerInv, IntentsOK
  <2> QED
    BY <2>1, <2>2 DEF Pending, Stays
<1>7. InboxOK'
  <2>1. \A a \in Attention : att'[a].stored = att[a].stored
    BY DEF LedgerMoves, AttentionMoves, Stays, Closes, Returns, AttentionBack, Completes
  <2> QED
    BY <2>1 DEF LedgerInv, InboxOK
<1> QED
  BY <1>2, <1>3, <1>4, <1>5, <1>6, <1>7 DEF LedgerInv

-----------------------------------------------------------------------------
(* The ledger's transactions are such moves *)

(* What is prepared is joined to no turn. *)
LEMMA PreparedIsFree ==
    ASSUME LedgerInv, NEW a \in Attention, intent[a].status = "prepared"
    PROVE  /\ att[a].stored /\ ~att[a].accepted /\ att[a].term = Open /\ ~att[a].done
           /\ att[a].turn = 0 /\ a \in Dispatchable
           /\ \A t \in Turn : a \notin Attached(t)
<1>1. Pending(a) /\ a \in Dispatchable
  BY DEF LedgerInv, IntentsOK
<1> QED
  BY <1>1 DEF Pending, LedgerInv, LanesOK, JoinsOK

(* An attention is joined to one turn. *)
LEMMA JoinedOnce ==
    ASSUME LedgerInv, NEW t \in Turn, NEW u \in Turn, NEW a, a \in Attached(t), a \in Attached(u)
    PROVE  t = u
  BY DEF LedgerInv, JoinsOK

(* Relays at rest. *)
LEMMA SameRelays == relay' = relay => RelayMoves
  BY DEF RelayMoves

(* Suppression leaves no waiting row of the suppressed turns. *)
LEMMA FewerRelays ==
    ASSUME relay \subseteq Relay, NEW X, SuppressRelays(X)
    PROVE  RelayMoves /\ \A r \in relay' : Waiting(r) => r \in relay /\ r.op.turn \notin X
<1>1. /\ \A r \in relay' : \E q \in relay : r.op = q.op
      /\ \A r \in relay : \E q \in relay' : r.op = q.op
      /\ \A r \in relay' : r.status \in {"pending", "held"} => r \in relay /\ r.op.turn \notin X
  BY SuppressEffect
<1> QED
  BY <1>1 DEF RelayMoves, Waiting

(* Turns at rest. *)
LEMMA SameTurns ==
    ASSUME turn' = turn, turnAtt' = turnAtt
    PROVE  \A t \in Turn : TurnMoves(t)
  BY DEF TurnMoves

(* Intents at rest. *)
LEMMA SameIntents ==
    ASSUME intent' = intent, thread' = thread, \A a \in Attention : intent[a].status = "prepared" => Stays(a)
    PROVE  IntentMoves
  BY DEF IntentMoves

(* A row at rest. *)
LEMMA SameRow ==
    ASSUME NEW a, att'[a] = att[a]
    PROVE  Stays(a)
  BY DEF Stays

(* A ledger at rest. *)
LEMMA QuietMoves ==
    ASSUME UNCHANGED storeVars
    PROVE  LedgerMoves
<1>1. UNCHANGED <<att, turn, turnAtt, intent, thread, relay>>
  BY DEF storeVars
<1>2. \A a : Stays(a)
  BY <1>1 DEF Stays
<1> QED
  BY <1>1, <1>2, SameRelays, SameTurns, SameIntents DEF LedgerMoves, AttentionMoves

(* set_thread writes the thread of the room: attentions, turns, intents and *)
(* relays move only as the ledger allows.                                   *)
LEMMA SetThreadMoves ==
    ASSUME NEW th, set_thread(th), th = thread \/ \A a \in Attention : intent[a].status # "prepared"
    PROVE  LedgerMoves
<1>1. UNCHANGED <<att, turn, turnAtt, intent, relay>> /\ thread' = th
  BY DEF set_thread
<1>2. \A a : Stays(a)
  BY <1>1 DEF Stays
<1>3. IntentMoves
  BY <1>1, <1>2 DEF IntentMoves
<1> QED
  BY <1>1, <1>2, <1>3, SameRelays, SameTurns DEF LedgerMoves, AttentionMoves

(* retry_unobserved_dispatch fails the intent of a dispatch that Codex never  *)
(* saw: attentions, turns, intents and relays move only as the ledger allows. *)
LEMMA RetryMoves ==
    ASSUME StoreInv, NEW a \in Attention, retry_unobserved_dispatch(a)
    PROVE  LedgerMoves
<1>1. /\ intent'[a].status = "failed" /\ \A b \in Attention : b # a => intent'[b] = intent[b]
      /\ \A b \in Attention : CoreSame(b)
      /\ UNCHANGED <<turn, turnAtt, thread, relay>>
  BY RetryEffect
<1>2. \A b \in Attention : Stays(b)
  BY <1>1 DEF Stays, CoreSame
<1>3. IntentMoves
  BY <1>1, <1>2 DEF IntentMoves
<1> QED
  BY <1>1, <1>2, <1>3, SameRelays, SameTurns DEF LedgerMoves, AttentionMoves

(* One attention stays or is over; what is prepared stays. *)
LEMMA OneMoves ==
    ASSUME NEW a \in Attention, Stays(a) \/ Closes(a), \A b \in Attention : b # a => att'[b] = att[b],
           \A b \in Attention : intent'[b].status = "prepared" => b # a /\ intent'[b] = intent[b],
           UNCHANGED <<turn, turnAtt, thread, relay>>
    PROVE  LedgerMoves
<1>1. \A b \in Attention : b # a => Stays(b)
  BY SameRow
<1>2. \A b \in Attention : AttentionMoves(b)
  BY <1>1 DEF AttentionMoves
<1>3. IntentMoves
  BY <1>1 DEF IntentMoves
<1> QED
  BY <1>2, <1>3, SameRelays, SameTurns DEF LedgerMoves

(* retire_legacy_context cancels one event: attentions, turns, intents and *)
(* relays move only as the ledger allows.                                  *)
LEMMA RetireMoves ==
    ASSUME StoreInv, NEW a \in Attention, retire_legacy_context(a), \A b \in Attention : intent[b].status # "prepared"
    PROVE  LedgerMoves
<1>1. /\ att'[a].accepted = att[a].accepted /\ att'[a].turn = att[a].turn /\ att'[a].stored = att[a].stored
      /\ att'[a].term = "cancelled" /\ \A b \in Attention : b # a => att'[b] = att[b]
      /\ UNCHANGED <<turn, turnAtt, intent, thread, relay>>
  BY RetireEffect
<1>2. Closes(a)
  BY <1>1 DEF Closes, Open
<1> QED
  BY <1>1, <1>2, OneMoves

(* A deferred attention stays or fails. *)
LEMMA DeferredMoves ==
    ASSUME NEW a, DeferSame(a)
    PROVE  Stays(a) \/ Closes(a)
  BY DEF DeferSame, Stays, Closes, Open

(* defer_attention postpones one attention, or fails it at the limit:    *)
(* attentions, turns, intents and relays move only as the ledger allows. *)
LEMMA DeferMoves ==
    ASSUME StoreInv, NEW a \in Attention, defer_attention(a), \A b \in Attention : intent[b].status # "prepared"
    PROVE  LedgerMoves
<1>1. /\ DeferSame(a) /\ \A b \in Attention : b # a => att'[b] = att[b]
      /\ UNCHANGED <<turn, turnAtt, intent, thread, relay>>
  BY DeferEffect
<1> QED
  BY <1>1, DeferredMoves, OneMoves

(* A refused dispatch fails its intent and postpones its attention:      *)
(* attentions, turns, intents and relays move only as the ledger allows. *)
LEMMA RetryDeferMoves ==
    ASSUME StoreInv, NEW a \in Attention, NEW now, retry_and_defer(a, now)
    PROVE  LedgerMoves
<1>1. /\ intent'[a].status = "failed" /\ \A b \in Attention : b # a => intent'[b] = intent[b]
      /\ DeferSame(a) /\ \A b \in Attention : b # a => att'[b] = att[b]
      /\ UNCHANGED <<turn, turnAtt, thread, relay>>
  BY RetryDeferEffect
<1>2. \A b \in Attention : intent'[b].status = "prepared" => b # a /\ intent'[b] = intent[b]
  BY <1>1
<1> QED
  BY <1>1, <1>2, DeferredMoves, OneMoves

(* adopt_recovered_turn moves a turn to the new epoch: attentions, turns, *)
(* intents and relays move only as the ledger allows.                     *)
LEMMA AdoptMoves ==
    ASSUME StoreInv, NEW t \in Turn, NEW e \in Nat, adopt_recovered_turn(t, e)
    PROVE  LedgerMoves
<1>1. /\ \A u \in Turn : turn'[u].row = turn[u].row /\ turn'[u].thread = turn[u].thread
                         /\ turn'[u].done = turn[u].done /\ turn'[u].term = turn[u].term
      /\ UNCHANGED <<att, turnAtt, intent, thread, relay>>
  BY AdoptEffect
<1>2. \A a : Stays(a)
  BY <1>1 DEF Stays
<1>3. \A u \in Turn : TurnMoves(u)
  BY <1>1 DEF TurnMoves
<1> QED
  BY <1>1, <1>2, <1>3, SameRelays, SameIntents DEF LedgerMoves, AttentionMoves

(* Output-free turns that do not run are replayed. *)
LEMMA RequeueMoves ==
    ASSUME StoreInv, LedgerInv, NEW X, X \subseteq Turn, RequeueTurns(X, TRUE) \/ RequeueTurns(X, FALSE),
           UNCHANGED <<intent, relay>>,
           thread' = thread \/ \A a \in Attention : intent[a].status # "prepared",
           \A t \in X : RelaysOf(t) = {} /\ NotRunning(t)
    PROVE  LedgerMoves
<1>1. /\ \A t \in X : TurnEnds(t, "failed") /\ turnAtt'[t] = {}
      /\ \A t \in Turn : t \notin X => turn'[t] = turn[t] /\ turnAtt'[t] = turnAtt[t]
      /\ \A a \in Attention :
           \/ att'[a] = att[a] /\ \A t \in X : a \in Attached(t) => att[a].final
           \/ (\E t \in X : a \in Attached(t)) /\ AttentionBack(a)
  BY RequeueParts
<1>2. ASSUME NEW a \in Attention PROVE AttentionMoves(a)
  <2>1. CASE att'[a] = att[a]
    BY <2>1, SameRow DEF AttentionMoves
  <2>2. CASE att'[a] # att[a]
    <3>1. PICK t \in X : a \in Attached(t)
      BY <1>1, <2>2
    <3>2. AttentionBack(a)
      BY <1>1, <2>2
    <3>3. ASSUME NEW u \in Turn PROVE a \notin Attached(u)'
      <4>1. CASE u = t
        BY <1>1, <4>1 DEF Attached
      <4>2. CASE u # t
        <5>1. a \notin Attached(u)
          BY <3>1, <4>2, JoinedOnce
        <5>2. turnAtt'[u] \subseteq turnAtt[u]
          BY <1>1
        <5> QED
          BY <5>1, <5>2 DEF Attached
      <4> QED
        BY <4>1, <4>2
    <3> QED
      BY <3>1, <3>2, <3>3 DEF AttentionMoves, Returns
  <2> QED
    BY <2>1, <2>2
<1>3. ASSUME NEW t \in Turn PROVE TurnMoves(t)
  BY <1>1 DEF TurnMoves, TurnEnds
<1>4. IntentMoves
  <2>1. ASSUME NEW a \in Attention, intent[a].status = "prepared" PROVE Stays(a)
    <3>1. \A t \in Turn : a \notin Attached(t)
      BY <2>1, PreparedIsFree
    <3>2. att'[a] = att[a]
      BY <1>1, <3>1
    <3> QED
      BY <3>2, SameRow
  <2> QED
    BY <2>1 DEF IntentMoves
<1> QED
  BY <1>2, <1>3, <1>4, SameRelays DEF LedgerMoves

(* requeue_missing_thread forgets the thread and requeues its silent turns: *)
(* attentions, turns, intents and relays move only as the ledger allows.    *)
LEMMA MissingThreadMoves ==
    ASSUME StoreInv, LedgerInv, NEW th, requeue_missing_thread(th),
           \A a \in Attention : intent[a].status # "prepared",
           \A t \in incomplete_turn_ids(th) : NotRunning(t)
    PROVE  LedgerMoves
<1> DEFINE X == {t \in incomplete_turn_ids(th) : RelaysOf(t) = {}}
<1>1. UNCHANGED <<intent, relay>> /\ RequeueTurns(X, FALSE)
  BY MissingThreadEffect
<1>2. X \subseteq Turn /\ \A t \in X : RelaysOf(t) = {} /\ NotRunning(t)
  BY DEF incomplete_turn_ids
<1> HIDE DEF X
<1> QED
  BY <1>1, <1>2, RequeueMoves

(* requeue_missing_turn requeues a turn without output, or does nothing: *)
(* attentions, turns, intents and relays move only as the ledger allows. *)
LEMMA MissingTurnMoves ==
    ASSUME StoreInv, LedgerInv, NEW t \in Turn, requeue_missing_turn(t), NotRunning(t)
    PROVE  LedgerMoves
<1>1. /\ UNCHANGED <<intent, thread, relay>>
      /\ Replayable(t) => RequeueTurns({t}, TRUE)
      /\ ~Replayable(t) => UNCHANGED <<att, turn, turnAtt>>
  BY MissingTurnEffect
<1>2. CASE Replayable(t)
  <2>1. \A u \in {t} : RelaysOf(u) = {} /\ NotRunning(u)
    BY <1>2 DEF Replayable
  <2>2. RequeueTurns({t}, TRUE) /\ {t} \subseteq Turn
    BY <1>1, <1>2
  <2> QED
    BY <1>1, <2>1, <2>2, RequeueMoves
<1>3. CASE ~Replayable(t)
  <2>1. UNCHANGED storeVars
    BY <1>1, <1>3 DEF storeVars
  <2> QED
    BY <2>1, QuietMoves
<1> QED
  BY <1>2, <1>3

(* An attention that ends is closed. *)
LEMMA EndMoves ==
    ASSUME NEW a, NEW v, AttentionEnds(a, v), v # Open
    PROVE  Closes(a)
  BY DEF AttentionEnds, Closes

(* reap_stale_turns_after_recovery interrupts turns of earlier epochs, not   *)
(* what still needs a reply: attentions, turns, intents and relays move only *)
(* as the ledger allows.                                                     *)
LEMMA ReapMoves ==
    ASSUME StoreInv, LedgerInv, NEW e \in Nat, reap_stale_turns_after_recovery(e)
    PROVE  LedgerMoves
<1>1. /\ UNCHANGED <<turnAtt, intent, thread>>
      /\ SuppressRelays(StaleTurns(e))
      /\ \A t \in StaleTurns(e) : TurnEnds(t, "interrupted")
      /\ \A t \in Turn \ StaleTurns(e) : turn'[t] = turn[t]
      /\ \A a \in Attention :
           LET ends == att[a].turn \in StaleTurns(e) /\ att[a].term = Open /\ a \notin ReplyRequired IN
           /\ ends => AttentionEnds(a, "interrupted")
           /\ ~ends => att'[a] = att[a]
  BY ReapEffect
<1>2. \A a \in Attention : Closes(a) \/ Stays(a)
  BY <1>1, EndMoves, SameRow DEF Open
<1>3. ASSUME NEW t \in Turn PROVE TurnMoves(t)
  BY <1>1 DEF TurnMoves, TurnEnds
<1>4. ASSUME NEW a \in Attention, intent[a].status = "prepared" PROVE Stays(a)
  <2>1. att[a].turn \notin StaleTurns(e)
    BY <1>4, PreparedIsFree DEF StaleTurns, Turn
  <2> QED
    BY <1>1, <2>1, SameRow
<1>5. RelayMoves
  BY <1>1, FewerRelays DEF StoreInv, StoreTypeOK
<1> QED
  BY <1>1, <1>2, <1>3, <1>4, <1>5, SameIntents DEF LedgerMoves, AttentionMoves

(* mark_turn_no_reply cancels what the turn will not answer: attentions, *)
(* turns, intents and relays move only as the ledger allows.             *)
LEMMA NoReplyMoves ==
    ASSUME StoreInv, LedgerInv, NEW t \in Turn, mark_turn_no_reply(t)
    PROVE  LedgerMoves
<1>1. /\ \A a \in Attention : att'[a] = att[a] \/
           /\ att'[a].stored = att[a].stored /\ att'[a].accepted = att[a].accepted
           /\ att'[a].turn = att[a].turn /\ att'[a].done = att[a].done
           /\ att'[a].final = att[a].final /\ att'[a].term = "cancelled"
      /\ UNCHANGED <<turn, turnAtt, intent, thread, relay>>
  BY NoReplyEffect
<1>2. \A a \in Attention : Stays(a) \/ Closes(a)
  BY <1>1 DEF Stays, Closes, Open
<1>3. ASSUME NEW a \in Attention, intent[a].status = "prepared" PROVE Stays(a)
  <2>1. att[a].turn # t
    BY <1>3, PreparedIsFree DEF Turn
  <2>2. att'[a] = att[a]
    BY <2>1 DEF mark_turn_no_reply
  <2> QED
    BY <2>2, SameRow
<1> QED
  BY <1>1, <1>2, <1>3, SameRelays, SameTurns, SameIntents DEF LedgerMoves, AttentionMoves

(* mark_turn_completed ends the turn and what it carries: attentions, turns, *)
(* intents and relays move only as the ledger allows.                        *)
LEMMA CompleteMoves ==
    ASSUME StoreInv, LedgerInv, NEW t \in Turn, NEW s, mark_turn_completed(t, s), ~Live(t)'
    PROVE  LedgerMoves
<1>1. CASE ~turn[t].row
  <2>1. UNCHANGED storeVars
    BY <1>1 DEF mark_turn_completed
  <2> QED
    BY <2>1, QuietMoves
<1>2. CASE turn[t].row
  <2> DEFINE v == IF s \in Terminal THEN s ELSE Open
  <2>1. /\ UNCHANGED <<turnAtt, intent, thread>>
        /\ IF s \in Terminal THEN SuppressRelays({t}) ELSE relay' = relay
        /\ TurnEnds(t, v)
        /\ \A u \in Turn : u # t => turn'[u] = turn[u]
        /\ \A a \in Attention :
             /\ att[a].turn = t => AttentionEnds(a, IF att[a].term = Open THEN v ELSE att[a].term)
             /\ att[a].turn # t => att'[a] = att[a]
    BY <1>2, CompleteEffect
  <2> HIDE DEF v
  <2>2. ASSUME NEW a \in Attention PROVE AttentionMoves(a)
    <3>1. CASE att[a].turn # t
      BY <2>1, <3>1, SameRow DEF AttentionMoves
    <3>2. CASE att[a].turn = t /\ att[a].term # Open
      BY <2>1, <3>2, EndMoves DEF AttentionMoves
    <3>3. CASE att[a].turn = t /\ att[a].term = Open /\ v # Open
      BY <2>1, <3>3, EndMoves DEF AttentionMoves
    <3>4. CASE att[a].turn = t /\ att[a].term = Open /\ v = Open
      BY <2>1, <3>4 DEF AttentionMoves, Completes, AttentionEnds, TurnEnds
    <3> QED
      BY <3>1, <3>2, <3>3, <3>4
  <2>3. ASSUME NEW u \in Turn PROVE TurnMoves(u)
    BY <2>1 DEF TurnMoves, TurnEnds
  <2>4. ASSUME NEW a \in Attention, intent[a].status = "prepared" PROVE Stays(a)
    <3>1. att[a].turn # t
      BY <2>4, PreparedIsFree DEF Turn
    <3> QED
      BY <2>1, <3>1, SameRow
  <2>5. RelayMoves
    BY <2>1, FewerRelays, SameRelays DEF StoreInv, StoreTypeOK
  <2> QED
    BY <2>1, <2>2, <2>3, <2>4, <2>5, SameIntents DEF LedgerMoves
<1> QED
  BY <1>1, <1>2

(* interrupt_turn_for_control ends the turn and returns its unanswered    *)
(* protected work: attentions, turns, intents and relays move only as the *)
(* ledger allows.                                                         *)
LEMMA InterruptMoves ==
    ASSUME StoreInv, LedgerInv, NEW t \in Turn, interrupt_turn_for_control(t), codex[t].stop,
           codex[t].thread = thread
    PROVE  LedgerMoves
<1>1. CASE ~turn[t].row
  <2>1. UNCHANGED storeVars
    BY <1>1 DEF interrupt_turn_for_control
  <2> QED
    BY <2>1, QuietMoves
<1>2. CASE turn[t].row
  <2>1. /\ UNCHANGED <<intent, thread>> /\ SuppressRelays({t}) /\ TurnEnds(t, "interrupted")
        /\ \A u \in Turn : u # t => turn'[u] = turn[u] /\ turnAtt'[u] = turnAtt[u]
        /\ turnAtt'[t] = {p \in turnAtt[t] : p[1] \notin Unanswered(t)}
        /\ \A a \in Attention :
             /\ a \in Unanswered(t) => AttentionBack(a)
             /\ a \in Attached(t) \ Unanswered(t) => AttentionEnds(a, "interrupted")
             /\ a \notin Attached(t) => att'[a] = att[a]
    BY <1>2, InterruptEffect
  <2>2. RelayMoves /\ \A r \in relay' : Waiting(r) => r.op.turn # t
    BY <2>1, FewerRelays DEF StoreInv, StoreTypeOK
  <2>3. Unanswered(t) \subseteq Attached(t) \cap Protected
    BY DEF Unanswered
  <2>4. ASSUME NEW a \in Attention PROVE AttentionMoves(a)
    <3>1. CASE a \notin Attached(t)
      BY <2>1, <3>1, SameRow DEF AttentionMoves
    <3>2. CASE a \in Attached(t) \ Unanswered(t)
      BY <2>1, <3>2, EndMoves DEF AttentionMoves, Open
    <3>3. CASE a \in Unanswered(t)
      <4>1. a \in Attached(t) /\ AttentionBack(a)
        BY <2>1, <2>3, <3>3
      <4>2. ASSUME NEW u \in Turn PROVE a \notin Attached(u)'
        <5>1. CASE u = t
          BY <2>1, <3>3, <5>1 DEF Attached
        <5>2. CASE u # t
          <6>1. a \notin Attached(u) /\ turnAtt'[u] = turnAtt[u]
            BY <2>1, <4>1, <5>2, JoinedOnce
          <6> QED
            BY <6>1 DEF Attached
        <5> QED
          BY <5>1, <5>2
      <4> QED
        BY <4>1, <4>2 DEF AttentionMoves, Returns, NotRunning
    <3> QED
      BY <3>1, <3>2, <3>3
  <2>5. ASSUME NEW u \in Turn PROVE TurnMoves(u)
    <3>1. CASE u # t
      BY <2>1, <3>1 DEF TurnMoves
    <3>2. CASE u = t
      <4>1. turnAtt'[t] \subseteq turnAtt[t]
        BY <2>1
      <4>2. Attached(t) \ Protected \subseteq Attached(t)'
        BY <2>1, <2>3 DEF Attached
      <4> QED
        BY <2>1, <2>2, <3>2, <4>1, <4>2 DEF TurnMoves, TurnEnds
    <3> QED
      BY <3>1, <3>2
  <2>6. ASSUME NEW a \in Attention, intent[a].status = "prepared" PROVE Stays(a)
    <3>1. a \notin Attached(t)
      BY <2>6, PreparedIsFree
    <3> QED
      BY <2>1, <3>1, SameRow
  <2> QED
    BY <2>1, <2>2, <2>4, <2>5, <2>6, SameIntents DEF LedgerMoves
<1> QED
  BY <1>1, <1>2

(* cancel_pending_before_control cancels what waits before the control event, *)
(* protected work excepted: attentions, turns, intents and relays move only   *)
(* as the ledger allows.                                                      *)
LEMMA CancelMoves ==
    ASSUME StoreInv, NEW c \in Attention, cancel_pending_before_control(c), Class[c] = "stop",
           \A b \in Attention : intent[b].status # "prepared"
    PROVE  LedgerMoves
<1>1. /\ UNCHANGED <<turn, turnAtt, intent, thread, relay>>
      /\ att'[c].stored = att[c].stored /\ att'[c].accepted /\ att'[c].turn = att[c].turn
      /\ att'[c].term = "cancelled"
      /\ \A a \in Attention : a # c => (Pending(a) /\ AttentionCancelled(a) /\ a \notin Protected) \/ att'[a] = att[a]
  BY CancelEffect
<1>2. ASSUME NEW a \in Attention PROVE Stays(a) \/ Closes(a)
  BY <1>1 DEF AttentionCancelled, Closes, Stays, Open
<1> QED
  BY <1>1, <1>2, SameRelays, SameTurns, SameIntents DEF LedgerMoves, AttentionMoves

(* close_room_for_control ends all unfinished work and forgets the thread: *)
(* attentions, turns, intents and relays move only as the ledger allows.   *)
LEMMA CloseMoves ==
    ASSUME StoreInv, NEW c \in Attention, close_room_for_control(c), Pending(c),
           NEW o \in Owner, CloseRoom(o),
           \A b \in Attention : intent[b].status # "prepared"
    PROVE  LedgerMoves
<1>1. /\ UNCHANGED <<turnAtt, intent>> /\ thread' = 0
      /\ SuppressRelays({t \in Turn : turn[t].row})
      /\ \A t \in Turn : /\ turn[t].row /\ ~turn[t].done => TurnEnds(t, "cancelled")
                         /\ ~(turn[t].row /\ ~turn[t].done) => turn'[t] = turn[t]
      /\ \A a \in Attention : a # c =>
           /\ a \in Unfinished => AttentionEnds(a, "cancelled")
           /\ a \notin Unfinished => att'[a] = att[a]
      /\ att'[c].accepted /\ att'[c].stored = att[c].stored /\ att'[c].turn = att[c].turn
      /\ c \in Unfinished => att'[c].done = TRUE /\ att'[c].term = "cancelled"
  BY CloseEffect
<1>2. c \in Unfinished
  BY DEF Pending, Unfinished
<1>3. ASSUME NEW a \in Attention PROVE Stays(a) \/ Closes(a)
  <2>1. CASE a = c
    BY <1>1, <1>2, <2>1 DEF Closes, Open
  <2>2. CASE a # c
    BY <1>1, <2>2, EndMoves, SameRow DEF Open
  <2> QED
    BY <2>1, <2>2
<1>4. ASSUME NEW t \in Turn PROVE TurnMoves(t)
  BY <1>1 DEF TurnMoves, TurnEnds
<1>5. RelayMoves
  BY <1>1, FewerRelays DEF StoreInv, StoreTypeOK
<1>6. IntentMoves
  BY <1>1 DEF IntentMoves
<1> QED
  BY <1>3, <1>4, <1>5, <1>6 DEF LedgerMoves, AttentionMoves

(* The output of an item or a candidate adds at most one row: attentions, *)
(* turns, intents and relays move only as the ledger allows.              *)
LEMMA OutputMoves ==
    ASSUME StoreInv, NEW t \in Turn, NEW i \in Item, NEW f \in BOOLEAN, NEW k \in RelayKind,
           NEW cov, cov \subseteq accepted_for_turn(t), NEW s \in {"pending", "held", "suppressed"},
           create_output(t, i, f, k, cov, s), LedgerInv, Reported(t)
    PROVE  LedgerMoves
<1>1. CASE cov = {}
  <2>1. UNCHANGED storeVars
    BY <1>1 DEF create_output
  <2> QED
    BY <2>1, QuietMoves
<1>2. CASE cov # {}
  <2> DEFINE op == Op(t, i, f, k, cov)
  <2>1. op \in RelayOp /\ op.turn = t /\ op.cov = cov
    <3>1. cov \subseteq Attention
      BY AttachedIn
    <3> QED
      BY <3>1 DEF Op, RelayOp
  <2>2. create_relay_item(op, s)
    BY <1>2 DEF create_output
  <2> HIDE DEF op
  <2>3. /\ relay \subseteq relay' /\ \A r \in relay' : r \in relay \/ (r.op = op /\ r.status = s)
        /\ UNCHANGED <<att, turn, turnAtt, intent, thread>>
    BY <2>1, <2>2, CreateEffect
  <2>4. turn[t].row
    BY <1>2 DEF accepted_for_turn, Attached, LedgerInv, TurnsOK
  <2>5. \A r \in relay' : r \in relay \/ FreshOutput(r)
    BY <1>2, <2>1, <2>3, <2>4 DEF FreshOutput
  <2>6. RelayMoves
    BY <2>3, <2>5 DEF RelayMoves
  <2>7. \A a : Stays(a)
    BY <2>3 DEF Stays
  <2> QED
    BY <2>3, <2>6, <2>7, SameTurns, SameIntents DEF LedgerMoves, AttentionMoves
<1> QED
  BY <1>1, <1>2

(* mark_relay_accepted settles one row and notes what it answered:       *)
(* attentions, turns, intents and relays move only as the ledger allows. *)
LEMMA MarkMoves ==
    ASSUME StoreInv, NEW r \in Relay, mark_relay_accepted(r)
    PROVE  LedgerMoves
<1>1. /\ \A p \in relay' : \E q \in relay : p.op = q.op
      /\ \A p \in relay : \E q \in relay' : p.op = q.op
      /\ \A p \in relay' : p.status \in {"pending", "held"} => p \in relay
      /\ \A a \in Attention : /\ att'[a].stored = att[a].stored /\ att'[a].accepted = att[a].accepted
                              /\ att'[a].turn = att[a].turn /\ att'[a].done = att[a].done
                              /\ att'[a].term = att[a].term
      /\ UNCHANGED <<turn, turnAtt, intent, thread>>
  BY MarkEffect
<1>2. \A a \in Attention : Stays(a)
  BY <1>1 DEF Stays
<1>3. RelayMoves
  BY <1>1 DEF RelayMoves, Waiting
<1> QED
  BY <1>1, <1>2, <1>3, SameTurns, SameIntents DEF LedgerMoves, AttentionMoves

(* A backoff that elapses only makes its attention due: attentions, turns, *)
(* intents and relays move only as the ledger allows.                      *)
LEMMA ElapsedMoves ==
    ASSUME StoreInv, NEW a \in Attention, BackoffElapsed(a)
    PROVE  LedgerMoves
<1>1. (\A b \in Attention : CoreSame(b)) /\ UNCHANGED <<turn, turnAtt, intent, thread, relay>>
  BY ElapsedEffect
<1>2. \A b \in Attention : Stays(b)
  BY <1>1 DEF Stays, CoreSame
<1> QED
  BY <1>1, <1>2, SameRelays, SameTurns, SameIntents DEF LedgerMoves, AttentionMoves

-----------------------------------------------------------------------------
(* The moves of a dispatch *)

(* The prepared attention a is accepted by turn t. *)
Accepts(a, t) ==
    /\ intent[a].status = "prepared" /\ intent'[a].status # "prepared"
    /\ \A b \in Attention : b # a => intent'[b] = intent[b] /\ att'[b] = att[b]
    /\ thread' = thread /\ relay' = relay /\ codex' = codex
    /\ att'[a].accepted /\ att'[a].turn = t /\ att'[a].stored = att[a].stored
    /\ att'[a].done = att[a].done /\ att'[a].term = att[a].term
    /\ \A u \in Turn : u # t => turn'[u] = turn[u] /\ turnAtt'[u] = turnAtt[u]
    /\ turn[t].row => turn'[t] = turn[t]
    /\ turn'[t].row /\ (~turn[t].row => ~turn'[t].done /\ turn'[t].term = Open)
    /\ turnAtt[t] \subseteq turnAtt'[t] /\ \A x \in turnAtt'[t] : x \in turnAtt[t] \/ x[1] = a
    /\ turnAtt'[t] # {}

(* A pending call is prepared for the room's thread. *)
Prepares(a) ==
    /\ Pending(a) /\ a \in Dispatchable /\ thread # 0
    /\ intent'[a].status = "prepared" /\ intent'[a].thread = thread
    /\ \A b \in Attention : b # a => intent'[b] = intent[b]
    /\ UNCHANGED <<att, turn, turnAtt, thread, relay>> /\ codex' = codex

(* The next record of the inbox is stored. *)
Ingests(a) ==
    /\ ~att[a].stored /\ \A b \in Attention : b < a => att[b].stored
    /\ att'[a].stored /\ att'[a].accepted = att[a].accepted /\ att'[a].turn = att[a].turn
    /\ att'[a].done = att[a].done /\ att'[a].term = att[a].term
    /\ \A b \in Attention : b # a => att'[b] = att[b]
    /\ UNCHANGED <<turn, turnAtt, intent, thread, relay>> /\ codex' = codex

(* The steps of the ledger. *)
LedgerStep ==
    \/ LedgerMoves /\ EndedStayEnded
    \/ \E a \in Attention, t \in Turn : Accepts(a, t)
    \/ \E a \in Attention : Prepares(a) \/ Ingests(a)

(* Accepting an attention keeps the ledger consistent. *)
LEMMA AcceptsKeeps ==
    ASSUME StoreInv, StoreInv', LedgerInv, NEW a \in Attention, NEW t \in Turn, Accepts(a, t)
    PROVE  LedgerInv'
<1>1. /\ att[a].stored /\ ~att[a].accepted /\ att[a].term = Open /\ ~att[a].done
      /\ att[a].turn = 0 /\ a \in Dispatchable /\ \A u \in Turn : a \notin Attached(u)
  BY PreparedIsFree DEF Accepts
<1>2. Attached(t)' \subseteq Attached(t) \cup {a}
  BY DEF Accepts, Attached
<1>3. ASSUME NEW u \in Turn, u # t PROVE Attached(u)' = Attached(u)
  BY <1>3 DEF Accepts, Attached
<1>4. \A u \in Turn : Attached(u) \subseteq Attention
  BY AttachedIn
<1>5. \A u \in Turn : Live(u)' <=> Live(u)
  BY DEF Accepts, Live
<1>6. ASSUME NEW u \in Turn, NEW b \in Attached(u)', ~(u = t /\ b = a)
      PROVE  b \in Attention /\ b \in Attached(u) /\ b # a /\ att'[b] = att[b]
  <2>1. b \in Attached(u)
    BY <1>2, <1>3, <1>6
  <2> QED
    BY <2>1, <1>1, <1>4 DEF Accepts
<1>7. JoinsOK'
  <2> SUFFICES ASSUME NEW u \in Turn, NEW b \in Attached(u)'
               PROVE  att'[b].stored /\ att'[b].accepted /\ att'[b].turn = u /\ b \in Dispatchable
    BY DEF JoinsOK
  <2>1. CASE u = t /\ b = a
    BY <1>1, <2>1 DEF Accepts
  <2>2. CASE ~(u = t /\ b = a)
    BY <1>6, <2>2 DEF LedgerInv, JoinsOK
  <2> QED
    BY <2>1, <2>2
<1>8. LanesOK'
  BY DEF Accepts, LedgerInv, LanesOK
<1>9. TurnsOK'
  BY DEF Accepts, LedgerInv, TurnsOK
<1>10. DoneOK'
  <2> SUFFICES ASSUME NEW u \in Turn, NEW b \in Attached(u)', att'[b].done, att'[b].term = Open
               PROVE  turn'[u].done /\ ~Live(u)'
    BY DEF DoneOK
  <2>1. b # a
    BY <1>1 DEF Accepts
  <2>2. b \in Attached(u) /\ att'[b] = att[b]
    BY <1>6, <2>1
  <2>3. turn[u].done /\ ~Live(u) /\ turn[u].row
    BY <2>2 DEF LedgerInv, DoneOK, TurnsOK, Attached
  <2> QED
    BY <1>5, <2>3 DEF Accepts
<1>11. IntentsOK'
  BY DEF Accepts, LedgerInv, IntentsOK, Pending
<1>12. InboxOK'
  BY DEF Accepts, LedgerInv, InboxOK
<1> QED
  BY <1>7, <1>8, <1>9, <1>10, <1>11, <1>12 DEF LedgerInv

(* Recording an intent keeps the ledger consistent. *)
LEMMA PreparesKeeps ==
    ASSUME LedgerInv, NEW a \in Attention, Prepares(a)
    PROVE  LedgerInv'
<1>1. UNCHANGED <<att, turn, turnAtt, thread, relay>> /\ codex' = codex
  BY DEF Prepares
<1>2. JoinsOK' /\ LanesOK' /\ TurnsOK' /\ DoneOK' /\ InboxOK'
  BY <1>1 DEF LedgerInv, JoinsOK, LanesOK, TurnsOK, DoneOK, InboxOK, Attached, Live
<1>3. IntentsOK'
  BY DEF Prepares, LedgerInv, IntentsOK, Pending
<1> QED
  BY <1>2, <1>3 DEF LedgerInv

(* Storing an event keeps the ledger consistent. *)
LEMMA IngestsKeeps ==
    ASSUME StoreInv, LedgerInv, NEW a \in Attention, Ingests(a)
    PROVE  LedgerInv'
<1>1. UNCHANGED <<turn, turnAtt, intent, thread, relay>> /\ codex' = codex
  BY DEF Ingests
<1>2. \A b \in Attention : /\ att'[b].accepted = att[b].accepted /\ att'[b].turn = att[b].turn
                           /\ att'[b].done = att[b].done /\ att'[b].term = att[b].term
                           /\ (att[b].stored => att'[b].stored)
  BY DEF Ingests
<1>3. \A t \in Turn : Attached(t)' = Attached(t) /\ Attached(t) \subseteq Attention /\ (Live(t)' <=> Live(t))
  BY <1>1, AttachedIn DEF Attached, Live
<1>4. JoinsOK' /\ LanesOK' /\ TurnsOK' /\ DoneOK'
  BY <1>1, <1>2, <1>3 DEF LedgerInv, JoinsOK, LanesOK, TurnsOK, DoneOK
<1>5. IntentsOK'
  <2> SUFFICES ASSUME NEW b \in Attention, intent'[b].status = "prepared"
               PROVE  Pending(b)' /\ b \in Dispatchable /\ intent'[b].thread = thread' /\ thread' # 0
    BY DEF IntentsOK
  <2>1. Pending(b) /\ b \in Dispatchable /\ intent[b].thread = thread /\ thread # 0
    BY <1>1 DEF LedgerInv, IntentsOK
  <2> QED
    BY <1>1, <2>1 DEF Ingests, Pending
<1>6. InboxOK'
  <2> SUFFICES ASSUME NEW b \in Attention, NEW d \in Attention, att'[b].stored, d < b
               PROVE  att'[d].stored
    BY DEF InboxOK
  <2>1. CASE d = a
    BY <2>1 DEF Ingests
  <2>2. CASE d # a /\ b = a
    BY <2>2 DEF Ingests
  <2>3. CASE d # a /\ b # a
    BY <2>3 DEF Ingests, LedgerInv, InboxOK
  <2> QED
    BY <2>1, <2>2, <2>3
<1> QED
  BY <1>4, <1>5, <1>6 DEF LedgerInv

(* Every step of the ledger keeps it consistent. *)
LEMMA LedgerStepKeeps ==
    ASSUME StoreInv, StoreInv', LedgerInv, LedgerStep
    PROVE  LedgerInv'
  BY LedgerMovesKeep, AcceptsKeeps, PreparesKeeps, IngestsKeeps DEF LedgerStep

(* finalize_dispatch of an intent in flight accepts its attention. *)
LEMMA FinalizeAccepts ==
    ASSUME StoreInv, NEW a \in Attention, NEW t \in Turn, NEW th \in Thread \cup {0}, NEW e \in Nat,
           NEW s \in {"accepted", "reconciled"}, finalize_dispatch(a, th, t, e, s),
           intent[a].status = "prepared", codex' = codex
    PROVE  Accepts(a, t)
<1>1. /\ intent'[a].status = s /\ \A b \in Attention : b # a => intent'[b] = intent[b]
      /\ thread' = thread /\ relay' = relay
  BY FinalizeEffect
<1>2. MarkAccepted(a, th, t, e)
  BY DEF finalize_dispatch
<1>3. /\ att'[a].accepted /\ att'[a].turn = t /\ att'[a].stored = att[a].stored
      /\ att'[a].done = att[a].done /\ att'[a].term = att[a].term
      /\ \A b \in Attention : b # a => att'[b] = att[b]
      /\ \A u \in Turn : u # t => turn'[u] = turn[u] /\ turnAtt'[u] = turnAtt[u]
      /\ turn[t].row => turn'[t] = turn[t]
      /\ turn'[t].row
      /\ ~turn[t].row => ~turn'[t].done /\ turn'[t].term = Open
      /\ turnAtt[t] \subseteq turnAtt'[t] /\ \A x \in turnAtt'[t] : x \in turnAtt[t] \/ x[1] = a
      /\ turnAtt'[t] # {}
  BY <1>2, AcceptEffect
<1> QED
  BY <1>1, <1>3 DEF Accepts

-----------------------------------------------------------------------------
(* The process that holds the lease *)

(* A step of process o. *)
LEMMA HolderActs ==
    ASSUME HolderInv, NEW o \in Owner, lease' = lease, NEW p, NEW m, NEW w, NEW q, Acts(o, p, m, w, q),
           lease.owner = o \/ (intent' = intent /\ thread' = thread),
           lease.owner = o => HolderAt(p, m, intent', thread')
    PROVE  HolderInv'
<1> SUFFICES ASSUME NEW u \in Owner, lease.owner = u
             PROVE  HolderAt(pc'[u], mem'[u], intent', thread')
  BY DEF HolderInv
<1>1. CASE u = o
  BY <1>1 DEF Acts, Wrote
<1>2. CASE u # o
  <2>1. pc'[u] = pc[u] /\ mem'[u] = mem[u] /\ intent' = intent /\ thread' = thread
    BY <1>2 DEF Acts, Wrote
  <2> QED
    BY <2>1 DEF HolderInv
<1> QED
  BY <1>1, <1>2

(* It goes on without a change of the dispatches. *)
Resting == Point \ (Busy \cup {"resume", "reconcile", "dead", "new"})

(* A step of a process outside a dispatch, or inside one with the same *)
(* attention, keeps the holder consistent.                             *)
LEMMA HolderRests ==
    ASSUME HolderInv, NEW o \in Owner, lease' = lease, NEW p, NEW m, NEW w, NEW q, Acts(o, p, m, w, q),
           intent' = intent, thread' = thread, m.thread = mem[o].thread,
           \/ p = pc[o] /\ m.cur = mem[o].cur
           \/ p \in Busy /\ pc[o] \in Busy /\ m.cur = mem[o].cur
           \/ p \in Resting /\ pc[o] \in Resting
    PROVE  HolderInv'
<1>1. ASSUME lease.owner = o PROVE HolderAt(p, m, intent', thread')
  <2>1. HolderAt(pc[o], mem[o], intent, thread)
    BY <1>1 DEF HolderInv
  <2> QED
    BY <2>1 DEF HolderAt, Busy, Resting
<1> QED
  BY <1>1, HolderActs

(* So does a step that changes neither holder nor tables. *)
LEMMA HolderKept ==
    ASSUME HolderInv, lease'.owner = lease.owner, UNCHANGED <<pc, mem, intent, thread>>
    PROVE  HolderInv'
  BY DEF HolderInv, HolderAt

(* Who passes the fence holds the lease, alone. *)
LEMMA FencedHolds ==
    ASSUME HolderInv, NEW o \in Owner, Fenced(o)
    PROVE  /\ lease.owner = o /\ HolderAt(pc[o], mem[o], intent, thread)
           /\ \A u \in Owner : Fenced(u) => u = o
  BY DEF HolderInv, Fenced, Current

(* A process that holds the lease at a resting point sees no dispatch in    *)
(* flight.                                                                  *)
LEMMA NoneInFlight ==
    ASSUME HolderInv, NEW o \in Owner, Fenced(o), pc[o] \in Resting
    PROVE  lease.owner = o /\ \A a \in Attention : intent[a].status # "prepared"
  BY FencedHolds DEF HolderAt, Busy, Resting

-----------------------------------------------------------------------------
(* Every action of a process is a ledger step *)

(* What the steps of the ledger start from. *)
LedgerState == Functions /\ AdapterInv /\ LeaseInv /\ LedgerInv /\ HolderInv

(* A turn with a row that has ended does not run again while Codex grows. *)
LEMMA GrowsEnds ==
    ASSUME AdapterInv, NEW o, CodexGrows(o)
    PROVE  EndedStayEnded
  BY DEF AdapterInv, CodexGrows, Continued, EndedStayEnded, Seen

(* Nor when Codex is at rest. *)
LEMMA QuietEnds == codex' = codex => EndedStayEnded
  BY DEF EndedStayEnded, Live

(* A transaction that leaves Codex alone is a step of the ledger. *)
LEMMA MovesStep ==
    ASSUME LedgerMoves, codex' = codex
    PROVE  LedgerStep
  BY QuietEnds DEF LedgerStep

(* Nothing prepared is for a thread that the ledger does not name. *)
LEMMA NoneElsewhere ==
    ASSUME LedgerInv, unresolved_dispatches(thread) = {} \/ thread = 0
    PROVE  \A a \in Attention : intent[a].status # "prepared"
  BY DEF LedgerInv, IntentsOK, unresolved_dispatches

(* Past the fence, a process works on the thread of the ledger. *)
LEMMA FencedThread ==
    ASSUME HolderInv, NEW o \in Owner, Fenced(o), pc[o] # "resume", mem[o].thread # 0
    PROVE  mem[o].thread = thread
  BY FencedHolds DEF HolderInv, HolderAt

(* The only process that passes the fence runs no turn of its thread. *)
LEMMA IdleNotRunning ==
    ASSUME HolderInv, NEW o \in Owner, Fenced(o), NEW t \in Turn, pc[o] # "resume", mem[o].thread # 0,
           IdleServer(o, mem[o].thread), codex[t].thread = mem[o].thread
    PROVE  NotRunning(t)
  BY FencedHolds, FencedThread DEF NotRunning, IdleServer

(* A step that leaves the tables alone is a step of the ledger. *)
LEMMA StoreQuietSteps ==
    ASSUME UNCHANGED storeVars, codex' = codex
    PROVE  LedgerStep /\ intent' = intent /\ thread' = thread
  BY QuietMoves, MovesStep DEF storeVars

(* Resuming a thread that Codex no longer has, which requeues its unfinished *)
(* turns is one step of the ledger and leaves the lease holder consistent    *)
(* with it.                                                                  *)
LEMMA ResumeMissingSteps ==
    ASSUME LedgerState, NEW o \in Owner, ResumeMissing(o)
    PROVE  LedgerStep /\ HolderInv'
<1>1. /\ At(o, "resume") /\ thread \in gone /\ Fenced(o) /\ KeepRest
      /\ \/ \E a \in unresolved_dispatches(thread) : retry_unobserved_dispatch(a) /\ UNCHANGED pc
         \/ /\ unresolved_dispatches(thread) = {} /\ requeue_missing_thread(thread)
  BY Zenon DEF ResumeMissing
<1>2. codex' = codex /\ lease' = lease
  BY <1>1, RestKept
<1>3. lease.owner = o
  BY <1>1, FencedHolds DEF LedgerState
<1>4. Acts(o, IF unresolved_dispatches(thread) = {} THEN "replay" ELSE pc[o], mem[o], work[o], inq[o])
  BY ResumeMissingActs DEF LedgerState
<1>5. CASE \E a \in unresolved_dispatches(thread) : retry_unobserved_dispatch(a) /\ UNCHANGED pc
  <2>1. PICK a \in Attention : a \in unresolved_dispatches(thread) /\ retry_unobserved_dispatch(a)
    BY <1>5 DEF unresolved_dispatches
  <2>2. LedgerMoves
    BY <2>1, RetryMoves DEF LedgerState, AdapterInv
  <2>3. Acts(o, pc[o], mem[o], work[o], inq[o])
    BY <1>4, <2>1
  <2>4. HolderAt(pc[o], mem[o], intent', thread')
    <3>1. pc[o] = "resume" /\ mem[o].thread = 0
      BY <1>1, ProcessOf DEF At, LedgerState, PointOK, Idle
    <3> QED
      BY <3>1 DEF HolderAt, Busy
  <2>5. HolderInv'
    BY <1>2, <1>3, <2>3, <2>4, HolderActs DEF LedgerState
  <2> QED
    BY <1>2, <2>2, <2>5, MovesStep
<1>6. CASE unresolved_dispatches(thread) = {} /\ requeue_missing_thread(thread)
  <2>1. \A a \in Attention : intent[a].status # "prepared"
    BY <1>6, NoneElsewhere DEF LedgerState
  <2>2. ASSUME NEW t \in incomplete_turn_ids(thread) PROVE NotRunning(t)
    <3>1. t \in Turn /\ codex[t].thread = thread
      BY DEF incomplete_turn_ids, LedgerState, AdapterInv, Seen
    <3>2. ~Live(t)
      BY <1>1, <3>1 DEF LedgerState, AdapterInv, CodexInv
    <3> QED
      BY <3>1, <3>2, NoOwnerAssumption DEF NotRunning, Live
  <2>3. LedgerMoves
    BY <1>6, <2>1, <2>2, MissingThreadMoves DEF LedgerState, AdapterInv
  <2>4. Acts(o, "replay", mem[o], work[o], inq[o])
    BY <1>4, <1>6
  <2>5. mem[o].thread = 0 /\ intent' = intent
    BY <1>1, <1>6, ProcessOf DEF At, LedgerState, PointOK, Idle, requeue_missing_thread
  <2>6. HolderAt("replay", mem[o], intent', thread')
    BY <2>1, <2>5 DEF HolderAt, Busy
  <2>7. HolderInv'
    BY <1>2, <1>3, <2>4, <2>6, HolderActs DEF LedgerState
  <2> QED
    BY <1>2, <2>3, <2>7, MovesStep
<1> QED
  BY <1>1, <1>5, <1>6

(* Resuming the stored thread and reading its history is one step of the *)
(* ledger and leaves the lease holder consistent with it.                *)
LEMMA ResumeThreadSteps ==
    ASSUME LedgerState, NEW o \in Owner, ResumeThread(o)
    PROVE  LedgerStep /\ HolderInv'
<1> DEFINE m == PutThreadView(mem[o], thread, authoritative_turns(thread))
<1>1. Fenced(o) /\ set_thread(thread) /\ KeepRest
  BY Zenon DEF ResumeThread
<1>2. codex' = codex /\ lease' = lease
  BY <1>1, RestKept
<1>3. LedgerMoves /\ thread' = thread
  BY <1>1, SetThreadMoves DEF set_thread
<1>4. Acts(o, "reconcile", m, work[o], inq[o])
  BY ResumeThreadActs DEF LedgerState
<1>5. m.thread = thread
  BY DEF PutThreadView, Memo
<1> HIDE DEF m
<1>6. HolderAt("reconcile", m, intent', thread')
  BY <1>3, <1>5 DEF HolderAt, Busy
<1>7. lease.owner = o
  BY <1>1, FencedHolds DEF LedgerState
<1>8. HolderInv'
  BY <1>2, <1>4, <1>6, <1>7, HolderActs DEF LedgerState
<1> QED
  BY <1>2, <1>3, <1>8, MovesStep

(* Binding or giving up one dispatch that a crash left in flight is one step *)
(* of the ledger and leaves the lease holder consistent with it.             *)
LEMMA ReconcileSteps ==
    ASSUME LedgerState, NEW o \in Owner, reconcile_dispatches(o)
    PROVE  LedgerStep /\ HolderInv'
<1>1. At(o, "reconcile") /\ Fenced(o) /\ KeepRest
  BY Zenon DEF reconcile_dispatches
<1>2. codex' = codex /\ lease' = lease /\ lease.owner = o /\ HolderAt(pc[o], mem[o], intent, thread)
  BY <1>1, RestKept, FencedHolds DEF LedgerState
<1>3. PICK a \in unresolved_dispatches(mem[o].thread) :
        LET found == TurnsWithClient(mem[o].view, a) IN
          IF found # {} THEN finalize_dispatch(a, mem[o].thread, First(found), epochOf[o], "reconciled")
          ELSE retry_unobserved_dispatch(a)
  BY Zenon DEF reconcile_dispatches
<1>4. a \in Attention /\ intent[a].status = "prepared"
  BY DEF unresolved_dispatches
<1>5. LedgerStep /\ thread' = thread
  <2>1. CASE TurnsWithClient(mem[o].view, a) # {}
    <3> DEFINE t == First(TurnsWithClient(mem[o].view, a))
    <3>1. finalize_dispatch(a, mem[o].thread, t, epochOf[o], "reconciled")
      BY <1>3, <2>1
    <3>2. TurnsWithClient(mem[o].view, a) \subseteq Turn
      BY DEF TurnsWithClient
    <3>3. t \in Turn
      BY <2>1, <3>2, FirstIn
    <3> HIDE DEF t
    <3>4. mem[o].thread \in Thread \cup {0} /\ epochOf[o] \in Nat /\ "reconciled" \in {"accepted", "reconciled"}
      BY ProcessOf DEF LedgerState, MemoryOK, LeaseInv, LeaseTypeOK
    <3>5. StoreInv
      BY DEF LedgerState, AdapterInv
    <3>6. Accepts(a, t)
      BY ONLY <1>2, <1>4, <3>1, <3>3, <3>4, <3>5, FinalizeAccepts
    <3> QED
      BY <1>4, <3>3, <3>6 DEF LedgerStep, Accepts
  <2>2. CASE TurnsWithClient(mem[o].view, a) = {}
    <3>1. retry_unobserved_dispatch(a)
      BY <1>3, <2>2
    <3>2. LedgerMoves
      BY <1>4, <3>1, RetryMoves DEF LedgerState, AdapterInv
    <3> QED
      BY <1>2, <3>1, <3>2, MovesStep DEF retry_unobserved_dispatch
  <2> QED
    BY <2>1, <2>2
<1>6. HolderAt(pc[o], mem[o], intent', thread')
  BY <1>1, <1>2, <1>5 DEF HolderAt, Busy, At
<1>7. Acts(o, pc[o], mem[o], work[o], inq[o])
  BY ReconcileActs DEF LedgerState
<1>8. HolderInv'
  BY <1>2, <1>6, <1>7, HolderActs DEF LedgerState
<1> QED
  BY <1>5, <1>8

(* Adopting or requeueing one accepted turn after a restart is one step of *)
(* the ledger and leaves the lease holder consistent with it.              *)
LEMMA AdoptSteps ==
    ASSUME LedgerState, NEW o \in Owner, reconcile_accepted_turns(o)
    PROVE  LedgerStep /\ HolderInv'
<1>1. At(o, "reconcile") /\ Fenced(o) /\ KeepRest
  BY Zenon DEF reconcile_accepted_turns
<1>2. codex' = codex /\ lease' = lease /\ lease.owner = o
  BY <1>1, RestKept, FencedHolds DEF LedgerState
<1>3. PICK t \in Unclassified(o) :
        \/ adopt_recovered_turn(t, epochOf[o])
        \/ IdleServer(o, mem[o].thread) /\ requeue_missing_turn(t)
  BY Zenon DEF reconcile_accepted_turns
<1>4. t \in Turn /\ codex[t].thread = mem[o].thread
  BY DEF Unclassified, incomplete_turn_ids, LedgerState, AdapterInv, Seen
<1>5. LedgerMoves
  <2>1. CASE adopt_recovered_turn(t, epochOf[o])
    <3>1. epochOf[o] \in Nat
      BY DEF LedgerState, LeaseInv, LeaseTypeOK
    <3> QED
      BY <1>4, <2>1, <3>1, AdoptMoves DEF LedgerState, AdapterInv
  <2>2. CASE IdleServer(o, mem[o].thread) /\ requeue_missing_turn(t)
    <3>0. pc[o] # "resume" /\ mem[o].thread # 0
      BY <1>1, ProcessOf DEF LedgerState, PointOK, At
    <3>1. NotRunning(t)
      BY <1>1, <1>4, <2>2, <3>0, IdleNotRunning DEF LedgerState
    <3> QED
      BY <1>4, <2>2, <3>1, MissingTurnMoves DEF LedgerState, AdapterInv
  <2> QED
    BY <1>3, <2>1, <2>2
<1>6. intent' = intent /\ thread' = thread
  BY <1>3 DEF adopt_recovered_turn, requeue_missing_turn
<1>7. PICK m : /\ m.thread = mem[o].thread /\ m.cur = mem[o].cur
               /\ Acts(o, pc[o], m, work[o], inq[o])
  <2>1. CASE Acts(o, pc[o], mem[o], work[o], inq[o])
    BY <2>1
  <2>2. CASE \E u \in Unclassified(o) :
                Acts(o, pc[o], PutActive(mem[o], IF mem[o].active = 0 THEN u ELSE mem[o].active), work[o], inq[o])
    <3>1. PICK u : Acts(o, pc[o], PutActive(mem[o], u), work[o], inq[o])
      BY <2>2
    <3>2. PutActive(mem[o], u).thread = mem[o].thread /\ PutActive(mem[o], u).cur = mem[o].cur
      BY DEF PutActive, Memo
    <3> QED
      BY <3>1, <3>2
  <2> QED
    BY <2>1, <2>2, AdoptActs DEF LedgerState
<1>8. HolderInv'
  BY <1>2, <1>6, <1>7, HolderRests DEF LedgerState
<1> QED
  BY <1>2, <1>5, <1>8, MovesStep

(* Replaying the recorded items of running and unfinished turns is one step *)
(* of the ledger and leaves the lease holder consistent with it.            *)
LEMMA ReplaySteps ==
    ASSUME LedgerState, NEW o \in Owner, ReplayHistory(o)
    PROVE  LedgerStep /\ HolderInv'
<1>1. At(o, "reconcile") /\ UNCHANGED storeVars /\ KeepRest /\ unresolved_dispatches(mem[o].thread) = {}
  BY Zenon DEF ReplayHistory
<1>2. codex' = codex /\ lease' = lease
  BY <1>1, RestKept
<1>3. LedgerStep /\ intent' = intent /\ thread' = thread
  BY <1>1, <1>2, StoreQuietSteps
<1>4. PICK v, w : Acts(o, "replay", PutViewActive(mem[o], NoView, v), w, inq[o])
  BY ReplayActs DEF LedgerState
<1> DEFINE m == PutViewActive(mem[o], NoView, v)
<1>5. m.thread = mem[o].thread
  BY DEF PutViewActive, Memo
<1>6. Acts(o, "replay", m, w, inq[o])
  BY <1>4
<1> HIDE DEF m
<1>7. ASSUME lease.owner = o PROVE HolderAt("replay", m, intent', thread')
  <2>1. mem[o].thread # 0
    BY <1>1, ProcessOf DEF At, LedgerState, PointOK
  <2>2. mem[o].thread = thread
    BY <1>1, <1>7, <2>1 DEF LedgerState, HolderInv, HolderAt, At
  <2>3. \A a \in Attention : intent[a].status # "prepared"
    BY <1>1, <2>2, NoneElsewhere DEF LedgerState
  <2> QED
    BY <1>3, <1>5, <2>2, <2>3 DEF HolderAt, Busy
<1>8. HolderInv'
  BY <1>2, <1>3, <1>6, <1>7, HolderActs DEF LedgerState
<1> QED
  BY <1>3, <1>8

(* Reaping the turns of earlier epochs at the end of recovery is one step of *)
(* the ledger and leaves the lease holder consistent with it.                *)
LEMMA ReapSteps ==
    ASSUME LedgerState, NEW o \in Owner, Reap(o)
    PROVE  LedgerStep /\ HolderInv'
<1>1. /\ pc[o] = "replay" \/ (pc[o] = "resume" /\ thread = 0)
      /\ Fenced(o) /\ reap_stale_turns_after_recovery(epochOf[o]) /\ KeepRest
  BY Zenon DEF Reap, At
<1>2. codex' = codex /\ lease' = lease /\ lease.owner = o /\ HolderAt(pc[o], mem[o], intent, thread)
  BY <1>1, RestKept, FencedHolds DEF LedgerState
<1>3. LedgerMoves
  BY <1>1, ReapMoves, SMTT(40) DEF LedgerState, AdapterInv, LeaseInv, LeaseTypeOK
<1>4. intent' = intent /\ thread' = thread
  BY <1>1 DEF reap_stale_turns_after_recovery
<1>5. Acts(o, "run", mem[o], work[o], inq[o])
  BY ReapActs DEF LedgerState
<1>6. HolderAt("run", mem[o], intent', thread')
  <2>1. CASE pc[o] = "replay"
    BY <1>2, <1>4, <2>1 DEF HolderAt, Busy
  <2>2. CASE pc[o] = "resume" /\ thread = 0
    <3>1. \A a \in Attention : intent[a].status # "prepared"
      BY <2>2, NoneElsewhere DEF LedgerState
    <3>2. mem[o].thread = 0
      BY <2>2, ProcessOf DEF LedgerState, PointOK, Idle
    <3> QED
      BY <1>4, <3>1, <3>2 DEF HolderAt, Busy
  <2> QED
    BY <1>1, <2>1, <2>2
<1>7. HolderInv'
  BY <1>2, <1>5, <1>6, HolderActs DEF LedgerState
<1> QED
  BY <1>2, <1>3, <1>7, MovesStep

-----------------------------------------------------------------------------
(* Codex messages *)

(* Handling one agent item of a notification is one step of the ledger and *)
(* leaves the lease holder consistent with it.                             *)
LEMMA ItemSteps ==
    ASSUME LedgerState, NEW o \in Owner, handle_agent_item(o)
    PROVE  LedgerStep /\ HolderInv'
<1>1. work[o] # <<>> /\ Head(work[o]).k = "item" /\ KeepRest /\ Fenced(o)
  BY Zenon DEF handle_agent_item, Handling
<1>2. codex' = codex /\ lease' = lease
  BY ONLY <1>1, RestKept
<1>3. Head(work[o]) \in Known(codex) /\ Head(work[o]).t \in Turn
  <2>1. AdapterInv
    BY Zenon DEF LedgerState
  <2> QED
    BY ONLY <1>1, <2>1, o \in Owner, HeadKnown, Zenon
<1>4. \A t \in Turn : codex[t].hist \in History
  BY Zenon DEF LedgerState, AdapterInv, CodexInv
<1>5. Reported(Head(work[o]).t)
  <2>1. HolderInv
    BY Zenon DEF LedgerState
  <2>2. lease.owner = o
    BY ONLY <1>1, <2>1, o \in Owner, FencedHolds
  <2> QED
    BY ONLY <1>1, <2>2, o \in Owner, Zenon DEF Reported
<1> DEFINE m == Head(work[o])
           phase == codex[m.t].hist[m.i].phase
           kind == KindOf(m.t, phase)
<1>6. UNCHANGED storeVars \/ create_output(m.t, m.i, FALSE, kind[1], accepted_for_turn(m.t), kind[2])
  BY Zenon DEF handle_agent_item
<1>7. m \in Known(codex) /\ m.t \in Turn /\ m.k = "item" /\ Reported(m.t)
  BY ONLY <1>1, <1>3, <1>5, Zenon
<1> HIDE DEF m
<1>8. phase \in Phase /\ m.i \in Item
  <2>1. m.i \in 1..Len(codex[m.t].hist) /\ codex[m.t].hist[m.i].from = 0
    BY ONLY <1>7, Zenon DEF Known
  <2>2. codex[m.t].hist \in History
    BY ONLY <1>4, <1>7, Zenon
  <2> QED
    BY ONLY <2>1, <2>2, BoundAssumption DEF History, Item
<1>9. kind[1] \in RelayKind /\ kind[2] \in {"pending", "held", "suppressed"}
  BY <1>8, KindTypes
<1> HIDE DEF phase, kind
<1>10. LedgerMoves
  <2>1. CASE UNCHANGED storeVars
    BY <2>1, QuietMoves
  <2>2. CASE create_output(m.t, m.i, FALSE, kind[1], accepted_for_turn(m.t), kind[2])
    <3>1. FALSE \in BOOLEAN /\ accepted_for_turn(m.t) \subseteq accepted_for_turn(m.t)
      OBVIOUS
    <3>2. StoreInv /\ LedgerInv
      BY DEF LedgerState, AdapterInv
    <3> QED
      BY ONLY <1>8, <1>9, <1>7, <2>2, <3>1, <3>2, OutputMoves
  <2> QED
    BY ONLY <1>6, <2>1, <2>2
<1>11. intent' = intent /\ thread' = thread
  BY ONLY <1>6 DEF storeVars, create_output, create_relay_item
<1>12. PICK w : Acts(o, pc[o], mem[o], w, inq[o])
  BY ItemActs DEF LedgerState
<1>13. HolderInv'
  BY <1>2, <1>11, <1>12, HolderRests DEF LedgerState
<1> QED
  BY <1>2, <1>10, <1>13, MovesStep

(* Handling the marker of a turn that will not reply is one step of the *)
(* ledger and leaves the lease holder consistent with it.               *)
LEMMA NoReplySteps ==
    ASSUME LedgerState, NEW o \in Owner, HandleNoReply(o)
    PROVE  LedgerStep /\ HolderInv'
<1>1. work[o] # <<>> /\ mark_turn_no_reply(Head(work[o]).t) /\ KeepRest
  BY Zenon DEF HandleNoReply, Handling
<1>2. codex' = codex /\ lease' = lease /\ Head(work[o]).t \in Turn
  BY <1>1, RestKept, HeadKnown DEF LedgerState
<1>3. LedgerMoves
  BY <1>1, <1>2, NoReplyMoves DEF LedgerState, AdapterInv
<1>4. intent' = intent /\ thread' = thread
  BY <1>1 DEF mark_turn_no_reply
<1>5. Acts(o, pc[o], mem[o], Tail(work[o]), inq[o])
  BY NoReplyActs DEF LedgerState
<1>6. HolderInv'
  BY <1>2, <1>4, <1>5, HolderRests DEF LedgerState
<1> QED
  BY <1>2, <1>3, <1>6, MovesStep

(* Promoting the held candidate of a turn to its final output is one step of *)
(* the ledger and leaves the lease holder consistent with it.                *)
LEMMA PromoteSteps ==
    ASSUME LedgerState, NEW o \in Owner, PromoteCandidate(o)
    PROVE  LedgerStep /\ HolderInv'
<1>1. KeepRest /\ Fenced(o) /\ work[o] # <<>>
  BY Zenon DEF PromoteCandidate, Handling
<1>2. codex' = codex /\ lease' = lease
  BY <1>1, RestKept
<1>3. PICK r \in Promotable(Head(work[o])) :
        create_output(r.op.turn, r.op.item, TRUE, "final", r.op.cov \cap accepted_for_turn(r.op.turn), "pending")
  BY Zenon DEF PromoteCandidate
<1>4. r \in relay /\ r \in Relay
  BY DEF Promotable, latest_unknown_item, RelaysOf, LedgerState, AdapterInv, StoreInv, StoreTypeOK
<1>5. r.op.turn \in Turn /\ r.op.item \in Item
  BY <1>4 DEF Relay, RelayOp
<1>10. r.op.turn = Head(work[o]).t
  BY DEF Promotable, latest_unknown_item, RelaysOf
<1>11. Reported(r.op.turn)
  BY <1>1, <1>10, FencedHolds DEF Reported, LedgerState
<1>6. LedgerMoves
  <2>1. /\ TRUE \in BOOLEAN /\ r.op.cov \cap accepted_for_turn(r.op.turn) \subseteq accepted_for_turn(r.op.turn)
        /\ "final" \in RelayKind /\ "pending" \in {"pending", "held", "suppressed"}
    BY DEF RelayKind
  <2>2. StoreInv /\ LedgerInv
    BY DEF LedgerState, AdapterInv
  <2> QED
    BY ONLY <1>3, <1>5, <1>11, <2>1, <2>2, OutputMoves
<1>7. intent' = intent /\ thread' = thread
  BY <1>3 DEF storeVars, create_output, create_relay_item
<1>8. Acts(o, pc[o], mem[o], work[o], inq[o])
  BY ReconcileActs DEF LedgerState
<1>9. HolderInv'
  BY <1>2, <1>7, <1>8, HolderRests DEF LedgerState
<1> QED
  BY <1>2, <1>6, <1>9, MovesStep

(* Handling a turn/completed notification is one step of the ledger and *)
(* leaves the lease holder consistent with it.                          *)
LEMMA DoneSteps ==
    ASSUME LedgerState, NEW o \in Owner, handle_turn_completed(o)
    PROVE  LedgerStep /\ HolderInv'
<1> DEFINE h == Head(work[o])
           v == IF mem[o].active = h.t THEN 0 ELSE mem[o].active
           m == PutActive(mem[o], v)
<1>1. work[o] # <<>> /\ h.k = "done" /\ mark_turn_completed(h.t, h.status) /\ KeepRest
  BY Zenon DEF handle_turn_completed, Handling
<1>2. codex' = codex /\ lease' = lease
  BY <1>1, RestKept
<1>3. h \in Known(codex) /\ h.t \in Turn
  BY <1>1, HeadKnown DEF LedgerState
<1>7. Acts(o, pc[o], m, Tail(work[o]), inq[o])
  BY DoneActs DEF LedgerState
<1> HIDE DEF h
<1>4. codex'[h.t].srv = NoOwner
  BY <1>1, <1>2, <1>3 DEF Known
<1>5. LedgerMoves
  <2>1. StoreInv /\ LedgerInv
    BY DEF LedgerState, AdapterInv
  <2>2. PICK t, s : t \in Turn /\ mark_turn_completed(t, s) /\ codex'[t].srv = NoOwner
    BY <1>1, <1>3, <1>4, Zenon
  <2>3. ~Live(t)'
    BY <2>2 DEF Live
  <2> QED
    BY ONLY <2>1, <2>2, <2>3, CompleteMoves
<1>6. intent' = intent /\ thread' = thread
  BY <1>1 DEF mark_turn_completed, CompleteTurn, storeVars
<1>8. m.thread = mem[o].thread /\ m.cur = mem[o].cur
  BY DEF PutActive, Memo
<1> HIDE DEF m
<1>9. HolderInv'
  BY <1>2, <1>6, <1>7, <1>8, HolderRests DEF LedgerState
<1> QED
  BY <1>2, <1>5, <1>9, MovesStep

(* Reading the queue of notifications is one step of the ledger and leaves *)
(* the lease holder consistent with it.                                    *)
LEMMA DrainSteps ==
    ASSUME LedgerState, NEW o \in Owner, drain_messages(o)
    PROVE  LedgerStep /\ HolderInv'
<1>1. UNCHANGED storeVars /\ codex' = codex /\ lease' = lease
  BY DEF drain_messages, codexVars, leaseVars
<1>2. LedgerStep /\ intent' = intent /\ thread' = thread
  BY <1>1, StoreQuietSteps
<1>3. Acts(o, pc[o], mem[o], inq[o], <<>>)
  BY DrainActs DEF LedgerState
<1> QED
  BY <1>1, <1>2, <1>3, HolderRests DEF LedgerState

(* Storing one event of the inbox is one step of the ledger and leaves the *)
(* lease holder consistent with it.                                        *)
LEMMA IngestSteps ==
    ASSUME LedgerState, NEW o \in Owner, Ingest(o)
    PROVE  LedgerStep /\ HolderInv'
<1>1. ingest_inbox /\ KeepRest
  BY Zenon DEF Ingest
<1>2. codex' = codex /\ lease' = lease
  BY <1>1, RestKept
<1>3. UNCHANGED <<turn, turnAtt, intent, thread, relay>>
  BY <1>1 DEF ingest_inbox
<1>4. LedgerStep
  <2>1. PICK a \in Attention :
                /\ ~att[a].stored /\ \A b \in Attention : b < a => att[b].stored
                /\ att'[a].stored /\ att'[a].accepted = att[a].accepted /\ att'[a].turn = att[a].turn
                /\ att'[a].done = att[a].done /\ att'[a].term = att[a].term /\ att'[a].final = att[a].final
                /\ \A b \in Attention : b # a => att'[b] = att[b]
    BY <1>1, IngestEffect DEF LedgerState, AdapterInv
  <2> QED
    BY <1>2, <1>3, <2>1 DEF LedgerStep, Ingests
<1>5. Acts(o, pc[o], mem[o], work[o], inq[o])
  BY ReconcileActs DEF LedgerState
<1> QED
  BY <1>2, <1>3, <1>4, <1>5, HolderRests DEF LedgerState

(* Reconciling the active turn when its notifications stop is one step of the *)
(* ledger and leaves the lease holder consistent with it.                     *)
LEMMA ActiveSteps ==
    ASSUME LedgerState, NEW o \in Owner, reconcile_active_turn(o)
    PROVE  LedgerStep /\ HolderInv'
<1>1. Fenced(o) /\ KeepRest /\ mem[o].active # 0 /\ pc[o] = "run"
  BY Zenon DEF reconcile_active_turn, At
<1>2. codex' = codex /\ lease' = lease
  BY <1>1, RestKept
<1>3. CASE UNCHANGED storeVars /\ \E w : Acts(o, pc[o], mem[o], w, inq[o])
  <2>1. PICK w : Acts(o, pc[o], mem[o], w, inq[o])
    BY <1>3
  <2>2. LedgerStep /\ intent' = intent /\ thread' = thread
    BY <1>2, <1>3, StoreQuietSteps
  <2> QED
    BY <1>2, <2>1, <2>2, HolderRests DEF LedgerState
<1>4. CASE /\ IdleServer(o, mem[o].thread) /\ requeue_missing_turn(mem[o].active)
           /\ Acts(o, pc[o], PutActive(mem[o], 0), work[o], inq[o])
  <2> DEFINE t == mem[o].active
             m == PutActive(mem[o], 0)
  <2>1. t \in Turn /\ codex[t].thread = mem[o].thread /\ mem[o].thread # 0 /\ pc[o] # "resume"
    BY <1>1, ProcessOf DEF LedgerState, MemoryOK, Seen
  <2>2. NotRunning(t)
    BY <1>1, <1>4, <2>1, IdleNotRunning DEF LedgerState
  <2>3. LedgerMoves
    BY <1>4, <2>1, <2>2, MissingTurnMoves DEF LedgerState, AdapterInv
  <2>4. intent' = intent /\ thread' = thread
    BY <1>4 DEF requeue_missing_turn
  <2>5. m.thread = mem[o].thread /\ m.cur = mem[o].cur
    BY DEF PutActive, Memo
  <2> HIDE DEF m
  <2>6. HolderInv'
    BY <1>2, <1>4, <2>4, <2>5, HolderRests DEF LedgerState, m
  <2> QED
    BY <1>2, <2>3, <2>6, MovesStep
<1> QED
  BY <1>3, <1>4, ActiveActs DEF LedgerState

(* Retiring a legacy context event is one step of the ledger and leaves the *)
(* lease holder consistent with it.                                         *)
LEMMA LegacySteps ==
    ASSUME LedgerState, NEW o \in Owner, DispatchLegacy(o)
    PROVE  LedgerStep /\ HolderInv'
<1>1. PICK a \in Attention : /\ Select(o, a, {"legacy"}) /\ Fenced(o) /\ retire_legacy_context(a) /\ KeepRest
  BY Zenon DEF DispatchLegacy
<1>2. codex' = codex /\ lease' = lease
  BY <1>1, RestKept
<1>3. pc[o] \in Resting
  BY <1>1 DEF Select, At, Resting, Busy, Point
<1>4. \A b \in Attention : intent[b].status # "prepared"
  BY <1>1, <1>3, NoneInFlight DEF LedgerState
<1>5. LedgerMoves
  BY <1>1, <1>4, RetireMoves DEF LedgerState, AdapterInv
<1>6. intent' = intent /\ thread' = thread
  BY <1>1 DEF retire_legacy_context
<1>7. PICK p \in {"relay", "run"} : Acts(o, p, mem[o], work[o], inq[o])
  BY LegacyActs DEF LedgerState
<1>8. p \in Resting
  BY DEF Resting, Busy, Point
<1>9. HolderInv'
  BY <1>2, <1>3, <1>6, <1>7, <1>8, HolderRests DEF LedgerState
<1> QED
  BY <1>2, <1>5, <1>9, MovesStep

(* Starting and storing a new thread is one step of the ledger and leaves the *)
(* lease holder consistent with it.                                           *)
LEMMA ThreadSteps ==
    ASSUME LedgerState, NEW o \in Owner, create_thread(o)
    PROVE  LedgerStep /\ HolderInv'
<1>1. At(o, "run") /\ Fenced(o) /\ KeepRest
  BY Zenon DEF create_thread, Select
<1>2. codex' = codex /\ lease' = lease
  BY <1>1, RestKept
<1>3. pc[o] \in Resting
  BY <1>1 DEF At, Resting, Busy, Point
<1>4. lease.owner = o /\ \A b \in Attention : intent[b].status # "prepared"
  BY <1>1, <1>3, NoneInFlight DEF LedgerState
<1>5. PICK th \in Thread : set_thread(th) /\ Acts(o, pc[o], PutThread(mem[o], th), work[o], inq[o])
  BY ThreadActs DEF LedgerState
<1>6. LedgerMoves
  BY <1>4, <1>5, SetThreadMoves
<1>7. intent' = intent /\ thread' = th
  BY <1>5 DEF set_thread
<1> DEFINE m == PutThread(mem[o], th)
<1>8. m.thread = th
  BY DEF PutThread, Memo
<1>9. Acts(o, pc[o], m, work[o], inq[o])
  BY <1>5
<1> HIDE DEF m
<1>10. HolderAt(pc[o], m, intent', thread')
  BY <1>3, <1>4, <1>7, <1>8 DEF HolderAt, Resting, Busy
<1>11. HolderInv'
  BY <1>2, <1>4, <1>9, <1>10, HolderActs DEF LedgerState
<1> QED
  BY <1>2, <1>6, <1>11, MovesStep

(* Recording the intent to dispatch an attention is one step of the ledger *)
(* and leaves the lease holder consistent with it.                         *)
LEMMA PrepareSteps ==
    ASSUME LedgerState, NEW o \in Owner, PrepareDispatch(o)
    PROVE  LedgerStep /\ HolderInv'
<1>1. At(o, "run") /\ Fenced(o) /\ KeepRest
  BY Zenon DEF PrepareDispatch, Select
<1>2. codex' = codex /\ lease' = lease
  BY <1>1, RestKept
<1>3. pc[o] \in Resting /\ pc[o] # "resume"
  BY <1>1 DEF At, Resting, Busy, Point
<1>4. lease.owner = o /\ \A b \in Attention : intent[b].status # "prepared"
  BY <1>1, <1>3, NoneInFlight DEF LedgerState
<1>5. PICK a \in Attention : /\ Select(o, a, {"task", "direct", "chat"}) /\ mem[o].thread # 0
                             /\ prepare_dispatch(a, mem[o].thread)
                             /\ Acts(o, "rpc", PutCur(mem[o], a), work[o], inq[o])
  BY PrepareActs DEF LedgerState
<1>6. mem[o].thread = thread /\ mem[o].thread \in Thread
  BY <1>1, <1>3, <1>5, FencedHolds, ProcessOf DEF LedgerState, HolderAt, MemoryOK
<1>7. /\ intent'[a].status = "prepared" /\ intent'[a].thread = mem[o].thread
      /\ \A b \in Attention : b # a => intent'[b] = intent[b]
      /\ UNCHANGED <<att, turn, turnAtt, thread, relay>>
  BY <1>5, <1>6, PrepareEffect DEF LedgerState, AdapterInv
<1>8. Pending(a) /\ a \in Dispatchable
  BY <1>5 DEF Select, next_pending, Dispatchable
<1>9. LedgerStep
  BY <1>2, <1>5, <1>6, <1>7, <1>8 DEF LedgerStep, Prepares
<1> DEFINE m == PutCur(mem[o], a)
<1>10. m.thread = mem[o].thread /\ m.cur = a
  BY DEF PutCur, Memo
<1>11. Acts(o, "rpc", m, work[o], inq[o])
  BY <1>5
<1> HIDE DEF m
<1>12. HolderAt("rpc", m, intent', thread')
  BY <1>4, <1>6, <1>7, <1>10 DEF HolderAt, Busy
<1>13. HolderInv'
  BY <1>2, <1>4, <1>11, <1>12, HolderActs DEF LedgerState
<1> QED
  BY <1>9, <1>13

(* An accepted turn/start is one step of the ledger and leaves the lease *)
(* holder consistent with it.                                            *)
LEMMA StartTurnSteps ==
    ASSUME LedgerState, NEW o \in Owner, StartTurn(o)
    PROVE  LedgerStep /\ HolderInv'
<1>1. UNCHANGED storeVars /\ lease' = lease /\ pc[o] = "rpc"
  BY DEF StartTurn, leaseVars, At
<1>2. EndedStayEnded
  BY StartTurnKeeps, GrowsEnds DEF LedgerState
<1>3. LedgerStep
  BY <1>1, <1>2, QuietMoves DEF LedgerStep
<1>4. PICK t \in Turn : Acts(o, "bind", PutActiveAcc(mem[o], t, t), work[o], inq[o])
  BY StartTurnActs DEF LedgerState
<1> DEFINE m == PutActiveAcc(mem[o], t, t)
<1>5. m.thread = mem[o].thread /\ m.cur = mem[o].cur
  BY DEF PutActiveAcc, Memo
<1>6. Acts(o, "bind", m, work[o], inq[o])
  BY <1>4
<1> HIDE DEF m
<1>7. "bind" \in Busy /\ pc[o] \in Busy /\ intent' = intent /\ thread' = thread
  BY <1>1 DEF Busy, storeVars
<1> QED
  BY <1>1, <1>3, <1>5, <1>6, <1>7, HolderRests DEF LedgerState

(* An accepted turn/steer is one step of the ledger and leaves the lease *)
(* holder consistent with it.                                            *)
LEMMA SteerSteps ==
    ASSUME LedgerState, NEW o \in Owner, SteerTurn(o)
    PROVE  LedgerStep /\ HolderInv'
<1>1. UNCHANGED storeVars /\ lease' = lease /\ pc[o] \in {"rpc", "retry"}
  BY DEF SteerTurn, leaseVars, At, AtSteer
<1>2. EndedStayEnded
  BY SteerKeeps, GrowsEnds DEF LedgerState
<1>3. LedgerStep
  BY <1>1, <1>2, QuietMoves DEF LedgerStep
<1> DEFINE m == PutAcc(mem[o], mem[o].active)
<1>4. Acts(o, "bind", m, inq[o], <<>>)
  BY SteerActs DEF LedgerState
<1>5. m.thread = mem[o].thread /\ m.cur = mem[o].cur
  BY DEF PutAcc, Memo
<1> HIDE DEF m
<1>7. "bind" \in Busy /\ pc[o] \in Busy /\ intent' = intent /\ thread' = thread
  BY <1>1 DEF Busy, storeVars
<1> QED
  BY <1>1, <1>3, <1>4, <1>5, <1>7, HolderRests DEF LedgerState

(* A steer refused because another turn is active is one step of the ledger *)
(* and leaves the lease holder consistent with it.                          *)
LEMMA MismatchSteps ==
    ASSUME LedgerState, NEW o \in Owner, SteerMismatch(o)
    PROVE  LedgerStep /\ HolderInv'
<1>1. UNCHANGED storeVars /\ KeepRest /\ pc[o] = "rpc"
  BY Zenon DEF SteerMismatch, At
<1>2. codex' = codex /\ lease' = lease
  BY <1>1, RestKept
<1>3. LedgerStep /\ intent' = intent /\ thread' = thread
  BY <1>1, <1>2, StoreQuietSteps
<1>4. PICK t \in Turn : Acts(o, "retry", PutActive(mem[o], t), work[o], inq[o])
  BY MismatchActs DEF LedgerState
<1> DEFINE m == PutActive(mem[o], t)
<1>5. m.thread = mem[o].thread /\ m.cur = mem[o].cur
  BY DEF PutActive, Memo
<1>6. Acts(o, "retry", m, work[o], inq[o])
  BY <1>4
<1> HIDE DEF m
<1>7. "retry" \in Busy /\ pc[o] \in Busy
  BY <1>1 DEF Busy
<1> QED
  BY <1>2, <1>3, <1>5, <1>6, <1>7, HolderRests DEF LedgerState

(* Binding an accepted dispatch to its turn is one step of the ledger and *)
(* leaves the lease holder consistent with it.                            *)
LEMMA BindSteps ==
    ASSUME LedgerState, NEW o \in Owner, BindDispatch(o)
    PROVE  LedgerStep /\ HolderInv'
<1> DEFINE a == mem[o].cur
           t == mem[o].acc
<1>1. pc[o] = "bind" /\ Fenced(o) /\ KeepRest
      /\ finalize_dispatch(a, mem[o].thread, t, epochOf[o], "accepted")
  BY Zenon DEF BindDispatch, At
<1>2. codex' = codex /\ lease' = lease /\ lease.owner = o /\ HolderAt(pc[o], mem[o], intent, thread)
  BY <1>1, RestKept, FencedHolds DEF LedgerState
<1>3. a \in Attention /\ t \in Turn /\ mem[o].thread \in Thread \cup {0}
  BY <1>1, ProcessOf DEF LedgerState, PointOK, MemoryOK, Busy
<1>4. intent[a].status = "prepared" /\ \A b \in Attention : intent[b].status = "prepared" => b = a
  BY <1>1, <1>2 DEF HolderAt, Busy
<1>5. epochOf[o] \in Nat /\ "accepted" \in {"accepted", "reconciled"} /\ StoreInv
  BY DEF LedgerState, LeaseInv, LeaseTypeOK, AdapterInv
<1>8. PICK p \in {"relay", "run"} : Acts(o, p, PutCurAcc(mem[o], 0, 0), work[o], inq[o])
  BY BindActs DEF LedgerState
<1>6. PICK b \in Attention, u \in Turn : b = a /\ Accepts(b, u)
  <2>1. PICK b \in Attention, u \in Turn :
          /\ b = a /\ finalize_dispatch(b, mem[o].thread, u, epochOf[o], "accepted")
          /\ intent[b].status = "prepared"
    BY <1>1, <1>3, <1>4, Zenon
  <2> QED
    BY ONLY <1>2, <1>3, <1>5, <2>1, FinalizeAccepts
<1>7. LedgerStep
  BY <1>6 DEF LedgerStep
<1> DEFINE m == PutCurAcc(mem[o], 0, 0)
<1>9. m.thread = mem[o].thread
  BY DEF PutCurAcc, Memo
<1>10. Acts(o, p, m, work[o], inq[o])
  BY <1>8
<1> HIDE DEF m
<1>11. \A d \in Attention : intent'[d].status # "prepared"
  BY <1>4, <1>6 DEF Accepts
<1>12. thread' = thread
  BY <1>6 DEF Accepts
<1>13. HolderAt(p, m, intent', thread')
  BY <1>1, <1>2, <1>9, <1>11, <1>12 DEF HolderAt, Busy
<1>14. HolderInv'
  BY <1>2, <1>10, <1>13, HolderActs DEF LedgerState
<1> QED
  BY <1>7, <1>14

(* A refused call is one step of the ledger and leaves the lease holder *)
(* consistent with it.                                                  *)
LEMMA RejectSteps ==
    ASSUME LedgerState, NEW o \in Owner, RpcRejected(o)
    PROVE  LedgerStep /\ HolderInv'
<1>1. UNCHANGED storeVars /\ KeepRest /\ pc[o] \in {"rpc", "retry"}
  BY DEF RpcRejected, At
<1>2. codex' = codex /\ lease' = lease
  BY <1>1, RestKept
<1>3. LedgerStep /\ intent' = intent /\ thread' = thread
  BY <1>1, <1>2, StoreQuietSteps
<1> DEFINE m == PutNow(mem[o], FALSE)
<1>4. Acts(o, "rejected", m, work[o], inq[o])
  BY RejectActs DEF LedgerState
<1>5. m.thread = mem[o].thread /\ m.cur = mem[o].cur
  BY DEF PutNow, Memo
<1> HIDE DEF m
<1>7. "rejected" \in Busy /\ pc[o] \in Busy
  BY <1>1 DEF Busy
<1> QED
  BY <1>2, <1>3, <1>4, <1>5, <1>7, HolderRests DEF LedgerState

(* A steer refused because no turn is active is one step of the ledger and *)
(* leaves the lease holder consistent with it.                             *)
LEMMA InactiveSteps ==
    ASSUME LedgerState, NEW o \in Owner, SteerInactive(o)
    PROVE  LedgerStep /\ HolderInv'
<1>1. Fenced(o) /\ KeepRest /\ pc[o] \in {"rpc", "retry"} /\ mem[o].active # 0 /\ IdleServer(o, mem[o].thread)
  BY DEF SteerInactive, AtSteer, At
<1>2. codex' = codex /\ lease' = lease
  BY <1>1, RestKept
<1>3. "rejected" \in Busy /\ pc[o] \in Busy
  BY <1>1 DEF Busy
<1>4. CASE UNCHANGED storeVars /\ \E w : Acts(o, "rejected", PutNow(mem[o], TRUE), w, inq[o])
  <2> DEFINE m == PutNow(mem[o], TRUE)
  <2>1. PICK w : Acts(o, "rejected", m, w, inq[o])
    BY <1>4
  <2>2. LedgerStep /\ intent' = intent /\ thread' = thread
    BY <1>2, <1>4, StoreQuietSteps
  <2>3. m.thread = mem[o].thread /\ m.cur = mem[o].cur
    BY DEF PutNow, Memo
  <2> HIDE DEF m
  <2> QED
    BY <1>2, <1>3, <2>1, <2>2, <2>3, HolderRests DEF LedgerState
<1>5. CASE /\ requeue_missing_turn(mem[o].active)
           /\ \E n, v : Acts(o, "rejected", PutNowActive(mem[o], n, v), work[o], inq[o])
  <2> DEFINE t == mem[o].active
  <2>1. t \in Turn /\ codex[t].thread = mem[o].thread /\ mem[o].thread # 0 /\ pc[o] # "resume"
    BY <1>1, ProcessOf DEF LedgerState, MemoryOK, Seen
  <2>2. NotRunning(t)
    BY <1>1, <2>1, IdleNotRunning DEF LedgerState
  <2>3. LedgerMoves
    BY <1>5, <2>1, <2>2, MissingTurnMoves DEF LedgerState, AdapterInv
  <2>4. intent' = intent /\ thread' = thread
    BY <1>5 DEF requeue_missing_turn
  <2>5. PICK n, v : Acts(o, "rejected", PutNowActive(mem[o], n, v), work[o], inq[o])
    BY <1>5
  <2> DEFINE m == PutNowActive(mem[o], n, v)
  <2>6. m.thread = mem[o].thread /\ m.cur = mem[o].cur
    BY DEF PutNowActive, Memo
  <2>7. Acts(o, "rejected", m, work[o], inq[o])
    BY <2>5
  <2> HIDE DEF m
  <2>8. HolderInv'
    BY <1>2, <1>3, <2>4, <2>6, <2>7, HolderRests DEF LedgerState
  <2> QED
    BY <1>2, <2>3, <2>8, MovesStep
<1>6. Functions
  BY DEF LedgerState
<1> QED
  BY ONLY <1>4, <1>5, <1>6, o \in Owner, SteerInactive(o), InactiveActs, Zenon

(* Deferring an attention whose call was refused is one step of the ledger *)
(* and leaves the lease holder consistent with it.                         *)
LEMMA DeferSteps ==
    ASSUME LedgerState, NEW o \in Owner, DeferRejected(o)
    PROVE  LedgerStep /\ HolderInv'
<1> DEFINE a == mem[o].cur
<1>1. pc[o] = "rejected" /\ Fenced(o) /\ KeepRest /\ retry_and_defer(a, mem[o].now)
  BY Zenon DEF DeferRejected, At
<1>2. codex' = codex /\ lease' = lease /\ lease.owner = o /\ HolderAt(pc[o], mem[o], intent, thread)
  BY <1>1, RestKept, FencedHolds DEF LedgerState
<1>3. a \in Attention /\ \A b \in Attention : intent[b].status = "prepared" => b = a
  BY <1>1, <1>2, ProcessOf DEF LedgerState, PointOK, Busy, HolderAt
<1>4. LedgerMoves
  BY <1>1, <1>3, RetryDeferMoves DEF LedgerState, AdapterInv
<1>5. /\ intent'[a].status = "failed" /\ (\A b \in Attention : b # a => intent'[b] = intent[b])
      /\ thread' = thread
  BY <1>1, <1>3, RetryDeferEffect DEF LedgerState, AdapterInv
<1>6. PICK p \in {"relay", "run"} : Acts(o, p, PutCurNow(mem[o], 0, FALSE), work[o], inq[o])
  BY DeferActs DEF LedgerState
<1> DEFINE m == PutCurNow(mem[o], 0, FALSE)
<1>7. m.thread = mem[o].thread
  BY DEF PutCurNow, Memo
<1>8. Acts(o, p, m, work[o], inq[o])
  BY <1>6
<1> HIDE DEF m
<1>9. \A d \in Attention : intent'[d].status # "prepared"
  BY <1>3, <1>5
<1>10. HolderAt(p, m, intent', thread')
  BY <1>1, <1>2, <1>5, <1>7, <1>9 DEF HolderAt, Busy
<1>11. HolderInv'
  BY <1>2, <1>8, <1>10, HolderActs DEF LedgerState
<1> QED
  BY <1>2, <1>4, <1>11, MovesStep

(* Asking Codex to interrupt the active turn for a /stop is one step of the *)
(* ledger and leaves the lease holder consistent with it.                   *)
LEMMA StopInterruptSteps ==
    ASSUME LedgerState, NEW o \in Owner, StopInterrupt(o)
    PROVE  LedgerStep /\ HolderInv'
<1>1. lease' = lease /\ gone' = gone
  BY DEF StopInterrupt, leaseVars
<1>2. PICK c \in Attention :
        /\ Select(o, c, {"stop"}) /\ mem[o].active # 0
        /\ \/ /\ codex' = [codex EXCEPT ![mem[o].active].stop = TRUE] /\ UNCHANGED storeVars
              /\ Acts(o, "stopTurn", PutCur(mem[o], c), work[o], inq[o])
           \/ /\ Fenced(o) /\ defer_attention(c) /\ codex' = codex
              /\ \E p \in {"relay", "run"} : Acts(o, p, mem[o], work[o], inq[o])
  BY StopInterruptActs DEF LedgerState
<1>3. pc[o] \in Resting /\ "stopTurn" \in Resting /\ "relay" \in Resting /\ "run" \in Resting
  BY <1>2 DEF Select, At, Resting, Busy, Point
<1>4. CASE /\ codex' = [codex EXCEPT ![mem[o].active].stop = TRUE] /\ UNCHANGED storeVars
           /\ Acts(o, "stopTurn", PutCur(mem[o], c), work[o], inq[o])
  <2> DEFINE m == PutCur(mem[o], c)
  <2>1. m.thread = mem[o].thread
    BY DEF PutCur, Memo
  <2>2. Acts(o, "stopTurn", m, work[o], inq[o])
    BY <1>4
  <2> HIDE DEF m
  <2>3. mem[o].active \in Turn
    BY <1>2, ProcessOf DEF LedgerState, MemoryOK
  <2>4. PICK t \in Turn : codex' = [codex EXCEPT ![t].stop = TRUE]
    BY ONLY <1>4, <2>3, Zenon
  <2>5. CodexGrows(o)
    BY <1>1, <2>4, CodexStop DEF LedgerState, AdapterInv
  <2>6. LedgerStep
    BY <1>4, <2>5, GrowsEnds, QuietMoves DEF LedgerStep, LedgerState
  <2>7. intent' = intent /\ thread' = thread
    BY <1>4 DEF storeVars
  <2>8. HolderInv'
    BY <1>1, <1>3, <2>1, <2>2, <2>7, HolderRests DEF LedgerState
  <2> QED
    BY <2>6, <2>8
<1>5. CASE /\ Fenced(o) /\ defer_attention(c) /\ codex' = codex
           /\ \E p \in {"relay", "run"} : Acts(o, p, mem[o], work[o], inq[o])
  <2>1. PICK p \in {"relay", "run"} : Acts(o, p, mem[o], work[o], inq[o])
    BY <1>5
  <2>2. \A b \in Attention : intent[b].status # "prepared"
    BY <1>3, <1>5, NoneInFlight DEF LedgerState
  <2>3. LedgerMoves
    BY <1>5, <2>2, DeferMoves DEF LedgerState, AdapterInv
  <2>4. intent' = intent /\ thread' = thread
    BY <1>5 DEF defer_attention
  <2>5. HolderInv'
    BY <1>1, <1>3, <2>1, <2>4, HolderRests DEF LedgerState
  <2> QED
    BY <1>5, <2>3, <2>5, MovesStep
<1> QED
  BY <1>2, <1>4, <1>5

(* Recording the interrupted turn of a /stop is one step of the ledger and *)
(* leaves the lease holder consistent with it.                             *)
LEMMA StopTurnSteps ==
    ASSUME LedgerState, NEW o \in Owner, StopTurn(o)
    PROVE  LedgerStep /\ HolderInv'
<1> DEFINE t == mem[o].active
           m == PutActive(mem[o], 0)
<1>1. pc[o] = "stopTurn" /\ interrupt_turn_for_control(t) /\ KeepRest /\ Fenced(o)
  BY Zenon DEF StopTurn, At
<1>2. codex' = codex /\ lease' = lease
  BY <1>1, RestKept
<1>3. t \in Turn /\ codex[t].stop /\ codex[t].thread = mem[o].thread /\ mem[o].thread # 0
  BY <1>1, ProcessOf DEF LedgerState, PointOK, MemoryOK, Seen
<1>9. codex[t].thread = thread
  BY <1>1, <1>3, FencedThread DEF LedgerState
<1>4. LedgerMoves
  BY <1>1, <1>3, <1>9, InterruptMoves DEF LedgerState, AdapterInv
<1>5. intent' = intent /\ thread' = thread
  BY <1>1 DEF interrupt_turn_for_control, InterruptTurn, storeVars
<1>6. Acts(o, "stopPending", m, work[o], inq[o])
  BY StopTurnActs DEF LedgerState
<1>7. m.thread = mem[o].thread /\ pc[o] \in Resting /\ "stopPending" \in Resting
  BY <1>1 DEF PutActive, Memo, Resting, Busy, Point
<1> HIDE DEF m
<1>8. HolderInv'
  BY <1>2, <1>5, <1>6, <1>7, HolderRests DEF LedgerState
<1> QED
  BY <1>2, <1>4, <1>8, MovesStep

(* Cancelling the pending attentions before a /stop is one step of the ledger *)
(* and leaves the lease holder consistent with it.                            *)
LEMMA StopPendingSteps ==
    ASSUME LedgerState, NEW o \in Owner, StopPending(o)
    PROVE  LedgerStep /\ HolderInv'
<1>1. PICK c \in Attention : /\ pc[o] \in {"stopPending", "run"} /\ Fenced(o)
                             /\ cancel_pending_before_control(c) /\ KeepRest
                             /\ Class[c] = "stop"
  <2>1. pc[o] = "stopPending" => Class[mem[o].cur] = "stop"
    BY ProcessOf DEF LedgerState, PointOK
  <2> QED
    BY <2>1 DEF StopPending, Select, At
<1>2. codex' = codex /\ lease' = lease
  BY <1>1, RestKept
<1>3. pc[o] \in Resting
  BY <1>1 DEF Resting, Busy, Point
<1>4. \A b \in Attention : intent[b].status # "prepared"
  BY <1>1, <1>3, NoneInFlight DEF LedgerState
<1>5. LedgerMoves
  BY <1>1, <1>4, CancelMoves DEF LedgerState, AdapterInv
<1>6. intent' = intent /\ thread' = thread
  BY <1>1 DEF cancel_pending_before_control
<1>7. PICK p \in {"relay", "run"} : Acts(o, p, PutCur(mem[o], 0), work[o], inq[o])
  BY StopPendingActs DEF LedgerState
<1> DEFINE m == PutCur(mem[o], 0)
<1>8. m.thread = mem[o].thread /\ p \in Resting
  BY DEF PutCur, Memo, Resting, Busy, Point
<1>9. Acts(o, p, m, work[o], inq[o])
  BY <1>7
<1> HIDE DEF m
<1>10. HolderInv'
  BY <1>2, <1>3, <1>6, <1>8, <1>9, HolderRests DEF LedgerState
<1> QED
  BY <1>2, <1>5, <1>10, MovesStep

(* Closing the room is one step of the ledger and leaves the lease holder *)
(* consistent with it.                                                    *)
LEMMA CloseSteps ==
    ASSUME LedgerState, NEW o \in Owner, CloseRoom(o)
    PROVE  LedgerStep /\ HolderInv'
<1>1. PICK c \in Attention : Select(o, c, {"closed"}) /\ Fenced(o) /\ close_room_for_control(c) /\ lease' = lease
  BY Zenon DEF CloseRoom, leaseVars
<1>2. pc[o] \in Resting /\ Pending(c)
  BY <1>1 DEF Select, At, Resting, Busy, Point, next_pending
<1>3. lease.owner = o /\ \A b \in Attention : intent[b].status # "prepared"
  BY <1>1, <1>2, NoneInFlight DEF LedgerState
<1>4. LedgerMoves
  BY <1>1, <1>2, <1>3, CloseMoves DEF LedgerState, AdapterInv
<1>5. intent' = intent /\ thread' = 0
  BY <1>1, CloseEffect DEF LedgerState, AdapterInv
<1>6. CodexGrows(o)
  BY CloseKeeps DEF LedgerState
<1>7. LedgerStep
  BY <1>4, <1>6, GrowsEnds DEF LedgerStep, LedgerState
<1>8. PICK p \in {"relay", "run"} : Acts(o, p, PutActiveThread(mem[o], 0, 0), work[o], inq[o])
  BY CloseActs DEF LedgerState
<1> DEFINE m == PutActiveThread(mem[o], 0, 0)
<1>9. m.thread = 0
  BY DEF PutActiveThread, Memo
<1>10. Acts(o, p, m, work[o], inq[o])
  BY <1>8
<1> HIDE DEF m
<1>11. HolderAt(p, m, intent', thread')
  BY <1>3, <1>5, <1>9 DEF HolderAt, Busy
<1>12. HolderInv'
  BY <1>1, <1>3, <1>10, <1>11, HolderActs DEF LedgerState
<1> QED
  BY <1>7, <1>12

(* Taking one relay row to post, under the lease is one step of the ledger *)
(* and leaves the lease holder consistent with it.                         *)
LEMMA TakeSteps ==
    ASSUME LedgerState, NEW o \in Owner, AssertLease(o)
    PROVE  LedgerStep /\ HolderInv'
<1>1. PICK rows : pc[o] \in {"relay", "batch", "run"} /\ TakeRow(o, rows)
  BY DEF AssertLease, At
<1>2. UNCHANGED storeVars /\ KeepRest
  BY <1>1 DEF TakeRow
<1>3. codex' = codex /\ lease' = lease
  BY <1>2, RestKept
<1>4. LedgerStep /\ intent' = intent /\ thread' = thread
  BY <1>2, <1>3, StoreQuietSteps
<1>5. PICK r \in rows : Acts(o, "post", PutSendingBatch(mem[o], r, rows \ {r}), work[o], inq[o])
  BY <1>1, TakeRowActs DEF LedgerState
<1> DEFINE m == PutSendingBatch(mem[o], r, rows \ {r})
<1>6. m.thread = mem[o].thread
  BY DEF PutSendingBatch, Memo
<1>7. Acts(o, "post", m, work[o], inq[o])
  BY <1>5
<1> HIDE DEF m
<1>8. pc[o] \in Resting /\ "post" \in Resting
  BY <1>1 DEF Resting, Busy, Point
<1> QED
  BY <1>3, <1>4, <1>6, <1>7, <1>8, HolderRests DEF LedgerState

(* Going on to the next row keeps the holder consistent. *)
LEMMA NextRowHolds ==
    ASSUME LedgerState, NEW o \in Owner, NextRow(o), pc[o] \in {"post", "mark"}, work' = work, inq' = inq,
           lease' = lease, intent' = intent, thread' = thread
    PROVE  HolderInv'
<1>1. PICK p \in {"run", "batch"} : Acts(o, p, PutSending(mem[o], NoRelay), work[o], inq[o])
  BY NextRowActs DEF LedgerState
<1> DEFINE m == PutSending(mem[o], NoRelay)
<1>2. m.thread = mem[o].thread
  BY DEF PutSending, Memo
<1>3. Acts(o, p, m, work[o], inq[o])
  BY <1>1
<1> HIDE DEF m
<1>4. pc[o] \in Resting /\ p \in Resting
  BY DEF Resting, Busy, Point
<1> QED
  BY <1>2, <1>3, <1>4, HolderRests DEF LedgerState

(* Posting a relay row, accepted or failed is one step of the ledger and *)
(* leaves the lease holder consistent with it.                           *)
LEMMA PostSteps ==
    ASSUME LedgerState, NEW o \in Owner, PostAccepted(o) \/ PostFailed(o)
    PROVE  LedgerStep /\ HolderInv'
<1>1. UNCHANGED storeVars /\ codex' = codex /\ lease' = lease /\ pc[o] = "post"
  BY DEF PostAccepted, PostFailed, codexVars, leaseVars, At
<1>2. LedgerStep /\ intent' = intent /\ thread' = thread
  BY <1>1, StoreQuietSteps
<1>3. CASE PostAccepted(o)
  <2>1. Acts(o, "mark", mem[o], work[o], inq[o])
    BY <1>3, PostActs DEF LedgerState
  <2>2. pc[o] \in Resting /\ "mark" \in Resting
    BY <1>1 DEF Resting, Busy, Point
  <2> QED
    BY <1>1, <1>2, <2>1, <2>2, HolderRests DEF LedgerState
<1>4. CASE PostFailed(o)
  <2>1. NextRow(o) /\ work' = work /\ inq' = inq
    BY <1>4 DEF PostFailed
  <2> QED
    BY <1>1, <1>2, <2>1, NextRowHolds
<1> QED
  BY <1>3, <1>4

(* Marking a posted relay accepted is one step of the ledger and leaves the *)
(* lease holder consistent with it.                                         *)
LEMMA MarkSteps ==
    ASSUME LedgerState, NEW o \in Owner, MarkRelay(o)
    PROVE  LedgerStep /\ HolderInv'
<1>1. pc[o] = "mark" /\ mark_relay_accepted(mem[o].sending) /\ NextRow(o) /\ work' = work /\ KeepRest
  BY Zenon DEF MarkRelay, RecordSent, At
<1>2. codex' = codex /\ lease' = lease /\ inq' = inq
  BY <1>1, RestKept
<1>3. mem[o].sending \in Relay
  BY <1>1, ProcessOf DEF LedgerState, PointOK
<1>4. LedgerMoves
  BY <1>1, <1>3, MarkMoves DEF LedgerState, AdapterInv
<1>5. intent' = intent /\ thread' = thread
  BY <1>1 DEF mark_relay_accepted
<1>6. HolderInv'
  BY <1>1, <1>2, <1>5, NextRowHolds
<1> QED
  BY <1>2, <1>4, <1>6, MovesStep

(* Claiming the lease and starting the server is one step of the ledger and *)
(* leaves the lease holder consistent with it.                              *)
LEMMA StartSteps ==
    ASSUME LedgerState, NEW o \in Owner, Start(o)
    PROVE  LedgerStep /\ HolderInv'
<1>1. UNCHANGED storeVars /\ codex' = codex /\ lease'.owner = o
  BY DEF Start, codexVars, claim_lease
<1>2. LedgerStep /\ intent' = intent /\ thread' = thread
  BY <1>1, StoreQuietSteps
<1>3. Acts(o, "resume", mem[o], work[o], inq[o])
  BY StartActs DEF LedgerState
<1>4. HolderAt(pc'[o], mem'[o], intent', thread')
  BY <1>3 DEF Acts, Wrote, HolderAt, Busy
<1>5. HolderInv'
  BY <1>1, <1>4 DEF HolderInv
<1> QED
  BY <1>2, <1>5

(* The exit or crash of a process is one step of the ledger and leaves the *)
(* lease holder consistent with it.                                        *)
LEMMA LeaveSteps ==
    ASSUME LedgerState, NEW o \in Owner, Leave(o), Die(o)
    PROVE  LedgerStep /\ HolderInv'
<1>1. UNCHANGED storeVars /\ lease' = lease
  BY DEF Leave, Die
<1>2. EndedStayEnded
  BY LeaveKeeps, GrowsEnds DEF LedgerState
<1>3. LedgerStep /\ intent' = intent /\ thread' = thread
  BY <1>1, <1>2, QuietMoves DEF LedgerStep, storeVars
<1>4. Acts(o, "dead", NoMem, <<>>, <<>>)
  BY LeaveActs DEF LedgerState
<1>5. HolderAt("dead", NoMem, intent', thread')
  BY DEF HolderAt, NoMem, Busy
<1> QED
  BY <1>1, <1>3, <1>4, <1>5, HolderActs DEF LedgerState

(* A step of Codex is a step of the ledger at rest. *)
LEMMA EnvironmentSteps ==
    ASSUME LedgerState, NEW o, CodexGrows(o), KeepAdapter
    PROVE  LedgerStep /\ HolderInv'
<1>1. UNCHANGED storeVars /\ pc' = pc /\ mem' = mem /\ lease' = lease
  BY DEF KeepAdapter, leaseVars
<1>2. LedgerStep
  BY <1>1, GrowsEnds, QuietMoves DEF LedgerStep, LedgerState
<1>3. HolderInv'
  BY <1>1, HolderKept DEF storeVars, LedgerState
<1> QED
  BY <1>2, <1>3

(* Every step of Codex is a step of the ledger at rest. *)
LEMMA CodexSteps ==
    ASSUME LedgerState, CodexStep
    PROVE  LedgerStep /\ HolderInv'
<1>1. KeepAdapter
  BY Zenon DEF CodexStep, CodexItem, CodexPersist, CodexFinish, CodexDrop, CodexRollOver, LoseThread
<1>2. \E o : CodexGrows(o)
  BY CodexItemKeeps, CodexFinishKeeps, CodexQuietKeeps, RollOverKeeps, LoseThreadKeeps DEF CodexStep, LedgerState
<1> QED
  BY <1>1, <1>2, EnvironmentSteps

(* A stall, an elapsed backoff and a stuttering step are steps of the ledger. *)
LEMMA TimeSteps ==
    ASSUME LedgerState, Stall \/ (\E a \in Attention : Elapsed(a)) \/ UNCHANGED vars
    PROVE  LedgerStep /\ HolderInv'
<1>1. pc' = pc /\ mem' = mem /\ codex' = codex
  BY DEF Stall, Elapsed, vars, adapterVars, codexVars
<1>2. lease'.owner = lease.owner
  BY DEF Stall, Elapsed, vars, leaseVars, Tick, LedgerState, LeaseInv, LeaseTypeOK
<1>3. UNCHANGED storeVars \/ \E a \in Attention : BackoffElapsed(a)
  BY DEF Stall, Elapsed, vars
<1>4. LedgerMoves
  BY <1>3, QuietMoves, ElapsedMoves DEF LedgerState, AdapterInv
<1>5. intent' = intent /\ thread' = thread
  BY <1>3 DEF storeVars, BackoffElapsed
<1> QED
  BY <1>1, <1>2, <1>4, <1>5, MovesStep, HolderKept DEF LedgerState

(* Every step of an adapter process is a step of the ledger. *)
LEMMA AdapterSteps ==
    ASSUME LedgerState, NEW o \in Owner, AdapterStep(o)
    PROVE  LedgerStep /\ HolderInv'
<1>1. CASE Recovery(o)
  BY <1>1, StartSteps, ResumeMissingSteps, ResumeThreadSteps, ReconcileSteps, AdoptSteps, ReplaySteps,
     ReapSteps DEF Recovery
<1>2. CASE Messages(o)
  BY <1>2, ItemSteps, NoReplySteps, PromoteSteps, DoneSteps, DrainSteps DEF Messages
<1>3. CASE Dispatch(o)
  BY <1>3, LegacySteps, ThreadSteps, PrepareSteps, StartTurnSteps, SteerSteps, MismatchSteps, BindSteps,
     RejectSteps, InactiveSteps, DeferSteps, StopInterruptSteps, StopTurnSteps, StopPendingSteps,
     CloseSteps DEF Dispatch
<1>4. CASE Relays(o)
  BY <1>4, TakeSteps, PostSteps, MarkSteps DEF Relays
<1>5. CASE Stale(o)
  BY <1>5, LeaveSteps DEF Stale
<1> QED
  BY <1>1, <1>2, <1>3, <1>4, <1>5 DEF AdapterStep

(* Every step of the system is a step of the ledger and keeps the holder *)
(* consistent.                                                           *)
LEMMA NextSteps ==
    ASSUME RelayInv, LeaseInv, AdapterInv, LedgerInv, HolderInv, [Next]_vars
    PROVE  LedgerStep /\ HolderInv'
<1>1. LedgerState
  BY AreFunctions DEF LedgerState
<1>2. ASSUME NEW o \in Owner, AdapterStep(o) \/ Ingest(o) \/ reconcile_active_turn(o)
      PROVE  LedgerStep /\ HolderInv'
  BY <1>1, <1>2, AdapterSteps, IngestSteps, ActiveSteps
<1>3. ASSUME NEW o \in Owner, Crash(o) PROVE LedgerStep /\ HolderInv'
  BY <1>1, <1>3, LeaveSteps DEF Crash
<1>4. CASE Stall \/ (\E a \in Attention : Elapsed(a)) \/ UNCHANGED vars
  BY <1>1, <1>4, TimeSteps
<1>5. CASE CodexStep
  BY <1>1, <1>5, CodexSteps
<1> QED
  BY <1>2, <1>3, <1>4, <1>5 DEF Next

(* A new agent home is consistent. *)
LEMMA LedgerInvInit == Init => LedgerInv /\ HolderInv
<1> SUFFICES ASSUME Init PROVE LedgerInv /\ HolderInv
  OBVIOUS
<1>1. /\ \A a \in Attention : /\ ~att[a].stored /\ ~att[a].accepted /\ att[a].turn = 0 /\ ~att[a].done
                              /\ intent[a].status # "prepared"
      /\ \A t \in Turn : turnAtt[t] = {} /\ ~turn[t].row
  BY DEF Init, StoreInit
<1>2. \A t \in Turn : Attached(t) = {}
  BY <1>1 DEF Attached
<1>3. LedgerInv
  BY <1>1, <1>2 DEF LedgerInv, JoinsOK, LanesOK, TurnsOK, DoneOK, IntentsOK, InboxOK
<1>4. \A o \in Owner : lease.owner # o
  BY NoOwnerAssumption DEF Init, LeaseInit
<1> QED
  BY <1>3, <1>4 DEF HolderInv

(* The invariants proved so far. *)
Invariants == LeaseInv /\ RelayInv /\ AdapterInv /\ LedgerInv /\ HolderInv

(* In every behaviour, crashes and takeovers included: an attention is joined *)
(* to at most one turn, and only after that turn accepted it; what waits      *)
(* carries no turn; an open turn has a row, an attention and no outcome; an   *)
(* attention that is done without an outcome belongs to a turn that ended; an *)
(* intent in flight is that of a pending attention on the stored thread, and  *)
(* the only one the lease holder is dispatching.                              *)
THEOREM LedgerInvariant == Spec => []Invariants
<1>1. Invariants /\ (LeaseInv /\ RelayInv /\ AdapterInv)' /\ [Next]_vars => Invariants'
  <2> SUFFICES ASSUME Invariants, (LeaseInv /\ RelayInv /\ AdapterInv)', [Next]_vars
               PROVE  Invariants'
    OBVIOUS
  <2>1. LedgerStep /\ HolderInv'
    BY NextSteps DEF Invariants
  <2>2. StoreInv /\ StoreInv'
    BY DEF Invariants, AdapterInv
  <2>3. LedgerInv'
    BY <2>1, <2>2, LedgerStepKeeps DEF Invariants
  <2> QED
    BY <2>1, <2>3 DEF Invariants
<1>2. Init /\ (LeaseInv /\ RelayInv /\ AdapterInv) => Invariants
  BY LedgerInvInit DEF Invariants
<1> QED
  BY <1>1, <1>2, AdapterInvariant, PTL DEF Spec

(* No step of any process puts an attention back into the pending lane while *)
(* its turn still runs on the server of a process that holds a valid lease,  *)
(* unless that turn was asked to stop: a takeover, a missing thread and a    *)
(* lost notification never make a second turn answer what the first is still *)
(* working on.                                                               *)
THEOREM RunningWorkStays == Spec => RunningWorkIsNotRequeued
<1>1. Invariants /\ [Next]_vars =>
        [\A a \in Attention : att[a].accepted /\ ~att'[a].accepted =>
          LET t == codex[att[a].turn] IN
          t.stop \/ \A o \in Owner : Fenced(o) => t.srv # o]_vars
  <2> SUFFICES ASSUME Invariants, [Next]_vars, NEW a \in Attention, att[a].accepted, ~att'[a].accepted
               PROVE  NotRunning(att[a].turn)
    BY DEF NotRunning
  <2>1. LedgerStep
    BY NextSteps DEF Invariants
  <2>2. LedgerMoves
    BY <2>1 DEF LedgerStep, Accepts, Prepares, Ingests
  <2>3. Returns(a)
    BY <2>2 DEF LedgerMoves, AttentionMoves, Stays, Closes, Completes
  <2>4. PICK t \in Turn : a \in Attached(t) /\ NotRunning(t)
    BY <2>3 DEF Returns
  <2> QED
    BY <2>4 DEF Invariants, LedgerInv, JoinsOK
<1> QED
  BY <1>1, LedgerInvariant, PTL DEF Spec, RunningWorkIsNotRequeued

-----------------------------------------------------------------------------
(* Output and the turn it comes from *)

(* The operations that have a relay row. *)
Ops == {r.op : r \in relay}

(* Output covers attentions that are still joined to its turn, except for   *)
(* protected work that /stop has detached; what waits covers joined ones    *)
(* only.                                                                    *)
CoverageInv ==
    \A r \in relay :
        /\ r.op.turn \in Turn /\ turn[r.op.turn].row /\ r.op.cov # {}
        /\ r.op.cov \ Protected \subseteq Attached(r.op.turn)
        /\ Waiting(r) => r.op.cov \subseteq Attached(r.op.turn)

(* Every step of the ledger keeps what a relay covers joined to its turn. *)
LEMMA CoverageStep ==
    ASSUME StoreInv, StoreInv', LedgerInv, LedgerStep, CoverageInv
    PROVE  CoverageInv'
<1>1. CASE LedgerMoves
  <2> SUFFICES ASSUME NEW r \in relay'
               PROVE  /\ r.op.turn \in Turn /\ turn'[r.op.turn].row /\ r.op.cov # {}
                      /\ r.op.cov \ Protected \subseteq Attached(r.op.turn)'
                      /\ Waiting(r) => r.op.cov \subseteq Attached(r.op.turn)'
    BY DEF CoverageInv
  <2>1. CASE FreshOutput(r)
    <3>1. TurnMoves(r.op.turn)
      BY <1>1, <2>1 DEF FreshOutput, LedgerMoves
    <3> QED
      BY <2>1, <3>1 DEF FreshOutput, TurnMoves, accepted_for_turn, Attached
  <2>2. CASE ~FreshOutput(r)
    <3>1. PICK q \in relay : q.op = r.op
      BY <1>1, <2>2 DEF LedgerMoves, RelayMoves
    <3> DEFINE t == r.op.turn
    <3>2. /\ t \in Turn /\ turn[t].row /\ r.op.cov # {} /\ r.op.cov \ Protected \subseteq Attached(t)
          /\ RelaysOf(t) # {}
      BY <3>1 DEF CoverageInv, RelaysOf
    <3>3. Waiting(r) => r \in relay /\ r.op.cov \subseteq Attached(t)
      BY <1>1, <2>2 DEF LedgerMoves, RelayMoves, CoverageInv
    <3>4. TurnMoves(t)
      BY <1>1, <3>2 DEF LedgerMoves
    <3>5. CASE turnAtt'[t] = turnAtt[t]
      <4>1. Attached(t)' = Attached(t)
        BY <3>5 DEF Attached
      <4> QED
        BY <3>2, <3>3, <3>4, <4>1 DEF TurnMoves
    <3>6. CASE turnAtt'[t] # turnAtt[t]
      <4>1. Attached(t) \ Protected \subseteq Attached(t)' /\ \A p \in relay' : Waiting(p) => p.op.turn # t
        BY <3>2, <3>4, <3>6 DEF TurnMoves
      <4> QED
        BY <3>2, <3>4, <4>1 DEF TurnMoves
    <3> QED
      BY <3>5, <3>6
  <2> QED
    BY <2>1, <2>2
<1>2. ASSUME NEW a \in Attention, NEW t \in Turn, Accepts(a, t) PROVE CoverageInv'
  <2>1. relay' = relay /\ \A u \in Turn : turn[u].row => turn'[u].row
    BY <1>2 DEF Accepts
  <2>2. \A u \in Turn : turnAtt[u] \subseteq turnAtt'[u]
    BY <1>2 DEF Accepts
  <2>3. \A u \in Turn : Attached(u) \subseteq Attached(u)'
    BY <2>2 DEF Attached
  <2> QED
    BY <2>1, <2>3 DEF CoverageInv
<1>3. ASSUME NEW a \in Attention, Prepares(a) \/ Ingests(a) PROVE CoverageInv'
  <2>1. relay' = relay /\ turn' = turn /\ turnAtt' = turnAtt
    BY <1>3 DEF Prepares, Ingests
  <2> QED
    BY <2>1 DEF CoverageInv, Attached
<1> QED
  BY <1>1, <1>2, <1>3 DEF LedgerStep

(* A relay row is never dropped. *)
LEMMA OpsStay ==
    ASSUME LedgerStep
    PROVE  Ops \subseteq Ops'
<1>1. \A r \in relay : \E q \in relay' : q.op = r.op
  BY DEF LedgerStep, LedgerMoves, RelayMoves, Accepts, Prepares, Ingests
<1> QED
  BY <1>1 DEF Ops

(* What a process releases, and what the room has accepted, is in the       *)
(* ledger.                                                                  *)
Sends(o) ==
    /\ \A r \in mem[o].batch : r.op \in Ops
    /\ pc[o] \in {"post", "mark"} => mem[o].sending.op \in Ops

(* What was posted, and what a process is about to post, has a row. *)
SentInv ==
    /\ posted \subseteq Ops
    /\ \A o \in Owner : pc[o] \in Releasing => Sends(o)

(* A process that goes on releasing does not move. *)
SentSame ==
    /\ posted' = posted
    /\ \A o \in Owner : pc'[o] \in Releasing => pc'[o] = pc[o] /\ mem'[o] = mem[o]

(* A step that sends nothing keeps this. *)
LEMMA SentSameKeeps ==
    ASSUME SentInv, Ops \subseteq Ops', SentSame
    PROVE  SentInv'
<1>1. ASSUME NEW o \in Owner, pc'[o] \in Releasing PROVE Sends(o)'
  <2>1. pc'[o] = pc[o] /\ mem'[o] = mem[o] /\ Sends(o)
    BY <1>1 DEF SentSame, SentInv
  <2> QED
    BY <2>1 DEF Sends
<1>2. posted' \subseteq Ops'
  BY DEF SentSame, SentInv
<1> QED
  BY <1>1, <1>2 DEF SentInv

(* Taking a row reads it from the table. *)
LEMMA TakeSends ==
    ASSUME Functions, SentInv, Ops \subseteq Ops', NEW o \in Owner, AssertLease(o)
    PROVE  SentInv'
<1>0. TakeRow(o, pending_relays) \/ (pc[o] = "batch" /\ TakeRow(o, mem[o].batch))
  BY Zenon DEF AssertLease, At
<1>1. PICK rows : TakeRow(o, rows) /\ (rows = pending_relays \/ (pc[o] = "batch" /\ rows = mem[o].batch))
  <2>1. CASE TakeRow(o, pending_relays)
    BY <2>1, Zenon
  <2>2. CASE pc[o] = "batch" /\ TakeRow(o, mem[o].batch)
    BY <2>2, Zenon
  <2> QED
    BY <1>0, <2>1, <2>2
<1>2. \A r \in rows : r.op \in Ops
  BY <1>1 DEF SentInv, Sends, Releasing, pending_relays, Ops
<1>3. PICK r \in rows : Acts(o, "post", PutSendingBatch(mem[o], r, rows \ {r}), work[o], inq[o])
  BY <1>1, TakeRowActs
<1> DEFINE m == PutSendingBatch(mem[o], r, rows \ {r})
<1>4. m.sending = r /\ m.batch = rows \ {r}
  BY DEF PutSendingBatch, Memo
<1>5. mem'[o] = m /\ \A u \in Owner \ {o} : pc'[u] = pc[u] /\ mem'[u] = mem[u]
  BY <1>3 DEF Acts, Wrote
<1> HIDE DEF m
<1>6. Sends(o)'
  BY <1>2, <1>4, <1>5 DEF Sends
<1>7. posted' = posted
  BY <1>1, RestKept DEF TakeRow
<1>8. ASSUME NEW u \in Owner, u # o, pc'[u] \in Releasing PROVE Sends(u)'
  <2>1. pc'[u] = pc[u] /\ mem'[u] = mem[u]
    BY <1>5, <1>8
  <2> QED
    BY <1>8, <2>1 DEF SentInv, Sends
<1> QED
  BY <1>6, <1>7, <1>8 DEF SentInv

(* Going on to the next row of the batch sends nothing else. *)
LEMMA NextRowSends ==
    ASSUME Functions, SentInv, Ops \subseteq Ops', NEW o \in Owner, NextRow(o), pc[o] \in {"post", "mark"},
           work' = work, inq' = inq, posted' \subseteq posted \cup {mem[o].sending.op}
    PROVE  SentInv'
<1>1. PICK p \in {"run", "batch"} : Acts(o, p, PutSending(mem[o], NoRelay), work[o], inq[o])
  BY NextRowActs
<1> DEFINE m == PutSending(mem[o], NoRelay)
<1>2. m.batch = mem[o].batch
  BY DEF PutSending, Memo
<1>3. mem'[o] = m /\ pc'[o] = p /\ \A u \in Owner \ {o} : pc'[u] = pc[u] /\ mem'[u] = mem[u]
  BY <1>1 DEF Acts, Wrote
<1> HIDE DEF m
<1>4. Sends(o)
  BY DEF SentInv, Releasing
<1>5. Sends(o)'
  BY <1>2, <1>3, <1>4 DEF Sends
<1>6. posted' \subseteq Ops'
  BY <1>4 DEF SentInv, Sends
<1>7. ASSUME NEW u \in Owner, u # o, pc'[u] \in Releasing PROVE Sends(u)'
  <2>1. pc'[u] = pc[u] /\ mem'[u] = mem[u]
    BY <1>3, <1>7
  <2> QED
    BY <1>7, <2>1 DEF SentInv, Sends
<1> QED
  BY <1>5, <1>6, <1>7 DEF SentInv

(* The relay loop sends only rows. *)
LEMMA RelaysSend ==
    ASSUME Functions, SentInv, Ops \subseteq Ops', NEW o \in Owner, Relays(o)
    PROVE  SentInv'
<1>1. CASE PostAccepted(o)
  <2>1. pc[o] = "post" /\ posted' = posted \cup {mem[o].sending.op} /\ mem' = mem
    BY <1>1 DEF PostAccepted, At
  <2>2. Acts(o, "mark", mem[o], work[o], inq[o])
    BY <1>1, PostActs
  <2>3. pc'[o] = "mark" /\ \A u \in Owner \ {o} : pc'[u] = pc[u]
    BY <2>2 DEF Acts, Wrote
  <2>4. Sends(o) /\ mem[o].sending.op \in Ops
    BY <2>1 DEF SentInv, Releasing, Sends
  <2>5. ASSUME NEW u \in Owner, pc'[u] \in Releasing PROVE Sends(u)'
    <3>1. CASE u = o
      BY <2>1, <2>4, <3>1 DEF Sends
    <3>2. CASE u # o
      BY <2>1, <2>3, <2>5, <3>2 DEF SentInv, Sends
    <3> QED
      BY <3>1, <3>2
  <2> QED
    BY <2>1, <2>4, <2>5 DEF SentInv
<1>2. CASE PostFailed(o)
  <2>1. pc[o] \in {"post", "mark"} /\ NextRow(o) /\ work' = work /\ inq' = inq
        /\ posted' \subseteq posted \cup {mem[o].sending.op}
    BY <1>2 DEF PostFailed, At
  <2> QED
    BY <2>1, NextRowSends
<1>3. CASE MarkRelay(o)
  <2>1. pc[o] \in {"post", "mark"} /\ NextRow(o) /\ work' = work /\ KeepRest
    BY <1>3 DEF MarkRelay, RecordSent, At
  <2>2. inq' = inq /\ posted' = posted
    BY <2>1, RestKept
  <2> QED
    BY <2>1, <2>2, NextRowSends
<1> QED
  BY <1>1, <1>2, <1>3, TakeSends DEF Relays

(* No other step sends. *)
LEMMA OtherStepsSend ==
    ASSUME RelayInv, SentInv, Ops \subseteq Ops', [Next]_vars, ~\E o \in Owner : Relays(o)
    PROVE  SentInv'
<1>1. ASSUME NEW o \in Owner, Steady(o), posted' = posted PROVE SentInv'
  <2>1. SentSame
    BY <1>1 DEF Steady, Local, SentSame
  <2> QED
    BY <2>1, SentSameKeeps
<1>2. ASSUME pc' = pc, mem' = mem, posted' = posted PROVE SentInv'
  BY <1>2, SentSameKeeps DEF SentSame
<1>3. ASSUME NEW o \in Owner, AdapterStep(o), ~Start(o), ~Stale(o) PROVE SentInv'
  <2>1. posted' = posted
    <3>1. CASE Recovery(o)
      <4>1. KeepRest
        BY <1>3, <3>1, Zenon DEF Recovery, ResumeMissing, ResumeThread, reconcile_dispatches,
           reconcile_accepted_turns, ReplayHistory, Reap
      <4> QED
        BY ONLY <4>1, RestKept
    <3>2. CASE Messages(o)
      BY <3>2, RestKept DEF Messages, handle_agent_item, HandleNoReply, PromoteCandidate,
         handle_turn_completed, drain_messages
    <3>3. CASE Dispatch(o)
      BY <3>3, RestKept, Zenon DEF Dispatch, DispatchLegacy, create_thread, PrepareDispatch, StartTurn, SteerTurn,
         SteerMismatch, BindDispatch, RpcRejected, SteerInactive, DeferRejected, StopInterrupt, StopTurn,
         StopPending, CloseRoom
    <3> QED
      BY <1>3, <3>1, <3>2, <3>3 DEF AdapterStep
  <2> QED
    BY <1>1, <1>3, <2>1, RecoverySteady, MessagesSteady, DispatchSteady DEF AdapterStep
<1>4. ASSUME NEW o \in Owner, Start(o) \/ Leave(o) PROVE SentInv'
  <2>1. /\ posted' = posted /\ pc' = [pc EXCEPT ![o] = pc'[o]] /\ pc'[o] \in {"resume", "dead"}
        /\ \A u \in Owner \ {o} : mem'[u] = mem[u]
    BY <1>4 DEF Start, Leave, Goto, RelayInv
  <2> QED
    BY <2>1, SentSameKeeps DEF SentSame, Releasing, RelayInv
<1>5. ASSUME NEW o \in Owner, Ingest(o) PROVE SentInv'
  BY <1>2, <1>5, RestKept DEF Ingest
<1>6. ASSUME NEW o \in Owner, reconcile_active_turn(o) PROVE SentInv'
  <2>1. /\ posted' = posted /\ pc' = pc /\ pc[o] = "run"
        /\ mem' = mem \/ mem' = [mem EXCEPT ![o].active = 0]
    BY <1>6, RestKept DEF reconcile_active_turn, At
  <2>2. SentSame
    BY <2>1 DEF SentSame, Releasing, RelayInv
  <2> QED
    BY <2>2, SentSameKeeps
<1>7. CASE Stall \/ CodexStep \/ (\E a \in Attention : Elapsed(a)) \/ UNCHANGED vars
  <2>1. pc' = pc /\ mem' = mem /\ posted' = posted
    BY <1>7 DEF Stall, CodexStep, CodexItem, CodexPersist, CodexFinish, CodexDrop,
       CodexRollOver, LoseThread, KeepAdapter, Elapsed, adapterVars, vars
  <2> QED
    BY ONLY <1>2, <2>1, Zenon
<1> QED
  BY <1>3, <1>4, <1>5, <1>6, <1>7 DEF Next, Crash, Stale, AdapterStep

(* Every relay row belongs to a turn with a row and covers attentions joined  *)
(* to that turn, protected ones aside once they were requeued, and everything *)
(* posted has such a row: what the room hears can be traced to the turn that  *)
(* accepted the attention it answers.                                         *)
THEOREM OutputInvariant == Spec => [](Invariants /\ CoverageInv /\ SentInv)
<1>1. Invariants /\ Invariants' /\ CoverageInv /\ SentInv /\ [Next]_vars => CoverageInv' /\ SentInv'
  <2> SUFFICES ASSUME Invariants, Invariants', CoverageInv, SentInv, [Next]_vars PROVE CoverageInv' /\ SentInv'
    OBVIOUS
  <2>1. LedgerStep
    BY NextSteps DEF Invariants
  <2>2. CoverageInv'
    BY <2>1, CoverageStep DEF Invariants, AdapterInv
  <2>3. Functions /\ RelayInv /\ Ops \subseteq Ops'
    BY <2>1, OpsStay, AreFunctions DEF Invariants
  <2> QED
    BY <2>2, <2>3, RelaysSend, OtherStepsSend
<1>2. Init => CoverageInv /\ SentInv
  BY DEF Init, StoreInit, CoverageInv, SentInv, Releasing
<1> QED
  BY <1>1, <1>2, LedgerInvariant, PTL DEF Spec

(* Two posted outputs that answer the same attention, which is not protected *)
(* work that a /stop may hand to a second turn, come from one and the same   *)
(* turn: no crash, takeover or retry makes two turns answer.                 *)
THEOREM OneTurnAnswers == Spec => []AnsweredByOneTurn
<1>1. Invariants /\ CoverageInv /\ SentInv => AnsweredByOneTurn
  <2> SUFFICES ASSUME Invariants, CoverageInv, SentInv, NEW p \in posted, NEW q \in posted,
                      (p.cov \cap q.cov) \ Protected # {}
               PROVE  p.turn = q.turn
    BY DEF AnsweredByOneTurn
  <2>1. PICK a : a \in p.cov \ Protected /\ a \in q.cov \ Protected
    OBVIOUS
  <2>2. p.turn \in Turn /\ a \in Attached(p.turn) /\ q.turn \in Turn /\ a \in Attached(q.turn)
    BY <2>1 DEF SentInv, Ops, CoverageInv
  <2> QED
    BY <2>2, JoinedOnce DEF Invariants
<1> QED
  BY <1>1, OutputInvariant, PTL

-----------------------------------------------------------------------------
(* What is over stays silent *)

(* Messages of other turns than t. *)
Others(t) == {m \in Message : m.t # t}

(* Turn t does not run, and the process that holds the lease has nothing of *)
(* it to handle.                                                            *)
Settled(t) ==
    /\ ~Live(t)
    /\ \A o \in Owner : lease.owner = o => work[o] \in Seq(Others(t)) /\ inq[o] \in Seq(Others(t))

(* A settled turn of a thread the room no longer uses stays settled. *)
SettledStep == \A t \in Turn : turn[t].row /\ codex[t].thread # thread /\ Settled(t) => Settled(t)'

(* The room's thread is kept, forgotten, or replaced by a new one. *)
ThreadStep == thread' = thread \/ thread' = 0 \/ \A t \in Turn : codex[t].thread # thread'

(* No old thread is taken up and nothing settled stirs. *)
QuietStep == ThreadStep /\ SettledStep

(* A turn that has ended does not run again in any step of the ledger. *)
LEMMA StepEnds == LedgerStep => EndedStayEnded
  BY QuietEnds DEF LedgerStep, Accepts, Prepares, Ingests

(* A step that leaves queues and lease alone reports nothing new. *)
LEMMA SameQueues ==
    ASSUME LedgerStep, work' = work, inq' = inq, lease'.owner = lease.owner
    PROVE  SettledStep
  BY StepEnds DEF SettledStep, Settled, EndedStayEnded

(* A step of one process that reads no report of a settled turn. *)
LEMMA ActsSettle ==
    ASSUME LedgerStep, lease'.owner = lease.owner, NEW o \in Owner, NEW p, NEW m, NEW w, NEW q, Acts(o, p, m, w, q),
           \A t \in Turn : turn[t].row /\ codex[t].thread # thread /\ Settled(t) /\ lease.owner = o =>
               w \in Seq(Others(t)) /\ q \in Seq(Others(t))
    PROVE  SettledStep
<1> SUFFICES ASSUME NEW t \in Turn, turn[t].row, codex[t].thread # thread, Settled(t) PROVE Settled(t)'
  BY DEF SettledStep
<1>1. ~Live(t)'
  BY StepEnds DEF EndedStayEnded, Settled
<1>2. ASSUME NEW u \in Owner, lease.owner = u PROVE work'[u] \in Seq(Others(t)) /\ inq'[u] \in Seq(Others(t))
  <2>1. CASE u = o
    BY <1>2, <2>1 DEF Acts, Wrote
  <2>2. CASE u # o
    BY <1>2, <2>2 DEF Acts, Wrote, Settled
  <2> QED
    BY <2>1, <2>2
<1> QED
  BY <1>1, <1>2 DEF Settled

(* The empty queue reports nothing. *)
LEMMA NothingRead == \A S : <<>> \in Seq(S)
  OBVIOUS

(* Messages of the turns S are not of a turn outside S. *)
LEMMA OthersIn ==
    ASSUME NEW S, NEW t, t \notin S
    PROVE  Seq(KnownOf(S)) \subseteq Seq(Others(t))
<1>1. KnownOf(S) \subseteq Others(t)
  BY DEF KnownOf, Known, Others
<1> QED
  BY <1>1, SeqGrows

(* Replaying the recorded items of running and unfinished turns brings back *)
(* no report of a settled turn and reuses no thread.                        *)
LEMMA ReplayQuiet ==
    ASSUME LedgerState, LedgerStep, NEW o \in Owner, ReplayHistory(o)
    PROVE  QuietStep
<1> DEFINE running == {t \in Turn : mem[o].view[t].status = "inProgress"}
           unfinished == {t \in incomplete_turn_ids(mem[o].thread) : ~Absent(o, t)}
           v == IF running # {} THEN Last(running) ELSE mem[o].active
           X == running \cup unfinished
           w == ReplayAll(mem[o].view, X)
<1>1. Acts(o, "replay", PutViewActive(mem[o], NoView, v), w, inq[o])
  BY ReplayActs DEF LedgerState
<1>2. KeepRest /\ At(o, "reconcile") /\ UNCHANGED storeVars
  BY Zenon DEF ReplayHistory
<1>3. lease' = lease /\ thread' = thread
  BY <1>2, RestKept DEF storeVars
<1>4. Viewed(codex, mem[o].thread, mem[o].view) /\ mem[o].thread # 0 /\ pc[o] = "reconcile"
  BY <1>2, ProcessOf DEF MemoryOK, PointOK, At, LedgerState
<1>5. \A t \in Turn : t \in X => mem[o].view[t].status # "absent"
  BY DEF Absent
<1>6. X \subseteq Turn
  BY DEF incomplete_turn_ids
<1> HIDE DEF X, v
<1>7. w \in Seq(KnownOf(X))
  BY <1>4, <1>5, ReplayedAll DEF LedgerState, AdapterInv
<1> HIDE DEF w
<1>8. ASSUME NEW t \in Turn, codex[t].thread # thread, Settled(t), lease.owner = o
      PROVE  w \in Seq(Others(t)) /\ inq[o] \in Seq(Others(t))
  <2>1. mem[o].thread = thread
    BY <1>4, <1>8 DEF LedgerState, HolderInv, HolderAt
  <2>2. t \notin X
    BY <1>4, <1>5, <1>8, <2>1 DEF Viewed, Seen
  <2>3. w \in Seq(Others(t))
    BY <1>7, <2>2, OthersIn
  <2> QED
    BY <1>8, <2>3 DEF Settled
<1>9. SettledStep
  BY <1>1, <1>3, <1>8, ActsSettle
<1> QED
  BY <1>3, <1>9 DEF QuietStep, ThreadStep

(* The steps of recovery before the replay bring back no report of a settled *)
(* turn.                                                                     *)
LEMMA ResumeQuiet ==
    ASSUME LedgerState, LedgerStep, NEW o \in Owner,
           ResumeMissing(o) \/ ResumeThread(o) \/ reconcile_dispatches(o) \/ reconcile_accepted_turns(o) \/ Reap(o)
    PROVE  QuietStep
<1>1. KeepRest /\ work' = work
  BY Zenon DEF ResumeMissing, ResumeThread, reconcile_dispatches, reconcile_accepted_turns, Reap
<1>2. SettledStep
  BY <1>1, RestKept, SameQueues
<1>3. thread' = thread \/ thread' = 0
  <2>1. CASE ResumeMissing(o)
    BY <2>1 DEF ResumeMissing, retry_unobserved_dispatch, requeue_missing_thread
  <2>2. CASE ResumeThread(o)
    BY <2>2 DEF ResumeThread, set_thread
  <2>3. CASE reconcile_dispatches(o)
    BY <2>3 DEF reconcile_dispatches, finalize_dispatch, retry_unobserved_dispatch
  <2>4. CASE reconcile_accepted_turns(o)
    BY <2>4 DEF reconcile_accepted_turns, adopt_recovered_turn, requeue_missing_turn
  <2>5. CASE Reap(o)
    BY <2>5 DEF Reap, reap_stale_turns_after_recovery
  <2> QED
    BY <2>1, <2>2, <2>3, <2>4, <2>5
<1> QED
  BY <1>2, <1>3 DEF QuietStep, ThreadStep

(* Claiming the lease and starting the server brings back no report of a *)
(* settled turn and reuses no thread.                                    *)
LEMMA StartQuiet ==
    ASSUME LedgerState, LedgerStep, NEW o \in Owner, Start(o)
    PROVE  QuietStep
<1>1. pc[o] = "new" /\ lease'.owner = o /\ work' = work /\ inq' = inq /\ thread' = thread
  BY DEF Start, claim_lease, storeVars
<1>2. work[o] = <<>> /\ inq[o] = <<>>
  BY <1>1, ProcessOf DEF LedgerState, PointOK, Idle
<1>3. \A t : <<>> \in Seq(Others(t))
  OBVIOUS
<1>4. SettledStep
  BY <1>1, <1>2, <1>3, StepEnds DEF SettledStep, Settled, EndedStayEnded
<1> QED
  BY <1>1, <1>4 DEF QuietStep, ThreadStep

(* Recovery after a restart brings back no report of a settled turn. *)
LEMMA RecoveryQuiet ==
    ASSUME LedgerState, LedgerStep, NEW o \in Owner, Recovery(o)
    PROVE  QuietStep
  BY StartQuiet, ResumeQuiet, ReplayQuiet DEF Recovery

(* What is left of the messages. *)
LEMMA TailSettles ==
    ASSUME LedgerStep, lease' = lease, NEW o \in Owner, work[o] # <<>>, NEW w, NEW p, NEW m, Acts(o, p, m, w, inq[o]),
           w = Tail(work[o]) \/ w = <<NoReplyMessage(Head(work[o]).t)>> \o Tail(work[o]) \/ w = work[o]
    PROVE  SettledStep
<1>1. ASSUME NEW t \in Turn, Settled(t), lease.owner = o PROVE w \in Seq(Others(t)) /\ inq[o] \in Seq(Others(t))
  <2> DEFINE S == Others(t)
  <2>1. work[o] \in Seq(S) /\ inq[o] \in Seq(S)
    BY <1>1 DEF Settled
  <2>2. Head(work[o]) \in S
    BY <2>1, ReadMessages
  <2>3. NoReplyMessage(Head(work[o]).t) \in S
    BY <2>2, BoundAssumption DEF Others, NoReplyMessage, Message
  <2> HIDE DEF S
  <2>4. Tail(work[o]) \in Seq(S) /\ \A x \in S : <<x>> \o Tail(work[o]) \in Seq(S)
    BY <2>1, ReadMessages
  <2>5. w \in Seq(S)
    BY <2>1, <2>3, <2>4
  <2> QED
    BY <2>1, <2>5 DEF S
<1> QED
  BY <1>1, ActsSettle

(* Handling the notifications already read brings back no report of a settled *)
(* turn.                                                                      *)
LEMMA MessagesQuiet ==
    ASSUME LedgerState, LedgerStep, NEW o \in Owner, Messages(o)
    PROVE  QuietStep
<1>1. CASE handle_agent_item(o)
  <2>1. work[o] # <<>> /\ KeepRest
    BY <1>1, Zenon DEF handle_agent_item, Handling
  <2>2. PICK w : /\ w = Tail(work[o]) \/ w = <<NoReplyMessage(Head(work[o]).t)>> \o Tail(work[o])
                 /\ Acts(o, pc[o], mem[o], w, inq[o])
    BY <1>1, ItemActs DEF LedgerState
  <2>3. lease' = lease
    BY <2>1, RestKept
  <2>4. SettledStep
    BY <2>1, <2>2, <2>3, TailSettles
  <2>5. thread' = thread
    BY <1>1 DEF handle_agent_item, storeVars, create_output, create_relay_item
  <2> QED
    BY <2>4, <2>5 DEF QuietStep, ThreadStep
<1>2. CASE HandleNoReply(o)
  <2>1. work[o] # <<>> /\ KeepRest
    BY <1>2, Zenon DEF HandleNoReply, Handling
  <2>2. Acts(o, pc[o], mem[o], Tail(work[o]), inq[o])
    BY <1>2, NoReplyActs DEF LedgerState
  <2>3. SettledStep
    BY <2>1, <2>2, RestKept, TailSettles
  <2>4. thread' = thread
    BY <1>2 DEF HandleNoReply, mark_turn_no_reply
  <2> QED
    BY <2>3, <2>4 DEF QuietStep, ThreadStep
<1>3. CASE PromoteCandidate(o)
  <2>1. KeepRest /\ work' = work
    BY <1>3, Zenon DEF PromoteCandidate
  <2>2. SettledStep
    BY <2>1, RestKept, SameQueues
  <2>3. thread' = thread
    BY <1>3 DEF PromoteCandidate, storeVars, create_output, create_relay_item
  <2> QED
    BY <2>2, <2>3 DEF QuietStep, ThreadStep
<1>4. CASE handle_turn_completed(o)
  <2>1. work[o] # <<>> /\ KeepRest /\ \E t, s : mark_turn_completed(t, s)
    BY <1>4, Zenon DEF handle_turn_completed, Handling
  <2>2. PICK m : Acts(o, pc[o], m, Tail(work[o]), inq[o])
    BY <1>4, DoneActs DEF LedgerState
  <2>3. SettledStep
    BY <2>1, <2>2, RestKept, TailSettles
  <2>4. thread' = thread
    BY <2>1 DEF mark_turn_completed, CompleteTurn, storeVars
  <2> QED
    BY <2>3, <2>4 DEF QuietStep, ThreadStep
<1>5. CASE drain_messages(o)
  <2>1. Acts(o, pc[o], mem[o], inq[o], <<>>)
    BY <1>5, DrainActs DEF LedgerState
  <2>2. lease' = lease /\ thread' = thread
    BY <1>5 DEF drain_messages, leaseVars, storeVars
  <2>6. \A t \in Turn : Settled(t) /\ lease.owner = o => inq[o] \in Seq(Others(t)) /\ <<>> \in Seq(Others(t))
    BY NothingRead DEF Settled
  <2>3. SettledStep
    BY <2>1, <2>2, <2>6, ActsSettle
  <2> QED
    BY <2>2, <2>3 DEF QuietStep, ThreadStep
<1> QED
  BY <1>1, <1>2, <1>3, <1>4, <1>5 DEF Messages

(* A turn that is replayed is of the room's thread. *)
LEMMA FinishedSettles ==
    ASSUME LedgerState, LedgerStep, lease' = lease, NEW o \in Owner, pc[o] # "resume", mem[o].active # 0,
           ReplayFinished(o, mem[o].active), NEW p, NEW m,
           Acts(o, p, m, recover_turn(authoritative_turns(mem[o].thread), mem[o].active), inq[o])
    PROVE  SettledStep
<1> DEFINE u == mem[o].active
           w == recover_turn(authoritative_turns(mem[o].thread), u)
<1>1. u \in Turn /\ mem[o].thread \in Thread /\ codex[u].thread = mem[o].thread
  BY ProcessOf DEF LedgerState, MemoryOK, Seen
<1>2. InHistory(mem[o].thread, u)
  BY DEF ReplayFinished
<1>3. w \in Seq(KnownOf({u}))
  BY <1>1, <1>2, ReplayedTurn DEF LedgerState, AdapterInv
<1>4. Acts(o, p, m, w, inq[o])
  OBVIOUS
<1> HIDE DEF w, u
<1>5. ASSUME NEW t \in Turn, codex[t].thread # thread, Settled(t), lease.owner = o
      PROVE  w \in Seq(Others(t)) /\ inq[o] \in Seq(Others(t))
  <2>1. mem[o].thread = thread
    BY <1>1, <1>5, BoundAssumption DEF LedgerState, HolderInv, HolderAt, Thread
  <2>2. t \notin {u}
    BY <1>1, <1>5, <2>1
  <2>3. w \in Seq(Others(t))
    BY <1>3, <2>2, OthersIn
  <2> QED
    BY <1>5, <2>3 DEF Settled
<1> QED
  BY <1>4, <1>5, ActsSettle

(* Reconciling the active turn when its notifications stop brings back no *)
(* report of a settled turn and reuses no thread.                         *)
LEMMA ActiveQuiet ==
    ASSUME LedgerState, LedgerStep, NEW o \in Owner, reconcile_active_turn(o)
    PROVE  QuietStep
<1>1. KeepRest /\ mem[o].active # 0 /\ pc[o] = "run"
  BY Zenon DEF reconcile_active_turn, At
<1>2. lease' = lease /\ inq' = inq
  BY <1>1, RestKept
<1>3. CASE /\ ReplayFinished(o, mem[o].active) /\ UNCHANGED storeVars
           /\ Acts(o, pc[o], mem[o], recover_turn(authoritative_turns(mem[o].thread), mem[o].active), inq[o])
  <2>1. SettledStep
    BY <1>1, <1>2, <1>3, FinishedSettles
  <2> QED
    BY <1>3, <2>1 DEF QuietStep, ThreadStep, storeVars
<1>4. CASE /\ requeue_missing_turn(mem[o].active)
           /\ Acts(o, pc[o], PutActive(mem[o], 0), work[o], inq[o])
  <2>1. SettledStep
    BY <1>2, <1>4, ActsSettle DEF Settled
  <2> QED
    BY <1>4, <2>1 DEF QuietStep, ThreadStep, requeue_missing_turn
<1> QED
  BY <1>3, <1>4, ActiveActs DEF LedgerState

(* A steer refused because no turn is active brings back no report of a *)
(* settled turn and reuses no thread.                                   *)
LEMMA InactiveQuiet ==
    ASSUME LedgerState, LedgerStep, NEW o \in Owner, SteerInactive(o)
    PROVE  QuietStep
<1>1. KeepRest /\ mem[o].active # 0 /\ pc[o] # "resume"
  BY DEF SteerInactive, AtSteer, At
<1>2. lease' = lease /\ inq' = inq
  BY <1>1, RestKept
<1>3. CASE /\ ReplayFinished(o, mem[o].active) /\ UNCHANGED storeVars
           /\ \E m : Acts(o, "rejected", m, recover_turn(authoritative_turns(mem[o].thread), mem[o].active), inq[o])
  <2>1. SettledStep
    BY <1>1, <1>2, <1>3, FinishedSettles
  <2> QED
    BY <1>3, <2>1 DEF QuietStep, ThreadStep, storeVars
<1>4. CASE /\ requeue_missing_turn(mem[o].active)
           /\ \E m : Acts(o, "rejected", m, work[o], inq[o])
  <2>1. SettledStep
    BY <1>2, <1>4, ActsSettle DEF Settled
  <2> QED
    BY <1>4, <2>1 DEF QuietStep, ThreadStep, requeue_missing_turn
<1>5. Functions
  BY DEF LedgerState
<1> QED
  BY ONLY <1>3, <1>4, <1>5, o \in Owner, SteerInactive(o), InactiveActs, Zenon

(* An accepted turn/steer brings back no report of a settled turn and reuses *)
(* no thread.                                                                *)
LEMMA SteerQuiet ==
    ASSUME LedgerState, LedgerStep, NEW o \in Owner, SteerTurn(o)
    PROVE  QuietStep
<1>1. lease' = lease /\ thread' = thread
  BY DEF SteerTurn, leaseVars, storeVars
<1>2. PICK m : Acts(o, "bind", m, inq[o], <<>>)
  BY SteerActs DEF LedgerState
<1>4. \A t \in Turn : Settled(t) /\ lease.owner = o => inq[o] \in Seq(Others(t)) /\ <<>> \in Seq(Others(t))
  BY NothingRead DEF Settled
<1>3. SettledStep
  BY <1>1, <1>2, <1>4, ActsSettle
<1> QED
  BY <1>1, <1>3 DEF QuietStep, ThreadStep

(* A new thread is one no turn ever used, and closing the room leaves none. *)
LEMMA ThreadQuiet ==
    ASSUME LedgerStep, NEW o \in Owner, create_thread(o) \/ CloseRoom(o)
    PROVE  QuietStep
<1>1. work' = work /\ inq' = inq /\ lease' = lease
  BY RestKept, SMTT(40) DEF create_thread, CloseRoom, leaseVars
<1>2. ThreadStep
  BY DEF create_thread, CloseRoom, set_thread, close_room_for_control, ThreadStep
<1> QED
  BY <1>1, <1>2, SameQueues DEF QuietStep

(* Dispatching brings back no report of a settled turn. *)
LEMMA DispatchQuiet ==
    ASSUME LedgerState, LedgerStep, NEW o \in Owner, Dispatch(o)
    PROVE  QuietStep
<1>1. ASSUME work' = work, inq' = inq, lease' = lease, thread' = thread PROVE QuietStep
  BY <1>1, SameQueues DEF QuietStep, ThreadStep
<1>2. CASE DispatchLegacy(o) \/ PrepareDispatch(o) \/ StartTurn(o) \/ SteerMismatch(o) \/ RpcRejected(o)
  <2>1. work' = work /\ inq' = inq /\ lease' = lease
    BY <1>2, RestKept DEF DispatchLegacy, PrepareDispatch, StartTurn, SteerMismatch, RpcRejected, leaseVars
  <2>2. thread' = thread
    BY <1>2 DEF DispatchLegacy, PrepareDispatch, StartTurn, SteerMismatch, RpcRejected, storeVars,
       retire_legacy_context, prepare_dispatch
  <2> QED
    BY <1>1, <2>1, <2>2
<1>3. CASE BindDispatch(o) \/ DeferRejected(o)
  <2>1. work' = work /\ inq' = inq /\ lease' = lease
    BY <1>3, RestKept DEF BindDispatch, DeferRejected
  <2>2. thread' = thread
    BY <1>3 DEF BindDispatch, DeferRejected, finalize_dispatch, retry_and_defer
  <2> QED
    BY <1>1, <2>1, <2>2
<1>4. CASE StopInterrupt(o) \/ StopTurn(o) \/ StopPending(o)
  <2>1. work' = work /\ inq' = inq /\ lease' = lease
    BY <1>4, RestKept, Zenon DEF StopInterrupt, StopTurn, StopPending, leaseVars
  <2>2. thread' = thread
    BY <1>4 DEF StopInterrupt, StopTurn, StopPending, storeVars, defer_attention, interrupt_turn_for_control,
       InterruptTurn, cancel_pending_before_control
  <2> QED
    BY <1>1, <2>1, <2>2
<1> QED
  BY <1>2, <1>3, <1>4, InactiveQuiet, SteerQuiet, ThreadQuiet DEF Dispatch

(* The relay loop reads no notification. *)
LEMMA RelaysQuiet ==
    ASSUME LedgerStep, NEW o \in Owner, Relays(o)
    PROVE  QuietStep
<1>1. work' = work /\ inq' = inq /\ lease' = lease
  BY RestKept, SMTT(40) DEF Relays, AssertLease, TakeRow, PostAccepted, PostFailed, MarkRelay, RecordSent, leaseVars
<1>2. thread' = thread
  BY DEF Relays, AssertLease, TakeRow, PostAccepted, PostFailed, MarkRelay, RecordSent, storeVars,
     mark_relay_accepted
<1> QED
  BY <1>1, <1>2, SameQueues DEF QuietStep, ThreadStep

(* The exit or crash of a process brings back no report of a settled turn and *)
(* reuses no thread.                                                          *)
LEMMA LeaveQuiet ==
    ASSUME LedgerState, LedgerStep, NEW o \in Owner, Leave(o), Die(o)
    PROVE  QuietStep
<1>1. lease' = lease /\ thread' = thread
  BY DEF Leave, Die, storeVars
<1>2. Acts(o, "dead", NoMem, <<>>, <<>>)
  BY LeaveActs DEF LedgerState
<1>3. SettledStep
  BY <1>1, <1>2, ActsSettle, NothingRead
<1> QED
  BY <1>1, <1>3 DEF QuietStep, ThreadStep

(* Codex reports only turns that run. *)
LEMMA NotifyQuiet ==
    ASSUME LedgerState, LedgerStep, KeepAdapter, NEW u \in Turn, Live(u), NEW m \in Message, m.t = u,
           Notify(codex[u].srv, m)
    PROVE  QuietStep
<1>1. work' = work /\ lease' = lease /\ thread' = thread
  BY DEF KeepAdapter, leaseVars, storeVars
<1>2. inq = [o \in Owner |-> inq[o]]
  BY DEF LedgerState, AdapterInv
<1>3. ASSUME NEW o \in Owner PROVE inq'[o] = inq[o] \/ inq'[o] = Append(inq[o], m)
  BY <1>2 DEF Notify
<1>4. ASSUME NEW t \in Turn, turn[t].row, Settled(t) PROVE Settled(t)'
  <2>1. ~Live(t)' /\ t # u
    BY <1>4, StepEnds DEF EndedStayEnded, Settled
  <2>2. ASSUME NEW o \in Owner, lease.owner = o PROVE inq'[o] \in Seq(Others(t))
    <3> DEFINE S == Others(t)
    <3>1. m \in S
      BY <2>1 DEF Others
    <3>2. inq[o] \in Seq(S)
      BY <1>4, <2>2 DEF Settled
    <3> HIDE DEF S
    <3>3. inq'[o] \in Seq(S)
      BY <1>3, <3>1, <3>2, SMTT(40)
    <3> QED
      BY <3>3 DEF S
  <2> QED
    BY <1>1, <1>4, <2>1, <2>2 DEF Settled
<1> QED
  BY <1>1, <1>4 DEF QuietStep, ThreadStep, SettledStep

(* No step of Codex brings back a report of a settled turn. *)
LEMMA CodexQuiet ==
    ASSUME LedgerState, LedgerStep, CodexStep
    PROVE  QuietStep
<1>1. ASSUME KeepAdapter, inq' = inq PROVE QuietStep
  <2>1. work' = work /\ lease' = lease /\ thread' = thread
    BY <1>1 DEF KeepAdapter, leaseVars, storeVars
  <2> QED
    BY <1>1, <2>1, SameQueues DEF QuietStep, ThreadStep
<1>2. ASSUME NEW t \in Turn, NEW phase \in Phases, CodexItem(t, phase) PROVE QuietStep
  <2> DEFINE n == Len(codex[t].hist) + 1
  <2>1. Live(t) /\ KeepAdapter /\ Notify(codex[t].srv, ItemMessage(t, n)) /\ Len(codex[t].hist) < MaxItem
    BY <1>2, Zenon DEF CodexItem
  <2>2. Len(codex[t].hist) \in Nat
    BY DEF LedgerState, AdapterInv, CodexInv, History
  <2>3. n \in 0..MaxItem
    BY <2>1, <2>2, BoundAssumption
  <2> HIDE DEF n
  <2>4. ItemMessage(t, n) \in Message /\ ItemMessage(t, n).t = t
    BY <2>3 DEF ItemMessage, Message
  <2> QED
    BY <2>1, <2>4, NotifyQuiet
<1>3. ASSUME NEW t \in Turn, NEW s \in {"completed", "failed", "interrupted"}, CodexFinish(t, s) PROVE QuietStep
  <2>1. Live(t) /\ KeepAdapter /\ Notify(codex[t].srv, DoneMessage(t, s))
    BY <1>3, Zenon DEF CodexFinish
  <2>2. DoneMessage(t, s) \in Message /\ DoneMessage(t, s).t = t
    BY BoundAssumption DEF DoneMessage, Message
  <2> QED
    BY <2>1, <2>2, NotifyQuiet
<1>4. ASSUME NEW t \in Turn, CodexPersist(t) \/ CodexDrop(t) PROVE QuietStep
  BY <1>1, <1>4 DEF CodexPersist, CodexDrop
<1>5. ASSUME NEW o \in Owner, CodexRollOver(o) PROVE QuietStep
  BY <1>1, <1>5 DEF CodexRollOver
<1>6. ASSUME NEW th \in Thread, LoseThread(th) PROVE QuietStep
  BY <1>1, <1>6 DEF LoseThread
<1> QED
  BY <1>2, <1>3, <1>4, <1>5, <1>6 DEF CodexStep

(* No step of the system does. *)
LEMMA NextQuiet ==
    ASSUME LedgerState, LedgerStep, [Next]_vars
    PROVE  QuietStep
<1>1. ASSUME NEW o \in Owner, AdapterStep(o) \/ reconcile_active_turn(o) PROVE QuietStep
  BY <1>1, RecoveryQuiet, MessagesQuiet, DispatchQuiet, RelaysQuiet, LeaveQuiet, ActiveQuiet DEF AdapterStep, Stale
<1>2. ASSUME NEW o \in Owner, Crash(o) PROVE QuietStep
  BY <1>2, LeaveQuiet DEF Crash
<1>3. CASE Stall \/ (\E o \in Owner : Ingest(o)) \/ (\E a \in Attention : Elapsed(a)) \/ UNCHANGED vars
  <2>1. work' = work /\ inq' = inq
    BY <1>3, RestKept DEF Stall, Ingest, Elapsed, vars, adapterVars
  <2>2. lease'.owner = lease.owner
    BY <1>3, RestKept DEF Stall, Ingest, Elapsed, vars, leaseVars, Tick, LedgerState, LeaseInv, LeaseTypeOK
  <2>3. thread' = thread
    BY <1>3 DEF Stall, Ingest, ingest_inbox, Elapsed, BackoffElapsed, vars, storeVars
  <2> QED
    BY <2>1, <2>2, <2>3, SameQueues DEF QuietStep, ThreadStep
<1>4. CASE CodexStep
  BY <1>4, CodexQuiet
<1> QED
  BY <1>1, <1>2, <1>3, <1>4 DEF Next

-----------------------------------------------------------------------------
(* A closed room *)

(* Nothing from before the room-closed control c is pending, incomplete or  *)
(* waiting to be sent; turns that were given it are not of the room's       *)
(* thread, and those it is still open in are settled.                       *)
Cleared(c) ==
    /\ att[c].stored
    /\ \A a \in Attention : a < c => ~Pending(a)
    /\ \A t \in Turn : turn[t].row /\ ~turn[t].done => \A a \in Attached(t) : ~(a < c)
    /\ \A r \in relay : Waiting(r) => \E a \in r.op.cov : ~(a < c)
    /\ \A t \in Turn : \A a \in Attached(t) : a < c =>
          codex[t].thread # thread /\ (att[a].term = Open => Settled(t))

(* What came before a room-closed event that was accepted is over. *)
ClosedInv == \A c \in Attention : Class[c] = "closed" /\ att[c].accepted => Cleared(c)

(* No step but CloseRoom accepts a room-closed control. *)
LEMMA AcceptedBefore ==
    ASSUME LedgerInv, LedgerStep, ~\E o \in Owner : CloseRoom(o), NEW c \in Attention, Class[c] = "closed",
           att'[c].accepted
    PROVE  att[c].accepted
<1>1. CASE LedgerMoves
  BY <1>1 DEF LedgerMoves, AttentionMoves, Stays, Closes, Returns, AttentionBack, Completes
<1>2. ASSUME NEW a \in Attention, NEW t \in Turn, Accepts(a, t) PROVE att[c].accepted
  <2>1. a \in Dispatchable
    BY <1>2 DEF LedgerInv, IntentsOK, Accepts
  <2>2. a # c
    BY <2>1 DEF Dispatchable
  <2> QED
    BY <1>2, <2>2 DEF Accepts
<1>3. ASSUME NEW a \in Attention, Prepares(a) \/ Ingests(a) PROVE att[c].accepted
  BY <1>3 DEF Prepares, Ingests
<1> QED
  BY <1>1, <1>2, <1>3 DEF LedgerStep

(* What a turn has been given stays with its thread. *)
LEMMA ThreadsStay ==
    ASSUME AdapterInv, AdapterInv', LedgerStep, NEW t \in Turn, turn[t].row
    PROVE  codex'[t].thread = codex[t].thread /\ turn'[t].row /\ codex[t].thread # 0
<1>1. turn'[t].row /\ turn'[t].thread = turn[t].thread
  BY DEF LedgerStep, LedgerMoves, TurnMoves, Accepts, Prepares, Ingests
<1> QED
  BY <1>1 DEF AdapterInv, Seen

(* A settled turn is not reported. *)
LEMMA SettledUnreported ==
    ASSUME NEW t, Settled(t)
    PROVE  ~Reported(t)
<1> SUFFICES ASSUME Reported(t) PROVE FALSE
  OBVIOUS
<1>1. PICK o \in Owner : lease.owner = o /\ work[o] # <<>> /\ Head(work[o]).t = t
  BY DEF Reported
<1>2. work[o] \in Seq(Others(t))
  BY <1>1 DEF Settled
<1>3. Head(work[o]) \in Others(t)
  BY <1>1, <1>2, ReadMessages
<1> QED
  BY <1>1, <1>3 DEF Others

(* What a step joins to a turn was pending. *)
LEMMA JoinedBefore ==
    ASSUME StoreInv, LedgerInv, LedgerStep, NEW t \in Turn, NEW a \in Attached(t)'
    PROVE  a \in Attention /\ (a \in Attached(t) \/ (Pending(a) /\ \E u \in Turn : Accepts(a, u)))
<1>1. Attached(t) \subseteq Attention
  BY AttachedIn
<1>2. CASE LedgerMoves
  BY <1>1, <1>2, JoinedLess DEF LedgerMoves
<1>3. ASSUME NEW b \in Attention, NEW u \in Turn, Accepts(b, u)
      PROVE  a \in Attention /\ (a \in Attached(t) \/ (Pending(a) /\ \E v \in Turn : Accepts(a, v)))
  <2>1. Attached(t)' \subseteq Attached(t) \cup {b}
    BY <1>3 DEF Accepts, Attached
  <2>2. Pending(b)
    BY <1>3 DEF LedgerInv, IntentsOK, Accepts
  <2> QED
    BY <1>1, <1>3, <2>1, <2>2
<1>4. ASSUME NEW b \in Attention, Prepares(b) \/ Ingests(b) PROVE a \in Attached(t) /\ a \in Attention
  BY <1>1, <1>4 DEF Prepares, Ingests, Attached
<1> QED
  BY <1>2, <1>3, <1>4 DEF LedgerStep

(* It stays over in every step. *)
LEMMA ClearedKeeps ==
    ASSUME AdapterInv, AdapterInv', LedgerInv, LedgerStep, QuietStep,
           NEW c \in Attention, Class[c] = "closed", Cleared(c)
    PROVE  Cleared(c)'
<1>0. StoreInv /\ StoreInv'
  BY DEF AdapterInv
<1>1. att'[c].stored
  <2>1. att[c].stored
    BY DEF Cleared
  <2> QED
    BY <2>1 DEF LedgerStep, LedgerMoves, AttentionMoves, Stays, Closes, Returns, AttentionBack, Completes,
       Accepts, Prepares, Ingests
<1>2. ASSUME NEW t \in Turn, NEW a \in Attached(t)', a < c
      PROVE  a \in Attention /\ a \in Attached(t) /\ turn[t].row
  <2>1. a \in Attention /\ (a \in Attached(t) \/ Pending(a))
    BY <1>0, JoinedBefore
  <2>2. ~Pending(a)
    BY <1>2, <2>1 DEF Cleared
  <2> QED
    BY <2>1, <2>2 DEF LedgerInv, TurnsOK, Attached
<1>3. ASSUME NEW a \in Attention, a < c PROVE ~Pending(a)'
  <2>0. ~Pending(a) /\ att[c].stored
    BY <1>3 DEF Cleared
  <2>1. CASE LedgerMoves
    <3>1. CASE Returns(a)
      <4>1. PICK t \in Turn : a \in Attached(t) /\ codex[t].thread = thread
        BY <3>1 DEF Returns, NotRunning
      <4> QED
        BY <1>3, <4>1 DEF Cleared
    <3>2. CASE ~Returns(a)
      BY <2>0, <2>1, <3>2 DEF LedgerMoves, AttentionMoves, Stays, Closes, Completes, Pending
    <3> QED
      BY <3>1, <3>2
  <2>2. ASSUME NEW b \in Attention, NEW u \in Turn, Accepts(b, u) PROVE ~Pending(a)'
    BY <2>0, <2>2 DEF Accepts, Pending
  <2>3. ASSUME NEW b \in Attention, Prepares(b) PROVE ~Pending(a)'
    BY <2>0, <2>3 DEF Prepares, Pending
  <2>4. ASSUME NEW b \in Attention, Ingests(b) PROVE ~Pending(a)'
    <3>1. a # b
      BY <1>3, <2>0, <2>4 DEF Ingests, LedgerInv, InboxOK
    <3> QED
      BY <2>0, <2>4, <3>1 DEF Ingests, Pending
  <2> QED
    BY <2>1, <2>2, <2>3, <2>4 DEF LedgerStep
<1>4. ASSUME NEW t \in Turn, turn'[t].row, ~turn'[t].done, NEW a \in Attached(t)' PROVE ~(a < c)
  <2> SUFFICES ASSUME a < c PROVE FALSE
    OBVIOUS
  <2>1. a \in Attached(t) /\ turn[t].row
    BY <1>2
  <2>2. ~turn[t].done
    BY <1>4, <2>1 DEF LedgerStep, LedgerMoves, TurnMoves, Accepts, Prepares, Ingests
  <2> QED
    BY <2>1, <2>2 DEF Cleared
<1>5. ASSUME NEW r \in relay', Waiting(r) PROVE \E a \in r.op.cov : ~(a < c)
  <2>1. CASE r \in relay
    BY <1>5, <2>1 DEF Cleared
  <2>2. CASE r \notin relay
    <3>1. FreshOutput(r)
      BY <1>5, <2>2 DEF LedgerStep, LedgerMoves, RelayMoves, Accepts, Prepares, Ingests
    <3>2. PICK a : a \in r.op.cov
      BY <3>1 DEF FreshOutput
    <3>3. r.op.turn \in Turn /\ a \in Attached(r.op.turn) /\ att[a].term = Open /\ ~Settled(r.op.turn)
      BY <3>1, <3>2, SettledUnreported DEF FreshOutput, accepted_for_turn
    <3>4. ~(a < c)
      BY <3>3 DEF Cleared
    <3> QED
      BY <3>2, <3>4
  <2> QED
    BY <2>1, <2>2
<1>6. ASSUME NEW t \in Turn, NEW a \in Attached(t)', a < c
      PROVE  codex'[t].thread # thread' /\ (att'[a].term = Open => Settled(t)')
  <2>1. a \in Attention /\ a \in Attached(t) /\ turn[t].row
    BY <1>2, <1>6
  <2>2. codex[t].thread # thread /\ (att[a].term = Open => Settled(t))
    BY <1>6, <2>1 DEF Cleared
  <2>3. codex'[t].thread = codex[t].thread /\ codex[t].thread # 0
    BY <2>1, ThreadsStay
  <2>4. codex'[t].thread # thread'
    BY <2>2, <2>3 DEF QuietStep, ThreadStep
  <2>5. ASSUME att'[a].term = Open PROVE att[a].term = Open
    <3>1. CASE LedgerMoves
      <4>1. ~Returns(a)
        BY <1>6 DEF Returns
      <4> QED
        BY <2>1, <2>5, <3>1, <4>1 DEF LedgerMoves, AttentionMoves, Stays, Closes, Completes
    <3>2. CASE ~LedgerMoves
      BY <2>1, <2>5, <3>2 DEF LedgerStep, Accepts, Prepares, Ingests
    <3> QED
      BY <3>1, <3>2
  <2> QED
    BY <2>1, <2>2, <2>4, <2>5 DEF QuietStep, SettledStep
<1> QED
  BY <1>1, <1>3, <1>4, <1>5, <1>6 DEF Cleared

(* The room-closed control leaves nothing of the room. *)
LEMMA CloseClears ==
    ASSUME LedgerState, AdapterInv', CoverageInv, LedgerStep, NEW o \in Owner, CloseRoom(o),
           NEW c \in Attention, Class[c] = "closed", att'[c].accepted, att[c].accepted => att[c].stored
    PROVE  Cleared(c)'
<1>1. PICK d \in Attention : Select(o, d, {"closed"}) /\ Fenced(o) /\ close_room_for_control(d) /\ lease' = lease
                             /\ work' = work /\ inq' = inq
  BY Zenon DEF CloseRoom, leaseVars
<1>2. work[o] = <<>> /\ inq[o] = <<>> /\ Pending(d) /\ Class[d] = "closed" /\ lease.owner = o
  BY <1>1, FencedHolds DEF Select, At, next_pending, LedgerState
<1>3. /\ UNCHANGED <<turnAtt, intent>> /\ thread' = 0
      /\ SuppressRelays({t \in Turn : turn[t].row})
      /\ \A t \in Turn : /\ turn[t].row /\ ~turn[t].done => TurnEnds(t, "cancelled")
                         /\ ~(turn[t].row /\ ~turn[t].done) => turn'[t] = turn[t]
      /\ \A a \in Attention : a # d =>
           /\ a \in Unfinished => AttentionEnds(a, "cancelled")
           /\ a \notin Unfinished => att'[a] = att[a]
      /\ att'[d].accepted /\ att'[d].stored = att[d].stored /\ att'[d].turn = att[d].turn
  BY <1>1, CloseEffect DEF LedgerState, AdapterInv
<1>4. \A a \in Attention : att'[a].stored = att[a].stored /\ (a # d => att'[a].accepted = att[a].accepted)
  BY <1>3 DEF AttentionEnds
<1>5. att'[c].stored
  BY <1>2, <1>4 DEF Pending
<1>6. ASSUME NEW a \in Attention PROVE ~Pending(a)'
  <2>1. CASE a = d
    BY <1>3, <2>1 DEF Pending
  <2>2. CASE a # d /\ a \in Unfinished
    BY <1>3, <2>2 DEF AttentionEnds, Pending, Open
  <2>3. CASE a # d /\ a \notin Unfinished
    BY <1>3, <2>3 DEF Unfinished, Pending
  <2> QED
    BY <2>1, <2>2, <2>3
<1>7. \A t \in Turn : ~(turn'[t].row /\ ~turn'[t].done)
  BY <1>3 DEF TurnEnds
<1>8. \A r \in relay' : ~Waiting(r)
  <2> SUFFICES ASSUME NEW r \in relay', Waiting(r) PROVE FALSE
    OBVIOUS
  <2>1. RelayMoves /\ \A p \in relay' : Waiting(p) => p.op.turn \notin {t \in Turn : turn[t].row}
    BY <1>3, FewerRelays DEF StoreInv, StoreTypeOK, LedgerState, AdapterInv
  <2>2. r.op.turn \in Turn /\ turn[r.op.turn].row
    BY <2>1 DEF RelayMoves, CoverageInv, FreshOutput
  <2> QED
    BY <2>1, <2>2
<1>9. ASSUME NEW t \in Turn, NEW a \in Attached(t)'
      PROVE  codex'[t].thread # thread' /\ (att'[a].term = Open => Settled(t)')
  <2>1. a \in Attached(t) /\ a \in Attention
    BY <1>3, AttachedIn DEF Attached, LedgerState, AdapterInv
  <2>2. turn[t].row /\ att[a].stored /\ att[a].accepted /\ a # d
    BY <1>2, <2>1 DEF LedgerState, LedgerInv, JoinsOK, TurnsOK, Attached, Dispatchable
  <2>3. codex'[t].thread # thread'
    BY <1>3, <2>2, ThreadsStay DEF LedgerState
  <2>4. ASSUME att'[a].term = Open PROVE Settled(t)'
    <3>1. a \notin Unfinished
      BY <1>3, <2>1, <2>2, <2>4 DEF AttentionEnds, Open
    <3>2. att[a].term = Open /\ att[a].done
      BY <1>3, <2>1, <2>2, <2>4, <3>1 DEF Unfinished
    <3>3. ~Live(t)
      BY <2>1, <3>2 DEF LedgerState, LedgerInv, DoneOK
    <3>4. ~Live(t)'
      BY <2>2, <3>3, StepEnds DEF EndedStayEnded
    <3> QED
      BY <1>1, <1>2, <3>4, NothingRead DEF Settled
  <2> QED
    BY <2>3, <2>4
<1> QED
  BY <1>5, <1>6, <1>7, <1>8, <1>9 DEF Cleared

(* Once a room-closed event is accepted, nothing that came before it is    *)
(* pending, in an open turn, or waiting to be posted, its turns are of a   *)
(* thread the room no longer uses, and those whose attention is still open *)
(* have ended with nothing left to report; this is inductive together with *)
(* the ledger.                                                             *)
THEOREM ClosedInvariant == Spec => [](Invariants /\ CoverageInv /\ SentInv /\ ClosedInv)
<1>1. /\ Invariants /\ Invariants' /\ CoverageInv /\ ClosedInv /\ [Next]_vars => ClosedInv'
  <2> SUFFICES ASSUME Invariants, Invariants', CoverageInv, ClosedInv, [Next]_vars,
                      NEW c \in Attention, Class[c] = "closed", att'[c].accepted
               PROVE  Cleared(c)'
    BY DEF ClosedInv
  <2>1. LedgerStep /\ LedgerState /\ LedgerInv /\ AdapterInv /\ AdapterInv'
    BY NextSteps, AreFunctions DEF Invariants, LedgerState
  <2>2. QuietStep
    BY <2>1, NextQuiet
  <2>3. CASE \E o \in Owner : CloseRoom(o)
    BY <2>1, <2>3, CloseClears DEF ClosedInv, Cleared
  <2>4. CASE ~\E o \in Owner : CloseRoom(o)
    <3>1. Cleared(c)
      BY <2>1, <2>4, AcceptedBefore DEF ClosedInv
    <3> QED
      BY <2>1, <2>2, <3>1, ClearedKeeps
  <2> QED
    BY <2>3, <2>4
<1>2. Init => ClosedInv
  BY DEF Init, StoreInit, ClosedInv
<1> QED
  BY <1>1, <1>2, OutputInvariant, PTL DEF Spec

(* After the room was closed the adapter is quiet: nothing earlier is       *)
(* dispatched, running in the ledger, or relayed, however the closing raced *)
(* with notifications, recoveries and takeovers.                            *)
THEOREM ClosedIsQuiet == Spec => []ClosedRoomIsQuiet
<1>1. Invariants /\ CoverageInv /\ ClosedInv => ClosedRoomIsQuiet
  <2> SUFFICES ASSUME Invariants, CoverageInv, ClosedInv, NEW c \in Attention, Class[c] = "closed", att[c].accepted
               PROVE  /\ \A a \in Attention : a < c => ~Pending(a)
                      /\ \A t \in Turn : turn[t].row /\ ~turn[t].done => \E a \in Attached(t) : a > c
                      /\ \A r \in relay : Waiting(r) => \E a \in r.op.cov : a > c
    BY DEF ClosedRoomIsQuiet, Waiting
  <2>1. Cleared(c)
    BY DEF ClosedInv
  <2>2. ASSUME NEW t \in Turn, NEW a \in Attached(t), ~(a < c) PROVE a > c
    <3>1. a \in Attention /\ a # c
      BY AttachedIn DEF Invariants, AdapterInv, LedgerInv, JoinsOK, Dispatchable
    <3> QED
      BY <2>2, <3>1, AttentionAssumption
  <2>3. ASSUME NEW t \in Turn, turn[t].row, ~turn[t].done PROVE \E a \in Attached(t) : a > c
    <3>1. PICK a : a \in Attached(t)
      BY <2>3 DEF Invariants, LedgerInv, TurnsOK, Attached
    <3> QED
      BY <2>1, <2>2, <2>3, <3>1 DEF Cleared
  <2>4. ASSUME NEW r \in relay, Waiting(r) PROVE \E a \in r.op.cov : a > c
    <3>1. PICK a \in r.op.cov : ~(a < c)
      BY <2>1, <2>4 DEF Cleared
    <3>2. r.op.turn \in Turn /\ a \in Attached(r.op.turn)
      BY <2>4 DEF CoverageInv
    <3> QED
      BY <2>2, <3>1, <3>2
  <2> QED
    BY <2>1, <2>3, <2>4 DEF Cleared
<1> QED
  BY <1>1, ClosedInvariant, PTL

-----------------------------------------------------------------------------
(* Turns that ended with an outcome *)

(* What TerminatedTurnIsSilent excepts: attention a was bound to turn t     *)
(* again by recovery, or is a call that the reaper left open.               *)
Excepted(t, a) ==
    \/ intent[a].status = "reconciled"
    \/ turn[t].term = "interrupted" /\ a \in ReplyRequired

(* A turn that ended with an outcome has no other open attention left to    *)
(* answer.                                                                  *)
SilentTurns ==
    \A t \in Turn : turn[t].term # Open =>
        \A a \in Attached(t) : att[a].term = Open => Excepted(t, a)

(* The outcome of turn t is written only with its output suppressed and its *)
(* attentions over, but for the calls the reaper leaves open.               *)
OutcomeStep(t) ==
    turn'[t].term # Open =>
        \/ turn'[t].term = turn[t].term
        \/ /\ \A r \in relay' : Waiting(r) => r.op.turn # t
           /\ \A a \in Attached(t)' : att'[a].term = Open =>
                 turn'[t].term = "interrupted" /\ a \in ReplyRequired

(* What joins turn t was bound by recovery, unless the turn is open. *)
JoinStep(t) ==
    \A a \in Attached(t)' :
        a \in Attached(t) \/ intent'[a].status = "reconciled" \/ turn'[t].term = Open

(* A step keeps ended turns silent: outcomes, joins, and the intents that   *)
(* recovery has closed.                                                     *)
SilentStep ==
    /\ \A t \in Turn : OutcomeStep(t) /\ JoinStep(t)
    /\ \A a \in Attention : intent[a].status = "reconciled" /\ ~Pending(a) => intent'[a].status = "reconciled"

(* An attention that is joined to a turn is not pending. *)
LEMMA JoinedAccepted ==
    ASSUME StoreInv, LedgerInv, NEW t \in Turn, NEW a \in Attached(t)
    PROVE  a \in Attention /\ ~Pending(a)
  BY AttachedIn DEF LedgerInv, JoinsOK, Pending

(* An attention that stays joined to a turn and is open was open before. *)
LEMMA OpenBefore ==
    ASSUME StoreInv, LedgerInv, LedgerStep, NEW t \in Turn, NEW a \in Attached(t)', a \in Attached(t), att'[a].term = Open
    PROVE  att[a].term = Open
<1>1. a \in Attention
  BY AttachedIn
<1>2. CASE LedgerMoves
  <2>1. ~Returns(a)
    BY DEF Returns
  <2> QED
    BY <1>1, <1>2, <2>1 DEF LedgerMoves, AttentionMoves, Stays, Closes, Completes
<1>3. CASE ~LedgerMoves
  BY <1>1, <1>3 DEF LedgerStep, Accepts, Prepares, Ingests
<1> QED
  BY <1>2, <1>3

(* Ended turns gain no open attention. *)
LEMMA SilentTurnsKeep ==
    ASSUME StoreInv, LedgerInv, LedgerStep, SilentStep, SilentTurns
    PROVE  SilentTurns'
<1> SUFFICES ASSUME NEW t \in Turn, turn'[t].term # Open, NEW a \in Attached(t)', att'[a].term = Open
             PROVE  Excepted(t, a)'
  BY DEF SilentTurns
<1>1. CASE turn'[t].term = turn[t].term /\ a \in Attached(t)
  <2>1. att[a].term = Open
    BY <1>1, OpenBefore
  <2>2. Excepted(t, a) /\ a \in Attention /\ ~Pending(a)
    BY <1>1, <2>1, JoinedAccepted DEF SilentTurns
  <2> QED
    BY <1>1, <2>2 DEF SilentStep, Excepted
<1>2. CASE ~(turn'[t].term = turn[t].term /\ a \in Attached(t))
  BY <1>2 DEF SilentStep, OutcomeStep, JoinStep, Excepted
<1> QED
  BY <1>1, <1>2

(* Nor output to send. *)
LEMMA SilentOutputKeeps ==
    ASSUME StoreInv, LedgerInv, CoverageInv, LedgerStep, SilentStep, SilentTurns, TerminatedTurnIsSilent
    PROVE  TerminatedTurnIsSilent'
<1> SUFFICES ASSUME NEW t \in Turn, turn'[t].term # Open, NEW r \in relay', r.op.turn = t, Waiting(r), NEW a \in r.op.cov
             PROVE  Excepted(t, a)'
  BY DEF TerminatedTurnIsSilent, RelaysOf, Waiting, Excepted
<1>1. turn'[t].term = turn[t].term
  BY DEF SilentStep, OutcomeStep
<1>2. CASE r \in relay
  <2>1. a \in Attached(t)
    BY <1>2 DEF CoverageInv
  <2>2. Excepted(t, a)
    BY <1>1, <1>2 DEF TerminatedTurnIsSilent, RelaysOf, Waiting, Excepted
  <2>3. a \in Attention /\ ~Pending(a)
    BY <2>1, JoinedAccepted
  <2> QED
    BY <1>1, <2>2, <2>3 DEF SilentStep, Excepted
<1>3. CASE r \notin relay
  <2>1. FreshOutput(r)
    BY <1>3 DEF LedgerStep, LedgerMoves, RelayMoves, Accepts, Prepares, Ingests
  <2>2. a \in Attached(t) /\ att[a].term = Open
    BY <2>1 DEF FreshOutput, accepted_for_turn
  <2>3. Excepted(t, a) /\ a \in Attention /\ ~Pending(a)
    BY <1>1, <2>2, JoinedAccepted DEF SilentTurns
  <2> QED
    BY <1>1, <2>3 DEF SilentStep, Excepted
<1> QED
  BY <1>2, <1>3

(* A step that writes neither outcomes nor joins, and no closed intent. *)
LEMMA IntentSilent ==
    ASSUME \A t \in Turn : turn'[t].term = turn[t].term, turnAtt' = turnAtt, NEW a,
           \A b \in Attention : b # a => intent'[b] = intent[b],
           a \in Attention => intent[a].status # "reconciled" \/ Pending(a)
    PROVE  SilentStep
  BY DEF SilentStep, OutcomeStep, JoinStep, Attached

(* A step that writes none of them. *)
LEMMA QuietSilent ==
    ASSUME \A t \in Turn : turn'[t].term = turn[t].term, turnAtt' = turnAtt, intent' = intent
    PROVE  SilentStep
  BY DEF SilentStep, OutcomeStep, JoinStep, Attached

(* retry_unobserved_dispatch of an intent in flight. *)
LEMMA RetrySilent ==
    ASSUME StoreInv, NEW a \in Attention, intent[a].status = "prepared", retry_unobserved_dispatch(a)
    PROVE  SilentStep /\ turn' = turn
<1>1. turn' = turn /\ turnAtt' = turnAtt /\ \A b \in Attention : b # a => intent'[b] = intent[b]
  BY RetryEffect
<1> QED
  BY <1>1, IntentSilent

(* Turns without output that are requeued lose every attention. *)
LEMMA RequeueSilent ==
    ASSUME StoreInv, NEW X, X \subseteq Turn, RequeueTurns(X, TRUE) \/ RequeueTurns(X, FALSE),
           \A t \in X : RelaysOf(t) = {}, intent' = intent, relay' = relay
    PROVE  SilentStep /\ \A t \in Turn : t \in X \/ turn'[t] = turn[t]
<1>1. /\ \A t \in X : TurnEnds(t, "failed") /\ turnAtt'[t] = {}
      /\ \A t \in Turn : t \notin X => turn'[t] = turn[t] /\ turnAtt'[t] = turnAtt[t]
  BY RequeueParts
<1>2. ASSUME NEW t \in Turn PROVE OutcomeStep(t) /\ JoinStep(t)
  <2>1. CASE t \in X
    BY <1>1, <2>1 DEF OutcomeStep, JoinStep, Attached, RelaysOf
  <2>2. CASE t \notin X
    BY <1>1, <2>2 DEF OutcomeStep, JoinStep, Attached
  <2> QED
    BY <2>1, <2>2
<1> QED
  BY <1>1, <1>2 DEF SilentStep

(* requeue_missing_turn. *)
LEMMA MissingTurnSilent ==
    ASSUME StoreInv, NEW t \in Turn, requeue_missing_turn(t)
    PROVE  SilentStep /\ \A u \in Turn : u = t \/ turn'[u] = turn[u]
<1>1. /\ UNCHANGED <<intent, thread, relay>>
      /\ Replayable(t) => RequeueTurns({t}, TRUE)
      /\ ~Replayable(t) => UNCHANGED <<att, turn, turnAtt>>
  BY MissingTurnEffect
<1>2. CASE Replayable(t)
  <2>1. {t} \subseteq Turn /\ \A u \in {t} : RelaysOf(u) = {}
    BY <1>2 DEF Replayable
  <2>2. SilentStep /\ \A u \in Turn : u \in {t} \/ turn'[u] = turn[u]
    BY <1>1, <1>2, <2>1, RequeueSilent
  <2> QED
    BY <2>2
<1>3. CASE ~Replayable(t)
  BY <1>1, <1>3, QuietSilent
<1> QED
  BY <1>2, <1>3

(* An attention is bound to an open turn, or by recovery. *)
LEMMA AcceptSilent ==
    ASSUME NEW a \in Attention, NEW t \in Turn, Accepts(a, t),
           intent'[a].status = "reconciled" \/ (turn[t].row => turn[t].term = Open)
    PROVE  SilentStep
<1>1. \A u \in Turn : turn'[u].term = turn[u].term \/ turn'[u].term = Open
  BY DEF Accepts
<1>2. \A u \in Turn : OutcomeStep(u)
  BY <1>1 DEF OutcomeStep
<1>3. ASSUME NEW u \in Turn PROVE JoinStep(u)
  <2>1. CASE u = t
    <3>1. Attached(t)' \subseteq Attached(t) \cup {a}
      BY DEF Accepts, Attached
    <3>2. intent'[a].status = "reconciled" \/ turn'[t].term = Open
      BY DEF Accepts
    <3> QED
      BY <2>1, <3>1, <3>2 DEF JoinStep
  <2>2. CASE u # t
    BY <2>2 DEF JoinStep, Accepts, Attached
  <2> QED
    BY <2>1, <2>2
<1> QED
  BY <1>2, <1>3 DEF SilentStep, Accepts

(* The reaper interrupts turns of earlier epochs and leaves their calls open. *)
LEMMA ReapSilent ==
    ASSUME StoreInv, LedgerInv, NEW e \in Nat, reap_stale_turns_after_recovery(e)
    PROVE  SilentStep /\ \A t \in Turn : turn[t].row \/ turn'[t] = turn[t]
<1>1. /\ UNCHANGED <<turnAtt, intent, thread>> /\ SuppressRelays(StaleTurns(e))
      /\ \A t \in StaleTurns(e) : TurnEnds(t, "interrupted")
      /\ \A t \in Turn \ StaleTurns(e) : turn'[t] = turn[t]
  BY ReapEffect
<1>2. \A a \in Attention :
        /\ att[a].turn \in StaleTurns(e) /\ att[a].term = Open /\ a \notin ReplyRequired => AttentionEnds(a, "interrupted")
        /\ ~(att[a].turn \in StaleTurns(e) /\ att[a].term = Open /\ a \notin ReplyRequired) => att'[a] = att[a]
  BY ReapEffect
<1>3. \A r \in relay' : Waiting(r) => r.op.turn \notin StaleTurns(e)
  BY <1>1, FewerRelays DEF StoreInv, StoreTypeOK
<1>4. ASSUME NEW t \in Turn PROVE OutcomeStep(t) /\ JoinStep(t)
  <2>1. CASE t \in StaleTurns(e)
    <3>1. ASSUME NEW a \in Attached(t)', att'[a].term = Open PROVE a \in ReplyRequired
      <4>1. a \in Attention /\ a \in Attached(t) /\ att[a].turn = t
        BY <1>1, AttachedIn DEF Attached, LedgerInv, JoinsOK
      <4> QED
        BY <1>2, <2>1, <3>1, <4>1 DEF AttentionEnds, Open
    <3> QED
      BY <1>1, <1>3, <2>1, <3>1 DEF OutcomeStep, JoinStep, Attached, TurnEnds
  <2>2. CASE t \notin StaleTurns(e)
    BY <1>1, <2>2 DEF OutcomeStep, JoinStep, Attached
  <2> QED
    BY <2>1, <2>2
<1> QED
  BY <1>1, <1>4 DEF SilentStep, StaleTurns

(* A completed turn is open; one that ended badly takes its attentions and  *)
(* its output along.                                                        *)
LEMMA CompleteSilent ==
    ASSUME StoreInv, LedgerInv, NEW t \in Turn, NEW s, mark_turn_completed(t, s)
    PROVE  SilentStep /\ \A u \in Turn : u = t \/ turn'[u] = turn[u]
<1>1. CASE ~turn[t].row
  <2>1. UNCHANGED storeVars
    BY <1>1, Zenon DEF mark_turn_completed
  <2> QED
    BY <2>1, QuietSilent DEF storeVars
<1>2. CASE turn[t].row
  <2> DEFINE v == IF s \in Terminal THEN s ELSE Open
  <2>1. /\ UNCHANGED <<turnAtt, intent, thread>>
        /\ IF s \in Terminal THEN SuppressRelays({t}) ELSE relay' = relay
        /\ TurnEnds(t, v)
        /\ \A u \in Turn : u # t => turn'[u] = turn[u]
        /\ \A a \in Attention :
             att[a].turn = t => AttentionEnds(a, IF att[a].term = Open THEN v ELSE att[a].term)
    BY <1>2, CompleteEffect
  <2>2. ASSUME turn'[t].term # Open
        PROVE  (\A r \in relay' : Waiting(r) => r.op.turn # t) /\ \A a \in Attached(t)' : att'[a].term # Open
    <3>1. s \in Terminal /\ v = s /\ SuppressRelays({t})
      BY <2>1, <2>2 DEF TurnEnds
    <3>2. \A r \in relay' : Waiting(r) => r.op.turn # t
      BY <3>1, FewerRelays DEF StoreInv, StoreTypeOK
    <3>3. ASSUME NEW a \in Attached(t)' PROVE att'[a].term # Open
      <4>1. a \in Attention /\ att[a].turn = t
        BY <2>1, AttachedIn DEF Attached, LedgerInv, JoinsOK
      <4>2. s # Open
        BY <3>1 DEF Terminal, Open
      <4> QED
        BY <2>1, <3>1, <4>1, <4>2 DEF AttentionEnds
    <3> QED
      BY <3>2, <3>3
  <2> HIDE DEF v
  <2>3. ASSUME NEW u \in Turn PROVE OutcomeStep(u) /\ JoinStep(u)
    BY <2>1, <2>2 DEF OutcomeStep, JoinStep, Attached
  <2> QED
    BY <2>1, <2>3 DEF SilentStep
<1> QED
  BY <1>1, <1>2

(* An interrupted turn loses its protected work, and the rest is over. *)
LEMMA InterruptSilent ==
    ASSUME StoreInv, LedgerInv, NEW t \in Turn, interrupt_turn_for_control(t)
    PROVE  SilentStep
<1>1. CASE ~turn[t].row
  <2>1. UNCHANGED storeVars
    BY <1>1, Zenon DEF interrupt_turn_for_control
  <2> QED
    BY <2>1, QuietSilent DEF storeVars
<1>2. CASE turn[t].row
  <2>1. /\ UNCHANGED <<intent, thread>>
        /\ SuppressRelays({t})
        /\ \A u \in Turn : u # t => turn'[u] = turn[u] /\ turnAtt'[u] = turnAtt[u]
        /\ turnAtt'[t] = {p \in turnAtt[t] : p[1] \notin Unanswered(t)}
        /\ \A a \in Attention : a \in Attached(t) \ Unanswered(t) => AttentionEnds(a, "interrupted")
    BY <1>2, InterruptEffect
  <2>2. \A r \in relay' : Waiting(r) => r.op.turn # t
    BY <2>1, FewerRelays DEF StoreInv, StoreTypeOK
  <2>3. Attached(t)' \subseteq Attached(t) \ Unanswered(t)
    BY <2>1 DEF Attached
  <2>4. \A a \in Attached(t)' : att'[a].term # Open
    BY <2>1, <2>3, AttachedIn DEF AttentionEnds, Open
  <2>5. ASSUME NEW u \in Turn PROVE OutcomeStep(u) /\ JoinStep(u)
    <3>1. CASE u = t
      BY <2>2, <2>3, <2>4, <3>1 DEF OutcomeStep, JoinStep
    <3>2. CASE u # t
      BY <2>1, <3>2 DEF OutcomeStep, JoinStep, Attached
    <3> QED
      BY <3>1, <3>2
  <2> QED
    BY <2>1, <2>5 DEF SilentStep
<1> QED
  BY <1>1, <1>2

(* Closing the room ends what is incomplete and suppresses all output. *)
LEMMA CloseSilent ==
    ASSUME StoreInv, LedgerInv, NEW c \in Attention, Class[c] = "closed", close_room_for_control(c)
    PROVE  SilentStep
<1>1. /\ UNCHANGED <<turnAtt, intent>>
      /\ SuppressRelays({t \in Turn : turn[t].row})
      /\ \A t \in Turn : ~(turn[t].row /\ ~turn[t].done) => turn'[t] = turn[t]
      /\ \A a \in Attention : a # c /\ a \in Unfinished => AttentionEnds(a, "cancelled")
      /\ \A a \in Attention : a # c /\ a \notin Unfinished => att'[a] = att[a]
  BY CloseEffect
<1>2. \A r \in relay' : Waiting(r) => r.op.turn \notin {t \in Turn : turn[t].row}
  BY <1>1, FewerRelays DEF StoreInv, StoreTypeOK
<1>3. ASSUME NEW t \in Turn PROVE OutcomeStep(t) /\ JoinStep(t)
  <2>1. CASE turn[t].row /\ ~turn[t].done
    <3>1. ASSUME NEW a \in Attached(t)' PROVE att'[a].term # Open
      <4>1. a \in Attention /\ a \in Attached(t)
        BY <1>1, AttachedIn DEF Attached
      <4>2. a # c /\ att[a].stored /\ (att[a].term = Open => ~att[a].done)
        BY <2>1, <4>1 DEF LedgerInv, JoinsOK, DoneOK, Dispatchable
      <4> QED
        BY <1>1, <4>1, <4>2 DEF AttentionEnds, Unfinished, Open
    <3> QED
      BY <1>1, <1>2, <2>1, <3>1 DEF OutcomeStep, JoinStep, Attached
  <2>2. CASE ~(turn[t].row /\ ~turn[t].done)
    BY <1>1, <2>2 DEF OutcomeStep, JoinStep, Attached
  <2> QED
    BY <2>1, <2>2
<1> QED
  BY <1>1, <1>3 DEF SilentStep

-----------------------------------------------------------------------------
(* The process that holds the lease works on open turns *)

(* Messages that do not report the end of turn t. *)
Going(t) == {m \in Message : m.k = "done" => m.t # t}

(* Process o, at point p with memory m and the messages w to handle: while  *)
(* it has an active turn, what its server runs of the thread is open; the   *)
(* turn it is about to bind is open and its end is not waiting to be        *)
(* handled; and until recovery is over its server runs nothing the ledger   *)
(* knows or the view shows.                                                 *)
SilentAt(c, u, o, p, m, w) ==
    /\ m.active # 0 => \A t \in Turn : c[t].srv = o /\ c[t].thread = m.thread /\ u[t].row => u[t].term = Open
    /\ p = "bind" => (u[m.acc].row => u[m.acc].term = Open) /\ w \in Seq(Going(m.acc))
    /\ p \in {"reconcile", "replay"} => \A t \in Turn : c[t].srv = o => ~u[t].row /\ m.view[t].status = "absent"

SilentHolder == \A o \in Owner : lease.owner = o => SilentAt(codex, turn, o, pc[o], mem[o], work[o])

(* What the steps below start from. *)
SilentState == LedgerState /\ SilentHolder

(* A turn that was started keeps its thread and its server until it ends. *)
ServersKeep ==
    \A t \in Turn : codex[t].thread # 0 =>
        codex'[t].thread = codex[t].thread /\ codex'[t].srv \in {codex[t].srv, NoOwner}

(* The server of o runs no turn with a row. *)
NoneRun(o) == \A t \in Turn : codex[t].srv = o => ~turn[t].row

(* The turns with a row that the server of o runs were there before, with   *)
(* the same outcome.                                                        *)
Kept(o) ==
    \A t \in Turn : codex'[t].srv = o /\ turn'[t].row =>
        /\ codex[t].srv = o /\ codex'[t].thread = codex[t].thread
        /\ turn[t].row /\ turn'[t].term = turn[t].term

(* The points that SilentAt speaks of. *)
Special == {"bind", "reconcile", "replay"}

(* A step of Codex, or of a process alone, keeps threads and servers. *)
LEMMA ServersSame ==
    ASSUME codex' = codex \/ \E o : CodexGrows(o)
    PROVE  ServersKeep
  BY DEF ServersKeep, CodexGrows, Continued

(* A step keeps the turns of o if it writes only turns of other servers. *)
LEMMA KeptBy ==
    ASSUME AdapterInv, ServersKeep, NEW o \in Owner,
           \A t \in Turn : \/ turn'[t].row = turn[t].row /\ turn'[t].term = turn[t].term
                           \/ codex' = codex /\ codex[t].srv # o
    PROVE  Kept(o)
<1> SUFFICES ASSUME NEW t \in Turn, codex'[t].srv = o, turn'[t].row
             PROVE  /\ codex[t].srv = o /\ codex'[t].thread = codex[t].thread
                    /\ turn[t].row /\ turn'[t].term = turn[t].term
  BY DEF Kept
<1>1. turn'[t].row = turn[t].row /\ turn'[t].term = turn[t].term
  OBVIOUS
<1>2. codex[t].thread # 0
  BY <1>1 DEF AdapterInv, Seen
<1> QED
  BY <1>1, <1>2, NoOwnerAssumption DEF ServersKeep

(* A process that does not move stays silent while the ledger rests. *)
LEMMA SilentSame ==
    ASSUME AdapterInv, ServersKeep, turn' = turn, NEW o \in Owner, SilentAt(codex, turn, o, pc[o], mem[o], work[o])
    PROVE  SilentAt(codex', turn', o, pc[o], mem[o], work[o])
<1>1. Kept(o)
  BY KeptBy
<1>2. ASSUME NEW t \in Turn, codex'[t].srv = o, pc[o] \in {"reconcile", "replay"}
      PROVE  ~turn'[t].row /\ mem[o].view[t].status = "absent"
  <2>1. ~turn'[t].row
    BY <1>1, <1>2 DEF Kept, SilentAt
  <2>2. CASE codex[t].thread # 0
    <3>1. codex[t].srv = o
      BY <1>2, <2>2, NoOwnerAssumption DEF ServersKeep
    <3> QED
      BY <1>2, <2>1, <3>1 DEF SilentAt
  <2>3. CASE codex[t].thread = 0
    <3>1. Viewed(codex, mem[o].thread, mem[o].view)
      BY ProcessOf DEF MemoryOK
    <3> QED
      BY <2>1, <2>3, <3>1 DEF Viewed, Seen
  <2> QED
    BY <2>2, <2>3
<1>3. ASSUME mem[o].active # 0, NEW t \in Turn, codex'[t].srv = o, codex'[t].thread = mem[o].thread, turn'[t].row
      PROVE  turn'[t].term = Open
  BY <1>1, <1>3 DEF Kept, SilentAt
<1> QED
  BY <1>2, <1>3 DEF SilentAt

(* A step of process o. *)
LEMMA SilentActs ==
    ASSUME SilentState, NEW o \in Owner, lease' = lease, NEW p, NEW m, NEW w, NEW q, Acts(o, p, m, w, q), ServersKeep,
           lease.owner = o \/ turn' = turn, lease.owner = o => SilentAt(codex', turn', o, p, m, w)
    PROVE  SilentHolder'
<1> SUFFICES ASSUME NEW u \in Owner, lease.owner = u
             PROVE  SilentAt(codex', turn', u, pc'[u], mem'[u], work'[u])
  BY DEF SilentHolder
<1>1. CASE u = o
  BY <1>1 DEF Acts, Wrote
<1>2. CASE u # o
  <2>1. pc'[u] = pc[u] /\ mem'[u] = mem[u] /\ work'[u] = work[u] /\ turn' = turn
    BY <1>2 DEF Acts, Wrote
  <2>2. SilentAt(codex', turn', u, pc[u], mem[u], work[u])
    BY <2>1, SilentSame DEF SilentState, SilentHolder, LedgerState
  <2> QED
    BY <2>1, <2>2
<1> QED
  BY <1>1, <1>2

(* It leaves o with no active turn, or with one it had before. *)
LEMMA SilentMoves ==
    ASSUME SilentState, NEW o \in Owner, lease' = lease, NEW p, NEW m, NEW w, NEW q, Acts(o, p, m, w, q), ServersKeep,
           lease.owner = o \/ turn' = turn, p \notin Special,
           m.active = 0 \/ /\ mem[o].active # 0 \/ NoneRun(o)
                           /\ m.thread = mem[o].thread
                           /\ lease.owner = o => Kept(o)
    PROVE  SilentHolder'
<1>1. ASSUME lease.owner = o, m.active # 0, NEW t \in Turn, codex'[t].srv = o, codex'[t].thread = m.thread, turn'[t].row
      PROVE  turn'[t].term = Open
  BY <1>1 DEF Kept, NoneRun, SilentState, SilentHolder, SilentAt
<1>2. lease.owner = o => SilentAt(codex', turn', o, p, m, w)
  BY <1>1 DEF SilentAt, Special
<1> QED
  BY <1>2, SilentActs

(* It stays where it is. *)
LEMMA SilentStays ==
    ASSUME SilentState, NEW o \in Owner, lease' = lease, codex' = codex, NEW m, NEW w, NEW q, Acts(o, pc[o], m, w, q),
           lease.owner = o, Kept(o), m.thread = mem[o].thread, m.acc = mem[o].acc, m.view = mem[o].view,
           m.active # 0 => mem[o].active # 0 \/ NoneRun(o),
           pc[o] = "bind" => (turn'[m.acc].row => turn'[m.acc].term = Open) /\ w \in Seq(Going(m.acc))
    PROVE  SilentHolder'
<1>0. SilentAt(codex, turn, o, pc[o], mem[o], work[o])
  BY DEF SilentState, SilentHolder
<1>1. ASSUME m.active # 0, NEW t \in Turn, codex'[t].srv = o, codex'[t].thread = m.thread, turn'[t].row
      PROVE  turn'[t].term = Open
  BY <1>0, <1>1 DEF Kept, NoneRun, SilentAt
<1>2. ASSUME pc[o] \in {"reconcile", "replay"}, NEW t \in Turn, codex'[t].srv = o
      PROVE  ~turn'[t].row /\ m.view[t].status = "absent"
  BY <1>0, <1>2 DEF Kept, SilentAt
<1>3. SilentAt(codex', turn', o, pc[o], m, w)
  BY <1>1, <1>2 DEF SilentAt
<1> QED
  BY <1>3, SilentActs, ServersSame

(* A step that leaves the turns and the dispatches alone. *)
LEMMA RestSilent ==
    ASSUME SilentState, NEW o \in Owner, lease' = lease, NEW p, NEW m, NEW w, NEW q, Acts(o, p, m, w, q), ServersKeep,
           turn' = turn, turnAtt' = turnAtt, intent' = intent, p \notin Special,
           m.active = 0 \/ (mem[o].active # 0 /\ m.thread = mem[o].thread)
    PROVE  SilentStep /\ SilentHolder'
<1>1. SilentStep
  BY QuietSilent
<1>2. Kept(o)
  BY KeptBy DEF SilentState, LedgerState
<1> QED
  BY <1>1, <1>2, SilentMoves

(* What a fenced process may use. *)
LEMMA FencedSilent ==
    ASSUME SilentState, NEW o \in Owner, Fenced(o)
    PROVE  /\ lease.owner = o /\ HolderAt(pc[o], mem[o], intent, thread)
           /\ SilentAt(codex, turn, o, pc[o], mem[o], work[o])
           /\ StoreInv /\ LedgerInv /\ AdapterInv /\ Functions /\ epochOf[o] \in Nat
  BY FencedHolds DEF SilentState, SilentHolder, LedgerState, AdapterInv, LeaseInv, LeaseTypeOK

(* Resuming a thread that Codex no longer has. *)
LEMMA ResumeMissingSilent ==
    ASSUME SilentState, NEW o \in Owner, ResumeMissing(o)
    PROVE  SilentStep /\ SilentHolder'
<1>1. /\ At(o, "resume") /\ Fenced(o) /\ KeepRest
      /\ \/ \E a \in unresolved_dispatches(thread) : retry_unobserved_dispatch(a) /\ UNCHANGED pc
         \/ unresolved_dispatches(thread) = {} /\ requeue_missing_thread(thread)
  BY Zenon DEF ResumeMissing
<1>2. codex' = codex /\ lease' = lease
  BY <1>1, RestKept
<1>3. lease.owner = o /\ StoreInv /\ AdapterInv /\ Functions
  BY <1>1, FencedSilent
<1>4. Acts(o, IF unresolved_dispatches(thread) = {} THEN "replay" ELSE pc[o], mem[o], work[o], inq[o])
  BY <1>3, ResumeMissingActs
<1>5. pc[o] = "resume" /\ mem[o].active = 0 /\ mem[o].view = NoView /\ \A t \in Turn : codex[t].srv # o
  BY <1>1, <1>3, ProcessOf DEF At, PointOK, Idle
<1>6. SilentAt(codex', turn', o, "replay", mem[o], work[o]) /\ SilentAt(codex', turn', o, pc[o], mem[o], work[o])
  BY <1>2, <1>5 DEF SilentAt
<1>7. SilentHolder'
  BY <1>2, <1>3, <1>4, <1>6, SilentActs, ServersSame
<1>8. CASE \E a \in unresolved_dispatches(thread) : retry_unobserved_dispatch(a)
  BY <1>3, <1>8, RetrySilent, <1>7 DEF unresolved_dispatches
<1>9. CASE requeue_missing_thread(thread)
  <2> DEFINE X == {t \in incomplete_turn_ids(thread) : RelaysOf(t) = {}}
  <2>1. RequeueTurns(X, FALSE) /\ intent' = intent /\ relay' = relay
    BY <1>3, <1>9, MissingThreadEffect
  <2>2. X \subseteq Turn /\ \A t \in X : RelaysOf(t) = {}
    BY DEF incomplete_turn_ids
  <2> HIDE DEF X
  <2> QED
    BY <1>3, <1>7, <2>1, <2>2, RequeueSilent
<1> QED
  BY <1>1, <1>8, <1>9

(* Resuming the stored thread. *)
LEMMA ResumeThreadSilent ==
    ASSUME SilentState, NEW o \in Owner, ResumeThread(o)
    PROVE  SilentStep /\ SilentHolder'
<1> DEFINE m == PutThreadView(mem[o], thread, authoritative_turns(thread))
<1>1. At(o, "resume") /\ Fenced(o) /\ set_thread(thread) /\ KeepRest
  BY Zenon DEF ResumeThread
<1>2. codex' = codex /\ lease' = lease
  BY <1>1, RestKept
<1>3. lease.owner = o /\ AdapterInv /\ Functions
  BY <1>1, FencedSilent
<1>4. Acts(o, "reconcile", m, work[o], inq[o])
  BY <1>3, ResumeThreadActs
<1>5. mem[o].active = 0 /\ \A t \in Turn : codex[t].srv # o
  BY <1>1, <1>3, ProcessOf DEF At, PointOK, Idle
<1>6. m.active = 0
  BY <1>5 DEF PutThreadView, Memo
<1> HIDE DEF m
<1>7. SilentAt(codex', turn', o, "reconcile", m, work[o])
  BY <1>2, <1>5, <1>6 DEF SilentAt
<1>8. SilentHolder'
  BY <1>2, <1>3, <1>4, <1>7, SilentActs, ServersSame
<1>9. SilentStep
  BY <1>1, QuietSilent DEF set_thread
<1> QED
  BY <1>8, <1>9

(* Binding or giving up one dispatch that a crash left in flight. *)
LEMMA ReconcileSilent ==
    ASSUME SilentState, NEW o \in Owner, reconcile_dispatches(o)
    PROVE  SilentStep /\ SilentHolder'
<1>1. At(o, "reconcile") /\ Fenced(o) /\ KeepRest
  BY Zenon DEF reconcile_dispatches
<1>2. codex' = codex /\ lease' = lease
  BY <1>1, RestKept
<1>3. /\ lease.owner = o /\ StoreInv /\ AdapterInv /\ Functions /\ epochOf[o] \in Nat /\ pc[o] = "reconcile"
      /\ \A t \in Turn : codex[t].srv = o => mem[o].view[t].status = "absent"
  BY <1>1, FencedSilent DEF SilentAt, At
<1>4. PICK a \in unresolved_dispatches(mem[o].thread) :
        LET found == TurnsWithClient(mem[o].view, a) IN
          IF found # {} THEN finalize_dispatch(a, mem[o].thread, First(found), epochOf[o], "reconciled")
          ELSE retry_unobserved_dispatch(a)
  BY Zenon DEF reconcile_dispatches
<1>5. a \in Attention /\ intent[a].status = "prepared"
  BY DEF unresolved_dispatches
<1>6. mem[o].thread \in Thread \cup {0} /\ Viewed(codex, mem[o].thread, mem[o].view)
  BY <1>3, ProcessOf DEF MemoryOK
<1>7. SilentStep /\ Kept(o)
  <2>1. CASE TurnsWithClient(mem[o].view, a) # {}
    <3> DEFINE t == First(TurnsWithClient(mem[o].view, a))
    <3>1. finalize_dispatch(a, mem[o].thread, t, epochOf[o], "reconciled")
      BY <1>4, <2>1
    <3>2. TurnsWithClient(mem[o].view, a) \subseteq Turn
      BY DEF TurnsWithClient
    <3>3. t \in TurnsWithClient(mem[o].view, a)
      BY <2>1, <3>2, FirstIn
    <3> HIDE DEF t
    <3>4. t \in Turn /\ mem[o].view[t].status # "absent"
      BY <1>6, <3>3 DEF TurnsWithClient, Viewed
    <3>5. codex[t].srv # o /\ "reconciled" \in {"accepted", "reconciled"}
      BY <1>3, <3>4
    <3>6. Accepts(a, t) /\ intent'[a].status = "reconciled"
      BY ONLY <1>2, <1>3, <1>5, <1>6, <3>1, <3>4, <3>5, FinalizeAccepts, FinalizeEffect
    <3>7. SilentStep
      BY <1>5, <3>4, <3>6, AcceptSilent
    <3>8. \A u \in Turn : (turn'[u].row = turn[u].row /\ turn'[u].term = turn[u].term) \/ codex[u].srv # o
      BY <3>5, <3>6 DEF Accepts
    <3> QED
      BY <1>2, <1>3, <3>7, <3>8, KeptBy, ServersSame
  <2>2. CASE TurnsWithClient(mem[o].view, a) = {}
    <3>1. SilentStep /\ turn' = turn
      BY <1>3, <1>4, <1>5, <2>2, RetrySilent
    <3> QED
      BY <1>2, <1>3, <3>1, KeptBy, ServersSame
  <2> QED
    BY <2>1, <2>2
<1>8. Acts(o, pc[o], mem[o], work[o], inq[o])
  BY <1>3, ReconcileActs
<1>9. SilentHolder'
  BY <1>2, <1>3, <1>7, <1>8, SilentStays
<1> QED
  BY <1>7, <1>9

(* Adopting or requeueing one accepted turn after a restart. *)
LEMMA AdoptSilent ==
    ASSUME SilentState, NEW o \in Owner, reconcile_accepted_turns(o)
    PROVE  SilentStep /\ SilentHolder'
<1>1. At(o, "reconcile") /\ Fenced(o) /\ KeepRest
  BY Zenon DEF reconcile_accepted_turns
<1>2. codex' = codex /\ lease' = lease
  BY <1>1, RestKept
<1>3. /\ lease.owner = o /\ StoreInv /\ AdapterInv /\ Functions /\ epochOf[o] \in Nat /\ pc[o] = "reconcile"
      /\ NoneRun(o)
  BY <1>1, FencedSilent DEF SilentAt, At, NoneRun
<1>4. PICK t \in Unclassified(o) : adopt_recovered_turn(t, epochOf[o]) \/ requeue_missing_turn(t)
  BY Zenon DEF reconcile_accepted_turns
<1>5. t \in Turn /\ turn[t].row
  BY DEF Unclassified, incomplete_turn_ids
<1>6. SilentStep /\ Kept(o)
  <2>1. CASE adopt_recovered_turn(t, epochOf[o])
    <3>1. /\ \A u \in Turn : turn'[u].row = turn[u].row /\ turn'[u].term = turn[u].term
          /\ turnAtt' = turnAtt /\ intent' = intent
      BY <1>3, <1>5, <2>1, AdoptEffect
    <3> QED
      BY <1>2, <1>3, <3>1, QuietSilent, KeptBy, ServersSame
  <2>2. CASE requeue_missing_turn(t)
    <3>1. SilentStep /\ \A u \in Turn : u = t \/ turn'[u] = turn[u]
      BY <1>3, <1>5, <2>2, MissingTurnSilent
    <3>2. codex[t].srv # o
      BY <1>3, <1>5 DEF NoneRun
    <3> QED
      BY <1>2, <1>3, <3>1, <3>2, KeptBy, ServersSame
  <2> QED
    BY <1>4, <2>1, <2>2
<1>7. PICK m : /\ m.thread = mem[o].thread /\ m.acc = mem[o].acc /\ m.view = mem[o].view
               /\ Acts(o, pc[o], m, work[o], inq[o])
  <2>1. CASE Acts(o, pc[o], mem[o], work[o], inq[o])
    BY <2>1
  <2>2. CASE \E u \in Unclassified(o) :
                Acts(o, pc[o], PutActive(mem[o], IF mem[o].active = 0 THEN u ELSE mem[o].active), work[o], inq[o])
    <3>1. PICK u : Acts(o, pc[o], PutActive(mem[o], u), work[o], inq[o])
      BY <2>2
    <3>2. /\ PutActive(mem[o], u).thread = mem[o].thread /\ PutActive(mem[o], u).acc = mem[o].acc
          /\ PutActive(mem[o], u).view = mem[o].view
      BY DEF PutActive, Memo
    <3> QED
      BY <3>1, <3>2
  <2> QED
    BY <1>3, <2>1, <2>2, AdoptActs
<1>8. SilentHolder'
  BY <1>2, <1>3, <1>6, <1>7, SilentStays
<1> QED
  BY <1>6, <1>8

(* Replaying the recorded items of running and unfinished turns. *)
LEMMA ReplaySilent ==
    ASSUME SilentState, NEW o \in Owner, ReplayHistory(o)
    PROVE  SilentStep /\ SilentHolder'
<1>1. At(o, "reconcile") /\ UNCHANGED storeVars /\ KeepRest
  BY Zenon DEF ReplayHistory
<1>2. codex' = codex /\ lease' = lease /\ turn' = turn /\ turnAtt' = turnAtt /\ intent' = intent
  BY <1>1, RestKept DEF storeVars
<1>3. PICK v, w : Acts(o, "replay", PutViewActive(mem[o], NoView, v), w, inq[o])
  BY ReplayActs DEF SilentState, LedgerState
<1> DEFINE m == PutViewActive(mem[o], NoView, v)
<1>4. m.view = NoView /\ Acts(o, "replay", m, w, inq[o])
  BY <1>3 DEF PutViewActive, Memo
<1> HIDE DEF m
<1>5. ASSUME lease.owner = o PROVE SilentAt(codex', turn', o, "replay", m, w)
  <2>1. \A t \in Turn : codex[t].srv = o => ~turn[t].row
    BY <1>1, <1>5 DEF SilentState, SilentHolder, SilentAt, At
  <2>2. \A t \in Turn : m.view[t].status = "absent"
    BY <1>4 DEF NoView
  <2> QED
    BY <1>2, <2>1, <2>2 DEF SilentAt
<1>6. SilentHolder'
  BY <1>2, <1>4, <1>5, SilentActs, ServersSame
<1> QED
  BY <1>2, <1>6, QuietSilent

(* Reaping the turns of earlier epochs at the end of recovery. *)
LEMMA ReapsSilent ==
    ASSUME SilentState, NEW o \in Owner, Reap(o)
    PROVE  SilentStep /\ SilentHolder'
<1>1. pc[o] \in {"replay", "resume"} /\ Fenced(o) /\ reap_stale_turns_after_recovery(epochOf[o]) /\ KeepRest
  BY Zenon DEF Reap, At
<1>2. codex' = codex /\ lease' = lease
  BY <1>1, RestKept
<1>3. /\ lease.owner = o /\ StoreInv /\ LedgerInv /\ AdapterInv /\ Functions /\ epochOf[o] \in Nat
      /\ pc[o] = "replay" => NoneRun(o)
  BY <1>1, FencedSilent DEF SilentAt, NoneRun
<1>4. pc[o] = "resume" => NoneRun(o)
  BY <1>3, ProcessOf DEF PointOK, Idle, NoneRun
<1>5. NoneRun(o)
  BY <1>1, <1>3, <1>4
<1>6. SilentStep /\ \A t \in Turn : turn[t].row \/ turn'[t] = turn[t]
  BY <1>1, <1>3, ReapSilent
<1>7. Kept(o)
  BY <1>2, <1>3, <1>5, <1>6, KeptBy, ServersSame DEF NoneRun
<1>8. Acts(o, "run", mem[o], work[o], inq[o])
  BY <1>3, ReapActs
<1>9. SilentHolder'
  BY <1>2, <1>3, <1>5, <1>7, <1>8, SilentMoves, ServersSame DEF Special
<1> QED
  BY <1>6, <1>9

(* Claiming the lease and starting the server. *)
LEMMA StartSilent ==
    ASSUME SilentState, NEW o \in Owner, Start(o)
    PROVE  SilentStep /\ SilentHolder'
<1>1. UNCHANGED storeVars /\ codex' = codex /\ lease'.owner = o /\ pc[o] = "new"
  BY DEF Start, codexVars, claim_lease
<1>2. Acts(o, "resume", mem[o], work[o], inq[o])
  BY StartActs DEF SilentState, LedgerState
<1>3. mem[o].active = 0
  BY <1>1, ProcessOf DEF SilentState, LedgerState, PointOK, Idle
<1>4. SilentAt(codex', turn', o, pc'[o], mem'[o], work'[o])
  BY <1>2, <1>3 DEF Acts, Wrote, SilentAt
<1>5. SilentHolder'
  BY <1>1, <1>4 DEF SilentHolder
<1> QED
  BY <1>1, <1>5, QuietSilent DEF storeVars

(* Every step of recovery keeps ended turns silent. *)
LEMMA RecoverySilent ==
    ASSUME SilentState, NEW o \in Owner, Recovery(o)
    PROVE  SilentStep /\ SilentHolder'
  BY StartSilent, ResumeMissingSilent, ResumeThreadSilent, ReconcileSilent, AdoptSilent, ReplaySilent, ReapsSilent
     DEF Recovery

-----------------------------------------------------------------------------
(* The holder handles messages *)

(* What is left of the messages after the first still leaves turn t open. *)
LEMMA GoingOn ==
    ASSUME NEW t, NEW s \in Seq(Going(t)), s # <<>>, NEW w,
           \/ w = Tail(s) \/ w = s
           \/ w = <<NoReplyMessage(Head(s).t)>> \o Tail(s)
    PROVE  w \in Seq(Going(t))
<1>1. Head(s) \in Going(t) /\ Tail(s) \in Seq(Going(t)) /\ \A x \in Going(t) : <<x>> \o Tail(s) \in Seq(Going(t))
  BY ReadMessages
<1>2. NoReplyMessage(Head(s).t) \in Going(t)
  BY <1>1, BoundAssumption DEF Going, NoReplyMessage, Message
<1> QED
  BY <1>1, <1>2

(* Handling a message without writing a turn. *)
LEMMA HandledSilent ==
    ASSUME SilentState, NEW o \in Owner, Fenced(o), lease' = lease, codex' = codex, work[o] # <<>>, NEW w, NEW q,
           Acts(o, pc[o], mem[o], w, q), turn' = turn, turnAtt' = turnAtt, intent' = intent,
           w = Tail(work[o]) \/ w = work[o] \/ w = <<NoReplyMessage(Head(work[o]).t)>> \o Tail(work[o])
    PROVE  SilentStep /\ SilentHolder'
<1>1. lease.owner = o /\ AdapterInv /\ SilentAt(codex, turn, o, pc[o], mem[o], work[o])
  BY FencedSilent
<1>2. Kept(o)
  BY <1>1, KeptBy, ServersSame
<1>3. pc[o] = "bind" => (turn'[mem[o].acc].row => turn'[mem[o].acc].term = Open) /\ w \in Seq(Going(mem[o].acc))
  BY <1>1, GoingOn DEF SilentAt
<1> QED
  BY <1>1, <1>2, <1>3, SilentStays, QuietSilent

(* Handling one agent item. *)
LEMMA ItemSilent ==
    ASSUME SilentState, NEW o \in Owner, handle_agent_item(o)
    PROVE  SilentStep /\ SilentHolder'
<1>1. work[o] # <<>> /\ Fenced(o) /\ KeepRest
  BY Zenon DEF handle_agent_item, Handling
<1>2. codex' = codex /\ lease' = lease
  BY <1>1, RestKept
<1>3. turn' = turn /\ turnAtt' = turnAtt /\ intent' = intent
  <2>1. UNCHANGED storeVars \/ \E t, i, k, cov, s : create_output(t, i, FALSE, k, cov, s)
    BY Zenon DEF handle_agent_item
  <2>2. ASSUME NEW t, NEW i, NEW k, NEW cov, NEW s, create_output(t, i, FALSE, k, cov, s)
        PROVE  UNCHANGED <<turn, turnAtt, intent>>
    <3>1. UNCHANGED storeVars \/ create_relay_item(Op(t, i, FALSE, k, cov), s)
      BY <2>2 DEF create_output
    <3> QED
      BY ONLY <3>1 DEF storeVars, create_relay_item
  <2> QED
    BY ONLY <2>1, <2>2 DEF storeVars
<1>4. PICK w : /\ w = Tail(work[o]) \/ w = <<NoReplyMessage(Head(work[o]).t)>> \o Tail(work[o])
               /\ Acts(o, pc[o], mem[o], w, inq[o])
  BY ItemActs DEF SilentState, LedgerState
<1> QED
  BY <1>1, <1>2, <1>3, <1>4, HandledSilent

(* Handling the marker of a turn that will not reply. *)
LEMMA NoReplySilent ==
    ASSUME SilentState, NEW o \in Owner, HandleNoReply(o)
    PROVE  SilentStep /\ SilentHolder'
<1>1. work[o] # <<>> /\ Fenced(o) /\ KeepRest /\ mark_turn_no_reply(Head(work[o]).t)
  BY Zenon DEF HandleNoReply, Handling
<1>2. codex' = codex /\ lease' = lease
  BY <1>1, RestKept
<1>3. turn' = turn /\ turnAtt' = turnAtt /\ intent' = intent
  BY <1>1 DEF mark_turn_no_reply
<1>4. Acts(o, pc[o], mem[o], Tail(work[o]), inq[o])
  BY NoReplyActs DEF SilentState, LedgerState
<1> QED
  BY <1>1, <1>2, <1>3, <1>4, HandledSilent

(* Promoting the held candidate of a turn to its final output. *)
LEMMA PromoteSilent ==
    ASSUME SilentState, NEW o \in Owner, PromoteCandidate(o)
    PROVE  SilentStep /\ SilentHolder'
<1>1. work[o] # <<>> /\ Fenced(o) /\ KeepRest
  BY Zenon DEF PromoteCandidate, Handling
<1>2. codex' = codex /\ lease' = lease
  BY <1>1, RestKept
<1>3. turn' = turn /\ turnAtt' = turnAtt /\ intent' = intent
  BY DEF PromoteCandidate, storeVars, create_output, create_relay_item
<1>4. Acts(o, pc[o], mem[o], work[o], inq[o])
  BY ReconcileActs DEF SilentState, LedgerState
<1> QED
  BY <1>1, <1>2, <1>3, <1>4, HandledSilent

(* Handling a turn/completed notification: the turn has left its server, *)
(* and is not the one about to be bound.                                 *)
LEMMA DoneSilent ==
    ASSUME SilentState, NEW o \in Owner, handle_turn_completed(o)
    PROVE  SilentStep /\ SilentHolder'
<1> DEFINE h == Head(work[o])
           v == IF mem[o].active = h.t THEN 0 ELSE mem[o].active
           m == PutActive(mem[o], v)
<1>1. work[o] # <<>> /\ Fenced(o) /\ h.k = "done" /\ mark_turn_completed(h.t, h.status) /\ KeepRest
  BY Zenon DEF handle_turn_completed, Handling
<1>2. codex' = codex /\ lease' = lease
  BY <1>1, RestKept
<1>3. /\ lease.owner = o /\ StoreInv /\ LedgerInv /\ AdapterInv /\ Functions
      /\ SilentAt(codex, turn, o, pc[o], mem[o], work[o])
  BY <1>1, FencedSilent
<1>4. h \in Known(codex) /\ h.t \in Turn
  BY <1>1, <1>3, HeadKnown
<1>5. Acts(o, pc[o], m, Tail(work[o]), inq[o])
  BY <1>3, DoneActs
<1>6. pc[o] = "bind" => h \in Going(mem[o].acc) /\ Tail(work[o]) \in Seq(Going(mem[o].acc))
  BY <1>1, <1>3, ReadMessages DEF SilentAt
<1> HIDE DEF h
<1>7. codex[h.t].srv # o
  BY <1>1, <1>4, NoOwnerAssumption DEF Known
<1>8. SilentStep /\ \A u \in Turn : u = h.t \/ turn'[u] = turn[u]
  <2>1. PICK t, s : t = h.t /\ t \in Turn /\ mark_turn_completed(t, s)
    BY <1>1, <1>4, Zenon
  <2> QED
    BY ONLY <1>3, <2>1, CompleteSilent
<1>9. Kept(o)
  BY <1>2, <1>3, <1>7, <1>8, KeptBy, ServersSame
<1>10. m.thread = mem[o].thread /\ m.acc = mem[o].acc /\ m.view = mem[o].view /\ (m.active # 0 => mem[o].active # 0)
  BY DEF PutActive, Memo
<1> HIDE DEF m
<1>11. pc[o] = "bind" => (turn'[m.acc].row => turn'[m.acc].term = Open) /\ Tail(work[o]) \in Seq(Going(m.acc))
  <2> SUFFICES ASSUME pc[o] = "bind"
               PROVE  (turn'[m.acc].row => turn'[m.acc].term = Open) /\ Tail(work[o]) \in Seq(Going(m.acc))
    OBVIOUS
  <2>1. mem[o].acc \in Turn
    BY <1>3, ProcessOf DEF PointOK
  <2>2. mem[o].acc # h.t
    BY <1>1, <1>6 DEF Going
  <2> QED
    BY <1>3, <1>6, <1>8, <1>10, <2>1, <2>2 DEF SilentAt
<1>12. SilentHolder'
  BY <1>2, <1>3, <1>5, <1>9, <1>10, <1>11, SilentStays
<1> QED
  BY <1>8, <1>12

(* Reading the queue of notifications. *)
LEMMA DrainSilent ==
    ASSUME SilentState, NEW o \in Owner, drain_messages(o)
    PROVE  SilentStep /\ SilentHolder'
<1>1. UNCHANGED storeVars /\ codex' = codex /\ lease' = lease /\ pc[o] \in {"run", "relay"}
  BY DEF drain_messages, codexVars, leaseVars, At
<1>2. Acts(o, pc[o], mem[o], inq[o], <<>>)
  BY DrainActs DEF SilentState, LedgerState
<1> QED
  BY <1>1, <1>2, RestSilent, ServersSame DEF Special, storeVars

(* Every message the holder handles keeps ended turns silent. *)
LEMMA MessagesSilent ==
    ASSUME SilentState, NEW o \in Owner, Messages(o)
    PROVE  SilentStep /\ SilentHolder'
  BY ItemSilent, NoReplySilent, PromoteSilent, DoneSilent, DrainSilent DEF Messages

-----------------------------------------------------------------------------
(* The holder dispatches *)

(* Storing one event of the inbox. *)
LEMMA IngestSilent ==
    ASSUME SilentState, NEW o \in Owner, Ingest(o)
    PROVE  SilentStep /\ SilentHolder'
<1>1. At(o, "run") /\ ingest_inbox /\ KeepRest
  BY Zenon DEF Ingest
<1>2. codex' = codex /\ lease' = lease
  BY <1>1, RestKept
<1>3. turn' = turn /\ turnAtt' = turnAtt /\ intent' = intent /\ pc[o] = "run"
  BY <1>1 DEF ingest_inbox, At
<1>4. Acts(o, pc[o], mem[o], work[o], inq[o])
  BY ReconcileActs DEF SilentState, LedgerState
<1> QED
  BY <1>2, <1>3, <1>4, RestSilent, ServersSame DEF Special

(* Requeueing the active turn, which the server does not run. *)
LEMMA MissingActive ==
    ASSUME SilentState, NEW o \in Owner, Fenced(o), codex' = codex, mem[o].active # 0, IdleServer(o, mem[o].thread),
           requeue_missing_turn(mem[o].active)
    PROVE  SilentStep /\ Kept(o)
<1>1. StoreInv /\ AdapterInv
  BY FencedSilent
<1>2. mem[o].active \in Turn /\ codex[mem[o].active].thread = mem[o].thread
  BY <1>1, ProcessOf DEF MemoryOK, Seen
<1>3. SilentStep /\ \A u \in Turn : u = mem[o].active \/ turn'[u] = turn[u]
  BY <1>1, <1>2, MissingTurnSilent
<1>4. codex[mem[o].active].srv # o
  BY <1>2 DEF IdleServer
<1>5. Kept(o)
  BY <1>1, <1>3, <1>4, KeptBy, ServersSame
<1> QED
  BY <1>3, <1>5

(* Reconciling the active turn when its notifications stop. *)
LEMMA ActiveSilent ==
    ASSUME SilentState, NEW o \in Owner, reconcile_active_turn(o)
    PROVE  SilentStep /\ SilentHolder'
<1>1. Fenced(o) /\ KeepRest /\ mem[o].active # 0 /\ pc[o] = "run"
  BY Zenon DEF reconcile_active_turn, At
<1>2. codex' = codex /\ lease' = lease
  BY <1>1, RestKept
<1>3. CASE UNCHANGED storeVars /\ \E w : Acts(o, pc[o], mem[o], w, inq[o])
  BY <1>1, <1>2, <1>3, RestSilent, ServersSame DEF Special, storeVars
<1>4. CASE /\ IdleServer(o, mem[o].thread) /\ requeue_missing_turn(mem[o].active)
           /\ Acts(o, pc[o], PutActive(mem[o], 0), work[o], inq[o])
  <2> DEFINE m == PutActive(mem[o], 0)
  <2>1. SilentStep /\ lease.owner = o
    BY <1>1, <1>2, <1>4, MissingActive, FencedSilent
  <2>2. m.active = 0 /\ Acts(o, pc[o], m, work[o], inq[o])
    BY <1>4 DEF PutActive, Memo
  <2> HIDE DEF m
  <2>3. SilentHolder'
    BY <1>1, <1>2, <2>1, <2>2, SilentMoves, ServersSame DEF Special
  <2> QED
    BY <2>1, <2>3
<1> QED
  BY <1>3, <1>4, ActiveActs DEF SilentState, LedgerState

(* Retiring a legacy context event. *)
LEMMA LegacySilent ==
    ASSUME SilentState, NEW o \in Owner, DispatchLegacy(o)
    PROVE  SilentStep /\ SilentHolder'
<1>1. PICK a \in Attention : retire_legacy_context(a) /\ KeepRest
  BY Zenon DEF DispatchLegacy
<1>2. codex' = codex /\ lease' = lease
  BY <1>1, RestKept
<1>3. turn' = turn /\ turnAtt' = turnAtt /\ intent' = intent
  BY <1>1 DEF retire_legacy_context
<1>4. PICK p \in {"relay", "run"} : Acts(o, p, mem[o], work[o], inq[o])
  BY LegacyActs DEF SilentState, LedgerState
<1> QED
  BY <1>2, <1>3, <1>4, RestSilent, ServersSame DEF Special

(* Starting and storing a new thread. *)
LEMMA ThreadSilent ==
    ASSUME SilentState, NEW o \in Owner, create_thread(o)
    PROVE  SilentStep /\ SilentHolder'
<1>1. At(o, "run") /\ KeepRest
  BY Zenon DEF create_thread, Select
<1>2. codex' = codex /\ lease' = lease /\ pc[o] = "run"
  BY <1>1, RestKept DEF At
<1>3. PICK th : /\ mem[o].thread = 0 /\ set_thread(th)
                /\ Acts(o, pc[o], PutThread(mem[o], th), work[o], inq[o])
  BY ThreadActs DEF SilentState, LedgerState
<1>4. mem[o].active = 0
  BY <1>3, ProcessOf DEF SilentState, LedgerState, MemoryOK, Seen
<1>5. turn' = turn /\ turnAtt' = turnAtt /\ intent' = intent
  BY <1>3 DEF set_thread
<1> DEFINE m == PutThread(mem[o], th)
<1>6. m.active = 0 /\ Acts(o, pc[o], m, work[o], inq[o])
  BY <1>3, <1>4 DEF PutThread, Memo
<1> HIDE DEF m
<1> QED
  BY <1>2, <1>5, <1>6, RestSilent, ServersSame DEF Special

(* Recording the intent to dispatch an attention. *)
LEMMA PrepareSilent ==
    ASSUME SilentState, NEW o \in Owner, PrepareDispatch(o)
    PROVE  SilentStep /\ SilentHolder'
<1>1. Fenced(o) /\ KeepRest
  BY Zenon DEF PrepareDispatch
<1>2. codex' = codex /\ lease' = lease /\ lease.owner = o /\ AdapterInv /\ StoreInv
  BY <1>1, RestKept, FencedSilent
<1>3. PICK a \in Attention : /\ Select(o, a, {"task", "direct", "chat"}) /\ mem[o].thread # 0
                             /\ prepare_dispatch(a, mem[o].thread)
                             /\ Acts(o, "rpc", PutCur(mem[o], a), work[o], inq[o])
  BY PrepareActs DEF SilentState, LedgerState
<1>4. mem[o].thread \in Thread
  BY <1>2, <1>3, ProcessOf DEF MemoryOK
<1>5. turn' = turn /\ turnAtt' = turnAtt /\ \A b \in Attention : b # a => intent'[b] = intent[b]
  BY <1>2, <1>3, <1>4, PrepareEffect
<1>6. SilentStep
  BY <1>3, <1>5, IntentSilent DEF Select, next_pending
<1> DEFINE m == PutCur(mem[o], a)
<1>7. m.thread = mem[o].thread /\ m.active = mem[o].active /\ Acts(o, "rpc", m, work[o], inq[o])
  BY <1>3 DEF PutCur, Memo
<1> HIDE DEF m
<1>8. Kept(o)
  BY <1>2, <1>5, KeptBy, ServersSame
<1>9. SilentHolder'
  BY <1>2, <1>7, <1>8, SilentMoves, ServersSame DEF Special
<1> QED
  BY <1>6, <1>9

(* An accepted turn/start: the new turn has no row, and the server ran no *)
(* other of the thread.                                                   *)
LEMMA StartTurnSilent ==
    ASSUME SilentState, NEW o \in Owner, StartTurn(o)
    PROVE  SilentStep /\ SilentHolder'
<1>1. UNCHANGED storeVars /\ lease' = lease /\ work[o] = <<>> /\ IdleServer(o, mem[o].thread)
  BY DEF StartTurn, leaseVars, At
<1>2. turn' = turn /\ turnAtt' = turnAtt /\ intent' = intent
  BY <1>1 DEF storeVars
<1>3. ServersKeep /\ AdapterInv
  BY StartTurnKeeps, ServersSame DEF SilentState, LedgerState
<1>4. PICK t \in Turn : codex[t].thread = 0 /\ Acts(o, "bind", PutActiveAcc(mem[o], t, t), work[o], inq[o])
  BY StartTurnActs DEF SilentState, LedgerState, NewTurn
<1> DEFINE m == PutActiveAcc(mem[o], t, t)
<1>5. m.thread = mem[o].thread /\ m.acc = t /\ Acts(o, "bind", m, work[o], inq[o])
  BY <1>4 DEF PutActiveAcc, Memo
<1> HIDE DEF m
<1>6. ~turn'[t].row
  BY <1>2, <1>3, <1>4 DEF AdapterInv, Seen
<1>7. Kept(o)
  BY <1>2, <1>3, KeptBy
<1>8. \A u \in Turn : ~(codex'[u].srv = o /\ codex'[u].thread = m.thread /\ turn'[u].row)
  BY <1>1, <1>5, <1>7 DEF Kept, IdleServer
<1>9. SilentAt(codex', turn', o, "bind", m, work[o])
  BY <1>1, <1>5, <1>6, <1>8, NothingRead DEF SilentAt
<1>10. SilentHolder'
  BY <1>1, <1>2, <1>3, <1>5, <1>9, SilentActs
<1> QED
  BY <1>2, <1>10, QuietSilent

(* An accepted turn/steer: the active turn runs, so it is open and its end *)
(* was not reported.                                                       *)
LEMMA SteerSilent ==
    ASSUME SilentState, NEW o \in Owner, SteerTurn(o)
    PROVE  SilentStep /\ SilentHolder'
<1> DEFINE m == PutAcc(mem[o], mem[o].active)
<1>1. /\ UNCHANGED storeVars /\ lease' = lease /\ mem[o].active # 0
      /\ codex[mem[o].active].srv = o /\ codex[mem[o].active].thread = mem[o].thread
  BY DEF SteerTurn, leaseVars, AtSteer
<1>2. turn' = turn /\ turnAtt' = turnAtt /\ intent' = intent
  BY <1>1 DEF storeVars
<1>3. ServersKeep /\ AdapterInv
  BY SteerKeeps, ServersSame DEF SilentState, LedgerState
<1>4. Acts(o, "bind", m, inq[o], <<>>)
  BY SteerActs DEF SilentState, LedgerState
<1>5. m.thread = mem[o].thread /\ m.acc = mem[o].active /\ m.active = mem[o].active
  BY DEF PutAcc, Memo
<1> HIDE DEF m
<1>6. mem[o].active \in Turn /\ inq[o] \in Seq(Known(codex))
  BY <1>1, <1>3, ProcessOf DEF MemoryOK
<1>7. Known(codex) \subseteq Going(mem[o].active)
  BY <1>1, NoOwnerAssumption DEF Known, Going
<1>8. inq[o] \in Seq(Going(mem[o].active))
  BY <1>6, <1>7, SeqGrows
<1>9. Kept(o)
  BY <1>2, <1>3, KeptBy
<1>10. ASSUME lease.owner = o PROVE SilentAt(codex', turn', o, "bind", m, inq[o])
  <2>1. SilentAt(codex, turn, o, pc[o], mem[o], work[o])
    BY <1>10 DEF SilentState, SilentHolder
  <2>2. turn'[m.acc].row => turn'[m.acc].term = Open
    BY <1>1, <1>2, <1>5, <1>6, <2>1 DEF SilentAt
  <2>3. ASSUME NEW t \in Turn, codex'[t].srv = o, codex'[t].thread = m.thread, turn'[t].row PROVE turn'[t].term = Open
    BY <1>1, <1>5, <1>9, <2>1, <2>3 DEF Kept, SilentAt
  <2> QED
    BY <1>5, <1>8, <2>2, <2>3 DEF SilentAt
<1>11. SilentHolder'
  BY <1>1, <1>2, <1>3, <1>4, <1>10, SilentActs
<1> QED
  BY <1>2, <1>11, QuietSilent

(* A steer refused because another turn is active. *)
LEMMA MismatchSilent ==
    ASSUME SilentState, NEW o \in Owner, SteerMismatch(o)
    PROVE  SilentStep /\ SilentHolder'
<1>1. UNCHANGED storeVars /\ KeepRest /\ mem[o].active # 0
  BY Zenon DEF SteerMismatch
<1>2. codex' = codex /\ lease' = lease /\ turn' = turn /\ turnAtt' = turnAtt /\ intent' = intent
  BY <1>1, RestKept DEF storeVars
<1>3. PICK t \in Turn : Acts(o, "retry", PutActive(mem[o], t), work[o], inq[o])
  BY MismatchActs DEF SilentState, LedgerState
<1> DEFINE m == PutActive(mem[o], t)
<1>4. m.thread = mem[o].thread /\ Acts(o, "retry", m, work[o], inq[o])
  BY <1>3 DEF PutActive, Memo
<1> HIDE DEF m
<1> QED
  BY <1>1, <1>2, <1>4, RestSilent, ServersSame DEF Special

(* Binding an accepted dispatch to its turn, which is open. *)
LEMMA BindSilent ==
    ASSUME SilentState, NEW o \in Owner, BindDispatch(o)
    PROVE  SilentStep /\ SilentHolder'
<1>1. pc[o] = "bind" /\ Fenced(o) /\ KeepRest
      /\ finalize_dispatch(mem[o].cur, mem[o].thread, mem[o].acc, epochOf[o], "accepted")
  BY Zenon DEF BindDispatch, At
<1>2. codex' = codex /\ lease' = lease
  BY <1>1, RestKept
<1>3. /\ lease.owner = o /\ StoreInv /\ AdapterInv /\ Functions /\ epochOf[o] \in Nat
      /\ HolderAt(pc[o], mem[o], intent, thread) /\ SilentAt(codex, turn, o, pc[o], mem[o], work[o])
  BY <1>1, FencedSilent
<1>4. mem[o].cur \in Attention /\ mem[o].acc \in Turn /\ mem[o].thread \in Thread \cup {0}
  BY <1>1, <1>3, ProcessOf DEF PointOK, MemoryOK, Busy
<1>5. intent[mem[o].cur].status = "prepared" /\ (turn[mem[o].acc].row => turn[mem[o].acc].term = Open)
  BY <1>1, <1>3 DEF HolderAt, Busy, SilentAt
<1>6. PICK p \in {"relay", "run"} : Acts(o, p, PutCurAcc(mem[o], 0, 0), work[o], inq[o])
  BY <1>3, BindActs
<1>7. PICK a \in Attention, t \in Turn : Accepts(a, t) /\ (turn[t].row => turn[t].term = Open)
  <2>1. PICK a \in Attention, t \in Turn :
          /\ finalize_dispatch(a, mem[o].thread, t, epochOf[o], "accepted")
          /\ intent[a].status = "prepared" /\ (turn[t].row => turn[t].term = Open)
    BY <1>1, <1>4, <1>5, Zenon
  <2>2. "accepted" \in {"accepted", "reconciled"}
    OBVIOUS
  <2> QED
    BY ONLY <1>2, <1>3, <1>4, <2>1, <2>2, FinalizeAccepts
<1>8. SilentStep
  BY <1>7, AcceptSilent
<1> DEFINE m == PutCurAcc(mem[o], 0, 0)
<1>9. m.thread = mem[o].thread /\ m.active = mem[o].active /\ Acts(o, p, m, work[o], inq[o])
  BY <1>6 DEF PutCurAcc, Memo
<1> HIDE DEF m
<1>10. ASSUME m.active # 0, NEW u \in Turn, codex'[u].srv = o, codex'[u].thread = m.thread, turn'[u].row
       PROVE  turn'[u].term = Open
  <2>1. CASE u = t
    BY <1>7, <2>1 DEF Accepts
  <2>2. CASE u # t
    BY <1>2, <1>3, <1>7, <1>9, <1>10, <2>2 DEF Accepts, SilentAt
  <2> QED
    BY <2>1, <2>2
<1>11. SilentAt(codex', turn', o, p, m, work[o])
  BY <1>6, <1>10 DEF SilentAt
<1>12. SilentHolder'
  BY <1>2, <1>3, <1>9, <1>11, SilentActs, ServersSame
<1> QED
  BY <1>8, <1>12

(* A refused call. *)
LEMMA RejectSilent ==
    ASSUME SilentState, NEW o \in Owner, RpcRejected(o)
    PROVE  SilentStep /\ SilentHolder'
<1> DEFINE m == PutNow(mem[o], FALSE)
<1>1. UNCHANGED storeVars /\ KeepRest
  BY DEF RpcRejected
<1>2. codex' = codex /\ lease' = lease /\ turn' = turn /\ turnAtt' = turnAtt /\ intent' = intent
  BY <1>1, RestKept DEF storeVars
<1>3. Acts(o, "rejected", m, work[o], inq[o])
  BY RejectActs DEF SilentState, LedgerState
<1>4. m.thread = mem[o].thread /\ m.active = mem[o].active
  BY DEF PutNow, Memo
<1> HIDE DEF m
<1> QED
  BY <1>2, <1>3, <1>4, RestSilent, ServersSame DEF Special

(* A steer refused because no turn is active. *)
LEMMA InactiveSilent ==
    ASSUME SilentState, NEW o \in Owner, SteerInactive(o)
    PROVE  SilentStep /\ SilentHolder'
<1>1. Fenced(o) /\ KeepRest /\ mem[o].active # 0 /\ IdleServer(o, mem[o].thread)
  BY DEF SteerInactive, AtSteer
<1>2. codex' = codex /\ lease' = lease
  BY <1>1, RestKept
<1>3. CASE UNCHANGED storeVars /\ \E w : Acts(o, "rejected", PutNow(mem[o], TRUE), w, inq[o])
  <2> DEFINE m == PutNow(mem[o], TRUE)
  <2>1. PICK w : Acts(o, "rejected", m, w, inq[o])
    BY <1>3
  <2>2. m.thread = mem[o].thread /\ m.active = mem[o].active
    BY DEF PutNow, Memo
  <2> HIDE DEF m
  <2> QED
    BY <1>2, <1>3, <2>1, <2>2, RestSilent, ServersSame DEF Special, storeVars
<1>4. CASE /\ requeue_missing_turn(mem[o].active)
           /\ \E n, v : Acts(o, "rejected", PutNowActive(mem[o], n, v), work[o], inq[o])
  <2>1. SilentStep /\ Kept(o) /\ lease.owner = o
    BY <1>1, <1>2, <1>4, MissingActive, FencedSilent
  <2>2. PICK n, v : Acts(o, "rejected", PutNowActive(mem[o], n, v), work[o], inq[o])
    BY <1>4
  <2> DEFINE m == PutNowActive(mem[o], n, v)
  <2>3. m.thread = mem[o].thread /\ Acts(o, "rejected", m, work[o], inq[o])
    BY <2>2 DEF PutNowActive, Memo
  <2> HIDE DEF m
  <2>4. SilentHolder'
    BY <1>1, <1>2, <2>1, <2>3, SilentMoves, ServersSame DEF Special
  <2> QED
    BY <2>1, <2>4
<1>5. Functions
  BY DEF SilentState, LedgerState
<1> QED
  BY ONLY <1>3, <1>4, <1>5, o \in Owner, SteerInactive(o), InactiveActs, Zenon

(* Deferring an attention whose call was refused. *)
LEMMA DeferSilent ==
    ASSUME SilentState, NEW o \in Owner, DeferRejected(o)
    PROVE  SilentStep /\ SilentHolder'
<1>1. pc[o] = "rejected" /\ Fenced(o) /\ KeepRest /\ retry_and_defer(mem[o].cur, mem[o].now)
  BY Zenon DEF DeferRejected, At
<1>2. codex' = codex /\ lease' = lease
  BY <1>1, RestKept
<1>3. lease.owner = o /\ StoreInv /\ AdapterInv /\ Functions /\ HolderAt(pc[o], mem[o], intent, thread)
  BY <1>1, FencedSilent
<1>4. mem[o].cur \in Attention /\ intent[mem[o].cur].status = "prepared"
  BY <1>1, <1>3, ProcessOf DEF PointOK, Busy, HolderAt
<1>5. turn' = turn /\ turnAtt' = turnAtt /\ \A b \in Attention : b # mem[o].cur => intent'[b] = intent[b]
  BY <1>1, <1>3, <1>4, RetryDeferEffect
<1>6. SilentStep
  BY <1>4, <1>5, IntentSilent
<1>7. PICK p \in {"relay", "run"} : Acts(o, p, PutCurNow(mem[o], 0, FALSE), work[o], inq[o])
  BY <1>3, DeferActs
<1> DEFINE m == PutCurNow(mem[o], 0, FALSE)
<1>8. m.thread = mem[o].thread /\ m.active = mem[o].active /\ Acts(o, p, m, work[o], inq[o])
  BY <1>7 DEF PutCurNow, Memo
<1> HIDE DEF m
<1>9. Kept(o)
  BY <1>2, <1>3, <1>5, KeptBy, ServersSame
<1>10. SilentHolder'
  BY <1>2, <1>3, <1>8, <1>9, SilentMoves, ServersSame DEF Special
<1> QED
  BY <1>6, <1>10

(* Asking Codex to interrupt the active turn for a /stop. *)
LEMMA StopInterruptSilent ==
    ASSUME SilentState, NEW o \in Owner, StopInterrupt(o)
    PROVE  SilentStep /\ SilentHolder'
<1>1. lease' = lease /\ gone' = gone
  BY DEF StopInterrupt, leaseVars
<1>2. PICK c \in Attention :
        /\ mem[o].active # 0
        /\ \/ /\ codex' = [codex EXCEPT ![mem[o].active].stop = TRUE] /\ UNCHANGED storeVars
              /\ Acts(o, "stopTurn", PutCur(mem[o], c), work[o], inq[o])
           \/ /\ Fenced(o) /\ defer_attention(c) /\ codex' = codex
              /\ \E p \in {"relay", "run"} : Acts(o, p, mem[o], work[o], inq[o])
  BY StopInterruptActs DEF SilentState, LedgerState
<1>3. CASE /\ codex' = [codex EXCEPT ![mem[o].active].stop = TRUE] /\ UNCHANGED storeVars
           /\ Acts(o, "stopTurn", PutCur(mem[o], c), work[o], inq[o])
  <2> DEFINE m == PutCur(mem[o], c)
  <2>1. m.thread = mem[o].thread /\ m.active = mem[o].active
    BY DEF PutCur, Memo
  <2>2. Acts(o, "stopTurn", m, work[o], inq[o])
    BY <1>3
  <2> HIDE DEF m
  <2>3. mem[o].active \in Turn
    BY <1>2, ProcessOf DEF SilentState, LedgerState, MemoryOK
  <2>4. PICK t \in Turn : codex' = [codex EXCEPT ![t].stop = TRUE]
    BY ONLY <1>3, <2>3, Zenon
  <2>5. ServersKeep
    BY <1>1, <2>4, CodexStop, ServersSame DEF SilentState, LedgerState, AdapterInv
  <2>6. turn' = turn /\ turnAtt' = turnAtt /\ intent' = intent
    BY <1>3 DEF storeVars
  <2> QED
    BY <1>1, <2>1, <2>2, <2>5, <2>6, RestSilent DEF Special
<1>4. CASE /\ Fenced(o) /\ defer_attention(c) /\ codex' = codex
           /\ \E p \in {"relay", "run"} : Acts(o, p, mem[o], work[o], inq[o])
  <2>1. PICK p \in {"relay", "run"} : Acts(o, p, mem[o], work[o], inq[o])
    BY <1>4
  <2>2. turn' = turn /\ turnAtt' = turnAtt /\ intent' = intent
    BY <1>4 DEF defer_attention
  <2> QED
    BY <1>1, <1>4, <2>1, <2>2, RestSilent, ServersSame DEF Special
<1> QED
  BY <1>2, <1>3, <1>4

(* Recording the interrupted turn of a /stop. *)
LEMMA StopTurnSilent ==
    ASSUME SilentState, NEW o \in Owner, StopTurn(o)
    PROVE  SilentStep /\ SilentHolder'
<1> DEFINE m == PutActive(mem[o], 0)
<1>1. pc[o] = "stopTurn" /\ Fenced(o) /\ interrupt_turn_for_control(mem[o].active) /\ KeepRest
  BY Zenon DEF StopTurn, At
<1>2. codex' = codex /\ lease' = lease
  BY <1>1, RestKept
<1>3. lease.owner = o /\ StoreInv /\ LedgerInv /\ AdapterInv /\ Functions
  BY <1>1, FencedSilent
<1>4. mem[o].active \in Turn
  BY <1>1, <1>3, ProcessOf DEF PointOK, MemoryOK
<1>5. SilentStep
  BY <1>1, <1>3, <1>4, InterruptSilent
<1>6. Acts(o, "stopPending", m, work[o], inq[o])
  BY <1>3, StopTurnActs
<1>7. m.active = 0
  BY DEF PutActive, Memo
<1> HIDE DEF m
<1>8. SilentHolder'
  BY <1>2, <1>3, <1>6, <1>7, SilentMoves, ServersSame DEF Special
<1> QED
  BY <1>5, <1>8

(* Cancelling the pending attentions before a /stop. *)
LEMMA StopPendingSilent ==
    ASSUME SilentState, NEW o \in Owner, StopPending(o)
    PROVE  SilentStep /\ SilentHolder'
<1>1. PICK c \in Attention : cancel_pending_before_control(c) /\ KeepRest
  BY Zenon DEF StopPending
<1>2. codex' = codex /\ lease' = lease
  BY <1>1, RestKept
<1>3. turn' = turn /\ turnAtt' = turnAtt /\ intent' = intent
  BY <1>1 DEF cancel_pending_before_control
<1>4. PICK p \in {"relay", "run"} : Acts(o, p, PutCur(mem[o], 0), work[o], inq[o])
  BY StopPendingActs DEF SilentState, LedgerState
<1> DEFINE m == PutCur(mem[o], 0)
<1>5. m.thread = mem[o].thread /\ m.active = mem[o].active /\ Acts(o, p, m, work[o], inq[o])
  BY <1>4 DEF PutCur, Memo
<1> HIDE DEF m
<1> QED
  BY <1>2, <1>3, <1>5, RestSilent, ServersSame DEF Special

(* Closing the room. *)
LEMMA ClosesSilent ==
    ASSUME SilentState, NEW o \in Owner, CloseRoom(o)
    PROVE  SilentStep /\ SilentHolder'
<1>1. PICK c \in Attention : Select(o, c, {"closed"}) /\ Fenced(o) /\ close_room_for_control(c) /\ lease' = lease
  BY Zenon DEF CloseRoom, leaseVars
<1>2. lease.owner = o /\ StoreInv /\ LedgerInv /\ AdapterInv /\ Functions
  BY <1>1, FencedSilent
<1>3. SilentStep
  BY <1>1, <1>2, CloseSilent DEF Select
<1>4. ServersKeep
  BY CloseKeeps, ServersSame DEF SilentState, LedgerState
<1>5. PICK p \in {"relay", "run"} : Acts(o, p, PutActiveThread(mem[o], 0, 0), work[o], inq[o])
  BY <1>2, CloseActs
<1> DEFINE m == PutActiveThread(mem[o], 0, 0)
<1>6. m.active = 0 /\ Acts(o, p, m, work[o], inq[o])
  BY <1>5 DEF PutActiveThread, Memo
<1> HIDE DEF m
<1>7. SilentHolder'
  BY <1>1, <1>2, <1>4, <1>5, <1>6, SilentMoves DEF Special
<1> QED
  BY <1>3, <1>7

(* Every step of a dispatch or a control keeps ended turns silent. *)
LEMMA DispatchSilent ==
    ASSUME SilentState, NEW o \in Owner, Dispatch(o)
    PROVE  SilentStep /\ SilentHolder'
  BY LegacySilent, ThreadSilent, PrepareSilent, StartTurnSilent, SteerSilent, MismatchSilent, BindSilent, RejectSilent,
     InactiveSilent, DeferSilent, StopInterruptSilent, StopTurnSilent, StopPendingSilent, ClosesSilent DEF Dispatch

-----------------------------------------------------------------------------
(* The other steps *)

(* Taking one relay row to post. *)
LEMMA TakeSilent ==
    ASSUME SilentState, NEW o \in Owner, AssertLease(o)
    PROVE  SilentStep /\ SilentHolder'
<1>1. PICK rows : TakeRow(o, rows)
  BY DEF AssertLease
<1>2. UNCHANGED storeVars /\ KeepRest
  BY <1>1 DEF TakeRow
<1>3. codex' = codex /\ lease' = lease
  BY <1>2, RestKept
<1>4. PICK r \in rows : Acts(o, "post", PutSendingBatch(mem[o], r, rows \ {r}), work[o], inq[o])
  BY <1>1, TakeRowActs DEF SilentState, LedgerState
<1> DEFINE m == PutSendingBatch(mem[o], r, rows \ {r})
<1>5. m.thread = mem[o].thread /\ m.active = mem[o].active
  BY DEF PutSendingBatch, Memo
<1>6. Acts(o, "post", m, work[o], inq[o])
  BY <1>4
<1> HIDE DEF m
<1> QED
  BY <1>2, <1>3, <1>5, <1>6, RestSilent, ServersSame DEF Special, storeVars

(* Going on to the next row. *)
LEMMA NextRowSilent ==
    ASSUME SilentState, NEW o \in Owner, NextRow(o), work' = work, inq' = inq, codex' = codex, lease' = lease,
           turn' = turn, turnAtt' = turnAtt, intent' = intent
    PROVE  SilentStep /\ SilentHolder'
<1>1. PICK p \in {"run", "batch"} : Acts(o, p, PutSending(mem[o], NoRelay), work[o], inq[o])
  BY NextRowActs DEF SilentState, LedgerState
<1> DEFINE m == PutSending(mem[o], NoRelay)
<1>2. m.thread = mem[o].thread /\ m.active = mem[o].active
  BY DEF PutSending, Memo
<1>3. Acts(o, p, m, work[o], inq[o])
  BY <1>1
<1> HIDE DEF m
<1> QED
  BY <1>2, <1>3, RestSilent, ServersSame DEF Special

(* Every step of the relay keeps ended turns silent. *)
LEMMA RelaysSilent ==
    ASSUME SilentState, NEW o \in Owner, Relays(o)
    PROVE  SilentStep /\ SilentHolder'
<1>1. CASE AssertLease(o)
  BY <1>1, TakeSilent
<1>2. CASE PostAccepted(o)
  <2>1. UNCHANGED storeVars /\ codex' = codex /\ lease' = lease
    BY <1>2 DEF PostAccepted, codexVars, leaseVars
  <2>2. Acts(o, "mark", mem[o], work[o], inq[o])
    BY <1>2, PostActs DEF SilentState, LedgerState
  <2> QED
    BY <2>1, <2>2, RestSilent, ServersSame DEF Special, storeVars
<1>3. CASE PostFailed(o)
  <2>1. UNCHANGED storeVars /\ codex' = codex /\ lease' = lease /\ NextRow(o) /\ work' = work /\ inq' = inq
    BY <1>3 DEF PostFailed, codexVars, leaseVars
  <2> QED
    BY <2>1, NextRowSilent DEF storeVars
<1>4. CASE MarkRelay(o)
  <2>1. mark_relay_accepted(mem[o].sending) /\ NextRow(o) /\ work' = work /\ KeepRest
    BY <1>4, Zenon DEF MarkRelay, RecordSent
  <2>2. turn' = turn /\ turnAtt' = turnAtt /\ intent' = intent
    BY <2>1 DEF mark_relay_accepted
  <2> QED
    BY <2>1, <2>2, RestKept, NextRowSilent
<1> QED
  BY <1>1, <1>2, <1>3, <1>4 DEF Relays

(* The exit or crash of a process. *)
LEMMA LeaveSilent ==
    ASSUME SilentState, NEW o \in Owner, Leave(o), Die(o)
    PROVE  SilentStep /\ SilentHolder'
<1>1. UNCHANGED storeVars /\ lease' = lease
  BY DEF Leave, Die
<1>2. ServersKeep
  BY LeaveKeeps, ServersSame DEF SilentState, LedgerState
<1>3. Acts(o, "dead", NoMem, <<>>, <<>>) /\ NoMem.active = 0
  BY LeaveActs DEF SilentState, LedgerState, NoMem
<1> QED
  BY <1>1, <1>2, <1>3, RestSilent DEF Special, storeVars

(* A step in which no process moves. *)
LEMMA StillSilent ==
    ASSUME SilentState, UNCHANGED <<pc, mem, work, turn, turnAtt, intent>>, lease'.owner = lease.owner, ServersKeep
    PROVE  SilentStep /\ SilentHolder'
<1>1. SilentStep
  BY QuietSilent
<1>2. ASSUME NEW o \in Owner, lease'.owner = o
      PROVE  SilentAt(codex', turn', o, pc'[o], mem'[o], work'[o])
  BY <1>2, SilentSame DEF SilentState, SilentHolder, LedgerState
<1> QED
  BY <1>1, <1>2 DEF SilentHolder

(* Steps of Codex, of the clock, and stuttering. *)
LEMMA WorldSilent ==
    ASSUME SilentState, CodexStep \/ Stall \/ (\E a \in Attention : Elapsed(a)) \/ UNCHANGED vars
    PROVE  SilentStep /\ SilentHolder'
<1>1. CASE CodexStep
  <2>1. KeepAdapter
    BY <1>1, Zenon DEF CodexStep, CodexItem, CodexPersist, CodexFinish, CodexDrop, CodexRollOver, LoseThread
  <2>2. \E o : CodexGrows(o)
    BY <1>1, CodexItemKeeps, CodexFinishKeeps, CodexQuietKeeps, RollOverKeeps, LoseThreadKeeps
    DEF CodexStep, SilentState, LedgerState
  <2>3. UNCHANGED <<pc, mem, work, lease>> /\ UNCHANGED storeVars
    BY <2>1 DEF KeepAdapter, leaseVars
  <2> QED
    BY <2>2, <2>3, StillSilent, ServersSame DEF storeVars
<1>2. CASE ~CodexStep
  <2>1. UNCHANGED <<pc, mem, work, codex>>
    BY <1>2 DEF Stall, Elapsed, vars, adapterVars, codexVars
  <2>2. lease'.owner = lease.owner
    BY <1>2 DEF Stall, Elapsed, vars, leaseVars, Tick, SilentState, LedgerState, LeaseInv, LeaseTypeOK
  <2>3. UNCHANGED <<turn, turnAtt, intent>>
    BY <1>2 DEF Stall, Elapsed, vars, storeVars, BackoffElapsed
  <2> QED
    BY <2>1, <2>2, <2>3, StillSilent, ServersSame
<1> QED
  BY <1>1, <1>2

(* Every step of the system keeps ended turns silent and the holder to open *)
(* turns.                                                                   *)
LEMMA NextSilent ==
    ASSUME SilentState, [Next]_vars
    PROVE  SilentStep /\ SilentHolder'
<1>1. ASSUME NEW o \in Owner, AdapterStep(o) PROVE SilentStep /\ SilentHolder'
  BY <1>1, RecoverySilent, MessagesSilent, DispatchSilent, RelaysSilent, LeaveSilent DEF AdapterStep, Stale
<1>2. ASSUME NEW o \in Owner, Ingest(o) \/ reconcile_active_turn(o) \/ Crash(o) PROVE SilentStep /\ SilentHolder'
  BY <1>2, IngestSilent, ActiveSilent, LeaveSilent DEF Crash
<1>3. CASE Stall \/ CodexStep \/ (\E a \in Attention : Elapsed(a)) \/ UNCHANGED vars
  BY <1>3, WorldSilent
<1> QED
  BY <1>1, <1>2, <1>3 DEF Next

(* In every behaviour, crashes and takeovers included: a turn that ended    *)
(* with an outcome keeps no open attention but those recovery bound to it   *)
(* again and the calls the reaper leaves open, and the lease holder binds   *)
(* and steers only turns that have no outcome; with the ledger this is      *)
(* inductive.                                                               *)
THEOREM SilentInvariant ==
    Spec => [](Invariants /\ CoverageInv /\ SentInv /\ SilentTurns /\ SilentHolder /\ TerminatedTurnIsSilent)
<1>1. /\ Invariants /\ CoverageInv /\ SilentTurns /\ SilentHolder /\ TerminatedTurnIsSilent /\ [Next]_vars
      => SilentTurns' /\ SilentHolder' /\ TerminatedTurnIsSilent'
  <2> SUFFICES ASSUME Invariants, CoverageInv, SilentTurns, SilentHolder, TerminatedTurnIsSilent, [Next]_vars
               PROVE  SilentTurns' /\ SilentHolder' /\ TerminatedTurnIsSilent'
    OBVIOUS
  <2>1. LedgerStep /\ SilentState /\ StoreInv /\ LedgerInv
    BY NextSteps, AreFunctions DEF Invariants, SilentState, LedgerState, AdapterInv
  <2>2. SilentStep /\ SilentHolder'
    BY <2>1, NextSilent
  <2> QED
    BY <2>1, <2>2, SilentTurnsKeep, SilentOutputKeeps
<1>2. Init => SilentTurns /\ SilentHolder /\ TerminatedTurnIsSilent
  <2> SUFFICES ASSUME Init PROVE SilentTurns /\ SilentHolder /\ TerminatedTurnIsSilent
    OBVIOUS
  <2>1. (\A t \in Turn : turn[t].term = Open) /\ relay = {}
    BY DEF Init, StoreInit
  <2>2. \A o \in Owner : lease.owner # o
    BY NoOwnerAssumption DEF Init, LeaseInit
  <2> QED
    BY <2>1, <2>2 DEF SilentTurns, SilentHolder, TerminatedTurnIsSilent
<1> QED
  BY <1>1, <1>2, OutputInvariant, PTL DEF Spec

(* A turn that failed, was stopped, reaped or closed has no output waiting  *)
(* to be posted, however late its notifications, its recovery or a takeover *)
(* come, but for the attentions that finalize_dispatch of a recovery bound  *)
(* to it again and the calls that the reaper leaves open.                   *)
THEOREM TerminatedIsSilent == Spec => []TerminatedTurnIsSilent
  BY SilentInvariant, PTL
=============================================================================
