-------------------------------- MODULE Wiki --------------------------------
(***************************************************************************)
(* The wiki of a loca and its maintenance: batches of unread messages that *)
(* an editor's worker claims under a lease, reviews and publishes, against *)
(* manual reviews, human edits, page removals, reconfiguration and the     *)
(* closing of the loca (store/wiki.rs, store/wiki_maintenance.rs, hub.rs,  *)
(* routes/wiki.rs).                                                        *)
(*                                                                         *)
(* Everything is in the tables and each operation is one transaction, so a *)
(* restart of the server changes nothing; workers die, stall and lose      *)
(* answers.  The routes look at is_writable before the transaction; a      *)
(* request that passed may run after the loca was closed, so the           *)
(* transactions are not guarded by it.                                     *)
(***************************************************************************)
EXTENDS Integers, Sequences, FiniteSets

CONSTANTS
    Editor,      \* principals that may be the loca's editor
    Worker,      \* worker processes, each acting for whichever editor runs it
    NoEditor,
    AttemptMax,  \* claims of one batch
    LeaseTicks,  \* LEASE_MS
    WorkerTicks, \* MAX_WORKER_MS
    WindowMax,   \* MAX_BATCH_MESSAGES
    SaidMax, RevisionMax, BatchMax   \* bounds of the model

ASSUME WikiAssumption ==
    /\ AttemptMax \in Nat \ {0} /\ LeaseTicks \in Nat \ {0} /\ WindowMax \in Nat \ {0}
    /\ WorkerTicks \in Nat /\ WorkerTicks >= LeaseTicks
    /\ SaidMax \in Nat /\ RevisionMax \in Nat /\ BatchMax \in Nat

VARIABLES
    wiki,      \* the loca_wiki row
    said,      \* ids of the loca's messages are 1..said
    closed,    \* the loca is not writable
    batches,   \* loca_wiki_batches, by id, with loca_wiki_leases of the last claim
    receipts,  \* loca_wiki_receipts
    workers    \* what each worker holds

wikiVars == <<wiki, said, closed, batches, receipts, workers>>

ActiveStatus == {"queued", "running", "blocked"}
Resting == [holds |-> FALSE]
\* A claim in a worker's hand and the revision its draft starts from.
InHand == [holds : {TRUE}, batch : 1..BatchMax, epoch : 1..AttemptMax, base : 0..RevisionMax]

WikiTypeOK ==
    /\ wiki \in [editor : Editor \cup {NoEditor}, enabled : BOOLEAN, revision : 0..RevisionMax, cursor : 0..SaidMax]
    /\ said \in 0..SaidMax /\ closed \in BOOLEAN
    /\ Len(batches) <= BatchMax
    /\ \A i \in DOMAIN batches : batches[i] \in
         [after : 0..SaidMax, through : 1..SaidMax, editor : Editor, status : ActiveStatus \cup {"cancelled", "completed"},
          epoch : 0..AttemptMax, attempts : 0..AttemptMax, left : 0..LeaseTicks, age : 0..WorkerTicks]
    /\ receipts \subseteq [batch : 1..BatchMax, epoch : 1..AttemptMax]
    /\ workers \in [Worker -> {Resting} \cup InHand]

WikiInit ==
    /\ wiki = [editor |-> NoEditor, enabled |-> FALSE, revision |-> 0, cursor |-> 0]
    /\ said = 0 /\ closed = FALSE
    /\ batches = <<>> /\ receipts = {}
    /\ workers = [w \in Worker |-> Resting]

Active == {i \in DOMAIN batches : batches[i].status \in ActiveStatus}

\* A batch that runs no more; nobody looks at its clock again.
Stopped(b, status) == [b EXCEPT !.status = status, !.left = 0, !.age = 0]

Cancelled(B) == [i \in DOMAIN batches |-> IF i \in B THEN Stopped(batches[i], "cancelled") ELSE batches[i]]

-----------------------------------------------------------------------------
(* The loca and its operator *)

Say ==
    /\ said < SaidMax
    /\ said' = said + 1
    /\ UNCHANGED <<wiki, closed, batches, receipts, workers>>

OpenOrClose ==
    /\ closed' = ~closed
    /\ UNCHANGED <<wiki, said, batches, receipts, workers>>

\* configure_wiki: another editor, or none, loses the batches in flight; the
\* revision and the cursor stay.
ConfigureWiki(e, on) ==
    /\ wiki' = [wiki EXCEPT !.editor = e, !.enabled = on]
    /\ batches' = Cancelled({i \in Active : batches[i].editor # e \/ ~on})
    /\ UNCHANGED <<said, closed, receipts, workers>>

\* The page's new text, or its removal, makes a new revision and cancels every
\* batch; the cursor stays.
Rewritten ==
    /\ wiki.editor # NoEditor /\ wiki.revision < RevisionMax
    /\ wiki' = [wiki EXCEPT !.revision = @ + 1]
    /\ batches' = Cancelled(Active)

\* edit_wiki_page, by the operator; an edit that changes nothing writes nothing.
EditWikiPage ==
    /\ Rewritten
    /\ UNCHANGED <<said, closed, receipts, workers>>

\* remove_wiki_page, by the editor.
RemoveWikiPage ==
    /\ Rewritten
    /\ UNCHANGED <<said, closed, receipts, workers>>

(* Mutant: a manual review lets the worker run on. *)
SupersededNone(through) == {}

\* Pending work that starts below the new cursor.
SupersededBy(through) == {i \in Active : batches[i].after < through}

\* commit_wiki: the editor reviews by hand up to a message that exists.
CommitWiki(through, changes) ==
    /\ wiki.editor # NoEditor
    /\ through \in wiki.cursor..said
    /\ changes => wiki.revision < RevisionMax
    /\ wiki' = [wiki EXCEPT !.cursor = through, !.revision = IF changes THEN @ + 1 ELSE @]
    /\ batches' = Cancelled(SupersededBy(through))
    /\ UNCHANGED <<said, closed, receipts, workers>>

-----------------------------------------------------------------------------
(* The scheduler *)

\* tick_wiki of a loca that is not writable: cancel_wiki_review
CancelWikiReview ==
    /\ wiki.enabled /\ closed /\ Active # {}
    /\ batches' = Cancelled(Active)
    /\ UNCHANGED <<wiki, said, closed, receipts, workers>>

Window == [after |-> wiki.cursor, through |-> IF said - wiki.cursor > WindowMax THEN wiki.cursor + WindowMax ELSE said,
           editor |-> wiki.editor, status |-> "queued", epoch |-> 0, attempts |-> 0, left |-> 0, age |-> 0]

\* schedule_wiki_review, once enough was said or the oldest message has waited
\* long enough.
ScheduleWikiReview ==
    /\ wiki.enabled /\ ~closed
    /\ Active = {} /\ said > wiki.cursor
    /\ Len(batches) < BatchMax
    /\ batches' = Append(batches, Window)
    /\ UNCHANGED <<wiki, said, closed, receipts, workers>>

\* A tick of a lease.
Ticked(b) == [b EXCEPT !.left = @ - 1, !.age = @ + 1]

TimePasses ==
    /\ \E i \in DOMAIN batches : /\ batches[i].status = "running" /\ batches[i].left > 0
                                 /\ batches' = [batches EXCEPT ![i] = Ticked(batches[i])]
    /\ UNCHANGED <<wiki, said, closed, receipts, workers>>

-----------------------------------------------------------------------------
(* The worker *)

Expired(i) == batches[i].status = "running" /\ batches[i].left = 0

(* Mutant: a batch is tried again for ever. *)
ExhaustedNever(i) == FALSE

Exhausted(i) == Expired(i) /\ batches[i].attempts >= AttemptMax

\* A batch that nobody holds, for the editor of the wiki.
Unheld(i) == (batches[i].status = "queued" \/ Expired(i)) /\ ~Exhausted(i) /\ batches[i].editor = wiki.editor

\* The batch with a fresh lease, one epoch and one attempt further.
Leased(b) == [b EXCEPT !.status = "running", !.epoch = @ + 1, !.attempts = @ + 1, !.left = LeaseTicks, !.age = 0]

\* claim_wiki_review; the answer, and with it the claim, may be lost.
ClaimWikiReview(w) ==
    /\ wiki.enabled /\ workers[w] = Resting
    /\ \E i \in DOMAIN batches :
         /\ Unheld(i)
         /\ batches' = [batches EXCEPT ![i] = Leased(batches[i])]
         /\ workers' \in {workers, [workers EXCEPT ![w] = [holds |-> TRUE, batch |-> i, epoch |-> batches[i].epoch + 1,
                                                           base |-> wiki.revision]]}
    /\ UNCHANGED <<wiki, said, closed, receipts>>

\* The same transaction gives up a batch that expired too often.
BlockBatch ==
    /\ wiki.enabled
    /\ \E i \in DOMAIN batches : Exhausted(i) /\ batches' = [batches EXCEPT ![i] = Stopped(@, "blocked")]
    /\ UNCHANGED <<wiki, said, closed, receipts, workers>>

(* Mutant: any claim of the running batch will do. *)
LeaseValidAnyEpoch(w) ==
    LET b == batches[workers[w].batch]
    IN  /\ b.status = "running" /\ b.left > 0
        /\ wiki.enabled /\ wiki.editor = b.editor

\* lease_valid; a batch is only ever claimed for its own editor, in whose name the
\* worker calls.
LeaseValid(w) ==
    LET b == batches[workers[w].batch]
    IN  /\ b.epoch = workers[w].epoch
        /\ b.status = "running" /\ b.left > 0
        /\ wiki.enabled /\ wiki.editor = b.editor

(* Mutant: every heartbeat buys a whole lease. *)
RenewedWhole(b) == LeaseTicks

\* A whole lease, but not beyond the worker's absolute deadline.
Renewed(b) ==
    LET rest == WorkerTicks - b.age
        whole == IF b.left > LeaseTicks THEN b.left ELSE LeaseTicks
    IN  IF whole > rest THEN rest ELSE whole

\* renew_wiki_review
RenewWikiReview(w) ==
    /\ workers[w].holds
    /\ LeaseValid(w)
    /\ LET i == workers[w].batch
       IN  Renewed(batches[i]) > 0 /\ batches' = [batches EXCEPT ![i].left = Renewed(batches[i])]
    /\ UNCHANGED <<wiki, said, closed, receipts, workers>>

ReceiptsOf(w) == {r \in receipts : r.batch = workers[w].batch /\ r.epoch = workers[w].epoch}

\* The worker is done with its claim, or tries again because no answer came.
Answered(w) == workers' \in {workers, [workers EXCEPT ![w] = Resting]}

\* finish_wiki_review: the publication and its receipt in one transaction.  The
\* draft, which covers exactly the batch's window, may change pages or none.
FinishWikiReview(w) ==
    LET h == workers[w]
        b == batches[h.batch]
    IN  /\ h.holds
        /\ ReceiptsOf(w) = {}
        /\ LeaseValid(w)
        /\ wiki.cursor = b.after
        /\ h.base = wiki.revision
        /\ \E changes \in BOOLEAN :
             /\ changes => wiki.revision < RevisionMax
             /\ wiki' = [wiki EXCEPT !.cursor = b.through, !.revision = IF changes THEN @ + 1 ELSE @]
        /\ receipts' = receipts \cup {[batch |-> h.batch, epoch |-> h.epoch]}
        /\ batches' = [batches EXCEPT ![h.batch] = Stopped(@, "completed")]
        /\ Answered(w)
        /\ UNCHANGED <<said, closed>>

\* The same request again is answered from the receipt; every other one, and one
\* whose lease, editor, cursor or revision moved, is a conflict.
FinishAgain(w) ==
    /\ workers[w].holds
    /\ \/ ReceiptsOf(w) # {} \/ ~LeaseValid(w) \/ workers[w].base # wiki.revision
       \/ wiki.cursor # batches[workers[w].batch].after
    /\ workers' = [workers EXCEPT ![w] = Resting]
    /\ UNCHANGED <<wiki, said, closed, batches, receipts>>

\* A worker drafts again from the present wiki.
Redraft(w) ==
    /\ workers[w].holds
    /\ workers' = [workers EXCEPT ![w].base = wiki.revision]
    /\ UNCHANGED <<wiki, said, closed, batches, receipts>>

WorkerDies(w) ==
    /\ workers[w].holds
    /\ workers' = [workers EXCEPT ![w] = Resting]
    /\ UNCHANGED <<wiki, said, closed, batches, receipts>>

WikiNext ==
    \/ Say \/ OpenOrClose \/ EditWikiPage \/ RemoveWikiPage
    \/ \E e \in Editor, on \in BOOLEAN : ConfigureWiki(e, on)
    \/ \E through \in 0..SaidMax, changes \in BOOLEAN : CommitWiki(through, changes)
    \/ CancelWikiReview \/ ScheduleWikiReview \/ TimePasses \/ BlockBatch
    \/ \E w \in Worker : ClaimWikiReview(w) \/ RenewWikiReview(w) \/ FinishWikiReview(w) \/ FinishAgain(w)
    \/ \E w \in Worker : Redraft(w) \/ WorkerDies(w)

WikiSpec == WikiInit /\ [][WikiNext]_wikiVars

-----------------------------------------------------------------------------
(* Properties *)

\* There is one unfinished batch at most, and what it asks for can still be
\* published: it starts at the cursor, for the present editor of an enabled
\* wiki, whatever reviews, edits and reconfigurations went by ("never leave a job
\* repeatedly trying to publish against an obsolete review cursor", commit_wiki).
ActiveBatchIsCurrent ==
    /\ Cardinality(Active) <= 1
    /\ \A i \in Active : batches[i].after = wiki.cursor /\ batches[i].editor = wiki.editor /\ wiki.enabled

\* A batch is published once, by the worker that claimed it last: a stalled worker
\* whose lease was taken over never publishes, a retry publishes nothing new, and
\* no batch is claimed again behind a publication (lease_valid,
\* finish_wiki_review, claim_wiki_review).
PublishedByLastClaim ==
    \A r \in receipts :
        batches[r.batch].status = "completed" /\ batches[r.batch].epoch = r.epoch

\* A worker that stalls but keeps its heart beating loses the batch in the end:
\* no sequence of renewals reaches past its absolute deadline (renew_wiki_review).
WorkerTimeIsBounded ==
    \A i \in DOMAIN batches : batches[i].status = "running" => batches[i].age + batches[i].left <= WorkerTicks

=============================================================================
