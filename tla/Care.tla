-------------------------------- MODULE Care --------------------------------
(***************************************************************************)
(* Declared work (tasks, goals, waits) of one loca and the care that the   *)
(* server takes of it: the condition-based reminder scheduler, the         *)
(* attention ledger and the ACKed outbox (hub/attention, hub/work,         *)
(* store/attention.rs, store/work.rs and the care half of post, set_lead   *)
(* and set_settings in hub.rs).                                            *)
(*                                                                         *)
(* A handler of declared work, a sweep, a message and a setting holds the  *)
(* rooms mutex from its first read, commits one transaction and mirrors it *)
(* in memory, so it is one action; a failed transaction changes nothing    *)
(* and a crash after the commit is the action followed by Restart. Two     *)
(* things are not under the mutex. The route asks whether the loca is      *)
(* writable before: `late` counts the requests that passed it before an    *)
(* archive. And ack_care reads the owner under the mutex, commits without  *)
(* it and takes it again to mirror: `checked` and `unmirrored` hold the    *)
(* acknowledgements between those steps.                                   *)
(*                                                                         *)
(* `now` is what a handler reads off the wall clock, which may repeat or   *)
(* go back (hub.rs:208-209): any value of scene.clock, each time.          *)
(***************************************************************************)
EXTENDS Integers, Sequences, FiniteSets, SequencesExt

CONSTANTS
    Principal,     \* authenticated identities
    NameOf,        \* display name of a principal; two may share one
    Caretaker,     \* "loca-care", seated in the home loca only
    NameOrder,     \* the other names, in the order names.sort() gives
    None,
    Operator,      \* names with operator authority in the loca
    MaxAttempts,   \* care_max_attempts
    MaxGoal, MaxLate,   \* bounds
    MaxAcks,       \* bound: acknowledgements under way at once
    Scenes         \* what the clients of one behaviour may request, with the
                   \* bounds `tasks`, `gens` (generations), `sends` (deliveries)
                   \* and `clock`, the readings of the wall clock

Name == Range(NameOrder) \cup {Caretaker}

ASSUME CareAssumption ==
    /\ NameOf \in [Principal -> Name]
    /\ Caretaker \notin Range(NameOrder)
    /\ None \notin Name \cup Principal
    /\ Operator \subseteq Name
    /\ MaxAttempts \in 1..10
    /\ {MaxGoal, MaxLate, MaxAcks} \subseteq Nat
    /\ IsFiniteSet(Principal) /\ IsFiniteSet(Name)
    /\ \A s \in Scenes : /\ s.gens \in Nat /\ s.clock \subseteq 1..s.gens
                         /\ s.davets \cup s.invite \subseteq Principal
                         /\ \A r \in s.wait : r[1] # None
                         /\ \A f \in s.settings : f[1] = "archived" => f[2] \in BOOLEAN

VARIABLES
    mem,       \* the Room in Hub::rooms: tasks, goals, waits, marks, attentions
    db,        \* its rows
    outbox,    \* care_outbox, by delivery id
    gen,       \* Hub::condition_generation
    room,      \* lead, care_recipient, archived, sealed
    health,    \* Hub::runtime_health
    seated,    \* names with a live socket (the caretaker: in the home loca)
    davets,    \* principals whose invite to the loca is active
    aged,      \* conditions (key, generation) older than their threshold
    cooling,   \* marks younger than care_cooldown_secs
    late,      \* requests admitted before the loca was archived
    checked,   \* ack_care: <<delivery, principal>> past the owner's check
    unmirrored,    \* attentions whose ack is committed, not yet in memory
    scene

careVars == <<mem, db, outbox, gen, room, health, seated, davets, aged, cooling, late,
              checked, unmirrored, scene>>

-----------------------------------------------------------------------------
(* Types *)

TaskStatus == {"open", "taken", "done", "cancelled"}
GoalStatus == {"active", "achieved", "cancelled"}

TaskRow == [to : Name \cup {None}, st : TaskStatus, gen : 0..scene.gens]
GoalRow == [all : BOOLEAN, tasks : SUBSET (1..scene.tasks), st : GoalStatus, gen : 0..scene.gens]
WaitRow == [for : Name, why : {1, 2}, gen : 0..scene.gens, n : 0..(MaxAttempts + 1)]
AttRow == [st : {"open", "claimed", "resolved"}, owner : Name \cup {None},
           by : Name \cup {None}, seen : BOOLEAN]
Empty == [tasks |-> <<>>, goals |-> <<>>, waits |-> <<>>, marks |-> <<>>, att |-> <<>>, last |-> 0]

LedgerOK(s) ==
    /\ DOMAIN s.tasks \subseteq 1..scene.tasks /\ Range(s.tasks) \subseteq TaskRow
    /\ DOMAIN s.goals \subseteq 1..MaxGoal /\ Range(s.goals) \subseteq GoalRow
    /\ DOMAIN s.waits \subseteq Name /\ Range(s.waits) \subseteq WaitRow
    /\ Range(s.marks) \subseteq 1..(MaxAttempts + 1)
    /\ Range(s.att) \subseteq AttRow
    /\ s.last \in 0..scene.gens

CareTypeOK ==
    /\ LedgerOK(mem) /\ LedgerOK(db)
    /\ Len(outbox) <= scene.sends
    /\ \A i \in DOMAIN outbox :
          outbox[i].att \in DOMAIN db.att /\ outbox[i].owner \in Name /\ outbox[i].acked \in BOOLEAN
    /\ gen \in 0..scene.gens
    /\ room \in [lead : Name \cup {None}, to : {"lead", "all"} \cup Name,
                 archived : BOOLEAN, sealed : BOOLEAN]
    /\ seated \subseteq Name /\ davets \subseteq Principal
    /\ late \in 0..MaxLate
    /\ checked \subseteq (DOMAIN outbox) \X Principal /\ unmirrored \subseteq DOMAIN db.att

-----------------------------------------------------------------------------
(* The ledger: operators on one copy of it (memory or rows)                *)

\* f, overridden by g.
Over(f, g) == [x \in DOMAIN f \cup DOMAIN g |-> IF x \in DOMAIN g THEN g[x] ELSE f[x]]

Put(f, k, v) == [x \in DOMAIN f \cup {k} |-> IF x = k THEN v ELSE f[x]]

Count(s, k) == IF k \in DOMAIN s.marks THEN s.marks[k] ELSE 0

Unmark(s, keys) == [s EXCEPT !.marks = Restrict(s.marks, DOMAIN s.marks \ keys)]

Resolved(s, ids) ==
    [s EXCEPT !.att = [a \in DOMAIN s.att |->
        IF a \in ids THEN [s.att[a] EXCEPT !.st = "resolved"] ELSE s.att[a]]]

\* The attentions of one condition, whatever their generation and member.
Of(s, key) == {a \in DOMAIN s.att : a.key = key}

\* Explicit progress on a condition: its mark goes, its attentions are resolved.
Progressed(s, key) == Unmark(Resolved(s, Of(s, key)), {key})

OpenCycles(s, n) ==
    {a \in DOMAIN s.att : a.key[1] = "cycle" /\ n \in a.key[2] /\ s.att[a].st # "resolved"}

\* resolve_wait_attentions: the waiter's overdue signals and the cycles it is part of.
WaitRetired(s, n) ==
    Unmark(Resolved(s, Of(s, <<"wait", n>>) \cup OpenCycles(s, n)), {a.key : a \in OpenCycles(s, n)})

(* Mutant: only the rows of the bare attention id are acked, not those of its members. *)
AckedOwnId(box, ids) == [i \in DOMAIN box |-> [box[i] EXCEPT !.acked = @ \/ (box[i].att \in ids /\ box[i].att.who = None)]]

\* The outbox rows of these attentions are acked, in the same transaction.
Acked(box, ids) == [i \in DOMAIN box |-> [box[i] EXCEPT !.acked = @ \/ box[i].att \in ids]]

AttentionOf(key, g, who) == [key |-> key, gen |-> g, who |-> who]

Frozen(s, a) == a \in DOMAIN s.att /\ s.att[a].st # "open"

\* write_care on the rows: a claimed or resolved attention is left alone.
WriteCare(s, a, owner) ==
    IF Frozen(s, a) THEN s
    ELSE [s EXCEPT !.att = Put(s.att, a,
            IF a \in DOMAIN s.att THEN [s.att[a] EXCEPT !.owner = owner]
            ELSE [st |-> "open", owner |-> owner, by |-> None, seen |-> FALSE])]

\* The outbox half of write_care; loca-care receives in the home loca.
Enqueue(box, s, a, owner) ==
    IF Frozen(s, a) \/ owner = None THEN box
    ELSE Append(box, [att |-> a, owner |-> owner, home |-> owner = Caretaker, acked |-> FALSE])

(* Mutant: an attention memory already has is not replaced. *)
MirrorNew(s, rows, ids) == [s EXCEPT !.att = Over([a \in ids |-> rows.att[a]], s.att)]

\* publish_care_signal: memory takes over the rows' attentions.
Mirror(s, rows, ids) == [s EXCEPT !.att = Over(s.att, [a \in ids |-> rows.att[a]])]

-----------------------------------------------------------------------------
(* Conditions                                                              *)

\* wait_cycle_after: follow the edges from n; the members of its cycle, or {}.
Steps(w, n) ==
    LET walk[i \in 0..Cardinality(Name)] ==
            IF i = 0 THEN n
            ELSE IF walk[i - 1] \in DOMAIN w THEN w[walk[i - 1]].for ELSE None
    IN walk

WaitCycleAfter(w, n) ==
    LET walk == Steps(w, n)
        back == {i \in DOMAIN walk : i > 0 /\ walk[i] = n}
    IN IF back = {} THEN {} ELSE {walk[i] : i \in 0..(Min(back) - 1)}

WaitCycles(w) == {WaitCycleAfter(w, n) : n \in DOMAIN w} \ {{}}

CycleKeys(s) == {<<"cycle", c, Max({s.waits[n].gen : n \in c})>> : c \in WaitCycles(s.waits)}

\* Task, goal and silence conditions that can come due, with their generation.
Conditions(s) ==
    {c \in {<<<<"task", t>>, s.tasks[t].gen>> : t \in {u \in DOMAIN s.tasks : s.tasks[u].st \in {"open", "taken"}}}
           \cup {<<<<"goal", g>>, s.goals[g].gen>> : g \in {h \in DOMAIN s.goals : s.goals[h].st = "active"}}
           \cup (IF s.last > 0 THEN {<<<<"silence">>, s.last>>} ELSE {}) : c[1][1] \in scene.watch}

WaitConditions(s) == {<<<<"wait", n>>, s.waits[n].gen>> : n \in DOMAIN s.waits}

\* Every handler leaves through here; `hot` are the marks it has just set, and
\* what no longer is current is forgotten.
CommitSignal(m, d, box, hot) ==
    /\ Len(box) <= scene.sends
    /\ mem' = m /\ db' = d /\ outbox' = box
    /\ aged' = aged \cap (Conditions(m) \cup WaitConditions(m))
    /\ cooling' = {c \in cooling : c \in DOMAIN m.marks \/ c \in WaitConditions(m)} \cup hot

Commit(m, d, box) == CommitSignal(m, d, box, {})

\* next_condition_generation, when the counter stands at c.
Generation(c, now, prev) == Max({now, prev + 1, c + 1})

Advance(g) == g <= scene.gens /\ gen' = g

\* is_writable, asked by the route before the mutex is taken.
Admitted ==
    /\ ~room.archived \/ late > 0
    /\ late' = IF room.archived THEN late - 1 ELSE late

Unmoved == UNCHANGED <<health, seated, davets, checked, unmirrored, scene>>

-----------------------------------------------------------------------------
(* Tasks *)

\* A new row is stamped with the bare clock, not from the counter.
CreateTask(to, now) ==
    LET id == Cardinality(DOMAIN mem.tasks) + 1
        row == [to |-> to, st |-> "open", gen |-> now]
    IN /\ id <= scene.tasks
       /\ Commit([mem EXCEPT !.tasks = Put(mem.tasks, id, row)],
                 [db EXCEPT !.tasks = Put(db.tasks, id, row)], outbox)
       /\ UNCHANGED <<gen, room>> /\ Unmoved

\* The route: declaring work takes operator authority.
CreateTaskRequest(by, to, now) == Admitted /\ by \in Operator /\ CreateTask(to, now)

\* linked_goal_after_task_progress
LinkedGoal(t) == {g \in DOMAIN mem.goals : mem.goals[g].st = "active" /\ t \in mem.goals[g].tasks}

GoalAfter(g, t, row, now) ==
    LET done(u) == (IF u = t THEN row.st ELSE mem.tasks[u].st) = "done"
    IN [mem.goals[g] EXCEPT !.gen = now,
                            !.st = IF \A u \in mem.goals[g].tasks : done(u) THEN "achieved" ELSE @]

\* The house rules of update_task.
MayAssign(row, by, op, to) == op \/ (row.to \in {None, by} /\ to = by)
MaySetStatus(row, by, op, st) == op \/ (st \in {"taken", "done"} /\ row.to = by)

\* The task and, when it is linked, the goal are written with their care reset.
TaskProgress(s, t, row, now) ==
    LET s1 == [Progressed(s, <<"task", t>>) EXCEPT !.tasks = Put(s.tasks, t, row)]
    IN IF LinkedGoal(t) = {} THEN s1
       ELSE LET g == CHOOSE g \in LinkedGoal(t) : TRUE
            IN [Progressed(s1, <<"goal", g>>) EXCEPT !.goals = Put(s.goals, g, GoalAfter(g, t, row, now))]

UpdateTask(t, by, op, to, st, now) ==
    LET old == mem.tasks[t]
        assigned == IF to = None THEN old ELSE [old EXCEPT !.to = to]
        new == IF st = None THEN assigned ELSE [assigned EXCEPT !.st = st]
        goals == {<<"goal", g>> : g \in LinkedGoal(t)}
        at == Generation(gen, now, old.gen)
        then == IF goals = {} THEN at
                ELSE Generation(at, at, mem.goals[CHOOSE g \in LinkedGoal(t) : TRUE].gen)
        row == [new EXCEPT !.gen = at]
    IN /\ t \in DOMAIN mem.tasks
       /\ to # None => MayAssign(old, by, op, to)
       /\ st # None => MaySetStatus(assigned, by, op, st)
       /\ new # old
       /\ Advance(then)
       /\ Commit(TaskProgress(mem, t, row, then), TaskProgress(db, t, row, then),
                 Acked(outbox, UNION {Of(db, k) : k \in goals \cup {<<"task", t>>}}))
       /\ UNCHANGED room /\ Unmoved

UpdateTaskRequest(t, by, to, st, now) == Admitted /\ UpdateTask(t, by, by \in Operator, to, st, now)

-----------------------------------------------------------------------------
(* Goals *)

\* normalize_goal_tasks: manual goals keep no tasks, the others need known ones.
TasksNormalized(all, tasks) == IF all THEN tasks ELSE {}
TasksValid(all, tasks) == all => tasks # {} /\ tasks \subseteq DOMAIN mem.tasks

AllGoalTasksDone(goal) ==
    goal.all /\ goal.tasks # {} /\ \A t \in goal.tasks : t \in DOMAIN mem.tasks /\ mem.tasks[t].st = "done"

(* Mutant: a goal is created or edited without looking at its tasks. *)
NotSettled(goal) == goal

Settled(goal) == IF goal.st = "active" /\ AllGoalTasksDone(goal) THEN [goal EXCEPT !.st = "achieved"] ELSE goal

CreateGoal(all, tasks, now) ==
    LET id == Cardinality(DOMAIN mem.goals) + 1
        row == Settled([all |-> all, tasks |-> TasksNormalized(all, tasks), st |-> "active", gen |-> now])
    IN /\ id <= MaxGoal
       /\ room.lead # None /\ ~room.sealed
       /\ \A g \in DOMAIN mem.goals : mem.goals[g].st # "active"
       /\ TasksValid(all, tasks)
       /\ Commit([mem EXCEPT !.goals = Put(mem.goals, id, row)],
                 [db EXCEPT !.goals = Put(db.goals, id, row)], outbox)
       /\ UNCHANGED <<gen, room>> /\ Unmoved

CreateGoalRequest(by, all, tasks, now) == Admitted /\ by \in Operator /\ CreateGoal(all, tasks, now)

\* upsert_goal_with_care_reset: the goal and the reset of its reminder.
GoalWritten(s, g, row) == [Progressed(s, <<"goal", g>>) EXCEPT !.goals = Put(s.goals, g, row)]

\* `text` stands for a changed outcome, checkpoint or staleness threshold.
UpdateGoal(g, all, tasks, st, text, now) ==
    LET old == mem.goals[g]
        asked == [old EXCEPT !.all = all, !.tasks = TasksNormalized(all, tasks),
                             !.st = IF st = None THEN @ ELSE st]
        new == Settled(asked)
        row == [new EXCEPT !.gen = Generation(gen, now, old.gen)]
    IN /\ g \in DOMAIN mem.goals
       /\ TasksValid(all, tasks)
       /\ st = "active" => \A h \in DOMAIN mem.goals \ {g} : mem.goals[h].st # "active"
       /\ asked.st = "active" => room.lead # None
       /\ new # old \/ text
       /\ Advance(row.gen)
       /\ Commit(GoalWritten(mem, g, row), GoalWritten(db, g, row), Acked(outbox, Of(db, <<"goal", g>>)))
       /\ UNCHANGED room /\ Unmoved

UpdateGoalRequest(by, g, all, tasks, st, text, now) ==
    Admitted /\ by \in Operator /\ UpdateGoal(g, all, tasks, st, text, now)

-----------------------------------------------------------------------------
(* Waits *)

\* The outbox rows that resolve_wait_attentions acks.
WaitDeliveries(n) == Of(db, <<"wait", n>>) \cup OpenCycles(db, n)

\* replace_wait_with_care: the new edge retires the old generation's care.
WaitReplaced(s, n, row) == [WaitRetired(s, n) EXCEPT !.waits = Put(s.waits, n, row)]

\* delete_wait
WaitDeleted(s, n) == [WaitRetired(s, n) EXCEPT !.waits = Restrict(s.waits, DOMAIN s.waits \ {n})]

SetWait(by, for, why, now) ==
    LET prev == IF by \in DOMAIN mem.waits THEN mem.waits[by].gen ELSE 0
        row == [for |-> for, why |-> why, gen |-> Generation(gen, now, prev), n |-> 0]
    IN /\ by # for
       /\ ~(by \in DOMAIN mem.waits /\ mem.waits[by].for = for /\ mem.waits[by].why = why)
       /\ Advance(row.gen)
       /\ Commit(WaitReplaced(mem, by, row), WaitReplaced(db, by, row), Acked(outbox, WaitDeliveries(by)))
       /\ UNCHANGED room /\ Unmoved

SetWaitRequest(by, for, why, now) == Admitted /\ SetWait(by, for, why, now)

ClearWait(n) ==
    /\ n \in DOMAIN mem.waits
    /\ Commit(WaitDeleted(mem, n), WaitDeleted(db, n), Acked(outbox, WaitDeliveries(n)))
    /\ UNCHANGED <<gen, room>> /\ Unmoved

ClearWaitRequest(by, n) == Admitted /\ (by = n \/ by \in Operator) /\ ClearWait(n)

-----------------------------------------------------------------------------
(* The care half of post, set_lead, set_settings and seal_room             *)

Silence == <<"silence">>

\* reset_silence_care, in the transaction of every message.
Said(s, g) == [Progressed(s, Silence) EXCEPT !.last = g]

\* The waiter's edge starts a new generation that nobody has been nudged about.
Answered(s, n, g) == WaitReplaced(s, n, [mem.waits[n] EXCEPT !.gen = g, !.n = 0])

PostAdmitted == Admitted /\ ~room.sealed

\* addressed_caretakers: a message to the caretaker summons it.
Summons(to) == to = Caretaker

\* An ordinary turn answers the participant it addresses when that one waits for its sender.
Wakes(by, to) == ~Summons(to) /\ to \in DOMAIN mem.waits /\ to # by /\ mem.waits[to].for = by

\* The timestamp of a message is the next generation after the last one heard.
Timestamp(now) == Generation(gen, now, mem.last)

PostPlain(by, to, now) ==
    LET ts == Timestamp(now)
    IN /\ PostAdmitted /\ ~Summons(to) /\ ~Wakes(by, to)
       /\ Advance(ts)
       /\ Commit(Said(mem, ts), Said(db, ts), Acked(outbox, Of(db, Silence)))
       /\ UNCHANGED room /\ Unmoved

\* The summons is part of accepting the message, delivered in the home loca.
PostSummons(by, to, now) ==
    LET ts == Timestamp(now)
        a == AttentionOf(<<"summon", Len(outbox) + 1>>, 0, None)
        d == WriteCare(Said(db, ts), a, to)
    IN /\ PostAdmitted /\ Summons(to)
       /\ Advance(ts)
       /\ Commit(Mirror(Said(mem, ts), d, {a}), d, Enqueue(Acked(outbox, Of(db, Silence)), db, a, to))
       /\ UNCHANGED room /\ Unmoved

\* Message, new wait generation, retired reminders and the wake commit as one.
PostReply(by, to, now) ==
    LET ts == Timestamp(now)
        since == Generation(ts, now, mem.waits[to].gen)
        a == AttentionOf(<<"reply", to>>, since, None)
        d == WriteCare(Answered(Said(db, ts), to, since), a, to)
    IN /\ PostAdmitted /\ Wakes(by, to)
       /\ Advance(since)
       /\ Commit(Mirror(Answered(Said(mem, ts), to, since), d, {a}), d,
                 Enqueue(Acked(outbox, Of(db, Silence) \cup WaitDeliveries(to)), db, a, to))
       /\ UNCHANGED room /\ Unmoved

\* The announcement resets the silence condition in the rows, at the bare
\* clock; memory keeps its own.
SetLead(to, now) ==
    /\ Admitted /\ ~room.sealed
    /\ to = None => \A g \in DOMAIN mem.goals : mem.goals[g].st # "active"
    /\ Commit(mem, Said(db, now), Acked(outbox, Of(db, Silence)))
    /\ room' = [room EXCEPT !.lead = to]
    /\ UNCHANGED gen /\ Unmoved

\* pause_room_attentions
Paused(rows) == [rows EXCEPT !.marks = <<>>]

\* Every settings write of an archived loca pauses its rows; memory drops the
\* marks when the loca becomes archived, and going live restarts its silence,
\* again at the bare clock.
SetSettings(field, to, now) ==
    LET new == CASE field = "archived" -> [room EXCEPT !.archived = to]
                 [] field = "recipient" -> [room EXCEPT !.to = to]
                 [] OTHER -> room
        closes == new.archived /\ ~room.archived
        hot == IF closes THEN Paused(mem) ELSE mem
    IN /\ ~room.sealed
       /\ room' = new
       /\ late' \in IF closes THEN 0..MaxLate ELSE IF new.archived THEN {late} ELSE {0}
       /\ Commit([hot EXCEPT !.last = IF field = "live" THEN now ELSE @],
                 IF new.archived THEN Paused(db) ELSE db,
                 IF new.archived THEN Acked(outbox, DOMAIN db.att) ELSE outbox)
       /\ UNCHANGED gen /\ Unmoved

\* seal_room retires the ledger, remove_room drops the Room.
Seal ==
    /\ room.archived /\ ~room.sealed
    /\ room' = [room EXCEPT !.sealed = TRUE]
    /\ Commit(Empty, Resolved(Paused(db), DOMAIN db.att), Acked(outbox, DOMAIN db.att))
    /\ UNCHANGED <<gen, late>> /\ Unmoved

-----------------------------------------------------------------------------
(* Runtime health *)

Report(n, wake, ack) ==
    /\ health' = [health EXCEPT ![n] =
         [wake |-> wake, ack |-> ack, seen |-> TRUE,
          slow |-> IF health[n] # None /\ health[n].wake = wake /\ health[n].ack = ack THEN health[n].slow ELSE 0]]
    /\ UNCHANGED <<mem, db, outbox, gen, room, seated, davets, aged, cooling, late, checked, unmirrored, scene>>

\* Time: the report outlives its TTL, or a running wake its grace (1), then the ACK's (2).
HealthAges(n) ==
    /\ health[n] # None
    /\ \/ health[n].seen /\ health' = [health EXCEPT ![n].seen = FALSE]
       \/ /\ health[n].wake \in {"RUNNING", "OK"} /\ health[n].slow < 2
          /\ health' = [health EXCEPT ![n].slow = @ + 1]
    /\ UNCHANGED <<mem, db, outbox, gen, room, seated, davets, aged, cooling, late, checked, unmirrored, scene>>

RuntimeRecordReady(n) ==
    /\ health[n] # None /\ health[n].seen
    /\ \/ health[n].wake = "IDLE"
       \/ health[n].wake = "OK" /\ (health[n].ack # "PENDING" \/ health[n].slow < 2)
       \/ health[n].wake = "RUNNING" /\ health[n].slow = 0

Able(n) == n \in seated /\ RuntimeRecordReady(n)

\* care_owner: the first able candidate, else the caretaker, else nobody.
CareOwner ==
    LET lead == IF room.lead = None THEN <<>> ELSE <<room.lead>>
        candidates == SelectSeq(CASE room.to = "lead" -> lead
                                  [] room.to = "all" -> lead \o NameOrder
                                  [] OTHER -> <<room.to>>, Able)
    IN IF candidates # <<>> THEN Head(candidates) ELSE IF Able(Caretaker) THEN Caretaker ELSE None

-----------------------------------------------------------------------------
(* tick_care: each sweep emits for the first candidate whose transaction   *)
(* commits; any candidate may be it, since the ones before it may fail.    *)

(* Mutant: the escalation is not the last signal. *)
AttemptLeftTwice(n) == n <= MaxAttempts + 1

\* N bounded nudges, then one escalation.
AttemptLeft(n) == n <= MaxAttempts

Eligible(k, g, n) ==
    /\ AttemptLeft(n)
    /\ ~Frozen(mem, AttentionOf(k, g, None)) /\ ~Frozen(db, AttentionOf(k, g, None))

\* m and d are the two copies with the attempt counted.
Emit(k, g, owner, m, d, hot) ==
    LET a == AttentionOf(k, g, None)
        rows == WriteCare(d, a, owner)
    IN CommitSignal(Mirror(m, rows, {a}), rows, Enqueue(outbox, d, a, owner), hot)

\* The attempt is counted in the mark of the key.
Marked(s, key) == [s EXCEPT !.marks = Put(s.marks, key, Count(s, key) + 1)]

Swept == room.archived = FALSE /\ room.sealed = FALSE /\ UNCHANGED <<gen, room, late>> /\ Unmoved

SignalCycle(key) ==
    /\ CareOwner # None /\ key \notin cooling
    /\ Eligible(key, key[3], Count(mem, key))
    /\ Emit(key, key[3], CareOwner, Marked(mem, key), Marked(db, key), {key})
    /\ Swept

SignalWait(n) ==
    LET w == mem.waits[n]
        Counted(s) == [s EXCEPT !.waits = Put(s.waits, n, [w EXCEPT !.n = w.n + 1])]
    IN /\ CareOwner # None
       /\ n \notin UNION WaitCycles(mem.waits)
       /\ <<<<"wait", n>>, w.gen>> \in aged \ cooling
       /\ Eligible(<<"wait", n>>, w.gen, w.n)
       /\ Emit(<<"wait", n>>, w.gen, CareOwner, Counted(mem), Counted(db), {<<<<"wait", n>>, w.gen>>})
       /\ Swept

(* Mutant: the note is counted as an attempt. *)
NoteConditionCounted(c) ==
    /\ room.to # "all" /\ CareOwner = None
    /\ c[1] \notin cooling /\ Eligible(c[1], c[2], Count(mem, c[1]))
    /\ Emit(c[1], c[2], None, Marked(mem, c[1]), Marked(db, c[1]), {c[1]})
    /\ Swept

\* With nobody to receive it the attention is noted once and no attempt is spent.
NoteCondition(c) ==
    /\ room.to # "all" /\ CareOwner = None
    /\ c[1] \notin cooling /\ Eligible(c[1], c[2], Count(mem, c[1]))
    /\ AttentionOf(c[1], c[2], None) \notin DOMAIN mem.att \cup DOMAIN db.att
    /\ Emit(c[1], c[2], None, mem, db, {})
    /\ Swept

SignalCondition(c) ==
    /\ room.to # "all" /\ CareOwner # None
    /\ c[1] \notin cooling /\ Eligible(c[1], c[2], Count(mem, c[1]))
    /\ Emit(c[1], c[2], CareOwner, Marked(mem, c[1]), Marked(db, c[1]), {c[1]})
    /\ Swept

\* First the active davets, then the members of this generation still open.
EveryoneRecipients(c) ==
    IF Count(mem, c[1]) = 0 THEN davets
    ELSE {p \in davets : AttentionOf(c[1], c[2], p) \in DOMAIN mem.att}

SignalEveryone(c) ==
    LET ids == {a \in {AttentionOf(c[1], c[2], p) : p \in EveryoneRecipients(c)} :
                  ~Frozen(mem, a) /\ ~Frozen(db, a)}
        rows == [a \in ids |-> [st |-> "open", owner |-> NameOf[a.who], by |-> None,
                                seen |-> a \in DOMAIN db.att /\ db.att[a].seen]]
        d == [Marked(db, c[1]) EXCEPT !.att = Over(db.att, rows)]
        new == SetToSeq({[att |-> a, owner |-> NameOf[a.who], home |-> NameOf[a.who] = Caretaker,
                          acked |-> FALSE] : a \in ids})
    IN /\ room.to = "all" /\ c[1] \notin cooling /\ AttemptLeft(Count(mem, c[1]))
       /\ ids # {}
       /\ CommitSignal(Mirror(Marked(mem, c[1]), d, ids), d, outbox \o new, {c[1]})
       /\ Swept

Ages == \E c \in (Conditions(mem) \cup WaitConditions(mem)) \ aged :
    /\ aged' = aged \cup {c}
    /\ UNCHANGED <<mem, db, outbox, gen, room, health, seated, davets, cooling, late, checked, unmirrored, scene>>

Cools == \E c \in cooling :
    /\ cooling' = cooling \ {c}
    /\ UNCHANGED <<mem, db, outbox, gen, room, health, seated, davets, aged, late, checked, unmirrored, scene>>

-----------------------------------------------------------------------------
(* Deliveries and attentions *)

\* pending_care_scoped: what a reconnecting session of p is sent again.
Pending(p) ==
    {i \in DOMAIN outbox :
        /\ ~outbox[i].acked /\ db.att[outbox[i].att].st # "resolved"
        /\ LET who == outbox[i].att.who
           IN IF who = None THEN outbox[i].owner = NameOf[p] ELSE who = p /\ p \in davets}

\* ack_care first compares the owner of the attention, by name, in memory or
\* else in the rows.
OwnerAcks(i, p) ==
    LET a == outbox[i].att
        ledger == IF a \in DOMAIN mem.att THEN mem ELSE db
    IN ledger.att[a].owner = NameOf[p]

\* ack_care_scoped: the pending row, by name or by principal.
RowAcks(i, p) ==
    /\ i \in DOMAIN outbox /\ ~outbox[i].acked
    /\ IF outbox[i].att.who = None THEN outbox[i].owner = NameOf[p] ELSE outbox[i].att.who = p

AckAccepted(i, p) == OwnerAcks(i, p) /\ RowAcks(i, p)

Seen(s, a) == IF a \in DOMAIN s.att THEN [s EXCEPT !.att[a].seen = TRUE] ELSE s

CheckAck(i, p) ==
    /\ OwnerAcks(i, p)
    /\ Cardinality(checked) + Cardinality(unmirrored) < MaxAcks
    /\ checked' = checked \cup {<<i, p>>}
    /\ UNCHANGED <<mem, db, outbox, gen, room, health, seated, davets, aged, cooling, late, unmirrored, scene>>

\* The rooms mutex is free here: the row decides, whatever happened since.
CommitAck(i, p) ==
    /\ checked' = checked \ {<<i, p>>}
    /\ IF RowAcks(i, p)
       THEN /\ Commit(mem, Seen(db, outbox[i].att), [outbox EXCEPT ![i].acked = TRUE])
            /\ unmirrored' = unmirrored \cup {outbox[i].att}
       ELSE UNCHANGED <<mem, db, outbox, aged, cooling, unmirrored>>
    /\ UNCHANGED <<gen, room, health, seated, davets, late, scene>>

\* Memory follows, if it still has the attention.
MirrorAck(a) ==
    /\ Commit(Seen(mem, a), db, outbox)
    /\ unmirrored' = unmirrored \ {a}
    /\ UNCHANGED <<gen, room, health, seated, davets, late, checked, scene>>

Claimed(s, a, n) == [s EXCEPT !.att[a].st = "claimed", !.att[a].by = n]

\* Only the selected owner, by display name; the row must still be unclaimed.
ClaimAttention(a, n) ==
    /\ mem.att[a].owner = n /\ mem.att[a].st = "open" /\ db.att[a].st = "open"
    /\ Commit(Claimed(mem, a, n), Claimed(db, a, n), outbox)
    /\ UNCHANGED <<gen, room>> /\ Unmoved

ClaimAttentionRequest(a, n) == Admitted /\ ClaimAttention(a, n)

\* An operator, the member it was addressed to, or its owner or claimant by name.
ResolveAttention(a, p, op) ==
    /\ \/ op
       \/ a.who # None /\ a.who = p
       \/ a.who = None /\ NameOf[p] \in {mem.att[a].owner, mem.att[a].by}
    /\ mem.att[a].st # "resolved" /\ db.att[a].st # "resolved"
    /\ Commit(Resolved(mem, {a}), Resolved(db, {a}), Acked(outbox, {a}))
    /\ UNCHANGED <<gen, room>> /\ Unmoved

ResolveAttentionRequest(a, p) == Admitted /\ ResolveAttention(a, p, NameOf[p] \in Operator)

\* resolve_attention_owner: the lead, or the first able name of a group.
AttentionOwner(group) ==
    LET names == SelectSeq(NameOrder, LAMBDA n : n \in group)
        able == SelectSeq(names, Able)
    IN IF group = {} THEN room.lead ELSE IF able # <<>> THEN Head(able) ELSE Head(names)

CreateAttention(group) ==
    LET owner == AttentionOwner(group)
        a == AttentionOf(<<"manual", Len(outbox) + 1>>, 0, None)
        d == WriteCare(db, a, owner)
    IN /\ ~room.sealed /\ owner # None
       /\ Commit(Mirror(mem, d, {a}), d, Enqueue(outbox, db, a, owner))
       /\ UNCHANGED <<gen, room>> /\ Unmoved

CreateAttentionRequest(by, group) == Admitted /\ by \in Operator /\ CreateAttention(group)

-----------------------------------------------------------------------------
(* The surroundings *)

Sits(n) ==
    /\ seated' = (seated \ {n}) \cup ({n} \ seated)
    /\ UNCHANGED <<mem, db, outbox, gen, room, health, davets, aged, cooling, late, checked, unmirrored, scene>>

Davet(p) ==
    /\ davets' = (davets \ {p}) \cup ({p} \ davets)
    /\ UNCHANGED <<mem, db, outbox, gen, room, health, seated, aged, cooling, late, checked, unmirrored, scene>>

WorkGenerations(s) ==
    {0, s.last} \cup {s.tasks[t].gen : t \in DOMAIN s.tasks}
      \cup {s.goals[g].gen : g \in DOMAIN s.goals} \cup {s.waits[n].gen : n \in DOMAIN s.waits}

(* Mutant: the attentions of deleted work are not looked at. *)
RecoveredFromWork(s) == Max(WorkGenerations(s))

\* The generation clock restarts above every generation the rows mention,
\* whatever the wall clock says.
RecoveredGeneration(s) == Max(WorkGenerations(s) \cup {a.gen : a \in DOMAIN s.att})

\* Hub::build reads the rows back, unless the loca is sealed.
Restart ==
    LET loaded == IF room.sealed THEN Empty ELSE db
    IN /\ Commit(loaded, db, outbox)
       /\ gen' = RecoveredGeneration(loaded)
       /\ health' = [n \in Name |-> None]
       /\ seated' = {} /\ late' = 0 /\ checked' = {} /\ unmirrored' = {}
       /\ UNCHANGED <<room, davets, scene>>

CareInit ==
    /\ scene \in Scenes
    /\ mem = Empty /\ db = Empty
    /\ outbox = <<>> /\ gen = 0
    /\ room = [lead |-> scene.lead, to |-> scene.recipient, archived |-> FALSE, sealed |-> FALSE]
    /\ health = [n \in Name |-> None]
    /\ seated = {} /\ davets = scene.davets
    /\ aged = {} /\ cooling = {} /\ late = 0 /\ checked = {} /\ unmirrored = {}

WorkStep(now) ==
    \/ \E r \in scene.newTask : CreateTaskRequest(r[1], r[2], now)
    \/ \E t \in DOMAIN mem.tasks, r \in scene.task : UpdateTaskRequest(t, r[1], r[2], r[3], now)
    \/ \E r \in scene.newGoal : CreateGoalRequest(r[1], r[2], r[3], now)
    \/ \E g \in DOMAIN mem.goals, r \in scene.goal : UpdateGoalRequest(r[1], g, r[2], r[3], r[4], r[5], now)
    \/ \E r \in scene.wait : SetWaitRequest(r[1], r[2], r[3], now)
    \/ \E r \in scene.unwait : ClearWaitRequest(r[1], r[2])

RoomStep(now) ==
    \/ \E m \in scene.post : PostPlain(m[1], m[2], now) \/ PostSummons(m[1], m[2], now) \/ PostReply(m[1], m[2], now)
    \/ \E to \in scene.setLead : SetLead(to, now)
    \/ \E f \in scene.settings : SetSettings(f[1], f[2], now)
    \/ scene.seal /\ Seal

TickCare ==
    \/ \E key \in CycleKeys(mem) : SignalCycle(key)
    \/ \E n \in DOMAIN mem.waits : SignalWait(n)
    \/ \E c \in aged \cap Conditions(mem) : NoteCondition(c) \/ SignalCondition(c) \/ SignalEveryone(c)

LedgerStep ==
    \/ \E i \in DOMAIN outbox, p \in scene.ack : CheckAck(i, p)
    \/ \E k \in checked : CommitAck(k[1], k[2])
    \/ \E a \in unmirrored : MirrorAck(a)
    \/ \E a \in DOMAIN mem.att \cap DOMAIN db.att :
          \/ \E n \in scene.claim : ClaimAttentionRequest(a, n)
          \/ \E p \in scene.resolve : ResolveAttentionRequest(a, p)
    \/ \E r \in scene.attention : CreateAttentionRequest(r[1], r[2])

TimeStep == Ages \/ Cools \/ \E n \in Name : HealthAges(n)

WorldStep ==
    \/ \E r \in scene.report : Report(r[1], r[2], r[3])
    \/ \E n \in scene.sits : Sits(n)
    \/ \E p \in scene.invite : Davet(p)
    \/ scene.restart /\ Restart

CareNext ==
    \/ \E now \in scene.clock : WorkStep(now) \/ RoomStep(now)
    \/ TickCare \/ LedgerStep \/ TimeStep \/ WorldStep

CareSpec == CareInit /\ [][CareNext]_careVars

-----------------------------------------------------------------------------
(* Properties *)

(* What a session is sent again after a reconnect is never work that has   *)
(* been retired: progress, an answered wait, an explicit resolve and the   *)
(* seal each resolve the attention and ack its deliveries in one           *)
(* transaction (ADR 0002, "pending Care deliveries are retired             *)
(* atomically").                                                           *)
RetiredNeverReplayed ==
    \A i \in DOMAIN outbox : ~outbox[i].acked => db.att[outbox[i].att].st # "resolved"

(* The work, marks and attentions clients read from memory are the ones a  *)
(* restart would bring back, whichever mixture of handlers, sweeps and     *)
(* half-done acknowledgements produced them: only an attention whose ack   *)
(* is committed and not yet mirrored (ack_care commits without the rooms   *)
(* mutex) may lag, and only in that it does not yet show as delivered. The *)
(* silence condition is left out: SetLead resets it in the rows only.      *)
HotLedgerMatchesStore ==
    ~room.sealed =>
        /\ mem.tasks = db.tasks /\ mem.goals = db.goals /\ mem.waits = db.waits
        /\ Restrict(mem.marks, DOMAIN mem.marks \ {Silence}) = Restrict(db.marks, DOMAIN db.marks \ {Silence})
        /\ \A a \in DOMAIN mem.att \cup DOMAIN db.att : a.key # Silence =>
              /\ a \in DOMAIN mem.att \cap DOMAIN db.att
              /\ db.att[a] = IF a \in unmirrored THEN [mem.att[a] EXCEPT !.seen = TRUE] ELSE mem.att[a]

(* An attempt is spent only on a signal somebody was sent: a mark never    *)
(* counts more attempts than the outbox holds deliveries of the condition  *)
(* (ADR 0002, "attempts do not burn while nobody can receive them").       *)
NoBurntAttempts ==
    \A k \in DOMAIN mem.marks :
        mem.marks[k] <= Cardinality({i \in DOMAIN outbox : outbox[i].att.key = k})

(* At most one goal is active, it has an accountable lead, and an          *)
(* all-tasks goal still has an unfinished task: task progress, goal edits  *)
(* and changes of lead together never leave a goal open with nothing left  *)
(* to do.                                                                  *)
GoalIsAccountable ==
    LET active == {g \in DOMAIN mem.goals : mem.goals[g].st = "active"}
    IN /\ Cardinality(active) <= 1
       /\ active # {} => room.lead # None
       /\ \A g \in active : ~AllGoalTasksDone(mem.goals[g])

(* A task, goal or wait that starts a new generation starts without an     *)
(* attention: although the wall clock may repeat or go back, and also      *)
(* after restarts, it never reuses a generation whose attention, maybe     *)
(* resolved long ago, would suppress its reminders (hub.rs:208-209 and the *)
(* restore of condition_generation). The silence condition does not keep   *)
(* this: set_lead and set_settings stamp it with the bare clock. Nor is it *)
(* said of a sealed loca, which nobody is reminded of.                     *)
FreshGenerations ==
    [][~(room.sealed)' =>
         \A c \in Conditions(mem)' \cup WaitConditions(mem)' :
            \/ c[1] = Silence
            \/ c \in Conditions(mem) \cup WaitConditions(mem)
            \/ \A a \in DOMAIN db.att : <<a.key, a.gen>> # c]_careVars

(* A delivery replayed to a session can be acknowledged by it: the pending *)
(* row alone decides, whoever owns the attention by now (ack_care_scoped,  *)
(* "the single authority for whether an ACK lands"; ADR 0002, "each        *)
(* attempt has its own ACK id").                                           *)
ReplayedCanBeAcked ==
    \A p \in Principal : \A i \in Pending(p) : AckAccepted(i, p)

=============================================================================
