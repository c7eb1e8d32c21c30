------------------------------- MODULE MCCare -------------------------------
(* Six groups of clients of one loca; two principals share a name, the
   caretaker is its operator. *)
EXTENDS Care

CONSTANTS ann, bob, cara, p1, p2, p3, p4

MCNameOf == [p \in {p1, p2, p3, p4} |-> CASE p = p3 -> bob [] p = p4 -> cara [] OTHER -> ann]
MCOrder == <<ann, bob>>

Nothing ==
    [tasks |-> 1, gens |-> 3, clock |-> {1, 2}, sends |-> 2, watch |-> {}, lead |-> ann, recipient |-> "lead", davets |-> {},
     newTask |-> {}, task |-> {}, newGoal |-> {}, goal |-> {}, wait |-> {}, unwait |-> {},
     post |-> {}, setLead |-> {}, settings |-> {}, seal |-> FALSE,
     ack |-> {}, claim |-> {}, resolve |-> {}, attention |-> {},
     report |-> {}, sits |-> {}, invite |-> {}, restart |-> TRUE]

\* Two tasks, a goal over them or over one, and a lead who may step down.
GoalScene ==
    [Nothing EXCEPT !.tasks = 2, !.gens = 5,
        !.newTask = {<<cara, ann>>, <<cara, None>>, <<ann, ann>>},
        !.task = {<<ann, None, "done">>, <<bob, bob, "taken">>, <<cara, None, "open">>, <<ann, None, "open">>},
        !.newGoal = {<<cara, TRUE, {1, 2}>>, <<cara, FALSE, {}>>},
        !.goal = {<<cara, TRUE, {1}, None, FALSE>>, <<cara, FALSE, {}, "active", TRUE>>,
                   <<cara, FALSE, {}, "cancelled", FALSE>>},
        !.setLead = {None}]

\* Reminders of a task and a goal: the lead's, or loca-care's, or nobody's.
ReminderScene ==
    [Nothing EXCEPT !.watch = {"task", "goal"},
        !.newTask = {<<cara, ann>>}, !.task = {<<ann, None, "taken">>}, !.newGoal = {<<cara, TRUE, {1}>>},
        !.ack = {p1}, !.claim = {ann},
        !.report = {<<ann, "IDLE", "IDLE">>}, !.sits = {ann}]

\* Waits, a cycle, answers to waiters and a summons; ann answers or loca-care does.
WaitScene ==
    [Nothing EXCEPT
        !.wait = {<<ann, bob, 1>>, <<bob, ann, 1>>, <<bob, ann, 2>>}, !.unwait = {<<bob, bob>>, <<cara, ann>>},
        !.post = {<<ann, bob>>, <<bob, cara>>},
        !.claim = {cara},
        !.report = {<<cara, "OK", "PENDING">>}, !.sits = {cara}]

\* Everyone: a snapshot of the davets, who come and go.
EveryoneScene ==
    [Nothing EXCEPT !.gens = 2, !.clock = {1}, !.sends = 4, !.watch = {"silence"}, !.recipient = "all", !.davets = {p1, p3},
        !.post = {<<bob, None>>}, !.invite = {p2, p3},
        !.ack = {p1, p2}, !.claim = {ann}, !.resolve = {p1, p2}]

\* The operator closes, reopens and seals the loca; late requests still arrive.
ClosingScene ==
    [Nothing EXCEPT !.watch = {"task"},
        !.newTask = {<<cara, ann>>}, !.attention = {<<cara, {}>>, <<cara, {ann, bob}>>},
        !.settings = {<<"archived", TRUE>>, <<"archived", FALSE>>}, !.seal = TRUE,
        !.resolve = {p1, p4},
        !.report = {<<ann, "RUNNING", "PENDING">>}, !.sits = {ann}]

\* The lead moves, the loca goes live and reminders change their recipient.
SilenceScene ==
    [Nothing EXCEPT !.gens = 2, !.clock = {1}, !.watch = {"silence"},
        !.post = {<<ann, None>>}, !.setLead = {bob},
        !.settings = {<<"recipient", bob>>, <<"live", TRUE>>},
        !.ack = {p3},
        !.report = {<<ann, "IDLE", "IDLE">>, <<bob, "IDLE", "IDLE">>}, !.sits = {ann, bob}]

MCScenes == {GoalScene, ReminderScene, WaitScene, EveryoneScene, ClosingScene, SilenceScene}
=============================================================================
