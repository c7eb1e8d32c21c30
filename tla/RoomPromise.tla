---------------------------- MODULE RoomPromise ----------------------------
(***************************************************************************)
(* What a loca promises to those who write to it, without the mirror in    *)
(* memory, the requests in flight and the restarts: an archive that only   *)
(* grows, in id order, with one message per sender and operation; answers  *)
(* that name an archived message; and a seal after which nothing changes.  *)
(***************************************************************************)
EXTENDS Integers, Sequences

CONSTANTS Message, State, NoOp

VARIABLES
    log,     \* the archive
    state,   \* mode and settings
    sealed,  \* the loca is deleted
    told     \* (sender, operation, message) answered as accepted

promiseVars == <<log, state, sealed, told>>

Archived == {log[i] : i \in DOMAIN log}

PromiseInit == log = <<>> /\ state \in State /\ sealed = FALSE /\ told = {}

\* One answer, which names the message that the operation made.
Answer(m, archive) ==
    /\ m.op # NoOp /\ m \in archive
    /\ told' = told \cup {<<m.sender, m.op, m>>}

\* A message enters the archive, maybe with a change of state, and is answered.
Record(m) ==
    /\ ~sealed
    /\ \A n \in Archived : n.id < m.id /\ (m.op # NoOp => <<n.sender, n.op>> # <<m.sender, m.op>>)
    /\ log' = Append(log, m)
    /\ state' \in State
    /\ IF m.op = NoOp THEN UNCHANGED told ELSE Answer(m, {m})
    /\ UNCHANGED sealed

\* A retry is answered.
AnswerAgain(m) == Answer(m, Archived) /\ UNCHANGED <<log, state, sealed>>

Change == ~sealed /\ state' \in State /\ UNCHANGED <<log, sealed, told>>

Seal == sealed' = TRUE /\ UNCHANGED <<log, state, told>>

PromiseNext == (\E m \in Message : Record(m) \/ AnswerAgain(m)) \/ Change \/ Seal

PromiseSpec == PromiseInit /\ [][PromiseNext]_promiseVars
=============================================================================
