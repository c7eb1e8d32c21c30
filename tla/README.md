# Loca: TLA+ specifications, model checks and proofs

Loca is a chat building for humans and coding agents. A Rust server
(`crates/server`) keeps rooms ("locas"), their message log, seats, reminders
and tasks; Python runtimes (`skill/agent-room`) connect agents to it, keep a
durable inbox and a durable attention ledger, and drive a Codex app-server.

This directory specifies the parts where interleavings, crashes and takeovers
decide correctness, checks them with TLC on small instances and proves the
results that do not depend on the instance with TLAPS.

## 1. Inventory

| Component | Source | State | Operations | Hard behaviour | Correct when |
|---|---|---|---|---|---|
| Attention ledger | `attention_store.py` | leases, attentions, turns, joins, dispatch intents, relay items | one SQLite transaction per method, fenced by owner and epoch | takeover, partial sequences of transactions | fencing token unique; milestones and terminal states never contradict |
| Persistent Codex adapter | `codex_adapter_v2.py`, `codex_rpc.py` | lease epoch, threads, active turns | initialize/recover, cycle (ingest, drain, reconcile, dispatch, relay), /stop, room-closed | crash between RPC and ledger; steer races; stale process | a call is answered by one turn; stopped and closed work is silent; tasks survive /stop; everything pending resolves |
| Seats and WS sessions | `hub.rs` subscribe/join/leave/moderate/delete_room, `main.rs` ws_session | roster with counts, broadcast channels, tombstone | connect, evict, kick, hang up, leave, delete | several locks, subscribe before join, unread notices | capacity; a connected holder has its seat; no ghost; deleted stays deleted |
| Listener and inbox | `listen.py`, `monitor_listener.py`, `orchestrator_queue.py`, `runtime_*.py` | inbox file, cursor, ACKs, pid files | append, ack, compact, wake | crash between append and ACK | each delivery recorded once |
| Room log, modes, settings, moderation | `hub.rs` post, set_mode, set_lead, set_settings, moderate, delete_room; `store/messages.rs`, `store/rooms.rs` | hot room and its rows, tombstone | one request in several critical sections | retries, failed writes, requests past their checks, restarts | op_id idempotent, nothing broadcast that is not stored, memory and rows agree, nothing written behind the seal |
| Care scheduler and outbox | `hub/attention/*`, `store/attention.rs` | marks, attentions, outbox, runtime health | tick, ack, claim, resolve, report | timers racing activity, owners that vanish, restarts | retired work is not replayed, attempts bounded and not burnt |
| Goals, tasks, waits | `hub/work/*`, `store/work.rs` | rows with generations | create, update, wait, answer | linked progress, cycles | accountable goals, fresh generations |
| Admission | `hub.rs`, `store.rs`, `routes/membership.rs`, `join_request.py` | members, join requests, admission rights, the client's file | knock, approve, admit, bootstrap, ack | lost answers, two approvals, crash of either side | no lost token, one right per member |
| Membership, davets, sessions, lobby | `hub.rs`, `store/identity.rs`, `routes/lobby.rs` | credentials, invites, sessions, lobby bus | invite, call, kick, release, suspend, resume, revoke | cascades over tables and hot maps; a lossy bus | the barred hold nothing, what ended stays ended, calls are heard |
| Root key, smasters, admin sessions, operators | `hub.rs`, `store/identity.rs`, `store/operators.rs` | credentials, hot maps, sessions, assignments | boot, pair, open, revoke, appoint | rotation of the key, half-done boots | the configured key works, dead sessions stay dead |
| Wiki and its maintenance | `store/wiki.rs`, `store/wiki_maintenance.rs` | cursor, revision, batches, leases, receipts | schedule, claim, renew, publish, edit | expiry while writing, overtaking reviews | published once by the last claim, bounded time |
| Attachments | `store/attachments.rs`, `store/attachment_index.rs` | files, blob rows, pending slots, refs | upload, cite, claim, sweep | sweep racing a post, death between file and row | what is cited is served, quotas hold |
| Notes, memory, journal, clients, CLI, packaging | `store/memory.rs`, `store/content.rs`, `web`, `desktop`, `crates/admin`, `scripts` | | | | not modelled |

The ledger, the adapter, the listener and the room log form one pipeline: the
server broadcasts a frame, the listener appends it to the inbox and ACKs it,
the adapter ingests it as an attention, dispatches it to Codex, and relays
Codex's output back with a post whose `op_id` makes retries harmless.

## 2. Modules

| Module | Models | Composition |
|---|---|---|
| `Lease` | the `leases` row, its claim/renew/release and the processes that compete | base |
| `AttentionStore` | the ledger, one operator per transaction, for one (server, room) scope | EXTENDS `Lease` |
| `CodexAdapter` | adapter processes, their app-server (external), the room as receiver of posts | EXTENDS `AttentionStore` |
| `Seats` | roster, sessions, operator requests, deletion of one loca | stands alone |
| `RoomLog` | posting, mode, lead, settings, moderation, sealing and boot of one loca: hot copy and rows | implements `RoomPromise` |
| `RoomPromise` | what a loca promises: an archive that grows, one message per operation, a seal | abstract |
| `Care` | declared work, reminders, attentions, outbox, runtime health of one loca | stands alone |
| `Attachments` | files, index, quotas, citation, sweep | stands alone |
| `Admission` | members, join requests, rights and the onboarding client | base |
| `Building` | keys, davets, sessions, lobby sockets of members, cascades | EXTENDS `Admission` |
| `Authority` | root key, smasters, devices, admin sessions, loca operators | stands alone |
| `Wiki` | wiki cursor and revision, batches, leases, workers | stands alone |
| `MCAdapter`, `MCSeats`, `MCRoom`, `MCCare`, `MCRecords` | instances for TLC | EXTEND the above |
| `AdapterProofs` (with `Lease`), `SeatsProofs`, `RoomLogProofs`, `CareProofs`, `BuildingProofs` (with `Admission`), `AuthorityProofs` | theorems | EXTEND the above |
| `LedgerProofs` | theorems of the ledger under the adapter | EXTENDS `AdapterProofs` |
| `RecordsProofs` | theorems of `Attachments` and `Wiki`, and the types of all record keepers | EXTENDS `MCRecords`, `AuthorityProofs`, `BuildingProofs` |

### Lease
`lease` is the durable row; `left` stands for `lease_expires_at_ms` minus now,
in ticks. `epochOf[o]` is a process's `self.epoch`. An owner is a process
(`<pid>-<uuid>`), so a restart is a new owner. `alive` is what
`lease_owner_process_alive` can find out.

### AttentionStore
`att`, `turn`, `turnAtt`, `intent`, `thread`, `relay` are the tables. Times
become Booleans ("has happened"); `due` is `next_attempt_at_ms <= now`. A
record's class abstracts priority and control command to what the ledger tells
apart. `turnAtt` keeps positions because `INSERT OR IGNORE` on an occupied
position drops the join row.

### CodexAdapter
One step is one ledger transaction, one RPC or one post; a process may be
killed (`Crash`) or lose its lease (`Stall`, then another's `Start`) between
any two. `pc` names the program point, `work` the messages being handled,
`inq` the unread notifications. Codex is external: a turn lives at one
app-server, becomes durable at some moment (`CodexPersist`), may vanish before
that (`CodexDrop`), ends with its server, and its thread's rollout may
disappear (`LoseThread`). `CodexRollOver` is a turn Codex opens by itself,
which `mismatched_active_turn` exists for. `posted` is the set of operations
the room has accepted; a repeated `op_id` adds nothing.

Abstractions: one room; the saved thread is the only one recovered; an error
exit leaves the same choices as a kill; `renew_lease_if_needed` is the absence
of `Stall`; `retry_unobserved_dispatch` and the `defer_attention` that follows
it are one step; relay retry times are left out (a failed row is simply still
pending); two unphased items of one millisecond are ordered by item.
`ensure_thread`'s resume branch is unreachable once `initialize` has cached or
forgotten every saved thread.

### Seats
One step is one critical section of the `rooms` or `deleted` mutex, or one
frame read. `chan[c]` is the broadcast channel a session subscribed to: a
deleted room's channel closes and a recreated room has a new one. The door
(credentials) is left open: who connects and when a session is cut is a free
choice. The loca is not the home loca, which is never tombstoned. `HangUp`
stands for every exit that does not read a notice: failed sends during setup,
close, ping failure, dead credentials, lag.

### RoomLog and RoomPromise
One step is the part of a handler before the `rooms` mutex is taken, one
critical section, or one storage transaction; two requests interleave and the
server restarts between any two. A transaction may fail at any time and fails
on a sealed room. `mem` is the hot `Room` (bounded history and operation
mirror), `db` its rows, `tomb` the tombstone. `quiet` is the live timeout.
Messages are id, sender and operation id; of the numeric settings only the rate
limit is kept. The loca may be the home of the building (`home`), which boots
into memory with or without a row, is never tombstoned, and is where
`announce_join_request` speaks: best effort, so what it says is shown even when
it cannot be saved. A loca with messages and no row comes back with
`RoomSettings::default()` (`BuiltinState`), not with the server's own defaults
(`DefaultState`).
`RoomPromise` knows the rows and the answers only; the refinement maps its
`log`, `state`, `sealed` and `told` to `db.msgs`, `db.state`, `db.sealed` and
`answers`.

### Care
A handler of declared work, a sweep, a message and a setting holds the `rooms`
mutex, commits one transaction and mirrors it, so it is one action; a crash
after the commit is the action followed by `Restart`. Two things happen outside
the mutex. The route's `is_writable` is `Admitted`: `late` counts requests that
passed it before the loca was archived. And `ack_care` compares the owner under
the mutex (`CheckAck`), commits without it (`CommitAck`) and takes it again to
mirror (`MirrorAck`); `checked` and `unmirrored` hold the acknowledgements
between these steps. `now` is what a handler reads off the wall clock: any
value of `scene.clock` each time, so it repeats and goes back. Only
`next_condition_generation` (`Generation`) makes a fresh value of it; new tasks
and goals, `set_lead` and `set_settings` use it as it is. `mem` and `db` are
the two copies of tasks, goals, waits, marks and
attentions. A condition is a key with a generation; "older than its threshold"
is `aged`, "within the cooldown" is `cooling`, and both become true or false by
steps of their own, so every order of timers is explored. Ids that the code
builds as strings are records. A scene names what the clients of one behaviour
may ask for; a behaviour keeps its scene.

### Attachments
Upload and sweep hold the store mutex throughout but are not transactions:
`holder` says who has the mutex and where it stands, and `ServerDies` or a
failing statement may strike at each point. A post checks its citations before
the mutex and claims them in the message transaction. A blob is its hash; its
file is absent, good, corrupt, or torn: removed by a heal that has not renamed
its replacement yet (`Displace`, the unix `replace_existing`; on Windows the
swap is atomic). `stray` are published files whose row was never written. A
temporary file has no name the index knows and is left out.

### Admission and Building
`calls` and `ops` are handler tasks between their check and their write.
Approval is one transaction; admission is a check and a write. The client
follows `do_onboard`: fetch, verify, store, read back, acknowledge; any answer
may be lost and either side may die. `secret` is the request's secret in the
client's state file: kept, spent when the request was decided, or lost, with
the answer to its creation or because a failing read was answered 404
(`ViewFails`). `Building` adds credentials, davets,
sessions and the lobby. `lifecycle` is the `member_lifecycle` mutex, held by
`add_invite`, suspension and revocation across tables and hot maps, and by
nothing else. The lobby bus is a ring per receiver: when it is full the oldest
event goes and the receiver is told that it lagged. The deployment is
davet-only, as in production.

### Authority
A session is saved, bound and opened in three statements, a revocation commits
before the hot maps follow, an operator is read before it is removed: each is
a step. A restart may bring another value of `ADMIN_TOKEN` and may fail after
`ensure_master_principal` and before the sessions are restored (`up`). Reads
fail without a word: `principal_session_active` then denies a session, which
`session_identity` drops from the hot map (`DropSession`), and a boot restores
any part of the sessions and smasters that its tables hold (`BootDone`).
Operators appear in the type invariant only; their known departures are in
section 3.

### Wiki
All state is in tables and every operation is one transaction. Time is counted
in ticks against `LeaseTicks` (`LEASE_MS`) and `WorkerTicks`
(`MAX_WORKER_MS`). A worker remembers a claim and the revision it drafted
from; it may stall, die, or repeat a publication whose answer was lost.

### MCRecords
`Attachments`, `Building`, `Authority` and `Wiki` share no state. `focus`
chooses, in the initial state, the one that moves, so a run explores the sum
of the components and not their product. The building's state is large, so its
clients come in two groups: `lobby` and `bearers`, both with every cascade.

## 3. Runs

Passing runs:

| Run | Instance | Shows |
|---|---|---|
| `crash` | call, chat, room-closed, 2 turns, 2 processes | one answering turn; terminated turns silent; nothing of a closed room is revived; unique epochs; outcomes final; the adapter implements `LeaseSpec` |
| `stop` | task, chat, /stop, 1 process, rejections, roll-over | what /stop promises when nothing crashes (`StopIsHonoured`: tasks survive, chat stays stopped, the interrupted turn stays silent); running work is not requeued |
| `output` | 2 calls and a legacy record, one turn, all phases | budgets and coverage |
| `live` | 1 call, 2 processes, rejections, lost thread | everything pending resolves, under fairness |
| `seats` | 4 sessions, 1 seat, an operator request | capacity, exact count of a human's devices, evicted sessions end under fairness |
| `room` | home loca or not, 2 requests in flight, 2 senders, 1 operation id, history of 1, 2 messages, 1 join request | a retry is the same post; broadcast implies stored and memory equals rows, join requests aside; `RoomPromise` is implemented |
| `care` | 6 scenes, 3 names of which one is shared by 2 principals, 1 attempt and the escalation, 1 acknowledgement under way | retired work is not replayed; memory equals rows; attempts are not burnt; goals accountable; generations of tasks, goals and waits fresh |
| `records` | 7 groups, see below | attachments, admission, membership, lobby, authority, wiki |

The properties of `records`, by group: attachments `CitedBlobIsServed`,
`QuotasHold`; admission `BootstrapIsNeverLost`, `RightsBuyMembers`; lobby
`BarredHoldNoDavet`, `LobbyHearsCalls`; bearers `EndedStaysEnded`; sessions and
operators `SessionsStayDead`, `RootRecovers`, `FallbackFollowsKeys`; wiki
`ActiveBatchIsCurrent`, `PublishedByLastClaim`, `WorkerTimeIsBounded`; all
`RecordsTypeOK`.

Runs in which the code departs from what its comments or ADRs state:

| Run | Property | What happens |
|---|---|---|
| `stop_crash` | `TasksSurviveStop` | the process dies between the accepted `turn/interrupt` and `interrupt_turn_for_control`; recovery reads "interrupted" in history and ends the protected task |
| `steer_crash` | `CoverageFollowsInput` | the process dies or loses its lease between an accepted `turn/steer` and the notifications it still has to drain; `reconcile_dispatches` binds the steered call to the turn, then `recover_turn` replays an item written before it, and that item claims to answer the steered call |
| `seat_revived` | `DeletedStaysDeleted` | a subscribe that passed the tombstone check recreates the removed room |
| `care_replay` | `ReplayedCanBeAcked` | a second attempt goes to another recipient and overwrites the attention's owner; the first recipient's delivery is replayed at every reconnect, and `ack_care` refuses to take it because the name is not the owner's any more |

Where a passing property stops holding. Some properties are checked on
instances that leave something out, because with it the code breaks them:

* `StopIsHonoured` (run `stop`, no crash). With a second process and
  `Class <- TaskThenStop` its parts fail: `TasksSurviveStop` as in
  `stop_crash`, and the silence of the stopped turn because the task /stop
  requeued is prepared again under its stable client id `loca:<attention>`,
  the process dies before the RPC, and `reconcile_dispatches` finds that id in
  the interrupted turn, binds the task to it and replays its items as output.
  `TerminatedTurnIsSilent` names this case as an exception.
* `CoverageFollowsInput` (run `output`, no crash), as in `steer_crash`. A turn
  Codex opened itself has the same effect.
* `AnsweredByOneTurn` leaves protected work out. /stop detaches a task whose
  final answer the ledger does not know to be sent; if the process that posted
  it died before it could record the post, a second turn answers the task
  again. For calls and chat it holds without exception, and is proved.
* `TerminatedTurnIsSilent` leaves out, besides the case above, what the reaper
  left open. With three processes: the first dispatches a call, the second
  reaps the turn that is absent from history, and the third finds the turn in
  history after all and answers the call from it. The reaper's comment intends
  that ("Reply-required attentions remain durable pending obligations").
* `OutputEarned` (run `output`, one process and one turn). Budgets are counted
  over the rows of a turn; a turn that recovery binds again is not covered.
* `BroadcastIsDurable` and `HotCopyMatchesStore` leave out the announcements of
  join requests. One that could not be saved is gone after a restart, and the
  next message then takes its id, which sockets have already seen. A loca
  without a row changes its limits at a restart.
* `HotLedgerMatchesStore` leaves the silence condition out: `set_lead` resets
  it in the rows only, so memory keeps its mark and its open attention. And an
  attention whose acknowledgement `ack_care` has committed and not yet mirrored
  does not show as delivered in memory.
* `FreshGenerations` leaves the silence condition out: `set_lead`
  (`hub.rs:2987`) and `set_settings` (`hub.rs:3144`) stamp it with the bare
  clock, so when the clock repeats or goes back, which `hub.rs:208-209` warns
  of, silence may start again at a generation whose attention is resolved, and
  its reminders stay suppressed until the next message. Nor is it said of a
  sealed loca: a late `create_task` numbers the tasks of the emptied room from 1
  again, and nobody is reminded of them.
* `QuotasHold` leaves stray files out. `attachment_index.rs:112-114` says that
  the sweep collects a file whose row write failed; the sweep walks rows, so it
  is neither counted nor collected.
* `CitedBlobIsServed` excepts damaged bytes, which `read` refuses. A heal that
  fails between its removal and its rename leaves the file absent until the
  next upload of the same bytes.
* `BootstrapIsNeverLost` excepts a secret that was lost. When the answer to the
  request's creation is lost, or a failing read is answered 404 and the client
  throws its secret away, the request may still be approved: the right is spent
  and an operator has to admit the requester again.
* `EndedStaysEnded` speaks of sessions that have a row. A seat session that is
  bound after the revocation has neither principal nor row
  (`hub.rs:2136-2160`) and works until it expires, its davet goes or a restart,
  against `hub.rs:1715-1717`.
* `SessionsStayDead` lets a session return that a failed read took away: one
  dropped from the hot map, or left out of a boot, is restored by a later boot
  while its rows are live.
* `BarredHoldNoDavet` and `FallbackFollowsKeys` speak of moments when no
  cascade or handler is between its two halves.

Other departures seen in the models and not run on their own:

* an adapter suspended between `assert_lease` and its post still posts after a
  replacement has taken over (the stable `op_id` absorbs a repeated post only);
* an evicted session that hangs up before it reads `Evicted` runs `leave()`
  and frees its successor's seat; two runtimes that subscribe before either
  joins evict each other, and the seat stays in the roster with no session;
* a session created with a davet while that davet is being revoked survives
  the revocation; two concurrent `invite_member_to_room` give one member two
  davets; `revoke_invites_for` ends every matching row and drops from memory
  only those it had collected;
* `create_join_request` ignores a failed insert, so the client holds a request
  nobody can approve; a lost answer leaves the name reserved by a request whose
  secret nobody has; two admissions of one name can both pass the check;
* `revoke_loca_operator` compares the principal it read, not the assignment,
  so a re-appointment in between is revoked as well; the label of an old loca
  is migrated to an operator at the next boot even if the seat was vacated;
* `rename_room` leaves the attachment tables behind, so a renamed loca cannot
  read the files its messages cite, while the refs under the old name keep them
  from being collected;
* `store/messages.rs` returns a retried post without the author of the message
  it answers, which the first answer carried;
* requests past `is_writable` still write into an archived loca;
* the home loca can be archived and sealed, but never tombstoned: after the seal
  it is back in memory, and nothing can be saved in it;
* a lobby socket that lags past the "barred" event of its member stays open: the
  catch-up after a lag reads davets only;
* a smaster key that a boot's failed `load_smasters` left out of the hot map
  cannot be found by `revoke_smaster_ref` until the next boot;
* a session without principal that the fallback grants between a revocation's
  commit and the hot removal outlives the revocation until its TTL.

Bounds. Two turns are the least in which a call can be answered twice, and
enough for a turn of Codex's own after the adapter's. Histories of two entries
hold a call and its answer, or a steered call; three hold all of these, and
four allow an update and two finals of one turn. Where a room is closed
(`crash`) two are enough: what matters is which rows a late answer reaches.
Two processes give one takeover. `DeferMax = 2` reaches the retry ceiling.
`TTL = 1` because only "expired or not" is read. `SpareOwner` restricts crashes
and stalls to moments when another process can follow, so a behaviour does not
merely stop. One seat for two identities makes
the capacity bind. The one operator request may be the `archive` that
`delete_room` asks for. In `room` a history of one message makes the mirror
drop the first operation, and two requests are a post and its retry, or a post
and a deletion. The built-in rate limit (none) differs from the server's (1),
so that a reload without a row can be told from one with it, and one announced
join request is saved or not. In `care` one acknowledgement is under way at a
time, and the clock reads 1 or 2 (1 in the two silence scenes, where the
counter reaches 2), so that it repeats, goes back and falls behind the counter.
One attempt makes the second signal the escalation
and the third one too many; two principals share a name because the everyone
reminders are keyed by principal. In `records` one blob of size 1 and two of
size 2 are shared by two locas, so that the quota of a loca (2) and that of the
building (3) each refuse what the other admits; two requests
for one name compete for rights; a bus of one event lags at the second; two
root keys are rotated and rotated back; two workers and two attempts give one
takeover and the block.
Deadlock is not checked: the instances stop when every record is handled,
every session is closed or a bound is reached.

Symmetry: adapter processes and handler tasks are interchangeable; no liveness
run uses it.

Fairness. `live`: weak fairness of a process's own steps (the runtime's loop
runs as long as the process does), weak fairness of back-off timers, strong
fairness of an accepted post (the room does not refuse every retry). Codex is
given none: a turn may run for ever, so completion of turns is not promised.
`Ingest` and `reconcile_active_turn` have none either. `seats`: weak fairness
of a session task, which the tokio scheduler gives to every ready task;
clients and operator have none. The other runs check safety and assume none.

## 4. Proofs

* `AdapterProofs`. For the lease: `LeaseInv` is inductive: remembered epochs
  never exceed the row's, and only the row's owner remembers the row's epoch.
  `OneOwnerPerEpoch` alone is not inductive, since a claim may only be known
  to open a fresh epoch if no process remembers a larger one. From it follow
  `LeaseInvariant`, `FencingToken` and, as an action property, `Superseded`.
  `AdapterImplementsLease`: the whole adapter implements `LeaseSpec` (identity
  mapping). Every step but `Start`, `Crash`, `Stale` and `Stall` leaves the
  lease alone; the invariant `ProcessInv` (a process that has not ended is
  alive) is what a claim and a death need. `AdapterFencingToken` carries the
  lease's theorem over to the adapter. For the relay ledger (`RelayInv`): an
  operation has one row, and while the lease row still names a process that is
  releasing, what that process sends and the batch behind it are pending. The
  second part holds after the lease ran out too, because nobody touches the
  ledger before a takeover renames the row; without it a late bookkeeping step
  could overwrite what a successor decided. From it `OutcomesAreFinal`: the
  outcome of a relay (delivered, or dead) is never revised. For the whole
  state (`AdapterInv`, theorems `AdapterInvariant` and `AdapterTypes`): the
  types alone are not inductive, because a queued notification is handled long
  after it was sent, a view of history long after it was read, and a turn's row
  is written from a process's memory. So the invariant also says that every
  report and every view is true of Codex and stays true while Codex goes on,
  that a process knows only turns of the thread it resumed, that a server runs
  at most one turn of a thread, and what each program point may rely on. There
  is one lemma per ledger transaction, one per action for what it writes of its
  own process, and one per action for the invariant.
* `LedgerProofs`, on top of it. Every action of the adapter is first shown to
  be one of a few steps of the ledger (`LedgerStep`); the invariants are proved
  of those. `LedgerInv`: join rows, attentions, turns and intents agree with
  each other; what waits has no turn; a prepared intent is of a pending call on
  the stored thread. `HolderInv`: the lease holder dispatches the only prepared
  intent there is, and none outside a dispatch; without it a takeover could
  leave two prepared intents and a second turn for one call. From these
  `LedgerInvariant` and, as an action property, `RunningWorkStays`: work that
  runs on the server of a valid lease holder is not requeued, for any number of
  takeovers (the run checks one process). `CoverageInv` and `SentInv`: a relay
  row covers attentions joined to its own turn, and what is posted or about to
  be posted has such a row, also for a process that lost its lease in the
  middle of a release. From these `OneTurnAnswers`: two answers to one call
  come from turns to which the call is joined, and a call is joined to one.
  `ClosedInv`: after an accepted room-closed control, everything earlier is
  out of the pending lane, joined to no open turn and has nothing to post, its
  turns are of a thread the room no longer uses, and those whose attention is
  open have ended. The last two parts are what late notifications and
  recoveries run into: they reach only turns of the stored thread. From it
  `ClosedIsQuiet`. `SilentTurns`: a turn that ended with an outcome keeps no
  open attention outside the two exceptions of `TerminatedTurnIsSilent`. It is
  not inductive alone, since a dispatch could still be bound to a turn whose
  end was recorded while the RPC was on its way. `SilentHolder` excludes that:
  while the lease holder has an active turn, what its server runs of the thread
  has no outcome; the turn it is about to bind has none and its completion is
  not among the messages to handle; and until recovery is over its server runs
  nothing that the ledger or the view knows. From these `TerminatedIsSilent`.
* `SeatsProofs`. `CapacityHolds`: the roster is finite and within capacity.
  Only `join` adds an identity, below capacity; leaving, moderation and
  deletion shrink the roster. `ReadersCounted`: a seat's count is the number of
  its sessions that joined and have not left. The counts alone are not
  inductive, since a kick or an eviction on a channel closes a session whose
  seat is gone: `ReadersInv` adds that before the first operator request the
  room stands and only evictions of other identities are on the channels.
* `RoomLogProofs`. `RoomInv`: the archive is in id order, below the next id and
  has one message per sender and operation; everything broadcast, answered or
  in the operation mirror is archived, announced join requests aside
  (`Backed`); outside a sealed room the hot history is in id order and shows the
  end of the archive, with nothing but announced join requests between
  (`HotMatches`); a request that drops the room sealed the rows first. Every
  step has one of seven effects on rows and hot copy, an announcement that is
  not saved among them, and each part is proved once per effect. `OneAnswerPerOperation` is not
  inductive: that two answers agree rests on both being rows of the archive and
  on the archive having one row per operation, whatever the bounded mirror has
  forgotten. From it `RetriesAgree`, `SaidIsArchived`, `HotCopyIsDurable` and
  the refinement `PromiseKept` (`RoomSpec` implements `RoomPromise`).
* `RecordsProofs`, for attachments. `AttInv`: what a loca holds has a row, and a
  file unless its bytes were damaged; an upload has written what its stage
  implies; a sweep has only orphans before it; bytes on disk have a row, but for
  strays and the upload that is about to write its own. The third part is what
  forbids a citation to overtake a sweep: both need the store mutex. From it
  `CitedIsKept`. `QuotasAreKept` needs besides that an upload in flight still
  fits the quotas it was checked against, so that its bytes fit before they have
  a row, and that a sum of sizes grows with its set by the size of each file. `SumsAddUp`
  proves that of the fold behind `Bytes`: the sum exists because one file more
  extends it, a fold has one value, and both go by a smallest counterexample
  among the finitely many sets of files (`LeastSet`), which needs no induction
  rule.
* `BuildingProofs`, for admission (`AdmInv`): one right was used per approval,
  the token that waits for a requester is a row of its own with the name asked
  for, what a client has in hand or on disk is its own membership, and the
  window closes only behind a token on disk. From it `OneRightOneMember` and,
  with the invariant that the secret of a request that is pending or waits to
  be fetched is kept unless a fault took it, `TokenIsNeverLost`. For membership
  (`BldInv`): at most one handler holds
  `member_lifecycle`; rows of davets are of members in good standing; a hot
  davet of a barred member belongs to a cascade that is running; a committed
  membership on its way to the hot copy cannot be revoked before it arrives;
  the keys of a membership that ended are off; and a davet an open lobby socket
  was not told of is still to be announced, on its bus, or behind a lag mark.
  From it `BarredIsBarred`, `LobbyIsTold` and, as an action property,
  `EndedIsFinal`, which also needs that a hot session that has a row is bound to
  it (`SessBound`) and that a row never changes its key. The lobby's argument
  is one lemma about the ring
  (`BufferedKeeps`): it keeps every event or says that it lost some.
  `BuildingTyping` adds the types, with the exact bound of the ring: it grows
  past its capacity by the note of a lag only (`Ringed`), which is inductive
  where the bare length is not.
* `AuthorityProofs`. `AuthInv`: one root key is live and it is the configured
  one; the tables of smasters agree; the hot map is ahead of them only by what
  some handler still has to do; a key nobody has seen was never used; a session
  is created once, from a known key, and no row is live that is bound to another
  root key than the configured one. `DeadSessionsStayDead` follows in three
  steps: what a boot loads, however little it can read, was restorable before
  it (`BootLoads`); only the second statement of a creation makes a session
  restorable (`RestoredRises`); and in a running server only its third makes
  one live (`HotRises`). The others give `RootAlwaysRecovers` and
  `FallbackIsSound`.
* `RecordsProofs`, for the wiki. `WikiInv`: a batch's epoch counts its claims,
  a waiting batch was never claimed, a window is not empty, receipts name
  completed batches at their last epoch, and the one unfinished batch starts at
  the cursor. From it `UnfinishedIsCurrent`, `PublicationIsFenced`,
  `WorkerDeadline` and, as an action property, `CursorAdvances`.
  `RecordsTyping` puts the invariants of attachments, admission, building,
  authority and wiki side by side: whichever component runs, all of them keep
  their types.
* `CareProofs`. `CareInv`: the ledgers are well formed; a delivery in the
  outbox is backed by a row, a pending one by work that is not resolved; the
  marks of both copies are paid for by deliveries; outside a sealed loca the
  two copies agree, but for the silence, which only the hot copy keeps, and for
  the receipts of `unmirrored`, which only the rows have; an
  archived loca has no marks in either copy (a later settings write pauses only
  the rows); goals have somebody to answer for them. The handlers are of two
  sorts: those that retire attentions (`RetireHandler`) and those that signal
  work (`SignalHandler`), and each part is proved once per effect. From it
  `NothingRetiredIsReplayed`, `HotLedgerIsTheStore`, `AttemptsAreSent` and
  `GoalsAreAccountable`. `GenInv` is about the generations of an open loca. Rows
  are also stamped with the bare clock, so the counter bounds neither tasks nor
  goals, and their argument is another one than that of waits. An attention of
  a task or goal is never newer than its row: an existing row moves to a
  generation above its own, and a new row takes an id that no attention is
  about, since ids are numbered without a gap. An attention of a wait may
  outlive the wait; it stays behind the counter, and every wait is numbered
  from the counter. `Restart` sets the counter to the greatest generation the
  tables mention, so the lemmas first show that this maximum exists (the ledgers
  are finite) and bounds what is read back. Of a sealed loca, of which a
  restart reads nothing back, nothing is claimed. The other hard step is the
  walk along waits that looks for a cycle: it visits names only and ends among
  the waits of the ledger. From it `GenerationsAreDated` and, as an action
  property, `GenerationsAreFresh`.

Each inductive invariant was checked by TLC on the instances above before it
was proved. The theorems assume what the modules' ASSUMEs state: bounds are
naturals (positive where the code's constants are), the set of requests is
finite, so are the files (named by their hash), the principals and the names of
a loca, tokens of different kinds and the "nobody" values are distinct, and the
scene a run of `Care` starts from is of principals, with no wait declared by
nobody. TLC evaluates these on the instances.

Only model-checked:

* all liveness (`PendingResolves`, `OutputResolves`, `EvictedSessionEnds`): the
  prover has no rule for fairness here;
* `StopIsHonoured`, `CoverageFollowsInput` and `OutputEarned`, which section 3
  shows to depend on the instance, so that there is no theorem for every value
  of the constants;
* the type invariant of `Care`: the owner of a delivery is the first of a
  filtered sequence, and what a filter of every sequence returns is an
  induction over data that none of the provers does.

## 5. Not modelled

In the agent runtime: prompts, health files, the shadow relay mode, several
rooms in one ledger, the inbox file with its rotation and the supervision of
the listener. In the server: turn batching of a socket (two deadlines local to
one task), reactions, notes, loca memory and journal (versioned single-row
writes), wiki context offers, the other numeric settings, search and other reads, the
building-key deployment. Clients, the desktop shell, the admin CLI, skill
bundles and scripts are I/O over the server's API. See the component list in
`PROJECT.json`.

A hazard known and not covered: a pending record with only retired metadata
that is not a legacy "turn" event is neither dispatched nor retired and keeps
the head of the lane (`dispatch_one`, `retire_legacy_context`).

## 6. Plan

1. Done: lease, ledger, adapter, seats; room log and its promise; care and
   work; attachments, admission, membership, authority, wiki; the theorems
   above.
2. Possible extensions: the inbox file and its cursors; an abstract
   "obligation" specification (a call is open, answered or closed) for the
   adapter, to which `LedgerInv` is most of the refinement.
