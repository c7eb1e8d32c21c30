------------------------------ MODULE RoomLog ------------------------------
(***************************************************************************)
(* The message log and the chat state of one loca: the hot copy in memory  *)
(* (hub.rs, behind the rooms mutex) and the durable copy in SQLite         *)
(* (store/messages.rs, store/rooms.rs).  The loca may be the home of the   *)
(* building, which cannot be tombstoned and where join requests are        *)
(* announced, saved or not.                                                *)
(*                                                                         *)
(* A request is served in steps.  The checks made before the rooms mutex   *)
(* is taken are one step, each critical section or storage transaction is  *)
(* another, so two requests interleave between them and the server may be  *)
(* restarted anywhere.                                                     *)
(***************************************************************************)
EXTENDS Integers, Sequences, FiniteSets, SequencesExt

CONSTANTS
    Person,        \* senders; each is its own principal
    Admin,         \* the senders whose requests carry building authority
    Order,         \* the speaking order of the round-robin mode
    Allow,         \* the senders the restricted mode admits
    OpId,          \* operation ids a client may attach to a post
    NoOp,          \* a post without operation id
    Nobody,        \* no lead
    HistoryLimit,  \* HISTORY_LIMIT: bound of the hot tail and of the op mirror
    RateLimit,     \* rate_limit of the server's default settings; 0 is no limit
    BuiltinLimit,  \* rate_limit of RoomSettings::default()
    Request,       \* handler tasks that can be in flight together
    PostInput, ModeInput, LeadInput, SettingInput, ModInput,  \* what requests may ask for
    MaxId,         \* bound on message ids
    MaxJoin        \* bound on the join requests announced

\* A ChatMode; a turn may point behind the order.
Mode == [kind : {"free", "paused", "restricted"}, turn : {0}]
          \cup [kind : {"round_robin"}, turn : 0..Len(Order)]

\* The server speaks as "loca" in both of its announcements, told apart here.
LeadNews == "loca: new lead"
JoinNews == "loca: wants to join"

ASSUME RoomLogAssumption ==
    /\ Admin \subseteq Person
    /\ Allow \subseteq Person
    /\ Order \in Seq(Person)
    /\ NoOp \notin OpId
    /\ Nobody \notin Person
    /\ HistoryLimit \in Nat \ {0}
    /\ RateLimit \in Nat /\ BuiltinLimit \in Nat
    /\ MaxId \in Nat /\ MaxJoin \in Nat
    /\ JoinNews \notin Person
    /\ PostInput \subseteq Person \X (OpId \cup {NoOp})
    /\ ModeInput \subseteq Mode
    /\ LeadInput \subseteq Person \cup {Nobody}
    /\ SettingInput \subseteq {"archived", "live"} \X BOOLEAN
    /\ ModInput \subseteq {"mute", "unmute", "ban", "unban"} \X Person

VARIABLES
    home,      \* the loca is the home of the building
    mem,       \* the Room in Hub::rooms
    db,        \* its rows
    tomb,      \* the room's name is in Hub::deleted
    nextId,    \* Hub::next_id
    req,       \* where each handler stands
    quiet,     \* the live timeout has run out since the last activity
    sent,      \* messages broadcast to the sockets
    answers    \* (sender, op id, message) answered as accepted

roomVars == <<home, mem, db, tomb, nextId, req, quiet, sent, answers>>

-----------------------------------------------------------------------------
(* Types *)

\* What a rooms row holds of ChatMode and RoomSettings.
HeldMode == {mode \in Mode : mode.turn = 0 \/ mode.turn < Len(Order)}
RoomState == [mode : HeldMode, archived : BOOLEAN, live : BOOLEAN, lead : Person \cup {Nobody},
              limit : {RateLimit, BuiltinLimit}]

\* Free speech under the server's default settings, and under the built-in ones.
DefaultState == [mode |-> [kind |-> "free", turn |-> 0], archived |-> FALSE, live |-> FALSE, lead |-> Nobody,
                 limit |-> RateLimit]
BuiltinState == [DefaultState EXCEPT !.limit = BuiltinLimit]

Message == [id : 1..MaxId, sender : Person \cup {LeadNews, JoinNews}, op : OpId \cup {NoOp}]

\* A room as room_mut creates it on first touch.
EmptyRoom ==
    [present |-> TRUE, history |-> <<>>, ops |-> <<>>, state |-> DefaultState,
     muted |-> {}, banned |-> {}, recent |-> [p \in Person |-> 0], spoke |-> FALSE]

NoRoom == [EmptyRoom EXCEPT !.present = FALSE]

Idle == [at |-> "idle"]

ModAction == {"mute", "unmute", "ban", "unban"}

RoomTypeOK ==
    /\ home \in BOOLEAN
    /\ mem.present \in BOOLEAN /\ mem.spoke \in BOOLEAN
    /\ mem.history \in Seq(Message)
    /\ mem.ops \in Seq(Message) /\ Len(mem.ops) <= HistoryLimit
    /\ mem.state \in RoomState /\ db.state \in RoomState
    /\ mem.muted \subseteq Person /\ mem.banned \subseteq Person
    /\ mem.recent \in [Person -> Nat]
    /\ db.msgs \in Seq(Message)
    /\ db.row \in BOOLEAN /\ db.sealed \in BOOLEAN
    /\ db.muted \subseteq Person /\ db.banned \subseteq Person
    /\ tomb \in BOOLEAN /\ quiet \in BOOLEAN
    /\ nextId \in 1..(MaxId + 1)
    /\ req \in [Request -> [at : {"idle", "delete", "remove", "bury"}]
                  \cup [at : {"post"}, who : Person, op : OpId \cup {NoOp}]
                  \cup [at : {"mode"}, to : Mode]
                  \cup [at : {"lead"}, to : Person \cup {Nobody}]
                  \cup [at : {"settings"}, field : {"archived", "live"}, to : BOOLEAN]
                  \cup [at : {"moderate"}, act : ModAction, who : Person]]
    /\ sent \subseteq Message
    /\ answers \subseteq (Person \X OpId \X Message)

-----------------------------------------------------------------------------
(* Reading *)

\* The home loca is never tombstoned.
IsDeleted == ~home /\ tomb

IsArchived == mem.present /\ mem.state.archived

IsWritable == ~IsDeleted /\ ~IsArchived

\* room_mut: get the room or create an empty one.
RoomMut == IF mem.present THEN mem ELSE EmptyRoom

\* The last n entries of a sequence.
LastOf(s, n) == IF Len(s) <= n THEN s ELSE SubSeq(s, Len(s) - n + 1, Len(s))

(* Mutant: only the mirror in memory is asked. *)
MessageByOperationHot(s, o) == {m \in ToSet(mem.ops) : m.sender = s /\ m.op = o}

\* message_by_operation: the row of this principal and operation, if any.
MessageByOperation(s, o) == {m \in ToSet(db.msgs) : m.sender = s /\ m.op = o}

Mirrored(r, s, o) == {m \in ToSet(r.ops) : m.sender = s /\ m.op = o}

\* A room that no record brings back; the boot creates the home loca anyway.
Unrecorded == IF home THEN EmptyRoom ELSE NoRoom

RoomInit ==
    /\ home \in BOOLEAN
    /\ mem = Unrecorded
    /\ db = [msgs |-> <<>>, row |-> FALSE, state |-> DefaultState, sealed |-> FALSE,
             muted |-> {}, banned |-> {}]
    /\ tomb = FALSE
    /\ nextId = 1
    /\ req = [q \in Request |-> Idle]
    /\ quiet = FALSE
    /\ sent = {}
    /\ answers = {}

Begin(q, r) == req[q] = Idle /\ req' = [req EXCEPT ![q] = r]
Done(q) == req' = [req EXCEPT ![q] = Idle]

-----------------------------------------------------------------------------
(* Storage transactions.  Each fails on a sealed room and may fail anyway. *)

\* write_room_state: upsert guarded by sealed_at IS NULL.
WriteRoomState(d, s) == [d EXCEPT !.row = TRUE, !.state = s]

(* Mutant: the insert does not look at the seal. *)
CanInsertSealed(m) == m.op # NoOp => MessageByOperation(m.sender, m.op) = {}

\* insert_message: the unique index on (room, principal, op_id) refuses a second row.
CanInsert(m) == /\ ~db.sealed
                /\ m.op # NoOp => MessageByOperation(m.sender, m.op) = {}

InsertMessage(d, m) == [d EXCEPT !.msgs = Append(d.msgs, m)]

(* Mutants: the message, or the turn, is left out of the commit. *)
InsertTurnOnly(d, m, s) == WriteRoomState(d, s)
InsertMessageOnly(d, m, s) == InsertMessage(d, m)

\* insert_message_with_room: the message and the turn it moves in one commit.
InsertMessageWithRoom(d, m, s) == WriteRoomState(InsertMessage(d, m), s)

\* set_ban, clear_ban.
SetBan(d, act, who) ==
    CASE act = "mute" -> [d EXCEPT !.muted = @ \cup {who}]
      [] act = "unmute" -> [d EXCEPT !.muted = @ \ {who}]
      [] act = "ban" -> [d EXCEPT !.banned = @ \cup {who}]
      [] act = "unban" -> [d EXCEPT !.banned = @ \ {who}]

\* seal_room: keep the rows, mark the room, create the row if there is none.
SealRoom(d) == [d EXCEPT !.row = TRUE, !.sealed = TRUE]

-----------------------------------------------------------------------------
(* Posting *)

\* Before the mutex: the tombstone, then the durable answer to a retry.
PostBegin(q, s, o) ==
    /\ ~IsDeleted
    /\ \/ /\ o # NoOp
          /\ req[q] = Idle
          /\ \E m \in MessageByOperation(s, o) : answers' = answers \cup {<<s, o, m>>}
          /\ UNCHANGED <<mem, db, tomb, nextId, req, quiet, sent>>
       \/ /\ MessageByOperation(s, o) = {} \/ o = NoOp
          /\ Begin(q, [at |-> "post", who |-> s, op |-> o])
          /\ UNCHANGED <<mem, db, tomb, nextId, quiet, sent, answers>>

\* Moderation and chat mode; authority bypasses both.
ModeAdmits(mode, s) ==
    CASE mode.kind = "free" -> TRUE
      [] mode.kind = "paused" -> FALSE
      [] mode.kind = "restricted" -> s \in Allow
      [] mode.kind = "round_robin" -> mode.turn < Len(Order) /\ Order[mode.turn + 1] = s

\* The sliding window: recent[s] posts of s are younger than the window.
RateAdmits(r, s) == r.state.limit = 0 \/ r.recent[s] < r.state.limit

Admits(r, s) ==
    /\ ~r.state.archived
    /\ s \in Admin \/ /\ s \notin r.banned \cup r.muted
                      /\ ModeAdmits(r.state.mode, s)
                      /\ RateAdmits(r, s)

\* The baton moves when the current speaker is heard, with authority or without.
Advanced(mode, s) ==
    IF mode.kind = "round_robin" /\ mode.turn < Len(Order) /\ Order[mode.turn + 1] = s
    THEN [mode EXCEPT !.turn = (@ + 1) % Len(Order)]
    ELSE mode

\* The rate window records the post of a sender it limits.
Counted(r, s) == [r.recent EXCEPT ![s] = IF s \in Admin \/ r.state.limit = 0 THEN @ ELSE @ + 1]

\* After the commit: rate window, operation mirror and hot tail.
Mirror(r, m, mode) ==
    [r EXCEPT !.state = [r.state EXCEPT !.mode = mode],
              !.recent = Counted(r, m.sender),
              !.ops = IF m.op = NoOp THEN @ ELSE LastOf(Append(@, m), HistoryLimit),
              !.history = LastOf(Append(@, m), HistoryLimit),
              !.spoke = TRUE]

\* Under the mutex: the mirror answers a concurrent retry.
PostAnswered(q) ==
    LET r == RoomMut IN
    /\ req[q].at = "post"
    /\ \E m \in Mirrored(r, req[q].who, req[q].op) :
          req[q].op # NoOp /\ answers' = answers \cup {<<m.sender, m.op, m>>}
    /\ mem' = r
    /\ Done(q)
    /\ UNCHANGED <<db, tomb, nextId, quiet, sent>>

\* Refused by a gate, or because the author of the answered message cannot be
\* read from the archive; no id is taken.
PostRefused(q) ==
    LET r == RoomMut IN
    /\ req[q].at = "post"
    /\ req[q].op = NoOp \/ Mirrored(r, req[q].who, req[q].op) = {}
    /\ mem' = r
    /\ Done(q)
    /\ UNCHANGED <<db, tomb, nextId, quiet, sent, answers>>

\* Accepted: the id is taken, the turn moves in memory, then the transaction
\* decides; a failure moves the turn back and the id is lost.
PostCommit(q) ==
    LET r == RoomMut
        s == req[q].who
        m == [id |-> nextId, sender |-> s, op |-> req[q].op]
        mode == Advanced(r.state.mode, s)
    IN  /\ req[q].at = "post"
        /\ req[q].op = NoOp \/ Mirrored(r, s, req[q].op) = {}
        /\ Admits(r, s)
        /\ nextId <= MaxId
        /\ nextId' = nextId + 1
        /\ Done(q)
        /\ \/ /\ CanInsert(m)
              /\ db' = IF mode # r.state.mode
                       THEN InsertMessageWithRoom(db, m, [r.state EXCEPT !.mode = mode])
                       ELSE InsertMessage(db, m)
              /\ mem' = Mirror(r, m, mode)
              /\ sent' = sent \cup {m}
              /\ answers' = IF m.op = NoOp THEN answers ELSE answers \cup {<<s, m.op, m>>}
              /\ quiet' = FALSE
           \/ /\ mem' = r
              /\ UNCHANGED <<db, sent, answers, quiet>>
        /\ UNCHANGED tomb

\* Time: one post of s leaves the sliding window.
WindowSlides(s) ==
    /\ mem.recent[s] > 0
    /\ mem' = [mem EXCEPT !.recent[s] = @ - 1]
    /\ UNCHANGED <<db, tomb, nextId, req, quiet, sent, answers>>

-----------------------------------------------------------------------------
(* Chat state *)

\* set_mode normalises a turn that is out of range.
Normalized(mode) ==
    IF mode.kind = "round_robin" /\ mode.turn >= Len(Order) THEN [mode EXCEPT !.turn = 0] ELSE mode

SetModeBegin(q, mode) ==
    /\ IsWritable
    /\ Begin(q, [at |-> "mode", to |-> mode])
    /\ UNCHANGED <<mem, db, tomb, nextId, quiet, sent, answers>>

SetMode(q) ==
    LET r == RoomMut
        s == [r.state EXCEPT !.mode = Normalized(req[q].to)]
    IN  /\ req[q].at = "mode"
        /\ \/ ~db.sealed /\ db' = WriteRoomState(db, s) /\ mem' = [r EXCEPT !.state = s]
           \/ db' = db /\ mem' = r
        /\ Done(q)
        /\ UNCHANGED <<tomb, nextId, quiet, sent, answers>>

SetLeadBegin(q, lead) ==
    /\ IsWritable
    /\ Begin(q, [at |-> "lead", to |-> lead])
    /\ UNCHANGED <<mem, db, tomb, nextId, quiet, sent, answers>>

\* set_lead posts an announcement with the new settings in one transaction. It
\* keeps the whole history; the next post trims it.  A failure, or a loca that
\* has an active goal and would lose its lead, leaves everything as it is.
SetLead(q) ==
    LET r == RoomMut
        s == [r.state EXCEPT !.lead = req[q].to]
        m == [id |-> nextId, sender |-> LeadNews, op |-> NoOp]
    IN  /\ req[q].at = "lead"
        /\ nextId <= MaxId
        /\ Done(q)
        /\ \/ /\ CanInsert(m)
              /\ db' = InsertMessageWithRoom(db, m, s)
              /\ mem' = [r EXCEPT !.state = s, !.history = Append(@, m)]
              /\ sent' = sent \cup {m}
              /\ nextId' = nextId + 1
           \/ /\ nextId' \in {nextId, nextId + 1}
              /\ UNCHANGED <<mem, db, sent>>
        /\ UNCHANGED <<tomb, quiet, answers>>

\* announce_join_request: the home loca is told of a request whether or not the
\* message can be saved, also in a room that was sealed.
AnnounceJoinRequest ==
    LET r == RoomMut
        m == [id |-> nextId, sender |-> JoinNews, op |-> NoOp]
    IN  /\ home
        /\ nextId <= MaxId
        /\ Cardinality({n \in sent : n.sender = JoinNews}) < MaxJoin
        /\ nextId' = nextId + 1
        /\ \/ CanInsert(m) /\ db' = InsertMessageWithRoom(db, m, r.state)
           \/ UNCHANGED db
        /\ mem' = [r EXCEPT !.history = Append(@, m)]
        /\ sent' = sent \cup {m}
        /\ UNCHANGED <<tomb, req, quiet, answers>>

SetSettingsBegin(q, field, to) ==
    /\ ~IsDeleted
    /\ Begin(q, [at |-> "settings", field |-> field, to |-> to])
    /\ UNCHANGED <<mem, db, tomb, nextId, quiet, sent, answers>>

\* set_settings: switching live on starts its timeout.
SetSettings(q) ==
    LET r == RoomMut
        s == [r.state EXCEPT ![req[q].field] = req[q].to]
        starts == req[q].field = "live" /\ req[q].to
    IN  /\ req[q].at = "settings"
        /\ \/ /\ ~db.sealed
              /\ db' = WriteRoomState(db, s)
              /\ mem' = [r EXCEPT !.state = s, !.spoke = @ \/ starts]
              /\ quiet' = (quiet /\ ~starts)
           \/ mem' = r /\ UNCHANGED <<db, quiet>>
        /\ Done(q)
        /\ UNCHANGED <<tomb, nextId, sent, answers>>

\* Time: the live timeout runs out.
GoesQuiet ==
    /\ ~quiet
    /\ quiet' = TRUE
    /\ UNCHANGED <<mem, db, tomb, nextId, req, sent, answers>>

\* expire_live, called by a background task; a failed save switches live on again.
ExpireLive ==
    /\ mem.present /\ mem.state.live /\ mem.spoke /\ quiet /\ ~db.sealed
    /\ LET s == [mem.state EXCEPT !.live = FALSE]
       IN  db' = WriteRoomState(db, s) /\ mem' = [mem EXCEPT !.state = s]
    /\ UNCHANGED <<tomb, nextId, req, quiet, sent, answers>>

-----------------------------------------------------------------------------
(* Moderation: the row first, then the mutex and the copy in memory *)

ModerateBegin(q, act, who) ==
    /\ ~IsDeleted
    /\ Begin(q, [at |-> "moderate", act |-> act, who |-> who])
    /\ db' = SetBan(db, act, who)
    /\ UNCHANGED <<mem, tomb, nextId, quiet, sent, answers>>

Moderate(q) ==
    /\ req[q].at = "moderate"
    /\ mem' = SetBan(RoomMut, req[q].act, req[q].who)
    /\ Done(q)
    /\ UNCHANGED <<db, tomb, nextId, quiet, sent, answers>>

-----------------------------------------------------------------------------
(* Sealing: look, seal the row, drop the room, bury the name *)

DeleteBegin(q) ==
    /\ mem.present /\ mem.state.archived
    /\ Begin(q, [at |-> "delete"])
    /\ UNCHANGED <<mem, db, tomb, nextId, quiet, sent, answers>>

DeleteSeal(q) ==
    /\ req[q].at = "delete"
    /\ \/ db' = SealRoom(db) /\ req' = [req EXCEPT ![q] = [at |-> "remove"]]
       \/ UNCHANGED db /\ Done(q)
    /\ UNCHANGED <<mem, tomb, nextId, quiet, sent, answers>>

DeleteRemove(q) ==
    /\ req[q].at = "remove"
    /\ mem' = NoRoom
    /\ req' = [req EXCEPT ![q] = [at |-> "bury"]]
    /\ UNCHANGED <<db, tomb, nextId, quiet, sent, answers>>

DeleteBury(q) ==
    /\ req[q].at = "bury"
    /\ tomb' = TRUE
    /\ Done(q)
    /\ UNCHANGED <<mem, db, nextId, quiet, sent, answers>>

-----------------------------------------------------------------------------
(* Restart: every handler is gone, the room is what the rows say *)

\* load: a loca with any durable record comes back, a sealed one does not.
LoadsRoom == ~db.sealed /\ (db.row \/ db.msgs # <<>>)

\* load_room: mode and settings of the row, or the built-in ones for a loca that
\* has messages and no row, and the tail of the archive; bans are put back by
\* room_mut, which creates the room where load skipped a sealed one.
Loaded ==
    LET base == IF LoadsRoom
                THEN [EmptyRoom EXCEPT !.state = IF db.row THEN db.state ELSE BuiltinState,
                                       !.history = LastOf(db.msgs, HistoryLimit),
                                       !.spoke = db.msgs # <<>>]
                ELSE Unrecorded
    IN  IF db.muted \cup db.banned = {} THEN base
        ELSE [base EXCEPT !.present = TRUE, !.muted = db.muted, !.banned = db.banned]

Restart ==
    /\ mem' = Loaded
    /\ tomb' = db.sealed
    /\ nextId' = IF db.msgs = <<>> THEN 1 ELSE Last(db.msgs).id + 1
    /\ req' = [q \in Request |-> Idle]
    /\ UNCHANGED <<db, quiet, sent, answers>>

-----------------------------------------------------------------------------

RequestStep(q) ==
    \/ \E i \in PostInput : PostBegin(q, i[1], i[2])
    \/ PostAnswered(q) \/ PostRefused(q) \/ PostCommit(q)
    \/ \E mode \in ModeInput : SetModeBegin(q, mode)
    \/ SetMode(q)
    \/ \E lead \in LeadInput : SetLeadBegin(q, lead)
    \/ SetLead(q)
    \/ \E i \in SettingInput : SetSettingsBegin(q, i[1], i[2])
    \/ SetSettings(q)
    \/ \E i \in ModInput : ModerateBegin(q, i[1], i[2])
    \/ Moderate(q)
    \/ DeleteBegin(q) \/ DeleteSeal(q) \/ DeleteRemove(q) \/ DeleteBury(q)

RoomNext ==
    /\ \/ \E q \in Request : RequestStep(q)
       \/ \E s \in Person : WindowSlides(s)
       \/ GoesQuiet \/ ExpireLive \/ AnnounceJoinRequest \/ Restart
    /\ UNCHANGED home

RoomSpec == RoomInit /\ [][RoomNext]_roomVars

-----------------------------------------------------------------------------
(* Properties *)

\* A retried post is the same post: whatever the mirror has dropped, whichever
\* of two concurrent attempts wins and however often the server restarts, every
\* answer to one operation id of one sender names the same message (post).
OneAnswerPerOperation ==
    \A a, b \in answers : a[1] = b[1] /\ a[2] = b[2] => a[3] = b[3]

\* A message the sockets have seen is on disk, also after failed writes, sealing
\* and restarts (post, set_lead: persist before broadcast).  The one exception is
\* the announcement of a join request, which is shown even when it cannot be
\* saved (announce_join_request).
BroadcastIsDurable == \A m \in sent : m \in ToSet(db.msgs) \/ m.sender = JoinNews

\* h is in id order, ends with the archive s, leaves out nothing archived since
\* its first entry, and adds nothing to it but join requests that were not saved.
ShowsTailOf(h, s) ==
    /\ \A i, j \in 1..Len(h) : i < j => h[i].id < h[j].id
    /\ \A i \in 1..Len(h) : h[i] \in ToSet(s) \/ h[i].sender = JoinNews
    /\ \A m \in ToSet(s) : h # <<>> /\ h[1].id <= m.id => m \in ToSet(h)
    /\ s # <<>> => Last(s) \in ToSet(h)

\* Outside a sealed room the hot copy is the durable one: same mode with the
\* same turn and same settings as the row, default ones as long as there is no
\* row, and a history that is the tail of the archive but for the join requests
\* that could not be saved.  So all a restart takes back are those, and all it
\* changes are the limits of a loca without a row (post, set_mode, set_lead,
\* set_settings, expire_live, announce_join_request, load_room).
HotCopyMatchesStore ==
    ~db.sealed =>
      /\ mem.present => /\ db.row => mem.state = db.state
                        /\ ~db.row => mem.state \in {DefaultState, BuiltinState}
                        /\ ShowsTailOf(mem.history, db.msgs)
                        /\ ToSet(mem.ops) \subseteq ToSet(db.msgs)
      /\ ~mem.present => ~db.row /\ db.msgs = <<>>
      /\ \A i \in 2..Len(db.msgs) : db.msgs[i - 1].id < db.msgs[i].id
      /\ db.msgs # <<>> => Last(db.msgs).id < nextId

\* What the loca promises.
Promise == INSTANCE RoomPromise WITH
    log <- db.msgs, state <- db.state, sealed <- db.sealed, told <- answers, State <- RoomState

\* The rows, with the mirror, the requests in flight, failing writes and restarts
\* around them, keep the promise: an archive that only grows in id order, one
\* message per operation, and a seal that no request already past its checks
\* writes behind (require_unsealed_room, the guard of write_room_state, the
\* unique index of messages).
KeepsPromise == Promise!PromiseSpec

=============================================================================
