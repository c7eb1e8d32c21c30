------------------------------ MODULE Building ------------------------------
(***************************************************************************)
(* What a member holds: credentials, davets (a seat in one loca), sessions *)
(* and a socket in the lobby; and how suspension, revocation and release   *)
(* take them back (hub.rs, store/identity.rs, routes/lobby.rs).            *)
(*                                                                         *)
(* Every cascade is a transaction on the tables followed by a clean-up of  *)
(* the hot maps.  add_invite, suspension and revocation hold the           *)
(* member_lifecycle mutex across both halves; release, kick and the        *)
(* creation of sessions do not.  The building is in davet-only mode, the   *)
(* shape of the production deployment.                                     *)
(***************************************************************************)
EXTENDS Admission, Sequences

CONSTANTS
    Room,       \* rooms
    Davet,      \* davet tokens
    Session,    \* session tokens
    Op,         \* handler tasks that can be in flight together
    SeatMax,    \* LOCA_KAPASITE
    BusMax      \* BROADCAST_CAP of the lobby bus

ASSUME BuildingAssumption == SeatMax \in Nat \ {0} /\ BusMax \in Nat \ {0}

\* A member's bearers: the token it was admitted with and one device key.
Key == {"legacy", "device"}

VARIABLES
    suspended,   \* the member_suspensions table
    off,         \* members whose principal is disabled
    keys,        \* the credentials table
    davets,      \* the invites table
    hotDavets,   \* Hub::invites
    sessRows,    \* the principal_sessions table
    hotSess,     \* Hub::sessions
    lifecycle,   \* the member_lifecycle mutex is held
    ops,         \* where each handler stands
    lobby        \* each member's lobby socket and its receiver on the bus

holdVars == <<suspended, off, keys, davets, hotDavets, sessRows, hotSess, lifecycle, ops, lobby>>
bldVars == <<admVars, holdVars>>

NoRow == [row |-> "none"]
Out == [at |-> "out", bus |-> <<>>, told |-> {}]
Ready == [at |-> "ready"]
Lagged == [t |-> "lagged"]
BusEvent == {Lagged} \cup [t : {"called"}, mb : Mb, davet : Davet] \cup [t : {"barred"}, mb : Mb]

BldTypeOK ==
    /\ suspended \subseteq Mb /\ off \subseteq Mb
    /\ keys \in [Mb \X Key -> {"none", "live", "revoked"}]
    /\ davets \in [Davet -> {NoRow} \cup [row : {"live", "revoked"}, loca : Room, mb : Mb]]
    /\ hotDavets \subseteq Davet
    /\ sessRows \in [Session -> {NoRow} \cup [row : {"live", "revoked"}, mb : Mb, key : Key]]
    /\ hotSess \in [Session -> {NoRow} \cup [row : {"seat"}, mb : Mb, loca : Room, bound : BOOLEAN]
                                   \cup [row : {"key"}, mb : Mb, bound : {TRUE}]]
    /\ lifecycle \in BOOLEAN
    /\ ops \in [Op -> {Ready}
                  \cup [at : {"invite"}, mb : Mb, loca : Room]
                  \cup [at : {"seated", "call", "end", "ended"}, davet : Davet]
                  \cup [at : {"kick", "kicked"}, loca : Room, name : Name, found : SUBSET Davet]
                  \cup [at : {"barred", "gone"}, mb : Mb]
                  \cup [at : {"seat"}, sess : Session, davet : Davet]
                  \cup [at : {"open"}, sess : Session, hot : [row : {"seat"}, mb : Mb, loca : Room, bound : BOOLEAN]]
                  \cup [at : {"unkey"}, mb : Mb, key : Key]]
    /\ lobby \in [Mb -> [at : {"out", "verified", "subscribed", "open"}, bus : UNION {[1..n -> BusEvent] : n \in 0..(BusMax + 1)},
                         told : SUBSET Davet]]

BldInit ==
    /\ AdmInit
    /\ suspended = {} /\ off = {}
    /\ keys = [k \in Mb \X Key |-> "none"]
    /\ davets = [d \in Davet |-> NoRow]
    /\ hotDavets = {}
    /\ sessRows = [s \in Session |-> NoRow]
    /\ hotSess = [s \in Session |-> NoRow]
    /\ lifecycle = FALSE
    /\ ops = [o \in Op |-> Ready]
    /\ lobby = [m \in Mb |-> Out]

-----------------------------------------------------------------------------
(* Resolving what a caller presents *)

\* principal_for_credential
KeyWorks(m, k) == keys[<<m, k>>] = "live" /\ m \notin off

\* member_of
MemberOf(m) == m \in roster /\ m \notin suspended

\* member_for_credential: any working key of the principal finds the membership.
MemberForKey(m, k) == KeyWorks(m, k) /\ m \in roster

DavetsOf(m) == {d \in hotDavets : davets[d].mb = m}

\* invite_by_token
DavetWorks(d) == d \in hotDavets /\ davets[d].mb \notin suspended

\* session_identity, principal_session_active
SessionWorks(s) ==
    /\ hotSess[s] # NoRow
    /\ hotSess[s].bound => /\ sessRows[s].row = "live"
                           /\ KeyWorks(sessRows[s].mb, sessRows[s].key)

\* has_active_invite
Invited(m, l) == \E d \in DavetsOf(m) : davets[d].loca = l

SeatsTaken(l) == Cardinality({d \in hotDavets : davets[d].loca = l})

\* The ring of the broadcast channel keeps BusMax events; a receiver that lost
\* some is told so before it reads the ones that are left.
Buffered(bus, e) ==
    LET kept == IF bus # <<>> /\ Head(bus) = Lagged THEN Tail(bus) ELSE bus
    IN  IF Len(kept) < BusMax THEN Append(bus, e) ELSE <<Lagged>> \o Append(Tail(kept), e)

\* lobby_tx.send, to every receiver.
Send(e) ==
    [m \in Mb |-> IF lobby[m].at \in {"subscribed", "open"}
                  THEN [lobby[m] EXCEPT !.bus = Buffered(@, e)] ELSE lobby[m]]

\* revoke_sessions_for_member, revoke_sessions_for_davet
WithoutMember(m) ==
    [s \in Session |-> IF hotSess[s].row = "seat" /\ hotSess[s].mb = m THEN NoRow ELSE hotSess[s]]
WithoutSeats(ds) ==
    [s \in Session |-> IF hotSess[s].row = "seat" /\ \E d \in ds : davets[d].mb = hotSess[s].mb
                                                                /\ davets[d].loca = hotSess[s].loca
                       THEN NoRow ELSE hotSess[s]]

EndRows(ds) == [d \in Davet |-> IF d \in ds /\ davets[d].row = "live" THEN [davets[d] EXCEPT !.row = "revoked"] ELSE davets[d]]

-----------------------------------------------------------------------------
(* Admission, seen from here: add_member writes the credential as well *)

NewMembers == {m \in Mb : rows[m].row = "none" /\ rows'[m].row = "live"}

MemberStep ==
    /\ \/ \E c \in Call, name \in Name : Admit(c, name)
       \/ \E c \in Call : AddMember(c) \/ MirrorMember(c)
    /\ keys' = [k \in Mb \X Key |-> IF k[1] \in NewMembers /\ k[2] = "legacy" THEN "live" ELSE keys[k]]
    /\ UNCHANGED <<suspended, off, davets, hotDavets, sessRows, hotSess, lifecycle, ops, lobby>>

-----------------------------------------------------------------------------
(* Davets *)

\* A minted token is as good as any other that was never used.
FreshDavets == {d \in Davet : davets[d] = NoRow}
NewDavet == CHOOSE d \in Davet : davets[d] = NoRow

\* invite_member_to_room up to add_invite: what the hot maps say now.
Invite(o, m, l) ==
    /\ ops[o] = Ready
    /\ MemberOf(m) /\ ~Invited(m, l) /\ SeatsTaken(l) < SeatMax
    /\ ops' = [ops EXCEPT ![o] = [at |-> "invite", mb |-> m, loca |-> l]]
    /\ UNCHANGED <<admVars, suspended, off, keys, davets, hotDavets, sessRows, hotSess, lifecycle, lobby>>

(* Mutant: add_invite relies on the caller's check. *)
AddInviteUnchecked(o) ==
    /\ ops[o].at = "invite" /\ ~lifecycle
    /\ FreshDavets # {}
    /\ davets' = [davets EXCEPT ![NewDavet] = [row |-> "live", loca |-> ops[o].loca, mb |-> ops[o].mb]]
    /\ ops' = [ops EXCEPT ![o] = [at |-> "seated", davet |-> NewDavet]]
    /\ lifecycle' = TRUE
    /\ UNCHANGED <<admVars, suspended, off, keys, hotDavets, sessRows, hotSess, lobby>>

\* add_invite and insert_invite: the member is looked at again under the mutex.
AddInvite(o) ==
    /\ ops[o].at = "invite" /\ ~lifecycle
    /\ IF MemberOf(ops[o].mb)
       THEN /\ FreshDavets # {}
            /\ davets' = [davets EXCEPT ![NewDavet] = [row |-> "live", loca |-> ops[o].loca, mb |-> ops[o].mb]]
            /\ ops' = [ops EXCEPT ![o] = [at |-> "seated", davet |-> NewDavet]]
            /\ lifecycle' = TRUE
       ELSE /\ ops' = [ops EXCEPT ![o] = Ready]
            /\ UNCHANGED <<davets, lifecycle>>
    /\ UNCHANGED <<admVars, suspended, off, keys, hotDavets, sessRows, hotSess, lobby>>

AddInviteHot(o) ==
    /\ ops[o].at = "seated"
    /\ hotDavets' = hotDavets \cup {ops[o].davet}
    /\ lifecycle' = FALSE
    /\ ops' = [ops EXCEPT ![o].at = "call"]
    /\ UNCHANGED <<admVars, suspended, off, keys, davets, sessRows, hotSess, lobby>>

\* The end of invite_member_to_room.
CallMember(o) ==
    /\ ops[o].at = "call"
    /\ lobby' = Send([t |-> "called", mb |-> davets[ops[o].davet].mb, davet |-> ops[o].davet])
    /\ ops' = [ops EXCEPT ![o] = Ready]
    /\ UNCHANGED <<admVars, suspended, off, keys, davets, hotDavets, sessRows, hotSess, lifecycle>>

\* revoke_invite, also as release_self_from_loca.
RevokeInvite(o, d) ==
    /\ ops[o] = Ready /\ d \in hotDavets
    /\ ops' = [ops EXCEPT ![o] = [at |-> "end", davet |-> d]]
    /\ UNCHANGED <<admVars, suspended, off, keys, davets, hotDavets, sessRows, hotSess, lifecycle, lobby>>

RevokeInviteRow(o) ==
    /\ ops[o].at = "end"
    /\ davets' = EndRows({ops[o].davet})
    /\ ops' = [ops EXCEPT ![o].at = "ended"]
    /\ UNCHANGED <<admVars, suspended, off, keys, hotDavets, sessRows, hotSess, lifecycle, lobby>>

RevokeInviteHot(o) ==
    /\ ops[o].at = "ended"
    /\ hotDavets' = hotDavets \ {ops[o].davet}
    /\ hotSess' = WithoutSeats({ops[o].davet})
    /\ ops' = [ops EXCEPT ![o] = Ready]
    /\ UNCHANGED <<admVars, suspended, off, keys, davets, sessRows, lifecycle, lobby>>

Named(l, name) == {d \in Davet : davets[d].row = "live" /\ davets[d].loca = l /\ rows[davets[d].mb].name = name}

\* revoke_invites_for, of kick and ban: what the hot map holds now ...
Kick(o, l, name) ==
    LET found == {d \in hotDavets : davets[d].loca = l /\ rows[davets[d].mb].name = name}
    IN  /\ ops[o] = Ready /\ found # {}
        /\ ops' = [ops EXCEPT ![o] = [at |-> "kick", loca |-> l, name |-> name, found |-> found]]
        /\ UNCHANGED <<admVars, suspended, off, keys, davets, hotDavets, sessRows, hotSess, lifecycle, lobby>>

\* ... every row of the name ...
KickRows(o) ==
    /\ ops[o].at = "kick"
    /\ davets' = EndRows(Named(ops[o].loca, ops[o].name))
    /\ ops' = [ops EXCEPT ![o].at = "kicked"]
    /\ UNCHANGED <<admVars, suspended, off, keys, hotDavets, sessRows, hotSess, lifecycle, lobby>>

\* ... and what was found.
KickHot(o) ==
    /\ ops[o].at = "kicked"
    /\ hotDavets' = hotDavets \ ops[o].found
    /\ hotSess' = WithoutSeats(ops[o].found)
    /\ ops' = [ops EXCEPT ![o] = Ready]
    /\ UNCHANGED <<admVars, suspended, off, keys, davets, sessRows, lifecycle, lobby>>

-----------------------------------------------------------------------------
(* Suspension and revocation *)

MemberDavets(m) == {d \in Davet : davets[d].row = "live" /\ davets[d].mb = m}

\* suspend_member, one transaction.
Suspend(o, m) ==
    /\ ops[o] = Ready /\ ~lifecycle
    /\ m \in roster /\ rows[m].row = "live"
    /\ suspended' = suspended \cup {m}
    /\ off' = off \cup {m}
    /\ sessRows' = [s \in Session |-> IF sessRows[s].row = "live" /\ sessRows[s].mb = m
                                      THEN [sessRows[s] EXCEPT !.row = "revoked"] ELSE sessRows[s]]
    /\ davets' = EndRows(MemberDavets(m))
    /\ lifecycle' = TRUE
    /\ ops' = [ops EXCEPT ![o] = [at |-> "barred", mb |-> m]]
    /\ UNCHANGED <<admVars, keys, hotDavets, hotSess, lobby>>

\* The suspension is lifted only for a membership that still exists.
Resumable(m) == m \in suspended /\ rows[m].row = "live"

\* resume_member: keys and principal work again, nothing else comes back.
Resume(m) ==
    /\ ~lifecycle /\ m \in roster
    /\ Resumable(m)
    /\ suspended' = suspended \ {m}
    /\ off' = off \ {m}
    /\ UNCHANGED <<admVars, keys, davets, hotDavets, sessRows, hotSess, lifecycle, ops, lobby>>

(* Mutant: only the membership's own bearer is revoked. *)
OffUnlessKey(m) == off

\* With its principal disabled, the member's other keys die too.
OffWith(m) == off \cup {m}

\* revoke_member_cascade, revoke_principal_credential
RevokeMember(o, m) ==
    /\ ops[o] = Ready /\ ~lifecycle
    /\ m \in roster
    /\ rows' = [rows EXCEPT ![m].row = "revoked"]
    /\ davets' = EndRows(MemberDavets(m))
    /\ keys' = [keys EXCEPT ![<<m, "legacy">>] = "revoked"]
    /\ off' = OffWith(m)
    /\ lifecycle' = TRUE
    /\ ops' = [ops EXCEPT ![o] = [at |-> "gone", mb |-> m]]
    /\ UNCHANGED <<roster, requests, stock, knocks, calls, client, suspended, hotDavets, sessRows, hotSess, lobby>>

\* The hot half of both: davets, sessions, the lobby event, and the roster if
\* the membership ended.
Bar(o) ==
    /\ ops[o].at \in {"barred", "gone"}
    /\ hotDavets' = hotDavets \ DavetsOf(ops[o].mb)
    /\ hotSess' = WithoutMember(ops[o].mb)
    /\ roster' = IF ops[o].at = "gone" THEN roster \ {ops[o].mb} ELSE roster
    /\ lobby' = Send([t |-> "barred", mb |-> ops[o].mb])
    /\ lifecycle' = FALSE
    /\ ops' = [ops EXCEPT ![o] = Ready]
    /\ UNCHANGED <<rows, requests, stock, knocks, calls, client, suspended, off, keys, davets, sessRows>>

-----------------------------------------------------------------------------
(* Credentials and sessions *)

Recognised(m) == \E k \in Key : KeyWorks(m, k)

\* create_profile_credential
CreateKey(m) ==
    /\ Recognised(m) /\ keys[<<m, "device">>] = "none"
    /\ keys' = [keys EXCEPT ![<<m, "device">>] = "live"]
    /\ UNCHANGED <<admVars, suspended, off, davets, hotDavets, sessRows, hotSess, lifecycle, ops, lobby>>

\* revoke_profile_credential: the rows in a transaction, then the hot sessions.
RevokeKey(o, m, k) ==
    /\ ops[o] = Ready
    /\ Recognised(m) /\ keys[<<m, k>>] = "live"
    /\ keys' = [keys EXCEPT ![<<m, k>>] = "revoked"]
    /\ sessRows' = [s \in Session |-> IF sessRows[s].row = "live" /\ sessRows[s].mb = m /\ sessRows[s].key = k
                                      THEN [sessRows[s] EXCEPT !.row = "revoked"] ELSE sessRows[s]]
    /\ ops' = [ops EXCEPT ![o] = [at |-> "unkey", mb |-> m, key |-> k]]
    /\ UNCHANGED <<admVars, suspended, off, davets, hotDavets, hotSess, lifecycle, lobby>>

RevokeKeyHot(o) ==
    /\ ops[o].at = "unkey"
    /\ hotSess' = [s \in Session |-> IF sessRows[s] # NoRow /\ sessRows[s].mb = ops[o].mb /\ sessRows[s].key = ops[o].key
                                     THEN NoRow ELSE hotSess[s]]
    /\ ops' = [ops EXCEPT ![o] = Ready]
    /\ UNCHANGED <<admVars, suspended, off, keys, davets, hotDavets, sessRows, lifecycle, lobby>>

Unused(s) ==
    /\ sessRows[s] = NoRow /\ hotSess[s] = NoRow
    /\ \A o \in Op : ops[o].at \in {"seat", "open"} => ops[o].sess # s

\* create_session_route with a davet: the davet is looked up ...
SeatSession(o, s, d) ==
    /\ ops[o] = Ready /\ Unused(s) /\ DavetWorks(d)
    /\ ops' = [ops EXCEPT ![o] = [at |-> "seat", sess |-> s, davet |-> d]]
    /\ UNCHANGED <<admVars, suspended, off, keys, davets, hotDavets, sessRows, hotSess, lifecycle, lobby>>

\* ... create_session_scoped binds the member's principal if its own bearer
\* still works ...
BindSession(o) ==
    LET d == davets[ops[o].davet]
        bound == KeyWorks(d.mb, "legacy")
    IN  /\ ops[o].at = "seat"
        /\ sessRows' = IF bound THEN [sessRows EXCEPT ![ops[o].sess] = [row |-> "live", mb |-> d.mb, key |-> "legacy"]]
                       ELSE sessRows
        /\ ops' = [ops EXCEPT ![o] = [at |-> "open", sess |-> ops[o].sess,
                                      hot |-> [row |-> "seat", mb |-> d.mb, loca |-> d.loca, bound |-> bound]]]
        /\ UNCHANGED <<admVars, suspended, off, keys, davets, hotDavets, hotSess, lifecycle, lobby>>

\* ... and the session is open, whatever happened to the davet since.
OpenSession(o) ==
    /\ ops[o].at = "open"
    /\ hotSess' = [hotSess EXCEPT ![ops[o].sess] = ops[o].hot]
    /\ ops' = [ops EXCEPT ![o] = Ready]
    /\ UNCHANGED <<admVars, suspended, off, keys, davets, hotDavets, sessRows, lifecycle, lobby>>

\* A session taken with a key: admin_session_grant binds it to principal and key.
KeySession(s, m, k) ==
    /\ Unused(s) /\ MemberForKey(m, k)
    /\ sessRows' = [sessRows EXCEPT ![s] = [row |-> "live", mb |-> m, key |-> k]]
    /\ hotSess' = [hotSess EXCEPT ![s] = [row |-> "key", mb |-> m, bound |-> TRUE]]
    /\ UNCHANGED <<admVars, suspended, off, keys, davets, hotDavets, lifecycle, ops, lobby>>

\* revoke_session
Logout(s) ==
    /\ hotSess[s] # NoRow
    /\ hotSess' = [hotSess EXCEPT ![s] = NoRow]
    /\ sessRows' = [sessRows EXCEPT ![s] = IF @.row = "live" THEN [@ EXCEPT !.row = "revoked"] ELSE @]
    /\ UNCHANGED <<admVars, suspended, off, keys, davets, hotDavets, lifecycle, ops, lobby>>

\* session_identity drops what no longer works, and a bound session whose row it
\* fails to read.
PurgeSession(s) ==
    /\ hotSess[s] # NoRow
    /\ ~SessionWorks(s) \/ hotSess[s].bound
    /\ hotSess' = [hotSess EXCEPT ![s] = NoRow]
    /\ UNCHANGED <<admVars, suspended, off, keys, davets, hotDavets, sessRows, lifecycle, ops, lobby>>

-----------------------------------------------------------------------------
(* The lobby socket *)

\* lobby_ws_handler
LobbyVerify(m, k) ==
    /\ lobby[m].at = "out" /\ MemberForKey(m, k)
    /\ lobby' = [lobby EXCEPT ![m].at = "verified"]
    /\ UNCHANGED <<admVars, suspended, off, keys, davets, hotDavets, sessRows, hotSess, lifecycle, ops>>

\* subscribe_lobby, before the snapshot
LobbySubscribe(m) ==
    /\ lobby[m].at = "verified"
    /\ lobby' = [lobby EXCEPT ![m].at = "subscribed"]
    /\ UNCHANGED <<admVars, suspended, off, keys, davets, hotDavets, sessRows, hotSess, lifecycle, ops>>

\* invites_for_member, replayed as calls
LobbySnapshot(m) ==
    /\ lobby[m].at = "subscribed"
    /\ lobby' = [lobby EXCEPT ![m] = [at |-> "open", bus |-> lobby[m].bus, told |-> DavetsOf(m)]]
    /\ UNCHANGED <<admVars, suspended, off, keys, davets, hotDavets, sessRows, hotSess, lifecycle, ops>>

(* Mutant: a lagging receiver goes on with the next event. *)
AfterLagNothing(m) == lobby[m].told

\* After a lag the davets are replayed.
AfterLag(m) == lobby[m].told \cup DavetsOf(m)

\* What a socket has told its client after event e; those of other members are skipped.
AfterEvent(m, e) ==
    CASE e = Lagged -> AfterLag(m)
      [] e # Lagged /\ e.t = "called" /\ e.mb = m -> lobby[m].told \cup {e.davet}
      [] OTHER -> lobby[m].told

\* lobby_ws_session: one event of the bus; the member's own bar closes the socket.
LobbyRecv(m) ==
    /\ lobby[m].at = "open" /\ lobby[m].bus # <<>>
    /\ LET e == Head(lobby[m].bus)
       IN  lobby' = [lobby EXCEPT ![m] = IF e = [t |-> "barred", mb |-> m] THEN Out
                                         ELSE [at |-> "open", bus |-> Tail(lobby[m].bus), told |-> AfterEvent(m, e)]]
    /\ UNCHANGED <<admVars, suspended, off, keys, davets, hotDavets, sessRows, hotSess, lifecycle, ops>>

LobbyDrops(m) ==
    /\ lobby[m].at # "out"
    /\ lobby' = [lobby EXCEPT ![m] = Out]
    /\ UNCHANGED <<admVars, suspended, off, keys, davets, hotDavets, sessRows, hotSess, lifecycle, ops>>

-----------------------------------------------------------------------------
\* A statement fails: the handler answers with an error before it changed anything.
StorageFails(o) ==
    /\ ops[o].at \in {"invite", "end", "kick", "seat"}
    /\ ops' = [ops EXCEPT ![o] = Ready]
    /\ UNCHANGED <<admVars, suspended, off, keys, davets, hotDavets, sessRows, hotSess, lifecycle, lobby>>

\* The server dies; Hub::build reads members and davets, member sessions are gone.
BldRestart ==
    /\ AdmRestart
    /\ hotDavets' = {d \in Davet : davets[d].row = "live"}
    /\ hotSess' = [s \in Session |-> NoRow]
    /\ lifecycle' = FALSE
    /\ ops' = [o \in Op |-> Ready]
    /\ lobby' = [m \in Mb |-> Out]
    /\ UNCHANGED <<suspended, off, keys, davets, sessRows>>

DavetStep ==
    \/ \E o \in Op, m \in Mb, l \in Room : Invite(o, m, l)
    \/ \E o \in Op : AddInvite(o) \/ AddInviteHot(o) \/ CallMember(o)
    \/ \E o \in Op, d \in Davet : RevokeInvite(o, d)
    \/ \E o \in Op : RevokeInviteRow(o) \/ RevokeInviteHot(o)
    \/ \E o \in Op, l \in Room, name \in Name : Kick(o, l, name)
    \/ \E o \in Op : KickRows(o) \/ KickHot(o) \/ StorageFails(o)

BarStep ==
    \/ \E o \in Op, m \in Mb : Suspend(o, m) \/ RevokeMember(o, m)
    \/ \E o \in Op : Bar(o)
    \/ \E m \in Mb : Resume(m)

BearerStep ==
    \/ \E m \in Mb : CreateKey(m)
    \/ \E o \in Op, m \in Mb, k \in Key : RevokeKey(o, m, k)
    \/ \E o \in Op : RevokeKeyHot(o)
    \/ \E o \in Op, s \in Session, d \in Davet : SeatSession(o, s, d)
    \/ \E o \in Op : BindSession(o) \/ OpenSession(o)
    \/ \E s \in Session, m \in Mb, k \in Key : KeySession(s, m, k)
    \/ \E s \in Session : Logout(s) \/ PurgeSession(s)

LobbyStep ==
    \/ \E m \in Mb, k \in Key : LobbyVerify(m, k)
    \/ \E m \in Mb : LobbySubscribe(m) \/ LobbySnapshot(m) \/ LobbyRecv(m) \/ LobbyDrops(m)

BldNext == MemberStep \/ DavetStep \/ BarStep \/ BearerStep \/ LobbyStep \/ BldRestart

BldSpec == BldInit /\ [][BldNext]_bldVars

-----------------------------------------------------------------------------
(* Properties *)

\* A member who was suspended or removed holds no davet, in the tables or in
\* the hot map, once the cascade is over: an invitation that was checked before
\* and is written after it is refused, and no restart or resumption brings a
\* davet back (add_invite against set_member_suspended and revoke_member).
BarredHoldNoDavet ==
    ~lifecycle => \A d \in Davet : (d \in hotDavets \/ davets[d].row = "live") =>
                    /\ rows[davets[d].mb].row = "live"
                    /\ davets[d].mb \notin suspended

\* An open lobby socket that has read its bus knows every davet its member
\* holds: a call that races the handshake is in the snapshot or on the bus, and
\* a lagging receiver catches up (lobby_ws_session).
LobbyHearsCalls ==
    \A m \in Mb : lobby[m].at = "open" /\ lobby[m].bus = <<>> =>
        \A d \in DavetsOf(m) : d \in lobby[m].told \/ \E o \in Op : ops[o] = [at |-> "call", davet |-> d]

\* The key was revoked, or the membership it belongs to.
Ended(m, k) == rows[m].row = "revoked" \/ keys[<<m, k>>] = "revoked"

\* A revoked key, an ended membership and a revoked session are final, for every
\* key of the member and every session bound to one: no resumption, no restart and
\* no session that was being opened meanwhile makes them work again (resume_member,
\* principal_session_active).  A seat session bound after the revocation has no
\* principal and no row (hub.rs:2136-2160); hub.rs:1715-1717 is not met by it.
EndedStaysEnded ==
    [][/\ \A m \in Mb, k \in Key : Ended(m, k) => ~KeyWorks(m, k)'
       /\ \A s \in Session :
            sessRows[s].row = "revoked" \/ (sessRows[s].row = "live" /\ Ended(sessRows[s].mb, sessRows[s].key))
                => ~SessionWorks(s)']_bldVars

=============================================================================
