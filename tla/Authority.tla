----------------------------- MODULE Authority -----------------------------
(***************************************************************************)
(* Who acts for the building: the root key of the environment, the         *)
(* smasters, device keys, the admin sessions minted from them (by key or   *)
(* by a one-use pairing code) and the operator of a loca (hub.rs,          *)
(* store/identity.rs, store/operators.rs, routes/membership.rs and         *)
(* routes/rooms.rs).                                                       *)
(*                                                                         *)
(* Each transaction is atomic, a handler is not: a session is saved, bound *)
(* and opened in three statements, a revocation commits before the hot     *)
(* maps follow, and an operator is read before it is removed.  A restart   *)
(* may bring another root key, and may fail half way.                      *)
(***************************************************************************)
EXTENDS Integers

CONSTANTS
    RootKey,       \* values ADMIN_TOKEN takes over the restarts
    Smaster,       \* smaster tokens; each names its own principal
    Device,        \* device keys
    Human,         \* other human principals
    Master,        \* the one Master principal
    AdminSession,  \* session tokens
    Task,          \* handler tasks that can be in flight together
    NoPrincipal

\* Random tokens are distinct, principals have ids of their own.
ASSUME AuthorityAssumption ==
    /\ RootKey \cap Smaster = {} /\ RootKey \cap Device = {} /\ Smaster \cap Device = {}
    /\ Master \notin Smaster
    /\ NoPrincipal \notin RootKey \cup Smaster \cup Device \cup Human \cup {Master}

Cred == RootKey \cup Smaster \cup Device
Principal == {Master} \cup Smaster \cup Human
Admins == {Master} \cup Smaster

VARIABLES
    up,         \* Hub::build has finished
    root,       \* the configured ADMIN_TOKEN
    creds,      \* the credentials table
    owner,      \* principal of each device key
    disabled,   \* principals with disabled_at
    smRows,     \* live rows of the smasters table
    smasters,   \* Hub::smasters
    pairing,    \* the current pairing code: in the operator's hand, unknown, or expired
    adminRows,  \* the admin_sessions table
    bindings,   \* the principal_sessions table
    sessions,   \* Hub::sessions, those of administrators
    expired,    \* sessions whose time is over
    tasks,      \* where each handler stands
    operator,   \* the active row of room_operator_assignments of the one loca
    label       \* the legacy operator name in the loca's settings

authVars == <<up, root, creds, owner, disabled, smRows, smasters, pairing, adminRows, bindings, sessions, expired,
              tasks, operator, label>>

Absent == [row |-> "absent"]
Waiting == [at |-> "waiting"]
Unfounded == [prin |-> NoPrincipal, by |-> NoPrincipal, state |-> "unfounded"]
Vacant == [prin |-> NoPrincipal, by |-> NoPrincipal, state |-> "vacant"]
Grant == [sess : AdminSession, prin : Admins \cup {NoPrincipal}, cred : Cred \cup {NoPrincipal}]

AuthTypeOK ==
    /\ up \in BOOLEAN /\ root \in RootKey
    /\ creds \in [Cred -> {"none", "live", "revoked"}]
    /\ owner \in [Device -> Admins \cup {NoPrincipal}]
    /\ disabled \subseteq Smaster /\ smRows \subseteq Smaster /\ smasters \subseteq Smaster
    /\ pairing \in {"shown", "hidden", "expired"}
    /\ adminRows \subseteq AdminSession /\ expired \subseteq AdminSession
    /\ bindings \in [AdminSession -> {Absent} \cup [row : {"live", "revoked"}, prin : Admins, cred : Cred]]
    /\ sessions \in [AdminSession -> {Absent} \cup [row : {"hot"}, prin : Admins \cup {NoPrincipal}]]
    /\ tasks \in [Task -> {Waiting} \cup [at : {"save", "bind", "open"}, grant : Grant]
                    \cup [at : {"minted", "unseated", "unlisted"}, sm : Smaster]
                    \cup [at : {"revoked"}, cred : Cred]
                    \cup [at : {"unseat"}, actor : Admins, prin : Principal]]
    /\ operator \in {Unfounded, Vacant} \cup [prin : Principal, by : Admins, state : {"seated"}]
    /\ label \in Human \cup {NoPrincipal}

\* The first boot: the root key has its credential, the loca may be an old one
\* with an operator by name.
AuthInit ==
    /\ up = TRUE /\ root \in RootKey
    /\ creds = [c \in Cred |-> IF c = root THEN "live" ELSE "none"]
    /\ owner = [d \in Device |-> NoPrincipal]
    /\ disabled = {} /\ smRows = {} /\ smasters = {}
    /\ pairing = "shown"
    /\ adminRows = {} /\ expired = {}
    /\ bindings = [s \in AdminSession |-> Absent]
    /\ sessions = [s \in AdminSession |-> Absent]
    /\ tasks = [t \in Task |-> Waiting]
    /\ \/ operator = Unfounded /\ label = NoPrincipal
       \/ operator = Vacant /\ label \in Human

-----------------------------------------------------------------------------
(* Resolving authority *)

OwnerOf(c) == IF c \in RootKey THEN Master ELSE IF c \in Smaster THEN c ELSE owner[c]

\* principal_for_credential
CredWorks(c) == creds[c] = "live" /\ OwnerOf(c) \notin disabled

\* principal_session_active, principal_for_session
BindingWorks(s) ==
    /\ bindings[s].row = "live" /\ s \notin expired
    /\ CredWorks(bindings[s].cred)

\* session_identity: a session without a principal stands on its own.
SessionLives(s) ==
    /\ sessions[s] # Absent /\ s \notin expired
    /\ sessions[s].prin # NoPrincipal => BindingWorks(s)

\* A key can be shown once the answer that carries it has left.
Issued(c) == \A t \in Task : tasks[t].at = "minted" => tasks[t].sm # c

\* resolve_authority: who may act as principal p, by key or by session.
ActsAs(p) ==
    /\ up /\ p \notin disabled
    /\ \/ \E c \in Cred : CredWorks(c) /\ Issued(c) /\ OwnerOf(c) = p
       \/ \E s \in AdminSession : SessionLives(s) /\ sessions[s].prin = p

\* The fallback of resolve_authority: a key that is only in the hot map carries
\* the rank without a principal.
RankOnly(c) == ~CredWorks(c) /\ c \in smasters

-----------------------------------------------------------------------------
(* Sessions *)

Fresh(s) ==
    /\ s \notin adminRows \cup expired /\ bindings[s] = Absent /\ sessions[s] = Absent
    /\ \A t \in Task : tasks[t].at \in {"save", "bind", "open"} => tasks[t].grant.sess # s

\* create_session_route with a key: admin_session_grant
SessionByKey(t, s, c) ==
    /\ up /\ tasks[t] = Waiting /\ Fresh(s)
    /\ \/ /\ CredWorks(c) /\ Issued(c)
          /\ tasks' = [tasks EXCEPT ![t] = [at |-> "save", grant |-> [sess |-> s, prin |-> OwnerOf(c), cred |-> c]]]
       \/ /\ RankOnly(c)
          /\ tasks' = [tasks EXCEPT ![t] = [at |-> "save", grant |-> [sess |-> s, prin |-> NoPrincipal, cred |-> NoPrincipal]]]
    /\ UNCHANGED <<up, root, creds, owner, disabled, smRows, smasters, pairing, adminRows, bindings, sessions, expired,
                   operator, label>>

\* create_pairing_route, rotate_admin_pairing_for
RotatePairing ==
    /\ ActsAs(Master)
    /\ pairing' = "shown"
    /\ UNCHANGED <<up, root, creds, owner, disabled, smRows, smasters, adminRows, bindings, sessions, expired, tasks,
                   operator, label>>

PairingExpires ==
    /\ pairing # "expired"
    /\ pairing' = "expired"
    /\ UNCHANGED <<up, root, creds, owner, disabled, smRows, smasters, adminRows, bindings, sessions, expired, tasks,
                   operator, label>>

\* create_session_route with the pairing code: consume_admin_pairing replaces the
\* code whether it matched in time or had expired; master_pairing_grant.
SessionByPairing(t, s) ==
    /\ up /\ tasks[t] = Waiting /\ Fresh(s)
    /\ pairing \in {"shown", "expired"}
    /\ pairing' = "hidden"
    /\ tasks' = IF pairing = "expired" THEN tasks
                ELSE [tasks EXCEPT ![t] = [at |-> "save", grant |-> [sess |-> s, prin |-> Master, cred |-> root]]]
    /\ UNCHANGED <<up, root, creds, owner, disabled, smRows, smasters, adminRows, bindings, sessions, expired, operator,
                   label>>

\* create_session_scoped: save_admin_session ...
SaveSession(t) ==
    /\ up /\ tasks[t].at = "save"
    /\ adminRows' = adminRows \cup {tasks[t].grant.sess}
    /\ tasks' = [tasks EXCEPT ![t].at = IF tasks[t].grant.cred = NoPrincipal THEN "open" ELSE "bind"]
    /\ UNCHANGED <<up, root, creds, owner, disabled, smRows, smasters, pairing, bindings, sessions, expired, operator,
                   label>>

\* ... save_principal_session ...
BindSessionRow(t) ==
    /\ up /\ tasks[t].at = "bind"
    /\ LET g == tasks[t].grant
       IN  bindings' = [bindings EXCEPT ![g.sess] = [row |-> "live", prin |-> g.prin, cred |-> g.cred]]
    /\ tasks' = [tasks EXCEPT ![t].at = "open"]
    /\ UNCHANGED <<up, root, creds, owner, disabled, smRows, smasters, pairing, adminRows, sessions, expired, operator,
                   label>>

\* ... and the hot map.
OpenHot(t) ==
    /\ up /\ tasks[t].at = "open"
    /\ sessions' = [sessions EXCEPT ![tasks[t].grant.sess] = [row |-> "hot", prin |-> tasks[t].grant.prin]]
    /\ tasks' = [tasks EXCEPT ![t] = Waiting]
    /\ UNCHANGED <<up, root, creds, owner, disabled, smRows, smasters, pairing, adminRows, bindings, expired, operator,
                   label>>

\* A statement of the three fails and the rest is not done.
SessionFails(t) ==
    /\ up /\ tasks[t].at \in {"save", "bind"}
    /\ tasks' = [tasks EXCEPT ![t] = Waiting]
    /\ UNCHANGED <<up, root, creds, owner, disabled, smRows, smasters, pairing, adminRows, bindings, sessions, expired,
                   operator, label>>

Unbound(s) == [bindings EXCEPT ![s] = IF @.row = "live" THEN [@ EXCEPT !.row = "revoked"] ELSE @]

\* revoke_session, delete_admin_session, revoke_principal_session
EndSession(s) ==
    /\ up /\ sessions[s] # Absent
    /\ adminRows' = adminRows \ {s}
    /\ bindings' = Unbound(s)
    /\ sessions' = [sessions EXCEPT ![s] = Absent]
    /\ UNCHANGED <<up, root, creds, owner, disabled, smRows, smasters, pairing, expired, tasks, operator, label>>

SessionExpires(s) ==
    /\ s \in adminRows \ expired
    /\ expired' = expired \cup {s}
    /\ UNCHANGED <<up, root, creds, owner, disabled, smRows, smasters, pairing, adminRows, bindings, sessions, tasks,
                   operator, label>>

\* session_identity drops what principal_session_active denies, be it that the
\* session no longer works or that its row cannot be read, and what has expired;
\* only this second check deletes rows, if the store lets it.
DropSession(s) ==
    /\ up /\ sessions[s] # Absent
    /\ sessions' = [sessions EXCEPT ![s] = Absent]
    /\ \/ sessions[s].prin # NoPrincipal /\ UNCHANGED <<adminRows, bindings>>
       \/ /\ s \in expired
          /\ \/ UNCHANGED <<adminRows, bindings>>
             \/ adminRows' = adminRows \ {s} /\ bindings' \in {bindings, Unbound(s)}
    /\ UNCHANGED <<up, root, creds, owner, disabled, smRows, smasters, pairing, expired, tasks, operator, label>>

-----------------------------------------------------------------------------
(* Keys *)

\* add_smaster: table and credential, then the hot map.
AddSmaster(t, sm) ==
    /\ ActsAs(Master) /\ tasks[t] = Waiting /\ creds[sm] = "none"
    /\ smRows' = smRows \cup {sm}
    /\ creds' = [creds EXCEPT ![sm] = "live"]
    /\ tasks' = [tasks EXCEPT ![t] = [at |-> "minted", sm |-> sm]]
    /\ UNCHANGED <<up, root, owner, disabled, smasters, pairing, adminRows, bindings, sessions, expired, operator, label>>

AddSmasterHot(t) ==
    /\ up /\ tasks[t].at = "minted"
    /\ smasters' = smasters \cup {tasks[t].sm}
    /\ tasks' = [tasks EXCEPT ![t] = Waiting]
    /\ UNCHANGED <<up, root, creds, owner, disabled, smRows, pairing, adminRows, bindings, sessions, expired, operator,
                   label>>

\* revoke_smaster_ref, revoke_smaster: found in the hot map ...
RevokeSmaster(t, sm) ==
    /\ ActsAs(Master) /\ tasks[t] = Waiting /\ sm \in smasters
    /\ tasks' = [tasks EXCEPT ![t] = [at |-> "unseated", sm |-> sm]]
    /\ UNCHANGED <<up, root, creds, owner, disabled, smRows, smasters, pairing, adminRows, bindings, sessions, expired,
                   operator, label>>

\* ... ended in the tables, or not ...
RevokeSmasterRow(t) ==
    /\ up /\ tasks[t].at = "unseated"
    /\ \/ /\ smRows' = smRows \ {tasks[t].sm}
          /\ creds' = [creds EXCEPT ![tasks[t].sm] = "revoked"]
          /\ disabled' = disabled \cup {tasks[t].sm}
          /\ tasks' = [tasks EXCEPT ![t].at = "unlisted"]
       \/ /\ tasks' = [tasks EXCEPT ![t] = Waiting]
          /\ UNCHANGED <<smRows, creds, disabled>>
    /\ UNCHANGED <<up, root, owner, smasters, pairing, adminRows, bindings, sessions, expired, operator, label>>

\* ... and removed.
RevokeSmasterHot(t) ==
    /\ up /\ tasks[t].at = "unlisted"
    /\ smasters' = smasters \ {tasks[t].sm}
    /\ tasks' = [tasks EXCEPT ![t] = Waiting]
    /\ UNCHANGED <<up, root, creds, owner, disabled, smRows, pairing, adminRows, bindings, sessions, expired, operator,
                   label>>

\* create_profile_credential
CreateDevice(d, p) ==
    /\ ActsAs(p) /\ creds[d] = "none"
    /\ creds' = [creds EXCEPT ![d] = "live"]
    /\ owner' = [owner EXCEPT ![d] = p]
    /\ UNCHANGED <<up, root, disabled, smRows, smasters, pairing, adminRows, bindings, sessions, expired, tasks, operator,
                   label>>

(* Mutant: the compatibility row of the key is left alone. *)
SmRowsKept(c) == smRows

\* The smasters row of a legacy key dies in the same transaction.
SmRowsWithout(c) == smRows \ {c}

\* revoke_credential: every key of one's own but the root's.
RevokeCred(t, c) ==
    /\ tasks[t] = Waiting /\ creds[c] = "live" /\ c \notin RootKey
    /\ ActsAs(OwnerOf(c))
    /\ creds' = [creds EXCEPT ![c] = "revoked"]
    /\ bindings' = [s \in AdminSession |-> IF bindings[s].row = "live" /\ bindings[s].cred = c
                                           THEN [bindings[s] EXCEPT !.row = "revoked"] ELSE bindings[s]]
    /\ smRows' = SmRowsWithout(c)
    /\ tasks' = [tasks EXCEPT ![t] = [at |-> "revoked", cred |-> c]]
    /\ UNCHANGED <<up, root, owner, disabled, smasters, pairing, adminRows, sessions, expired, operator, label>>

\* revoke_profile_credential: the sessions of the key, then the fallback.
RevokeCredHot(t) ==
    /\ up /\ tasks[t].at = "revoked"
    /\ sessions' = [s \in AdminSession |-> IF bindings[s] # Absent /\ bindings[s].cred = tasks[t].cred
                                           THEN Absent ELSE sessions[s]]
    /\ smasters' = smasters \ {tasks[t].cred}
    /\ tasks' = [tasks EXCEPT ![t] = Waiting]
    /\ UNCHANGED <<up, root, creds, owner, disabled, smRows, pairing, adminRows, bindings, expired, operator, label>>

-----------------------------------------------------------------------------
(* The operator of the loca *)

Seat(p, q) == [prin |-> q, by |-> p, state |-> "seated"]

\* create_loca, create_room_with_operator: the founder operates it.
CreateLoca(p) ==
    /\ ActsAs(p) /\ operator = Unfounded
    /\ operator' = Seat(p, p)
    /\ UNCHANGED <<up, root, creds, owner, disabled, smRows, smasters, pairing, adminRows, bindings, sessions, expired,
                   tasks, label>>

\* appoint_loca_operator: a smaster fills an empty seat, Master replaces.
Appoint(p, q) ==
    /\ ActsAs(p) /\ q \notin disabled
    /\ operator.state # "unfounded" /\ operator.prin # q
    /\ operator = Vacant \/ p = Master
    /\ operator' = Seat(p, q)
    /\ UNCHANGED <<up, root, creds, owner, disabled, smRows, smasters, pairing, adminRows, bindings, sessions, expired,
                   tasks, label>>

\* Hub::revoke_loca_operator: judged by the appointment that is read ...
Unseat(t, p) ==
    /\ ActsAs(p) /\ tasks[t] = Waiting /\ operator.state = "seated"
    /\ p = Master \/ operator.by = p
    /\ tasks' = [tasks EXCEPT ![t] = [at |-> "unseat", actor |-> p, prin |-> operator.prin]]
    /\ UNCHANGED <<up, root, creds, owner, disabled, smRows, smasters, pairing, adminRows, bindings, sessions, expired,
                   operator, label>>

\* ... and carried out if the same principal still operates the loca.
RevokeOperator(t) ==
    /\ up /\ tasks[t].at = "unseat"
    /\ operator' = IF operator.prin = tasks[t].prin THEN Vacant ELSE operator
    /\ tasks' = [tasks EXCEPT ![t] = Waiting]
    /\ UNCHANGED <<up, root, creds, owner, disabled, smRows, smasters, pairing, adminRows, bindings, sessions, expired,
                   label>>

-----------------------------------------------------------------------------
(* Restart *)

OldRoots(r) == {c \in RootKey : c # r /\ creds[c] # "none"}

(* Mutant: a rotation retires the old key and forgets its sessions. *)
SessionsOfOldRootKept(r) == bindings

\* The sessions that the other root keys opened are revoked.
WithoutOldRoots(r) ==
    [s \in AdminSession |-> IF bindings[s].row = "live" /\ bindings[s].cred \in OldRoots(r)
                            THEN [bindings[s] EXCEPT !.row = "revoked"] ELSE bindings[s]]

(* Mutant: the key's credential is inserted only if it is new. *)
RootInserted(r) == IF creds[r] = "none" THEN "live" ELSE creds[r]

\* ON CONFLICT: a key that returns is valid again.
RootRow(r) == "live"

\* ensure_master_principal, one transaction, at the head of Hub::build.
Boot(r) ==
    /\ root' = r
    /\ creds' = [c \in Cred |-> IF c = r THEN RootRow(r) ELSE IF c \in OldRoots(r) THEN "revoked" ELSE creds[c]]
    /\ bindings' = WithoutOldRoots(r)
    /\ up' = FALSE
    /\ smasters' = {} /\ sessions' = [s \in AdminSession |-> Absent]
    /\ tasks' = [t \in Task |-> Waiting]
    /\ pairing' = "shown"
    /\ UNCHANGED <<owner, disabled, smRows, adminRows, expired, operator, label>>

\* The sessions that a boot which can read its tables brings back.
Restored == {s \in adminRows \ expired : BindingWorks(s)}

\* A legacy operator name that just one human bears moves into the assignments,
\* unless the seat is taken; clearing the setting may fail.
Migrated ==
    \/ UNCHANGED <<operator, label>>
    \/ /\ operator' = IF label # NoPrincipal /\ operator = Vacant THEN Seat(Master, label) ELSE operator
       /\ label' \in {label, NoPrincipal}

\* load_smasters and load_admin_sessions return what they could read, which after
\* an error is less than there is, or nothing; expired rows go if they can.  What
\* principal_for_session refuses, or cannot read, is deleted.
LoadSessions(listed, known) ==
    /\ adminRows' \in {adminRows \ (listed \ known), (adminRows \ (listed \ known)) \ expired}
    /\ bindings' = [s \in AdminSession |-> IF s \in listed \ known THEN Unbound(s)[s] ELSE bindings[s]]
    /\ sessions' = [s \in AdminSession |-> IF s \in known THEN [row |-> "hot", prin |-> bindings[s].prin] ELSE Absent]

\* The rest of Hub::build.
BootDone ==
    /\ ~up
    /\ up' = TRUE
    /\ smasters' \in SUBSET smRows
    /\ \E listed \in SUBSET (adminRows \ expired) :
         \E known \in SUBSET (listed \cap Restored) : LoadSessions(listed, known)
    /\ Migrated
    /\ UNCHANGED <<root, creds, owner, disabled, smRows, pairing, expired, tasks>>

SessionStep ==
    \/ \E t \in Task, s \in AdminSession, c \in Cred : SessionByKey(t, s, c)
    \/ \E t \in Task, s \in AdminSession : SessionByPairing(t, s)
    \/ \E t \in Task : SaveSession(t) \/ BindSessionRow(t) \/ OpenHot(t) \/ SessionFails(t)
    \/ \E s \in AdminSession : EndSession(s) \/ SessionExpires(s) \/ DropSession(s)
    \/ RotatePairing \/ PairingExpires

KeyStep ==
    \/ \E t \in Task, sm \in Smaster : AddSmaster(t, sm) \/ RevokeSmaster(t, sm)
    \/ \E t \in Task : AddSmasterHot(t) \/ RevokeSmasterRow(t) \/ RevokeSmasterHot(t)
    \/ \E d \in Device, p \in Admins : CreateDevice(d, p)
    \/ \E t \in Task, c \in Cred : RevokeCred(t, c)
    \/ \E t \in Task : RevokeCredHot(t)

OperatorStep ==
    \/ \E p \in Admins : CreateLoca(p)
    \/ \E p \in Admins, q \in Principal : Appoint(p, q)
    \/ \E t \in Task, p \in Admins : Unseat(t, p)
    \/ \E t \in Task : RevokeOperator(t)

BootStep == BootDone \/ \E r \in RootKey : Boot(r)

AuthNext == SessionStep \/ KeyStep \/ OperatorStep \/ BootStep

AuthSpec == AuthInit /\ [][AuthNext]_authVars

-----------------------------------------------------------------------------
(* Properties *)

\* A session still counts while it resolves, or while a boot could restore it: a
\* failed read takes it from the hot map only, and leaves it out of one boot.
Holds(s) == SessionLives(s) \/ s \in Restored

\* A session that ended stays dead: after a logout, an expiry, the revocation of
\* its key or a rotation of the root key no restart, no boot that fails or cannot
\* read its tables and no return to an earlier root key revives it; only the call
\* that creates a session makes it work.  And one that a failed read took from the
\* hot map is not revived before the next restart (ensure_master_principal,
\* load_admin_sessions, session_identity, revoke_profile_credential).
SessionsStayDead ==
    [][\A s \in AdminSession :
         /\ ~Holds(s) /\ Holds(s)' =>
              \E t \in Task : tasks[t].at \in {"bind", "open"} /\ tasks[t].grant.sess = s
         /\ up /\ ~SessionLives(s) /\ SessionLives(s)' =>
              \E t \in Task : tasks[t].at = "open" /\ tasks[t].grant.sess = s]_authVars

\* The configured key always opens the Master principal, also a key that was
\* rotated out and has come back (ensure_master_principal, revoke_credential).
RootRecovers == CredWorks(root)

\* With no handler in flight the smasters table holds exactly the keys whose
\* credential works, and the hot map no other key, before and after a restart: the
\* fallback of resolve_authority never outlives a revocation that has returned.
\* The map may hold fewer, when load_smasters could not read the table.
FallbackFollowsKeys ==
    up /\ (\A t \in Task : tasks[t].at \notin {"minted", "unlisted", "revoked"}) =>
        /\ smasters \subseteq smRows
        /\ smRows = {sm \in Smaster : CredWorks(sm)}

=============================================================================
