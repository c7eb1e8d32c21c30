-------------------------- MODULE AuthorityProofs --------------------------
(***************************************************************************)
(* Authority, for any set of keys, principals, sessions and handler tasks: *)
(* the root key always works, the fallback map of smasters follows the     *)
(* tables, and a session that died stays dead.                             *)
(***************************************************************************)
EXTENDS Authority, TLAPS

(* A session that is being created. *)
Creating(t) == tasks[t].at \in {"save", "bind", "open"}

(* The configured key is live and no other root key is. *)
OneRoot == creds[root] = "live" /\ \A c \in RootKey : creds[c] = "live" => c = root

(* A server that is down runs no handler and holds no session. *)
DownIsEmpty == ~up => (\A t \in Task : tasks[t] = Waiting) /\ (\A s \in AdminSession : sessions[s] = Absent)

(* The two tables of smasters agree. *)
TablesAgree ==
    /\ \A sm \in Smaster : sm \in smRows <=> creds[sm] = "live"
    /\ \A sm \in disabled : creds[sm] = "revoked"

(* A key that does not exist yet, or whose bearer has not seen it. *)
Unseen(sm) == creds[sm] = "none" \/ \E t \in Task : tasks[t].at = "minted" /\ tasks[t].sm = sm

(* Nobody has acted with such a key. *)
UnseenIsUnused ==
    \A sm \in Smaster : Unseen(sm) =>
        /\ sm \notin smasters
        /\ \A d \in Device : owner[d] # sm
        /\ \A s \in AdminSession : /\ sessions[s] # Absent => sessions[s].prin # sm
                                   /\ bindings[s] # Absent => bindings[s].prin # sm
        /\ \A t \in Task : /\ Creating(t) => tasks[t].grant.prin # sm
                           /\ tasks[t].at \in {"unseated", "unlisted"} => tasks[t].sm # sm

(* A key is minted by one task, and stays live while it is. *)
MintedOnce ==
    /\ \A t \in Task : tasks[t].at = "minted" => creds[tasks[t].sm] = "live"
    /\ \A t, u \in Task : tasks[t].at = "minted" /\ tasks[u].at = "minted" /\ tasks[t].sm = tasks[u].sm => t = u

(* The hot map is ahead of the table only by what a handler still has to remove. *)
HotLags ==
    up => \A sm \in smasters \ smRows :
        \E t \in Task : \/ tasks[t].at = "unlisted" /\ tasks[t].sm = sm
                        \/ tasks[t].at = "revoked" /\ tasks[t].cred = sm

(* What a handler is about to drop is revoked. *)
DropsRevoked ==
    \A t \in Task : /\ tasks[t].at = "unlisted" => creds[tasks[t].sm] = "revoked"
                    /\ tasks[t].at = "revoked" => creds[tasks[t].cred] = "revoked"

DeviceOwned == \A d \in Device : creds[d] # "none" => owner[d] \in Admins

(* A session is created once, from a key that exists, and of the root keys only *)
(* from the configured one.                                                     *)
CreatedOnce ==
    /\ \A t \in Task : Creating(t) =>
         /\ sessions[tasks[t].grant.sess] = Absent
         /\ tasks[t].at # "open" => bindings[tasks[t].grant.sess] = Absent
         /\ tasks[t].at = "bind" => tasks[t].grant.cred # NoPrincipal
         /\ tasks[t].grant.cred # NoPrincipal =>
              /\ tasks[t].grant.prin \in Admins
              /\ creds[tasks[t].grant.cred] # "none"
              /\ tasks[t].grant.cred \in RootKey => tasks[t].grant.cred = root
    /\ \A t, u \in Task : Creating(t) /\ Creating(u) /\ tasks[t].grant.sess = tasks[u].grant.sess => t = u

(* So is what its row is bound to. *)
BoundToKnown ==
    \A s \in AdminSession : bindings[s] # Absent =>
        /\ creds[bindings[s].cred] # "none"
        /\ bindings[s].row = "live" /\ bindings[s].cred \in RootKey => bindings[s].cred = root

AuthInv ==
    /\ AuthTypeOK /\ OneRoot /\ DownIsEmpty /\ TablesAgree /\ UnseenIsUnused /\ MintedOnce /\ HotLags
    /\ DropsRevoked /\ DeviceOwned /\ CreatedOnce /\ BoundToKnown

-----------------------------------------------------------------------------
(* Types *)

TaskState ==
    {Waiting} \cup [at : {"save", "bind", "open"}, grant : Grant]
        \cup [at : {"minted", "unseated", "unlisted"}, sm : Smaster]
        \cup [at : {"revoked"}, cred : Cred]
        \cup [at : {"unseat"}, actor : Admins, prin : Principal]
Binding == {Absent} \cup [row : {"live", "revoked"}, prin : Admins, cred : Cred]
HotSession == {Absent} \cup [row : {"hot"}, prin : Admins \cup {NoPrincipal}]
Seating == {Unfounded, Vacant} \cup [prin : Principal, by : Admins, state : {"seated"}]

(* The type invariant, one fact for each kind of variable. *)
LEMMA TypeParts ==
    ASSUME AuthTypeOK
    PROVE  /\ up \in BOOLEAN /\ root \in RootKey
           /\ creds \in [Cred -> {"none", "live", "revoked"}]
           /\ owner \in [Device -> Admins \cup {NoPrincipal}]
           /\ disabled \subseteq Smaster /\ smRows \subseteq Smaster /\ smasters \subseteq Smaster
           /\ adminRows \subseteq AdminSession /\ expired \subseteq AdminSession
           /\ bindings \in [AdminSession -> Binding]
           /\ sessions \in [AdminSession -> HotSession]
           /\ tasks \in [Task -> TaskState]
           /\ operator \in Seating
           /\ label \in Human \cup {NoPrincipal}
  BY DEF AuthTypeOK, TaskState, Binding, HotSession, Seating

(* A task carries what its stage needs. *)
LEMMA TaskFields ==
    ASSUME AuthTypeOK, NEW t \in Task
    PROVE  /\ Creating(t) => /\ tasks[t] \in [at : {"save", "bind", "open"}, grant : Grant]
                             /\ tasks[t].grant \in Grant
                             /\ tasks[t].grant.sess \in AdminSession
                             /\ tasks[t].grant.prin \in Admins \cup {NoPrincipal}
                             /\ tasks[t].grant.cred \in Cred \cup {NoPrincipal}
           /\ tasks[t].at \in {"minted", "unseated", "unlisted"} =>
                /\ tasks[t] \in [at : {"minted", "unseated", "unlisted"}, sm : Smaster]
                /\ tasks[t].sm \in Smaster
           /\ tasks[t].at = "revoked" => tasks[t].cred \in Cred
           /\ tasks[t].at = "unseat" => tasks[t].prin \in Principal
           /\ tasks[t] = Waiting <=> tasks[t].at = "waiting"
           /\ tasks[t].at \in {"waiting", "save", "bind", "open", "minted", "unseated", "unlisted", "revoked", "unseat"}
  BY DEF AuthTypeOK, Creating, Waiting, Grant

(* A bound session has its principal and its key. *)
LEMMA BindingFields ==
    ASSUME AuthTypeOK, NEW s \in AdminSession
    PROVE  /\ bindings[s] = Absent <=> bindings[s].row = "absent"
           /\ bindings[s].row \in {"absent", "live", "revoked"}
           /\ bindings[s] # Absent => /\ bindings[s] \in [row : {"live", "revoked"}, prin : Admins, cred : Cred]
                                      /\ bindings[s].prin \in Admins /\ bindings[s].cred \in Cred
  BY DEF AuthTypeOK, Absent

(* The states that the handlers leave behind. *)
LEMMA Stages ==
    /\ Waiting \in TaskState
    /\ \A g \in Grant : [at |-> "save", grant |-> g] \in TaskState
    /\ \A sm \in Smaster : [at |-> "minted", sm |-> sm] \in TaskState /\ [at |-> "unseated", sm |-> sm] \in TaskState
    /\ \A c \in Cred : [at |-> "revoked", cred |-> c] \in TaskState
    /\ \A p \in Admins, q \in Principal : [at |-> "unseat", actor |-> p, prin |-> q] \in TaskState
    /\ Absent \in Binding /\ Absent \in HotSession
    /\ \A p \in Admins, c \in Cred : [row |-> "live", prin |-> p, cred |-> c] \in Binding
    /\ \A p \in Admins \cup {NoPrincipal} : [row |-> "hot", prin |-> p] \in HotSession
    /\ \A b \in Binding : b.row = "live" => [b EXCEPT !.row = "revoked"] \in Binding
<1>1. \A b \in Binding : b.row = "live" => [b EXCEPT !.row = "revoked"] \in Binding
  BY DEF Binding, Absent
<1> QED
  BY <1>1 DEF TaskState, Binding, HotSession

(* Whom a key stands for. *)
LEMMA Owners ==
    ASSUME AuthTypeOK, DeviceOwned, NEW c \in Cred, creds[c] # "none"
    PROVE  OwnerOf(c) \in Admins
  BY DEF OwnerOf, Admins, DeviceOwned, Cred

(* Revoking a session keeps the table well typed. *)
LEMMA UnboundTyped ==
    ASSUME AuthTypeOK, NEW s \in AdminSession
    PROVE  /\ Unbound(s) \in [AdminSession -> Binding]
           /\ Unbound(s)[s].row # "live"
           /\ \A x \in AdminSession : x # s => Unbound(s)[x] = bindings[x]
           /\ Unbound(s)[s] # Absent => /\ bindings[s] # Absent /\ Unbound(s)[s].prin = bindings[s].prin
                                        /\ Unbound(s)[s].cred = bindings[s].cred
<1>1. bindings \in [AdminSession -> Binding]
  BY TypeParts
<1> DEFINE b == IF bindings[s].row = "live" THEN [bindings[s] EXCEPT !.row = "revoked"] ELSE bindings[s]
<1>2. b \in Binding /\ b.row # "live"
  BY <1>1, Stages DEF Binding, Absent
<1>3. b # Absent => bindings[s] # Absent /\ b.prin = bindings[s].prin /\ b.cred = bindings[s].cred
  BY <1>1, BindingFields DEF Absent
<1>4. Unbound(s) = [bindings EXCEPT ![s] = b]
  BY DEF Unbound
<1> HIDE DEF b
<1> QED
  BY <1>1, <1>2, <1>3, <1>4

(* A boot restores nothing that the tables do not vouch for. *)
LEMMA BootLoads ==
    ASSUME AuthTypeOK, BootDone
    PROVE  /\ smasters' \subseteq smRows /\ adminRows' \subseteq adminRows
           /\ bindings' \in [AdminSession -> Binding] /\ sessions' \in [AdminSession -> HotSession]
           /\ \A s \in AdminSession :
                /\ bindings'[s] = bindings[s] \/ bindings'[s] = Unbound(s)[s]
                /\ sessions'[s] # Absent => s \in Restored /\ sessions'[s].prin = bindings[s].prin
<1>0. PICK listed \in SUBSET (adminRows \ expired) : \E known \in SUBSET (listed \cap Restored) : LoadSessions(listed, known)
  BY DEF BootDone
<1>1. PICK known \in SUBSET (listed \cap Restored) : LoadSessions(listed, known)
  BY <1>0
<1>2. bindings \in [AdminSession -> Binding] /\ \A s \in AdminSession : Unbound(s)[s] \in Binding
  BY UnboundTyped, TypeParts
<1>3. \A s \in known : bindings[s].prin \in Admins
  BY TypeParts, BindingFields DEF Restored, BindingWorks
<1>4. bindings' \in [AdminSession -> Binding] /\ sessions' \in [AdminSession -> HotSession]
  BY <1>1, <1>2, <1>3, Stages DEF LoadSessions
<1>5. ASSUME NEW s \in AdminSession
      PROVE  /\ bindings'[s] = bindings[s] \/ bindings'[s] = Unbound(s)[s]
             /\ sessions'[s] # Absent => s \in Restored /\ sessions'[s].prin = bindings[s].prin
  <2>1. bindings'[s] = bindings[s] \/ bindings'[s] = Unbound(s)[s]
    BY <1>1 DEF LoadSessions
  <2>2. sessions'[s] = IF s \in known THEN [row |-> "hot", prin |-> bindings[s].prin] ELSE Absent
    BY <1>1 DEF LoadSessions
  <2> QED
    BY <2>1, <2>2
<1>6. smasters' \subseteq smRows /\ adminRows' \subseteq adminRows
  BY <1>1 DEF BootDone, LoadSessions
<1> QED
  BY <1>4, <1>5, <1>6

(* The rest of the type invariant, for steps that leave it alone. *)
LEMMA SessionsTyped ==
    ASSUME AuthInv, SessionStep
    PROVE  AuthTypeOK'
<1> USE DEF AuthInv
<1>0. ASSUME UNCHANGED <<up, root, creds, owner, disabled, smRows, smasters, operator, label>>,
             pairing' \in {"shown", "hidden", "expired"}, adminRows' \subseteq AdminSession, expired' \subseteq AdminSession,
             bindings' \in [AdminSession -> Binding], sessions' \in [AdminSession -> HotSession],
             tasks' \in [Task -> TaskState]
      PROVE  AuthTypeOK'
  BY <1>0 DEF AuthTypeOK, TaskState, Binding, HotSession
<1>1. /\ pairing \in {"shown", "hidden", "expired"} /\ adminRows \subseteq AdminSession /\ expired \subseteq AdminSession
      /\ bindings \in [AdminSession -> Binding] /\ sessions \in [AdminSession -> HotSession] /\ tasks \in [Task -> TaskState]
  BY TypeParts DEF AuthTypeOK
<1>2. ASSUME NEW t \in Task, NEW s \in AdminSession, NEW c \in Cred, SessionByKey(t, s, c)
      PROVE  AuthTypeOK'
  <2>1. CredWorks(c) => [sess |-> s, prin |-> OwnerOf(c), cred |-> c] \in Grant
    BY Owners DEF CredWorks, Grant
  <2>2. [sess |-> s, prin |-> NoPrincipal, cred |-> NoPrincipal] \in Grant
    BY DEF Grant
  <2>3. tasks' \in [Task -> TaskState]
    BY <1>1, <1>2, <2>1, <2>2, Stages DEF SessionByKey
  <2> QED
    BY <1>0, <1>1, <1>2, <2>3 DEF SessionByKey
<1>3. ASSUME NEW t \in Task, NEW s \in AdminSession, SessionByPairing(t, s)
      PROVE  AuthTypeOK'
  <2>1. [sess |-> s, prin |-> Master, cred |-> root] \in Grant
    BY TypeParts DEF Grant, Cred, Admins
  <2>2. tasks' \in [Task -> TaskState]
    BY <1>1, <1>3, <2>1, Stages DEF SessionByPairing
  <2> QED
    BY <1>0, <1>1, <1>3, <2>2 DEF SessionByPairing
<1>4. ASSUME NEW t \in Task, SaveSession(t)
      PROVE  AuthTypeOK'
  <2>1. Creating(t)
    BY <1>4 DEF SaveSession, Creating
  <2>2. [tasks[t] EXCEPT !.at = IF tasks[t].grant.cred = NoPrincipal THEN "open" ELSE "bind"] \in TaskState
    BY <2>1, TaskFields DEF TaskState
  <2>3. tasks' \in [Task -> TaskState] /\ adminRows' \subseteq AdminSession
    BY <1>1, <1>4, <2>1, <2>2, TaskFields DEF SaveSession
  <2> QED
    BY <1>0, <1>1, <1>4, <2>3 DEF SaveSession
<1>5. ASSUME NEW t \in Task, BindSessionRow(t)
      PROVE  AuthTypeOK'
  <2>1. Creating(t) /\ tasks[t].at = "bind"
    BY <1>5 DEF BindSessionRow, Creating
  <2>2. [tasks[t] EXCEPT !.at = "open"] \in TaskState
    BY <2>1, TaskFields DEF TaskState
  <2>3. tasks' \in [Task -> TaskState]
    BY <1>1, <1>5, <2>2 DEF BindSessionRow
  <2>4. tasks[t].grant.prin \in Admins /\ tasks[t].grant.cred \in Cred
    BY <2>1, TaskFields DEF CreatedOnce
  <2>5. bindings' \in [AdminSession -> Binding]
    BY <1>1, <1>5, <2>1, <2>4, Stages, TaskFields DEF BindSessionRow
  <2> QED
    BY <1>0, <1>1, <1>5, <2>3, <2>5 DEF BindSessionRow
<1>6. ASSUME NEW t \in Task, OpenHot(t)
      PROVE  AuthTypeOK'
  <2>1. Creating(t)
    BY <1>6 DEF OpenHot, Creating
  <2>2. tasks' \in [Task -> TaskState] /\ sessions' \in [AdminSession -> HotSession]
    BY <1>1, <1>6, <2>1, Stages, TaskFields DEF OpenHot
  <2> QED
    BY <1>0, <1>1, <1>6, <2>2 DEF OpenHot
<1>7. ASSUME NEW t \in Task, SessionFails(t)
      PROVE  AuthTypeOK'
  <2>1. tasks' \in [Task -> TaskState]
    BY <1>1, <1>7, Stages DEF SessionFails
  <2> QED
    BY <1>0, <1>1, <1>7, <2>1 DEF SessionFails
<1>8. ASSUME NEW s \in AdminSession, EndSession(s) \/ SessionExpires(s) \/ DropSession(s)
      PROVE  AuthTypeOK'
  <2>1. sessions' \in [AdminSession -> HotSession] /\ adminRows' \subseteq AdminSession /\ expired' \subseteq AdminSession
    BY <1>1, <1>8, Stages DEF EndSession, SessionExpires, DropSession
  <2>2. bindings' \in [AdminSession -> Binding]
    BY <1>1, <1>8, UnboundTyped DEF EndSession, SessionExpires, DropSession
  <2> QED
    BY <1>0, <1>1, <1>8, <2>1, <2>2 DEF EndSession, SessionExpires, DropSession
<1>9. CASE RotatePairing \/ PairingExpires
  BY <1>0, <1>1, <1>9 DEF RotatePairing, PairingExpires
<1> QED
  BY <1>2, <1>3, <1>4, <1>5, <1>6, <1>7, <1>8, <1>9 DEF SessionStep

(* Minting, device keys and revocations. *)
LEMMA KeysTyped ==
    ASSUME AuthInv, KeyStep
    PROVE  AuthTypeOK'
<1> USE DEF AuthInv
<1>0. ASSUME UNCHANGED <<up, root, pairing, adminRows, expired, operator, label>>,
             creds' \in [Cred -> {"none", "live", "revoked"}], owner' \in [Device -> Admins \cup {NoPrincipal}],
             disabled' \subseteq Smaster, smRows' \subseteq Smaster, smasters' \subseteq Smaster,
             bindings' \in [AdminSession -> Binding], sessions' \in [AdminSession -> HotSession],
             tasks' \in [Task -> TaskState]
      PROVE  AuthTypeOK'
  BY <1>0 DEF AuthTypeOK, TaskState, Binding, HotSession
<1>1. /\ creds \in [Cred -> {"none", "live", "revoked"}] /\ owner \in [Device -> Admins \cup {NoPrincipal}]
      /\ disabled \subseteq Smaster /\ smRows \subseteq Smaster /\ smasters \subseteq Smaster
      /\ bindings \in [AdminSession -> Binding] /\ sessions \in [AdminSession -> HotSession]
      /\ tasks \in [Task -> TaskState] /\ Smaster \subseteq Cred /\ Device \subseteq Cred
  BY TypeParts DEF Cred
<1>2. ASSUME NEW t \in Task, NEW sm \in Smaster, AddSmaster(t, sm) \/ RevokeSmaster(t, sm)
      PROVE  AuthTypeOK'
  <2>1. tasks' \in [Task -> TaskState]
    BY <1>1, <1>2, Stages, ZenonT(60) DEF AddSmaster, RevokeSmaster
  <2> QED
    BY <1>0, <1>1, <1>2, <2>1 DEF AddSmaster, RevokeSmaster
<1>3. ASSUME NEW t \in Task, AddSmasterHot(t) \/ RevokeSmasterHot(t)
      PROVE  AuthTypeOK'
  <2>1. tasks[t].sm \in Smaster
    BY <1>3, TaskFields DEF AddSmasterHot, RevokeSmasterHot
  <2>2. tasks' \in [Task -> TaskState]
    BY <1>1, <1>3, Stages DEF AddSmasterHot, RevokeSmasterHot
  <2> QED
    BY <1>0, <1>1, <1>3, <2>1, <2>2 DEF AddSmasterHot, RevokeSmasterHot
<1>4. ASSUME NEW t \in Task, RevokeSmasterRow(t)
      PROVE  AuthTypeOK'
  <2>1. tasks[t].sm \in Smaster /\ [tasks[t] EXCEPT !.at = "unlisted"] \in TaskState
    BY <1>4, TaskFields DEF RevokeSmasterRow, TaskState
  <2>2. tasks' \in [Task -> TaskState]
    BY <1>1, <1>4, <2>1, Stages DEF RevokeSmasterRow
  <2> QED
    BY <1>0, <1>1, <1>4, <2>1, <2>2 DEF RevokeSmasterRow
<1>5. ASSUME NEW d \in Device, NEW p \in Admins, CreateDevice(d, p)
      PROVE  AuthTypeOK'
  BY <1>0, <1>1, <1>5 DEF CreateDevice
<1>6. ASSUME NEW t \in Task, NEW c \in Cred, RevokeCred(t, c)
      PROVE  AuthTypeOK'
  <2>1. tasks' \in [Task -> TaskState]
    BY <1>1, <1>6, Stages DEF RevokeCred
  <2>2. bindings' \in [AdminSession -> Binding]
    BY <1>1, <1>6, Stages DEF RevokeCred
  <2>3. smRows' \subseteq Smaster /\ creds' \in [Cred -> {"none", "live", "revoked"}]
    BY <1>1, <1>6 DEF RevokeCred, SmRowsWithout
  <2> QED
    BY <1>0, <1>1, <1>6, <2>1, <2>2, <2>3 DEF RevokeCred
<1>7. ASSUME NEW t \in Task, RevokeCredHot(t)
      PROVE  AuthTypeOK'
  <2>1. tasks' \in [Task -> TaskState] /\ sessions' \in [AdminSession -> HotSession]
    BY <1>1, <1>7, Stages DEF RevokeCredHot
  <2> QED
    BY <1>0, <1>1, <1>7, <2>1 DEF RevokeCredHot
<1> QED
  BY <1>2, <1>3, <1>4, <1>5, <1>6, <1>7 DEF KeyStep

(* The operator's seat, and a restart. *)
LEMMA SeatAndBootTyped ==
    ASSUME AuthInv, OperatorStep \/ BootStep
    PROVE  AuthTypeOK'
<1> USE DEF AuthInv
<1>1. /\ creds \in [Cred -> {"none", "live", "revoked"}]
      /\ smRows \subseteq Smaster /\ adminRows \subseteq AdminSession
      /\ bindings \in [AdminSession -> Binding] /\ sessions \in [AdminSession -> HotSession]
      /\ tasks \in [Task -> TaskState] /\ operator \in Seating /\ label \in Human \cup {NoPrincipal}
  BY TypeParts
<1>2. CASE OperatorStep
  <2>1. /\ UNCHANGED <<up, root, creds, owner, disabled, smRows, smasters, pairing, adminRows, bindings, sessions,
                       expired, label>>
    BY <1>2 DEF OperatorStep, CreateLoca, Appoint, Unseat, RevokeOperator
  <2>2. operator' \in Seating
    <3>1. Vacant \in Seating /\ \A p \in Admins, q \in Principal : Seat(p, q) \in Seating
      BY DEF Seating, Seat
    <3>2. Admins \subseteq Principal
      BY DEF Admins, Principal
    <3> QED
      BY <1>1, <1>2, <3>1, <3>2 DEF OperatorStep, CreateLoca, Appoint, Unseat, RevokeOperator
  <2>3. tasks' \in [Task -> TaskState]
    <3>1. operator.state = "seated" => operator.prin \in Principal
      BY <1>1 DEF Seating, Unfounded, Vacant
    <3> QED
      BY <1>1, <1>2, <3>1, Stages DEF OperatorStep, CreateLoca, Appoint, Unseat, RevokeOperator
  <2> QED
    BY <2>1, <2>2, <2>3 DEF AuthTypeOK, TaskState, Seating
<1>3. ASSUME NEW r \in RootKey, Boot(r)
      PROVE  AuthTypeOK'
  <2>1. creds' \in [Cred -> {"none", "live", "revoked"}]
    BY <1>1, <1>3 DEF Boot, RootRow
  <2>2. bindings' \in [AdminSession -> Binding]
    BY <1>1, <1>3, Stages DEF Boot, WithoutOldRoots
  <2>3. tasks' \in [Task -> TaskState] /\ sessions' \in [AdminSession -> HotSession]
    BY <1>3, Stages DEF Boot
  <2>4. /\ up' = FALSE /\ root' = r /\ smasters' = {} /\ pairing' = "shown"
        /\ UNCHANGED <<owner, disabled, smRows, adminRows, expired, operator, label>>
    BY <1>3 DEF Boot
  <2> QED
    BY <2>1, <2>2, <2>3, <2>4 DEF AuthTypeOK, TaskState, Binding, HotSession
<1>4. CASE BootDone
  <2>1. /\ bindings' \in [AdminSession -> Binding] /\ sessions' \in [AdminSession -> HotSession]
        /\ smasters' \subseteq smRows /\ adminRows' \subseteq adminRows
    BY <1>4, BootLoads
  <2>3. operator' \in Seating /\ label' \in Human \cup {NoPrincipal}
    <3>1. label # NoPrincipal => Seat(Master, label) \in Seating
      BY <1>1 DEF Seat, Seating, Principal, Admins
    <3> QED
      BY <1>1, <1>4, <3>1 DEF BootDone, Migrated
  <2>4. up' = TRUE /\ UNCHANGED <<root, creds, owner, disabled, smRows, pairing, expired, tasks>>
    BY <1>4 DEF BootDone
  <2> QED
    BY <1>1, <2>1, <2>3, <2>4 DEF AuthTypeOK, Binding, HotSession, Seating
<1> QED
  BY <1>2, <1>3, <1>4 DEF BootStep

-----------------------------------------------------------------------------
(* Keys *)

(* While the server runs, a key is created once and revoked for good, and the *)
(* root's is left alone.                                                      *)
LEMMA KeysMove ==
    ASSUME AuthInv, AuthNext, \A r \in RootKey : ~Boot(r)
    PROVE  /\ root' = root /\ disabled \subseteq disabled'
           /\ \A c \in Cred : \/ creds'[c] = creds[c]
                              \/ c \notin RootKey /\ creds[c] = "none" /\ creds'[c] = "live"
                              \/ c \notin RootKey /\ creds'[c] = "revoked"
           /\ \A d \in Device : owner'[d] = owner[d] \/ (creds[d] = "none" /\ owner'[d] \in Admins)
           /\ \A d \in Device : creds[d] = "none" => creds'[d] = "none" \/ owner'[d] \in Admins
<1> DEFINE P == /\ root' = root /\ disabled \subseteq disabled'
                /\ \A c \in Cred : \/ creds'[c] = creds[c]
                                   \/ c \notin RootKey /\ creds[c] = "none" /\ creds'[c] = "live"
                                   \/ c \notin RootKey /\ creds'[c] = "revoked"
                /\ \A d \in Device : owner'[d] = owner[d] \/ (creds[d] = "none" /\ owner'[d] \in Admins)
                /\ \A d \in Device : creds[d] = "none" => creds'[d] = "none" \/ owner'[d] \in Admins
<1>0. /\ AuthTypeOK /\ creds \in [Cred -> {"none", "live", "revoked"}] /\ owner \in [Device -> Admins \cup {NoPrincipal}]
      /\ Smaster \subseteq Cred \ RootKey /\ Device \subseteq Cred \ RootKey
  BY TypeParts, AuthorityAssumption DEF AuthInv, Cred
<1>1. CASE SessionStep \/ OperatorStep \/ BootStep
  <2>1. UNCHANGED <<root, creds, owner, disabled>>
    BY <1>1 DEF SessionStep, SessionByKey, SessionByPairing, SaveSession, BindSessionRow, OpenHot, SessionFails,
                EndSession, SessionExpires, DropSession, RotatePairing, PairingExpires,
                OperatorStep, CreateLoca, Appoint, Unseat, RevokeOperator, BootStep, BootDone
  <2> QED
    BY <2>1
<1>2. ASSUME NEW t \in Task, NEW sm \in Smaster, AddSmaster(t, sm) \/ RevokeSmaster(t, sm)
      PROVE  P
  BY <1>0, <1>2, AuthorityAssumption DEF AddSmaster, RevokeSmaster
<1>3. ASSUME NEW t \in Task, AddSmasterHot(t) \/ RevokeSmasterHot(t) \/ RevokeCredHot(t)
      PROVE  P
  BY <1>3 DEF AddSmasterHot, RevokeSmasterHot, RevokeCredHot
<1>4. ASSUME NEW t \in Task, RevokeSmasterRow(t)
      PROVE  P
  <2>1. tasks[t].sm \in Smaster
    BY <1>0, <1>4, TaskFields DEF RevokeSmasterRow
  <2> QED
    BY <1>0, <1>4, <2>1, AuthorityAssumption DEF RevokeSmasterRow
<1>5. ASSUME NEW d \in Device, NEW p \in Admins, CreateDevice(d, p)
      PROVE  P
  BY <1>0, <1>5 DEF CreateDevice
<1>6. ASSUME NEW t \in Task, NEW c \in Cred, RevokeCred(t, c)
      PROVE  P
  BY <1>0, <1>6 DEF RevokeCred
<1> QED
  BY <1>1, <1>2, <1>3, <1>4, <1>5, <1>6 DEF AuthNext, KeyStep

(* The restart retires every root key but the new one. *)
LEMMA BootKeys ==
    ASSUME AuthInv, NEW r \in RootKey, Boot(r)
    PROVE  /\ root' = r /\ creds'[r] = "live"
           /\ \A c \in RootKey : c # r => creds'[c] # "live"
           /\ \A c \in Cred \ RootKey : creds'[c] = creds[c]
           /\ \A c \in Cred : creds[c] # "none" => creds'[c] # "none"
  BY DEF AuthInv, AuthTypeOK, Boot, RootRow, OldRoots, Cred

(* The configured key stays live, and the only live root key. *)
LEMMA OneRootKeeps ==
    ASSUME AuthInv, AuthNext
    PROVE  OneRoot' /\ DeviceOwned'
<1>0. root \in RootKey /\ RootKey \subseteq Cred /\ Device \subseteq Cred \ RootKey
  BY TypeParts, AuthorityAssumption DEF AuthInv, Cred
<1>1. ASSUME NEW r \in RootKey, Boot(r)
      PROVE  OneRoot' /\ DeviceOwned'
  <2>1. owner' = owner
    BY <1>1 DEF Boot
  <2> QED
    BY <1>0, <1>1, <2>1, BootKeys DEF OneRoot, DeviceOwned, AuthInv
<1>2. CASE \A r \in RootKey : ~Boot(r)
  BY <1>0, <1>2, KeysMove DEF OneRoot, DeviceOwned, AuthInv
<1> QED
  BY <1>1, <1>2

(* The row of a smaster and its credential change together. *)
LEMMA TablesKeep ==
    ASSUME AuthInv, AuthNext
    PROVE  TablesAgree'
<1>0. /\ AuthTypeOK /\ creds \in [Cred -> {"none", "live", "revoked"}] /\ disabled \subseteq Smaster
      /\ smRows \subseteq Smaster /\ Smaster \subseteq Cred \ RootKey
      /\ Device \cap Smaster = {} /\ TablesAgree
  BY TypeParts, AuthorityAssumption DEF AuthInv, Cred
<1>1. CASE SessionStep \/ OperatorStep \/ BootDone
  <2>1. UNCHANGED <<creds, disabled, smRows>>
    BY <1>1 DEF SessionStep, SessionByKey, SessionByPairing, SaveSession, BindSessionRow, OpenHot, SessionFails,
                EndSession, SessionExpires, DropSession, RotatePairing, PairingExpires,
                OperatorStep, CreateLoca, Appoint, Unseat, RevokeOperator, BootDone
  <2> QED
    BY <1>0, <2>1 DEF TablesAgree
<1>2. ASSUME NEW t \in Task, NEW sm \in Smaster, AddSmaster(t, sm) \/ RevokeSmaster(t, sm)
      PROVE  TablesAgree'
  BY <1>0, <1>2 DEF AddSmaster, RevokeSmaster, TablesAgree
<1>3. ASSUME NEW t \in Task, AddSmasterHot(t) \/ RevokeSmasterHot(t) \/ RevokeCredHot(t)
      PROVE  TablesAgree'
  BY <1>0, <1>3 DEF AddSmasterHot, RevokeSmasterHot, RevokeCredHot, TablesAgree
<1>4. ASSUME NEW t \in Task, RevokeSmasterRow(t)
      PROVE  TablesAgree'
  <2>1. tasks[t].sm \in Smaster
    BY <1>0, <1>4, TaskFields DEF RevokeSmasterRow
  <2> QED
    BY <1>0, <1>4, <2>1 DEF RevokeSmasterRow, TablesAgree
<1>5. ASSUME NEW d \in Device, NEW p \in Admins, CreateDevice(d, p)
      PROVE  TablesAgree'
  <2>1. \A sm \in Smaster : creds'[sm] = creds[sm]
    BY <1>0, <1>5 DEF CreateDevice
  <2> QED
    BY <1>0, <1>5, <2>1 DEF CreateDevice, TablesAgree
<1>6. ASSUME NEW t \in Task, NEW c \in Cred, RevokeCred(t, c)
      PROVE  TablesAgree'
  BY <1>0, <1>6 DEF RevokeCred, SmRowsWithout, TablesAgree
<1>7. ASSUME NEW r \in RootKey, Boot(r)
      PROVE  TablesAgree'
  <2>1. UNCHANGED <<disabled, smRows>>
    BY <1>7 DEF Boot
  <2> QED
    BY <1>0, <1>7, <2>1, BootKeys DEF TablesAgree
<1> QED
  BY <1>1, <1>2, <1>3, <1>4, <1>5, <1>6, <1>7 DEF AuthNext, KeyStep, BootStep

(* Handlers run while the server does. *)
LEMMA DownKeeps ==
    ASSUME AuthInv, AuthNext
    PROVE  DownIsEmpty'
<1>1. CASE up /\ up'
  BY <1>1 DEF DownIsEmpty
<1>2. ASSUME NEW r \in RootKey, Boot(r)
      PROVE  DownIsEmpty'
  BY <1>2 DEF Boot, DownIsEmpty
<1>3. CASE BootDone
  BY <1>3 DEF BootDone, DownIsEmpty
<1>4. CASE ~up /\ ~BootDone /\ \A r \in RootKey : ~Boot(r)
  <2>0. DownIsEmpty /\ (\A t \in Task : tasks[t].at = "waiting") /\ (\A s \in AdminSession : sessions[s] = Absent)
    BY <1>4 DEF AuthInv, DownIsEmpty, Waiting
  <2>1. \A p : ~ActsAs(p)
    BY <1>4 DEF ActsAs
  <2>2. PairingExpires \/ \E s \in AdminSession : SessionExpires(s)
    BY <1>4, <2>0, <2>1 DEF AuthNext, SessionStep, KeyStep, OperatorStep, BootStep, SessionByKey, SessionByPairing,
          SaveSession, BindSessionRow, OpenHot, SessionFails, EndSession, DropSession, RotatePairing,
          AddSmaster, AddSmasterHot, RevokeSmaster, RevokeSmasterRow, RevokeSmasterHot, CreateDevice, RevokeCred,
          RevokeCredHot, CreateLoca, Appoint, Unseat, RevokeOperator
  <2>3. UNCHANGED <<up, tasks, sessions>>
    BY <2>2 DEF PairingExpires, SessionExpires
  <2> QED
    BY <2>0, <2>3 DEF DownIsEmpty
<1>5. CASE up /\ ~BootDone /\ \A r \in RootKey : ~Boot(r)
  <2>1. up' = up
    BY <1>5 DEF AuthNext, SessionStep, KeyStep, OperatorStep, BootStep, SessionByKey, SessionByPairing,
          SaveSession, BindSessionRow, OpenHot, SessionFails, EndSession, SessionExpires, DropSession, RotatePairing,
          PairingExpires, AddSmaster, AddSmasterHot, RevokeSmaster, RevokeSmasterRow, RevokeSmasterHot, CreateDevice,
          RevokeCred, RevokeCredHot, CreateLoca, Appoint, Unseat, RevokeOperator
  <2> QED
    BY <1>1, <1>5, <2>1
<1> QED
  BY <1>2, <1>3, <1>4, <1>5

-----------------------------------------------------------------------------
(* A key that nobody has seen *)

(* Who is recognised by a key has seen it. *)
LEMMA KeyIsSeen ==
    ASSUME AuthInv, NEW c \in Cred, CredWorks(c), Issued(c), NEW sm \in Smaster, OwnerOf(c) = sm
    PROVE  ~Unseen(sm)
<1>1. CASE c \in RootKey
  BY <1>1, AuthorityAssumption DEF OwnerOf
<1>2. CASE c \in Smaster
  <2>1. c = sm
    BY <1>2, AuthorityAssumption DEF OwnerOf
  <2> QED
    BY <2>1 DEF CredWorks, Issued, Unseen
<1>3. CASE c \in Device
  BY <1>3, AuthorityAssumption DEF OwnerOf, AuthInv, UnseenIsUnused
<1> QED
  BY <1>1, <1>2, <1>3 DEF Cred

(* So has who acts, by key or by session. *)
LEMMA ActorIsSeen ==
    ASSUME AuthInv, NEW sm \in Smaster, ActsAs(sm)
    PROVE  ~Unseen(sm)
<1>1. CASE \E c \in Cred : CredWorks(c) /\ Issued(c) /\ OwnerOf(c) = sm
  BY <1>1, KeyIsSeen
<1>2. CASE \E s \in AdminSession : SessionLives(s) /\ sessions[s].prin = sm
  BY <1>2 DEF SessionLives, AuthInv, UnseenIsUnused
<1> QED
  BY <1>1, <1>2 DEF ActsAs

(* Minting is the only way to an unseen key, and no key is forgotten. *)
LEMMA UnseenShrinks ==
    ASSUME AuthInv, AuthNext, NEW sm \in Smaster, Unseen(sm)'
    PROVE  Unseen(sm)
<1>0. /\ AuthTypeOK /\ tasks \in [Task -> TaskState] /\ creds \in [Cred -> {"none", "live", "revoked"}]
      /\ sm \in Cred \ RootKey
  BY TypeParts, AuthorityAssumption DEF AuthInv, Cred
<1>1. creds'[sm] = "none" => creds[sm] = "none"
  <2>1. ASSUME NEW r \in RootKey, Boot(r) PROVE creds'[sm] = creds[sm]
    BY <1>0, <2>1, BootKeys
  <2>2. CASE \A r \in RootKey : ~Boot(r)
    BY <1>0, <2>2, KeysMove
  <2> QED
    BY <2>1, <2>2
<1>2. ASSUME NEW u \in Task, tasks'[u].at = "minted", tasks'[u].sm = sm
      PROVE  Unseen(sm)
  <2>1. CASE tasks'[u] = tasks[u]
    BY <1>2, <2>1 DEF Unseen
  <2>2. CASE tasks'[u] # tasks[u]
    <3>1. PICK t \in Task, x \in Smaster : AddSmaster(t, x)
      <4>1. CASE SessionStep
        <5>1. ASSUME NEW t \in Task, SaveSession(t) \/ BindSessionRow(t) \/ OpenHot(t) \/ SessionFails(t)
              PROVE  FALSE
          <6>1. Creating(t) /\ (u # t => tasks'[u] = tasks[u])
            BY <1>0, <5>1 DEF SaveSession, BindSessionRow, OpenHot, SessionFails, Creating
          <6>2. tasks'[t].at # "minted"
            BY <1>0, <5>1, <6>1, TaskFields DEF SaveSession, BindSessionRow, OpenHot, SessionFails, Waiting
          <6> QED
            BY <1>2, <2>2, <6>1, <6>2
        <5>2. ~\E t \in Task, s \in AdminSession, c \in Cred : SessionByKey(t, s, c)
          BY <1>0, <1>2, <2>2 DEF SessionByKey
        <5>3. ~\E t \in Task, s \in AdminSession : SessionByPairing(t, s)
          BY <1>0, <1>2, <2>2 DEF SessionByPairing
        <5> QED
          BY <2>2, <4>1, <5>1, <5>2, <5>3 DEF SessionStep, EndSession, SessionExpires, DropSession, RotatePairing, PairingExpires
      <4>2. CASE KeyStep
        BY <1>0, <1>2, <2>2, <4>2, TaskFields DEF KeyStep, AddSmasterHot, RevokeSmaster, RevokeSmasterRow, RevokeSmasterHot,
           CreateDevice, RevokeCred, RevokeCredHot, Waiting
      <4>3. CASE OperatorStep \/ BootStep
        BY <1>0, <1>2, <2>2, <4>3 DEF OperatorStep, CreateLoca, Appoint, Unseat, RevokeOperator, BootStep, Boot, BootDone,
           Waiting
      <4> QED
        BY <4>1, <4>2, <4>3 DEF AuthNext
    <3>2. u = t /\ x = sm
      BY <1>0, <1>2, <2>2, <3>1 DEF AddSmaster
    <3> QED
      BY <3>1, <3>2 DEF AddSmaster, Unseen
  <2> QED
    BY <2>1, <2>2
<1> QED
  BY <1>1, <1>2 DEF Unseen

-----------------------------------------------------------------------------
(* Who writes which table, map or task *)

(* Which actions write each table and hot map. *)
LEMMA Writers ==
    ASSUME AuthNext
    PROVE  /\ \/ smasters' = smasters \/ BootDone \/ \E r \in RootKey : Boot(r)
              \/ \E t \in Task : AddSmasterHot(t) \/ RevokeSmasterHot(t) \/ RevokeCredHot(t)
           /\ \/ sessions' = sessions \/ BootDone \/ \E r \in RootKey : Boot(r)
              \/ \E t \in Task : OpenHot(t) \/ RevokeCredHot(t)
              \/ \E s \in AdminSession : EndSession(s) \/ DropSession(s)
           /\ \/ bindings' = bindings \/ BootDone \/ \E r \in RootKey : Boot(r)
              \/ \E t \in Task : BindSessionRow(t) \/ \E c \in Cred : RevokeCred(t, c)
              \/ \E s \in AdminSession : EndSession(s) \/ DropSession(s)
           /\ owner' = owner \/ \E d \in Device, p \in Admins : CreateDevice(d, p)
           /\ \/ smRows' = smRows
              \/ \E t \in Task : \/ RevokeSmasterRow(t) \/ \E sm \in Smaster : AddSmaster(t, sm)
                                 \/ \E c \in Cred : RevokeCred(t, c)
           /\ \/ adminRows' = adminRows \/ BootDone \/ \E t \in Task : SaveSession(t)
              \/ \E s \in AdminSession : EndSession(s) \/ DropSession(s)
           /\ expired \subseteq expired'
           /\ up' = up \/ BootDone \/ \E r \in RootKey : Boot(r)
<1>1. CASE SessionStep
  BY <1>1 DEF SessionStep, SessionByKey, SessionByPairing, SaveSession, BindSessionRow, OpenHot, SessionFails,
       EndSession, SessionExpires, DropSession, RotatePairing, PairingExpires
<1>2. CASE KeyStep
  BY <1>2 DEF KeyStep, AddSmaster, AddSmasterHot, RevokeSmaster, RevokeSmasterRow, RevokeSmasterHot, CreateDevice,
       RevokeCred, RevokeCredHot
<1>3. CASE OperatorStep
  BY <1>3 DEF OperatorStep, CreateLoca, Appoint, Unseat, RevokeOperator
<1>4. CASE BootStep
  BY <1>4 DEF BootStep, Boot, BootDone
<1> QED
  BY <1>1, <1>2, <1>3, <1>4 DEF AuthNext

(* A handler moves its own task only. *)
LEMMA TaskMoves ==
    ASSUME AuthInv, AuthNext, NEW u \in Task
    PROVE  \/ tasks'[u] = tasks[u] \/ tasks'[u] = Waiting
           \/ \E s \in AdminSession, c \in Cred : SessionByKey(u, s, c)
           \/ \E s \in AdminSession : SessionByPairing(u, s)
           \/ SaveSession(u) \/ BindSessionRow(u) \/ RevokeSmasterRow(u)
           \/ \E sm \in Smaster : AddSmaster(u, sm) \/ RevokeSmaster(u, sm)
           \/ \E c \in Cred : RevokeCred(u, c)
           \/ \E p \in Admins : Unseat(u, p)
<1>0. tasks \in [Task -> TaskState]
  BY TypeParts DEF AuthInv
<1>1. CASE SessionStep
  BY <1>0, <1>1, ZenonT(60) DEF SessionStep, SessionByKey, SessionByPairing, SaveSession, BindSessionRow, OpenHot, SessionFails,
       EndSession, SessionExpires, DropSession, RotatePairing, PairingExpires
<1>2. CASE KeyStep
  BY <1>0, <1>2 DEF KeyStep, AddSmaster, AddSmasterHot, RevokeSmaster, RevokeSmasterRow, RevokeSmasterHot, CreateDevice,
       RevokeCred, RevokeCredHot
<1>3. CASE OperatorStep
  BY <1>0, <1>3 DEF OperatorStep, CreateLoca, Appoint, Unseat, RevokeOperator
<1>4. CASE BootStep
  BY <1>0, <1>4 DEF BootStep, Boot, BootDone
<1> QED
  BY <1>1, <1>2, <1>3, <1>4 DEF AuthNext

(* What each of these moves leaves in the task. *)
LEMMA TaskAfter ==
    ASSUME AuthInv, NEW u \in Task
    PROVE  /\ \A s \in AdminSession, c \in Cred : SessionByKey(u, s, c) =>
                /\ tasks'[u].at = "save" /\ tasks'[u].grant.sess = s
                /\ \/ CredWorks(c) /\ Issued(c) /\ tasks'[u].grant.prin = OwnerOf(c) /\ tasks'[u].grant.cred = c
                   \/ tasks'[u].grant.prin = NoPrincipal /\ tasks'[u].grant.cred = NoPrincipal
           /\ \A s \in AdminSession : SessionByPairing(u, s) =>
                \/ tasks'[u] = tasks[u]
                \/ /\ tasks'[u].at = "save" /\ tasks'[u].grant.sess = s
                   /\ tasks'[u].grant.prin = Master /\ tasks'[u].grant.cred = root
           /\ SaveSession(u) => /\ tasks'[u].grant = tasks[u].grant
                                /\ tasks'[u].at = IF tasks[u].grant.cred = NoPrincipal THEN "open" ELSE "bind"
           /\ BindSessionRow(u) => tasks'[u].grant = tasks[u].grant /\ tasks'[u].at = "open"
           /\ RevokeSmasterRow(u) => \/ tasks'[u] = Waiting
                                     \/ tasks'[u].at = "unlisted" /\ tasks'[u].sm = tasks[u].sm /\ creds'[tasks[u].sm] = "revoked"
           /\ \A sm \in Smaster : /\ AddSmaster(u, sm) => tasks'[u].at = "minted" /\ tasks'[u].sm = sm
                                  /\ RevokeSmaster(u, sm) => tasks'[u].at = "unseated" /\ tasks'[u].sm = sm
           /\ \A c \in Cred : RevokeCred(u, c) => tasks'[u].at = "revoked" /\ tasks'[u].cred = c
           /\ \A p \in Admins : Unseat(u, p) => tasks'[u].at = "unseat"
<1>0. AuthTypeOK /\ tasks \in [Task -> TaskState] /\ creds \in [Cred -> {"none", "live", "revoked"}]
  BY TypeParts DEF AuthInv
<1>1. ASSUME NEW s \in AdminSession, NEW c \in Cred, SessionByKey(u, s, c)
      PROVE  /\ tasks'[u].at = "save" /\ tasks'[u].grant.sess = s
             /\ \/ CredWorks(c) /\ Issued(c) /\ tasks'[u].grant.prin = OwnerOf(c) /\ tasks'[u].grant.cred = c
                \/ tasks'[u].grant.prin = NoPrincipal /\ tasks'[u].grant.cred = NoPrincipal
  BY <1>0, <1>1 DEF SessionByKey
<1>2. ASSUME NEW s \in AdminSession, SessionByPairing(u, s)
      PROVE  \/ tasks'[u] = tasks[u]
             \/ /\ tasks'[u].at = "save" /\ tasks'[u].grant.sess = s
                /\ tasks'[u].grant.prin = Master /\ tasks'[u].grant.cred = root
  BY <1>0, <1>2 DEF SessionByPairing
<1>3. SaveSession(u) => /\ tasks'[u].grant = tasks[u].grant
                        /\ tasks'[u].at = IF tasks[u].grant.cred = NoPrincipal THEN "open" ELSE "bind"
  BY <1>0, TaskFields DEF SaveSession, Creating
<1>4. BindSessionRow(u) => tasks'[u].grant = tasks[u].grant /\ tasks'[u].at = "open"
  BY <1>0, TaskFields DEF BindSessionRow, Creating
<1>5. RevokeSmasterRow(u) => \/ tasks'[u] = Waiting
                             \/ tasks'[u].at = "unlisted" /\ tasks'[u].sm = tasks[u].sm /\ creds'[tasks[u].sm] = "revoked"
  BY <1>0, TaskFields DEF RevokeSmasterRow, Cred
<1>6. \A sm \in Smaster : /\ AddSmaster(u, sm) => tasks'[u].at = "minted" /\ tasks'[u].sm = sm
                          /\ RevokeSmaster(u, sm) => tasks'[u].at = "unseated" /\ tasks'[u].sm = sm
  BY <1>0 DEF AddSmaster, RevokeSmaster
<1>7. \A c \in Cred : RevokeCred(u, c) => tasks'[u].at = "revoked" /\ tasks'[u].cred = c
  BY <1>0 DEF RevokeCred
<1>8. \A p \in Admins : Unseat(u, p) => tasks'[u].at = "unseat"
  BY <1>0 DEF Unseat
<1> QED
  BY <1>1, <1>2, <1>3, <1>4, <1>5, <1>6, <1>7, <1>8

(* Which actions write the credentials. *)
LEMMA KeyWriters ==
    ASSUME AuthNext
    PROVE  \/ creds' = creds \/ \E r \in RootKey : Boot(r)
           \/ \E t \in Task : \/ RevokeSmasterRow(t) \/ \E sm \in Smaster : AddSmaster(t, sm)
                              \/ \E c \in Cred : RevokeCred(t, c)
           \/ \E d \in Device, p \in Admins : CreateDevice(d, p)
<1>1. CASE SessionStep \/ OperatorStep
  BY <1>1 DEF SessionStep, SessionByKey, SessionByPairing, SaveSession, BindSessionRow, OpenHot, SessionFails,
       EndSession, SessionExpires, DropSession, RotatePairing, PairingExpires,
       OperatorStep, CreateLoca, Appoint, Unseat, RevokeOperator
<1>2. CASE KeyStep \/ BootStep
  BY <1>2 DEF KeyStep, AddSmasterHot, RevokeSmaster, RevokeSmasterHot, RevokeCredHot, BootStep, BootDone
<1> QED
  BY <1>1, <1>2 DEF AuthNext

(* Who ends the stages that the hot map waits for. *)
LEMMA StageEnds ==
    ASSUME AuthInv, AuthNext, NEW u \in Task, \A r \in RootKey : ~Boot(r)
    PROVE  /\ tasks[u].at = "minted" => tasks'[u] = tasks[u] \/ AddSmasterHot(u)
           /\ tasks[u].at = "unlisted" => tasks'[u] = tasks[u] \/ RevokeSmasterHot(u)
           /\ tasks[u].at = "revoked" => tasks'[u] = tasks[u] \/ RevokeCredHot(u)
           /\ tasks[u].at = "open" => tasks'[u] = tasks[u] \/ OpenHot(u)
<1>0. tasks \in [Task -> TaskState] /\ Waiting.at = "waiting"
  BY TypeParts DEF AuthInv, Waiting
<1>1. CASE SessionStep
  BY <1>0, <1>1 DEF SessionStep, SessionByKey, SessionByPairing, SaveSession, BindSessionRow, OpenHot, SessionFails,
       EndSession, SessionExpires, DropSession, RotatePairing, PairingExpires
<1>2. CASE KeyStep
  BY <1>0, <1>2 DEF KeyStep, AddSmaster, AddSmasterHot, RevokeSmaster, RevokeSmasterRow, RevokeSmasterHot, CreateDevice,
       RevokeCred, RevokeCredHot
<1>3. CASE OperatorStep \/ BootDone
  BY <1>0, <1>3 DEF OperatorStep, CreateLoca, Appoint, Unseat, RevokeOperator, BootDone
<1> QED
  BY <1>1, <1>2, <1>3 DEF AuthNext, BootStep

-----------------------------------------------------------------------------
(* The smasters *)

(* A revocation that a handler still has to carry to the hot maps stands. *)
LEMMA DropsKeep ==
    ASSUME AuthInv, AuthNext
    PROVE  DropsRevoked'
<1> SUFFICES ASSUME NEW t \in Task
             PROVE  /\ tasks'[t].at = "unlisted" => creds'[tasks'[t].sm] = "revoked"
                    /\ tasks'[t].at = "revoked" => creds'[tasks'[t].cred] = "revoked"
  BY DEF DropsRevoked
<1>0. AuthTypeOK /\ Waiting.at = "waiting" /\ Smaster \subseteq Cred
  BY DEF AuthInv, Waiting, Cred
<1>1. ASSUME NEW r \in RootKey, Boot(r)
      PROVE  tasks'[t].at = "waiting"
  BY <1>0, <1>1 DEF Boot
<1>2. CASE tasks'[t] = tasks[t] /\ \A r \in RootKey : ~Boot(r)
  <2>1. /\ tasks[t].at = "unlisted" => tasks[t].sm \in Cred /\ creds[tasks[t].sm] = "revoked"
        /\ tasks[t].at = "revoked" => tasks[t].cred \in Cred /\ creds[tasks[t].cred] = "revoked"
    BY <1>0, TaskFields DEF AuthInv, DropsRevoked
  <2> QED
    BY <1>2, <2>1, KeysMove
<1>3. ASSUME NEW c \in Cred, RevokeCred(t, c)
      PROVE  tasks'[t].cred = c /\ creds'[c] = "revoked" /\ tasks'[t].at = "revoked"
  BY <1>3, TaskAfter, TypeParts DEF RevokeCred, AuthInv
<1> QED
  BY <1>0, <1>1, <1>2, <1>3, TaskMoves, TaskAfter

(* No key is revoked before its bearer has seen it, and none is minted twice. *)
LEMMA MintedKeeps ==
    ASSUME AuthInv, AuthNext
    PROVE  MintedOnce'
<1>0. /\ AuthTypeOK /\ creds \in [Cred -> {"none", "live", "revoked"}] /\ Waiting.at = "waiting"
      /\ Smaster \subseteq Cred /\ Smaster \cap Device = {}
  BY TypeParts, AuthorityAssumption DEF AuthInv, Waiting, Cred
<1>1. ASSUME NEW t \in Task, tasks'[t].at = "minted"
      PROVE  \/ tasks'[t] = tasks[t] /\ \A r \in RootKey : ~Boot(r)
             \/ \E sm \in Smaster : AddSmaster(t, sm) /\ tasks'[t].sm = sm
  <2>1. ~\E r \in RootKey : Boot(r)
    BY <1>0, <1>1 DEF Boot
  <2> QED
    BY <1>0, <1>1, <2>1, TaskMoves, TaskAfter
<1>2. ASSUME NEW t \in Task, tasks[t].at = "minted", \A r \in RootKey : ~Boot(r)
      PROVE  creds'[tasks[t].sm] = "live"
  <2>0. tasks[t].sm \in Smaster /\ creds[tasks[t].sm] = "live" /\ Unseen(tasks[t].sm)
    BY <1>0, <1>2, TaskFields DEF AuthInv, MintedOnce, Unseen
  <2>1. ASSUME NEW u \in Task, RevokeSmasterRow(u)
        PROVE  creds'[tasks[t].sm] = "live"
    <3>1. tasks[u].at = "unseated" /\ tasks[u].sm \in Smaster
      BY <1>0, <2>1, TaskFields DEF RevokeSmasterRow
    <3>2. tasks[u].sm # tasks[t].sm
      BY <2>0, <3>1 DEF AuthInv, UnseenIsUnused
    <3> QED
      BY <1>0, <2>0, <2>1, <3>1, <3>2 DEF RevokeSmasterRow
  <2>2. ASSUME NEW u \in Task, NEW c \in Cred, RevokeCred(u, c)
        PROVE  creds'[tasks[t].sm] = "live"
    <3>1. c # tasks[t].sm
      <4> SUFFICES ASSUME c = tasks[t].sm PROVE FALSE
        OBVIOUS
      <4>1. OwnerOf(c) = c
        BY <2>0, AuthorityAssumption DEF OwnerOf
      <4> QED
        BY <2>0, <2>2, <4>1, ActorIsSeen DEF RevokeCred
    <3> QED
      BY <1>0, <2>0, <2>2, <3>1 DEF RevokeCred
  <2>3. ASSUME NEW u \in Task, NEW sm \in Smaster, AddSmaster(u, sm)
        PROVE  creds'[tasks[t].sm] = "live"
    BY <1>0, <2>0, <2>3 DEF AddSmaster
  <2>4. ASSUME NEW d \in Device, NEW p \in Admins, CreateDevice(d, p)
        PROVE  creds'[tasks[t].sm] = "live"
    BY <1>0, <2>0, <2>4 DEF CreateDevice
  <2> QED
    BY <1>2, <2>0, <2>1, <2>2, <2>3, <2>4, KeyWriters
<1>3. ASSUME NEW t \in Task, NEW sm \in Smaster, AddSmaster(t, sm)
      PROVE  /\ creds'[sm] = "live"
             /\ \A u \in Task : tasks[u].at = "minted" => tasks[u].sm # sm
  BY <1>0, <1>3 DEF AddSmaster, AuthInv, MintedOnce
<1>4. \A t \in Task : tasks'[t].at = "minted" => creds'[tasks'[t].sm] = "live"
  BY <1>1, <1>2, <1>3
<1>5. ASSUME NEW t \in Task, NEW u \in Task, tasks'[t].at = "minted", tasks'[u].at = "minted", tasks'[t].sm = tasks'[u].sm
      PROVE  t = u
  <2>1. CASE tasks'[t] = tasks[t] /\ tasks'[u] = tasks[u]
    BY <1>5, <2>1 DEF AuthInv, MintedOnce
  <2>2. ASSUME NEW x \in Task, NEW y \in Task, NEW sm \in Smaster, AddSmaster(x, sm), tasks'[x].sm = sm, tasks'[y].sm = sm,
               tasks'[y].at = "minted"
        PROVE  x = y
    <3>1. tasks \in [Task -> TaskState]
      BY <1>0, TypeParts
    <3>2. x # y => tasks'[y] = tasks[y]
      BY <2>2, <3>1 DEF AddSmaster
    <3> QED
      BY <1>3, <2>2, <3>2
  <2> QED
    BY <1>1, <1>5, <2>1, <2>2
<1> QED
  BY <1>4, <1>5 DEF MintedOnce

(* The hot map of smasters falls behind its table only while a handler runs. *)
LEMMA HotKeeps ==
    ASSUME AuthInv, AuthNext
    PROVE  HotLags'
<1> SUFFICES ASSUME up', NEW sm \in smasters' \ smRows'
             PROVE  \E t \in Task : \/ tasks'[t].at = "unlisted" /\ tasks'[t].sm = sm
                                    \/ tasks'[t].at = "revoked" /\ tasks'[t].cred = sm
  BY DEF HotLags
<1>0. AuthTypeOK /\ TablesAgree /\ TablesAgree' /\ sm \in Smaster
  BY TablesKeep, SessionsTyped, KeysTyped, SeatAndBootTyped DEF AuthInv, AuthNext, AuthTypeOK
<1>1. CASE BootDone
  BY <1>0, <1>1, BootLoads DEF BootDone
<1>2. CASE ~BootDone /\ \A r \in RootKey : ~Boot(r)
  <2>0. up
    BY <1>2, Writers
  <2>1. CASE sm \in smasters \ smRows
    <3>1. PICK t \in Task : (tasks[t].at = "unlisted" /\ tasks[t].sm = sm) \/ (tasks[t].at = "revoked" /\ tasks[t].cred = sm)
      BY <2>0, <2>1 DEF AuthInv, HotLags
    <3>2. tasks'[t] = tasks[t]
      BY <1>2, <3>1, StageEnds DEF RevokeSmasterHot, RevokeCredHot
    <3> QED
      BY <3>1, <3>2
  <2>2. CASE sm \notin smasters
    <3>1. PICK t \in Task : AddSmasterHot(t)
      BY <1>2, <2>2, Writers DEF RevokeSmasterHot, RevokeCredHot
    <3>2. tasks[t].sm = sm /\ creds[sm] = "live" /\ smRows' = smRows
      BY <2>2, <3>1 DEF AddSmasterHot, AuthInv, MintedOnce
    <3> QED
      BY <1>0, <3>2 DEF TablesAgree
  <2>3. CASE sm \in smasters /\ sm \in smRows
    <3>1. ASSUME NEW t \in Task, RevokeSmasterRow(t)
          PROVE  tasks'[t].at = "unlisted" /\ tasks'[t].sm = sm
      <4>1. tasks[t].sm = sm /\ tasks' = [tasks EXCEPT ![t].at = "unlisted"]
        BY <2>3, <3>1 DEF RevokeSmasterRow
      <4>2. tasks[t] \in [at : {"minted", "unseated", "unlisted"}, sm : Smaster] /\ tasks \in [Task -> TaskState]
        BY <1>0, <3>1, TaskFields, TypeParts DEF RevokeSmasterRow
      <4> QED
        BY <4>1, <4>2
    <3>2. ASSUME NEW t \in Task, NEW c \in Cred, RevokeCred(t, c)
          PROVE  tasks'[t].at = "revoked" /\ tasks'[t].cred = sm
      <4>1. c = sm
        BY <2>3, <3>2 DEF RevokeCred, SmRowsWithout
      <4> QED
        BY <3>2, <4>1, TaskAfter
    <3>3. \A t \in Task, x \in Smaster : ~AddSmaster(t, x)
      BY <2>3 DEF AddSmaster
    <3> QED
      BY <2>3, <3>1, <3>2, <3>3, Writers
  <2> QED
    BY <2>1, <2>2, <2>3
<1>3. ~\E r \in RootKey : Boot(r)
  BY DEF Boot
<1> QED
  BY <1>1, <1>2, <1>3

(* An unseen key stays unused. *)
LEMMA UnseenKeeps ==
    ASSUME AuthInv, AuthNext
    PROVE  UnseenIsUnused'
<1> SUFFICES ASSUME NEW sm \in Smaster, Unseen(sm)'
             PROVE  /\ sm \notin smasters'
                    /\ \A d \in Device : owner'[d] # sm
                    /\ \A s \in AdminSession : /\ sessions'[s] # Absent => sessions'[s].prin # sm
                                               /\ bindings'[s] # Absent => bindings'[s].prin # sm
                    /\ \A t \in Task : /\ Creating(t)' => tasks'[t].grant.prin # sm
                                       /\ tasks'[t].at \in {"unseated", "unlisted"} => tasks'[t].sm # sm
  BY DEF UnseenIsUnused
<1>0. /\ AuthTypeOK /\ Unseen(sm) /\ Waiting.at = "waiting" /\ MintedOnce'
      /\ bindings \in [AdminSession -> Binding] /\ sessions \in [AdminSession -> HotSession]
      /\ owner \in [Device -> Admins \cup {NoPrincipal}]
  BY UnseenShrinks, MintedKeeps, TypeParts DEF AuthInv, Waiting
<1>1. /\ sm \notin smasters
      /\ \A d \in Device : owner[d] # sm
      /\ \A s \in AdminSession : /\ sessions[s] # Absent => sessions[s].prin # sm
                                 /\ bindings[s] # Absent => bindings[s].prin # sm
      /\ \A t \in Task : /\ Creating(t) => tasks[t].grant.prin # sm
                         /\ tasks[t].at \in {"unseated", "unlisted"} => tasks[t].sm # sm
  BY <1>0 DEF AuthInv, UnseenIsUnused
<1>2. sm \notin smasters'
  <2>1. ASSUME NEW t \in Task, AddSmasterHot(t)
        PROVE  tasks[t].sm # sm
    <3> SUFFICES ASSUME tasks[t].sm = sm PROVE FALSE
      OBVIOUS
    <3>1. tasks[t].at = "minted" /\ tasks'[t].at = "waiting" /\ creds' = creds /\ creds[sm] = "live"
      BY <1>0, <2>1, TypeParts DEF AddSmasterHot, AuthInv, MintedOnce
    <3>2. PICK u \in Task : tasks'[u].at = "minted" /\ tasks'[u].sm = sm
      BY <3>1 DEF Unseen
    <3>3. u # t /\ tasks'[u] = tasks[u]
      BY <1>0, <2>1, <3>1, <3>2, TypeParts DEF AddSmasterHot
    <3> QED
      BY <3>1, <3>2, <3>3 DEF AuthInv, MintedOnce
  <2>2. BootDone => sm \notin smasters'
    <3> SUFFICES ASSUME BootDone, sm \in smRows PROVE FALSE
      BY <1>0, BootLoads
    <3>1. creds[sm] = "live" /\ \A t \in Task : tasks[t].at = "waiting"
      BY <1>0 DEF AuthInv, TablesAgree, DownIsEmpty, BootDone
    <3> QED
      BY <1>0, <3>1 DEF Unseen
  <2> QED
    BY <1>1, <2>1, <2>2, Writers DEF AddSmasterHot, RevokeSmasterHot, RevokeCredHot, Boot
<1>3. \A d \in Device : owner'[d] # sm
  <2>1. ASSUME NEW d \in Device, NEW p \in Admins, CreateDevice(d, p)
        PROVE  p # sm
    BY <1>0, <2>1, ActorIsSeen DEF CreateDevice
  <2> QED
    BY <1>0, <1>1, <2>1, Writers DEF CreateDevice
<1>4. ASSUME NEW s \in AdminSession, sessions'[s] # Absent
      PROVE  sessions'[s].prin # sm
  <2>1. ASSUME NEW t \in Task, OpenHot(t)
        PROVE  sessions'[s].prin # sm
    <3>1. Creating(t) /\ tasks[t].grant.sess \in AdminSession /\ tasks[t].grant.prin # sm
      BY <1>0, <1>1, <2>1, TaskFields DEF OpenHot, Creating
    <3> QED
      BY <1>0, <1>1, <1>4, <2>1, <3>1 DEF OpenHot
  <2>2. CASE BootDone
    <3>1. s \in Restored /\ sessions'[s].prin = bindings[s].prin
      BY <1>0, <1>4, <2>2, BootLoads
    <3>2. bindings[s] # Absent
      BY <3>1 DEF Restored, BindingWorks, Absent
    <3> QED
      BY <1>1, <3>1, <3>2
  <2>3. ASSUME \/ \E r \in RootKey : Boot(r)
               \/ \E t \in Task : RevokeCredHot(t)
               \/ \E x \in AdminSession : EndSession(x) \/ DropSession(x)
        PROVE  sessions'[s] = sessions[s]
    BY <1>0, <1>4, <2>3 DEF Boot, RevokeCredHot, EndSession, DropSession
  <2> QED
    BY <1>1, <1>4, <2>1, <2>2, <2>3, Writers
<1>5. ASSUME NEW s \in AdminSession, bindings'[s] # Absent
      PROVE  bindings'[s].prin # sm
  <2>1. ASSUME NEW t \in Task, BindSessionRow(t)
        PROVE  bindings'[s].prin # sm
    <3>1. Creating(t) /\ tasks[t].grant.sess \in AdminSession /\ tasks[t].grant.prin # sm
      BY <1>0, <1>1, <2>1, TaskFields DEF BindSessionRow, Creating
    <3> QED
      BY <1>0, <1>1, <1>5, <2>1, <3>1 DEF BindSessionRow
  <2>2. ASSUME NEW b, \/ b = bindings[s]
                      \/ bindings[s].row = "live" /\ b = [bindings[s] EXCEPT !.row = "revoked"], b # Absent
        PROVE  b.prin # sm
    <3>1. CASE b = bindings[s]
      BY <1>1, <2>2, <3>1
    <3>2. CASE bindings[s].row = "live" /\ b = [bindings[s] EXCEPT !.row = "revoked"]
      <4>1. bindings[s] # Absent /\ bindings[s] \in [row : {"live", "revoked"}, prin : Admins, cred : Cred]
        BY <1>0, <3>2, BindingFields DEF Absent
      <4>2. b.prin = bindings[s].prin
        BY <3>2, <4>1
      <4> QED
        BY <1>1, <4>1, <4>2
    <3> QED
      BY <2>2, <3>1, <3>2
  <2>3. ASSUME \E r \in RootKey : Boot(r) PROVE bindings'[s].prin # sm
    BY <1>5, <2>2, <2>3 DEF Boot, WithoutOldRoots
  <2>4. ASSUME \E t \in Task, c \in Cred : RevokeCred(t, c) PROVE bindings'[s].prin # sm
    BY <1>5, <2>2, <2>4 DEF RevokeCred
  <2>5. ASSUME NEW x \in AdminSession, bindings' = Unbound(x) PROVE bindings'[s].prin # sm
    BY <1>0, <1>1, <1>5, <2>5, UnboundTyped
  <2>6. ASSUME \E x \in AdminSession : EndSession(x) \/ DropSession(x) PROVE bindings'[s].prin # sm
    BY <1>1, <1>5, <2>5, <2>6 DEF EndSession, DropSession
  <2>7. ASSUME BootDone PROVE bindings'[s].prin # sm
    <3>1. bindings'[s] = bindings[s] \/ bindings'[s] = Unbound(s)[s]
      BY <1>0, <2>7, BootLoads
    <3> QED
      BY <1>0, <1>1, <1>5, <3>1, UnboundTyped
  <2> QED
    BY <1>1, <1>5, <2>1, <2>3, <2>4, <2>6, <2>7, Writers
<1>6. ASSUME NEW t \in Task, Creating(t)'
      PROVE  tasks'[t].grant.prin # sm
  <2>0. tasks'[t].at \in {"save", "bind", "open"}
    BY <1>6 DEF Creating
  <2>1. \A c \in Cred : CredWorks(c) /\ Issued(c) => OwnerOf(c) # sm
    BY <1>0, KeyIsSeen
  <2>2. Master # sm /\ NoPrincipal # sm
    BY AuthorityAssumption
  <2>3. tasks'[t] = tasks[t] => tasks'[t].grant.prin # sm
    BY <1>1, <2>0 DEF Creating
  <2>4. SaveSession(t) \/ BindSessionRow(t) => tasks[t].grant.prin # sm
    BY <1>1 DEF Creating, SaveSession, BindSessionRow
  <2> QED
    BY <1>0, <2>0, <2>1, <2>2, <2>3, <2>4, TaskMoves, TaskAfter
<1>7. ASSUME NEW t \in Task, tasks'[t].at \in {"unseated", "unlisted"}
      PROVE  tasks'[t].sm # sm
  <2>1. \A x \in Smaster : RevokeSmaster(t, x) => x # sm
    BY <1>1 DEF RevokeSmaster
  <2>2. RevokeSmasterRow(t) => tasks[t].sm # sm
    BY <1>1 DEF RevokeSmasterRow
  <2>3. tasks'[t] = tasks[t] => tasks'[t].sm # sm
    BY <1>1, <1>7
  <2>4. ~SaveSession(t) /\ ~BindSessionRow(t)
    BY <1>7, TaskAfter
  <2> QED
    BY <1>0, <1>7, <2>1, <2>2, <2>3, <2>4, TaskMoves, TaskAfter
<1> QED
  BY <1>2, <1>3, <1>4, <1>5, <1>6, <1>7

-----------------------------------------------------------------------------
(* Sessions *)

(* A row is bound once and then only revoked. *)
LEMMA BindingMoves ==
    ASSUME AuthInv, AuthNext, NEW s \in AdminSession
    PROVE  \/ bindings'[s] = bindings[s]
           \/ \E t \in Task : /\ BindSessionRow(t) /\ tasks[t].grant.sess = s
                              /\ bindings'[s] # Absent /\ bindings'[s].cred = tasks[t].grant.cred
           \/ /\ bindings[s] # Absent /\ bindings'[s] # Absent
              /\ bindings'[s].row = "revoked" /\ bindings'[s].cred = bindings[s].cred
<1> DEFINE Ended == /\ bindings[s] # Absent /\ bindings'[s] # Absent
                    /\ bindings'[s].row = "revoked" /\ bindings'[s].cred = bindings[s].cred
<1>0. AuthTypeOK /\ bindings \in [AdminSession -> Binding]
  BY TypeParts DEF AuthInv
<1>1. ASSUME bindings[s].row = "live", bindings'[s] = [bindings[s] EXCEPT !.row = "revoked"]
      PROVE  Ended
  <2>1. bindings[s] # Absent /\ bindings[s] \in [row : {"live", "revoked"}, prin : Admins, cred : Cred]
    BY <1>0, <1>1, BindingFields DEF Absent
  <2>2. bindings'[s].row = "revoked" /\ bindings'[s].cred = bindings[s].cred
    BY <1>1, <2>1
  <2> QED
    BY <2>1, <2>2 DEF Absent
<1> HIDE DEF Ended
<1>2. ASSUME NEW x \in AdminSession, bindings'[s] = Unbound(x)[s]
      PROVE  bindings'[s] = bindings[s] \/ Ended
  BY <1>0, <1>1, <1>2 DEF Unbound
<1>3. ASSUME NEW t \in Task, BindSessionRow(t)
      PROVE  \/ bindings'[s] = bindings[s]
             \/ /\ BindSessionRow(t) /\ tasks[t].grant.sess = s
                /\ bindings'[s] # Absent /\ bindings'[s].cred = tasks[t].grant.cred
  BY <1>0, <1>3 DEF BindSessionRow, Absent
<1>4. ASSUME \/ \E r \in RootKey : Boot(r)
             \/ \E t \in Task, c \in Cred : RevokeCred(t, c)
      PROVE  bindings'[s] = bindings[s] \/ Ended
  BY <1>1, <1>4 DEF Boot, WithoutOldRoots, RevokeCred
<1>5. ASSUME BootDone \/ \E x \in AdminSession : EndSession(x) \/ DropSession(x)
      PROVE  bindings'[s] = bindings[s] \/ Ended
  BY <1>0, <1>2, <1>5, BootLoads DEF EndSession, DropSession
<1> QED
  BY <1>3, <1>4, <1>5, Writers DEF Ended

(* No step but its creation makes a session's row work: revocations are final, *)
(* and a root key that returns finds the sessions it opened revoked.           *)
LEMMA BindingRises ==
    ASSUME AuthInv, AuthNext, NEW s \in AdminSession, BindingWorks(s)'
    PROVE  BindingWorks(s) \/ \E t \in Task : BindSessionRow(t) /\ tasks[t].grant.sess = s
<1> SUFFICES ASSUME ~\E t \in Task : BindSessionRow(t) /\ tasks[t].grant.sess = s
             PROVE  BindingWorks(s)
  OBVIOUS
<1> DEFINE c == bindings[s].cred
<1>0. AuthTypeOK /\ OneRoot /\ BoundToKnown /\ disabled \subseteq Smaster
  BY TypeParts DEF AuthInv
<1>1. bindings'[s] = bindings[s] /\ bindings[s].row = "live"
  BY BindingMoves DEF BindingWorks
<1>2. c \in Cred /\ creds[c] # "none" /\ (c \in RootKey => c = root)
  BY <1>0, <1>1, BindingFields DEF BoundToKnown, Absent
<1>3. s \notin expired
  BY Writers DEF BindingWorks
<1>4. creds'[c] = "live" /\ OwnerOf(c)' \notin disabled'
  BY <1>1 DEF BindingWorks, CredWorks
<1> HIDE DEF c
<1>5. creds[c] = "live" /\ disabled \subseteq disabled' /\ (c \in Device => owner'[c] = owner[c])
  <2>1. ASSUME NEW r \in RootKey, Boot(r)
        PROVE  creds[c] = "live" /\ disabled \subseteq disabled' /\ owner' = owner
    BY <1>0, <1>2, <1>4, <2>1, BootKeys DEF OneRoot, Boot
  <2>2. CASE \A r \in RootKey : ~Boot(r)
    BY <1>2, <1>4, <2>2, KeysMove
  <2> QED
    BY <2>1, <2>2
<1>6. c' = c
  BY <1>1 DEF c
<1>7. OwnerOf(c) \notin disabled
  BY <1>2, <1>4, <1>5, <1>6 DEF OwnerOf, Cred
<1> QED
  BY <1>1, <1>3, <1>5, <1>7 DEF BindingWorks, CredWorks, c

(* A row is bound to a key that exists, and of the root keys to the configured one. *)
LEMMA BoundKeeps ==
    ASSUME AuthInv, AuthNext
    PROVE  BoundToKnown'
<1> SUFFICES ASSUME NEW s \in AdminSession, bindings'[s] # Absent
             PROVE  /\ creds'[bindings'[s].cred] # "none"
                    /\ bindings'[s].row = "live" /\ bindings'[s].cred \in RootKey => bindings'[s].cred = root'
  BY DEF BoundToKnown
<1>0. AuthTypeOK /\ BoundToKnown /\ creds \in [Cred -> {"none", "live", "revoked"}] /\ bindings \in [AdminSession -> Binding]
  BY TypeParts DEF AuthInv
<1>1. ASSUME NEW c \in Cred, creds[c] # "none"
      PROVE  creds'[c] # "none"
  <2>1. CASE \A r \in RootKey : ~Boot(r)
    BY <1>0, <1>1, <2>1, KeysMove
  <2> QED
    BY <1>1, <2>1, BootKeys
<1>2. CASE bindings[s] # Absent /\ bindings'[s].cred = bindings[s].cred
  <2>0. bindings[s].cred \in Cred /\ creds[bindings[s].cred] # "none"
    BY <1>0, <1>2, BindingFields DEF BoundToKnown
  <2>1. creds'[bindings'[s].cred] # "none"
    BY <1>1, <1>2, <2>0
  <2>2. ASSUME bindings'[s].row = "live", bindings'[s].cred \in RootKey
        PROVE  bindings'[s].cred = root'
    <3>1. CASE \A r \in RootKey : ~Boot(r)
      <4>1. bindings[s].row = "live" \/ \E t \in Task : BindSessionRow(t) /\ tasks[t].grant.sess = s
        BY <2>2, BindingMoves
      <4>2. ASSUME NEW t \in Task, BindSessionRow(t), tasks[t].grant.sess = s PROVE FALSE
        BY <1>2, <4>2 DEF BindSessionRow, AuthInv, CreatedOnce, Creating
      <4> QED
        BY <1>0, <1>2, <2>2, <3>1, <4>1, <4>2, KeysMove DEF BoundToKnown
    <3>2. ASSUME NEW r \in RootKey, Boot(r)
          PROVE  bindings'[s].cred = root'
      <4>1. bindings'[s] = IF bindings[s].row = "live" /\ bindings[s].cred \in OldRoots(r)
                           THEN [bindings[s] EXCEPT !.row = "revoked"] ELSE bindings[s]
        BY <3>2 DEF Boot, WithoutOldRoots
      <4>2. bindings[s] \in [row : {"live", "revoked"}, prin : Admins, cred : Cred]
        BY <1>0, <1>2, BindingFields
      <4>3. bindings[s].row = "live" /\ bindings[s].cred \notin OldRoots(r)
        BY <2>2, <4>1, <4>2
      <4>4. bindings[s].cred = r
        BY <1>2, <2>0, <2>2, <4>3 DEF OldRoots
      <4> QED
        BY <1>2, <3>2, <4>4, BootKeys
    <3> QED
      BY <3>1, <3>2
  <2> QED
    BY <2>1, <2>2
<1>3. ASSUME NEW t \in Task, BindSessionRow(t), tasks[t].grant.sess = s, bindings'[s].cred = tasks[t].grant.cred
      PROVE  /\ creds'[bindings'[s].cred] # "none"
             /\ bindings'[s].row = "live" /\ bindings'[s].cred \in RootKey => bindings'[s].cred = root'
  <2>1. Creating(t) /\ tasks[t].at = "bind" /\ UNCHANGED <<creds, root>>
    BY <1>3 DEF BindSessionRow, Creating
  <2> QED
    BY <1>3, <2>1 DEF AuthInv, CreatedOnce
<1> QED
  BY <1>2, <1>3, BindingMoves

(* A session whose creation begins, from a key that works or from none. *)
Begins(t, s) ==
    /\ Fresh(s) /\ tasks'[t].grant.sess = s /\ tasks'[t].at = "save" /\ ~Creating(t)
    /\ UNCHANGED <<creds, root, sessions, bindings>> /\ \A u \in Task : u # t => tasks'[u] = tasks[u]
    /\ tasks'[t].grant.cred # NoPrincipal =>
         /\ tasks'[t].grant.prin \in Admins
         /\ creds[tasks'[t].grant.cred] # "none"
         /\ tasks'[t].grant.cred \in RootKey => tasks'[t].grant.cred = root

(* One that goes on. *)
GoesOn(t) ==
    /\ Creating(t) /\ tasks'[t].grant = tasks[t].grant
    /\ \/ tasks'[t] = tasks[t]
       \/ SaveSession(t) /\ tasks'[t].at # "save" /\ (tasks'[t].at = "bind" => tasks[t].grant.cred # NoPrincipal)
       \/ BindSessionRow(t) /\ tasks'[t].at = "open"

(* The creation of a session stays alone with its token. *)
LEMMA CreatedKeeps ==
    ASSUME AuthInv, AuthNext
    PROVE  CreatedOnce'
<1> USE DEF Begins, GoesOn
<1>0. /\ AuthTypeOK /\ Waiting.at = "waiting" /\ CreatedOnce /\ DownIsEmpty
      /\ bindings \in [AdminSession -> Binding] /\ sessions \in [AdminSession -> HotSession]
      /\ tasks \in [Task -> TaskState] /\ root \in RootKey
  BY TypeParts DEF AuthInv, Waiting
<1>1. CASE \E r \in RootKey : Boot(r)
  <2>1. \A t \in Task : tasks'[t].at = "waiting"
    BY <1>0, <1>1 DEF Boot
  <2> QED
    BY <2>1 DEF CreatedOnce, Creating
<1>2. CASE \A r \in RootKey : ~Boot(r)
  <2>1. ASSUME NEW t \in Task, Creating(t)'
        PROVE  GoesOn(t) \/ \E s \in AdminSession : Begins(t, s)
    <3>0. tasks'[t].at \in {"save", "bind", "open"}
      BY <2>1 DEF Creating
    <3>1. tasks'[t] = tasks[t] => Creating(t)
      BY <3>0 DEF Creating
    <3>2. SaveSession(t) \/ BindSessionRow(t) => Creating(t)
      BY DEF SaveSession, BindSessionRow, Creating
    <3>3. ASSUME NEW s \in AdminSession, NEW c \in Cred, SessionByKey(t, s, c)
          PROVE  Begins(t, s)
      <4>1. /\ Fresh(s) /\ ~Creating(t) /\ UNCHANGED <<creds, root, sessions, bindings>>
            /\ \A u \in Task : u # t => tasks'[u] = tasks[u]
        BY <1>0, <3>3 DEF SessionByKey, Creating
      <4>2. CredWorks(c) => /\ creds[c] = "live" /\ OwnerOf(c) \in Admins
                            /\ c \in RootKey => c = root
        BY <1>0, Owners DEF CredWorks, AuthInv, OneRoot
      <4> QED
        BY <3>3, <4>1, <4>2, TaskAfter
    <3>4. ASSUME NEW s \in AdminSession, SessionByPairing(t, s), tasks'[t] # tasks[t]
          PROVE  Begins(t, s)
      <4>1. /\ Fresh(s) /\ ~Creating(t) /\ UNCHANGED <<creds, root, sessions, bindings>>
            /\ \A u \in Task : u # t => tasks'[u] = tasks[u]
        BY <1>0, <3>4 DEF SessionByPairing, Creating
      <4>2. creds[root] = "live" /\ Master \in Admins
        BY DEF AuthInv, OneRoot, Admins
      <4> QED
        BY <3>4, <4>1, <4>2, TaskAfter
    <3> QED
      BY <1>0, <3>0, <3>1, <3>2, <3>3, <3>4, TaskMoves, TaskAfter
  <2>2. ASSUME NEW t \in Task, Creating(t), Creating(t)', NEW s \in AdminSession, tasks[t].grant.sess = s
        PROVE  sessions'[s] = Absent
    <3>1. sessions[s] = Absent /\ ~BootDone
      BY <1>0, <2>2 DEF CreatedOnce, DownIsEmpty, BootDone, Creating
    <3>2. ASSUME NEW u \in Task, OpenHot(u)
          PROVE  sessions'[s] = sessions[s]
      <4>1. Creating(u) /\ ~Creating(u)' /\ tasks[u].grant.sess \in AdminSession
        BY <1>0, <3>2, TaskFields DEF OpenHot, Creating
      <4>2. u # t /\ tasks[u].grant.sess # s
        BY <1>0, <2>2, <4>1 DEF CreatedOnce
      <4> QED
        BY <1>0, <3>2, <4>1, <4>2 DEF OpenHot
    <3>3. ASSUME (\E u \in Task : RevokeCredHot(u)) \/ \E x \in AdminSession : EndSession(x) \/ DropSession(x)
          PROVE  sessions'[s] = Absent
      BY <1>0, <3>1, <3>3 DEF RevokeCredHot, EndSession, DropSession
    <3> QED
      BY <1>2, <3>1, <3>2, <3>3, Writers
  <2>3. ASSUME NEW t \in Task, Creating(t), Creating(t)', tasks'[t].at # "open", NEW s \in AdminSession, tasks[t].grant.sess = s,
               tasks[t].at # "open"
        PROVE  bindings'[s] = Absent
    <3>1. bindings[s] = Absent
      BY <1>0, <2>3 DEF CreatedOnce
    <3>2. ASSUME NEW u \in Task, BindSessionRow(u), tasks[u].grant.sess = s
          PROVE  FALSE
      <4>1. Creating(u) /\ tasks'[u].at = "open"
        BY <3>2, TaskAfter DEF BindSessionRow, Creating
      <4> QED
        BY <1>0, <2>3, <3>2, <4>1 DEF CreatedOnce
    <3> QED
      BY <3>1, <3>2, BindingMoves
  <2>4. ASSUME NEW t \in Task, Creating(t)'
        PROVE  /\ sessions'[tasks'[t].grant.sess] = Absent
               /\ tasks'[t].at # "open" => bindings'[tasks'[t].grant.sess] = Absent
               /\ tasks'[t].at = "bind" => tasks'[t].grant.cred # NoPrincipal
               /\ tasks'[t].grant.cred # NoPrincipal =>
                    /\ tasks'[t].grant.prin \in Admins
                    /\ creds'[tasks'[t].grant.cred] # "none"
                    /\ tasks'[t].grant.cred \in RootKey => tasks'[t].grant.cred = root'
    <3>1. CASE \E s \in AdminSession : Begins(t, s)
      BY <3>1 DEF Fresh
    <3>2. CASE GoesOn(t)
      <4>0. tasks[t].grant.sess \in AdminSession /\ tasks[t].grant.cred \in Cred \cup {NoPrincipal}
        BY <1>0, <3>2, TaskFields
      <4>1. sessions'[tasks'[t].grant.sess] = Absent
        BY <2>2, <2>4, <3>2, <4>0
      <4>2. tasks'[t].at # "open" => bindings'[tasks'[t].grant.sess] = Absent
        <5>1. tasks'[t].at # "open" => tasks[t].at # "open"
          BY <3>2 DEF SaveSession
        <5> QED
          BY <2>3, <2>4, <3>2, <4>0, <5>1
      <4>3. tasks'[t].at = "bind" => tasks'[t].grant.cred # NoPrincipal
        BY <1>0, <3>2 DEF CreatedOnce
      <4>4. tasks[t].grant.cred # NoPrincipal =>
              /\ tasks[t].grant.prin \in Admins
              /\ creds[tasks[t].grant.cred] # "none"
              /\ tasks[t].grant.cred \in RootKey => tasks[t].grant.cred = root
        BY <1>0, <3>2 DEF CreatedOnce
      <4>5. root' = root /\ \A c \in Cred : creds[c] # "none" => creds'[c] # "none"
        BY <1>2, KeysMove
      <4> QED
        BY <3>2, <4>0, <4>1, <4>2, <4>3, <4>4, <4>5
    <3> QED
      BY <2>1, <2>4, <3>1, <3>2
  <2>5. ASSUME NEW t \in Task, NEW u \in Task, Creating(t)', Creating(u)', tasks'[t].grant.sess = tasks'[u].grant.sess
        PROVE  t = u
    <3>1. CASE Creating(t) /\ Creating(u) /\ tasks'[t].grant = tasks[t].grant /\ tasks'[u].grant = tasks[u].grant
      BY <1>0, <2>5, <3>1 DEF CreatedOnce
    <3>2. ASSUME NEW x \in Task, NEW y \in Task, x # y, Creating(y)', tasks'[x].grant.sess = tasks'[y].grant.sess,
                 NEW s \in AdminSession, Fresh(s), tasks'[x].grant.sess = s, tasks'[y] = tasks[y]
          PROVE  FALSE
      BY <3>2 DEF Fresh, Creating
    <3>3. t # u => Creating(t) /\ Creating(u) /\ tasks'[t].grant = tasks[t].grant /\ tasks'[u].grant = tasks[u].grant
      BY <2>1, <2>5, <3>2
    <3> QED
      BY <3>1, <3>3
  <2> QED
    BY <2>4, <2>5 DEF CreatedOnce
<1> QED
  BY <1>1, <1>2

-----------------------------------------------------------------------------
(* Theorems *)

(* Every step of Authority keeps the invariant. *)
LEMMA AuthStep ==
    ASSUME AuthInv, [AuthNext]_authVars
    PROVE  AuthInv'
<1>1. CASE AuthNext
  <2>1. AuthTypeOK'
    BY <1>1, SessionsTyped, KeysTyped, SeatAndBootTyped DEF AuthNext
  <2> QED
    BY <1>1, <2>1, OneRootKeeps, DownKeeps, TablesKeep, UnseenKeeps, MintedKeeps, HotKeeps, DropsKeep, CreatedKeeps,
       BoundKeeps DEF AuthInv
<1>2. CASE UNCHANGED authVars
  BY <1>2 DEF authVars, AuthInv, AuthTypeOK, OneRoot, DownIsEmpty, TablesAgree, UnseenIsUnused, Unseen, MintedOnce,
     HotLags, DropsRevoked, DeviceOwned, CreatedOnce, Creating, BoundToKnown
<1> QED
  BY <1>1, <1>2

(* The first boot leaves one live credential, that of the root key. *)
LEMMA AuthInitially ==
    ASSUME AuthInit
    PROVE  AuthInv
<1>1. /\ \A t \in Task : tasks[t] = Waiting /\ tasks[t].at = "waiting"
      /\ \A s \in AdminSession : sessions[s] = Absent /\ bindings[s] = Absent
      /\ root \in RootKey /\ creds[root] = "live" /\ \A c \in Cred : c # root => creds[c] = "none"
      /\ up /\ disabled = {} /\ smRows = {} /\ smasters = {} /\ adminRows = {}
      /\ \A d \in Device : owner[d] = NoPrincipal
      /\ RootKey \subseteq Cred /\ Smaster \subseteq Cred \ RootKey /\ Device \subseteq Cred \ RootKey
      /\ NoPrincipal \notin Smaster
  BY AuthorityAssumption DEF AuthInit, Waiting, Cred
<1>2. AuthTypeOK
  <2>1. operator \in {Unfounded, Vacant} /\ label \in Human \cup {NoPrincipal}
    BY DEF AuthInit
  <2> QED
    BY <2>1 DEF AuthInit, AuthTypeOK
<1>3. OneRoot /\ DownIsEmpty /\ TablesAgree /\ MintedOnce /\ HotLags /\ DropsRevoked /\ DeviceOwned
  BY <1>1 DEF OneRoot, DownIsEmpty, TablesAgree, MintedOnce, HotLags, DropsRevoked, DeviceOwned
<1>4. UnseenIsUnused /\ CreatedOnce /\ BoundToKnown
  BY <1>1 DEF UnseenIsUnused, CreatedOnce, Creating, BoundToKnown
<1> QED
  BY <1>2, <1>3, <1>4 DEF AuthInv

(* The inductive invariant of root key, smasters and admin sessions. *)
THEOREM AuthorityInvariant == AuthSpec => []AuthInv
<1>1. AuthInit => AuthInv
  BY AuthInitially
<1>2. AuthInv /\ [AuthNext]_authVars => AuthInv'
  BY AuthStep
<1> QED
  BY <1>1, <1>2, PTL DEF AuthSpec

(* Every reachable state of the tables, hot maps and handlers is well typed. *)
THEOREM AuthorityTyping == AuthSpec => []AuthTypeOK
<1>1. AuthInv => AuthTypeOK
  BY DEF AuthInv
<1> QED
  BY <1>1, AuthorityInvariant, PTL

(* Whatever keys were rotated in and out, revoked or retired by a boot that failed *)
(* half way, the configured key opens the Master principal.                        *)
THEOREM RootAlwaysRecovers == AuthSpec => []RootRecovers
<1>1. AuthInv => RootRecovers
  BY TypeParts, AuthorityAssumption DEF AuthInv, OneRoot, RootRecovers, CredWorks, OwnerOf
<1> QED
  BY <1>1, AuthorityInvariant, PTL

(* Once the handlers have returned, the smasters table is the keys that work and *)
(* the hot map holds no other: a revoked smaster has no rank to fall back on.    *)
THEOREM FallbackIsSound == AuthSpec => []FallbackFollowsKeys
<1>1. AuthInv => FallbackFollowsKeys
  <2> SUFFICES ASSUME AuthInv, up, \A t \in Task : tasks[t].at \notin {"minted", "unlisted", "revoked"}
               PROVE  smasters \subseteq smRows /\ smRows = {sm \in Smaster : CredWorks(sm)}
    BY DEF FallbackFollowsKeys
  <2>1. smRows \subseteq Smaster
    BY TypeParts DEF AuthInv
  <2>2. smasters \subseteq smRows
    BY DEF AuthInv, HotLags
  <2>3. \A sm \in Smaster : CredWorks(sm) <=> sm \in smRows
    BY AuthorityAssumption DEF AuthInv, TablesAgree, CredWorks, OwnerOf
  <2> QED
    BY <2>1, <2>2, <2>3
<1> QED
  BY <1>1, AuthorityInvariant, PTL

(* While the server runs only OpenHot adds to the hot map of sessions. *)
LEMMA HotRises ==
    ASSUME AuthInv, AuthNext, up, NEW s \in AdminSession, ~SessionLives(s), SessionLives(s)'
    PROVE  \E t \in Task : tasks[t].at = "open" /\ tasks[t].grant.sess = s
<1>0. AuthTypeOK /\ sessions \in [AdminSession -> HotSession]
  BY TypeParts DEF AuthInv
<1>1. sessions'[s] # Absent /\ s \notin expired' /\ (sessions'[s].prin # NoPrincipal => BindingWorks(s)')
  BY DEF SessionLives
<1>2. ~BootDone /\ \A r \in RootKey : ~Boot(r)
  BY <1>1 DEF BootDone, Boot
<1>3. sessions'[s] = sessions[s] \/ \E t \in Task : OpenHot(t) /\ tasks[t].grant.sess = s
  <2>1. ASSUME NEW t \in Task, OpenHot(t) PROVE sessions'[s] = sessions[s] \/ tasks[t].grant.sess = s
    BY <1>0, <2>1 DEF OpenHot
  <2>2. ASSUME (\E t \in Task : RevokeCredHot(t)) \/ \E x \in AdminSession : EndSession(x) \/ DropSession(x)
        PROVE  sessions'[s] = sessions[s]
    BY <1>0, <1>1, <2>2 DEF RevokeCredHot, EndSession, DropSession
  <2> QED
    BY <1>2, <2>1, <2>2, Writers
<1>4. CASE sessions'[s] = sessions[s]
  <2>1. s \notin expired
    BY <1>1, Writers
  <2>2. sessions[s].prin # NoPrincipal /\ ~BindingWorks(s)
    BY <1>1, <1>4, <2>1 DEF SessionLives
  <2>3. PICK t \in Task : BindSessionRow(t) /\ tasks[t].grant.sess = s
    BY <1>1, <1>4, <2>2, BindingRises
  <2>4. sessions[s] = Absent
    BY <2>3 DEF BindSessionRow, AuthInv, CreatedOnce, Creating
  <2> QED
    BY <1>1, <1>4, <2>4
<1> QED
  BY <1>3, <1>4 DEF OpenHot

(* Only the second statement of a creation makes a session restorable. *)
LEMMA RestoredRises ==
    ASSUME AuthInv, AuthNext, NEW s \in AdminSession, s \notin Restored, s \in Restored'
    PROVE  \E t \in Task : tasks[t].at = "bind" /\ tasks[t].grant.sess = s
<1> SUFFICES ASSUME \A t \in Task : ~(BindSessionRow(t) /\ tasks[t].grant.sess = s)
             PROVE  FALSE
  BY DEF BindSessionRow
<1>0. AuthTypeOK
  BY DEF AuthInv
<1>1. s \in adminRows' /\ s \notin expired' /\ BindingWorks(s)'
  BY DEF Restored
<1>2. BindingWorks(s) /\ s \notin expired
  BY <1>1, BindingRises DEF BindingWorks
<1>3. s \notin adminRows
  BY <1>2 DEF Restored
<1>4. ASSUME NEW t \in Task, SaveSession(t) PROVE FALSE
  <2>1. s = tasks[t].grant.sess /\ Creating(t) /\ tasks[t].at = "save"
    BY <1>1, <1>3, <1>4 DEF SaveSession, Creating
  <2>2. bindings[s] = Absent
    BY <2>1 DEF AuthInv, CreatedOnce
  <2> QED
    BY <1>2, <2>2 DEF BindingWorks, Absent
<1>5. BootDone => adminRows' \subseteq adminRows
  BY <1>0, BootLoads
<1> QED
  BY <1>1, <1>3, <1>4, <1>5, Writers DEF EndSession, DropSession

(* A session that ended is not revived: not by a key that is rotated back in, nor by *)
(* a boot, complete or not, nor by a binding written late; one that a failed read    *)
(* took from the hot map comes back at a restart at the earliest.                    *)
THEOREM DeadSessionsStayDead == AuthSpec => SessionsStayDead
<1> DEFINE Kept == \A s \in AdminSession :
                     /\ ~Holds(s) /\ Holds(s)' =>
                          \E t \in Task : tasks[t].at \in {"bind", "open"} /\ tasks[t].grant.sess = s
                     /\ up /\ ~SessionLives(s) /\ SessionLives(s)' =>
                          \E t \in Task : tasks[t].at = "open" /\ tasks[t].grant.sess = s
<1>1. AuthInv /\ [AuthNext]_authVars => [Kept]_authVars
  <2> SUFFICES ASSUME AuthInv, AuthNext, NEW s \in AdminSession
               PROVE  /\ ~Holds(s) /\ Holds(s)' =>
                           \E t \in Task : tasks[t].at \in {"bind", "open"} /\ tasks[t].grant.sess = s
                      /\ up /\ ~SessionLives(s) /\ SessionLives(s)' =>
                           \E t \in Task : tasks[t].at = "open" /\ tasks[t].grant.sess = s
    OBVIOUS
  <2>1. ASSUME ~up, SessionLives(s)'
        PROVE  s \in Restored
    <3>1. sessions'[s] # Absent /\ sessions[s] = Absent /\ AuthTypeOK
      BY <2>1 DEF SessionLives, AuthInv, DownIsEmpty
    <3>2. CASE BootDone
      BY <3>1, <3>2, BootLoads
    <3>3. CASE ~BootDone
      BY <2>1, <3>1, <3>3, Writers DEF OpenHot, RevokeCredHot, EndSession, DropSession, Boot
    <3> QED
      BY <3>2, <3>3
  <2>2. ASSUME ~Holds(s), Holds(s)'
        PROVE  \E t \in Task : tasks[t].at \in {"bind", "open"} /\ tasks[t].grant.sess = s
    BY <2>1, <2>2, HotRises, RestoredRises DEF Holds
  <2> QED
    BY <2>2, HotRises
<1>2. AuthSpec => [][Kept]_authVars
  BY <1>1, AuthorityInvariant, PTL DEF AuthSpec
<1> QED
  BY <1>2 DEF SessionsStayDead
=============================================================================
