----------------------------- MODULE Admission -----------------------------
(***************************************************************************)
(* How an identity comes into the building: a master admits a name, or an  *)
(* outside agent asks to join, is approved against a stock of admission    *)
(* rights and fetches its membership token (hub.rs, store.rs,              *)
(* routes/membership.rs and the client, skill/agent-room/join_request.py). *)
(*                                                                         *)
(* Approval is one transaction; admission and the creation of a request    *)
(* check first and write later, so calls interleave between the two.  Each *)
(* answer to the client can be lost, and either side can die.              *)
(***************************************************************************)
EXTENDS Integers, FiniteSets

CONSTANTS
    Name,         \* names a member may carry
    Req,          \* join requests
    Call,         \* handler tasks that can be in flight together
    MbMax,        \* bound on membership tokens
    RightMax,     \* bound on admission rights ever minted
    PendingMax,   \* MAX_PENDING_JOIN_REQUESTS
    KnockMax      \* JOIN_CREATE_MAX_IN_WINDOW

ASSUME AdmissionAssumption ==
    /\ IsFiniteSet(Req)
    /\ MbMax \in Nat /\ RightMax \in Nat
    /\ PendingMax \in Nat \ {0} /\ KnockMax \in Nat \ {0}

Mb == 1..MbMax
NoMb == 0

VARIABLES
    rows,      \* the members table, by token
    roster,    \* Hub::members: the tokens the hot copy knows
    requests,  \* the join_requests table
    stock,     \* the admission_stock table
    knocks,    \* join_create_times of the one source address
    calls,     \* where each handler stands
    client     \* what each requester keeps on disk and in hand

admVars == <<rows, roster, requests, stock, knocks, calls, client>>

Idle == [at |-> "idle"]

\* The request's secret at its requester: not yet there, in the state file, lost
\* to a fault, or thrown away because the request was decided.
Secret == {"none", "kept", "lost", "spent"}

AdmTypeOK ==
    /\ rows \in [Mb -> [name : Name, row : {"live", "revoked"}] \cup {[row |-> "none"]}]
    /\ roster \subseteq Mb
    /\ requests \in [Req -> {[status |-> "none"]}
                        \cup [status : {"pending", "approved", "denied", "unstored"}, name : Name,
                              mb : Mb \cup {NoMb}, acked : BOOLEAN]]
    /\ stock \in [fresh : 0..RightMax, expired : 0..RightMax, used : 0..RightMax]
    /\ stock.fresh + stock.expired + stock.used <= RightMax
    /\ knocks \in 0..KnockMax
    /\ calls \in [Call -> {Idle} \cup [at : {"knocked"}, req : Req, name : Name]
                        \cup [at : {"admit"}, name : Name] \cup [at : {"mirror"}, mb : Mb]]
    /\ client \in [Req -> [secret : Secret, hand : Mb \cup {NoMb}, env : Mb \cup {NoMb}]]

AdmInit ==
    /\ rows = [m \in Mb |-> [row |-> "none"]]
    /\ roster = {}
    /\ requests = [r \in Req |-> [status |-> "none"]]
    /\ stock = [fresh |-> 0, expired |-> 0, used |-> 0]
    /\ knocks = 0
    /\ calls = [c \in Call |-> Idle]
    /\ client = [r \in Req |-> [secret |-> "none", hand |-> NoMb, env |-> NoMb]]

-----------------------------------------------------------------------------
(* Queries *)

LiveRows == {m \in Mb : rows[m].row = "live"}
FreshMb == {m \in Mb : rows[m].row = "none"}

\* A minted token is as good as any other that was never used.
NewMb == CHOOSE m \in FreshMb : TRUE

\* load_members
LoadedMembers == LiveRows

\* member_by_name: the hot copy decides.
NameKnown(name) == \E m \in roster : rows[m].name = name

\* The check of approve_join_request_atomic: the table decides.
NameInUse(name) == \E m \in LiveRows : rows[m].name = name

Pending == {r \in Req : requests[r].status = "pending"}

\* has_pending_join_request_named
NamePending(name) == \E r \in Pending : requests[r].name = name

\* whoami, for a token read by its holder: it answers "member" for a live row
\* that the hot copy knows.
Verifies(m) == m \in LiveRows \cap roster

\* add_member, insert_principal_credential
MemberRow(name) == [row |-> "live", name |-> name]

-----------------------------------------------------------------------------
(* An outsider asks *)

\* join_request_rate_ok records the attempt that it lets through.
RateOk == knocks < KnockMax

\* create_join_request up to the insert; a taken name or a full list is refused.
Knock(c, r, name) ==
    /\ calls[c] = Idle
    /\ requests[r].status = "none"
    /\ \A d \in Call : calls[d].at = "knocked" => calls[d].req # r
    /\ RateOk
    /\ knocks' = knocks + 1
    /\ IF NameKnown(name) \/ NamePending(name) \/ Cardinality(Pending) >= PendingMax
       THEN UNCHANGED calls
       ELSE calls' = [calls EXCEPT ![c] = [at |-> "knocked", req |-> r, name |-> name]]
    /\ UNCHANGED <<rows, roster, requests, stock, client>>

\* The insert, whose failure is ignored, the announcement in the home loca and
\* the answer; the requester writes the secret down unless it never arrives, and
\* nothing else names the request to it.
CreateRequest(c) ==
    /\ calls[c].at = "knocked"
    /\ \E stored \in {"pending", "unstored"} :
         requests' = [requests EXCEPT ![calls[c].req] =
                        [status |-> stored, name |-> calls[c].name, mb |-> NoMb, acked |-> FALSE]]
    /\ \E secret \in {"kept", "lost"} : client' = [client EXCEPT ![calls[c].req].secret = secret]
    /\ calls' = [calls EXCEPT ![c] = Idle]
    /\ UNCHANGED <<rows, roster, stock, knocks>>

WindowPasses ==
    /\ knocks > 0
    /\ knocks' = knocks - 1
    /\ UNCHANGED <<rows, roster, requests, stock, calls, client>>

-----------------------------------------------------------------------------
(* The master decides *)

\* mint_admission_stock: all rights of the batch or none.
MintRights(k) ==
    /\ stock.fresh + stock.expired + stock.used + k <= RightMax
    /\ stock' = [stock EXCEPT !.fresh = @ + k]
    /\ UNCHANGED <<rows, roster, requests, knocks, calls, client>>

RightExpires ==
    /\ stock.fresh > 0
    /\ stock' = [fresh |-> stock.fresh - 1, expired |-> stock.expired + 1, used |-> stock.used]
    /\ UNCHANGED <<rows, roster, requests, knocks, calls, client>>

(* Mutant: the right is looked at and not taken. *)
RightKept == stock

\* The right that pays for an approval.
RightTaken == [fresh |-> stock.fresh - 1, expired |-> stock.expired, used |-> stock.used + 1]

\* The guard of the approval's first statement.
Claimable(r) == requests[r].status = "pending"

\* approve_join_request_atomic: status, name, right, member and request change
\* in one transaction or not at all.
Approve(c, r) ==
    /\ calls[c] = Idle
    /\ Claimable(r)
    /\ ~NameInUse(requests[r].name)
    /\ stock.fresh > 0
    /\ FreshMb # {}
    /\ rows' = [rows EXCEPT ![NewMb] = MemberRow(requests[r].name)]
    /\ requests' = [requests EXCEPT ![r] = [status |-> "approved", name |-> requests[r].name, mb |-> NewMb, acked |-> FALSE]]
    /\ calls' = [calls EXCEPT ![c] = [at |-> "mirror", mb |-> NewMb]]
    /\ stock' = RightTaken
    /\ UNCHANGED <<roster, knocks, client>>

Deny(r) ==
    /\ requests[r].status = "pending"
    /\ requests' = [requests EXCEPT ![r].status = "denied"]
    /\ UNCHANGED <<rows, roster, stock, knocks, calls, client>>

\* admit_member: a known name is answered with its membership.
Admit(c, name) ==
    /\ calls[c] = Idle
    /\ ~NameKnown(name)
    /\ calls' = [calls EXCEPT ![c] = [at |-> "admit", name |-> name]]
    /\ UNCHANGED <<rows, roster, requests, stock, knocks, client>>

AddMember(c) ==
    /\ calls[c].at = "admit"
    /\ \/ /\ FreshMb # {}
          /\ rows' = [rows EXCEPT ![NewMb] = MemberRow(calls[c].name)]
          /\ calls' = [calls EXCEPT ![c] = [at |-> "mirror", mb |-> NewMb]]
       \/ /\ calls' = [calls EXCEPT ![c] = Idle]
          /\ UNCHANGED rows
    /\ UNCHANGED <<roster, requests, stock, knocks, client>>

\* The committed row enters Hub::members.
MirrorMember(c) ==
    /\ calls[c].at = "mirror"
    /\ roster' = roster \cup {calls[c].mb}
    /\ calls' = [calls EXCEPT ![c] = Idle]
    /\ UNCHANGED <<rows, requests, stock, knocks, client>>

-----------------------------------------------------------------------------
(* The requester: do_onboard *)

(* Mutant: the first delivery closes the window. *)
BootstrapOnce(r) ==
    /\ client[r].secret = "kept" /\ requests[r].status = "approved" /\ requests[r].mb # NoMb
    /\ client' = [client EXCEPT ![r].hand = requests[r].mb]
    /\ requests' = [requests EXCEPT ![r].mb = NoMb]
    /\ UNCHANGED <<rows, roster, stock, knocks, calls>>

\* claim_join_request_bootstrap: the token again on every call until the ack.
Bootstrap(r) ==
    /\ client[r].secret = "kept"
    /\ requests[r].status = "approved" /\ requests[r].mb # NoMb /\ ~requests[r].acked
    /\ client' = [client EXCEPT ![r].hand = requests[r].mb]
    /\ UNCHANGED <<rows, roster, requests, stock, knocks, calls>>

\* The token is verified, then written to the identity file.
Persist(r) ==
    /\ client[r].hand # NoMb /\ Verifies(client[r].hand)
    /\ client' = [client EXCEPT ![r].env = client[r].hand]
    /\ UNCHANGED <<rows, roster, requests, stock, knocks, calls>>

\* finalize, after the file was read back and verified; a repeated ack answers
\* as the first.  The secret is thrown away when the answer arrives.
Ack(r) ==
    /\ client[r].secret = "kept"
    /\ client[r].env # NoMb /\ Verifies(client[r].env)
    /\ requests[r].status = "approved"
    /\ requests' = [requests EXCEPT ![r] = [status |-> "approved", name |-> requests[r].name, mb |-> NoMb, acked |-> TRUE]]
    /\ \E secret \in {"kept", "spent"} :
         client' = [client EXCEPT ![r] = [secret |-> secret, hand |-> NoMb, env |-> client[r].env]]
    /\ UNCHANGED <<rows, roster, stock, knocks, calls>>

\* A poll that finds the request denied, or not at all, forgets it.
GiveUp(r) ==
    /\ client[r].secret = "kept"
    /\ requests[r].status \in {"denied", "unstored"}
    /\ client' = [client EXCEPT ![r].secret = "spent"]
    /\ UNCHANGED <<rows, roster, requests, stock, knocks, calls>>

\* join_request_view answers None to a failing read too: the poll is told 404 and
\* throws the secret of a request away that is still there.
ViewFails(r) ==
    /\ client[r].secret = "kept" /\ client[r].hand = NoMb
    /\ client' = [client EXCEPT ![r].secret = "lost"]
    /\ UNCHANGED <<rows, roster, requests, stock, knocks, calls>>

ClientDies(r) ==
    /\ client[r].hand # NoMb
    /\ client' = [client EXCEPT ![r].hand = NoMb]
    /\ UNCHANGED <<rows, roster, requests, stock, knocks, calls>>

-----------------------------------------------------------------------------
\* The server dies and Hub::build loads the tables.
AdmRestart ==
    /\ roster' = LoadedMembers
    /\ calls' = [c \in Call |-> Idle]
    /\ knocks' = 0
    /\ UNCHANGED <<rows, requests, stock, client>>

ClientStep(r) == Bootstrap(r) \/ Persist(r) \/ Ack(r) \/ GiveUp(r) \/ ViewFails(r)

AdmNext ==
    \/ \E c \in Call, r \in Req, name \in Name : Knock(c, r, name)
    \/ \E c \in Call : CreateRequest(c) \/ AddMember(c) \/ MirrorMember(c)
    \/ \E c \in Call, r \in Req : Approve(c, r)
    \/ \E c \in Call, name \in Name : Admit(c, name)
    \/ \E r \in Req : Deny(r) \/ ClientStep(r) \/ ClientDies(r)
    \/ \E k \in 1..RightMax : MintRights(k)
    \/ RightExpires \/ WindowPasses

AdmSpec == AdmInit /\ [][AdmNext \/ AdmRestart]_admVars

-----------------------------------------------------------------------------
(* Properties *)

\* Whatever answers to bootstrap and ack are lost and whoever dies, the token of an
\* approved request is on the requester's disk, in its own name, before the server
\* erases its copy, and until then the copy is there and the requester still has
\* the secret that fetches it (claim_join_request_bootstrap and
\* ack_join_request_bootstrap against do_onboard); unless the secret was lost
\* with the answer to its creation or to a failing read that said 404.
BootstrapIsNeverLost ==
    \A r \in Req : requests[r].status = "approved" =>
        IF requests[r].mb = NoMb
        THEN client[r].env # NoMb /\ rows[client[r].env].name = requests[r].name
        ELSE ~requests[r].acked /\ client[r].secret \in {"kept", "lost"}

\* One right buys one membership: racing, repeated and failing approvals leave
\* neither a burnt right nor a member nobody paid for
\* (approve_join_request_atomic).
RightsBuyMembers ==
    /\ stock.used = Cardinality({r \in Req : requests[r].status = "approved"})
    /\ \A r, s \in Req : /\ requests[r].status = "approved" /\ requests[s].status = "approved"
                         /\ requests[r].mb = requests[s].mb /\ requests[r].mb # NoMb
                         => r = s

=============================================================================
