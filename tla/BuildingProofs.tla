--------------------------- MODULE BuildingProofs ---------------------------
(***************************************************************************)
(* Admission and Building, for any number of names, requests, rooms,       *)
(* davets, sessions and handler tasks: a right buys one membership, an     *)
(* approved requester never loses its token, and what suspension and       *)
(* revocation take away stays away.                                        *)
(***************************************************************************)
EXTENDS Building, FiniteSetTheorems, SequenceTheorems, TLAPS

Approved == {r \in Req : requests[r].status = "approved"}

(* One right was used for each approval. *)
RightsUsed == stock.used = Cardinality(Approved)

(* The token of a member has the name that was asked for. *)
Carries(m, name) == rows[m].row # "none" /\ rows[m].name = name

(* The token that waits for its requester is a row of its own. *)
TokenWaits ==
    /\ \A r \in Approved : requests[r].mb # NoMb => Carries(requests[r].mb, requests[r].name)
    /\ \A r, s \in Approved : requests[r].mb = requests[s].mb /\ requests[r].mb # NoMb => r = s

(* What the requester has in hand or on disk is its own membership. *)
HoldsOwn ==
    \A r \in Req : /\ client[r].hand # NoMb => r \in Approved /\ Carries(client[r].hand, requests[r].name)
                   /\ client[r].env # NoMb => r \in Approved /\ Carries(client[r].env, requests[r].name)

(* The window closes behind a token on disk. *)
ClosedBehind == \A r \in Approved : requests[r].mb = NoMb => client[r].env # NoMb

(* Calls about to insert a request have one of their own. *)
KnocksApart ==
    /\ \A c \in Call : calls[c].at = "knocked" => requests[calls[c].req].status = "none"
    /\ \A c, d \in Call : calls[c].at = "knocked" /\ calls[d].at = "knocked" /\ calls[c].req = calls[d].req => c = d

AdmInv == AdmTypeOK /\ RightsUsed /\ TokenWaits /\ HoldsOwn /\ ClosedBehind /\ KnocksApart

-----------------------------------------------------------------------------
(* Types *)

MemberState == [name : Name, row : {"live", "revoked"}] \cup {[row |-> "none"]}
RequestState ==
    {[status |-> "none"]}
        \cup [status : {"pending", "approved", "denied", "unstored"}, name : Name, mb : Mb \cup {NoMb}, acked : BOOLEAN]
CallState ==
    {Idle} \cup [at : {"knocked"}, req : Req, name : Name] \cup [at : {"admit"}, name : Name] \cup [at : {"mirror"}, mb : Mb]
ClientState == [secret : Secret, hand : Mb \cup {NoMb}, env : Mb \cup {NoMb}]

(* Members, requests and calls, from the type invariant. *)
LEMMA AdmTypeParts ==
    ASSUME AdmTypeOK
    PROVE  /\ rows \in [Mb -> MemberState] /\ roster \subseteq Mb
           /\ requests \in [Req -> RequestState]
           /\ calls \in [Call -> CallState]
           /\ client \in [Req -> ClientState]
           /\ stock \in [fresh : Nat, expired : Nat, used : Nat]
           /\ stock.fresh + stock.expired + stock.used <= RightMax
           /\ knocks \in 0..KnockMax
  BY AdmissionAssumption DEF AdmTypeOK, MemberState, RequestState, CallState, ClientState

(* And back. *)
LEMMA AdmTypeWhole ==
    ASSUME rows \in [Mb -> MemberState], roster \subseteq Mb, requests \in [Req -> RequestState],
           calls \in [Call -> CallState], client \in [Req -> ClientState],
           stock \in [fresh : Nat, expired : Nat, used : Nat], stock.fresh + stock.expired + stock.used <= RightMax,
           knocks \in 0..KnockMax
    PROVE  AdmTypeOK
<1>1. stock \in [fresh : 0..RightMax, expired : 0..RightMax, used : 0..RightMax]
  BY AdmissionAssumption
<1> QED
  BY <1>1 DEF AdmTypeOK, MemberState, RequestState, CallState, ClientState

(* A call carries what its stage needs. *)
LEMMA CallFields ==
    ASSUME AdmTypeOK, NEW c \in Call
    PROVE  /\ calls[c].at = "knocked" => calls[c].req \in Req /\ calls[c].name \in Name
           /\ calls[c].at = "admit" => calls[c].name \in Name
           /\ calls[c].at = "mirror" => calls[c].mb \in Mb
           /\ calls[c] = Idle <=> calls[c].at = "idle"
  BY DEF AdmTypeOK, Idle

(* So does a request once it exists. *)
LEMMA RequestFields ==
    ASSUME AdmTypeOK, NEW r \in Req, requests[r].status # "none"
    PROVE  /\ requests[r] \in [status : {"pending", "approved", "denied", "unstored"}, name : Name,
                               mb : Mb \cup {NoMb}, acked : BOOLEAN]
           /\ requests[r].name \in Name /\ requests[r].mb \in Mb \cup {NoMb} /\ requests[r].acked \in BOOLEAN
<1>1. requests[r] \in [status : {"pending", "approved", "denied", "unstored"}, name : Name,
                       mb : Mb \cup {NoMb}, acked : BOOLEAN]
  BY DEF AdmTypeOK
<1> QED
  BY <1>1

(* The new token is one that was never used. *)
LEMMA NewMbIsFresh ==
    ASSUME FreshMb # {}
    PROVE  NewMb \in Mb /\ rows[NewMb].row = "none" /\ NewMb # NoMb
  BY AdmissionAssumption DEF NewMb, FreshMb, Mb, NoMb

(* The states that the calls leave behind. *)
LEMMA AdmStages ==
    /\ \A name \in Name : MemberRow(name) \in MemberState
    /\ Idle \in CallState
    /\ \A r \in Req, name \in Name : [at |-> "knocked", req |-> r, name |-> name] \in CallState
    /\ \A name \in Name : [at |-> "admit", name |-> name] \in CallState
    /\ \A m \in Mb : [at |-> "mirror", mb |-> m] \in CallState
    /\ \A name \in Name, st \in {"pending", "approved", "unstored"}, m \in Mb \cup {NoMb}, a \in BOOLEAN :
         [status |-> st, name |-> name, mb |-> m, acked |-> a] \in RequestState
    /\ \A s \in Secret, h, e \in Mb \cup {NoMb} : [secret |-> s, hand |-> h, env |-> e] \in ClientState
    /\ \A q \in ClientState : q.hand \in Mb \cup {NoMb} /\ q.env \in Mb \cup {NoMb} /\ q.secret \in Secret
  BY DEF MemberState, MemberRow, CallState, RequestState, ClientState

-----------------------------------------------------------------------------
(* Admission *)

(* A member keeps its row and its name while the tables grow. *)
LEMMA CarriesOn ==
    ASSUME AdmTypeOK, FreshMb # {}, NEW name, NEW who, rows' = [rows EXCEPT ![NewMb] = MemberRow(who)], NEW m \in Mb,
           Carries(m, name)
    PROVE  Carries(m, name)' /\ m # NewMb
  BY NewMbIsFresh, AdmTypeParts DEF Carries

(* Calls that look, wait or mirror, and a restart: no table changes. *)
LEMMA LookingKeeps ==
    ASSUME AdmInv, UNCHANGED <<rows, requests, stock, client>>, roster' \subseteq Mb, knocks' \in 0..KnockMax,
           calls' \in [Call -> CallState], KnocksApart'
    PROVE  AdmInv'
<1> USE DEF AdmInv
<1>1. AdmTypeOK'
  BY AdmTypeParts, AdmTypeWhole DEF AdmTypeOK, MemberState, RequestState, CallState, ClientState
<1>2. Approved' = Approved
  BY DEF Approved
<1> QED
  BY <1>1, <1>2 DEF RightsUsed, TokenWaits, HoldsOwn, ClosedBehind, Carries

(* The calls that only look, and a restart, keep the invariant. *)
LEMMA LookSteps ==
    ASSUME AdmInv,
           \/ \E c \in Call, r \in Req, name \in Name : Knock(c, r, name)
           \/ \E c \in Call, name \in Name : Admit(c, name)
           \/ \E c \in Call : MirrorMember(c)
           \/ WindowPasses \/ AdmRestart
    PROVE  AdmInv'
<1>0. /\ AdmTypeOK /\ KnocksApart /\ calls \in [Call -> CallState] /\ roster \subseteq Mb /\ knocks \in 0..KnockMax
      /\ KnockMax \in Nat /\ Idle.at = "idle"
  BY AdmTypeParts, AdmissionAssumption DEF AdmInv, Idle
<1>1. ASSUME NEW c \in Call, NEW r \in Req, NEW name \in Name, Knock(c, r, name)
      PROVE  AdmInv'
  <2>1. calls' \in [Call -> CallState] /\ knocks' \in 0..KnockMax
    BY <1>0, <1>1, AdmStages DEF Knock, RateOk
  <2>2. KnocksApart'
    <3>1. CASE calls' = calls
      BY <1>0, <1>1, <3>1 DEF Knock, KnocksApart
    <3>2. CASE calls' = [calls EXCEPT ![c] = [at |-> "knocked", req |-> r, name |-> name]]
      <4>1. /\ calls'[c].at = "knocked" /\ calls'[c].req = r /\ requests[r].status = "none" /\ requests' = requests
            /\ \A d \in Call : d # c => calls'[d] = calls[d]
            /\ \A d \in Call : calls[d].at = "knocked" => calls[d].req # r
        BY <1>0, <1>1, <3>2 DEF Knock
      <4> QED
        BY <1>0, <4>1 DEF KnocksApart
    <3> QED
      BY <1>1, <3>1, <3>2 DEF Knock
  <2> QED
    BY <1>0, <1>1, <2>1, <2>2, LookingKeeps DEF Knock
<1>2. ASSUME NEW c \in Call, NEW name \in Name, Admit(c, name)
      PROVE  AdmInv'
  <2>1. calls' \in [Call -> CallState] /\ calls'[c].at = "admit" /\ \A d \in Call : d # c => calls'[d] = calls[d]
    BY <1>0, <1>2, AdmStages DEF Admit
  <2>2. KnocksApart'
    BY <1>0, <1>2, <2>1 DEF Admit, KnocksApart
  <2> QED
    BY <1>0, <1>2, <2>1, <2>2, LookingKeeps DEF Admit
<1>3. ASSUME NEW c \in Call, MirrorMember(c)
      PROVE  AdmInv'
  <2>1. /\ calls' \in [Call -> CallState] /\ calls'[c].at = "idle" /\ \A d \in Call : d # c => calls'[d] = calls[d]
        /\ roster' \subseteq Mb
    BY <1>0, <1>3, AdmStages, CallFields DEF MirrorMember
  <2>2. KnocksApart'
    BY <1>0, <1>3, <2>1 DEF MirrorMember, KnocksApart
  <2> QED
    BY <1>0, <1>3, <2>1, <2>2, LookingKeeps DEF MirrorMember
<1>4. CASE WindowPasses
  <2>1. KnocksApart' /\ knocks' \in 0..KnockMax
    BY <1>0, <1>4 DEF WindowPasses, KnocksApart
  <2> QED
    BY <1>0, <1>4, <2>1, LookingKeeps DEF WindowPasses
<1>5. CASE AdmRestart
  <2>1. /\ calls' \in [Call -> CallState] /\ \A c \in Call : calls'[c].at = "idle"
        /\ roster' \subseteq Mb /\ knocks' \in 0..KnockMax
    BY <1>0, <1>5, AdmStages DEF AdmRestart, LoadedMembers, LiveRows
  <2>2. KnocksApart'
    BY <2>1 DEF KnocksApart
  <2> QED
    BY <1>5, <2>1, <2>2, LookingKeeps DEF AdmRestart
<1> QED
  BY <1>1, <1>2, <1>3, <1>4, <1>5

(* A membership without a request, and the stock of rights. *)
LEMMA StockSteps ==
    ASSUME AdmInv,
           \/ \E c \in Call : AddMember(c)
           \/ \E k \in 1..RightMax : MintRights(k)
           \/ RightExpires
    PROVE  AdmInv'
<1> USE DEF AdmInv
<1>0. /\ rows \in [Mb -> MemberState] /\ roster \subseteq Mb /\ requests \in [Req -> RequestState]
      /\ calls \in [Call -> CallState] /\ client \in [Req -> ClientState]
      /\ stock \in [fresh : Nat, expired : Nat, used : Nat] /\ stock.fresh + stock.expired + stock.used <= RightMax
      /\ knocks \in 0..KnockMax /\ RightMax \in Nat /\ Idle.at = "idle"
  BY AdmTypeParts, AdmissionAssumption DEF Idle
<1>1. ASSUME NEW c \in Call, AddMember(c)
      PROVE  AdmInv'
  <2>0. calls[c].name \in Name /\ UNCHANGED <<roster, requests, stock, knocks, client>>
    BY <1>1, CallFields DEF AddMember
  <2>1. calls' \in [Call -> CallState] /\ calls'[c].at # "knocked" /\ \A d \in Call : d # c => calls'[d] = calls[d]
    BY <1>0, <1>1, AdmStages, NewMbIsFresh DEF AddMember
  <2>2. KnocksApart'
    BY <2>0, <2>1 DEF KnocksApart
  <2>3. rows' \in [Mb -> MemberState] /\ \A m \in Mb : \A name : Carries(m, name) => Carries(m, name)'
    <3>1. CASE rows' = rows
      BY <1>0, <3>1 DEF Carries
    <3>2. CASE FreshMb # {} /\ rows' = [rows EXCEPT ![NewMb] = MemberRow(calls[c].name)]
      BY <1>0, <2>0, <3>2, AdmStages, CarriesOn, NewMbIsFresh
    <3> QED
      BY <1>1, <3>1, <3>2 DEF AddMember
  <2>4. AdmTypeOK'
    BY <1>0, <2>0, <2>1, <2>3, AdmTypeWhole DEF AdmTypeOK, MemberState, RequestState, CallState, ClientState
  <2>5. Approved' = Approved
    BY <2>0 DEF Approved
  <2>6. \A r \in Approved : requests[r].mb \in Mb \cup {NoMb}
    BY RequestFields DEF Approved
  <2>7. \A r \in Req : client[r].hand \in Mb \cup {NoMb} /\ client[r].env \in Mb \cup {NoMb}
    BY <1>0, AdmStages
  <2>8. TokenWaits'
    BY <2>0, <2>3, <2>5, <2>6 DEF TokenWaits
  <2>9. HoldsOwn'
    BY <2>0, <2>3, <2>5, <2>7 DEF HoldsOwn
  <2> QED
    BY <2>0, <2>2, <2>4, <2>5, <2>8, <2>9 DEF RightsUsed, ClosedBehind
<1>2. ASSUME UNCHANGED <<rows, roster, requests, knocks, calls, client>>,
             stock' \in [fresh : Nat, expired : Nat, used : Nat], stock'.fresh + stock'.expired + stock'.used <= RightMax,
             stock'.used = stock.used
      PROVE  AdmInv'
  <2>1. AdmTypeOK'
    BY <1>0, <1>2, AdmTypeWhole DEF AdmTypeOK, MemberState, RequestState, CallState, ClientState
  <2>2. Approved' = Approved
    BY <1>2 DEF Approved
  <2> QED
    BY <1>2, <2>1, <2>2 DEF RightsUsed, TokenWaits, HoldsOwn, ClosedBehind, KnocksApart, Carries
<1>3. ASSUME NEW k \in 1..RightMax, MintRights(k)
      PROVE  AdmInv'
  <2>1. /\ stock' \in [fresh : Nat, expired : Nat, used : Nat] /\ stock'.used = stock.used
        /\ stock'.fresh = stock.fresh + k /\ stock'.expired = stock.expired
    BY <1>0, <1>3 DEF MintRights
  <2>2. stock'.fresh + stock'.expired + stock'.used <= RightMax
    BY <1>0, <1>3, <2>1 DEF MintRights
  <2> QED
    BY <1>2, <1>3, <2>1, <2>2 DEF MintRights
<1>4. CASE RightExpires
  <2>1. /\ stock' \in [fresh : Nat, expired : Nat, used : Nat] /\ stock'.used = stock.used
        /\ stock'.fresh = stock.fresh - 1 /\ stock'.expired = stock.expired + 1
    BY <1>0, <1>4 DEF RightExpires
  <2>2. stock'.fresh + stock'.expired + stock'.used <= RightMax
    BY <1>0, <2>1
  <2> QED
    BY <1>2, <1>4, <2>1, <2>2 DEF RightExpires
<1> QED
  BY <1>1, <1>3, <1>4

(* The row of a new request, in the table or not. *)
LEMMA CreateKeeps ==
    ASSUME AdmInv, NEW c \in Call, CreateRequest(c)
    PROVE  AdmInv'
<1> USE DEF AdmInv
<1>0. /\ rows \in [Mb -> MemberState] /\ roster \subseteq Mb /\ requests \in [Req -> RequestState]
      /\ calls \in [Call -> CallState] /\ client \in [Req -> ClientState]
      /\ stock \in [fresh : Nat, expired : Nat, used : Nat] /\ stock.fresh + stock.expired + stock.used <= RightMax
      /\ knocks \in 0..KnockMax /\ Idle.at = "idle"
  BY AdmTypeParts DEF Idle
<1>1. PICK r \in Req : /\ r = calls[c].req /\ calls[c].at = "knocked" /\ calls[c].name \in Name /\ requests[r].status = "none"
  BY CallFields DEF CreateRequest, KnocksApart
<1>2. PICK st \in {"pending", "unstored"} :
        requests' = [requests EXCEPT ![r] = [status |-> st, name |-> calls[c].name, mb |-> NoMb, acked |-> FALSE]]
  BY <1>1 DEF CreateRequest
<1>3. /\ client' \in [Req -> ClientState]
      /\ \A s \in Req : client'[s].hand = client[s].hand /\ client'[s].env = client[s].env
  <2>1. PICK secret \in {"kept", "lost"} : client' = [client EXCEPT ![r].secret = secret]
    BY <1>1 DEF CreateRequest
  <2> QED
    BY <1>0, <2>1 DEF ClientState, Secret
<1>4. /\ UNCHANGED <<rows, roster, stock, knocks>> /\ calls' = [calls EXCEPT ![c] = Idle]
      /\ calls' \in [Call -> CallState] /\ requests' \in [Req -> RequestState]
  BY <1>0, <1>1, <1>2, AdmStages DEF CreateRequest
<1>5. /\ requests'[r].status \in {"pending", "unstored"} /\ \A s \in Req : s # r => requests'[s] = requests[s]
      /\ calls'[c].at = "idle" /\ \A d \in Call : d # c => calls'[d] = calls[d]
  BY <1>0, <1>2, <1>4
<1>6. AdmTypeOK'
  BY <1>0, <1>3, <1>4, AdmTypeWhole DEF AdmTypeOK, MemberState, RequestState, CallState, ClientState
<1>7. Approved' = Approved /\ r \notin Approved /\ \A s \in Approved : s \in Req /\ requests'[s] = requests[s]
  BY <1>1, <1>5 DEF Approved
<1>8. KnocksApart'
  <2>1. \A d \in Call : d # c /\ calls[d].at = "knocked" => calls[d].req \in Req /\ calls[d].req # r
    BY <1>1, CallFields DEF KnocksApart
  <2> QED
    BY <1>5, <2>1 DEF KnocksApart
<1>9. RightsUsed' /\ TokenWaits'
  BY <1>4, <1>7 DEF RightsUsed, TokenWaits, Carries
<1>10. HoldsOwn' /\ ClosedBehind'
  BY <1>3, <1>4, <1>7 DEF HoldsOwn, ClosedBehind, Carries
<1> QED
  BY <1>6, <1>8, <1>9, <1>10

(* Approval: one right, one member, one request, in one step. *)
LEMMA ApproveKeeps ==
    ASSUME AdmInv, NEW c \in Call, NEW r \in Req, Approve(c, r)
    PROVE  AdmInv'
<1> USE DEF AdmInv
<1>0. /\ rows \in [Mb -> MemberState] /\ roster \subseteq Mb /\ requests \in [Req -> RequestState]
      /\ calls \in [Call -> CallState] /\ client \in [Req -> ClientState]
      /\ stock \in [fresh : Nat, expired : Nat, used : Nat] /\ stock.fresh + stock.expired + stock.used <= RightMax
      /\ knocks \in 0..KnockMax
  BY AdmTypeParts
<1>1. PICK m \in Mb : m = NewMb /\ rows[m].row = "none" /\ m # NoMb
  BY NewMbIsFresh DEF Approve
<1>2. PICK name \in Name : name = requests[r].name
  BY RequestFields DEF Approve, Claimable
<1>3. /\ requests[r].status = "pending" /\ stock.fresh > 0 /\ UNCHANGED <<roster, knocks, client>>
      /\ rows' = [rows EXCEPT ![m] = MemberRow(name)]
      /\ requests' = [requests EXCEPT ![r] = [status |-> "approved", name |-> name, mb |-> m, acked |-> FALSE]]
      /\ calls' = [calls EXCEPT ![c] = [at |-> "mirror", mb |-> m]]
      /\ stock' = [fresh |-> stock.fresh - 1, expired |-> stock.expired, used |-> stock.used + 1]
  BY <1>1, <1>2 DEF Approve, Claimable, RightTaken
<1>4. /\ rows' \in [Mb -> MemberState] /\ requests' \in [Req -> RequestState] /\ calls' \in [Call -> CallState]
  BY <1>0, <1>3, AdmStages
<1>5. /\ stock' \in [fresh : Nat, expired : Nat, used : Nat] /\ stock'.used = stock.used + 1
      /\ stock'.fresh + stock'.expired + stock'.used <= RightMax
  <2>1. stock.fresh \in Nat /\ stock.expired \in Nat /\ stock.used \in Nat
    BY <1>0
  <2> QED
    BY <1>0, <1>3, <2>1, AdmissionAssumption
<1>6. AdmTypeOK'
  <2>1. /\ stock'.fresh \in Nat /\ stock'.expired \in Nat /\ stock'.used \in Nat
        /\ stock' = [fresh |-> stock'.fresh, expired |-> stock'.expired, used |-> stock'.used]
    BY <1>5
  <2>2. stock'.fresh \in 0..RightMax /\ stock'.expired \in 0..RightMax /\ stock'.used \in 0..RightMax
    BY <1>5, <2>1, AdmissionAssumption
  <2>3. stock' \in [fresh : 0..RightMax, expired : 0..RightMax, used : 0..RightMax]
    BY <2>1, <2>2
  <2> QED
    BY <1>0, <1>3, <1>4, <1>5, <2>3 DEF AdmTypeOK, MemberState, RequestState, CallState, ClientState
<1>7. /\ requests'[r].status = "approved" /\ requests'[r].mb = m /\ requests'[r].name = name
      /\ \A s \in Req : s # r => requests'[s] = requests[s]
      /\ calls'[c].at = "mirror" /\ \A d \in Call : d # c => calls'[d] = calls[d]
  BY <1>0, <1>3
<1>8. Approved' = Approved \cup {r} /\ r \notin Approved
  BY <1>3, <1>7 DEF Approved
<1>9. RightsUsed'
  <2>1. IsFiniteSet(Approved)
    BY FS_Subset, AdmissionAssumption DEF Approved
  <2>2. Cardinality(Approved \cup {r}) = Cardinality(Approved) + 1
    BY <1>8, <2>1, FS_AddElement
  <2> QED
    BY <1>5, <1>8, <2>2 DEF RightsUsed
<1>10. /\ \A x \in Mb : \A n : Carries(x, n) => Carries(x, n)' /\ x # m
       /\ Carries(m, name)'
  BY <1>0, <1>1, <1>3 DEF Carries, MemberRow
<1>11. \A s \in Approved : /\ s \in Req /\ s # r /\ requests[s].mb \in Mb \cup {NoMb}
                           /\ requests'[s] = requests[s]
  BY <1>7, <1>8, RequestFields DEF Approved
<1>12. TokenWaits'
  <2>1. \A s \in Approved : requests[s].mb # NoMb => Carries(requests[s].mb, requests[s].name)' /\ requests[s].mb # m
    BY <1>10, <1>11 DEF TokenWaits
  <2> QED
    BY <1>1, <1>7, <1>8, <1>10, <1>11, <2>1 DEF TokenWaits
<1>13. HoldsOwn'
  <2>1. \A s \in Req : client[s].hand \in Mb \cup {NoMb} /\ client[s].env \in Mb \cup {NoMb}
    BY <1>0, AdmStages
  <2> QED
    BY <1>3, <1>8, <1>10, <1>11, <2>1 DEF HoldsOwn
<1>14. ClosedBehind'
  BY <1>1, <1>3, <1>7, <1>8, <1>11 DEF ClosedBehind
<1>15. KnocksApart'
  BY <1>3, <1>7, CallFields DEF KnocksApart
<1> QED
  BY <1>6, <1>9, <1>12, <1>13, <1>14, <1>15

(* A denial, and what the requester does. *)
LEMMA RequesterKeeps ==
    ASSUME AdmInv, NEW r \in Req, Deny(r) \/ ClientStep(r) \/ ClientDies(r)
    PROVE  AdmInv'
<1> USE DEF AdmInv
<1>0. /\ rows \in [Mb -> MemberState] /\ roster \subseteq Mb /\ requests \in [Req -> RequestState]
      /\ calls \in [Call -> CallState] /\ client \in [Req -> ClientState]
      /\ stock \in [fresh : Nat, expired : Nat, used : Nat] /\ stock.fresh + stock.expired + stock.used <= RightMax
      /\ knocks \in 0..KnockMax
  BY AdmTypeParts
<1>1. UNCHANGED <<rows, roster, stock, knocks, calls>>
  BY DEF Deny, ClientStep, Bootstrap, Persist, Ack, GiveUp, ViewFails, ClientDies
<1>2. ASSUME requests' \in [Req -> RequestState], client' \in [Req -> ClientState]
      PROVE  AdmTypeOK'
  BY <1>0, <1>1, <1>2, AdmTypeWhole DEF AdmTypeOK, MemberState, RequestState, CallState, ClientState
<1>3. CASE Deny(r)
  <2>0. requests[r].status = "pending" /\ client' = client /\ requests' = [requests EXCEPT ![r].status = "denied"]
    BY <1>3 DEF Deny
  <2>1. /\ requests' \in [Req -> RequestState] /\ requests'[r].status = "denied"
        /\ \A s \in Req : s # r => requests'[s] = requests[s]
    BY <1>0, <2>0, RequestFields DEF RequestState
  <2>2. Approved' = Approved /\ \A s \in Approved : s \in Req /\ requests'[s] = requests[s]
    BY <2>0, <2>1 DEF Approved
  <2>3. KnocksApart'
    BY <1>1, <2>0, <2>1, CallFields DEF KnocksApart
  <2> QED
    BY <1>0, <1>1, <1>2, <2>0, <2>1, <2>2, <2>3 DEF RightsUsed, TokenWaits, HoldsOwn, ClosedBehind, Carries
<1>4. ASSUME requests' = requests, client' \in [Req -> ClientState], \A s \in Req : s # r => client'[s] = client[s],
             client'[r].hand # NoMb => client'[r].hand = client[r].hand \/ (r \in Approved /\ Carries(client'[r].hand, requests[r].name)),
             client'[r].env = client[r].env \/ (r \in Approved /\ client'[r].env # NoMb /\ Carries(client'[r].env, requests[r].name))
      PROVE  AdmInv'
  <2>1. Approved' = Approved
    BY <1>4 DEF Approved
  <2>2. HoldsOwn'
    BY <1>1, <1>4, <2>1 DEF HoldsOwn, Carries
  <2>3. ClosedBehind'
    BY <1>4, <2>1 DEF ClosedBehind, Approved
  <2> QED
    BY <1>0, <1>1, <1>2, <1>4, <2>1, <2>2, <2>3 DEF RightsUsed, TokenWaits, KnocksApart, Carries
<1>5. CASE Bootstrap(r)
  <2>1. /\ r \in Approved /\ requests[r].mb # NoMb /\ requests[r].mb \in Mb /\ requests' = requests
        /\ client' = [client EXCEPT ![r].hand = requests[r].mb]
    BY <1>5, RequestFields DEF Bootstrap, Approved
  <2>2. /\ client' \in [Req -> ClientState] /\ client'[r].hand = requests[r].mb /\ client'[r].env = client[r].env
        /\ \A s \in Req : s # r => client'[s] = client[s]
    BY <1>0, <2>1 DEF ClientState
  <2> QED
    BY <1>4, <2>1, <2>2 DEF TokenWaits
<1>6. CASE Persist(r)
  <2>1. /\ client[r].hand # NoMb /\ client[r].hand \in Mb \cup {NoMb} /\ requests' = requests
        /\ client' = [client EXCEPT ![r].env = client[r].hand]
    BY <1>0, <1>6, AdmStages DEF Persist
  <2>2. /\ client' \in [Req -> ClientState] /\ client'[r].env = client[r].hand /\ client'[r].hand = client[r].hand
        /\ \A s \in Req : s # r => client'[s] = client[s]
    BY <1>0, <2>1 DEF ClientState
  <2> QED
    BY <1>4, <2>1, <2>2 DEF HoldsOwn
<1>7. CASE Ack(r)
  <2>1. /\ requests[r].status = "approved" /\ client[r].env # NoMb /\ client[r].env \in Mb \cup {NoMb}
        /\ requests[r].name \in Name
        /\ requests' = [requests EXCEPT ![r] = [status |-> "approved", name |-> requests[r].name, mb |-> NoMb, acked |-> TRUE]]
        /\ \E secret \in {"kept", "spent"} : client' = [client EXCEPT ![r] = [secret |-> secret, hand |-> NoMb, env |-> client[r].env]]
    BY <1>0, <1>7, AdmStages, RequestFields DEF Ack
  <2>2. /\ requests' \in [Req -> RequestState] /\ requests'[r].status = "approved" /\ requests'[r].mb = NoMb
        /\ requests'[r].name = requests[r].name /\ \A s \in Req : s # r => requests'[s] = requests[s]
    BY <1>0, <2>1, AdmStages
  <2>3. /\ client' \in [Req -> ClientState] /\ client'[r].hand = NoMb /\ client'[r].env = client[r].env
        /\ \A s \in Req : s # r => client'[s] = client[s]
    <3>1. PICK secret \in {"kept", "spent"} : client' = [client EXCEPT ![r] = [secret |-> secret, hand |-> NoMb, env |-> client[r].env]]
      BY <2>1
    <3>2. [secret |-> secret, hand |-> NoMb, env |-> client[r].env] \in ClientState
      BY <2>1, AdmStages DEF Secret
    <3> QED
      BY <1>0, <3>1, <3>2
  <2>4. Approved' = Approved
    BY <2>1, <2>2 DEF Approved
  <2>5. TokenWaits'
    BY <1>1, <2>2, <2>4 DEF TokenWaits, Approved, Carries
  <2>6. HoldsOwn' /\ ClosedBehind'
    BY <1>1, <2>1, <2>2, <2>3, <2>4 DEF HoldsOwn, ClosedBehind, Approved, Carries
  <2>7. KnocksApart'
    BY <1>1, <2>1, <2>2, CallFields DEF KnocksApart
  <2> QED
    BY <1>1, <1>2, <2>2, <2>3, <2>4, <2>5, <2>6, <2>7 DEF RightsUsed
<1>8. CASE GiveUp(r) \/ ViewFails(r) \/ ClientDies(r)
  <2>1. /\ requests' = requests /\ client' \in [Req -> ClientState] /\ \A s \in Req : s # r => client'[s] = client[s]
        /\ client'[r].env = client[r].env /\ (client'[r].hand = client[r].hand \/ client'[r].hand = NoMb)
    <3>1. client[r] \in ClientState
      BY <1>0
    <3>2. CASE GiveUp(r) \/ ViewFails(r)
      BY <1>0, <3>1, <3>2 DEF GiveUp, ViewFails, ClientState, Secret
    <3>3. CASE ClientDies(r)
      BY <1>0, <3>1, <3>3 DEF ClientDies, ClientState
    <3> QED
      BY <1>8, <3>2, <3>3
  <2> QED
    BY <1>4, <2>1
<1> QED
  BY <1>3, <1>5, <1>6, <1>7, <1>8 DEF ClientStep

(* Nobody has asked yet. *)
LEMMA AdmInitially ==
    ASSUME AdmInit
    PROVE  AdmInv
<1>1. AdmTypeOK
  BY AdmissionAssumption DEF AdmInit, AdmTypeOK, Secret
<1>2. Approved = {} /\ Cardinality({}) = 0 /\ stock.used = 0
  BY FS_EmptySet DEF AdmInit, Approved
<1>3. /\ \A c \in Call : calls[c].at = "idle"
      /\ \A r \in Req : client[r].hand = NoMb /\ client[r].env = NoMb
  BY DEF AdmInit, Idle
<1> QED
  BY <1>1, <1>2, <1>3 DEF AdmInv, RightsUsed, TokenWaits, HoldsOwn, ClosedBehind, KnocksApart

(* Every step of admission keeps its invariant. *)
LEMMA AdmStep ==
    ASSUME AdmInv, [AdmNext \/ AdmRestart]_admVars
    PROVE  AdmInv'
<1>1. CASE UNCHANGED admVars
  <2>1. Approved' = Approved
    BY <1>1 DEF admVars, Approved
  <2> QED
    BY <1>1, <2>1 DEF admVars, AdmInv, AdmTypeOK, RightsUsed, TokenWaits, HoldsOwn, ClosedBehind, KnocksApart, Carries
<1>2. CASE AdmNext \/ AdmRestart
  BY <1>2, LookSteps, StockSteps, CreateKeeps, ApproveKeeps, RequesterKeeps DEF AdmNext
<1> QED
  BY <1>1, <1>2

(* The inductive invariant of admission. *)
THEOREM AdmissionInvariant == AdmSpec => []AdmInv
<1>1. AdmInit => AdmInv
  BY AdmInitially
<1>2. AdmInv /\ [AdmNext \/ AdmRestart]_admVars => AdmInv'
  BY AdmStep
<1> QED
  BY <1>1, <1>2, PTL DEF AdmSpec

(* Racing, repeated and failing approvals spend one right on each membership: none *)
(* is burnt, none is spent twice, and no two requests share a token.               *)
THEOREM OneRightOneMember == AdmSpec => []RightsBuyMembers
<1>1. AdmInv => RightsBuyMembers
  BY DEF AdmInv, RightsUsed, TokenWaits, Approved, RightsBuyMembers
<1> QED
  BY <1>1, AdmissionInvariant, PTL

(* A pending request and one whose token waits have a requester that could fetch *)
(* it, but for the two faults.                                                   *)
SecretHeld ==
    \A r \in Req :
        /\ requests[r].status = "pending" => client[r].secret \in {"kept", "lost"}
        /\ requests[r].status = "approved" /\ requests[r].mb # NoMb =>
               ~requests[r].acked /\ client[r].secret \in {"kept", "lost"}

LEMMA SecretStep ==
    ASSUME AdmInv, SecretHeld, [AdmNext \/ AdmRestart]_admVars
    PROVE  SecretHeld'
<1>0. /\ requests \in [Req -> RequestState] /\ client \in [Req -> ClientState]
  BY AdmTypeParts DEF AdmInv
<1>1. ASSUME UNCHANGED <<requests, client>> PROVE SecretHeld'
  BY <1>1 DEF SecretHeld
<1>2. ASSUME NEW r \in Req, NEW row, NEW mine, requests' = [requests EXCEPT ![r] = row], client' = [client EXCEPT ![r] = mine],
             row.status = "pending" => mine.secret \in {"kept", "lost"},
             row.status = "approved" /\ row.mb # NoMb => ~row.acked /\ mine.secret \in {"kept", "lost"}
      PROVE  SecretHeld'
  <2>1. requests'[r] = row /\ client'[r] = mine /\ \A s \in Req : s # r => requests'[s] = requests[s] /\ client'[s] = client[s]
    BY <1>0, <1>2
  <2> QED
    BY <1>2, <2>1 DEF SecretHeld
<1>3. ASSUME NEW c \in Call, CreateRequest(c) PROVE SecretHeld'
  <2>1. PICK r \in Req : r = calls[c].req
    BY <1>3, CallFields DEF CreateRequest, AdmInv
  <2>2. PICK secret \in {"kept", "lost"} : client' = [client EXCEPT ![r].secret = secret]
    BY <1>3, <2>1 DEF CreateRequest
  <2>3. PICK st \in {"pending", "unstored"} :
          requests' = [requests EXCEPT ![r] = [status |-> st, name |-> calls[c].name, mb |-> NoMb, acked |-> FALSE]]
    BY <1>3, <2>1 DEF CreateRequest
  <2>4. client' = [client EXCEPT ![r] = [client[r] EXCEPT !.secret = secret]] /\ [client[r] EXCEPT !.secret = secret].secret = secret
    BY <1>0, <2>2 DEF ClientState
  <2> QED
    BY <1>2, <2>3, <2>4
<1>4. ASSUME NEW c \in Call, NEW r \in Req, Approve(c, r) PROVE SecretHeld'
  <2>1. /\ requests[r].status = "pending" /\ client' = client
        /\ requests' = [requests EXCEPT ![r] = [status |-> "approved", name |-> requests[r].name, mb |-> NewMb, acked |-> FALSE]]
    BY <1>4 DEF Approve, Claimable
  <2>2. client' = [client EXCEPT ![r] = client[r]] /\ client[r].secret \in {"kept", "lost"}
    BY <1>0, <2>1 DEF SecretHeld
  <2> QED
    BY <1>2, <2>1, <2>2
<1>5. ASSUME NEW r \in Req, Deny(r) PROVE SecretHeld'
  <2>1. requests[r].status = "pending" /\ client' = client /\ requests' = [requests EXCEPT ![r].status = "denied"]
    BY <1>5 DEF Deny
  <2>2. /\ client' = [client EXCEPT ![r] = client[r]] /\ requests' = [requests EXCEPT ![r] = [requests[r] EXCEPT !.status = "denied"]]
        /\ [requests[r] EXCEPT !.status = "denied"].status = "denied"
    BY <1>0, <2>1, RequestFields DEF AdmInv
  <2> QED
    BY <1>2, <2>2
<1>6. ASSUME NEW r \in Req, Ack(r) PROVE SecretHeld'
  <2>1. /\ requests' = [requests EXCEPT ![r] = [status |-> "approved", name |-> requests[r].name, mb |-> NoMb, acked |-> TRUE]]
        /\ \E secret \in {"kept", "spent"} : client' = [client EXCEPT ![r] = [secret |-> secret, hand |-> NoMb, env |-> client[r].env]]
    BY <1>6 DEF Ack
  <2> QED
    BY <1>2, <2>1
<1>7. ASSUME NEW r \in Req, Bootstrap(r) \/ Persist(r) \/ GiveUp(r) \/ ViewFails(r) \/ ClientDies(r) PROVE SecretHeld'
  <2>1. /\ requests' = requests /\ \A s \in Req : s # r => client'[s].secret = client[s].secret
        /\ \/ client'[r].secret = client[r].secret
           \/ client'[r].secret = "lost"
           \/ requests[r].status \in {"denied", "unstored"}
    BY <1>0, <1>7 DEF Bootstrap, Persist, GiveUp, ViewFails, ClientDies, ClientState
  <2> QED
    BY <2>1 DEF SecretHeld
<1>9. ASSUME \/ \E c \in Call, r \in Req, name \in Name : Knock(c, r, name)
             \/ \E c \in Call : AddMember(c) \/ MirrorMember(c)
             \/ \E c \in Call, name \in Name : Admit(c, name)
             \/ \E k \in 1..RightMax : MintRights(k)
             \/ RightExpires \/ WindowPasses \/ AdmRestart \/ UNCHANGED admVars
      PROVE  SecretHeld'
  BY <1>1, <1>9 DEF Knock, AddMember, MirrorMember, Admit, MintRights, RightExpires, WindowPasses, AdmRestart, admVars
<1> QED
  BY <1>3, <1>4, <1>5, <1>6, <1>7, <1>9 DEF AdmNext, ClientStep

(* Whatever answers to bootstrap and ack are lost and whoever dies, the server's   *)
(* copy of a token is erased only behind a membership that the requester has on    *)
(* disk, in its own name; until then the requester keeps the secret that fetches   *)
(* it, unless a lost creation answer or a failing read took it.                    *)
THEOREM TokenIsNeverLost == AdmSpec => []BootstrapIsNeverLost
<1>1. AdmInit => SecretHeld
  BY DEF AdmInit, SecretHeld
<1>2. AdmInv /\ SecretHeld /\ [AdmNext \/ AdmRestart]_admVars => SecretHeld'
  BY SecretStep
<1>3. AdmInv /\ SecretHeld => BootstrapIsNeverLost
  BY DEF AdmInv, HoldsOwn, ClosedBehind, SecretHeld, Approved, Carries, BootstrapIsNeverLost
<1> QED
  BY <1>1, <1>2, <1>3, AdmissionInvariant, PTL DEF AdmSpec

-----------------------------------------------------------------------------
(* Building: its types *)

DavetState == {NoRow} \cup [row : {"live", "revoked"}, loca : Room, mb : Mb]
SessState == {NoRow} \cup [row : {"live", "revoked"}, mb : Mb, key : Key]
SeatState == [row : {"seat"}, mb : Mb, loca : Room, bound : BOOLEAN]
HotState == {NoRow} \cup SeatState \cup [row : {"key"}, mb : Mb, bound : {TRUE}]
LobbyState == [at : {"out", "verified", "subscribed", "open"}, bus : Seq(BusEvent), told : SUBSET Davet]
OpState ==
    {Ready} \cup [at : {"invite"}, mb : Mb, loca : Room]
            \cup [at : {"seated", "call", "end", "ended"}, davet : Davet]
            \cup [at : {"kick", "kicked"}, loca : Room, name : Name, found : SUBSET Davet]
            \cup [at : {"barred", "gone"}, mb : Mb]
            \cup [at : {"seat"}, sess : Session, davet : Davet]
            \cup [at : {"open"}, sess : Session, hot : SeatState]
            \cup [at : {"unkey"}, mb : Mb, key : Key]

(* The members' side of the state. *)
MemberTyped ==
    /\ rows \in [Mb -> MemberState] /\ roster \subseteq Mb /\ calls \in [Call -> CallState]
    /\ suspended \subseteq Mb /\ off \subseteq Mb
    /\ keys \in [Mb \X Key -> {"none", "live", "revoked"}]

(* What members hold, and the handlers. *)
HoldTyped ==
    /\ davets \in [Davet -> DavetState] /\ hotDavets \subseteq Davet
    /\ sessRows \in [Session -> SessState] /\ hotSess \in [Session -> HotState]
    /\ ops \in [Op -> OpState] /\ lobby \in [Mb -> LobbyState]

(* Building: its invariant *)

(* Keys belong to memberships, and a membership that ended has its principal disabled. *)
KeysOfMembers ==
    \A m \in Mb : /\ rows[m].row = "none" => \A k \in Key : keys[<<m, k>>] = "none"
                  /\ rows[m].row = "revoked" => m \in off

(* A committed row on its way to the hot copy is live and not there yet. *)
MirrorsApart ==
    /\ \A c \in Call : calls[c].at = "mirror" => rows[calls[c].mb].row = "live" /\ calls[c].mb \notin roster
    /\ \A c, d \in Call : calls[c].at = "mirror" /\ calls[d].at = "mirror" /\ calls[c].mb = calls[d].mb => c = d

(* The hot copy knows a membership that ended only until its cascade is over. *)
RosterLives ==
    \A m \in roster : rows[m].row = "live" \/ (rows[m].row = "revoked" /\ \E o \in Op : ops[o] = [at |-> "gone", mb |-> m])

(* The handlers that hold member_lifecycle; there is one at most. *)
HoldsMutex(o) == ops[o].at \in {"seated", "barred", "gone"}

OneHolder ==
    /\ \A o \in Op : HoldsMutex(o) => lifecycle
    /\ \A o, p \in Op : HoldsMutex(o) /\ HoldsMutex(p) => o = p

Good(m) == rows[m].row = "live" /\ m \notin suspended

(* A handler's davet has a row. *)
OpsKnown == \A o \in Op : ops[o].at \in {"seated", "call", "end", "ended", "seat"} => davets[ops[o].davet] # NoRow

(* Davets of a member who is barred are on their way out of the hot map. *)
DavetsOfGood ==
    /\ \A d \in Davet : davets[d].row = "live" => Good(davets[d].mb)
    /\ \A d \in hotDavets : davets[d] # NoRow
    /\ \A d \in hotDavets : Good(davets[d].mb) \/ \E o \in Op : ops[o].at \in {"barred", "gone"} /\ ops[o].mb = davets[d].mb
    /\ \A o \in Op : ops[o].at = "seated" => Good(davets[ops[o].davet].mb)

InBus(bus, e) == \E i \in 1..Len(bus) : bus[i] = e

(* A davet that an open socket was not told of is still to be announced, is on
   the bus, or is among the events that the receiver knows it lost. *)
Awaited(m, d) ==
    \/ d \in lobby[m].told
    \/ \E o \in Op : ops[o] = [at |-> "call", davet |-> d]
    \/ InBus(lobby[m].bus, [t |-> "called", mb |-> m, davet |-> d])
    \/ InBus(lobby[m].bus, Lagged)

LobbyAwaits == \A m \in Mb : lobby[m].at = "open" => \A d \in DavetsOf(m) : Awaited(m, d)

BldInv ==
    /\ MemberTyped /\ HoldTyped
    /\ KeysOfMembers /\ MirrorsApart /\ RosterLives
    /\ OneHolder /\ OpsKnown /\ DavetsOfGood /\ LobbyAwaits

(* A handler carries what its stage needs. *)
LEMMA OpFields ==
    ASSUME NEW p \in OpState
    PROVE  /\ p.at \in {"invite", "barred", "gone", "unkey"} => p.mb \in Mb
           /\ p.at = "invite" => p.loca \in Room
           /\ p.at \in {"seated", "call", "end", "ended", "seat"} => p.davet \in Davet
           /\ p.at \in {"seat", "open"} => p.sess \in Session
           /\ p.at = "open" => p.hot \in SeatState
           /\ p.at \in {"kick", "kicked"} => p.found \in SUBSET Davet
           /\ p.at \in {"kick", "kicked"} => p = [at |-> p.at, loca |-> p.loca, name |-> p.name, found |-> p.found]
                                              /\ p.loca \in Room /\ p.name \in Name
           /\ p.at \in {"seated", "call", "end", "ended"} => p = [at |-> p.at, davet |-> p.davet]
           /\ p.at \in {"barred", "gone"} => p = [at |-> p.at, mb |-> p.mb]
  BY DEF OpState, Ready

(* The stages that the handlers go through. *)
LEMMA OpStages ==
    /\ Ready \in OpState /\ Ready.at = "ready"
    /\ \A m \in Mb, l \in Room : [at |-> "invite", mb |-> m, loca |-> l] \in OpState
    /\ \A d \in Davet, a \in {"seated", "call", "end", "ended"} : [at |-> a, davet |-> d] \in OpState
    /\ \A l \in Room, n \in Name, f \in SUBSET Davet, a \in {"kick", "kicked"} :
         [at |-> a, loca |-> l, name |-> n, found |-> f] \in OpState
    /\ \A m \in Mb, a \in {"barred", "gone"} : [at |-> a, mb |-> m] \in OpState
    /\ \A s \in Session, d \in Davet : [at |-> "seat", sess |-> s, davet |-> d] \in OpState
    /\ \A s \in Session, h \in SeatState : [at |-> "open", sess |-> s, hot |-> h] \in OpState
    /\ \A m \in Mb, k \in Key : [at |-> "unkey", mb |-> m, key |-> k] \in OpState
  BY DEF OpState, Ready

(* A davet with a row has a member and a loca. *)
LEMMA DavetFields ==
    ASSUME NEW d \in DavetState, d # NoRow
    PROVE  d.mb \in Mb /\ d.loca \in Room /\ d.row \in {"live", "revoked"}
  BY DEF DavetState, NoRow

(* The rows of davets go one way. *)
OnlyEnds ==
    /\ davets' \in [Davet -> DavetState]
    /\ \A d \in Davet : /\ davets'[d] = NoRow <=> davets[d] = NoRow
                        /\ davets[d] # NoRow => davets'[d].mb = davets[d].mb
                        /\ davets'[d].row = "live" => davets[d].row = "live"

(* Rows that stay as they are. *)
LEMMA SameDavets ==
    ASSUME HoldTyped, davets' = davets
    PROVE  OnlyEnds
  BY DEF HoldTyped, OnlyEnds

(* Ending rows does that, and none of those that were to end is live. *)
LEMMA EndRowsEnds ==
    ASSUME HoldTyped, NEW ds, davets' = EndRows(ds)
    PROVE  OnlyEnds /\ \A d \in ds \cap Davet : davets'[d].row # "live"
<1>1. ASSUME NEW d \in Davet
      PROVE  /\ davets'[d] \in DavetState /\ (davets'[d] = NoRow <=> davets[d] = NoRow)
             /\ davets[d] # NoRow => davets'[d].mb = davets[d].mb
             /\ davets'[d].row = "live" => davets[d].row = "live" /\ d \notin ds
  <2>1. davets[d] \in DavetState
    BY DEF HoldTyped
  <2>2. CASE davets[d].row = "live" /\ d \in ds
    <3>1. davets[d] \in [row : {"live", "revoked"}, loca : Room, mb : Mb]
      BY <2>1, <2>2 DEF DavetState, NoRow
    <3>2. davets'[d] = [davets[d] EXCEPT !.row = "revoked"]
      BY <2>2 DEF EndRows
    <3> QED
      BY <3>1, <3>2 DEF DavetState, NoRow
  <2>3. CASE ~(davets[d].row = "live" /\ d \in ds)
    BY <2>1, <2>3 DEF EndRows
  <2> QED
    BY <2>2, <2>3
<1>2. davets' = [d \in Davet |-> davets'[d]]
  BY DEF EndRows
<1> QED
  BY <1>1, <1>2 DEF OnlyEnds

(* The bus loses an event only if it says so. *)
LEMMA BufferedKeeps ==
    ASSUME NEW bus \in Seq(BusEvent), NEW e \in BusEvent
    PROVE  /\ Buffered(bus, e) \in Seq(BusEvent)
           /\ \/ InBus(Buffered(bus, e), Lagged)
              \/ InBus(Buffered(bus, e), e) /\ \A x : InBus(bus, x) => InBus(Buffered(bus, e), x)
<1> DEFINE kept == IF bus # <<>> /\ Head(bus) = Lagged THEN Tail(bus) ELSE bus
<1>1. kept \in Seq(BusEvent) /\ Len(kept) \in Nat
  OBVIOUS
<1>2. CASE Len(kept) < BusMax
  <2>1. Buffered(bus, e) = Append(bus, e)
    BY <1>2 DEF Buffered
  <2> HIDE DEF kept
  <2>2. /\ Append(bus, e) \in Seq(BusEvent) /\ Len(Append(bus, e)) = Len(bus) + 1 /\ Append(bus, e)[Len(bus) + 1] = e
        /\ Len(bus) \in Nat /\ \A i \in 1..Len(bus) : Append(bus, e)[i] = bus[i]
    BY AppendProperties
  <2> QED
    BY <2>1, <2>2 DEF InBus
<1>3. CASE ~(Len(kept) < BusMax)
  <2>1. Buffered(bus, e) = <<Lagged>> \o Append(Tail(kept), e)
    BY <1>3 DEF Buffered
  <2>2. kept # <<>>
    <3> HIDE DEF kept
    <3>1. Len(kept) # 0
      BY <1>1, <1>3, BuildingAssumption
    <3> QED
      BY <1>1, <3>1, EmptySeq
  <2>3. Append(Tail(kept), e) \in Seq(BusEvent) /\ <<Lagged>> \in Seq(BusEvent) /\ Len(<<Lagged>>) = 1 /\ <<Lagged>>[1] = Lagged
    BY <1>1, <2>2 DEF BusEvent
  <2> HIDE DEF kept
  <2>4. PICK rest \in Seq(BusEvent) : rest = Append(Tail(kept), e)
    BY <2>3
  <2>5. <<Lagged>> \o rest \in Seq(BusEvent) /\ Len(<<Lagged>> \o rest) = 1 + Len(rest) /\ (<<Lagged>> \o rest)[1] = Lagged
        /\ Len(rest) \in Nat
    BY <2>3, ConcatProperties
  <2> QED
    BY <2>1, <2>4, <2>5 DEF InBus
<1> QED
  BY <1>2, <1>3

-----------------------------------------------------------------------------
(* Building: its steps *)

(* Handlers that move without the mutex and without a call to announce. *)
OpsQuiet ==
    \A o \in Op : \/ ops'[o] = ops[o]
                  \/ /\ ops[o].at \notin {"seated", "barred", "gone", "call"}
                     /\ ops'[o].at \notin {"seated", "barred", "gone", "call"}
                     /\ ops'[o].at \in {"end", "ended", "seat"} => davets[ops'[o].davet] # NoRow

(* Members stay, davets only go. *)
LEMMA QuietKeeps ==
    ASSUME BldInv, MemberTyped', HoldTyped', KeysOfMembers', OpsQuiet, OnlyEnds, hotDavets' \subseteq hotDavets,
           UNCHANGED <<rows, roster, calls, suspended, lifecycle, lobby>>
    PROVE  BldInv'
<1> USE DEF BldInv
<1>0. /\ ops \in [Op -> OpState] /\ ops' \in [Op -> OpState] /\ hotDavets \subseteq Davet
      /\ \A o \in Op : ops[o].at \in {"seated", "call", "end", "ended", "seat"} => ops[o].davet \in Davet
      /\ \A o \in Op : ops'[o].at \in {"seated", "call", "end", "ended", "seat"} => ops'[o].davet \in Davet
      /\ \A d : [at |-> "call", davet |-> d].at = "call"
      /\ \A m : [at |-> "gone", mb |-> m].at = "gone"
  BY OpFields DEF HoldTyped
<1>1. MirrorsApart'
  BY DEF MirrorsApart
<1>2. RosterLives'
  BY <1>0 DEF RosterLives, OpsQuiet
<1>3. OneHolder'
  BY <1>0 DEF OneHolder, HoldsMutex, OpsQuiet
<1>4. OpsKnown'
  BY <1>0 DEF OpsKnown, OpsQuiet, OnlyEnds
<1>5. DavetsOfGood'
  <2>2. ASSUME NEW d \in Davet, davets'[d].row = "live"
        PROVE  Good(davets[d].mb)'
    <3>1. davets[d].row = "live" /\ davets[d] # NoRow
      BY <2>2 DEF OnlyEnds, NoRow
    <3> QED
      BY <3>1 DEF OnlyEnds, DavetsOfGood, Good
  <2>3. \A d \in hotDavets' : davets'[d] # NoRow /\ davets'[d].mb = davets[d].mb
    BY <1>0 DEF OnlyEnds, DavetsOfGood
  <2>4. ASSUME NEW d \in hotDavets'
        PROVE  Good(davets[d].mb)' \/ \E o \in Op : ops'[o].at \in {"barred", "gone"} /\ ops'[o].mb = davets'[d].mb
    BY <2>3 DEF OpsQuiet, DavetsOfGood, Good
  <2>5. ASSUME NEW o \in Op, ops'[o].at = "seated"
        PROVE  Good(davets[ops[o].davet].mb)'
    <3>1. ops'[o] = ops[o]
      BY <2>5 DEF OpsQuiet
    <3>2. davets[ops[o].davet] # NoRow /\ ops[o].davet \in Davet
      BY <1>0, <2>5, <3>1 DEF OpsKnown
    <3> QED
      BY <2>5, <3>1, <3>2 DEF OnlyEnds, DavetsOfGood, Good
  <2> QED
    BY <2>2, <2>3, <2>4, <2>5 DEF DavetsOfGood
<1>6. LobbyAwaits'
  <2> SUFFICES ASSUME NEW m \in Mb, lobby[m].at = "open", NEW d \in hotDavets', davets'[d].mb = m
               PROVE  Awaited(m, d)'
    BY DEF LobbyAwaits, DavetsOf
  <2>1. Awaited(m, d)
    BY <1>0 DEF LobbyAwaits, DavetsOf, OnlyEnds, DavetsOfGood
  <2> QED
    BY <1>0, <2>1 DEF Awaited, OpsQuiet
<1> QED
  BY <1>1, <1>2, <1>3, <1>4, <1>5, <1>6

(* Sessions that go from the hot map. *)
LEMMA SessionsGo ==
    ASSUME HoldTyped, hotSess' = [s \in Session |-> hotSess'[s]], \A s \in Session : hotSess'[s] \in {NoRow, hotSess[s]}
    PROVE  hotSess' \in [Session -> HotState]
  BY DEF HoldTyped, HotState

(* Release, kick and a refused or failing call: davets and their sessions go. *)
LEMMA ReleaseSteps ==
    ASSUME BldInv, NEW o \in Op,
           \/ \E m \in Mb, l \in Room : Invite(o, m, l)
           \/ \E d \in Davet : RevokeInvite(o, d)
           \/ \E l \in Room, name \in Name : Kick(o, l, name)
           \/ RevokeInviteRow(o) \/ RevokeInviteHot(o) \/ KickRows(o) \/ KickHot(o) \/ StorageFails(o)
           \/ AddInvite(o) /\ ~MemberOf(ops[o].mb)
    PROVE  BldInv'
<1> USE DEF BldInv
<1>0. /\ ops \in [Op -> OpState] /\ hotDavets \subseteq Davet /\ ops[o] \in OpState
  BY DEF HoldTyped
<1>1. /\ UNCHANGED <<rows, roster, calls, suspended, off, keys, lifecycle, lobby, sessRows>>
      /\ MemberTyped' /\ KeysOfMembers'
  BY DEF Invite, RevokeInvite, RevokeInviteRow, RevokeInviteHot, Kick, KickRows, KickHot, StorageFails, AddInvite,
         admVars, MemberTyped, KeysOfMembers
<1>2. OnlyEnds
  <2>1. CASE RevokeInviteRow(o) \/ KickRows(o)
    BY <2>1, EndRowsEnds DEF RevokeInviteRow, KickRows
  <2>2. CASE davets' = davets
    BY <2>2, SameDavets
  <2> QED
    BY <2>1, <2>2 DEF Invite, RevokeInvite, RevokeInviteHot, Kick, KickHot, StorageFails, AddInvite
<1>3. hotDavets' \subseteq hotDavets
  BY DEF Invite, RevokeInvite, RevokeInviteRow, RevokeInviteHot, Kick, KickRows, KickHot, StorageFails, AddInvite
<1>4. hotSess' \in [Session -> HotState]
  <2>1. CASE hotSess' = hotSess
    BY <2>1 DEF HoldTyped
  <2>2. CASE RevokeInviteHot(o)
    BY <2>2, SessionsGo DEF RevokeInviteHot, WithoutSeats
  <2>3. CASE KickHot(o)
    BY <2>3, SessionsGo DEF KickHot, WithoutSeats
  <2> QED
    BY <2>1, <2>2, <2>3 DEF Invite, RevokeInvite, RevokeInviteRow, Kick, KickRows, StorageFails, AddInvite
<1>5. PICK v \in OpState : /\ ops' = [ops EXCEPT ![o] = v] /\ ops[o].at \notin {"seated", "barred", "gone", "call"}
                           /\ v.at \notin {"seated", "barred", "gone", "call"}
                           /\ v.at \in {"end", "ended", "seat"} => davets[v.davet] # NoRow
  <2>1. CASE \E m \in Mb, l \in Room : Invite(o, m, l)
    BY <1>0, <2>1, OpStages DEF Invite
  <2>2. CASE \E d \in Davet : RevokeInvite(o, d)
    BY <1>0, <2>2, OpStages, ZenonT(60) DEF RevokeInvite, DavetsOfGood
  <2>3. CASE \E l \in Room, name \in Name : Kick(o, l, name)
    <3>1. PICK l \in Room, name \in Name : Kick(o, l, name)
      BY <2>3
    <3>2. PICK found \in SUBSET Davet : ops' = [ops EXCEPT ![o] = [at |-> "kick", loca |-> l, name |-> name, found |-> found]]
      BY <1>0, <3>1 DEF Kick
    <3>3. [at |-> "kick", loca |-> l, name |-> name, found |-> found] \in OpState /\ ops[o] = Ready
      BY <3>1, OpStages DEF Kick
    <3> QED
      BY <3>2, <3>3, OpStages
  <2>4. CASE RevokeInviteRow(o)
    <3>1. ops[o].at = "end" /\ ops[o].davet \in Davet /\ ops[o] = [at |-> "end", davet |-> ops[o].davet]
          /\ ops' = [ops EXCEPT ![o].at = "ended"] /\ davets[ops[o].davet] # NoRow
      BY <1>0, <2>4, OpFields DEF RevokeInviteRow, OpsKnown
    <3>2. ops' = [ops EXCEPT ![o] = [at |-> "ended", davet |-> ops[o].davet]]
      <4>1. [ops[o] EXCEPT !.at = "ended"] = [at |-> "ended", davet |-> ops[o].davet]
        BY <3>1
      <4>2. ops' = [ops EXCEPT ![o] = [ops[o] EXCEPT !.at = "ended"]]
        BY <3>1
      <4> QED
        BY <4>1, <4>2
    <3> QED
      BY <3>1, <3>2, OpStages
  <2>5. CASE KickRows(o)
    <3>1. /\ ops[o].at = "kick" /\ ops[o] = [at |-> "kick", loca |-> ops[o].loca, name |-> ops[o].name, found |-> ops[o].found]
          /\ ops[o].loca \in Room /\ ops[o].name \in Name /\ ops[o].found \in SUBSET Davet
          /\ ops' = [ops EXCEPT ![o].at = "kicked"]
      BY <1>0, <2>5, OpFields DEF KickRows
    <3>2. ops' = [ops EXCEPT ![o] = [at |-> "kicked", loca |-> ops[o].loca, name |-> ops[o].name, found |-> ops[o].found]]
      <4>1. [ops[o] EXCEPT !.at = "kicked"] = [at |-> "kicked", loca |-> ops[o].loca, name |-> ops[o].name, found |-> ops[o].found]
        BY <3>1
      <4>2. ops' = [ops EXCEPT ![o] = [ops[o] EXCEPT !.at = "kicked"]]
        BY <3>1
      <4> QED
        BY <4>1, <4>2
    <3> QED
      BY <3>1, <3>2, OpStages
  <2>6. CASE RevokeInviteHot(o) \/ KickHot(o) \/ StorageFails(o) \/ (AddInvite(o) /\ ~MemberOf(ops[o].mb))
    BY <1>0, <2>6, OpStages DEF RevokeInviteHot, KickHot, StorageFails, AddInvite
  <2> QED
    BY <2>1, <2>2, <2>3, <2>4, <2>5, <2>6
<1>6. OpsQuiet /\ ops' \in [Op -> OpState]
  BY <1>0, <1>5 DEF OpsQuiet
<1>7. HoldTyped'
  BY <1>0, <1>1, <1>2, <1>3, <1>4, <1>6 DEF HoldTyped, OnlyEnds
<1> QED
  BY <1>1, <1>2, <1>3, <1>6, <1>7, QuietKeeps

(* Keys and sessions come and go beside the davets. *)
LEMMA BearerSteps ==
    ASSUME BldInv, BearerStep
    PROVE  BldInv'
<1> USE DEF BldInv
<1>0. /\ ops \in [Op -> OpState] /\ hotDavets \subseteq Davet /\ davets \in [Davet -> DavetState]
      /\ sessRows \in [Session -> SessState] /\ hotSess \in [Session -> HotState]
      /\ keys \in [Mb \X Key -> {"none", "live", "revoked"}]
  BY DEF HoldTyped, MemberTyped
<1>1. UNCHANGED <<rows, roster, calls, suspended, off, davets, hotDavets, lifecycle, lobby>>
  BY DEF BearerStep, CreateKey, RevokeKey, RevokeKeyHot, SeatSession, BindSession, OpenSession, KeySession, Logout,
         PurgeSession, admVars
<1>2. OnlyEnds
  BY <1>1, SameDavets
<1>3. ASSUME keys' \in [Mb \X Key -> {"none", "live", "revoked"}], KeysOfMembers', sessRows' \in [Session -> SessState],
             hotSess' \in [Session -> HotState], ops' \in [Op -> OpState], OpsQuiet
      PROVE  BldInv'
  <2>1. MemberTyped' /\ HoldTyped'
    BY <1>1, <1>3 DEF MemberTyped, HoldTyped
  <2> QED
    BY <1>1, <1>2, <1>3, <2>1, QuietKeeps
<1>4. ops' = ops => OpsQuiet
  BY DEF OpsQuiet
<1>5. keys' = keys => KeysOfMembers' /\ keys' \in [Mb \X Key -> {"none", "live", "revoked"}]
  BY <1>0, <1>1 DEF KeysOfMembers
<1>6. ASSUME NEW m \in Mb, Recognised(m)
      PROVE  rows[m].row # "none"
  BY <1>6 DEF Recognised, KeyWorks, KeysOfMembers
<1>7. ASSUME NEW s \in Session, sessRows[s].row = "live"
      PROVE  [sessRows[s] EXCEPT !.row = "revoked"] \in SessState
  <2>1. sessRows[s] \in [row : {"live", "revoked"}, mb : Mb, key : Key]
    BY <1>0, <1>7 DEF SessState, NoRow
  <2> QED
    BY <2>1 DEF SessState
<1>8. ASSUME NEW m \in Mb, CreateKey(m)
      PROVE  BldInv'
  <2>1. keys' \in [Mb \X Key -> {"none", "live", "revoked"}]
    BY <1>0, <1>8 DEF CreateKey
  <2>2. KeysOfMembers'
    <3>1. <<m, "device">> \in Mb \X Key /\ \A x \in Mb, k \in Key : <<x, k>> \in Mb \X Key /\ (<<x, k>> = <<m, "device">> => x = m)
      BY DEF Key
    <3>2. keys' = [keys EXCEPT ![<<m, "device">>] = "live"] /\ rows[m].row # "none"
      BY <1>6, <1>8 DEF CreateKey
    <3> QED
      BY <1>0, <1>1, <3>1, <3>2 DEF KeysOfMembers
  <2> QED
    BY <1>0, <1>3, <1>4, <1>8, <2>1, <2>2 DEF CreateKey
<1>9. ASSUME NEW o \in Op, NEW m \in Mb, NEW k \in Key, RevokeKey(o, m, k)
      PROVE  BldInv'
  <2>1. keys' \in [Mb \X Key -> {"none", "live", "revoked"}]
    BY <1>0, <1>9 DEF RevokeKey
  <2>2. KeysOfMembers'
    <3>1. keys' = [keys EXCEPT ![<<m, k>>] = "revoked"] /\ rows[m].row # "none"
      BY <1>6, <1>9 DEF RevokeKey
    <3>2. \A x \in Mb, j \in Key : <<x, j>> \in Mb \X Key /\ (<<x, j>> = <<m, k>> => x = m)
      OBVIOUS
    <3> QED
      BY <1>0, <1>1, <3>1, <3>2 DEF KeysOfMembers
  <2>3. sessRows' \in [Session -> SessState]
    BY <1>0, <1>7, <1>9 DEF RevokeKey
  <2>4. ops' \in [Op -> OpState] /\ OpsQuiet
    BY <1>0, <1>9, OpStages DEF RevokeKey, OpsQuiet
  <2> QED
    BY <1>0, <1>3, <1>9, <2>1, <2>2, <2>3, <2>4 DEF RevokeKey
<1>10. ASSUME NEW o \in Op, RevokeKeyHot(o)
       PROVE  BldInv'
  <2>1. hotSess' \in [Session -> HotState]
    BY <1>10, SessionsGo DEF RevokeKeyHot
  <2>2. ops' \in [Op -> OpState] /\ OpsQuiet
    BY <1>0, <1>10, OpStages DEF RevokeKeyHot, OpsQuiet
  <2> QED
    BY <1>0, <1>3, <1>5, <1>10, <2>1, <2>2 DEF RevokeKeyHot
<1>11. ASSUME NEW o \in Op, NEW s \in Session, NEW d \in Davet, SeatSession(o, s, d)
       PROVE  BldInv'
  <2>1. ops' \in [Op -> OpState] /\ OpsQuiet
    <3>1. ops' = [ops EXCEPT ![o] = [at |-> "seat", sess |-> s, davet |-> d]] /\ ops[o] = Ready /\ davets[d] # NoRow
      BY <1>11 DEF SeatSession, DavetWorks, DavetsOfGood
    <3> QED
      BY <1>0, <3>1, OpStages DEF OpsQuiet
  <2> QED
    BY <1>0, <1>3, <1>5, <1>11, <2>1 DEF SeatSession
<1>12. ASSUME NEW o \in Op, BindSession(o)
       PROVE  BldInv'
  <2>1. ops[o].at = "seat" /\ ops[o].sess \in Session /\ ops[o].davet \in Davet /\ davets[ops[o].davet] # NoRow
    BY <1>0, <1>12, OpFields DEF BindSession, OpsKnown
  <2>2. PICK mb \in Mb, loca \in Room : mb = davets[ops[o].davet].mb /\ loca = davets[ops[o].davet].loca
    BY <1>0, <2>1, DavetFields
  <2>3. PICK bound \in BOOLEAN : bound = KeyWorks(mb, "legacy")
    BY DEF KeyWorks
  <2>4. /\ ops' = [ops EXCEPT ![o] = [at |-> "open", sess |-> ops[o].sess,
                                      hot |-> [row |-> "seat", mb |-> mb, loca |-> loca, bound |-> bound]]]
        /\ sessRows' = IF bound THEN [sessRows EXCEPT ![ops[o].sess] = [row |-> "live", mb |-> mb, key |-> "legacy"]]
                       ELSE sessRows
        /\ UNCHANGED <<keys, hotSess>>
    BY <1>12, <2>2, <2>3 DEF BindSession
  <2>5. [row |-> "seat", mb |-> mb, loca |-> loca, bound |-> bound] \in SeatState
        /\ [row |-> "live", mb |-> mb, key |-> "legacy"] \in SessState
    BY DEF SeatState, SessState, Key
  <2>6. sessRows' \in [Session -> SessState]
    BY <1>0, <2>1, <2>4, <2>5
  <2>7. ops' \in [Op -> OpState] /\ OpsQuiet
    BY <1>0, <2>1, <2>4, <2>5, OpStages DEF OpsQuiet
  <2> QED
    BY <1>0, <1>3, <1>5, <2>4, <2>6, <2>7
<1>13. ASSUME NEW o \in Op, OpenSession(o)
       PROVE  BldInv'
  <2>1. ops[o].at = "open" /\ ops[o].sess \in Session /\ ops[o].hot \in SeatState
    BY <1>0, <1>13, OpFields DEF OpenSession
  <2>2. hotSess' \in [Session -> HotState]
    BY <1>0, <1>13, <2>1 DEF OpenSession, HotState
  <2>3. ops' \in [Op -> OpState] /\ OpsQuiet
    BY <1>0, <1>13, OpStages DEF OpenSession, OpsQuiet
  <2> QED
    BY <1>0, <1>3, <1>5, <1>13, <2>2, <2>3 DEF OpenSession
<1>14. ASSUME NEW s \in Session, NEW m \in Mb, NEW k \in Key, KeySession(s, m, k)
       PROVE  BldInv'
  <2>1. [row |-> "live", mb |-> m, key |-> k] \in SessState /\ [row |-> "key", mb |-> m, bound |-> TRUE] \in HotState
    BY DEF SessState, HotState
  <2>2. sessRows' \in [Session -> SessState] /\ hotSess' \in [Session -> HotState]
    BY <1>0, <1>14, <2>1 DEF KeySession
  <2> QED
    BY <1>0, <1>3, <1>4, <1>5, <1>14, <2>2 DEF KeySession
<1>15. ASSUME NEW s \in Session, Logout(s) \/ PurgeSession(s)
       PROVE  BldInv'
  <2>1. hotSess' \in [Session -> HotState]
    BY <1>0, <1>15 DEF Logout, PurgeSession, HotState
  <2>2. sessRows' \in [Session -> SessState]
    BY <1>0, <1>7, <1>15 DEF Logout, PurgeSession
  <2> QED
    BY <1>0, <1>3, <1>4, <1>5, <1>15, <2>1, <2>2 DEF Logout, PurgeSession
<1> QED
  BY <1>8, <1>9, <1>10, <1>11, <1>12, <1>13, <1>14, <1>15 DEF BearerStep

(* A step of admission adds rows and fills the hot copy. *)
Admits ==
    /\ rows' \in [Mb -> MemberState] /\ roster' \subseteq Mb /\ calls' \in [Call -> CallState]
    /\ \A m \in Mb : rows'[m] = rows[m] \/ (rows[m].row = "none" /\ rows'[m].row = "live")
    /\ MirrorsApart'
    /\ \A m \in roster' : m \in roster \/ rows'[m].row = "live"

(* Admission: a new row is live and nobody held anything under its token. *)
LEMMA MemberSteps ==
    ASSUME BldInv, MemberStep
    PROVE  BldInv'
<1> USE DEF BldInv
<1>0. /\ rows \in [Mb -> MemberState] /\ roster \subseteq Mb /\ calls \in [Call -> CallState]
      /\ keys \in [Mb \X Key -> {"none", "live", "revoked"}]
      /\ UNCHANGED <<suspended, off, davets, hotDavets, sessRows, hotSess, lifecycle, ops, lobby>>
      /\ keys' = [k \in Mb \X Key |-> IF k[1] \in NewMembers /\ k[2] = "legacy" THEN "live" ELSE keys[k]]
      /\ \A n \in Name : MemberRow(n).row = "live" /\ MemberRow(n).name = n
      /\ Idle.at = "idle"
  BY DEF MemberTyped, MemberStep, MemberRow, Idle
<1>1. Admits
  <2>1. CASE \E c \in Call, name \in Name : Admit(c, name)
    <3>1. /\ UNCHANGED <<rows, roster>> /\ calls' \in [Call -> CallState]
          /\ \A c \in Call : calls'[c] = calls[c] \/ calls'[c].at = "admit"
      BY <1>0, <2>1, AdmStages DEF Admit
    <3> QED
      BY <1>0, <3>1 DEF Admits, MirrorsApart
  <2>2. ASSUME NEW c \in Call, AddMember(c)
        PROVE  Admits
    <3>1. calls[c].name \in Name
      BY <1>0, <2>2 DEF AddMember, CallState, Idle
    <3>2. CASE rows' = rows
      <4>1. /\ UNCHANGED <<rows, roster>> /\ calls' = [calls EXCEPT ![c] = Idle]
        BY <1>0, <2>2, <3>1, <3>2, NewMbIsFresh DEF AddMember
      <4> QED
        BY <1>0, <4>1, AdmStages DEF Admits, MirrorsApart
    <3>3. CASE rows' # rows
      <4>1. /\ FreshMb # {} /\ rows' = [rows EXCEPT ![NewMb] = MemberRow(calls[c].name)]
            /\ calls' = [calls EXCEPT ![c] = [at |-> "mirror", mb |-> NewMb]] /\ roster' = roster
        BY <2>2, <3>3 DEF AddMember
      <4>2. NewMb \in Mb /\ rows[NewMb].row = "none"
        BY <4>1, NewMbIsFresh
      <4>3. NewMb \notin roster /\ \A d \in Call : calls[d].at = "mirror" => calls[d].mb # NewMb
        BY <4>2 DEF RosterLives, MirrorsApart
      <4>4. /\ rows' \in [Mb -> MemberState] /\ calls' \in [Call -> CallState] /\ rows'[NewMb].row = "live"
            /\ \A m \in Mb : m # NewMb => rows'[m] = rows[m]
            /\ calls'[c].mb = NewMb /\ \A d \in Call : d # c => calls'[d] = calls[d]
        BY <1>0, <3>1, <4>1, <4>2, AdmStages
      <4>5. MirrorsApart'
        <5>1. \A d \in Call : d # c /\ calls[d].at = "mirror" => calls[d].mb \in Mb
          BY <1>0 DEF CallState, Idle
        <5> QED
          BY <4>1, <4>3, <4>4, <5>1 DEF MirrorsApart
      <4> QED
        BY <1>0, <4>1, <4>2, <4>4, <4>5 DEF Admits
    <3> QED
      BY <3>2, <3>3
  <2>3. ASSUME NEW c \in Call, MirrorMember(c)
        PROVE  Admits
    <3>1. /\ calls[c].at = "mirror" /\ calls[c].mb \in Mb /\ rows[calls[c].mb].row = "live" /\ rows' = rows
          /\ roster' = roster \cup {calls[c].mb} /\ calls' = [calls EXCEPT ![c] = Idle]
      BY <1>0, <2>3 DEF MirrorMember, MirrorsApart, CallState, Idle
    <3>2. MirrorsApart'
      BY <1>0, <3>1 DEF MirrorsApart
    <3> QED
      BY <1>0, <3>1, <3>2, AdmStages DEF Admits
  <2> QED
    BY <2>1, <2>2, <2>3 DEF MemberStep
<1>2. keys' \in [Mb \X Key -> {"none", "live", "revoked"}]
  BY <1>0
<1>3. KeysOfMembers'
  <2>1. ASSUME NEW m \in Mb, NEW k \in Key
        PROVE  keys'[<<m, k>>] = IF m \in NewMembers /\ k = "legacy" THEN "live" ELSE keys[<<m, k>>]
    BY <1>0
  <2> QED
    BY <1>0, <1>1, <2>1 DEF Admits, KeysOfMembers, NewMembers
<1>4. RosterLives'
  BY <1>0, <1>1 DEF Admits, RosterLives
<1>5. OneHolder' /\ OpsKnown' /\ HoldTyped' /\ MemberTyped'
  BY <1>0, <1>1, <1>2 DEF Admits, OneHolder, HoldsMutex, OpsKnown, HoldTyped, MemberTyped
<1>6. DavetsOfGood'
  <2>1. /\ \A d \in Davet : davets[d] # NoRow => davets[d].mb \in Mb
        /\ \A d \in Davet : davets[d].row = "live" => davets[d] # NoRow
        /\ \A o \in Op : ops[o].at = "seated" => ops[o].davet \in Davet
    BY DavetFields, OpFields DEF HoldTyped, NoRow
  <2>2. \A m \in Mb : Good(m) => Good(m)'
    BY <1>0, <1>1 DEF Admits, Good
  <2>3. \A d \in Davet : davets[d].row = "live" => Good(davets[d].mb)'
    BY <1>0, <2>1, <2>2 DEF DavetsOfGood, Good
  <2>4. \A d \in hotDavets : Good(davets[d].mb)' \/ \E o \in Op : ops[o].at \in {"barred", "gone"} /\ ops[o].mb = davets[d].mb
    BY <1>0, <2>1, <2>2 DEF DavetsOfGood, Good, HoldTyped
  <2>5. \A o \in Op : ops[o].at = "seated" => Good(davets[ops[o].davet].mb)'
    BY <1>0, <2>1, <2>2 DEF DavetsOfGood, Good, OpsKnown
  <2> QED
    BY <1>0, <2>3, <2>4, <2>5 DEF DavetsOfGood
<1>7. LobbyAwaits'
  BY <1>0 DEF LobbyAwaits, DavetsOf, Awaited
<1> QED
  BY <1>1, <1>3, <1>4, <1>5, <1>6, <1>7 DEF Admits

(* Only a handler that holds the mutex leaves a dead membership in the hot copy. *)
LEMMA RosterIsLive ==
    ASSUME RosterLives, \A o \in Op : ops[o].at # "gone"
    PROVE  \A m \in roster : rows[m].row = "live"
<1> SUFFICES ASSUME NEW m \in roster, rows[m].row # "live" PROVE FALSE
  OBVIOUS
<1>1. PICK o \in Op : ops[o] = [at |-> "gone", mb |-> m]
  BY DEF RosterLives
<1>2. ops[o].at = "gone"
  BY <1>1
<1> QED
  BY <1>2

(* The parts that a step of davets or bars leaves to the frame. *)
LEMMA MembersStay ==
    ASSUME BldInv, UNCHANGED <<rows, roster, calls, suspended, off, keys>>
    PROVE  MemberTyped' /\ KeysOfMembers' /\ MirrorsApart'
  BY DEF BldInv, MemberTyped, KeysOfMembers, MirrorsApart

(* An invitation written under the mutex is for a member who is good now. *)
LEMMA AddInviteKeeps ==
    ASSUME BldInv, NEW o \in Op, AddInvite(o), MemberOf(ops[o].mb)
    PROVE  BldInv'
<1> USE DEF BldInv
<1>1. PICK m \in Mb, l \in Room, nd \in Davet :
        /\ ops[o].at = "invite" /\ m = ops[o].mb /\ davets[nd] = NoRow
        /\ davets' = [davets EXCEPT ![nd] = [row |-> "live", loca |-> l, mb |-> m]]
        /\ ops' = [ops EXCEPT ![o] = [at |-> "seated", davet |-> nd]]
  <2>1. NewDavet \in Davet /\ davets[NewDavet] = NoRow
    BY DEF AddInvite, NewDavet, FreshDavets
  <2>2. ops[o].mb \in Mb /\ ops[o].loca \in Room
    BY OpFields DEF AddInvite, HoldTyped
  <2> QED
    BY <2>1, <2>2 DEF AddInvite
<1>2. /\ ~lifecycle /\ lifecycle' /\ m \in roster /\ m \notin suspended
      /\ UNCHANGED <<rows, roster, calls, suspended, off, keys, hotDavets, sessRows, hotSess, lobby>>
  BY <1>1 DEF AddInvite, MemberOf, admVars
<1>3. /\ ops \in [Op -> OpState] /\ davets \in [Davet -> DavetState] /\ hotDavets \subseteq Davet
      /\ [row |-> "live", loca |-> l, mb |-> m] \in DavetState /\ [row |-> "live", loca |-> l, mb |-> m] # NoRow
      /\ [at |-> "seated", davet |-> nd] \in OpState
      /\ \A p \in Op : ops[p].at \in {"seated", "call", "end", "ended", "seat"} => ops[p].davet \in Davet
  BY OpFields, OpStages DEF HoldTyped, DavetState, NoRow
<1>4. /\ davets' \in [Davet -> DavetState] /\ davets'[nd] = [row |-> "live", loca |-> l, mb |-> m]
      /\ \A d \in Davet : d # nd => davets'[d] = davets[d]
      /\ ops' \in [Op -> OpState] /\ ops'[o] = [at |-> "seated", davet |-> nd]
      /\ \A p \in Op : p # o => ops'[p] = ops[p]
  BY <1>1, <1>3
<1>5. \A p \in Op : ~HoldsMutex(p)
  BY <1>2 DEF OneHolder
<1>6. Good(m) /\ \A x \in roster : rows[x].row = "live"
  BY <1>2, <1>5, RosterIsLive DEF HoldsMutex, Good
<1>7. MemberTyped' /\ KeysOfMembers' /\ MirrorsApart' /\ HoldTyped'
  BY <1>2, <1>4, MembersStay DEF HoldTyped
<1>8. RosterLives'
  BY <1>2, <1>6 DEF RosterLives
<1>9. OneHolder'
  BY <1>2, <1>4, <1>5 DEF OneHolder, HoldsMutex
<1>10. OpsKnown'
  BY <1>1, <1>3, <1>4 DEF OpsKnown
<1>11. nd \notin hotDavets
  BY <1>1 DEF DavetsOfGood
<1>12. DavetsOfGood'
  <2>1. ASSUME NEW d \in Davet, davets'[d].row = "live"
        PROVE  Good(davets[d].mb)'
    BY <1>2, <1>4, <1>6, <2>1 DEF DavetsOfGood, Good
  <2>2. ASSUME NEW d \in hotDavets'
        PROVE  davets'[d] = davets[d] /\ davets'[d] # NoRow /\ Good(davets[d].mb)'
    <3>1. davets'[d] = davets[d] /\ davets[d] # NoRow
      BY <1>2, <1>3, <1>4, <1>11 DEF DavetsOfGood
    <3>2. Good(davets[d].mb)
      BY <1>2, <1>5 DEF DavetsOfGood, HoldsMutex
    <3> QED
      BY <1>2, <3>1, <3>2 DEF Good
  <2>3. ASSUME NEW p \in Op, ops'[p].at = "seated"
        PROVE  Good(davets[ops[p].davet].mb)'
    <3>1. p = o
      BY <1>4, <1>5, <2>3 DEF HoldsMutex
    <3> QED
      BY <1>2, <1>4, <1>6, <3>1 DEF Good
  <2> QED
    BY <2>1, <2>2, <2>3 DEF DavetsOfGood
<1>13. LobbyAwaits'
  <2> SUFFICES ASSUME NEW x \in Mb, lobby[x].at = "open", NEW d \in hotDavets, davets'[d].mb = x
               PROVE  Awaited(x, d)'
    BY <1>2 DEF LobbyAwaits, DavetsOf
  <2>1. Awaited(x, d)
    BY <1>3, <1>4, <1>11 DEF LobbyAwaits, DavetsOf
  <2>2. \A p \in Op : ops[p] = [at |-> "call", davet |-> d] => ops'[p] = ops[p]
    BY <1>1, <1>4
  <2> QED
    BY <1>2, <2>1, <2>2 DEF Awaited
<1> QED
  BY <1>7, <1>8, <1>9, <1>10, <1>12, <1>13

(* The hot map learns of a davet that its handler has still to announce. *)
LEMMA AddInviteHotKeeps ==
    ASSUME BldInv, NEW o \in Op, AddInviteHot(o)
    PROVE  BldInv'
<1> USE DEF BldInv
<1>1. PICK nd \in Davet : ops[o] = [at |-> "seated", davet |-> nd] /\ davets[nd] # NoRow /\ Good(davets[nd].mb)
  BY OpFields DEF AddInviteHot, HoldTyped, OpsKnown, DavetsOfGood
<1>2. /\ ops' = [ops EXCEPT ![o] = [at |-> "call", davet |-> nd]]
      /\ hotDavets' = hotDavets \cup {nd} /\ ~lifecycle'
      /\ UNCHANGED <<rows, roster, calls, suspended, off, keys, davets, sessRows, hotSess, lobby>>
  <2>1. [ops[o] EXCEPT !.at = "call"] = [at |-> "call", davet |-> nd]
    BY <1>1
  <2>2. ops' = [ops EXCEPT ![o] = [ops[o] EXCEPT !.at = "call"]]
    BY DEF AddInviteHot
  <2> QED
    BY <1>1, <2>1, <2>2 DEF AddInviteHot, admVars
<1>3. /\ ops \in [Op -> OpState] /\ ops' \in [Op -> OpState] /\ ops'[o] = [at |-> "call", davet |-> nd]
      /\ \A p \in Op : p # o => ops'[p] = ops[p]
  BY <1>1, <1>2, OpStages DEF HoldTyped
<1>4. \A p \in Op : HoldsMutex(p) => p = o
  BY <1>1 DEF OneHolder, HoldsMutex
<1>5. MemberTyped' /\ KeysOfMembers' /\ MirrorsApart' /\ HoldTyped'
  BY <1>2, <1>3, MembersStay DEF HoldTyped
<1>6. \A x \in roster : rows[x].row = "live"
  <2>1. \A p \in Op : ops[p].at # "gone"
    BY <1>1, <1>4 DEF HoldsMutex
  <2> QED
    BY <2>1, RosterIsLive
<1>7. RosterLives' /\ OneHolder' /\ OpsKnown'
  BY <1>1, <1>2, <1>3, <1>4, <1>6 DEF RosterLives, OneHolder, HoldsMutex, OpsKnown
<1>8. DavetsOfGood'
  <2>1. \A d \in hotDavets : Good(davets[d].mb)
    BY <1>1, <1>4 DEF DavetsOfGood, HoldsMutex
  <2> QED
    BY <1>1, <1>2, <1>3, <1>4, <2>1 DEF DavetsOfGood, HoldsMutex, Good
<1>9. LobbyAwaits'
  <2> SUFFICES ASSUME NEW x \in Mb, lobby[x].at = "open", NEW d \in hotDavets', davets[d].mb = x
               PROVE  Awaited(x, d)'
    BY <1>2 DEF LobbyAwaits, DavetsOf
  <2>1. CASE d = nd
    BY <1>3, <2>1 DEF Awaited
  <2>2. CASE d # nd
    <3>1. Awaited(x, d)
      BY <1>2, <2>2 DEF LobbyAwaits, DavetsOf
    <3>2. \A p \in Op : ops[p] = [at |-> "call", davet |-> d] => ops'[p] = ops[p]
      BY <1>1, <1>3
    <3> QED
      BY <1>2, <3>1, <3>2 DEF Awaited
  <2> QED
    BY <2>1, <2>2
<1> QED
  BY <1>5, <1>7, <1>8, <1>9

(* What a send does to the sockets. *)
LEMMA SendKeeps ==
    ASSUME lobby \in [Mb -> LobbyState], NEW e \in BusEvent, lobby' = Send(e)
    PROVE  /\ lobby' \in [Mb -> LobbyState]
           /\ \A m \in Mb : lobby'[m].at = lobby[m].at /\ lobby'[m].told = lobby[m].told
           /\ \A m \in Mb : lobby[m].at = "open" =>
                \/ InBus(lobby'[m].bus, Lagged)
                \/ InBus(lobby'[m].bus, e) /\ \A x : InBus(lobby[m].bus, x) => InBus(lobby'[m].bus, x)
<1>1. ASSUME NEW m \in Mb
      PROVE  /\ lobby'[m] \in LobbyState /\ lobby'[m].at = lobby[m].at /\ lobby'[m].told = lobby[m].told
             /\ lobby[m].at = "open" => lobby'[m].bus = Buffered(lobby[m].bus, e)
  <2>1. lobby[m] \in LobbyState /\ lobby[m].bus \in Seq(BusEvent)
    BY DEF LobbyState
  <2>2. PICK b \in Seq(BusEvent) : b = Buffered(lobby[m].bus, e)
    BY <2>1, BufferedKeeps
  <2>3. lobby'[m] = IF lobby[m].at \in {"subscribed", "open"} THEN [lobby[m] EXCEPT !.bus = b] ELSE lobby[m]
    BY <2>2 DEF Send
  <2> QED
    BY <2>1, <2>2, <2>3 DEF LobbyState
<1>2. lobby' = [m \in Mb |-> lobby'[m]]
  BY DEF Send
<1>3. \A m \in Mb : lobby[m].bus \in Seq(BusEvent)
  BY DEF LobbyState
<1> QED
  BY <1>1, <1>2, <1>3, BufferedKeeps

(* The call is on the bus, or the receiver knows that it lost some. *)
LEMMA CallMemberKeeps ==
    ASSUME BldInv, NEW o \in Op, CallMember(o)
    PROVE  BldInv'
<1> USE DEF BldInv
<1>1. PICK nd \in Davet, m \in Mb : ops[o] = [at |-> "call", davet |-> nd] /\ davets[nd] # NoRow /\ m = davets[nd].mb
  BY OpFields, DavetFields DEF CallMember, HoldTyped, OpsKnown
<1>2. /\ ops' = [ops EXCEPT ![o] = Ready] /\ lobby' = Send([t |-> "called", mb |-> m, davet |-> nd])
      /\ UNCHANGED <<rows, roster, calls, suspended, off, keys, davets, hotDavets, sessRows, hotSess, lifecycle>>
  <2>1. ops[o].davet = nd
    BY <1>1
  <2> QED
    BY <1>1, <2>1 DEF CallMember, admVars
<1>3. [t |-> "called", mb |-> m, davet |-> nd] \in BusEvent
  BY DEF BusEvent
<1>4. /\ ops \in [Op -> OpState] /\ ops' \in [Op -> OpState] /\ ops'[o].at = "ready" /\ ops[o].at = "call"
      /\ \A p \in Op : p # o => ops'[p] = ops[p]
  BY <1>1, <1>2, OpStages DEF HoldTyped
<1>5. PICK e \in BusEvent : e = [t |-> "called", mb |-> m, davet |-> nd]
  BY <1>3
<1>6. /\ lobby' \in [Mb -> LobbyState]
      /\ \A x \in Mb : lobby'[x].at = lobby[x].at /\ lobby'[x].told = lobby[x].told
      /\ \A x \in Mb : lobby[x].at = "open" =>
           \/ InBus(lobby'[x].bus, Lagged)
           \/ InBus(lobby'[x].bus, e) /\ \A y : InBus(lobby[x].bus, y) => InBus(lobby'[x].bus, y)
  BY <1>2, <1>5, SendKeeps DEF HoldTyped
<1>7. MemberTyped' /\ KeysOfMembers' /\ MirrorsApart' /\ HoldTyped'
  BY <1>2, <1>4, <1>6, MembersStay DEF HoldTyped
<1>8. RosterLives'
  <2> SUFFICES ASSUME NEW x \in roster, rows[x].row # "live"
               PROVE  rows[x].row = "revoked" /\ \E p \in Op : ops'[p] = [at |-> "gone", mb |-> x]
    BY <1>2 DEF RosterLives
  <2>1. PICK p \in Op : ops[p] = [at |-> "gone", mb |-> x] /\ rows[x].row = "revoked"
    BY DEF RosterLives
  <2>2. ops[p].at = "gone"
    BY <2>1
  <2> QED
    BY <1>4, <2>1, <2>2
<1>9. OneHolder' /\ OpsKnown' /\ DavetsOfGood'
  BY <1>2, <1>4 DEF OneHolder, HoldsMutex, OpsKnown, DavetsOfGood, Good
<1>10. LobbyAwaits'
  <2> SUFFICES ASSUME NEW x \in Mb, lobby[x].at = "open", NEW d \in hotDavets, davets[d].mb = x
               PROVE  Awaited(x, d)'
    BY <1>2, <1>6 DEF LobbyAwaits, DavetsOf
  <2>1. Awaited(x, d)
    BY DEF LobbyAwaits, DavetsOf
  <2>2. CASE d = nd
    BY <1>1, <1>5, <1>6, <2>2 DEF Awaited
  <2>3. CASE d # nd
    <3>1. \A p \in Op : ops[p] = [at |-> "call", davet |-> d] => ops'[p] = ops[p]
      BY <1>1, <1>4, <2>3
    <3> QED
      BY <1>6, <2>1, <3>1 DEF Awaited
  <2> QED
    BY <2>2, <2>3
<1> QED
  BY <1>7, <1>8, <1>9, <1>10

(* The transaction of a suspension or a revocation: member m turns bad, its
   rows end, and its handler holds the mutex until the hot map followed. *)
LEMMA BarringKeeps ==
    ASSUME BldInv, NEW o \in Op, NEW m \in Mb, NEW st \in {"barred", "gone"},
           MemberTyped', sessRows' \in [Session -> SessState], KeysOfMembers', MirrorsApart',
           ops[o] = Ready, ~lifecycle, lifecycle', m \in roster,
           ops' = [ops EXCEPT ![o] = [at |-> st, mb |-> m]],
           davets' = EndRows(MemberDavets(m)),
           \A x \in Mb : x # m => rows'[x] = rows[x] /\ (x \in suspended' <=> x \in suspended),
           st = "barred" => rows' = rows, st = "gone" => rows'[m].row = "revoked",
           UNCHANGED <<roster, hotDavets, hotSess, lobby>>
    PROVE  BldInv'
<1> USE DEF BldInv
<1>1. /\ ops \in [Op -> OpState] /\ ops' \in [Op -> OpState] /\ ops'[o] = [at |-> st, mb |-> m]
      /\ ops'[o].at = st /\ ops'[o].mb = m
      /\ \A p \in Op : p # o => ops'[p] = ops[p]
      /\ ops[o].at = "ready" /\ hotDavets \subseteq Davet /\ davets \in [Davet -> DavetState]
  BY OpStages DEF HoldTyped
<1>2. OnlyEnds /\ \A d \in MemberDavets(m) : davets'[d].row # "live"
  BY EndRowsEnds DEF MemberDavets
<1>3. HoldTyped'
  BY <1>1, <1>2 DEF HoldTyped, OnlyEnds
<1>4. \A p \in Op : ~HoldsMutex(p)
  BY DEF OneHolder
<1>5. \A x \in roster : rows[x].row = "live"
  BY <1>4, RosterIsLive DEF HoldsMutex
<1>6. RosterLives'
  <2> SUFFICES ASSUME NEW x \in roster
               PROVE  rows'[x].row = "live" \/ (rows'[x].row = "revoked" /\ \E p \in Op : ops'[p] = [at |-> "gone", mb |-> x])
    BY DEF RosterLives
  <2>1. CASE x # m
    BY <1>5, <2>1 DEF MemberTyped
  <2>2. CASE x = m
    BY <1>1, <1>5, <2>2
  <2> QED
    BY <2>1, <2>2
<1>7. OneHolder'
  BY <1>1, <1>4 DEF OneHolder, HoldsMutex
<1>8. OpsKnown'
  <2>1. \A p \in Op : ops[p].at \in {"seated", "call", "end", "ended", "seat"} => ops[p].davet \in Davet
    BY <1>1, OpFields
  <2> QED
    BY <1>1, <1>2, <2>1 DEF OpsKnown, OnlyEnds
<1>9. DavetsOfGood'
  <2>0. \A x \in Mb : x # m /\ Good(x) => Good(x)'
    BY DEF Good
  <2>1. ASSUME NEW d \in Davet, davets'[d].row = "live"
        PROVE  Good(davets[d].mb)'
    <3>1. davets[d].row = "live" /\ davets[d] # NoRow /\ davets'[d].mb = davets[d].mb /\ davets[d].mb \in Mb
      BY <1>1, <1>2, <2>1, DavetFields DEF OnlyEnds, NoRow
    <3>2. davets[d].mb # m
      BY <1>2, <2>1, <3>1 DEF MemberDavets
    <3> QED
      BY <3>1, <3>2 DEF DavetsOfGood, Good
  <2>2. ASSUME NEW d \in hotDavets'
        PROVE  /\ davets'[d] # NoRow
               /\ Good(davets[d].mb)' \/ \E p \in Op : ops'[p].at \in {"barred", "gone"} /\ ops'[p].mb = davets'[d].mb
    <3>1. d \in hotDavets /\ davets[d] # NoRow /\ davets'[d] # NoRow /\ davets'[d].mb = davets[d].mb /\ davets[d].mb \in Mb
      BY <1>1, <1>2, DavetFields DEF DavetsOfGood, OnlyEnds
    <3>2. CASE davets[d].mb = m
      BY <1>1, <3>1, <3>2
    <3>3. CASE davets[d].mb # m
      <4>1. Good(davets[d].mb)
        BY <1>4, <3>1 DEF DavetsOfGood, HoldsMutex
      <4> QED
        BY <3>1, <3>3, <4>1 DEF Good
    <3> QED
      BY <3>2, <3>3
  <2>3. \A p \in Op : ops'[p].at # "seated"
    BY <1>1, <1>4 DEF HoldsMutex
  <2> QED
    BY <2>1, <2>2, <2>3 DEF DavetsOfGood
<1>10. LobbyAwaits'
  <2> SUFFICES ASSUME NEW x \in Mb, lobby[x].at = "open", NEW d \in hotDavets, davets'[d].mb = x
               PROVE  Awaited(x, d)'
    BY DEF LobbyAwaits, DavetsOf
  <2>1. Awaited(x, d)
    BY <1>1, <1>2 DEF LobbyAwaits, DavetsOf, OnlyEnds, DavetsOfGood
  <2>2. ASSUME NEW p \in Op, ops[p] = [at |-> "call", davet |-> d]
        PROVE  ops'[p] = ops[p]
    <3>1. ops[p].at = "call"
      BY <2>2
    <3> QED
      BY <1>1, <3>1
  <2> QED
    BY <2>1, <2>2 DEF Awaited
<1> QED
  BY <1>3, <1>6, <1>7, <1>8, <1>9, <1>10

(* suspend_member and revoke_member are such transactions. *)
LEMMA SuspendKeeps ==
    ASSUME BldInv, NEW o \in Op, NEW m \in Mb, Suspend(o, m)
    PROVE  BldInv'
<1> USE DEF BldInv
<1>1. /\ suspended' = suspended \cup {m} /\ off' = off \cup {m} /\ UNCHANGED <<rows, roster, calls, keys>>
      /\ ops[o] = Ready /\ ~lifecycle /\ lifecycle' /\ m \in roster
  BY DEF Suspend, admVars
<1>2. MemberTyped' /\ KeysOfMembers' /\ MirrorsApart'
  BY <1>1 DEF MemberTyped, KeysOfMembers, MirrorsApart
<1>3. sessRows' \in [Session -> SessState]
  <2>1. ASSUME NEW s \in Session, sessRows[s].row = "live"
        PROVE  [sessRows[s] EXCEPT !.row = "revoked"] \in SessState
    <3>1. sessRows[s] \in [row : {"live", "revoked"}, mb : Mb, key : Key]
      BY <2>1 DEF HoldTyped, SessState, NoRow
    <3> QED
      BY <3>1 DEF SessState
  <2> QED
    BY <2>1 DEF Suspend, HoldTyped
<1>4. /\ ops' = [ops EXCEPT ![o] = [at |-> "barred", mb |-> m]] /\ davets' = EndRows(MemberDavets(m))
      /\ UNCHANGED <<hotDavets, hotSess, lobby>>
  BY DEF Suspend
<1>5. \A x \in Mb : x # m => rows'[x] = rows[x] /\ (x \in suspended' <=> x \in suspended)
  BY <1>1
<1> QED
  BY <1>1, <1>2, <1>3, <1>4, <1>5, BarringKeeps

(* The same for revoke_member. *)
LEMMA RevokeMemberKeeps ==
    ASSUME BldInv, NEW o \in Op, NEW m \in Mb, RevokeMember(o, m)
    PROVE  BldInv'
<1> USE DEF BldInv
<1>1. /\ off' = off \cup {m} /\ UNCHANGED <<roster, calls, suspended>> /\ rows' = [rows EXCEPT ![m].row = "revoked"]
      /\ keys' = [keys EXCEPT ![<<m, "legacy">>] = "revoked"]
      /\ ops[o] = Ready /\ ~lifecycle /\ lifecycle' /\ m \in roster
      /\ ops' = [ops EXCEPT ![o] = [at |-> "gone", mb |-> m]] /\ davets' = EndRows(MemberDavets(m))
      /\ UNCHANGED <<hotDavets, hotSess, lobby, sessRows>>
  BY DEF RevokeMember, OffWith
<1>2. rows \in [Mb -> MemberState] /\ rows[m].row \in {"live", "revoked"} /\ keys \in [Mb \X Key -> {"none", "live", "revoked"}]
  BY <1>1 DEF MemberTyped, RosterLives
<1>3. rows[m] \in [name : Name, row : {"live", "revoked"}]
  BY <1>2 DEF MemberState
<1>4. [rows[m] EXCEPT !.row = "revoked"] \in MemberState /\ [rows[m] EXCEPT !.row = "revoked"].row = "revoked"
  BY <1>3 DEF MemberState
<1>5. /\ rows' \in [Mb -> MemberState] /\ rows'[m].row = "revoked" /\ \A x \in Mb : x # m => rows'[x] = rows[x]
  BY <1>1, <1>2, <1>4
<1>6. MemberTyped'
  BY <1>1, <1>2, <1>5 DEF MemberTyped
<1>7. KeysOfMembers'
  <2>1. \A x \in Mb, j \in Key : <<x, j>> \in Mb \X Key /\ (<<x, j>> = <<m, "legacy">> => x = m)
    OBVIOUS
  <2> QED
    BY <1>1, <1>2, <1>5, <2>1 DEF KeysOfMembers
<1>8. MirrorsApart'
  <2>1. \A c \in Call : calls[c].at = "mirror" => calls[c].mb \in Mb /\ calls[c].mb # m
    BY <1>1 DEF MemberTyped, MirrorsApart, CallState, Idle
  <2> QED
    BY <1>1, <1>5, <2>1 DEF MirrorsApart
<1>9. sessRows' \in [Session -> SessState]
  BY <1>1 DEF HoldTyped
<1>10. \A x \in Mb : x # m => rows'[x] = rows[x] /\ (x \in suspended' <=> x \in suspended)
  BY <1>1, <1>5
<1> QED
  BY <1>1, <1>5, <1>6, <1>7, <1>8, <1>9, <1>10, BarringKeeps

(* The hot half ends the cascade of the one handler that holds the mutex. *)
LEMMA BarKeeps ==
    ASSUME BldInv, NEW o \in Op, Bar(o)
    PROVE  BldInv'
<1> USE DEF BldInv
<1>1. PICK m \in Mb, st \in {"barred", "gone"} : ops[o] = [at |-> st, mb |-> m] /\ ops[o].at = st /\ ops[o].mb = m
  BY OpFields DEF Bar, HoldTyped
<1>2. /\ ops' = [ops EXCEPT ![o] = Ready] /\ hotDavets' = hotDavets \ DavetsOf(m) /\ hotSess' = WithoutMember(m)
      /\ roster' = (IF st = "gone" THEN roster \ {m} ELSE roster)
      /\ lobby' = Send([t |-> "barred", mb |-> m]) /\ ~lifecycle'
      /\ UNCHANGED <<rows, calls, suspended, off, keys, davets, sessRows>>
  BY <1>1 DEF Bar
<1>3. PICK e \in BusEvent : e = [t |-> "barred", mb |-> m]
  BY DEF BusEvent
<1>4. /\ lobby' \in [Mb -> LobbyState]
      /\ \A x \in Mb : lobby'[x].at = lobby[x].at /\ lobby'[x].told = lobby[x].told
      /\ \A x \in Mb : lobby[x].at = "open" =>
           \/ InBus(lobby'[x].bus, Lagged)
           \/ InBus(lobby'[x].bus, e) /\ \A y : InBus(lobby[x].bus, y) => InBus(lobby'[x].bus, y)
  BY <1>2, <1>3, SendKeeps DEF HoldTyped
<1>5. /\ ops \in [Op -> OpState] /\ ops' \in [Op -> OpState] /\ ops'[o].at = "ready"
      /\ \A p \in Op : p # o => ops'[p] = ops[p]
  BY <1>2, OpStages DEF HoldTyped
<1>6. \A p \in Op : HoldsMutex(p) => p = o
  BY <1>1 DEF OneHolder, HoldsMutex
<1>7. hotSess' \in [Session -> HotState]
  BY <1>2, SessionsGo DEF WithoutMember
<1>8. MemberTyped' /\ HoldTyped' /\ KeysOfMembers' /\ MirrorsApart'
  BY <1>2, <1>4, <1>5, <1>7 DEF MemberTyped, HoldTyped, KeysOfMembers, MirrorsApart
<1>9. ASSUME NEW x \in roster'
      PROVE  rows'[x].row = "live"
  <2> SUFFICES ASSUME rows[x].row # "live" PROVE FALSE
    BY <1>2
  <2>1. PICK p \in Op : ops[p] = [at |-> "gone", mb |-> x]
    BY <1>2, <1>9 DEF RosterLives
  <2>2. ops[p].at = "gone" /\ ops[p].mb = x
    BY <2>1
  <2>3. p = o
    BY <1>6, <2>2 DEF HoldsMutex
  <2> QED
    BY <1>1, <1>2, <1>9, <2>2, <2>3
<1>10. RosterLives' /\ OneHolder' /\ OpsKnown'
  BY <1>2, <1>5, <1>6, <1>9 DEF RosterLives, OneHolder, HoldsMutex, OpsKnown
<1>11. DavetsOfGood'
  <2>1. \A d \in hotDavets' : Good(davets[d].mb)
    <3> SUFFICES ASSUME NEW d \in hotDavets', ~Good(davets[d].mb) PROVE FALSE
      OBVIOUS
    <3>1. PICK p \in Op : ops[p].at \in {"barred", "gone"} /\ ops[p].mb = davets[d].mb
      BY <1>2 DEF DavetsOfGood
    <3>2. p = o
      BY <1>6, <3>1 DEF HoldsMutex
    <3> QED
      BY <1>1, <1>2, <3>1, <3>2 DEF DavetsOf
  <2> QED
    BY <1>2, <1>5, <1>6, <2>1 DEF DavetsOfGood, Good, HoldsMutex
<1>12. LobbyAwaits'
  <2> SUFFICES ASSUME NEW x \in Mb, lobby[x].at = "open", NEW d \in hotDavets, davets[d].mb = x
               PROVE  Awaited(x, d)'
    BY <1>2, <1>4 DEF LobbyAwaits, DavetsOf
  <2>1. Awaited(x, d)
    BY DEF LobbyAwaits, DavetsOf
  <2>2. ASSUME NEW p \in Op, ops[p] = [at |-> "call", davet |-> d]
        PROVE  ops'[p] = ops[p]
    <3>1. ops[p].at = "call"
      BY <2>2
    <3> QED
      BY <1>1, <1>5, <3>1
  <2> QED
    BY <1>4, <2>1, <2>2 DEF Awaited
<1> QED
  BY <1>8, <1>10, <1>11, <1>12

(* A resumption only makes a member good again. *)
LEMMA ResumeKeeps ==
    ASSUME BldInv, NEW m \in Mb, Resume(m)
    PROVE  BldInv'
<1> USE DEF BldInv
<1>1. /\ suspended' = suspended \ {m} /\ off' = off \ {m} /\ rows[m].row = "live"
      /\ UNCHANGED <<rows, roster, calls, keys, davets, hotDavets, sessRows, hotSess, lifecycle, ops, lobby>>
  BY DEF Resume, Resumable, admVars
<1>2. MemberTyped' /\ KeysOfMembers' /\ MirrorsApart' /\ RosterLives' /\ HoldTyped' /\ OneHolder' /\ OpsKnown'
  BY <1>1 DEF MemberTyped, KeysOfMembers, MirrorsApart, RosterLives, HoldTyped, OneHolder, HoldsMutex, OpsKnown
<1>3. DavetsOfGood'
  BY <1>1 DEF DavetsOfGood, Good
<1>4. LobbyAwaits'
  BY <1>1 DEF LobbyAwaits, DavetsOf, Awaited
<1> QED
  BY <1>2, <1>3, <1>4

(* Reading the head of the bus. *)
LEMMA HeadOrRest ==
    ASSUME NEW bus \in Seq(BusEvent), bus # <<>>
    PROVE  /\ Head(bus) \in BusEvent /\ Tail(bus) \in Seq(BusEvent)
           /\ \A x : InBus(bus, x) => x = Head(bus) \/ InBus(Tail(bus), x)
<1>1. /\ Len(bus) \in Nat \ {0} /\ Head(bus) = bus[1] /\ Head(bus) \in BusEvent
      /\ Tail(bus) \in Seq(BusEvent) /\ Len(Tail(bus)) = Len(bus) - 1
      /\ \A i \in 1..Len(Tail(bus)) : Tail(bus)[i] = bus[i + 1]
  BY EmptySeq, HeadTailProperties
<1>2. ASSUME NEW x, NEW i \in 1..Len(bus), bus[i] = x
      PROVE  x = Head(bus) \/ InBus(Tail(bus), x)
  <2>1. CASE i = 1
    BY <1>1, <1>2, <2>1
  <2>2. CASE i # 1
    <3>1. i - 1 \in 1..Len(Tail(bus)) /\ (i - 1) + 1 = i
      BY <1>1, <2>2
    <3> QED
      BY <1>1, <1>2, <3>1 DEF InBus
  <2> QED
    BY <2>1, <2>2
<1> QED
  BY <1>1, <1>2 DEF InBus

(* What the client was told grows, and an event is not dropped unheard. *)
LEMMA AfterEventTells ==
    ASSUME HoldTyped, NEW m \in Mb, NEW e \in BusEvent
    PROVE  /\ AfterEvent(m, e) \subseteq Davet /\ lobby[m].told \subseteq AfterEvent(m, e)
           /\ e = Lagged => DavetsOf(m) \subseteq AfterEvent(m, e)
           /\ \A d : e = [t |-> "called", mb |-> m, davet |-> d] => d \in AfterEvent(m, e)
<1>1. lobby[m].told \subseteq Davet /\ DavetsOf(m) \subseteq Davet
  BY DEF HoldTyped, LobbyState, DavetsOf
<1>2. CASE e = Lagged
  <2>1. AfterEvent(m, e) = lobby[m].told \cup DavetsOf(m)
    BY <1>2 DEF AfterEvent, AfterLag
  <2>2. \A d : Lagged # [t |-> "called", mb |-> m, davet |-> d]
    <3> SUFFICES ASSUME NEW d, Lagged = [t |-> "called", mb |-> m, davet |-> d] PROVE FALSE
      OBVIOUS
    <3>1. Lagged.t = "lagged" /\ [t |-> "called", mb |-> m, davet |-> d].t = "called"
      BY DEF Lagged
    <3> QED
      BY <3>1
  <2> QED
    BY <1>1, <1>2, <2>1, <2>2
<1>3. CASE e # Lagged /\ e.t = "called" /\ e.mb = m
  <2>1. AfterEvent(m, e) = lobby[m].told \cup {e.davet}
    BY <1>3 DEF AfterEvent
  <2>2. e.davet \in Davet
    BY <1>3 DEF BusEvent
  <2> QED
    BY <1>1, <1>3, <2>1, <2>2
<1>4. CASE e # Lagged /\ ~(e.t = "called" /\ e.mb = m)
  <2>1. AfterEvent(m, e) = lobby[m].told
    BY <1>4 DEF AfterEvent
  <2> QED
    BY <1>1, <1>4, <2>1
<1> QED
  BY <1>2, <1>3, <1>4

(* A socket comes, reads and goes. *)
LEMMA LobbySteps ==
    ASSUME BldInv, LobbyStep
    PROVE  BldInv'
<1> USE DEF BldInv
<1>0. UNCHANGED <<rows, roster, calls, suspended, off, keys, davets, hotDavets, sessRows, hotSess, lifecycle, ops>>
  BY DEF LobbyStep, LobbyVerify, LobbySubscribe, LobbySnapshot, LobbyRecv, LobbyDrops, admVars
<1>1. MemberTyped' /\ KeysOfMembers' /\ MirrorsApart' /\ RosterLives' /\ OneHolder' /\ OpsKnown' /\ DavetsOfGood'
  BY <1>0 DEF MemberTyped, KeysOfMembers, MirrorsApart, RosterLives, OneHolder, HoldsMutex, OpsKnown, DavetsOfGood, Good
<1>2. ASSUME NEW m \in Mb, NEW l \in LobbyState, lobby' = [lobby EXCEPT ![m] = l],
             l.at = "open" => \A d \in DavetsOf(m) : \/ d \in l.told
                                                     \/ \E o \in Op : ops[o] = [at |-> "call", davet |-> d]
                                                     \/ InBus(l.bus, [t |-> "called", mb |-> m, davet |-> d])
                                                     \/ InBus(l.bus, Lagged)
      PROVE  BldInv'
  <2>1. lobby' \in [Mb -> LobbyState] /\ lobby'[m] = l /\ \A x \in Mb : x # m => lobby'[x] = lobby[x]
    BY <1>2 DEF HoldTyped
  <2>2. HoldTyped'
    BY <1>0, <2>1 DEF HoldTyped
  <2>3. ASSUME NEW x \in Mb, lobby'[x].at = "open", NEW d \in DavetsOf(x)
        PROVE  Awaited(x, d)'
    BY <1>0, <1>2, <2>1, <2>3 DEF LobbyAwaits, Awaited
  <2>4. LobbyAwaits'
    BY <1>0, <2>3 DEF LobbyAwaits, DavetsOf
  <2> QED
    BY <1>1, <2>2, <2>4
<1>3. \A m \in Mb : lobby[m] \in LobbyState
  BY DEF HoldTyped
<1>4. Out \in LobbyState /\ Out.at = "out"
  BY DEF Out, LobbyState
<1>5. ASSUME NEW m \in Mb, (\E k \in Key : LobbyVerify(m, k)) \/ LobbySubscribe(m)
      PROVE  BldInv'
  <2>1. PICK at \in {"verified", "subscribed"} : lobby' = [lobby EXCEPT ![m].at = at]
    BY <1>5 DEF LobbyVerify, LobbySubscribe
  <2>2. [lobby[m] EXCEPT !.at = at] \in LobbyState /\ [lobby[m] EXCEPT !.at = at].at # "open"
    BY <1>3 DEF LobbyState
  <2>3. lobby' = [lobby EXCEPT ![m] = [lobby[m] EXCEPT !.at = at]]
    BY <2>1
  <2> QED
    BY <1>2, <2>2, <2>3
<1>6. ASSUME NEW m \in Mb, LobbySnapshot(m)
      PROVE  BldInv'
  <2>1. PICK l : l = [at |-> "open", bus |-> lobby[m].bus, told |-> DavetsOf(m)]
    OBVIOUS
  <2>2. l \in LobbyState /\ l.told = DavetsOf(m)
    BY <1>3, <2>1 DEF LobbyState, DavetsOf, HoldTyped
  <2>3. lobby' = [lobby EXCEPT ![m] = l]
    BY <1>6, <2>1 DEF LobbySnapshot
  <2> QED
    BY <1>2, <2>2, <2>3
<1>7. ASSUME NEW m \in Mb, LobbyRecv(m)
      PROVE  BldInv'
  <2>1. PICK e \in BusEvent, rest \in Seq(BusEvent) :
          e = Head(lobby[m].bus) /\ rest = Tail(lobby[m].bus) /\ \A x : InBus(lobby[m].bus, x) => x = e \/ InBus(rest, x)
    <3>1. lobby[m].bus \in Seq(BusEvent) /\ lobby[m].bus # <<>>
      BY <1>3, <1>7 DEF LobbyRecv, LobbyState
    <3> QED
      BY <3>1, HeadOrRest
  <2>2. lobby' = [lobby EXCEPT ![m] = IF e = [t |-> "barred", mb |-> m] THEN Out
                                      ELSE [at |-> "open", bus |-> rest, told |-> AfterEvent(m, e)]]
        /\ lobby[m].at = "open"
    BY <1>7, <2>1 DEF LobbyRecv
  <2>3. CASE e = [t |-> "barred", mb |-> m]
    BY <1>2, <1>4, <2>2, <2>3
  <2>4. CASE e # [t |-> "barred", mb |-> m]
    <3>1. PICK told \in SUBSET Davet : told = AfterEvent(m, e)
      BY AfterEventTells
    <3>2. PICK l \in LobbyState : l = [at |-> "open", bus |-> rest, told |-> told]
      BY DEF LobbyState
    <3>3. lobby' = [lobby EXCEPT ![m] = l] /\ l.told = told /\ l.bus = rest
      BY <2>2, <2>4, <3>1, <3>2
    <3>4. ASSUME NEW d \in DavetsOf(m)
          PROVE  \/ d \in told
                 \/ \E o \in Op : ops[o] = [at |-> "call", davet |-> d]
                 \/ InBus(rest, [t |-> "called", mb |-> m, davet |-> d])
                 \/ InBus(rest, Lagged)
      <4>1. Awaited(m, d)
        BY <2>2 DEF LobbyAwaits
      <4>2. CASE d \in lobby[m].told
        BY <3>1, <4>2, AfterEventTells
      <4>3. CASE InBus(lobby[m].bus, [t |-> "called", mb |-> m, davet |-> d])
        BY <2>1, <3>1, <4>3, AfterEventTells
      <4>4. CASE InBus(lobby[m].bus, Lagged)
        BY <2>1, <3>1, <4>4, AfterEventTells
      <4> QED
        BY <4>1, <4>2, <4>3, <4>4 DEF Awaited
    <3> QED
      BY <1>2, <3>3, <3>4
  <2> QED
    BY <2>3, <2>4
<1>8. ASSUME NEW m \in Mb, LobbyDrops(m)
      PROVE  BldInv'
  BY <1>2, <1>4, <1>8 DEF LobbyDrops
<1> QED
  BY <1>5, <1>6, <1>7, <1>8 DEF LobbyStep

(* The tables that a restart loads hold nothing that was taken away. *)
LEMMA RestartKeeps ==
    ASSUME BldInv, BldRestart
    PROVE  BldInv'
<1> USE DEF BldInv
<1>1. /\ roster' = {m \in Mb : rows[m].row = "live"} /\ calls' = [c \in Call |-> Idle]
      /\ hotDavets' = {d \in Davet : davets[d].row = "live"} /\ hotSess' = [s \in Session |-> NoRow]
      /\ ~lifecycle' /\ ops' = [o \in Op |-> Ready] /\ lobby' = [m \in Mb |-> Out]
      /\ UNCHANGED <<rows, suspended, off, keys, davets, sessRows>>
  BY DEF BldRestart, AdmRestart, LoadedMembers, LiveRows
<1>2. /\ Idle.at = "idle" /\ Idle \in CallState /\ NoRow \in HotState /\ Ready.at = "ready" /\ Ready \in OpState
      /\ Out \in LobbyState /\ Out.at = "out" /\ NoRow.row = "none"
  BY AdmStages, OpStages DEF Idle, HotState, NoRow, Out, LobbyState
<1>3. MemberTyped' /\ HoldTyped' /\ KeysOfMembers' /\ MirrorsApart' /\ RosterLives' /\ OneHolder' /\ OpsKnown'
  BY <1>1, <1>2 DEF MemberTyped, HoldTyped, KeysOfMembers, MirrorsApart, RosterLives, OneHolder, HoldsMutex, OpsKnown
<1>4. DavetsOfGood'
  BY <1>1, <1>2 DEF DavetsOfGood, Good
<1>5. LobbyAwaits'
  BY <1>1, <1>2 DEF LobbyAwaits
<1> QED
  BY <1>3, <1>4, <1>5

-----------------------------------------------------------------------------
(* The results *)

(* The building opens empty. *)
LEMMA BldInitially ==
    ASSUME BldInit
    PROVE  BldInv
<1>1. /\ rows = [m \in Mb |-> [row |-> "none"]] /\ roster = {} /\ calls = [c \in Call |-> Idle]
      /\ suspended = {} /\ off = {} /\ keys = [k \in Mb \X Key |-> "none"] /\ davets = [d \in Davet |-> NoRow]
      /\ hotDavets = {} /\ sessRows = [s \in Session |-> NoRow] /\ hotSess = [s \in Session |-> NoRow]
      /\ lifecycle = FALSE /\ ops = [o \in Op |-> Ready] /\ lobby = [m \in Mb |-> Out]
  BY DEF BldInit, AdmInit
<1>2. /\ Idle.at = "idle" /\ Idle \in CallState /\ NoRow \in HotState /\ NoRow \in SessState /\ NoRow \in DavetState
      /\ Ready.at = "ready" /\ Ready \in OpState /\ Out \in LobbyState /\ Out.at = "out" /\ NoRow.row = "none"
      /\ [row |-> "none"] \in MemberState
  BY AdmStages, OpStages DEF Idle, HotState, SessState, DavetState, NoRow, Out, LobbyState, MemberState
<1>3. MemberTyped /\ HoldTyped
  BY <1>1, <1>2 DEF MemberTyped, HoldTyped
<1>4. KeysOfMembers /\ MirrorsApart /\ RosterLives /\ OneHolder /\ OpsKnown
  BY <1>1, <1>2 DEF KeysOfMembers, MirrorsApart, RosterLives, OneHolder, HoldsMutex, OpsKnown
<1>5. DavetsOfGood /\ LobbyAwaits
  BY <1>1, <1>2 DEF DavetsOfGood, LobbyAwaits
<1> QED
  BY <1>3, <1>4, <1>5 DEF BldInv

(* Every step of the building keeps the invariant. *)
LEMMA BldStep ==
    ASSUME BldInv, [BldNext]_bldVars
    PROVE  BldInv'
<1>1. CASE MemberStep
  BY <1>1, MemberSteps
<1>2. CASE DavetStep
  <2>1. ASSUME NEW o \in Op, AddInvite(o)
        PROVE  BldInv'
    BY <2>1, ReleaseSteps, AddInviteKeeps
  <2>2. ASSUME NEW o \in Op, AddInviteHot(o) \/ CallMember(o)
        PROVE  BldInv'
    BY <2>2, AddInviteHotKeeps, CallMemberKeeps
  <2>3. ASSUME NEW o \in Op,
               \/ \E m \in Mb, l \in Room : Invite(o, m, l)
               \/ \E d \in Davet : RevokeInvite(o, d)
               \/ \E l \in Room, name \in Name : Kick(o, l, name)
               \/ RevokeInviteRow(o) \/ RevokeInviteHot(o) \/ KickRows(o) \/ KickHot(o) \/ StorageFails(o)
        PROVE  BldInv'
    BY <2>3, ReleaseSteps
  <2> QED
    BY <1>2, <2>1, <2>2, <2>3 DEF DavetStep
<1>3. CASE BarStep
  BY <1>3, SuspendKeeps, RevokeMemberKeeps, BarKeeps, ResumeKeeps DEF BarStep
<1>4. CASE BearerStep
  BY <1>4, BearerSteps
<1>5. CASE LobbyStep
  BY <1>5, LobbySteps
<1>6. CASE BldRestart
  BY <1>6, RestartKeeps
<1>7. CASE UNCHANGED bldVars
  <2>1. UNCHANGED <<rows, roster, calls, suspended, off, keys, davets, hotDavets, sessRows, hotSess, lifecycle, ops, lobby>>
    BY <1>7 DEF bldVars, admVars, holdVars
  <2> QED
    BY <2>1 DEF BldInv, MemberTyped, HoldTyped, KeysOfMembers, MirrorsApart, RosterLives, OneHolder, HoldsMutex, OpsKnown,
                DavetsOfGood, Good, LobbyAwaits, DavetsOf, Awaited
<1> QED
  BY <1>1, <1>2, <1>3, <1>4, <1>5, <1>6, <1>7 DEF BldNext

(* The inductive invariant of the building. *)
THEOREM BuildingInvariant == BldSpec => []BldInv
<1>1. BldInit => BldInv
  BY BldInitially
<1>2. BldInv /\ [BldNext]_bldVars => BldInv'
  BY BldStep
<1> QED
  BY <1>1, <1>2, PTL DEF BldSpec

(* Once its cascade is over, a suspended or removed member holds no davet, in
   the tables or in the hot map: an invitation checked before and written after
   it is refused under the mutex, and nothing brings a davet back. *)
THEOREM BarredIsBarred == BldSpec => []BarredHoldNoDavet
<1>1. BldInv => BarredHoldNoDavet
  <2> SUFFICES ASSUME BldInv, ~lifecycle, NEW d \in Davet, d \in hotDavets \/ davets[d].row = "live"
               PROVE  Good(davets[d].mb)
    BY DEF BarredHoldNoDavet, Good
  <2>1. \A o \in Op : ops[o].at \notin {"barred", "gone"}
    BY DEF BldInv, OneHolder, HoldsMutex
  <2> QED
    BY <2>1 DEF BldInv, DavetsOfGood
<1> QED
  BY <1>1, BuildingInvariant, PTL

(* An open lobby socket that has read its bus knows every davet its member
   holds, but those whose call is still to be sent. *)
THEOREM LobbyIsTold == BldSpec => []LobbyHearsCalls
<1>1. BldInv => LobbyHearsCalls
  <2> SUFFICES ASSUME BldInv, NEW m \in Mb, lobby[m].at = "open", lobby[m].bus = <<>>, NEW d \in DavetsOf(m)
               PROVE  d \in lobby[m].told \/ \E o \in Op : ops[o] = [at |-> "call", davet |-> d]
    BY DEF LobbyHearsCalls
  <2>1. Awaited(m, d)
    BY DEF BldInv, LobbyAwaits
  <2>2. \A x : ~InBus(lobby[m].bus, x)
    BY DEF InBus
  <2> QED
    BY <2>1, <2>2 DEF Awaited
<1> QED
  BY <1>1, BuildingInvariant, PTL

(* A key that ended stays ended. *)
LEMMA KeyStaysEnded ==
    ASSUME BldInv, [BldNext]_bldVars, NEW m \in Mb, NEW k \in Key, Ended(m, k)
    PROVE  ~KeyWorks(m, k)'
<1>0. keys \in [Mb \X Key -> {"none", "live", "revoked"}] /\ <<m, k>> \in Mb \X Key
  BY DEF BldInv, MemberTyped
<1>1. CASE UNCHANGED <<keys, off>>
  BY <1>1 DEF BldInv, KeysOfMembers, KeyWorks, Ended
<1>2. CASE MemberStep
  <2>1. keys'[<<m, k>>] = (IF m \in NewMembers /\ k = "legacy" THEN "live" ELSE keys[<<m, k>>]) /\ off' = off
    BY <1>0, <1>2 DEF MemberStep
  <2>2. m \notin NewMembers
    BY DEF BldInv, KeysOfMembers, NewMembers, Ended
  <2> QED
    BY <2>1, <2>2 DEF BldInv, KeysOfMembers, KeyWorks, Ended
<1>3. ASSUME NEW x \in Mb, CreateKey(x)
      PROVE  ~KeyWorks(m, k)'
  BY <1>0, <1>3 DEF CreateKey, BldInv, KeysOfMembers, KeyWorks, Ended
<1>4. ASSUME NEW o \in Op, NEW x \in Mb, NEW j \in Key, RevokeKey(o, x, j)
      PROVE  ~KeyWorks(m, k)'
  BY <1>0, <1>4 DEF RevokeKey, BldInv, KeysOfMembers, KeyWorks, Ended
<1>5. ASSUME NEW o \in Op, NEW x \in Mb, RevokeMember(o, x) \/ Suspend(o, x)
      PROVE  ~KeyWorks(m, k)'
  <2>1. keys'[<<m, k>>] \in {keys[<<m, k>>], "revoked"} /\ off \subseteq off'
    BY <1>0, <1>5 DEF RevokeMember, Suspend, OffWith
  <2> QED
    BY <2>1 DEF BldInv, KeysOfMembers, KeyWorks, Ended
<1>6. ASSUME NEW x \in Mb, Resume(x)
      PROVE  ~KeyWorks(m, k)'
  BY <1>6 DEF Resume, Resumable, BldInv, KeysOfMembers, KeyWorks, Ended
<1>7. CASE DavetStep \/ LobbyStep \/ BldRestart
  <2>1. UNCHANGED <<keys, off>>
    BY <1>7 DEF DavetStep, LobbyStep, BldRestart, Invite, AddInvite, AddInviteHot, CallMember, RevokeInvite,
                RevokeInviteRow, RevokeInviteHot, Kick, KickRows, KickHot, StorageFails, LobbyVerify, LobbySubscribe,
                LobbySnapshot, LobbyRecv, LobbyDrops
  <2> QED
    BY <1>1, <2>1
<1>8. CASE BarStep
  <2>1. ASSUME NEW o \in Op, Bar(o)
        PROVE  ~KeyWorks(m, k)'
    BY <1>1, <2>1 DEF Bar
  <2> QED
    BY <1>5, <1>6, <1>8, <2>1 DEF BarStep
<1>9. CASE BearerStep
  <2>1. ASSUME UNCHANGED <<keys, off>>
        PROVE  ~KeyWorks(m, k)'
    BY <1>1, <2>1
  <2> QED
    BY <1>3, <1>4, <1>9, <2>1 DEF BearerStep, RevokeKeyHot, SeatSession, BindSession, OpenSession, KeySession, Logout, PurgeSession
<1>10. CASE UNCHANGED bldVars
  BY <1>1, <1>10 DEF bldVars, holdVars
<1> QED
  BY <1>2, <1>7, <1>8, <1>9, <1>10 DEF BldNext

(* A session with a row is bound, and a session being opened belongs to one handler. *)
Opening(o) == ops[o].at \in {"seat", "open"}

SessBound ==
    /\ \A s \in Session : hotSess[s] # NoRow /\ sessRows[s] # NoRow => hotSess[s].bound
    /\ \A o \in Op : ops[o].at = "open" /\ sessRows[ops[o].sess] # NoRow => ops[o].hot.bound
    /\ \A o \in Op : ops[o].at = "seat" => sessRows[ops[o].sess] = NoRow
    /\ \A o \in Op : Opening(o) => hotSess[ops[o].sess] = NoRow
    /\ \A o, p \in Op : Opening(o) /\ Opening(p) /\ ops[o].sess = ops[p].sess => o = p

(* What a step may do with the row of a session. *)
RowGoesOn(s) ==
    sessRows[s] # NoRow => /\ sessRows'[s] # NoRow /\ sessRows'[s].mb = sessRows[s].mb /\ sessRows'[s].key = sessRows[s].key
                           /\ sessRows[s].row = "revoked" => sessRows'[s].row = "revoked"

(* A step that opens no session. *)
LEMMA QuietSessions ==
    ASSUME SessBound, \A s \in Session : RowGoesOn(s) /\ (sessRows'[s] = NoRow <=> sessRows[s] = NoRow),
           \A s \in Session : hotSess'[s] \in {hotSess[s], NoRow},
           \A o \in Op : Opening(o) => ops[o].sess \in Session,
           \A o \in Op : Opening(o)' => ops'[o] = ops[o]
    PROVE  SessBound'
<1>1. \A o \in Op : Opening(o)' => Opening(o) /\ ops'[o] = ops[o] /\ ops[o].sess \in Session
  BY DEF Opening
<1> QED
  BY <1>1 DEF SessBound, Opening

(* Sessions through every step. *)
LEMMA SessStep ==
    ASSUME BldInv, SessBound, [BldNext]_bldVars
    PROVE  SessBound' /\ \A s \in Session : RowGoesOn(s)
<1>0. /\ ops \in [Op -> OpState] /\ sessRows \in [Session -> SessState] /\ hotSess \in [Session -> HotState]
      /\ \A o \in Op : Opening(o) => ops[o].sess \in Session
  BY OpFields DEF BldInv, HoldTyped, Opening
<1> DEFINE Thinned == \A s \in Session : hotSess'[s] \in {hotSess[s], NoRow}
           Calm == \A o \in Op : Opening(o)' => ops'[o] = ops[o]
           Goal == SessBound' /\ \A s \in Session : RowGoesOn(s)
<1>1. ASSUME sessRows' = sessRows, Thinned, Calm PROVE Goal
  <2>1. \A s \in Session : RowGoesOn(s) /\ (sessRows'[s] = NoRow <=> sessRows[s] = NoRow)
    BY <1>1 DEF RowGoesOn
  <2> QED
    BY <1>0, <1>1, <2>1, QuietSessions
<1>2. ASSUME NEW R, Thinned, Calm,
             sessRows' = [s \in Session |-> IF sessRows[s].row = "live" /\ s \in R THEN [sessRows[s] EXCEPT !.row = "revoked"] ELSE sessRows[s]]
      PROVE  Goal
  <2>1. ASSUME NEW s \in Session PROVE RowGoesOn(s) /\ (sessRows'[s] = NoRow <=> sessRows[s] = NoRow)
    <3>1. sessRows'[s] = sessRows[s] \/ (sessRows[s].row = "live" /\ sessRows'[s] = [sessRows[s] EXCEPT !.row = "revoked"])
      BY <1>2
    <3>2. sessRows[s] \in SessState
      BY <1>0
    <3>3. CASE sessRows'[s] = sessRows[s]
      BY <3>3 DEF RowGoesOn
    <3>4. CASE sessRows[s].row = "live" /\ sessRows'[s] = [sessRows[s] EXCEPT !.row = "revoked"]
      BY <3>2, <3>4 DEF RowGoesOn, SessState, NoRow
    <3> QED
      BY <3>1, <3>3, <3>4
  <2> QED
    BY <1>0, <1>2, <2>1, QuietSessions
<1>3. ASSUME NEW o \in Op, NEW st, ops' = [ops EXCEPT ![o] = st], st.at \notin {"seat", "open"} PROVE Calm
  BY <1>0, <1>3 DEF Opening
<1>4. ASSUME NEW o \in Op, NEW a, ops' = [ops EXCEPT ![o].at = a], a \notin {"seat", "open"} PROVE Calm
  <2>1. ops' = [ops EXCEPT ![o] = [ops[o] EXCEPT !.at = a]] /\ [ops[o] EXCEPT !.at = a].at = a
    BY <1>0, <1>4 DEF OpState, Ready
  <2> QED
    BY <1>3, <1>4, <2>1
<1>5. (hotSess' = hotSess => Thinned) /\ (ops' = ops => Calm)
  OBVIOUS
<1>6. Ready.at = "ready"
  BY DEF Ready
<1>7. \A ds, m : /\ hotSess' = WithoutSeats(ds) => Thinned
                 /\ hotSess' = WithoutMember(m) => Thinned
  BY DEF WithoutSeats, WithoutMember
<1> HIDE DEF Thinned, Calm
<1>10. CASE MemberStep \/ LobbyStep \/ UNCHANGED bldVars
  BY <1>1, <1>5, <1>10 DEF MemberStep, LobbyStep, LobbyVerify, LobbySubscribe, LobbySnapshot, LobbyRecv, LobbyDrops, bldVars, holdVars
<1>11. CASE DavetStep
  <2>1. ASSUME NEW o \in Op, \E m \in Mb, l \in Room : Invite(o, m, l) PROVE Goal
    BY <1>1, <1>3, <1>5, <2>1 DEF Invite
  <2>2. ASSUME NEW o \in Op, AddInvite(o) PROVE Goal
    BY <1>1, <1>3, <1>5, <1>6, <2>2 DEF AddInvite
  <2>3. ASSUME NEW o \in Op, AddInviteHot(o) PROVE Goal
    <3>1. ops' = [ops EXCEPT ![o].at = "call"] /\ sessRows' = sessRows /\ hotSess' = hotSess
      BY <2>3 DEF AddInviteHot
    <3>2. ops' = [ops EXCEPT ![o] = [ops[o] EXCEPT !.at = "call"]] /\ [ops[o] EXCEPT !.at = "call"].at = "call"
      BY <1>0, <3>1 DEF OpState, Ready
    <3>3. Calm
      BY <1>3, <3>2
    <3> QED
      BY <1>1, <1>5, <3>1, <3>3
  <2>4. ASSUME NEW o \in Op, CallMember(o) \/ StorageFails(o) PROVE Goal
    BY <1>1, <1>3, <1>5, <1>6, <2>4 DEF CallMember, StorageFails
  <2>5. ASSUME NEW o \in Op, NEW d \in Davet, RevokeInvite(o, d) PROVE Goal
    BY <1>1, <1>3, <1>5, <2>5 DEF RevokeInvite
  <2>6. ASSUME NEW o \in Op, RevokeInviteRow(o) \/ KickRows(o) PROVE Goal
    BY <1>1, <1>4, <1>5, <2>6 DEF RevokeInviteRow, KickRows
  <2>7. ASSUME NEW o \in Op, RevokeInviteHot(o) \/ KickHot(o) PROVE Goal
    BY <1>1, <1>3, <1>6, <1>7, <2>7 DEF RevokeInviteHot, KickHot
  <2>8. ASSUME NEW o \in Op, NEW l \in Room, NEW name \in Name, Kick(o, l, name) PROVE Goal
    BY <1>1, <1>3, <1>5, <2>8 DEF Kick
  <2> QED
    BY <1>11, <2>1, <2>2, <2>3, <2>4, <2>5, <2>6, <2>7, <2>8 DEF DavetStep
<1>12. CASE BarStep
  <2>1. ASSUME NEW o \in Op, NEW m \in Mb, Suspend(o, m) PROVE Goal
    <3> DEFINE R == {s \in Session : sessRows[s].mb = m}
    <3>1. sessRows' = [s \in Session |-> IF sessRows[s].row = "live" /\ s \in R THEN [sessRows[s] EXCEPT !.row = "revoked"] ELSE sessRows[s]]
      BY <2>1 DEF Suspend
    <3> HIDE DEF R
    <3> QED
      BY <1>2, <1>3, <1>5, <2>1, <3>1 DEF Suspend
  <2>2. ASSUME NEW o \in Op, NEW m \in Mb, RevokeMember(o, m) PROVE Goal
    BY <1>1, <1>3, <1>5, <2>2 DEF RevokeMember
  <2>3. ASSUME NEW o \in Op, Bar(o) PROVE Goal
    BY <1>1, <1>3, <1>6, <1>7, <2>3 DEF Bar
  <2>4. ASSUME NEW m \in Mb, Resume(m) PROVE Goal
    BY <1>1, <1>5, <2>4 DEF Resume
  <2> QED
    BY <1>12, <2>1, <2>2, <2>3, <2>4 DEF BarStep
<1>13. CASE BldRestart
  <2>1. sessRows' = sessRows /\ Thinned /\ Calm
    BY <1>13 DEF BldRestart, Thinned, Calm, Opening, Ready
  <2> QED
    BY <1>1, <2>1
<1>14. CASE BearerStep
  <2>1. ASSUME NEW m \in Mb, CreateKey(m) PROVE Goal
    BY <1>1, <1>5, <2>1 DEF CreateKey
  <2>2. ASSUME NEW o \in Op, NEW m \in Mb, NEW k \in Key, RevokeKey(o, m, k) PROVE Goal
    <3> DEFINE R == {s \in Session : sessRows[s].mb = m /\ sessRows[s].key = k}
    <3>1. sessRows' = [s \in Session |-> IF sessRows[s].row = "live" /\ s \in R THEN [sessRows[s] EXCEPT !.row = "revoked"] ELSE sessRows[s]]
      BY <2>2 DEF RevokeKey
    <3> HIDE DEF R
    <3> QED
      BY <1>2, <1>3, <1>5, <2>2, <3>1 DEF RevokeKey
  <2>3. ASSUME NEW o \in Op, RevokeKeyHot(o) PROVE Goal
    <3>1. Thinned
      BY <2>3 DEF RevokeKeyHot, Thinned
    <3> QED
      BY <1>1, <1>3, <1>6, <2>3, <3>1 DEF RevokeKeyHot
  <2>4. ASSUME NEW o \in Op, NEW s \in Session, NEW d \in Davet, SeatSession(o, s, d) PROVE Goal
    <3>1. /\ ops'[o].at = "seat" /\ ops'[o].sess = s /\ \A p \in Op : p # o => ops'[p] = ops[p]
          /\ sessRows' = sessRows /\ hotSess' = hotSess /\ sessRows[s] = NoRow /\ hotSess[s] = NoRow
          /\ \A p \in Op : Opening(p) => ops[p].sess # s
      BY <1>0, <2>4 DEF SeatSession, Unused, Opening
    <3>2. SessBound'
      BY <3>1 DEF SessBound, Opening
    <3> QED
      BY <3>1, <3>2 DEF RowGoesOn
  <2>5. ASSUME NEW o \in Op, BindSession(o) PROVE Goal
    <3> DEFINE s == ops[o].sess
               d == davets[ops[o].davet]
               bound == KeyWorks(d.mb, "legacy")
    <3>1. s \in Session /\ ops[o].at = "seat" /\ sessRows[s] = NoRow /\ hotSess[s] = NoRow
      BY <1>0, <2>5 DEF BindSession, SessBound, Opening
    <3>2. /\ ops'[o].at = "open" /\ ops'[o].sess = s /\ ops'[o].hot.bound = bound /\ hotSess' = hotSess
          /\ \A p \in Op : p # o => ops'[p] = ops[p]
      BY <1>0, <2>5 DEF BindSession
    <3>3. /\ \A t \in Session : t # s => sessRows'[t] = sessRows[t]
          /\ sessRows'[s] # NoRow => bound
      BY <1>0, <2>5, <3>1 DEF BindSession
    <3>4. \A p \in Op : p # o /\ Opening(p) => ops[p].sess \in Session /\ ops[p].sess # s
      BY <1>0, <3>1 DEF SessBound, Opening
    <3> HIDE DEF s, d, bound
    <3>5. SessBound'
      <4>1. \A p \in Op : p # o => (Opening(p)' <=> Opening(p))
        BY <3>2 DEF Opening
      <4>2. \A t \in Session : hotSess'[t] # NoRow /\ sessRows'[t] # NoRow => hotSess'[t].bound
        BY <3>1, <3>2, <3>3 DEF SessBound
      <4>3. \A p \in Op : ops'[p].at = "open" /\ sessRows'[ops'[p].sess] # NoRow => ops'[p].hot.bound
        BY <3>2, <3>3, <3>4 DEF SessBound, Opening
      <4>4. \A p \in Op : ops'[p].at = "seat" => sessRows'[ops'[p].sess] = NoRow
        BY <3>2, <3>3, <3>4 DEF SessBound, Opening
      <4>5. \A p \in Op : Opening(p)' => hotSess'[ops'[p].sess] = NoRow
        BY <3>1, <3>2, <3>4, <4>1 DEF SessBound
      <4>6. \A p, q \in Op : Opening(p)' /\ Opening(q)' /\ ops'[p].sess = ops'[q].sess => p = q
        BY <3>2, <3>4, <4>1 DEF SessBound
      <4> QED
        BY <4>2, <4>3, <4>4, <4>5, <4>6 DEF SessBound
    <3> QED
      BY <3>1, <3>3, <3>5 DEF RowGoesOn
  <2>6. ASSUME NEW o \in Op, OpenSession(o) PROVE Goal
    <3>1. /\ ops[o].at = "open" /\ ops[o].sess \in Session /\ sessRows' = sessRows
          /\ hotSess'[ops[o].sess] = ops[o].hot /\ \A t \in Session : t # ops[o].sess => hotSess'[t] = hotSess[t]
          /\ ops'[o].at = "ready" /\ \A p \in Op : p # o => ops'[p] = ops[p]
      BY <1>0, <1>6, <2>6 DEF OpenSession, Opening
    <3>2. \A p \in Op : p # o /\ Opening(p) => ops[p].sess \in Session /\ ops[p].sess # ops[o].sess
      BY <1>0, <3>1 DEF SessBound, Opening
    <3>3. \A p \in Op : Opening(p)' => p # o /\ Opening(p) /\ ops'[p] = ops[p]
      BY <3>1 DEF Opening
    <3>4. SessBound'
      <4>1. \A t \in Session : hotSess'[t] # NoRow /\ sessRows'[t] # NoRow => hotSess'[t].bound
        BY <3>1 DEF SessBound
      <4> QED
        BY <3>1, <3>2, <3>3, <4>1 DEF SessBound, Opening
    <3> QED
      BY <3>1, <3>4 DEF RowGoesOn
  <2>7. ASSUME NEW s \in Session, NEW m \in Mb, NEW k \in Key, KeySession(s, m, k) PROVE Goal
    <3>1. /\ sessRows[s] = NoRow /\ ops' = ops /\ \A p \in Op : Opening(p) => ops[p].sess # s
          /\ hotSess'[s].bound = TRUE
          /\ \A t \in Session : t # s => hotSess'[t] = hotSess[t] /\ sessRows'[t] = sessRows[t]
      BY <1>0, <2>7 DEF KeySession, Unused, Opening
    <3>2. \A p \in Op : Opening(p)' <=> Opening(p)
      BY <3>1 DEF Opening
    <3>3. SessBound'
      <4>1. \A t \in Session : hotSess'[t] # NoRow /\ sessRows'[t] # NoRow => hotSess'[t].bound
        BY <3>1 DEF SessBound
      <4>2. \A p \in Op : Opening(p) => sessRows'[ops[p].sess] = sessRows[ops[p].sess] /\ hotSess'[ops[p].sess] = hotSess[ops[p].sess]
        BY <1>0, <3>1
      <4> QED
        BY <3>1, <3>2, <4>1, <4>2 DEF SessBound, Opening
    <3> QED
      BY <3>1, <3>3 DEF RowGoesOn
  <2>8. ASSUME NEW s \in Session, Logout(s) PROVE Goal
    <3> DEFINE R == {s}
    <3>1. /\ sessRows' = [t \in Session |-> IF sessRows[t].row = "live" /\ t \in R THEN [sessRows[t] EXCEPT !.row = "revoked"] ELSE sessRows[t]]
          /\ Thinned /\ ops' = ops
      BY <1>0, <2>8 DEF Logout, Thinned
    <3> HIDE DEF R
    <3> QED
      BY <1>2, <1>5, <3>1
  <2>9. ASSUME NEW s \in Session, PurgeSession(s) PROVE Goal
    <3>1. Thinned
      BY <1>0, <2>9 DEF PurgeSession, Thinned
    <3> QED
      BY <1>1, <1>5, <2>9, <3>1 DEF PurgeSession
  <2> QED
    BY <1>14, <2>1, <2>2, <2>3, <2>4, <2>5, <2>6, <2>7, <2>8, <2>9 DEF BearerStep
<1> QED
  BY <1>10, <1>11, <1>12, <1>13, <1>14 DEF BldNext

(* What a step may never do to what ended. *)
EndedStep ==
    /\ \A m \in Mb, k \in Key : Ended(m, k) => ~KeyWorks(m, k)'
    /\ \A s \in Session :
         sessRows[s].row = "revoked" \/ (sessRows[s].row = "live" /\ Ended(sessRows[s].mb, sessRows[s].key))
             => ~SessionWorks(s)'

(* A revoked key, the keys of a membership that ended, a revoked session and the  *)
(* sessions bound to such keys never work again.                                  *)
THEOREM EndedIsFinal == BldSpec => EndedStaysEnded
<1>1. BldInit => SessBound
  BY DEF BldInit, SessBound, Opening, Ready
<1>2. BldInv /\ SessBound /\ [BldNext]_bldVars => SessBound'
  BY SessStep
<1>3. ASSUME BldInv, SessBound, [BldNext]_bldVars PROVE EndedStep
  <2>1. SessBound' /\ \A s \in Session : RowGoesOn(s)
    BY <1>3, SessStep
  <2>2. \A m \in Mb, k \in Key : Ended(m, k) => ~KeyWorks(m, k)'
    BY <1>3, KeyStaysEnded
  <2>3. ASSUME NEW s \in Session,
               sessRows[s].row = "revoked" \/ (sessRows[s].row = "live" /\ Ended(sessRows[s].mb, sessRows[s].key)),
               SessionWorks(s)'
        PROVE  FALSE
    <3>1. sessRows[s] # NoRow /\ sessRows[s].mb \in Mb /\ sessRows[s].key \in Key
      BY <1>3, <2>3 DEF BldInv, HoldTyped, SessState, NoRow
    <3>2. /\ sessRows'[s] # NoRow /\ sessRows'[s].mb = sessRows[s].mb /\ sessRows'[s].key = sessRows[s].key
          /\ sessRows[s].row = "revoked" => sessRows'[s].row = "revoked"
      BY <2>1, <3>1 DEF RowGoesOn
    <3>3. hotSess'[s].bound
      BY <2>1, <2>3, <3>2 DEF SessBound, SessionWorks
    <3>4. sessRows'[s].row = "live" /\ KeyWorks(sessRows[s].mb, sessRows[s].key)'
      BY <2>3, <3>2, <3>3 DEF SessionWorks, KeyWorks
    <3> QED
      BY <2>2, <2>3, <3>1, <3>2, <3>4
  <2> QED
    BY <2>2, <2>3 DEF EndedStep
<1>4. BldInv /\ SessBound /\ [BldNext]_bldVars => [EndedStep]_bldVars
  BY <1>3
<1>5. BldSpec => [][EndedStep]_bldVars
  BY <1>1, <1>2, <1>4, BuildingInvariant, PTL DEF BldSpec
<1> QED
  BY <1>5 DEF EndedStaysEnded, EndedStep

-----------------------------------------------------------------------------
(* Types of the whole building *)

(* The ring of the broadcast channel is full at BusMax events; one more is the *)
(* note that some were lost.                                                   *)
Ringed(bus) == Len(bus) <= BusMax \/ (Len(bus) = BusMax + 1 /\ Head(bus) = Lagged)

BusesRinged == \A m \in Mb : Ringed(lobby[m].bus)

(* What the building leaves to admission. *)
RequestsTyped ==
    /\ requests \in [Req -> RequestState] /\ client \in [Req -> ClientState]
    /\ stock \in [fresh : 0..RightMax, expired : 0..RightMax, used : 0..RightMax]
    /\ stock.fresh + stock.expired + stock.used <= RightMax
    /\ knocks \in 0..KnockMax

BldTyped == BldInv /\ RequestsTyped /\ lifecycle \in BOOLEAN /\ BusesRinged

(* An event that overruns the ring pushes one out. *)
LEMMA BufferedIsRinged ==
    ASSUME NEW bus \in Seq(BusEvent), NEW e \in BusEvent, Ringed(bus)
    PROVE  Ringed(Buffered(bus, e))
<1> DEFINE kept == IF bus # <<>> /\ Head(bus) = Lagged THEN Tail(bus) ELSE bus
<1>1. /\ kept \in Seq(BusEvent) /\ Len(kept) \in Nat /\ Len(bus) \in Nat /\ Len(kept) <= BusMax
      /\ bus # <<>> /\ Head(bus) = Lagged => Len(bus) = Len(kept) + 1
      /\ ~(bus # <<>> /\ Head(bus) = Lagged) => bus = kept
  <2>1. CASE bus # <<>> /\ Head(bus) = Lagged
    <3>1. Len(bus) \in Nat \ {0} /\ Tail(bus) \in Seq(BusEvent) /\ Len(Tail(bus)) = Len(bus) - 1
      BY <2>1, EmptySeq, HeadTailProperties
    <3>2. kept = Tail(bus)
      BY <2>1
    <3>3. Len(bus) <= BusMax \/ Len(bus) = BusMax + 1
      BY DEF Ringed
    <3> HIDE DEF kept
    <3>4. Len(kept) <= BusMax /\ Len(kept) \in Nat /\ Len(bus) = Len(kept) + 1
      <4>1. PICK n \in Nat \ {0} : n = Len(bus)
        BY <3>1
      <4>2. Len(kept) = n - 1
        BY <3>1, <3>2, <4>1
      <4>3. n <= BusMax \/ n = BusMax + 1
        BY <3>3, <4>1
      <4>4. n - 1 <= BusMax /\ n - 1 \in Nat /\ n = (n - 1) + 1
        BY <4>3, BuildingAssumption
      <4> QED
        BY <4>1, <4>2, <4>4, SMTT(40)
    <3> QED
      BY <2>1, <3>1, <3>2, <3>4
  <2>2. CASE ~(bus # <<>> /\ Head(bus) = Lagged)
    <3>1. Len(bus) \in Nat /\ (bus = <<>> => Len(bus) = 0)
      OBVIOUS
    <3> QED
      BY <2>2, <3>1, BuildingAssumption DEF Ringed
  <2> QED
    BY <2>1, <2>2, SMTT(40)
<1>2. CASE Len(kept) < BusMax
  <2>1. Buffered(bus, e) = Append(bus, e)
    BY <1>2 DEF Buffered
  <2> HIDE DEF kept
  <2>2. /\ Len(Append(bus, e)) = Len(bus) + 1
        /\ bus # <<>> => Head(Append(bus, e)) = Head(bus)
    OBVIOUS
  <2> QED
    BY <1>1, <1>2, <2>1, <2>2, BuildingAssumption DEF Ringed
<1>3. CASE ~(Len(kept) < BusMax)
  <2>1. Buffered(bus, e) = <<Lagged>> \o Append(Tail(kept), e)
    BY <1>3 DEF Buffered
  <2> HIDE DEF kept
  <2>2. Len(kept) = BusMax /\ kept # <<>>
    BY <1>1, <1>3, EmptySeq, BuildingAssumption
  <2>3. PICK rest \in Seq(BusEvent) : rest = Append(Tail(kept), e) /\ Len(rest) = BusMax
    <3>1. Tail(kept) \in Seq(BusEvent) /\ Len(Tail(kept)) = BusMax - 1
      BY <1>1, <2>2, HeadTailProperties
    <3>2. Append(Tail(kept), e) \in Seq(BusEvent) /\ Len(Append(Tail(kept), e)) = Len(Tail(kept)) + 1
      BY <3>1, AppendProperties
    <3>3. Len(Append(Tail(kept), e)) = BusMax
      BY <3>1, <3>2, BuildingAssumption
    <3> QED
      BY <3>2, <3>3
  <2>4. Len(<<Lagged>> \o rest) = 1 + Len(rest) /\ Head(<<Lagged>> \o rest) = Lagged
    OBVIOUS
  <2> QED
    BY <2>1, <2>3, <2>4, BuildingAssumption DEF Ringed
<1> QED
  BY <1>2, <1>3

(* A send keeps every receiver's ring. *)
LEMMA SendIsRinged ==
    ASSUME lobby \in [Mb -> LobbyState], BusesRinged, NEW e \in BusEvent, lobby' = Send(e)
    PROVE  BusesRinged'
<1> SUFFICES ASSUME NEW m \in Mb
             PROVE  Ringed(lobby'[m].bus)
  BY DEF BusesRinged
<1>1. lobby[m] \in LobbyState /\ lobby[m].bus \in Seq(BusEvent) /\ Ringed(lobby[m].bus)
  BY DEF LobbyState, BusesRinged
<1>2. PICK b : b = Buffered(lobby[m].bus, e) /\ Ringed(b)
  BY <1>1, BufferedIsRinged
<1>3. lobby'[m] = IF lobby[m].at \in {"subscribed", "open"} THEN [lobby[m] EXCEPT !.bus = b] ELSE lobby[m]
  BY <1>2 DEF Send
<1>4. lobby'[m].bus = lobby[m].bus \/ lobby'[m].bus = b
  BY <1>1, <1>3 DEF LobbyState
<1> QED
  BY <1>1, <1>2, <1>4

(* Reading, opening and closing a socket do not lengthen its ring. *)
LEMMA LobbyIsRinged ==
    ASSUME lobby \in [Mb -> LobbyState], BusesRinged, LobbyStep
    PROVE  BusesRinged'
<1>0. Ringed(Out.bus)
  BY BuildingAssumption DEF Ringed, Out
<1>1. ASSUME NEW m \in Mb, NEW l, lobby' = [lobby EXCEPT ![m] = l], Ringed(l.bus)
      PROVE  BusesRinged'
  BY <1>1 DEF BusesRinged
<1>2. \A m \in Mb : lobby[m] \in LobbyState /\ lobby[m].bus \in Seq(BusEvent) /\ Ringed(lobby[m].bus)
  BY DEF LobbyState, BusesRinged
<1>3. ASSUME NEW m \in Mb, (\E k \in Key : LobbyVerify(m, k)) \/ LobbySubscribe(m)
      PROVE  BusesRinged'
  <2>1. PICK at : lobby' = [lobby EXCEPT ![m] = [lobby[m] EXCEPT !.at = at]]
    BY <1>3 DEF LobbyVerify, LobbySubscribe
  <2>2. [lobby[m] EXCEPT !.at = at].bus = lobby[m].bus
    BY <1>2 DEF LobbyState
  <2> QED
    BY <1>1, <1>2, <2>1, <2>2
<1>4. ASSUME NEW m \in Mb, LobbySnapshot(m)
      PROVE  BusesRinged'
  <2>1. PICK l : l = [at |-> "open", bus |-> lobby[m].bus, told |-> DavetsOf(m)]
    OBVIOUS
  <2>2. lobby' = [lobby EXCEPT ![m] = l] /\ l.bus = lobby[m].bus
    BY <1>4, <2>1 DEF LobbySnapshot
  <2> QED
    BY <1>1, <1>2, <2>2
<1>5. ASSUME NEW m \in Mb, LobbyDrops(m)
      PROVE  BusesRinged'
  BY <1>0, <1>1, <1>5 DEF LobbyDrops
<1>6. ASSUME NEW m \in Mb, LobbyRecv(m)
      PROVE  BusesRinged'
  <2>1. PICK told : \/ lobby' = [lobby EXCEPT ![m] = Out]
                    \/ lobby' = [lobby EXCEPT ![m] = [at |-> "open", bus |-> Tail(lobby[m].bus), told |-> told]]
    BY <1>6 DEF LobbyRecv
  <2>2. lobby[m].bus # <<>>
    BY <1>6 DEF LobbyRecv
  <2>3. Len(Tail(lobby[m].bus)) = Len(lobby[m].bus) - 1 /\ Len(lobby[m].bus) \in Nat
    BY <1>2, <2>2, HeadTailProperties
  <2>4. Ringed(Tail(lobby[m].bus))
    BY <1>2, <2>3, BuildingAssumption DEF Ringed
  <2>5. PICK l : l = [at |-> "open", bus |-> Tail(lobby[m].bus), told |-> told]
    OBVIOUS
  <2>6. lobby' = [lobby EXCEPT ![m] = Out] \/ lobby' = [lobby EXCEPT ![m] = l]
    BY <2>1, <2>5
  <2>7. l.bus = Tail(lobby[m].bus)
    BY <2>5
  <2> QED
    BY <1>0, <1>1, <2>4, <2>5, <2>6, <2>7
<1> QED
  BY <1>3, <1>4, <1>5, <1>6 DEF LobbyStep

(* Every step of the building keeps its types. *)
LEMMA BldTypedStep ==
    ASSUME BldTyped, [BldNext]_bldVars
    PROVE  BldTyped'
<1> USE DEF BldTyped
<1>1. BldInv'
  BY BldStep
<1>2. RequestsTyped'
  <2>1. UNCHANGED <<requests, client, stock>> /\ (UNCHANGED knocks \/ knocks' = 0)
    <3>1. CASE MemberStep \/ BldRestart
      BY <3>1 DEF MemberStep, Admit, AddMember, MirrorMember, BldRestart, AdmRestart
    <3>2. CASE DavetStep
      BY <3>2 DEF DavetStep, Invite, AddInvite, AddInviteHot, CallMember, RevokeInvite, RevokeInviteRow, RevokeInviteHot,
                  Kick, KickRows, KickHot, StorageFails, admVars
    <3>3. CASE BarStep
      BY <3>3 DEF BarStep, Suspend, RevokeMember, Bar, Resume, admVars
    <3>4. CASE BearerStep
      BY <3>4 DEF BearerStep, CreateKey, RevokeKey, RevokeKeyHot, SeatSession, BindSession, OpenSession, KeySession, Logout,
                  PurgeSession, admVars
    <3>5. CASE LobbyStep
      BY <3>5 DEF LobbyStep, LobbyVerify, LobbySubscribe, LobbySnapshot, LobbyRecv, LobbyDrops, admVars
    <3> QED
      BY <3>1, <3>2, <3>3, <3>4, <3>5 DEF BldNext, bldVars, admVars
  <2> QED
    BY <2>1, AdmissionAssumption DEF RequestsTyped
<1>3. lifecycle' \in BOOLEAN
  <2>1. lifecycle' = lifecycle \/ lifecycle' = TRUE \/ lifecycle' = FALSE
    <3>1. CASE MemberStep \/ BldRestart
      BY <3>1 DEF MemberStep, BldRestart
    <3>2. CASE DavetStep
      BY <3>2 DEF DavetStep, Invite, AddInvite, AddInviteHot, CallMember, RevokeInvite, RevokeInviteRow, RevokeInviteHot,
                  Kick, KickRows, KickHot, StorageFails
    <3>3. CASE BarStep
      BY <3>3 DEF BarStep, Suspend, RevokeMember, Bar, Resume
    <3>4. CASE BearerStep
      BY <3>4 DEF BearerStep, CreateKey, RevokeKey, RevokeKeyHot, SeatSession, BindSession, OpenSession, KeySession, Logout,
                  PurgeSession
    <3>5. CASE LobbyStep
      BY <3>5 DEF LobbyStep, LobbyVerify, LobbySubscribe, LobbySnapshot, LobbyRecv, LobbyDrops
    <3> QED
      BY <3>1, <3>2, <3>3, <3>4, <3>5 DEF BldNext, bldVars, holdVars
  <2> QED
    BY <2>1
<1>4. BusesRinged'
  <2>0. lobby \in [Mb -> LobbyState]
    BY DEF BldInv, HoldTyped
  <2>1. CASE UNCHANGED lobby
    BY <2>1 DEF BusesRinged
  <2>2. CASE \E o \in Op : CallMember(o)
    <3>1. PICK o \in Op : CallMember(o)
      BY <2>2
    <3>2. ops[o] \in OpState /\ ops[o].davet \in Davet /\ davets[ops[o].davet] # NoRow /\ davets[ops[o].davet] \in DavetState
      BY <3>1, OpFields DEF CallMember, BldInv, HoldTyped, OpsKnown
    <3>3. [t |-> "called", mb |-> davets[ops[o].davet].mb, davet |-> ops[o].davet] \in BusEvent
      BY <3>2 DEF DavetState, BusEvent
    <3> QED
      BY <2>0, <3>1, <3>3, SendIsRinged DEF CallMember
  <2>3. CASE \E o \in Op : Bar(o)
    <3>1. PICK o \in Op : Bar(o)
      BY <2>3
    <3>2. ops[o] \in OpState /\ ops[o].mb \in Mb
      BY <3>1, OpFields DEF Bar, BldInv, HoldTyped
    <3>3. [t |-> "barred", mb |-> ops[o].mb] \in BusEvent
      BY <3>2 DEF BusEvent
    <3> QED
      BY <2>0, <3>1, <3>3, SendIsRinged DEF Bar
  <2>4. CASE LobbyStep
    BY <2>0, <2>4, LobbyIsRinged
  <2>5. CASE BldRestart
    BY <2>5, BuildingAssumption DEF BldRestart, BusesRinged, Ringed, Out
  <2>6. CASE MemberStep \/ BearerStep \/ UNCHANGED bldVars
    BY <2>1, <2>6 DEF MemberStep, BearerStep, CreateKey, RevokeKey, RevokeKeyHot, SeatSession, BindSession, OpenSession,
                      KeySession, Logout, PurgeSession, bldVars, holdVars
  <2>7. CASE DavetStep
    BY <2>1, <2>2, <2>7 DEF DavetStep, Invite, AddInvite, AddInviteHot, RevokeInvite, RevokeInviteRow, RevokeInviteHot,
                            Kick, KickRows, KickHot, StorageFails
  <2>8. CASE BarStep
    BY <2>1, <2>3, <2>8 DEF BarStep, Suspend, RevokeMember, Resume
  <2> QED
    BY <2>4, <2>5, <2>6, <2>7, <2>8 DEF BldNext
<1> QED
  BY <1>1, <1>2, <1>3, <1>4

(* The types of admission and building, from the invariant. *)
LEMMA BldTypedIsTyped ==
    ASSUME BldTyped
    PROVE  AdmTypeOK /\ BldTypeOK
<1>1. AdmTypeOK
  BY DEF BldTyped, RequestsTyped, BldInv, MemberTyped, AdmTypeOK, MemberState, RequestState, CallState, ClientState
<1>2. lobby \in [Mb -> [at : {"out", "verified", "subscribed", "open"}, bus : UNION {[1..n -> BusEvent] : n \in 0..(BusMax + 1)},
                        told : SUBSET Davet]]
  <2> DEFINE Bus == UNION {[1..n -> BusEvent] : n \in 0..(BusMax + 1)}
  <2>1. ASSUME NEW m \in Mb
        PROVE  lobby[m] \in [at : {"out", "verified", "subscribed", "open"}, bus : Bus, told : SUBSET Davet]
    <3>1. lobby[m] \in LobbyState /\ lobby[m].bus \in Seq(BusEvent) /\ Ringed(lobby[m].bus)
      BY DEF BldTyped, BldInv, HoldTyped, BusesRinged, LobbyState
    <3>2. Len(lobby[m].bus) \in 0..(BusMax + 1)
      BY <3>1, BuildingAssumption DEF Ringed
    <3>3. lobby[m].bus \in [1..Len(lobby[m].bus) -> BusEvent]
      BY <3>1
    <3>4. lobby[m].bus \in Bus
      BY <3>2, <3>3
    <3> HIDE DEF Bus
    <3> QED
      BY <3>1, <3>4 DEF LobbyState
  <2>2. lobby \in [Mb -> LobbyState]
    BY DEF BldTyped, BldInv, HoldTyped
  <2> HIDE DEF Bus
  <2>3. lobby \in [Mb -> [at : {"out", "verified", "subscribed", "open"}, bus : Bus, told : SUBSET Davet]]
    BY <2>1, <2>2
  <2> QED
    BY <2>3 DEF Bus
<1>3. BldTypeOK
  BY <1>2 DEF BldTyped, BldInv, MemberTyped, HoldTyped, BldTypeOK, DavetState, SessState, SeatState, HotState, OpState
<1> QED
  BY <1>1, <1>3

(* The building opens well typed. *)
LEMMA BldTypedInitially ==
    ASSUME BldInit
    PROVE  BldTyped
<1>1. RequestsTyped
  BY AdmissionAssumption DEF Secret, BldInit, AdmInit, RequestsTyped, RequestState, ClientState
<1>2. lifecycle \in BOOLEAN
  BY DEF BldInit
<1>3. BusesRinged
  <2>1. Ringed(Out.bus)
    BY BuildingAssumption DEF Ringed, Out
  <2>2. \A m \in Mb : lobby[m] = Out
    BY DEF BldInit
  <2> QED
    BY <2>1, <2>2 DEF BusesRinged
<1> QED
  BY <1>1, <1>2, <1>3, BldInitially DEF BldTyped

(* Every reachable state of tables, hot maps, handlers and sockets is well     *)
(* typed; no socket's ring holds more than BusMax events and the note of a lag. *)
THEOREM BuildingTyping == BldSpec => [](AdmTypeOK /\ BldTypeOK)
<1>1. BldInit => BldTyped
  BY BldTypedInitially
<1>2. BldTyped /\ [BldNext]_bldVars => BldTyped'
  BY BldTypedStep
<1>3. BldTyped => AdmTypeOK /\ BldTypeOK
  BY BldTypedIsTyped
<1> QED
  BY <1>1, <1>2, <1>3, PTL DEF BldSpec

=============================================================================
