---------------------------- MODULE Attachments ----------------------------
(***************************************************************************)
(* Attachments: content-addressed files (store/attachments.rs), the index  *)
(* that says who may cite and read them (store/attachment_index.rs) and    *)
(* the sweep that collects what nobody cites.                              *)
(*                                                                         *)
(* Upload and sweep hold the store mutex from beginning to end, so they    *)
(* exclude each other and the message transactions; they are still not     *)
(* transactions: between the file system and each statement the server may *)
(* die or a statement may fail.  A post checks its citations before it     *)
(* takes the mutex and claims them in the message transaction.             *)
(***************************************************************************)
EXTENDS Integers, FiniteSets, FiniteSetsExt

CONSTANTS
    Loca, Blob,          \* rooms; blobs, named by their SHA-256, so finitely many
    Size,                \* bytes of each blob
    Mime,                \* what sniff_mime makes of each blob, "none" if nothing it knows
    Claimed,             \* content types an upload may claim
    BytesMax,            \* attachment_max_bytes
    LocaMax, BuildingMax,\* quotas
    Post,                \* posts in flight, each with its message id
    CiteMax              \* MAX_ATTACHMENTS_PER_MESSAGE

ASSUME AttachmentsAssumption ==
    /\ IsFiniteSet(Blob)
    /\ Size \in [Blob -> Nat]
    /\ Mime \in [Blob -> {"image/png", "image/jpeg", "image/webp", "application/pdf", "text/plain", "none"}]
    /\ BytesMax \in Nat
    /\ LocaMax \in Nat /\ BuildingMax \in Nat /\ CiteMax \in Nat

VARIABLES
    file,      \* what is at the blob's path; "torn": nothing, since a heal removed the damaged bytes
    blobRow,   \* attachment_blobs
    pending,   \* attachment_pending: (loca, blob) -> "none", "fresh" or "expired"
    refs,      \* attachment_refs: (loca, message, blob)
    stray,     \* history: blobs whose upload ended after their file and before their row
    holder,    \* who holds the store mutex, and where it stands
    posts      \* the posts in flight and the accepted messages

attVars == <<file, blobRow, pending, refs, stray, holder, posts>>

Free == [at |-> "free"]

AttTypeOK ==
    /\ file \in [Blob -> {"absent", "good", "corrupt", "torn"}]
    /\ blobRow \subseteq Blob
    /\ pending \in [Loca \X Blob -> {"none", "fresh", "expired"}]
    /\ refs \subseteq Loca \X Post \X Blob
    /\ stray \subseteq Blob
    /\ holder \in {Free} \cup [at : {"file", "temp", "row", "pending"}, loca : Loca, blob : Blob]
                    \cup [at : {"sweep"}, todo : SUBSET Blob]
                    \cup [at : {"swept"}, todo : SUBSET Blob, blob : Blob]
    /\ posts \in [Post -> [at : {"new", "refused"}] \cup [at : {"checked", "accepted"}, loca : Loca, cites : SUBSET Blob]]

AttInit ==
    /\ file = [b \in Blob |-> "absent"]
    /\ blobRow = {}
    /\ pending = [k \in Loca \X Blob |-> "none"]
    /\ refs = {}
    /\ stray = {}
    /\ holder = Free
    /\ posts = [p \in Post |-> [at |-> "new"]]

-----------------------------------------------------------------------------
(* Index queries *)

IsPending(l, b) == pending[<<l, b>>] # "none"
IsCited(l, b) == \E p \in Post : <<l, p, b>> \in refs

\* room_has_sha
LocaHas(l, b) == IsPending(l, b) \/ IsCited(l, b)

Bytes(S) == MapThenSumSet(LAMBDA b : Size[b], S)

\* The marginal cost of a file that is already there is zero.
WithinBuildingQuota(b) == b \in blobRow \/ Bytes(blobRow) + Size[b] <= BuildingMax

(* Mutant: only cited files count against the loca. *)
LocaQuotaOfCited(l, b) == LocaHas(l, b) \/ Bytes({c \in Blob : IsCited(l, c)}) + Size[b] <= LocaMax

WithinLocaQuota(l, b) == LocaHas(l, b) \/ Bytes({c \in Blob : LocaHas(l, c)}) + Size[b] <= LocaMax

\* resolve_room_attachment
Resolves(l, b) == LocaHas(l, b)

\* read_at: the bytes are there and still hash to their id.
Intact(b) == file[b] = "good"

\* read_room_attachment: a file is served where a message cites it.
Serves(l, b) == IsCited(l, b) /\ Intact(b)

-----------------------------------------------------------------------------
(* put_pending_attachment *)

\* mime_matches: text may be called markdown, everything else is exact.
MimeMatches(claimed, b) ==
    IF Mime[b] = "text/plain" THEN claimed \in {"text/plain", "text/markdown", "text/x-markdown"}
                              ELSE claimed = Mime[b]

\* upload_attachment: the bytes decide the type, the header may only agree.
RouteAccepts(b, claimed) ==
    /\ Size[b] > 0 /\ Size[b] <= BytesMax
    /\ Mime[b] # "none" /\ MimeMatches(claimed, b)

\* The quotas are checked under the mutex.
Upload(l, b, claimed) ==
    /\ RouteAccepts(b, claimed)
    /\ holder = Free
    /\ WithinBuildingQuota(b)
    /\ WithinLocaQuota(l, b)
    /\ holder' = [at |-> "file", loca |-> l, blob |-> b]
    /\ UNCHANGED <<file, blobRow, pending, refs, stray, posts>>

\* BlobStore::put: an intact file is kept, else the bytes go to a temporary file.
PutFile ==
    /\ holder.at = "file"
    /\ holder' = [holder EXCEPT !.at = IF Intact(holder.blob) THEN "row" ELSE "temp"]
    /\ UNCHANGED <<file, blobRow, pending, refs, stray, posts>>

\* replace_existing: when the rename fails over a damaged file, the file is
\* removed before the rename is tried again.
Displace ==
    /\ holder.at = "temp" /\ file[holder.blob] = "corrupt"
    /\ file' = [file EXCEPT ![holder.blob] = "torn"]
    /\ UNCHANGED <<blobRow, pending, refs, stray, holder, posts>>

\* publish: a rename puts the bytes in place, the first one over a damaged file too.
Publish ==
    /\ holder.at = "temp"
    /\ file' = [file EXCEPT ![holder.blob] = "good"]
    /\ holder' = [holder EXCEPT !.at = "row"]
    /\ UNCHANGED <<blobRow, pending, refs, stray, posts>>

\* INSERT OR IGNORE INTO attachment_blobs
InsertBlobRow ==
    /\ holder.at = "row"
    /\ blobRow' = blobRow \cup {holder.blob}
    /\ stray' = stray \ {holder.blob}
    /\ holder' = [holder EXCEPT !.at = "pending"]
    /\ UNCHANGED <<file, pending, refs, posts>>

\* INSERT OR REPLACE INTO attachment_pending: a repeated upload is fresh again.
InsertPending ==
    /\ holder.at = "pending"
    /\ pending' = [pending EXCEPT ![<<holder.loca, holder.blob>>] = "fresh"]
    /\ holder' = Free
    /\ UNCHANGED <<file, blobRow, refs, stray, posts>>

\* What an upload that ends here leaves on disk and in no row.
Left == IF holder.at = "row" THEN {holder.blob} \ blobRow ELSE {}

\* A statement or the file write fails: the upload is refused where it stands;
\* TempGuard removes the temporary file, nothing removes a published one.
UploadFails ==
    /\ holder.at \in {"file", "temp", "row", "pending"}
    /\ stray' = stray \cup Left
    /\ holder' = Free
    /\ UNCHANGED <<file, blobRow, pending, refs, posts>>

-----------------------------------------------------------------------------
(* Citing: the pre-check of post, then the claim in the message transaction *)

Cite(p, l, cites) ==
    /\ posts[p].at = "new"
    /\ Cardinality(cites) <= CiteMax
    /\ holder = Free
    /\ \A b \in cites : Resolves(l, b)
    /\ posts' = [posts EXCEPT ![p] = [at |-> "checked", loca |-> l, cites |-> cites]]
    /\ UNCHANGED <<file, blobRow, pending, refs, stray, holder>>

(* Mutant: the claim trusts the pre-check. *)
ClaimTrusting(p) ==
    /\ posts[p].at = "checked" /\ holder = Free
    /\ refs' = refs \cup {<<posts[p].loca, p, b>> : b \in posts[p].cites}
    /\ posts' = [posts EXCEPT ![p].at = "accepted"]
    /\ UNCHANGED <<file, blobRow, pending, stray, holder>>

\* write_attachment_refs: every citation is still claimable, or nothing commits.
Claim(p) ==
    LET l == posts[p].loca
        cites == posts[p].cites
    IN  /\ posts[p].at = "checked"
        /\ holder = Free
        /\ \/ /\ \A b \in cites : LocaHas(l, b)
              /\ refs' = refs \cup {<<l, p, b>> : b \in cites}
              /\ pending' = [k \in Loca \X Blob |-> IF k[1] = l /\ k[2] \in cites THEN "none" ELSE pending[k]]
              /\ posts' = [posts EXCEPT ![p].at = "accepted"]
           \/ /\ posts' = [posts EXCEPT ![p] = [at |-> "refused"]]
              /\ UNCHANGED <<refs, pending>>
        /\ UNCHANGED <<file, blobRow, stray, holder>>

-----------------------------------------------------------------------------
(* sweep_attachments: expired uploads, then each orphan, file before row *)

\* Rows of blobs that no message cites and no upload in pend holds.
Orphans(pend) == {b \in blobRow : \A l \in Loca : pend[<<l, b>>] = "none" /\ ~IsCited(l, b)}

\* Expired uploads go first; the sweep does not notice if that statement fails.
Sweep ==
    /\ holder = Free
    /\ pending' \in {pending, [k \in Loca \X Blob |-> IF pending[k] = "expired" THEN "none" ELSE pending[k]]}
    /\ holder' = [at |-> "sweep", todo |-> Orphans(pending')]
    /\ UNCHANGED <<file, blobRow, refs, stray, posts>>

\* BlobStore::delete; a failure leaves the row for the next sweep.
SweepFile ==
    /\ holder.at = "sweep"
    /\ \E b \in holder.todo :
         \/ /\ file' = [file EXCEPT ![b] = "absent"]
            /\ holder' = [at |-> "swept", todo |-> holder.todo \ {b}, blob |-> b]
         \/ /\ holder' = [holder EXCEPT !.todo = @ \ {b}]
            /\ UNCHANGED file
    /\ UNCHANGED <<blobRow, pending, refs, stray, posts>>

\* The row follows the file; a row that cannot be deleted is an orphan of the next sweep.
SweepRow ==
    /\ holder.at = "swept"
    /\ blobRow' \in {blobRow \ {holder.blob}, blobRow}
    /\ holder' = [at |-> "sweep", todo |-> holder.todo]
    /\ UNCHANGED <<file, pending, refs, stray, posts>>

SweepEnds ==
    /\ holder.at = "sweep" /\ holder.todo = {}
    /\ holder' = Free
    /\ UNCHANGED <<file, blobRow, pending, refs, stray, posts>>

-----------------------------------------------------------------------------
(* The world *)

PendingExpires(l, b) ==
    /\ pending[<<l, b>>] = "fresh"
    /\ pending' = [pending EXCEPT ![<<l, b>>] = "expired"]
    /\ UNCHANGED <<file, blobRow, refs, stray, holder, posts>>

\* A file on disk is damaged; read refuses it, the next put heals it.
Corrupts(b) ==
    /\ Intact(b) /\ holder = Free
    /\ file' = [file EXCEPT ![b] = "corrupt"]
    /\ UNCHANGED <<blobRow, pending, refs, stray, holder, posts>>

Gone == [p \in Post |-> IF posts[p].at = "checked" THEN [at |-> "refused"] ELSE posts[p]]

\* A process that dies may leave a temporary file, which nobody reads again.
ServerDies ==
    /\ holder # Free
    /\ stray' = stray \cup Left
    /\ holder' = Free
    /\ posts' = Gone
    /\ UNCHANGED <<file, blobRow, pending, refs>>

InLoca(l) == {p \in Post : posts[p].at = "accepted" /\ posts[p].loca = l}

\* rename_room, once at start: every table it lists moves to a name that is not
\* in use; the attachment tables are not in its list.
Rename(from, to) ==
    /\ holder = Free
    /\ InLoca(from) # {} /\ InLoca(to) = {}
    /\ posts' = [p \in Post |-> IF p \in InLoca(from) THEN [posts[p] EXCEPT !.loca = to] ELSE Gone[p]]
    /\ UNCHANGED <<file, blobRow, pending, refs, stray, holder>>

UploadStep == PutFile \/ Displace \/ Publish \/ InsertBlobRow \/ InsertPending

AttSweepStep == SweepFile \/ SweepRow \/ SweepEnds

AttNext ==
    \/ \E l \in Loca, b \in Blob, claimed \in Claimed : Upload(l, b, claimed)
    \/ \E l \in Loca, b \in Blob : PendingExpires(l, b)
    \/ UploadStep \/ UploadFails
    \/ \E p \in Post, l \in Loca, cites \in SUBSET Blob \ {{}} : Cite(p, l, cites)
    \/ \E p \in Post : Claim(p)
    \/ Sweep \/ AttSweepStep
    \/ \E b \in Blob : Corrupts(b)
    \/ ServerDies
    \/ \E from, to \in Loca : Rename(from, to)

AttSpec == AttInit /\ [][AttNext]_attVars

-----------------------------------------------------------------------------
(* Properties *)

\* What an accepted message cites is served for as long as nothing damages its
\* bytes, whatever sweeps, uploads and crashes happened between its pre-check and
\* its transaction (write_attachment_refs against sweep_attachments).  Damaged
\* bytes are refused, and gone when a heal fails between its removal and its rename.
CitedBlobIsServed ==
    \A r \in refs : (file[r[3]] \in {"corrupt", "torn"} \/ Serves(r[1], r[3])) /\ r[3] \in blobRow

OnDisk(b) == file[b] \in {"good", "corrupt"}

\* Re-uploads, re-citations, shared blobs, crashed sweeps and the upload under way
\* never take a loca's recorded bytes over its quota, nor what is recorded or on
\* disk over the building's (put_pending_attachment, sweep_attachments); stray
\* files excepted: attachment_index.rs:112-114 leaves them to a sweep that walks
\* rows, so they are neither counted nor collected.
QuotasHold ==
    /\ Bytes(blobRow \cup {b \in Blob : OnDisk(b) /\ b \notin stray}) <= BuildingMax
    /\ \A l \in Loca : Bytes({b \in Blob : LocaHas(l, b)}) <= LocaMax

=============================================================================
