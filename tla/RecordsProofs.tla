--------------------------- MODULE RecordsProofs ---------------------------
(***************************************************************************)
(* What a loca keeps beside its log.  Attachments, for any locas, blobs,   *)
(* posts and quotas: no sweep collects what a message cites, and no upload *)
(* passes a quota.  The maintenance of a wiki, for any number of editors   *)
(* and workers and any bounds: publication is fenced by the claim, a       *)
(* worker's time is bounded, and unfinished work never trails the cursor.  *)
(* With admission, building and authority beside them, every component is  *)
(* well typed throughout.                                                  *)
(***************************************************************************)
EXTENDS MCRecords, AuthorityProofs, BuildingProofs, FiniteSetTheorems, SequenceTheorems, WellFoundedInduction, TLAPS

Uploading == holder.at \in {"file", "temp", "row", "pending"}
Sweeping == holder.at \in {"sweep", "swept"}

(* What a loca holds has a row and a file. *)
HeldIsKept == \A l \in Loca, b \in Blob : LocaHas(l, b) => b \in blobRow /\ file[b] # "absent"

(* An upload that reached its row has written its file, one that reached its *)
(* pending entry has written its row.                                        *)
UploadInOrder ==
    /\ holder.at \in {"row", "pending"} => file[holder.blob] # "absent"
    /\ holder.at = "pending" => holder.blob \in blobRow

(* A sweep only ever has orphans before it. *)
SweepsOrphans ==
    /\ Sweeping => \A b \in holder.todo, l \in Loca : ~LocaHas(l, b)
    /\ holder.at = "swept" => \A l \in Loca : ~LocaHas(l, holder.blob)

(* Bytes on disk have a row, but for strays and the upload at its row; the sweep *)
(* removes the bytes before the row.                                             *)
BytesHaveRows ==
    /\ \A b \in Blob : OnDisk(b) => b \in blobRow \cup stray \/ (holder.at = "row" /\ holder.blob = b)
    /\ holder.at = "swept" => ~OnDisk(holder.blob)

HoldInv == HeldIsKept /\ UploadInOrder /\ SweepsOrphans

AttInv == AttTypeOK /\ HoldInv /\ BytesHaveRows

(* What the holder of the mutex carries. *)
LEMMA HolderFields ==
    ASSUME AttTypeOK
    PROVE  /\ Uploading => /\ holder \in [at : {"file", "temp", "row", "pending"}, loca : Loca, blob : Blob]
                           /\ holder.loca \in Loca /\ holder.blob \in Blob
           /\ holder.at = "sweep" => holder.todo \in SUBSET Blob /\ holder \in [at : {"sweep"}, todo : SUBSET Blob]
           /\ holder.at = "swept" => holder.todo \in SUBSET Blob /\ holder.blob \in Blob
           /\ holder = Free <=> holder.at = "free"
           /\ holder.at \in {"free", "file", "temp", "row", "pending", "sweep", "swept"}
  BY DEF AttTypeOK, Free, Uploading

(* A loca holds the same blobs while its tables are left alone. *)
LEMMA SameHoldings ==
    ASSUME UNCHANGED <<pending, refs>>, NEW l, NEW b
    PROVE  LocaHas(l, b)' <=> LocaHas(l, b)
  BY DEF LocaHas, IsPending, IsCited

(* Typing and the holdings, which do not depend on the strays. *)
AttHeld == AttTypeOK /\ HoldInv

(* The steps of an upload. *)
LEMMA UploadKeeps ==
    ASSUME AttHeld, stray' \subseteq Blob, UploadStep \/ UploadFails \/ \E l \in Loca, b \in Blob, claimed \in Claimed : Upload(l, b, claimed)
    PROVE  AttHeld'
<1> USE DEF AttHeld, HoldInv
<1>1. CASE \E l \in Loca, b \in Blob, claimed \in Claimed : Upload(l, b, claimed)
  <2>1. PICK l \in Loca, b \in Blob : holder' = [at |-> "file", loca |-> l, blob |-> b]
    BY <1>1 DEF Upload
  <2>2. UNCHANGED <<file, blobRow, pending, refs, posts>>
    BY <1>1 DEF Upload
  <2>3. AttTypeOK'
    BY <2>1, <2>2 DEF AttTypeOK
  <2> QED
    BY <2>1, <2>2, <2>3, SameHoldings DEF HeldIsKept, UploadInOrder, SweepsOrphans, Sweeping
<1>2. CASE PutFile
  <2>1. holder' \in [at : {"row", "temp"}, loca : Loca, blob : Blob] /\ holder'.blob = holder.blob
        /\ (holder'.at = "row" => file[holder.blob] = "good")
    BY <1>2, HolderFields DEF PutFile, Uploading, Intact
  <2>2. UNCHANGED <<file, blobRow, pending, refs, posts>>
    BY <1>2 DEF PutFile
  <2>3. AttTypeOK'
    BY <2>1, <2>2 DEF AttTypeOK
  <2> QED
    BY <2>1, <2>2, <2>3, SameHoldings DEF HeldIsKept, UploadInOrder, SweepsOrphans, Sweeping
<1>3. CASE Publish
  <2>1. /\ holder' \in [at : {"row"}, loca : Loca, blob : Blob] /\ holder'.blob = holder.blob /\ holder.blob \in Blob
        /\ file' \in [Blob -> {"absent", "good", "corrupt", "torn"}] /\ file'[holder.blob] = "good"
        /\ \A b \in Blob : file[b] # "absent" => file'[b] # "absent"
    BY <1>3, HolderFields DEF Publish, Uploading, AttTypeOK
  <2>2. UNCHANGED <<blobRow, pending, refs, posts>>
    BY <1>3 DEF Publish
  <2>3. AttTypeOK'
    BY <2>1, <2>2 DEF AttTypeOK
  <2> QED
    BY <2>1, <2>2, <2>3, SameHoldings DEF HeldIsKept, UploadInOrder, SweepsOrphans, Sweeping
<1>7. CASE Displace
  <2>1. /\ file' \in [Blob -> {"absent", "good", "corrupt", "torn"}]
        /\ \A b \in Blob : file[b] # "absent" => file'[b] # "absent"
    BY <1>7, HolderFields DEF Displace, Uploading, AttTypeOK
  <2>2. UNCHANGED <<blobRow, pending, refs, holder, posts>> /\ Uploading
    BY <1>7 DEF Displace, Uploading
  <2>3. AttTypeOK'
    BY <2>1, <2>2 DEF AttTypeOK
  <2>4. holder.blob \in Blob
    BY <2>2, HolderFields
  <2> QED
    BY <2>1, <2>2, <2>3, <2>4, SameHoldings DEF HeldIsKept, UploadInOrder, SweepsOrphans, Sweeping, Uploading
<1>4. CASE InsertBlobRow
  <2>1. holder' \in [at : {"pending"}, loca : Loca, blob : Blob] /\ holder'.blob = holder.blob /\ holder.blob \in Blob
    BY <1>4, HolderFields DEF InsertBlobRow, Uploading
  <2>2. blobRow' = blobRow \cup {holder.blob} /\ UNCHANGED <<file, pending, refs, posts>>
    BY <1>4 DEF InsertBlobRow
  <2>3. AttTypeOK'
    BY <2>1, <2>2 DEF AttTypeOK
  <2> QED
    BY <1>4, <2>1, <2>2, <2>3, SameHoldings DEF HeldIsKept, UploadInOrder, SweepsOrphans, Sweeping, InsertBlobRow
<1>5. CASE InsertPending
  <2>1. holder.loca \in Loca /\ holder.blob \in Blob /\ holder' = Free /\ UNCHANGED <<file, blobRow, refs, posts>>
    BY <1>5, HolderFields DEF InsertPending, Uploading
  <2>2. /\ pending' \in [Loca \X Blob -> {"none", "fresh", "expired"}]
        /\ \A l \in Loca, b \in Blob : b # holder.blob => pending'[<<l, b>>] = pending[<<l, b>>]
    BY <1>5, <2>1 DEF InsertPending, AttTypeOK
  <2>3. AttTypeOK'
    BY <2>1, <2>2 DEF AttTypeOK
  <2>4. \A l \in Loca, b \in Blob : b # holder.blob => (LocaHas(l, b)' <=> LocaHas(l, b))
    BY <2>1, <2>2 DEF LocaHas, IsPending, IsCited
  <2>5. file[holder.blob] # "absent" /\ holder.blob \in blobRow
    BY <1>5 DEF UploadInOrder, InsertPending
  <2>6. HeldIsKept'
    BY <2>1, <2>4, <2>5 DEF HeldIsKept
  <2> QED
    BY <2>1, <2>3, <2>6 DEF UploadInOrder, SweepsOrphans, Sweeping, Free
<1>6. CASE UploadFails
  <2>1. holder' = Free /\ UNCHANGED <<file, blobRow, pending, refs, posts>>
    BY <1>6 DEF UploadFails
  <2> QED
    BY <2>1, SameHoldings DEF AttTypeOK, HeldIsKept, UploadInOrder, SweepsOrphans, Sweeping, Free
<1> QED
  BY <1>1, <1>2, <1>3, <1>4, <1>5, <1>6, <1>7 DEF UploadStep

PostState == [at : {"new", "refused"}] \cup [at : {"checked", "accepted"}, loca : Loca, cites : SUBSET Blob]

(* The requests that die with the server leave well-typed posts. *)
LEMMA GoneTyped ==
    ASSUME AttTypeOK
    PROVE  Gone \in [Post -> PostState]
<1>1. [at |-> "refused"] \in PostState /\ posts \in [Post -> PostState]
  BY DEF AttTypeOK, PostState
<1> QED
  BY <1>1 DEF Gone

(* Citing, claiming and renaming. *)
LEMMA PostKeeps ==
    ASSUME AttHeld, stray' \subseteq Blob,
           \/ \E p \in Post, l \in Loca, cites \in SUBSET Blob \ {{}} : Cite(p, l, cites)
           \/ \E p \in Post : Claim(p)
           \/ \E from, to \in Loca : Rename(from, to)
    PROVE  AttHeld'
<1> USE DEF AttHeld, HoldInv
<1>1. ASSUME UNCHANGED <<file, blobRow, pending, refs, stray, holder>>, posts' \in [Post -> PostState]
      PROVE  AttHeld'
  <2>1. AttTypeOK'
    BY <1>1 DEF AttTypeOK, PostState
  <2> QED
    BY <1>1, <2>1, SameHoldings DEF HeldIsKept, UploadInOrder, SweepsOrphans, Sweeping
<1>2. posts \in [Post -> PostState]
  BY DEF AttTypeOK, PostState
<1>3. CASE \E p \in Post, l \in Loca, cites \in SUBSET Blob \ {{}} : Cite(p, l, cites)
  <2>1. PICK p \in Post, l \in Loca, cites \in SUBSET Blob \ {{}} : Cite(p, l, cites)
    BY <1>3
  <2>2. [at |-> "checked", loca |-> l, cites |-> cites] \in PostState
    BY DEF PostState
  <2>3. posts' \in [Post -> PostState]
    BY <1>2, <2>1, <2>2 DEF Cite
  <2> QED
    BY <1>1, <2>1, <2>3 DEF Cite
<1>4. ASSUME NEW p \in Post, Claim(p)
      PROVE  AttHeld'
  <2> DEFINE l == posts[p].loca
             cites == posts[p].cites
  <2>1. l \in Loca /\ cites \subseteq Blob /\ posts[p] \in [at : {"checked", "accepted"}, loca : Loca, cites : SUBSET Blob]
    BY <1>2, <1>4 DEF Claim, PostState
  <2>2. CASE posts' = [posts EXCEPT ![p] = [at |-> "refused"]] /\ UNCHANGED <<refs, pending>>
    <3>1. posts' \in [Post -> PostState]
      BY <1>2, <2>2 DEF PostState
    <3> QED
      BY <1>1, <1>4, <2>2, <3>1 DEF Claim
  <2>3. CASE /\ \A b \in cites : LocaHas(l, b)
             /\ refs' = refs \cup {<<l, p, b>> : b \in cites}
             /\ pending' = [k \in Loca \X Blob |-> IF k[1] = l /\ k[2] \in cites THEN "none" ELSE pending[k]]
             /\ posts' = [posts EXCEPT ![p].at = "accepted"]
    <3>1. UNCHANGED <<file, blobRow, holder>> /\ holder = Free
      BY <1>4 DEF Claim
    <3>2. [posts[p] EXCEPT !.at = "accepted"] \in PostState
      BY <2>1 DEF PostState
    <3>3. posts' \in [Post -> PostState]
      BY <1>2, <2>3, <3>2
    <3> HIDE DEF l, cites
    <3>4. /\ pending' \in [Loca \X Blob -> {"none", "fresh", "expired"}]
          /\ refs' \subseteq Loca \X Post \X Blob
      BY <2>1, <2>3 DEF AttTypeOK
    <3>5. AttTypeOK'
      BY <3>1, <3>3, <3>4 DEF AttTypeOK, PostState
    <3>6. \A k \in Loca, b \in Blob : LocaHas(k, b)' => LocaHas(k, b)
      <4> SUFFICES ASSUME NEW k \in Loca, NEW b \in Blob, LocaHas(k, b)' PROVE LocaHas(k, b)
        OBVIOUS
      <4>1. CASE IsPending(k, b)'
        <5>1. pending'[<<k, b>>] = pending[<<k, b>>]
          BY <2>3, <4>1 DEF IsPending
        <5> QED
          BY <4>1, <5>1 DEF LocaHas, IsPending
      <4>2. CASE IsCited(k, b)'
        <5>1. PICK n \in Post : <<k, n, b>> \in refs'
          BY <4>2 DEF IsCited
        <5>2. <<k, n, b>> \in refs \/ (k = l /\ b \in cites)
          BY <2>3, <5>1
        <5> QED
          BY <2>3, <5>2 DEF LocaHas, IsCited
      <4> QED
        BY <4>1, <4>2 DEF LocaHas
    <3> QED
      BY <3>1, <3>5, <3>6 DEF HeldIsKept, UploadInOrder, SweepsOrphans, Sweeping, Free
  <2> QED
    BY <1>4, <2>2, <2>3 DEF Claim
<1>5. ASSUME NEW from \in Loca, NEW to \in Loca, Rename(from, to)
      PROVE  AttHeld'
  <2>1. \A p \in InLoca(from) : [posts[p] EXCEPT !.loca = to] \in PostState
    BY <1>2 DEF InLoca, PostState
  <2>2. posts' \in [Post -> PostState]
    BY <1>5, <2>1, GoneTyped DEF Rename
  <2> QED
    BY <1>1, <1>5, <2>2 DEF Rename
<1> QED
  BY <1>3, <1>4, <1>5

(* The sweep, which meets orphans only. *)
LEMMA SweepKeeps ==
    ASSUME AttHeld, stray' \subseteq Blob, Sweep \/ AttSweepStep
    PROVE  AttHeld'
<1> USE DEF AttHeld, HoldInv
<1>1. CASE Sweep
  <2>1. /\ holder' = [at |-> "sweep", todo |-> Orphans(pending')]
        /\ UNCHANGED <<file, blobRow, refs, posts>> /\ blobRow \subseteq Blob
    BY <1>1 DEF Sweep, AttTypeOK
  <2>2. /\ pending' \in [Loca \X Blob -> {"none", "fresh", "expired"}]
        /\ \A k \in Loca \X Blob : pending'[k] # "none" => pending[k] # "none"
    BY <1>1 DEF Sweep, AttTypeOK
  <2>3. AttTypeOK'
    <3>1. Orphans(pending') \subseteq Blob
      BY <2>1 DEF Orphans
    <3> QED
      BY <2>1, <2>2, <3>1 DEF AttTypeOK
  <2>4. HeldIsKept'
    BY <2>1, <2>2 DEF HeldIsKept, LocaHas, IsPending, IsCited
  <2>5. \A b \in holder'.todo, l \in Loca : ~LocaHas(l, b)'
    BY <2>1 DEF Orphans, LocaHas, IsPending, IsCited
  <2> QED
    BY <2>1, <2>3, <2>4, <2>5 DEF UploadInOrder, SweepsOrphans, Sweeping
<1>2. CASE SweepFile
  <2>1. PICK b \in holder.todo :
         \/ /\ file' = [file EXCEPT ![b] = "absent"]
            /\ holder' = [at |-> "swept", todo |-> holder.todo \ {b}, blob |-> b]
         \/ /\ holder' = [holder EXCEPT !.todo = @ \ {b}]
            /\ UNCHANGED file
    BY <1>2 DEF SweepFile
  <2>2. /\ holder.at = "sweep" /\ holder.todo \in SUBSET Blob /\ holder \in [at : {"sweep"}, todo : SUBSET Blob]
        /\ UNCHANGED <<blobRow, pending, refs, posts>>
        /\ \A c \in holder.todo, l \in Loca : ~LocaHas(l, c)
    BY <1>2, HolderFields DEF SweepFile, SweepsOrphans, Sweeping
  <2>3. /\ file' \in [Blob -> {"absent", "good", "corrupt", "torn"}]
        /\ \A c \in Blob : c # b => file'[c] = file[c]
    BY <2>1 DEF AttTypeOK
  <2>4. /\ holder' \in [at : {"sweep"}, todo : SUBSET Blob] \cup [at : {"swept"}, todo : SUBSET Blob, blob : Blob]
        /\ holder'.at \in {"sweep", "swept"} /\ holder'.todo \subseteq holder.todo
        /\ holder'.at = "swept" => holder'.blob = b
    BY <2>1, <2>2
  <2>5. AttTypeOK'
    BY <2>2, <2>3, <2>4 DEF AttTypeOK
  <2>6. HeldIsKept'
    BY <2>2, <2>3, SameHoldings DEF HeldIsKept
  <2> QED
    BY <2>2, <2>4, <2>5, <2>6, SameHoldings DEF UploadInOrder, SweepsOrphans, Sweeping
<1>3. CASE SweepRow
  <2>1. /\ holder' = [at |-> "sweep", todo |-> holder.todo] /\ UNCHANGED <<file, pending, refs, posts>>
        /\ holder.todo \in SUBSET Blob /\ holder.blob \in Blob
        /\ blobRow' = blobRow \/ blobRow' = blobRow \ {holder.blob}
        /\ \A l \in Loca : ~LocaHas(l, holder.blob)
        /\ \A b \in holder.todo, l \in Loca : ~LocaHas(l, b)
    BY <1>3, HolderFields DEF SweepRow, SweepsOrphans, Sweeping
  <2>2. AttTypeOK'
    BY <2>1 DEF AttTypeOK
  <2>3. HeldIsKept'
    BY <2>1, SameHoldings DEF HeldIsKept
  <2> QED
    BY <2>1, <2>2, <2>3, SameHoldings DEF UploadInOrder, SweepsOrphans, Sweeping
<1>4. CASE SweepEnds
  <2>1. holder' = Free /\ UNCHANGED <<file, blobRow, pending, refs, posts>>
    BY <1>4 DEF SweepEnds
  <2> QED
    BY <2>1, SameHoldings DEF AttTypeOK, HeldIsKept, UploadInOrder, SweepsOrphans, Sweeping, Free
<1> QED
  BY <1>1, <1>2, <1>3, <1>4 DEF AttSweepStep

(* Time, damage and the death of the server. *)
LEMMA WorldKeeps ==
    ASSUME AttHeld, stray' \subseteq Blob,
           \/ \E l \in Loca, b \in Blob : PendingExpires(l, b)
           \/ \E b \in Blob : Corrupts(b)
           \/ ServerDies
    PROVE  AttHeld'
<1> USE DEF AttHeld, HoldInv
<1>1. ASSUME NEW l \in Loca, NEW b \in Blob, PendingExpires(l, b)
      PROVE  AttHeld'
  <2>1. /\ pending' \in [Loca \X Blob -> {"none", "fresh", "expired"}]
        /\ \A k \in Loca \X Blob : pending'[k] # "none" <=> pending[k] # "none"
        /\ UNCHANGED <<file, blobRow, refs, holder, posts>>
    BY <1>1 DEF PendingExpires, AttTypeOK
  <2>2. \A k \in Loca, c \in Blob : LocaHas(k, c)' <=> LocaHas(k, c)
    BY <2>1 DEF LocaHas, IsPending, IsCited
  <2>3. AttTypeOK'
    BY <2>1 DEF AttTypeOK
  <2>4. /\ Sweeping => holder.todo \subseteq Blob
        /\ holder.at = "swept" => holder.blob \in Blob
    BY HolderFields DEF Sweeping
  <2> QED
    BY <2>1, <2>2, <2>3, <2>4 DEF HeldIsKept, UploadInOrder, SweepsOrphans, Sweeping
<1>2. ASSUME NEW b \in Blob, Corrupts(b)
      PROVE  AttHeld'
  <2>1. /\ file' \in [Blob -> {"absent", "good", "corrupt", "torn"}]
        /\ \A c \in Blob : file[c] # "absent" => file'[c] # "absent"
        /\ UNCHANGED <<blobRow, pending, refs, holder, posts>> /\ holder = Free
    BY <1>2 DEF Corrupts, AttTypeOK
  <2>2. AttTypeOK'
    BY <2>1 DEF AttTypeOK
  <2> QED
    BY <2>1, <2>2, SameHoldings DEF HeldIsKept, UploadInOrder, SweepsOrphans, Sweeping, Free
<1>3. CASE ServerDies
  <2>1. holder' = Free /\ UNCHANGED <<file, blobRow, pending, refs>> /\ posts' \in [Post -> PostState]
    BY <1>3, GoneTyped DEF ServerDies
  <2>2. AttTypeOK'
    BY <2>1 DEF AttTypeOK, PostState
  <2> QED
    BY <2>1, <2>2, SameHoldings DEF HeldIsKept, UploadInOrder, SweepsOrphans, Sweeping, Free
<1> QED
  BY <1>1, <1>2, <1>3

(* Only blobs go astray. *)
LEMMA StrayTyped ==
    ASSUME AttTypeOK, [AttNext]_attVars
    PROVE  stray' \subseteq Blob
<1>1. stray \subseteq Blob /\ Left \subseteq Blob
  BY HolderFields DEF AttTypeOK, Left, Uploading
<1>2. stray' = stray \/ stray' = stray \ {holder.blob} \/ stray' = stray \cup Left
  BY DEF AttNext, attVars, Upload, PendingExpires, UploadStep, PutFile, Displace, Publish, InsertBlobRow,
         InsertPending, UploadFails, Cite, Claim, Sweep, AttSweepStep, SweepFile, SweepRow, SweepEnds,
         Corrupts, ServerDies, Rename
<1> QED
  BY <1>1, <1>2

(* No step leaves bytes on disk without a row, but an upload that ends at its row. *)
LEMMA BytesStep ==
    ASSUME AttTypeOK, BytesHaveRows, [AttNext]_attVars
    PROVE  BytesHaveRows'
<1>1. ASSUME UNCHANGED <<file, blobRow, stray>>, holder.at = "row" => holder' = holder, holder'.at # "swept" \/ holder' = holder
      PROVE  BytesHaveRows'
  BY <1>1 DEF BytesHaveRows, OnDisk
<1>2. CASE UNCHANGED attVars
  BY <1>1, <1>2 DEF attVars
<1>3. ASSUME NEW l \in Loca, NEW b \in Blob, NEW claimed \in Claimed, Upload(l, b, claimed)
      PROVE  BytesHaveRows'
  BY <1>1, <1>3 DEF Upload, Free
<1>4. ASSUME NEW l \in Loca, NEW b \in Blob, PendingExpires(l, b)
      PROVE  BytesHaveRows'
  BY <1>1, <1>4 DEF PendingExpires
<1>5. CASE PutFile
  BY <1>1, <1>5, HolderFields DEF PutFile, Uploading
<1>6. CASE Displace
  BY <1>6, HolderFields DEF Displace, Uploading, AttTypeOK, BytesHaveRows, OnDisk
<1>7. CASE Publish
  <2>1. holder'.at = "row" /\ holder'.blob = holder.blob /\ holder.at = "temp"
    BY <1>7, HolderFields DEF Publish, Uploading
  <2> QED
    BY <1>7, <2>1 DEF Publish, AttTypeOK, BytesHaveRows, OnDisk
<1>8. CASE InsertBlobRow
  <2>1. holder'.at = "pending"
    BY <1>8, HolderFields DEF InsertBlobRow, Uploading
  <2> QED
    BY <1>8, <2>1 DEF InsertBlobRow, BytesHaveRows, OnDisk
<1>9. CASE InsertPending \/ SweepEnds
  BY <1>1, <1>9 DEF InsertPending, SweepEnds, Free
<1>10. CASE UploadFails \/ ServerDies
  <2>1. UNCHANGED <<file, blobRow>> /\ stray' = stray \cup Left /\ holder'.at = "free"
    BY <1>10 DEF UploadFails, ServerDies, Free
  <2> QED
    BY <2>1 DEF BytesHaveRows, OnDisk, Left
<1>11. ASSUME \/ \E p \in Post, l \in Loca, cites \in SUBSET Blob \ {{}} : Cite(p, l, cites)
              \/ \E p \in Post : Claim(p)
              \/ \E from, to \in Loca : Rename(from, to)
       PROVE  BytesHaveRows'
  <2>1. UNCHANGED <<file, blobRow, stray, holder>>
    BY <1>11 DEF Cite, Claim, Rename
  <2> QED
    BY <1>1, <2>1
<1>12. CASE Sweep
  BY <1>1, <1>12 DEF Sweep, Free
<1>13. CASE SweepFile
  <2>1. PICK b \in holder.todo :
         \/ /\ file' = [file EXCEPT ![b] = "absent"]
            /\ holder' = [at |-> "swept", todo |-> holder.todo \ {b}, blob |-> b]
         \/ /\ holder' = [holder EXCEPT !.todo = @ \ {b}]
            /\ UNCHANGED file
    BY <1>13 DEF SweepFile
  <2>2. holder.at = "sweep" /\ UNCHANGED <<blobRow, stray>> /\ holder \in [at : {"sweep"}, todo : SUBSET Blob]
    BY <1>13, HolderFields DEF SweepFile
  <2>3. CASE /\ file' = [file EXCEPT ![b] = "absent"]
             /\ holder' = [at |-> "swept", todo |-> holder.todo \ {b}, blob |-> b]
    BY <2>1, <2>2, <2>3 DEF BytesHaveRows, OnDisk, AttTypeOK
  <2>4. CASE holder' = [holder EXCEPT !.todo = @ \ {b}] /\ UNCHANGED file
    BY <1>1, <2>2, <2>4
  <2> QED
    BY <2>1, <2>3, <2>4
<1>14. CASE SweepRow
  BY <1>14 DEF SweepRow, BytesHaveRows, OnDisk
<1>15. ASSUME NEW b \in Blob, Corrupts(b)
       PROVE  BytesHaveRows'
  BY <1>15 DEF Corrupts, BytesHaveRows, OnDisk, AttTypeOK, Intact, Free
<1> QED
  BY <1>2, <1>3, <1>4, <1>5, <1>6, <1>7, <1>8, <1>9, <1>10, <1>11, <1>12, <1>13, <1>14, <1>15
     DEF AttNext, UploadStep, AttSweepStep

(* Uploads, posts, sweeps and failures keep it. *)
LEMMA AttStep ==
    ASSUME AttInv, [AttNext]_attVars
    PROVE  AttInv'
<1>1. AttHeld /\ stray' \subseteq Blob /\ BytesHaveRows'
  BY StrayTyped, BytesStep DEF AttInv, AttHeld
<1>2. CASE UNCHANGED attVars
  BY <1>1, <1>2, SameHoldings DEF attVars, AttHeld, HoldInv, AttInv, AttTypeOK, HeldIsKept, UploadInOrder, SweepsOrphans, Sweeping
<1>3. CASE AttNext
  <2>1. AttHeld'
    BY <1>1, <1>3, UploadKeeps, PostKeeps, SweepKeeps, WorldKeeps DEF AttNext
  <2> QED
    BY <1>1, <2>1 DEF AttHeld, AttInv
<1> QED
  BY <1>2, <1>3

(* Nothing is stored at first. *)
LEMMA AttInitially ==
    ASSUME AttInit
    PROVE  AttInv
<1>1. AttTypeOK
  BY DEF AttInit, AttTypeOK
<1>2. \A l \in Loca, b \in Blob : ~LocaHas(l, b)
  BY DEF AttInit, LocaHas, IsPending, IsCited
<1> QED
  BY <1>1, <1>2 DEF AttInit, AttInv, HoldInv, BytesHaveRows, OnDisk, HeldIsKept, UploadInOrder, SweepsOrphans, Sweeping, Free

(* The inductive invariant of the attachments. *)
THEOREM AttachmentsInvariant == AttSpec => []AttInv
<1>1. AttInit => AttInv
  BY AttInitially
<1>2. AttInv /\ [AttNext]_attVars => AttInv'
  BY AttStep
<1> QED
  BY <1>1, <1>2, PTL DEF AttSpec

(* Every reachable state of the attachments is well typed. *)
THEOREM AttachmentsTyping == AttSpec => []AttTypeOK
<1>1. AttInv => AttTypeOK
  BY DEF AttInv
<1> QED
  BY <1>1, AttachmentsInvariant, PTL

(* No interleaving of uploads, sweeps, crashes and failing statements takes away *)
(* the bytes or the row of a blob that a message cites.                          *)
THEOREM CitedIsKept == AttSpec => []CitedBlobIsServed
<1>1. AttInv => CitedBlobIsServed
  <2> SUFFICES ASSUME AttInv, NEW r \in refs
               PROVE  (file[r[3]] \in {"corrupt", "torn"} \/ Serves(r[1], r[3])) /\ r[3] \in blobRow
    BY DEF CitedBlobIsServed
  <2>1. r = <<r[1], r[2], r[3]>> /\ r[1] \in Loca /\ r[2] \in Post /\ r[3] \in Blob
    BY DEF AttInv, AttTypeOK
  <2>2. IsCited(r[1], r[3])
    BY <2>1 DEF IsCited
  <2>3. r[3] \in blobRow /\ file[r[3]] # "absent"
    BY <2>1, <2>2 DEF AttInv, HoldInv, HeldIsKept, LocaHas
  <2>4. file[r[3]] \in {"absent", "good", "corrupt", "torn"}
    BY <2>1 DEF AttInv, AttTypeOK
  <2> QED
    BY <2>2, <2>3, <2>4 DEF Serves, Intact
<1> QED
  BY <1>1, AttachmentsInvariant, PTL

-----------------------------------------------------------------------------
(* Sums of sizes.  Bytes folds over a set of files, one at a time; what the  *)
(* quotas need of it follows because there are finitely many files.          *)

LEMMA LeastNat ==
    ASSUME NEW N, N \subseteq Nat, N # {}
    PROVE  \E x \in N : \A y \in N : x <= y
<1> DEFINE R == OpToRel(<, Nat)
<1>1. IsWellFoundedOn(R, Nat)
  BY NatLessThanWellFounded
<1>2. \A x, y \in Nat : <<x, y>> \in R <=> x < y
  BY DEF OpToRel
<1> HIDE DEF R
<1>3. PICK x \in N : \A y \in N : ~(<<y, x>> \in R)
  BY <1>1, WFMin
<1>4. ASSUME NEW y \in N PROVE x <= y
  <2>1. x \in Nat /\ y \in Nat /\ ~(<<y, x>> \in R)
    BY <1>3
  <2> QED
    BY <1>2, <2>1
<1> QED
  BY <1>3, <1>4

(* A family of sets of files has a member that leaves the family whichever *)
(* file it loses.                                                          *)
LEMMA LeastSet ==
    ASSUME NEW F, F \subseteq SUBSET Blob, F # {}
    PROVE  \E S \in F : \A b \in S : S \ {b} \notin F
<1> DEFINE N == {Cardinality(S) : S \in F}
<1>1. \A S \in SUBSET Blob : IsFiniteSet(S) /\ Cardinality(S) \in Nat
  BY AttachmentsAssumption, FS_Subset, FS_CardinalityType
<1>2. N \subseteq Nat /\ N # {}
  BY <1>1
<1>3. PICK n \in N : \A m \in N : n <= m
  BY <1>2, LeastNat
<1>4. PICK S \in F : n = Cardinality(S)
  OBVIOUS
<1>5. ASSUME NEW b \in S, S \ {b} \in F PROVE FALSE
  <2>1. Cardinality(S \ {b}) = Cardinality(S) - 1
    BY <1>1, <1>4, FS_RemoveElement
  <2>2. n <= Cardinality(S \ {b}) /\ Cardinality(S) \in Nat
    BY <1>1, <1>3, <1>4, <1>5
  <2> QED
    BY <1>4, <2>1, <2>2
<1> QED
  BY <1>4, <1>5

Pick(s) == CHOOSE x \in s : TRUE

(* What the fold of Bytes computes by, and what a sum of sizes is. *)
IsFold(g, T) == g = [s \in SUBSET T |-> IF s = {} THEN 0 ELSE Size[Pick(s)] + g[s \ {Pick(s)}]]

IsSum(g, T) ==
    /\ g \in [SUBSET T -> Nat]
    /\ g[{}] = 0
    /\ \A s \in SUBSET T : \A b \in T : b \notin s => g[s \cup {b}] = g[s] + Size[b]

LEMMA BytesFolds ==
    ASSUME NEW T
    PROVE  Bytes(T) = (CHOOSE g : IsFold(g, T))[T]
  BY DEF Bytes, MapThenSumSet, MapThenFoldSet, IsFold, Pick

(* Every set of files has a sum: one file more extends it. *)
LEMMA SumExists ==
    ASSUME NEW T \in SUBSET Blob
    PROVE  \E g : IsSum(g, T)
<1> DEFINE F == {S \in SUBSET Blob : ~ \E g : IsSum(g, S)}
<1> SUFFICES ASSUME F # {} PROVE FALSE
  OBVIOUS
<1>1. PICK S \in F : \A b \in S : S \ {b} \notin F
  BY LeastSet
<1>2. S \in SUBSET Blob /\ ~ \E g : IsSum(g, S)
  OBVIOUS
<1>3. CASE S = {}
  <2> DEFINE h == [s \in SUBSET S |-> 0]
  <2>1. IsSum(h, S)
    BY <1>3 DEF IsSum
  <2> QED
    BY <1>2, <2>1
<1>4. CASE S # {}
  <2>1. PICK b \in S : TRUE
    BY <1>4
  <2>2. PICK g : IsSum(g, S \ {b})
    BY <1>1, <1>2
  <2> DEFINE h == [s \in SUBSET S |-> IF b \in s THEN g[s \ {b}] + Size[b] ELSE g[s]]
  <2>3. Size[b] \in Nat /\ \A c \in S : Size[c] \in Nat
    BY <1>2, AttachmentsAssumption
  <2>4. \A s \in SUBSET S : s \ {b} \in SUBSET (S \ {b}) /\ (b \notin s => s \in SUBSET (S \ {b}))
    OBVIOUS
  <2>5. \A s \in SUBSET (S \ {b}) : g[s] \in Nat
    BY <2>2 DEF IsSum
  <2>6. h \in [SUBSET S -> Nat] /\ h[{}] = 0
    <3>1. h[{}] = 0
      BY <2>2 DEF IsSum
    <3> QED
      BY <2>3, <2>4, <2>5, <3>1
  <2>7. ASSUME NEW s \in SUBSET S, NEW c \in S, c \notin s
        PROVE  h[s \cup {c}] = h[s] + Size[c]
    <3>1. s \cup {c} \in SUBSET S
      OBVIOUS
    <3>2. CASE c = b
      <4>1. (s \cup {c}) \ {b} = s /\ b \notin s /\ b \in s \cup {c}
        BY <2>7, <3>2
      <4>2. h[s \cup {c}] = g[(s \cup {c}) \ {b}] + Size[b]
        BY <3>1, <4>1
      <4>3. h[s] = g[s]
        BY <4>1
      <4> QED
        BY <3>2, <4>1, <4>2, <4>3
    <3>3. CASE c # b /\ b \in s
      <4>1. (s \cup {c}) \ {b} = (s \ {b}) \cup {c} /\ s \ {b} \in SUBSET (S \ {b}) /\ c \in S \ {b} /\ c \notin s \ {b}
        BY <2>7, <3>3
      <4>2. g[(s \ {b}) \cup {c}] = g[s \ {b}] + Size[c] /\ g[s \ {b}] \in Nat
        BY <2>2, <2>5, <4>1 DEF IsSum
      <4>3. h[s \cup {c}] = g[(s \cup {c}) \ {b}] + Size[b] /\ h[s] = g[s \ {b}] + Size[b]
        BY <3>1, <3>3
      <4> HIDE DEF h
      <4>4. h[s \cup {c}] = (g[s \ {b}] + Size[c]) + Size[b]
        BY <4>1, <4>2, <4>3
      <4> QED
        BY <2>3, <4>2, <4>3, <4>4
    <3>4. CASE c # b /\ b \notin s
      <4>1. s \in SUBSET (S \ {b}) /\ c \in S \ {b} /\ b \notin s \cup {c}
        BY <3>4
      <4>2. g[s \cup {c}] = g[s] + Size[c]
        BY <2>2, <2>7, <4>1 DEF IsSum
      <4> QED
        BY <3>1, <3>4, <4>1, <4>2
    <3> QED
      BY <3>2, <3>3, <3>4
  <2> HIDE DEF h
  <2>8. IsSum(h, S)
    BY <2>6, <2>7 DEF IsSum
  <2> QED
    BY <1>2, <2>8
<1> QED
  BY <1>3, <1>4

(* A sum is a fold, and there is only one fold. *)
LEMMA SumFolds ==
    ASSUME NEW T \in SUBSET Blob, NEW g, IsSum(g, T)
    PROVE  IsFold(g, T)
<1>1. ASSUME NEW s \in SUBSET T
      PROVE  g[s] = IF s = {} THEN 0 ELSE Size[Pick(s)] + g[s \ {Pick(s)}]
  <2>1. CASE s = {}
    BY <2>1 DEF IsSum
  <2>2. CASE s # {}
    <3>1. Pick(s) \in s
      BY <2>2 DEF Pick
    <3> DEFINE x == Pick(s)
               r == s \ {x}
    <3>2. r \in SUBSET T /\ x \in T /\ x \notin r /\ s = r \cup {x}
      BY <3>1
    <3> HIDE DEF x, r
    <3>3. g[s] = g[r] + Size[x] /\ g[r] \in Nat /\ Size[x] \in Nat
      BY <3>2, AttachmentsAssumption DEF IsSum
    <3>4. g[s] = Size[x] + g[r]
      BY <3>3
    <3> QED
      BY <2>2, <3>4 DEF x, r
  <2> QED
    BY <2>1, <2>2
<1> QED
  BY <1>1 DEF IsFold, IsSum

LEMMA OneFold ==
    ASSUME NEW T \in SUBSET Blob, NEW g, NEW h, IsFold(g, T), IsFold(h, T)
    PROVE  g[T] = h[T]
<1> DEFINE F == {s \in SUBSET T : g[s] # h[s]}
<1> SUFFICES ASSUME F # {} PROVE FALSE
  OBVIOUS
<1>1. PICK s \in F : \A b \in s : s \ {b} \notin F
  BY LeastSet
<1>2. s \in SUBSET T /\ g[s] # h[s]
  OBVIOUS
<1>3. /\ g[s] = IF s = {} THEN 0 ELSE Size[Pick(s)] + g[s \ {Pick(s)}]
      /\ h[s] = IF s = {} THEN 0 ELSE Size[Pick(s)] + h[s \ {Pick(s)}]
  BY <1>2 DEF IsFold
<1>4. s # {}
  BY <1>2, <1>3
<1>5. Pick(s) \in s
  BY <1>4 DEF Pick
<1>6. s \ {Pick(s)} \in SUBSET T
  BY <1>2
<1>7. g[s \ {Pick(s)}] = h[s \ {Pick(s)}]
  BY <1>1, <1>5, <1>6
<1> QED
  BY <1>2, <1>3, <1>7

(* So the fold adds, whatever order it takes the files in. *)
LEMMA BytesAdds ==
    ASSUME NEW g, IsSum(g, Blob), NEW T \in SUBSET Blob
    PROVE  Bytes(T) = g[T]
<1> DEFINE r == [s \in SUBSET T |-> g[s]]
<1>1. IsSum(r, T)
  <2>1. \A s \in SUBSET T : s \in SUBSET Blob
    OBVIOUS
  <2>2. r \in [SUBSET T -> Nat] /\ r[{}] = 0
    BY <2>1 DEF IsSum
  <2>3. ASSUME NEW s \in SUBSET T, NEW b \in T, b \notin s PROVE r[s \cup {b}] = r[s] + Size[b]
    <3>1. s \cup {b} \in SUBSET T /\ s \in SUBSET Blob /\ b \in Blob
      OBVIOUS
    <3> QED
      BY <2>3, <3>1 DEF IsSum
  <2> HIDE DEF r
  <2> QED
    BY <2>2, <2>3 DEF IsSum
<1>2. r[T] = g[T]
  OBVIOUS
<1> HIDE DEF r
<1>3. IsFold(r, T)
  BY <1>1, SumFolds
<1> DEFINE h == CHOOSE x : IsFold(x, T)
<1>4. IsFold(h, T)
  BY <1>3
<1>5. Bytes(T) = h[T]
  BY BytesFolds
<1> HIDE DEF h
<1>6. h[T] = r[T]
  BY <1>3, <1>4, OneFold
<1> QED
  BY <1>2, <1>5, <1>6

(* What the quotas need of a sum: it grows with its set, by the size of each file. *)
BytesAddUp ==
    /\ \A S \in SUBSET Blob : Bytes(S) \in Nat
    /\ \A S \in SUBSET Blob, b \in Blob : b \notin S => Bytes(S \cup {b}) = Bytes(S) + Size[b]
    /\ \A S, T \in SUBSET Blob : S \subseteq T => Bytes(S) <= Bytes(T)
    /\ Bytes({}) = 0

LEMMA SumsAddUp == BytesAddUp
<1>1. PICK g : IsSum(g, Blob)
  BY SumExists
<1>2. \A S \in SUBSET Blob : Bytes(S) = g[S] /\ g[S] \in Nat
  BY <1>1, BytesAdds DEF IsSum
<1>3. \A S \in SUBSET Blob, b \in Blob : b \notin S => g[S \cup {b}] = g[S] + Size[b] /\ S \cup {b} \in SUBSET Blob
  BY <1>1 DEF IsSum
<1>4. g[{}] = 0 /\ {} \in SUBSET Blob
  BY <1>1 DEF IsSum
<1>5. ASSUME NEW S \in SUBSET Blob, NEW T \in SUBSET Blob, S \subseteq T
      PROVE  g[S] <= g[T]
  <2> DEFINE F == {U \in SUBSET Blob : S \subseteq U /\ ~(g[S] <= g[U])}
  <2> SUFFICES ASSUME F # {} PROVE FALSE
    BY <1>5
  <2>1. PICK U \in F : \A b \in U : U \ {b} \notin F
    BY LeastSet
  <2>2. U \in SUBSET Blob /\ S \subseteq U /\ ~(g[S] <= g[U]) /\ g[S] \in Nat /\ g[U] \in Nat
    BY <1>2
  <2>3. S # U
    BY <2>2
  <2>4. PICK b \in U : b \notin S
    BY <2>2, <2>3
  <2> DEFINE V == U \ {b}
  <2>5. V \in SUBSET Blob /\ S \subseteq V /\ b \in Blob /\ b \notin V /\ U = V \cup {b} /\ V \notin F
    BY <2>1, <2>2, <2>4
  <2>6. g[S] <= g[V]
    BY <2>5
  <2> HIDE DEF V, F
  <2>7. g[U] = g[V] + Size[b] /\ Size[b] \in Nat /\ g[V] \in Nat
    BY <1>2, <1>3, <2>5, AttachmentsAssumption
  <2> QED
    BY <2>2, <2>6, <2>7
<1>6. \A S, T \in SUBSET Blob : S \subseteq T => Bytes(S) <= Bytes(T)
  BY <1>2, <1>5
<1> QED
  BY <1>2, <1>3, <1>4, <1>6 DEF BytesAddUp

-----------------------------------------------------------------------------
(* The quotas *)

HeldBy(l) == {b \in Blob : LocaHas(l, b)}

(* An upload in flight is within the quotas that it was checked against. *)
UploadFits ==
    /\ Uploading => WithinLocaQuota(holder.loca, holder.blob)
    /\ holder.at \in {"file", "temp", "row"} => WithinBuildingQuota(holder.blob)

(* The rows alone are within the quotas. *)
RowsFit ==
    /\ Bytes(blobRow) <= BuildingMax
    /\ \A l \in Loca : Bytes(HeldBy(l)) <= LocaMax

QuotaInv == RowsFit /\ UploadFits

(* A step that adds no row and gives no loca a blob keeps the quotas. *)
LEMMA NothingAdded ==
    ASSUME AttInv, AttInv', RowsFit, blobRow' \subseteq blobRow,
           \A l \in Loca, b \in Blob : LocaHas(l, b)' => LocaHas(l, b)
    PROVE  RowsFit'
<1>1. blobRow \subseteq Blob /\ blobRow' \subseteq Blob
  BY DEF AttInv, AttTypeOK
<1>2. Bytes(blobRow') \in Nat /\ Bytes(blobRow) \in Nat /\ Bytes(blobRow') <= Bytes(blobRow)
  BY <1>1, SumsAddUp DEF BytesAddUp
<1>3. Bytes(blobRow') <= BuildingMax
  BY <1>2, AttachmentsAssumption DEF RowsFit
<1>4. ASSUME NEW l \in Loca PROVE Bytes(HeldBy(l)') <= LocaMax
  <2>1. HeldBy(l) \in SUBSET Blob /\ HeldBy(l)' \in SUBSET Blob /\ HeldBy(l)' \subseteq HeldBy(l)
    BY DEF HeldBy
  <2>2. Bytes(HeldBy(l)') \in Nat /\ Bytes(HeldBy(l)) \in Nat /\ Bytes(HeldBy(l)') <= Bytes(HeldBy(l))
    BY <2>1, SumsAddUp DEF BytesAddUp
  <2>3. Bytes(HeldBy(l)) <= LocaMax
    BY DEF RowsFit, HeldBy
  <2> QED
    BY <2>2, <2>3, AttachmentsAssumption
<1> QED
  BY <1>3, <1>4 DEF RowsFit, HeldBy

(* The row of an upload that was checked against the building's quota fits. *)
LEMMA RowFits ==
    ASSUME AttInv, QuotaInv, InsertBlobRow
    PROVE  RowsFit'
<1>1. /\ holder.blob \in Blob /\ blobRow \in SUBSET Blob /\ WithinBuildingQuota(holder.blob)
      /\ blobRow' = blobRow \cup {holder.blob} /\ UNCHANGED <<pending, refs>>
  BY HolderFields DEF AttInv, AttTypeOK, QuotaInv, UploadFits, InsertBlobRow, Uploading
<1>2. Bytes(blobRow') <= BuildingMax
  <2>1. CASE holder.blob \in blobRow
    <3>1. blobRow' = blobRow
      BY <1>1, <2>1
    <3> QED
      BY <3>1 DEF QuotaInv, RowsFit
  <2>2. CASE holder.blob \notin blobRow
    <3>1. Bytes(blobRow') = Bytes(blobRow) + Size[holder.blob]
      BY <1>1, <2>2, SumsAddUp DEF BytesAddUp
    <3> QED
      BY <1>1, <2>2, <3>1 DEF WithinBuildingQuota
  <2> QED
    BY <2>1, <2>2
<1>3. \A l \in Loca : HeldBy(l)' = HeldBy(l)
  BY <1>1, SameHoldings DEF HeldBy
<1> QED
  BY <1>2, <1>3 DEF QuotaInv, RowsFit, HeldBy

(* The pending entry of an upload that was checked against its loca's quota fits. *)
LEMMA PendingFits ==
    ASSUME AttInv, QuotaInv, InsertPending
    PROVE  RowsFit'
<1>1. PICK l \in Loca, b \in Blob :
        /\ WithinLocaQuota(l, b) /\ UNCHANGED <<blobRow, refs>>
        /\ pending' = [pending EXCEPT ![<<l, b>>] = "fresh"]
        /\ pending \in [Loca \X Blob -> {"none", "fresh", "expired"}]
  BY HolderFields DEF AttInv, AttTypeOK, QuotaInv, UploadFits, InsertPending, Uploading
<1>2. LocaHas(l, b)' /\ \A k \in Loca, c \in Blob : <<k, c>> # <<l, b>> => (LocaHas(k, c)' <=> LocaHas(k, c))
  BY <1>1 DEF LocaHas, IsPending, IsCited
<1>3. HeldBy(l)' = HeldBy(l) \cup {b} /\ \A k \in Loca \ {l} : HeldBy(k)' = HeldBy(k)
  BY <1>1, <1>2 DEF HeldBy
<1>4. Bytes(HeldBy(l)') <= LocaMax
  <2>1. CASE LocaHas(l, b)
    <3>1. HeldBy(l)' = HeldBy(l)
      BY <1>1, <1>3, <2>1 DEF HeldBy
    <3> QED
      BY <1>1, <3>1 DEF QuotaInv, RowsFit, HeldBy
  <2>2. CASE ~LocaHas(l, b)
    <3>1. b \notin HeldBy(l) /\ HeldBy(l) \in SUBSET Blob
      BY <2>2 DEF HeldBy
    <3>2. Bytes(HeldBy(l)') = Bytes(HeldBy(l)) + Size[b]
      BY <1>1, <1>3, <3>1, SumsAddUp DEF BytesAddUp
    <3>3. Bytes(HeldBy(l)) + Size[b] <= LocaMax
      BY <1>1, <2>2 DEF WithinLocaQuota, HeldBy
    <3> QED
      BY <3>2, <3>3
  <2> QED
    BY <2>1, <2>2
<1>5. \A k \in Loca : Bytes(HeldBy(k)') <= LocaMax
  BY <1>3, <1>4 DEF QuotaInv, RowsFit, HeldBy
<1> QED
  BY <1>1, <1>5 DEF QuotaInv, RowsFit, HeldBy

(* A citation turns what the loca holds pending into what it holds cited. *)
LEMMA ClaimMoves ==
    ASSUME AttTypeOK, NEW p \in Post, Claim(p), NEW k \in Loca, NEW b \in Blob, LocaHas(k, b)'
    PROVE  LocaHas(k, b)
<1> DEFINE l == posts[p].loca
           cites == posts[p].cites
<1>1. \/ UNCHANGED <<refs, pending>>
      \/ /\ \A c \in cites : LocaHas(l, c)
         /\ refs' = refs \cup {<<l, p, c>> : c \in cites}
         /\ pending' = [x \in Loca \X Blob |-> IF x[1] = l /\ x[2] \in cites THEN "none" ELSE pending[x]]
  BY DEF Claim
<1> HIDE DEF l, cites
<1>2. CASE UNCHANGED <<refs, pending>>
  BY <1>2, SameHoldings
<1>3. CASE /\ \A c \in cites : LocaHas(l, c)
           /\ refs' = refs \cup {<<l, p, c>> : c \in cites}
           /\ pending' = [x \in Loca \X Blob |-> IF x[1] = l /\ x[2] \in cites THEN "none" ELSE pending[x]]
  <2>1. CASE IsPending(k, b)'
    <3>1. pending'[<<k, b>>] = pending[<<k, b>>]
      BY <1>3, <2>1 DEF IsPending
    <3> QED
      BY <2>1, <3>1 DEF LocaHas, IsPending
  <2>2. CASE IsCited(k, b)'
    <3>1. PICK n \in Post : <<k, n, b>> \in refs'
      BY <2>2 DEF IsCited
    <3>2. <<k, n, b>> \in refs \/ (k = l /\ b \in cites)
      BY <1>3, <3>1
    <3> QED
      BY <1>3, <3>2 DEF LocaHas, IsCited
  <2> QED
    BY <2>1, <2>2 DEF LocaHas
<1> QED
  BY <1>1, <1>2, <1>3

(* A check made under the mutex stays good while no other step adds or removes. *)
LEMMA StillWithin ==
    ASSUME blobRow' = blobRow, \A l \in Loca, b \in Blob : LocaHas(l, b)' <=> LocaHas(l, b),
           NEW l \in Loca, NEW b \in Blob
    PROVE  /\ WithinBuildingQuota(b)' <=> WithinBuildingQuota(b)
           /\ WithinLocaQuota(l, b)' <=> WithinLocaQuota(l, b)
<1>1. HeldBy(l)' = HeldBy(l)
  BY DEF HeldBy
<1> QED
  BY <1>1 DEF WithinBuildingQuota, WithinLocaQuota, HeldBy

(* Every step keeps the quotas. *)
LEMMA QuotaStep ==
    ASSUME AttInv, AttInv', QuotaInv, [AttNext]_attVars
    PROVE  QuotaInv'
<1> DEFINE Same == \A l \in Loca, b \in Blob : LocaHas(l, b)' <=> LocaHas(l, b)
<1>1. ASSUME blobRow' \subseteq blobRow, \A l \in Loca, b \in Blob : LocaHas(l, b)' => LocaHas(l, b), ~Uploading'
      PROVE  QuotaInv'
  BY <1>1, NothingAdded DEF QuotaInv, UploadFits, Uploading
<1>2. ASSUME blobRow' = blobRow, Same, Uploading', Uploading, holder'.loca = holder.loca, holder'.blob = holder.blob,
             holder'.at \in {"file", "temp", "row"} => holder.at \in {"file", "temp", "row"}
      PROVE  QuotaInv'
  <2>1. holder.loca \in Loca /\ holder.blob \in Blob
    BY <1>2, HolderFields DEF AttInv
  <2>2. RowsFit'
    BY <1>2, NothingAdded DEF QuotaInv
  <2>3. UploadFits'
    BY <1>2, <2>1, StillWithin DEF QuotaInv, UploadFits
  <2> QED
    BY <2>2, <2>3 DEF QuotaInv
<1>3. (pending' = pending /\ refs' = refs) => Same
  BY SameHoldings
<1> HIDE DEF Same
<1>4. ASSUME NEW l \in Loca, NEW b \in Blob, NEW claimed \in Claimed, Upload(l, b, claimed)
      PROVE  QuotaInv'
  <2>1. /\ holder' = [at |-> "file", loca |-> l, blob |-> b] /\ UNCHANGED <<blobRow, pending, refs>>
        /\ WithinBuildingQuota(b) /\ WithinLocaQuota(l, b)
    BY <1>4 DEF Upload
  <2>2. WithinBuildingQuota(b)' /\ WithinLocaQuota(l, b)'
    BY <1>3, <2>1, StillWithin DEF Same
  <2>3. RowsFit'
    BY <1>3, <2>1, NothingAdded DEF QuotaInv, Same
  <2> QED
    BY <2>1, <2>2, <2>3 DEF QuotaInv, UploadFits, Uploading
<1>15. CASE Displace
  <2>1. UNCHANGED <<blobRow, pending, refs, holder>> /\ Uploading /\ Uploading'
    BY <1>15 DEF Displace, Uploading
  <2> QED
    BY <1>2, <1>3, <2>1
<1>5. CASE PutFile \/ Publish
  <2>1. holder \in [at : {"file", "temp", "row", "pending"}, loca : Loca, blob : Blob] /\ Uploading
    BY <1>5, HolderFields DEF AttInv, PutFile, Publish, Uploading
  <2>2. /\ UNCHANGED <<blobRow, pending, refs>>
        /\ holder'.loca = holder.loca /\ holder'.blob = holder.blob /\ holder'.at \in {"row", "temp"}
        /\ holder.at \in {"file", "temp"}
    BY <1>5, <2>1 DEF PutFile, Publish
  <2> QED
    BY <1>2, <1>3, <2>1, <2>2 DEF Uploading
<1>6. CASE InsertBlobRow
  <2>1. holder \in [at : {"file", "temp", "row", "pending"}, loca : Loca, blob : Blob] /\ Uploading
    BY <1>6, HolderFields DEF AttInv, InsertBlobRow, Uploading
  <2>2. /\ UNCHANGED <<pending, refs>> /\ holder.loca \in Loca /\ holder.blob \in Blob
        /\ holder'.loca = holder.loca /\ holder'.blob = holder.blob /\ holder'.at = "pending"
    BY <1>6, <2>1 DEF InsertBlobRow
  <2>4. WithinLocaQuota(holder.loca, holder.blob)
    BY <2>1 DEF QuotaInv, UploadFits
  <2>5. WithinLocaQuota(holder.loca, holder.blob)'
    BY <2>2, <2>4 DEF WithinLocaQuota, LocaHas, IsPending, IsCited
  <2> QED
    BY <1>6, <2>2, <2>5, RowFits DEF QuotaInv, UploadFits
<1>7. CASE InsertPending
  <2>1. RowsFit' /\ ~Uploading'
    BY <1>7, PendingFits DEF InsertPending, Uploading, Free
  <2> QED
    BY <2>1 DEF QuotaInv, UploadFits, Uploading
<1>8. CASE UploadFails \/ ServerDies \/ SweepEnds
  <2>1. UNCHANGED <<blobRow, pending, refs>> /\ ~Uploading'
    BY <1>8 DEF UploadFails, ServerDies, SweepEnds, Uploading, Free
  <2> QED
    BY <1>1, <1>3, <2>1 DEF Same
<1>9. ASSUME NEW l \in Loca, NEW b \in Blob, PendingExpires(l, b)
      PROVE  QuotaInv'
  <2>1. UNCHANGED <<blobRow, refs, holder>> /\ \A k \in Loca \X Blob : pending'[k] # "none" <=> pending[k] # "none"
    BY <1>9 DEF PendingExpires, AttInv, AttTypeOK
  <2>2. Same
    BY <2>1 DEF Same, LocaHas, IsPending, IsCited
  <2>3. Uploading' <=> Uploading
    BY <2>1 DEF Uploading
  <2>4. CASE Uploading
    BY <1>2, <2>1, <2>2, <2>3, <2>4
  <2>5. CASE ~Uploading
    BY <1>1, <2>1, <2>2, <2>3, <2>5 DEF Same
  <2> QED
    BY <2>4, <2>5
<1>10. ASSUME NEW p \in Post, Claim(p)
       PROVE  QuotaInv'
  <2>1. UNCHANGED <<blobRow, holder>> /\ ~Uploading'
    BY <1>10 DEF Claim, Uploading, Free
  <2>2. \A k \in Loca, b \in Blob : LocaHas(k, b)' => LocaHas(k, b)
    BY <1>10, ClaimMoves DEF AttInv
  <2> QED
    BY <1>1, <2>1, <2>2
<1>11. ASSUME \/ \E p \in Post, l \in Loca, cites \in SUBSET Blob \ {{}} : Cite(p, l, cites)
              \/ \E from, to \in Loca : Rename(from, to)
              \/ \E b \in Blob : Corrupts(b)
       PROVE  QuotaInv'
  <2>1. UNCHANGED <<blobRow, pending, refs, holder>> /\ ~Uploading'
    BY <1>11 DEF Cite, Rename, Corrupts, Uploading, Free
  <2> QED
    BY <1>1, <1>3, <2>1 DEF Same
<1>12. CASE Sweep
  <2>1. UNCHANGED <<blobRow, refs>> /\ ~Uploading' /\ \A k \in Loca \X Blob : pending'[k] # "none" => pending[k] # "none"
    BY <1>12 DEF Sweep, Uploading, AttInv, AttTypeOK
  <2>2. \A k \in Loca, b \in Blob : LocaHas(k, b)' => LocaHas(k, b)
    BY <2>1 DEF LocaHas, IsPending, IsCited
  <2> QED
    BY <1>1, <2>1, <2>2
<1>13. CASE SweepFile \/ SweepRow
  <2>1. UNCHANGED <<pending, refs>> /\ blobRow' \subseteq blobRow
    BY <1>13 DEF SweepFile, SweepRow
  <2>2. ~Uploading'
    <3>1. holder.at = "sweep" => holder \in [at : {"sweep"}, todo : SUBSET Blob]
      BY HolderFields DEF AttInv
    <3> QED
      BY <1>13, <3>1 DEF SweepFile, SweepRow, Uploading
  <2> QED
    BY <1>1, <1>3, <2>1, <2>2 DEF Same
<1>14. CASE UNCHANGED attVars
  <2>1. UNCHANGED <<blobRow, pending, refs, holder>> /\ (Uploading' <=> Uploading)
    BY <1>14 DEF attVars, Uploading
  <2>2. CASE Uploading
    BY <1>2, <1>3, <2>1, <2>2
  <2>3. CASE ~Uploading
    BY <1>1, <1>3, <2>1, <2>3 DEF Same
  <2> QED
    BY <2>2, <2>3
<1> QED
  BY <1>4, <1>5, <1>6, <1>7, <1>8, <1>9, <1>10, <1>11, <1>12, <1>13, <1>14, <1>15 DEF AttNext, UploadStep, AttSweepStep

(* No sequence of uploads, citations, expiries, sweeps and crashes takes the      *)
(* recorded bytes of a loca over its quota, or the bytes that the building records *)
(* or has on disk: the check of put_pending_attachment is still good when its      *)
(* rows are written, and only an upload that ends at its row leaves stray bytes.   *)
THEOREM QuotasAreKept == AttSpec => []QuotasHold
<1>1. AttInit => QuotaInv
  <2> SUFFICES ASSUME AttInit PROVE QuotaInv
    OBVIOUS
  <2>1. blobRow = {} /\ ~Uploading /\ \A l \in Loca : HeldBy(l) = {}
    BY DEF AttInit, HeldBy, LocaHas, IsPending, IsCited, Uploading, Free
  <2>2. Bytes({}) <= BuildingMax /\ Bytes({}) <= LocaMax
    BY AttachmentsAssumption, SumsAddUp DEF BytesAddUp
  <2> QED
    BY <2>1, <2>2 DEF QuotaInv, RowsFit, UploadFits, HeldBy, Uploading
<1>2. AttInv /\ AttInv' /\ QuotaInv /\ [AttNext]_attVars => QuotaInv'
  BY QuotaStep
<1>3. AttInv /\ QuotaInv => QuotasHold
  <2> SUFFICES ASSUME AttInv, QuotaInv PROVE QuotasHold
    OBVIOUS
  <2> DEFINE Occupied == blobRow \cup {b \in Blob : OnDisk(b) /\ b \notin stray}
  <2>1. blobRow \in SUBSET Blob /\ Occupied \in SUBSET Blob
    BY DEF AttInv, AttTypeOK
  <2>2. Bytes(Occupied) <= BuildingMax
    <3>1. CASE holder.at = "row" /\ holder.blob \notin blobRow
      <4>1. holder.blob \in Blob /\ Bytes(blobRow) + Size[holder.blob] <= BuildingMax
        BY <3>1, HolderFields DEF AttInv, Uploading, QuotaInv, UploadFits, WithinBuildingQuota
      <4> DEFINE With == blobRow \cup {holder.blob}
      <4>2. With \in SUBSET Blob /\ Occupied \subseteq With
        BY <2>1, <4>1 DEF AttInv, BytesHaveRows
      <4>3. Bytes(With) = Bytes(blobRow) + Size[holder.blob]
        BY <2>1, <3>1, <4>1, SumsAddUp DEF BytesAddUp
      <4> HIDE DEF With, Occupied
      <4>4. Bytes(Occupied) \in Nat /\ Bytes(With) \in Nat /\ Bytes(Occupied) <= Bytes(With)
        BY <2>1, <4>2, SumsAddUp DEF BytesAddUp
      <4> QED
        BY <4>1, <4>3, <4>4, AttachmentsAssumption
    <3>2. CASE ~(holder.at = "row" /\ holder.blob \notin blobRow)
      <4>1. Occupied = blobRow
        BY <2>1, <3>2 DEF AttInv, BytesHaveRows
      <4> QED
        BY <4>1 DEF QuotaInv, RowsFit
    <3> QED
      BY <3>1, <3>2
  <2> QED
    BY <2>2 DEF QuotasHold, QuotaInv, RowsFit, HeldBy
<1> QED
  BY <1>1, <1>2, <1>3, AttachmentsInvariant, PTL DEF AttSpec
-----------------------------------------------------------------------------
(* The wiki and its maintenance. *)

Batch ==
    [after : 0..SaidMax, through : 1..SaidMax, editor : Editor, status : ActiveStatus \cup {"cancelled", "completed"},
     epoch : 0..AttemptMax, attempts : 0..AttemptMax, left : 0..LeaseTicks, age : 0..WorkerTicks]

(* WikiTypeOK, with the table of batches as a sequence. *)
WikiTyped ==
    /\ wiki \in [editor : Editor \cup {NoEditor}, enabled : BOOLEAN, revision : 0..RevisionMax, cursor : 0..SaidMax]
    /\ said \in 0..SaidMax /\ closed \in BOOLEAN
    /\ batches \in Seq(Batch) /\ Len(batches) <= BatchMax
    /\ receipts \subseteq [batch : 1..BatchMax, epoch : 1..AttemptMax]
    /\ workers \in [Worker -> {Resting} \cup InHand]

(* What every batch satisfies: the epoch counts the claims, a batch that waits *)
(* was never claimed, a running one is within its deadline, and publishing one *)
(* moves the cursor.                                                           *)
SoundBatch(b) ==
    /\ b.epoch = b.attempts
    /\ b.status = "queued" => b.attempts = 0
    /\ b.status = "running" => b.age + b.left <= WorkerTicks
    /\ b.after < b.through

BatchesSound == \A i \in 1..Len(batches) : SoundBatch(batches[i])

ClaimsExist == \A w \in Worker : workers[w].holds => workers[w].batch \in 1..Len(batches)

ReceiptsFinal ==
    \A r \in receipts :
        /\ r.batch \in 1..Len(batches)
        /\ batches[r.batch].status = "completed" /\ batches[r.batch].epoch = r.epoch

IsActive(i) == i \in 1..Len(batches) /\ batches[i].status \in ActiveStatus

ActiveCurrent ==
    /\ wiki.enabled => wiki.editor \in Editor
    /\ \A i, j \in 1..Len(batches) : IsActive(i) /\ IsActive(j) => i = j
    /\ \A i \in 1..Len(batches) : IsActive(i) =>
         batches[i].after = wiki.cursor /\ batches[i].editor = wiki.editor /\ wiki.enabled

WikiInv == WikiTyped /\ BatchesSound /\ ClaimsExist /\ ReceiptsFinal /\ ActiveCurrent

(* A table built from the batches row by row is a table of the same length. *)
LEMMA SequenceOfRows ==
    ASSUME NEW S, NEW n \in Nat, NEW f \in [1..n -> S]
    PROVE  f \in Seq(S) /\ Len(f) = n
<1>1. f \in Seq(S)
  BY SeqDef
<1> QED
  BY <1>1, LenProperties

(* A batch that stops keeps its window, its editor and its claims. *)
LEMMA StoppedRow ==
    ASSUME NEW b \in Batch, NEW s \in ActiveStatus \cup {"cancelled", "completed"}
    PROVE  /\ Stopped(b, s) \in Batch
           /\ Stopped(b, s).status = s
           /\ Stopped(b, s).epoch = b.epoch
           /\ s \notin {"queued", "running"} /\ SoundBatch(b) => SoundBatch(Stopped(b, s))
<1>1. 0 \in 0..LeaseTicks /\ 0 \in 0..WorkerTicks
  BY WikiAssumption
<1>2. Stopped(b, s) \in Batch
  BY <1>1 DEF Stopped, Batch
<1>3. /\ Stopped(b, s).status = s /\ Stopped(b, s).epoch = b.epoch /\ Stopped(b, s).attempts = b.attempts
      /\ Stopped(b, s).after = b.after /\ Stopped(b, s).through = b.through
  BY DEF Stopped, Batch
<1> QED
  BY <1>2, <1>3 DEF SoundBatch

(* Cancelling unfinished batches changes those rows and no other. *)
LEMMA CancelRows ==
    ASSUME WikiInv, NEW B, B \subseteq Active, batches' = Cancelled(B)
    PROVE  /\ batches' \in Seq(Batch) /\ Len(batches') = Len(batches)
           /\ \A i \in 1..Len(batches) :
                batches'[i] = IF i \in B THEN Stopped(batches[i], "cancelled") ELSE batches[i]
           /\ BatchesSound'
           /\ ReceiptsFinal /\ receipts' = receipts => ReceiptsFinal'
           /\ ClaimsExist /\ workers' = workers => ClaimsExist'
<1>1. Len(batches) \in Nat /\ DOMAIN batches = 1..Len(batches) /\ \A i \in 1..Len(batches) : batches[i] \in Batch
  BY LenProperties, ElementOfSeq DEF WikiInv, WikiTyped
<1>2. \A i \in 1..Len(batches) : Stopped(batches[i], "cancelled") \in Batch
  BY <1>1, StoppedRow
<1>3. batches' \in [1..Len(batches) -> Batch]
  BY <1>1, <1>2 DEF Cancelled
<1>4. batches' \in Seq(Batch) /\ Len(batches') = Len(batches)
  BY <1>1, <1>3, SequenceOfRows
<1>5. \A i \in 1..Len(batches) :
        batches'[i] = IF i \in B THEN Stopped(batches[i], "cancelled") ELSE batches[i]
  BY <1>1 DEF Cancelled
<1>6. BatchesSound'
  BY <1>1, <1>4, <1>5, StoppedRow DEF WikiInv, BatchesSound
<1>7. \A i \in B : batches[i].status # "completed"
  BY DEF Active, ActiveStatus
<1>8. ReceiptsFinal /\ receipts' = receipts => ReceiptsFinal'
  BY <1>4, <1>5, <1>7 DEF ReceiptsFinal
<1>9. ClaimsExist /\ workers' = workers => ClaimsExist'
  BY <1>4 DEF ClaimsExist
<1> QED
  BY <1>4, <1>5, <1>6, <1>8, <1>9

(* A step that writes one row of the table. *)
LEMMA OneRow ==
    ASSUME WikiInv, NEW i \in 1..Len(batches), NEW b \in Batch, SoundBatch(b),
           batches' = [batches EXCEPT ![i] = b]
    PROVE  /\ batches' \in Seq(Batch) /\ Len(batches') = Len(batches)
           /\ \A j \in 1..Len(batches) : batches'[j] = IF j = i THEN b ELSE batches[j]
           /\ BatchesSound'
           /\ batches[i].status # "completed" /\ receipts' = receipts => ReceiptsFinal'
           /\ workers' = workers => ClaimsExist'
<1>1. Len(batches) \in Nat /\ DOMAIN batches = 1..Len(batches) /\ \A j \in 1..Len(batches) : batches[j] \in Batch
  BY LenProperties, ElementOfSeq DEF WikiInv, WikiTyped
<1>2. /\ batches' \in Seq(Batch) /\ Len(batches') = Len(batches)
      /\ \A j \in 1..Len(batches) : batches'[j] = IF j = i THEN b ELSE batches[j]
  BY ExceptSeq DEF WikiInv, WikiTyped
<1>3. BatchesSound'
  BY <1>2 DEF WikiInv, BatchesSound
<1>4. batches[i].status # "completed" /\ receipts' = receipts => ReceiptsFinal'
  BY <1>2 DEF WikiInv, ReceiptsFinal
<1>5. workers' = workers => ClaimsExist'
  BY <1>2 DEF WikiInv, ClaimsExist
<1> QED
  BY <1>2, <1>3, <1>4, <1>5

(* A step that leaves the batches, the receipts and the claims alone keeps what *)
(* is said of them.                                                             *)
LEMMA SameBatches ==
    ASSUME WikiInv, UNCHANGED <<batches, receipts, workers>>
    PROVE  BatchesSound' /\ ReceiptsFinal' /\ ClaimsExist'
  BY DEF WikiInv, BatchesSound, ReceiptsFinal, ClaimsExist

(* The loca's messages, its state and reads of the wiki. *)
LEMMA LocaStep ==
    ASSUME WikiInv, Say \/ OpenOrClose
    PROVE  WikiInv'
<1>1. BatchesSound' /\ ReceiptsFinal' /\ ClaimsExist'
  BY SameBatches DEF Say, OpenOrClose
<1>2. ActiveCurrent'
  BY DEF WikiInv, ActiveCurrent, IsActive, Say, OpenOrClose
<1>3. said' \in 0..SaidMax
  BY WikiAssumption DEF WikiInv, WikiTyped, Say, OpenOrClose
<1>4. closed' \in BOOLEAN
  BY Zenon DEF WikiInv, WikiTyped, Say, OpenOrClose
<1>5. WikiTyped'
  BY <1>3, <1>4 DEF WikiInv, WikiTyped, Say, OpenOrClose
<1> QED
  BY <1>1, <1>2, <1>5 DEF WikiInv

(* Cancelling what no longer fits the wiki keeps the rest current. *)
LEMMA CancelStep ==
    ASSUME WikiInv, NEW B, B \subseteq Active, batches' = Cancelled(B),
           UNCHANGED <<said, closed, receipts, workers>>,
           wiki' \in [editor : Editor \cup {NoEditor}, enabled : BOOLEAN, revision : 0..RevisionMax, cursor : 0..SaidMax],
           wiki'.enabled => wiki'.editor \in Editor,
           \A i \in Active \ B :
              batches[i].after = wiki'.cursor /\ batches[i].editor = wiki'.editor /\ wiki'.enabled
    PROVE  WikiInv'
<1>1. /\ batches' \in Seq(Batch) /\ Len(batches') = Len(batches)
      /\ \A i \in 1..Len(batches) : batches'[i] = IF i \in B THEN Stopped(batches[i], "cancelled") ELSE batches[i]
      /\ BatchesSound' /\ ReceiptsFinal' /\ ClaimsExist'
  BY CancelRows DEF WikiInv
<1>2. DOMAIN batches = 1..Len(batches) /\ \A i \in 1..Len(batches) : batches[i] \in Batch
  BY LenProperties, ElementOfSeq DEF WikiInv, WikiTyped
<1>3. \A i \in 1..Len(batches') : IsActive(i)' => i \in Active \ B /\ batches'[i] = batches[i] /\ IsActive(i)
  BY <1>1, <1>2, StoppedRow DEF IsActive, Active, ActiveStatus
<1>4. ActiveCurrent'
  BY <1>1, <1>3 DEF WikiInv, ActiveCurrent
<1>5. WikiTyped'
  BY <1>1 DEF WikiInv, WikiTyped
<1> QED
  BY <1>1, <1>4, <1>5 DEF WikiInv

(* What the operator and the editor do by hand, and the closing of the loca. *)
LEMMA HandStep ==
    ASSUME WikiInv,
           \/ EditWikiPage \/ RemoveWikiPage \/ CancelWikiReview
           \/ \E e \in Editor, on \in BOOLEAN : ConfigureWiki(e, on)
           \/ \E through \in 0..SaidMax, changes \in BOOLEAN : CommitWiki(through, changes)
    PROVE  WikiInv'
<1> DEFINE Row == [editor : Editor \cup {NoEditor}, enabled : BOOLEAN, revision : 0..RevisionMax, cursor : 0..SaidMax]
<1>1. /\ wiki \in Row /\ said \in 0..SaidMax /\ (wiki.enabled => wiki.editor \in Editor)
      /\ DOMAIN batches = 1..Len(batches)
      /\ \A i \in Active : batches[i].after = wiki.cursor /\ batches[i].editor = wiki.editor /\ wiki.enabled
  BY LenProperties DEF WikiInv, WikiTyped, ActiveCurrent, IsActive, Active
<1>2. CASE EditWikiPage \/ RemoveWikiPage
  <2>1. wiki' \in Row /\ wiki'.enabled = wiki.enabled /\ wiki'.editor = wiki.editor
    BY <1>1, <1>2, WikiAssumption, SMTT(40) DEF EditWikiPage, RemoveWikiPage, Rewritten
  <2> QED
    BY <1>1, <1>2, <2>1, CancelStep DEF EditWikiPage, RemoveWikiPage, Rewritten
<1>3. CASE CancelWikiReview
  BY <1>1, <1>3, CancelStep DEF CancelWikiReview
<1>4. ASSUME NEW e \in Editor, NEW on \in BOOLEAN, ConfigureWiki(e, on)
      PROVE  WikiInv'
  <2>1. wiki' \in Row /\ wiki'.enabled = on /\ wiki'.editor = e /\ wiki'.cursor = wiki.cursor
    BY <1>1, <1>4 DEF ConfigureWiki
  <2> DEFINE B == {i \in Active : batches[i].editor # e \/ ~on}
  <2>2. B \subseteq Active /\ batches' = Cancelled(B)
    BY <1>4 DEF ConfigureWiki
  <2>3. \A i \in Active \ B : batches[i].after = wiki'.cursor /\ batches[i].editor = wiki'.editor /\ wiki'.enabled
    BY <1>1, <2>1
  <2> HIDE DEF B
  <2> QED
    BY <1>4, <2>1, <2>2, <2>3, CancelStep DEF ConfigureWiki
<1>5. ASSUME NEW through \in 0..SaidMax, NEW changes \in BOOLEAN, CommitWiki(through, changes)
      PROVE  WikiInv'
  <2> DEFINE rev == IF changes THEN wiki.revision + 1 ELSE wiki.revision
  <2>0. rev \in 0..RevisionMax
    <3>1. changes => wiki.revision < RevisionMax
      BY <1>5, Zenon DEF CommitWiki
    <3> QED
      BY <1>1, <3>1, WikiAssumption
  <2>1. wiki' \in Row /\ wiki'.enabled = wiki.enabled /\ wiki'.editor = wiki.editor /\ wiki'.cursor = through
    <3>1. wiki' = [wiki EXCEPT !.cursor = through, !.revision = rev]
      BY <1>5 DEF CommitWiki
    <3> HIDE DEF rev
    <3> QED
      BY <1>1, <2>0, <3>1
  <2>2. SupersededBy(through) \subseteq Active /\ batches' = Cancelled(SupersededBy(through))
    BY <1>5 DEF CommitWiki, SupersededBy
  <2>3. \A i \in Active \ SupersededBy(through) :
          batches[i].after = wiki'.cursor /\ batches[i].editor = wiki'.editor /\ wiki'.enabled
    <3>1. through \in wiki.cursor..said /\ wiki.cursor \in 0..SaidMax
      BY <1>1, <1>5 DEF CommitWiki
    <3>2. \A i \in Active : wiki.cursor < through => i \in SupersededBy(through)
      BY <1>1 DEF SupersededBy
    <3> QED
      BY <1>1, <2>1, <3>1, <3>2
  <2> QED
    BY <1>1, <1>5, <2>1, <2>2, <2>3, CancelStep DEF CommitWiki
<1> QED
  BY <1>2, <1>3, <1>4, <1>5

(* A new batch is a row of its own, queued at the cursor. *)
LEMMA ScheduleStep ==
    ASSUME WikiInv, ScheduleWikiReview
    PROVE  WikiInv'
<1>1. /\ wiki.editor \in Editor /\ wiki.cursor \in 0..SaidMax /\ said \in 0..SaidMax /\ said > wiki.cursor
      /\ wiki.enabled
  BY DEF WikiInv, WikiTyped, ActiveCurrent, ScheduleWikiReview
<1>2. Len(batches) \in Nat /\ DOMAIN batches = 1..Len(batches) /\ batches \in Seq(Batch)
  BY LenProperties DEF WikiInv, WikiTyped
<1> DEFINE upTo == IF said - wiki.cursor > WindowMax THEN wiki.cursor + WindowMax ELSE said
<1>3. upTo \in 1..SaidMax /\ wiki.cursor < upTo
  BY <1>1, WikiAssumption
<1>4. Window \in Batch
  <2>1. /\ 0 \in 0..AttemptMax /\ 0 \in 0..LeaseTicks /\ 0 \in 0..WorkerTicks
        /\ "queued" \in ActiveStatus \cup {"cancelled", "completed"}
    BY WikiAssumption DEF ActiveStatus
  <2> QED
    BY <1>1, <1>3, <2>1 DEF Window, Batch
<1>5. /\ SoundBatch(Window) /\ Window.after = wiki.cursor /\ Window.editor = wiki.editor /\ Window.status = "queued"
  BY <1>3 DEF SoundBatch, Window
<1>6. /\ batches' \in Seq(Batch) /\ Len(batches') = Len(batches) + 1
      /\ \A i \in 1..Len(batches) : batches'[i] = batches[i]
      /\ batches'[Len(batches) + 1] = Window
  BY <1>2, <1>4, AppendProperties DEF ScheduleWikiReview
<1> HIDE DEF upTo
<1>7. WikiTyped'
  <2>1. Len(batches') <= BatchMax
    BY <1>2, <1>6, WikiAssumption DEF ScheduleWikiReview
  <2> QED
    BY <1>6, <2>1 DEF WikiInv, WikiTyped, ScheduleWikiReview
<1>8. BatchesSound'
  BY <1>2, <1>5, <1>6 DEF WikiInv, BatchesSound
<1>9. ClaimsExist' /\ ReceiptsFinal'
  BY <1>2, <1>6 DEF WikiInv, ClaimsExist, ReceiptsFinal, ScheduleWikiReview
<1>10. \A i \in 1..Len(batches') : IsActive(i)' => i = Len(batches) + 1
  <2>1. \A i \in 1..Len(batches) : ~IsActive(i)
    BY <1>2 DEF IsActive, Active, ScheduleWikiReview
  <2> QED
    BY <1>2, <1>6, <2>1 DEF IsActive
<1>11. ActiveCurrent'
  BY <1>1, <1>2, <1>5, <1>6, <1>10 DEF ActiveCurrent, ScheduleWikiReview
<1> QED
  BY <1>7, <1>8, <1>9, <1>11 DEF WikiInv

(* The batch that runs stays the one unfinished batch when its row is written. *)
LEMMA ActiveRow ==
    ASSUME WikiInv, NEW i \in 1..Len(batches), NEW b \in Batch, SoundBatch(b),
           batches' = [batches EXCEPT ![i] = b], IsActive(i),
           b.after = batches[i].after, b.editor = batches[i].editor,
           UNCHANGED <<wiki, said, closed, receipts>>,
           workers' \in [Worker -> {Resting} \cup InHand],
           \A w \in Worker : workers'[w].holds => workers'[w].batch \in 1..Len(batches)
    PROVE  WikiInv'
<1>1. batches[i].status # "completed"
  BY DEF IsActive, ActiveStatus
<1>2. /\ batches' \in Seq(Batch) /\ Len(batches') = Len(batches)
      /\ \A j \in 1..Len(batches) : batches'[j] = IF j = i THEN b ELSE batches[j]
      /\ BatchesSound' /\ ReceiptsFinal'
  BY <1>1, OneRow
<1>3. \A j \in 1..Len(batches') : IsActive(j)' => IsActive(j)
  BY <1>2 DEF IsActive
<1>4. ActiveCurrent'
  BY <1>2, <1>3 DEF WikiInv, ActiveCurrent
<1>5. WikiTyped'
  BY <1>2 DEF WikiInv, WikiTyped
<1>6. ClaimsExist'
  BY <1>2 DEF ClaimsExist
<1> QED
  BY <1>2, <1>4, <1>5, <1>6 DEF WikiInv

(* The clock of a running batch moves inside its deadline. *)
LEMMA TimeStep ==
    ASSUME WikiInv, TimePasses
    PROVE  WikiInv'
<1>1. PICK i \in DOMAIN batches :
        /\ batches[i].status = "running" /\ batches[i].left > 0
        /\ batches' = [batches EXCEPT ![i] = Ticked(batches[i])]
  BY DEF TimePasses
<1>2. i \in 1..Len(batches) /\ batches[i] \in Batch /\ SoundBatch(batches[i])
  BY LenProperties, ElementOfSeq DEF WikiInv, WikiTyped, BatchesSound
<1> DEFINE b == Ticked(batches[i])
<1>3. batches[i].left - 1 \in 0..LeaseTicks /\ batches[i].age + 1 \in 0..WorkerTicks
  <2> DEFINE x == batches[i].left
             y == batches[i].age
  <2>1. x \in 0..LeaseTicks /\ y \in 0..WorkerTicks
    BY <1>2 DEF Batch
  <2>2. x > 0 /\ y + x <= WorkerTicks
    BY <1>1, <1>2 DEF SoundBatch
  <2>3. LeaseTicks \in Nat /\ WorkerTicks \in Nat
    BY WikiAssumption
  <2> HIDE DEF x, y
  <2>4. x - 1 \in 0..LeaseTicks /\ y + 1 \in 0..WorkerTicks
    BY ONLY <2>1, <2>2, <2>3
  <2> QED
    BY <2>4 DEF x, y
<1>4. b \in Batch
  BY <1>2, <1>3 DEF Batch, Ticked
<1>5. /\ b.after = batches[i].after /\ b.editor = batches[i].editor /\ b.left = batches[i].left - 1
      /\ b.age = batches[i].age + 1 /\ b.status = "running" /\ b.epoch = batches[i].epoch
      /\ b.attempts = batches[i].attempts /\ b.through = batches[i].through
  BY <1>1, <1>2 DEF Batch, Ticked
<1>6. SoundBatch(b)
  <2> DEFINE x == batches[i].left
             y == batches[i].age
  <2>1. x \in 0..LeaseTicks /\ y \in 0..WorkerTicks /\ y + x <= WorkerTicks
    BY <1>1, <1>2 DEF Batch, SoundBatch
  <2>2. b.left = x - 1 /\ b.age = y + 1
    BY <1>5
  <2> HIDE DEF x, y, b
  <2>3. b.age + b.left <= WorkerTicks
    BY ONLY <2>1, <2>2, WikiAssumption
  <2>4. b.epoch = b.attempts /\ b.status = "running" /\ b.after < b.through
    BY <1>2, <1>5 DEF SoundBatch
  <2> QED
    BY <2>3, <2>4 DEF SoundBatch
<1>7. batches' = [batches EXCEPT ![i] = b]
  BY <1>1
<1>8. IsActive(i)
  BY <1>1, <1>2 DEF IsActive, ActiveStatus
<1>9. /\ workers' \in [Worker -> {Resting} \cup InHand] /\ UNCHANGED <<wiki, said, closed, receipts>>
      /\ \A w \in Worker : workers'[w].holds => workers'[w].batch \in 1..Len(batches)
  BY DEF WikiInv, WikiTyped, ClaimsExist, TimePasses
<1> HIDE DEF b
<1> QED
  BY <1>2, <1>4, <1>5, <1>6, <1>7, <1>8, <1>9, ActiveRow

(* A batch that expired too often is blocked. *)
LEMMA BlockStep ==
    ASSUME WikiInv, BlockBatch
    PROVE  WikiInv'
<1>1. PICK i \in DOMAIN batches : Exhausted(i) /\ batches' = [batches EXCEPT ![i] = Stopped(@, "blocked")]
  BY DEF BlockBatch
<1>2. i \in 1..Len(batches) /\ batches[i] \in Batch /\ SoundBatch(batches[i])
  BY LenProperties, ElementOfSeq DEF WikiInv, WikiTyped, BatchesSound
<1> DEFINE b == Stopped(batches[i], "blocked")
<1>3. b \in Batch /\ SoundBatch(b)
  BY <1>2, StoppedRow DEF ActiveStatus
<1>4. b.after = batches[i].after /\ b.editor = batches[i].editor
  BY <1>2 DEF Stopped, Batch
<1>5. batches' = [batches EXCEPT ![i] = b]
  BY <1>1
<1>6. IsActive(i)
  BY <1>1, <1>2 DEF IsActive, ActiveStatus, Exhausted, Expired
<1>7. /\ workers' \in [Worker -> {Resting} \cup InHand] /\ UNCHANGED <<wiki, said, closed, receipts>>
      /\ \A w \in Worker : workers'[w].holds => workers'[w].batch \in 1..Len(batches)
  BY DEF WikiInv, WikiTyped, ClaimsExist, BlockBatch
<1> HIDE DEF b
<1> QED
  BY <1>2, <1>3, <1>4, <1>5, <1>6, <1>7, ActiveRow

(* claim_wiki_review: the claim raises the epoch, within the attempts. *)
LEMMA ClaimStep ==
    ASSUME WikiInv, NEW w \in Worker, ClaimWikiReview(w)
    PROVE  WikiInv'
<1>1. PICK i \in DOMAIN batches :
         /\ Unheld(i)
         /\ batches' = [batches EXCEPT ![i] = Leased(batches[i])]
         /\ workers' \in {workers, [workers EXCEPT ![w] = [holds |-> TRUE, batch |-> i, epoch |-> batches[i].epoch + 1,
                                                           base |-> wiki.revision]]}
  BY DEF ClaimWikiReview
<1>2. /\ i \in 1..Len(batches) /\ batches[i] \in Batch /\ SoundBatch(batches[i])
      /\ Len(batches) \in Nat /\ Len(batches) <= BatchMax
  BY LenProperties, ElementOfSeq DEF WikiInv, WikiTyped, BatchesSound
<1> DEFINE b == Leased(batches[i])
<1> DEFINE n == batches[i].attempts
<1>a. n \in 0..AttemptMax /\ batches[i].epoch = n /\ (batches[i].status = "queued" => n = 0)
  BY <1>2 DEF Batch, SoundBatch
<1>b. AttemptMax \in Nat \ {0} /\ WorkerTicks \in Nat /\ LeaseTicks \in Nat /\ WorkerTicks >= LeaseTicks
  BY WikiAssumption
<1>3. batches[i].status = "queued" \/ ~(n >= AttemptMax)
  BY <1>1 DEF Unheld, Exhausted
<1>4. batches[i].epoch + 1 \in 1..AttemptMax /\ n + 1 \in 0..AttemptMax
  <2> HIDE DEF n
  <2>1. n + 1 \in 1..AttemptMax
    BY ONLY <1>a, <1>b, <1>3
  <2> QED
    BY ONLY <1>a, <1>b, <2>1
<1>5. b \in Batch
  <2>1. /\ "running" \in ActiveStatus \cup {"cancelled", "completed"} /\ LeaseTicks \in 0..LeaseTicks
        /\ 0 \in 0..WorkerTicks /\ batches[i].epoch + 1 \in 0..AttemptMax
    BY <1>4, WikiAssumption DEF ActiveStatus
  <2> QED
    BY <1>2, <1>4, <2>1 DEF Batch, Leased
<1>6. /\ b.after = batches[i].after /\ b.editor = batches[i].editor /\ b.left = LeaseTicks
      /\ b.age = 0 /\ b.status = "running" /\ b.epoch = batches[i].epoch + 1
      /\ b.attempts = batches[i].attempts + 1 /\ b.through = batches[i].through
  BY <1>2 DEF Batch, Leased
<1>7. SoundBatch(b)
  <2> HIDE DEF b
  <2>1. b.age + b.left <= WorkerTicks
    BY ONLY <1>6, <1>b
  <2> QED
    BY <1>2, <1>6, <1>a, <2>1 DEF SoundBatch
<1>8. batches' = [batches EXCEPT ![i] = b]
  BY <1>1
<1>9. IsActive(i)
  BY <1>1, <1>2 DEF IsActive, ActiveStatus, Unheld, Expired
<1> DEFINE h == [holds |-> TRUE, batch |-> i, epoch |-> batches[i].epoch + 1, base |-> wiki.revision]
<1>10. h \in InHand /\ h.batch \in 1..Len(batches)
  BY <1>2, <1>4, WikiAssumption DEF InHand, WikiInv, WikiTyped
<1>11. workers' = workers \/ workers' = [workers EXCEPT ![w] = h]
  BY <1>1
<1> HIDE DEF b, h
<1>12. workers' \in [Worker -> {Resting} \cup InHand]
  BY <1>10, <1>11 DEF WikiInv, WikiTyped
<1>13. \A v \in Worker : workers'[v].holds => workers'[v].batch \in 1..Len(batches)
  BY <1>10, <1>11 DEF WikiInv, WikiTyped, ClaimsExist
<1>14. UNCHANGED <<wiki, said, closed, receipts>>
  BY DEF ClaimWikiReview
<1> QED
  BY <1>2, <1>5, <1>6, <1>7, <1>8, <1>9, <1>12, <1>13, <1>14, ActiveRow

(* A worker whose lease is valid holds the running batch. *)
LEMMA ValidLease ==
    ASSUME WikiInv, NEW w \in Worker, workers[w].holds, LeaseValid(w)
    PROVE  LET i == workers[w].batch
           IN  /\ i \in 1..Len(batches) /\ batches[i] \in Batch /\ SoundBatch(batches[i])
               /\ IsActive(i) /\ batches[i].status = "running" /\ batches[i].left > 0
               /\ batches[i].epoch = workers[w].epoch
               /\ workers[w] \in InHand
<1>1. workers[w].batch \in 1..Len(batches)
  BY DEF WikiInv, ClaimsExist
<1>2. workers[w] \in InHand
  BY DEF WikiInv, WikiTyped, Resting
<1> QED
  BY <1>1, <1>2, ElementOfSeq DEF WikiInv, WikiTyped, BatchesSound, LeaseValid, IsActive, ActiveStatus

(* renew_wiki_review stays inside the deadline. *)
LEMMA RenewStep ==
    ASSUME WikiInv, NEW w \in Worker, RenewWikiReview(w)
    PROVE  WikiInv'
<1> DEFINE i == workers[w].batch
           b == [batches[i] EXCEPT !.left = Renewed(batches[i])]
<1>1. /\ i \in 1..Len(batches) /\ batches[i] \in Batch /\ SoundBatch(batches[i])
      /\ IsActive(i) /\ batches[i].status = "running"
  BY ValidLease DEF RenewWikiReview
<1>2. Renewed(batches[i]) > 0 /\ batches' = [batches EXCEPT ![i].left = Renewed(batches[i])]
  BY DEF RenewWikiReview
<1>3. Renewed(batches[i]) \in 0..LeaseTicks /\ batches[i].age + Renewed(batches[i]) <= WorkerTicks
  <2>1. batches[i].left \in 0..LeaseTicks /\ batches[i].age \in 0..WorkerTicks
    BY <1>1 DEF Batch
  <2> QED
    BY <1>2, <2>1, WikiAssumption DEF Renewed
<1>4. b \in Batch
  BY <1>1, <1>3 DEF Batch
<1>5. /\ b.after = batches[i].after /\ b.editor = batches[i].editor /\ b.left = Renewed(batches[i])
      /\ b.age = batches[i].age /\ b.status = "running" /\ b.epoch = batches[i].epoch
      /\ b.attempts = batches[i].attempts /\ b.through = batches[i].through
  BY <1>1 DEF Batch
<1>6. SoundBatch(b)
  BY <1>1, <1>3, <1>5 DEF SoundBatch
<1>7. batches' = [batches EXCEPT ![i] = b]
  BY <1>2
<1>8. /\ workers' \in [Worker -> {Resting} \cup InHand] /\ UNCHANGED <<wiki, said, closed, receipts>>
      /\ \A v \in Worker : workers'[v].holds => workers'[v].batch \in 1..Len(batches)
  BY DEF WikiInv, WikiTyped, ClaimsExist, RenewWikiReview
<1> HIDE DEF b, i
<1> QED
  BY <1>1, <1>4, <1>5, <1>6, <1>7, <1>8, ActiveRow

(* finish_wiki_review: one batch, its receipt and the cursor together. *)
LEMMA FinishStep ==
    ASSUME WikiInv, NEW w \in Worker, FinishWikiReview(w)
    PROVE  WikiInv'
<1> DEFINE i == workers[w].batch
           b == Stopped(batches[i], "completed")
           r == [batch |-> i, epoch |-> workers[w].epoch]
<1>1. /\ i \in 1..Len(batches) /\ batches[i] \in Batch /\ SoundBatch(batches[i])
      /\ IsActive(i) /\ batches[i].status = "running" /\ batches[i].epoch = workers[w].epoch
      /\ workers[w] \in InHand
  BY ValidLease DEF FinishWikiReview
<1>2. /\ batches' = [batches EXCEPT ![i] = b] /\ receipts' = receipts \cup {r} /\ UNCHANGED <<said, closed>>
      /\ workers' \in {workers, [workers EXCEPT ![w] = Resting]}
  BY DEF FinishWikiReview, Answered
<1>3. b \in Batch /\ SoundBatch(b) /\ b.status = "completed" /\ b.epoch = batches[i].epoch
  BY <1>1, StoppedRow
<1>4. r \in [batch : 1..BatchMax, epoch : 1..AttemptMax] /\ r.batch = i /\ r.epoch = batches[i].epoch
  BY <1>1 DEF InHand
<1>5. PICK changes \in BOOLEAN :
             /\ changes => wiki.revision < RevisionMax
             /\ wiki' = [wiki EXCEPT !.cursor = batches[i].through, !.revision = IF changes THEN @ + 1 ELSE @]
  BY DEF FinishWikiReview
<1> DEFINE rev == IF changes THEN wiki.revision + 1 ELSE wiki.revision
<1>6. rev \in 0..RevisionMax
  <2>1. changes => wiki.revision < RevisionMax
    BY <1>5
  <2> QED
    BY <2>1, WikiAssumption DEF WikiInv, WikiTyped
<1>7. wiki' = [wiki EXCEPT !.cursor = batches[i].through, !.revision = rev]
  BY <1>5
<1> HIDE DEF i, b, r, rev
<1>8. /\ wiki' \in [editor : Editor \cup {NoEditor}, enabled : BOOLEAN, revision : 0..RevisionMax, cursor : 0..SaidMax]
      /\ wiki'.enabled = wiki.enabled /\ wiki'.editor = wiki.editor
  <2>1. batches[i].through \in 0..SaidMax
    BY <1>1 DEF Batch
  <2> QED
    BY <1>6, <1>7, <2>1 DEF WikiInv, WikiTyped
<1>9. /\ batches' \in Seq(Batch) /\ Len(batches') = Len(batches)
      /\ \A j \in 1..Len(batches) : batches'[j] = IF j = i THEN b ELSE batches[j]
      /\ BatchesSound'
  BY <1>1, <1>2, <1>3, OneRow
<1>10. WikiTyped'
  <2>1. workers' \in [Worker -> {Resting} \cup InHand]
    BY <1>2 DEF WikiInv, WikiTyped
  <2> QED
    BY <1>2, <1>4, <1>8, <1>9, <2>1 DEF WikiInv, WikiTyped
<1>11. ClaimsExist'
  BY <1>2, <1>9, SMTT(40) DEF WikiInv, WikiTyped, ClaimsExist, Resting
<1>12. ReceiptsFinal'
  <2>1. \A q \in receipts : q.batch # i
    BY <1>1 DEF WikiInv, ReceiptsFinal
  <2> QED
    BY <1>1, <1>2, <1>3, <1>4, <1>9, <2>1 DEF WikiInv, ReceiptsFinal
<1>13. \A j \in 1..Len(batches') : ~IsActive(j)'
  BY <1>1, <1>3, <1>9 DEF WikiInv, ActiveCurrent, IsActive, ActiveStatus
<1>14. ActiveCurrent'
  BY <1>8, <1>13 DEF WikiInv, ActiveCurrent
<1> QED
  BY <1>9, <1>10, <1>11, <1>12, <1>14 DEF WikiInv

(* What a worker forgets or redrafts touches its hand only. *)
LEMMA HandOnlyStep ==
    ASSUME WikiInv, NEW w \in Worker, FinishAgain(w) \/ Redraft(w) \/ WorkerDies(w)
    PROVE  WikiInv'
<1>1. UNCHANGED <<wiki, said, closed, batches, receipts>>
  BY DEF FinishAgain, Redraft, WorkerDies
<1>2. workers[w] \in InHand /\ workers[w].batch \in 1..Len(batches)
  BY DEF WikiInv, WikiTyped, ClaimsExist, Resting, FinishAgain, Redraft, WorkerDies
<1>3. CASE workers' = [workers EXCEPT ![w] = Resting]
  <2>1. workers' \in [Worker -> {Resting} \cup InHand] /\ ClaimsExist'
    BY <1>1, <1>3 DEF WikiInv, WikiTyped, ClaimsExist, Resting
  <2> QED
    BY <1>1, <2>1 DEF WikiInv, WikiTyped, BatchesSound, ReceiptsFinal, ActiveCurrent, IsActive
<1>4. CASE Redraft(w)
  <2> DEFINE h == [workers[w] EXCEPT !.base = wiki.revision]
  <2>1. h \in InHand /\ h.batch = workers[w].batch
    BY <1>2 DEF InHand, WikiInv, WikiTyped
  <2>2. workers' = [workers EXCEPT ![w] = h]
    BY <1>4 DEF Redraft
  <2> HIDE DEF h
  <2>3. workers' \in [Worker -> {Resting} \cup InHand] /\ ClaimsExist'
    BY <1>1, <1>2, <2>1, <2>2 DEF WikiInv, WikiTyped, ClaimsExist
  <2> QED
    BY <1>1, <2>3 DEF WikiInv, WikiTyped, BatchesSound, ReceiptsFinal, ActiveCurrent, IsActive
<1> QED
  BY <1>3, <1>4 DEF FinishAgain, WorkerDies

(* No step of the loca, its operator, the scheduler or a worker breaks it. *)
LEMMA WikiStep ==
    ASSUME WikiInv, [WikiNext]_wikiVars
    PROVE  WikiInv'
<1>1. CASE UNCHANGED wikiVars
  BY <1>1 DEF wikiVars, WikiInv, WikiTyped, BatchesSound, ClaimsExist, ReceiptsFinal, ActiveCurrent, IsActive
<1>2. CASE WikiNext
  BY <1>2, LocaStep, HandStep, ScheduleStep, TimeStep, BlockStep, ClaimStep, RenewStep, FinishStep, HandOnlyStep
     DEF WikiNext
<1> QED
  BY <1>1, <1>2

(* A wiki starts with no batch. *)
LEMMA WikiInitially ==
    ASSUME WikiInit
    PROVE  WikiInv
<1>1. batches \in Seq(Batch) /\ Len(batches) = 0
  BY EmptySeq DEF WikiInit
<1>2. WikiTyped
  <2>1. workers \in [Worker -> {Resting} \cup InHand]
    BY DEF WikiInit
  <2>2. /\ wiki \in [editor : Editor \cup {NoEditor}, enabled : BOOLEAN, revision : 0..RevisionMax, cursor : 0..SaidMax]
        /\ said \in 0..SaidMax
    BY WikiAssumption DEF WikiInit
  <2>3. closed \in BOOLEAN /\ receipts \subseteq [batch : 1..BatchMax, epoch : 1..AttemptMax]
    BY DEF WikiInit
  <2> QED
    BY <1>1, <2>1, <2>2, <2>3, WikiAssumption DEF WikiTyped
<1>3. ClaimsExist /\ ReceiptsFinal
  BY DEF WikiInit, ClaimsExist, ReceiptsFinal, Resting
<1>4. BatchesSound /\ ActiveCurrent
  BY <1>1 DEF WikiInit, BatchesSound, ActiveCurrent, IsActive
<1> QED
  BY <1>2, <1>3, <1>4 DEF WikiInv

(* The inductive invariant of the wiki. *)
THEOREM WikiInvariant == WikiSpec => []WikiInv
<1>1. WikiInit => WikiInv
  BY WikiInitially
<1>2. WikiInv /\ [WikiNext]_wikiVars => WikiInv'
  BY WikiStep
<1> QED
  BY <1>1, <1>2, PTL DEF WikiSpec

(* The types, from the invariant. *)
LEMMA WikiInvTyped ==
    ASSUME WikiInv
    PROVE  WikiTypeOK
<1>1. \A i \in DOMAIN batches : batches[i] \in Batch
  BY LenProperties DEF WikiInv, WikiTyped
<1> QED
  BY <1>1 DEF WikiInv, WikiTyped, WikiTypeOK, Batch

(* Every reachable state is well typed, whatever the editors and workers are. *)
THEOREM WikiTyping == WikiSpec => []WikiTypeOK
<1>1. WikiInv => WikiTypeOK
  BY WikiInvTyped
<1> QED
  BY <1>1, WikiInvariant, PTL

(* At most one batch is unfinished, and it starts at the cursor, for the present *)
(* editor of an enabled wiki: no worker ever drafts against an obsolete cursor.  *)
THEOREM UnfinishedIsCurrent == WikiSpec => []ActiveBatchIsCurrent
<1>1. WikiInv => ActiveBatchIsCurrent
  <2> SUFFICES ASSUME WikiInv PROVE ActiveBatchIsCurrent
    OBVIOUS
  <2>1. \A i \in Active : i \in 1..Len(batches) /\ IsActive(i)
    BY LenProperties DEF WikiInv, WikiTyped, Active, IsActive
  <2>2. \A i, j \in Active : i = j
    BY <2>1 DEF WikiInv, ActiveCurrent
  <2>3. Cardinality(Active) <= 1
    <3>1. CASE Active = {}
      BY <3>1, FS_EmptySet
    <3>2. CASE Active # {}
      <4>1. PICK i \in Active : TRUE
        BY <3>2
      <4>2. Active = {i}
        BY <2>2, <4>1
      <4> QED
        <5>1. Cardinality({i}) = 1
          BY FS_Singleton
        <5> QED
          BY <4>2, <5>1
    <3> QED
      BY <3>1, <3>2
  <2> QED
    BY <2>1, <2>3 DEF WikiInv, ActiveCurrent, ActiveBatchIsCurrent
<1> QED
  BY <1>1, WikiInvariant, PTL

(* A batch is published by the worker that claimed it last and by no other, for *)
(* any number of stalled workers, lost answers and retries.                     *)
THEOREM PublicationIsFenced == WikiSpec => []PublishedByLastClaim
<1>1. WikiInv => PublishedByLastClaim
  BY DEF WikiInv, ReceiptsFinal, PublishedByLastClaim
<1> QED
  BY <1>1, WikiInvariant, PTL

(* Renewals never carry a worker past MAX_WORKER_MS, for any LEASE_MS below it. *)
THEOREM WorkerDeadline == WikiSpec => []WorkerTimeIsBounded
<1>1. WikiInv => WorkerTimeIsBounded
  BY LenProperties DEF WikiInv, WikiTyped, BatchesSound, SoundBatch, WorkerTimeIsBounded
<1> QED
  BY <1>1, WikiInvariant, PTL

(* The cursor of a wiki never falls: neither a late publication nor a manual  *)
(* review, an edit or a reconfiguration makes the loca read messages again    *)
(* (commit_wiki, finish_wiki_review).                                         *)
CursorNeverFalls == [][wiki'.cursor >= wiki.cursor]_wikiVars

(* The cursor only moves forward: a publication is accepted at the batch's    *)
(* start alone, and no batch is empty.                                        *)
THEOREM CursorAdvances == WikiSpec => CursorNeverFalls
<1>1. ASSUME WikiInv, [WikiNext]_wikiVars
      PROVE  wiki'.cursor >= wiki.cursor
  <2>1. wiki.cursor \in 0..SaidMax /\ wiki \in [editor : Editor \cup {NoEditor}, enabled : BOOLEAN,
                                                  revision : 0..RevisionMax, cursor : 0..SaidMax]
    BY <1>1 DEF WikiInv, WikiTyped
  <2>2. ASSUME NEW through \in 0..SaidMax, NEW changes \in BOOLEAN, CommitWiki(through, changes)
        PROVE  wiki'.cursor >= wiki.cursor
    <3>1. wiki'.cursor = through /\ through \in wiki.cursor..said
      BY <2>1, <2>2 DEF CommitWiki
    <3>2. said \in 0..SaidMax
      BY <1>1 DEF WikiInv, WikiTyped
    <3> QED
      BY <2>1, <3>1, <3>2, WikiAssumption
  <2>3. ASSUME NEW w \in Worker, FinishWikiReview(w)
        PROVE  wiki'.cursor >= wiki.cursor
    <3> DEFINE b == batches[workers[w].batch]
    <3>1. b \in Batch /\ SoundBatch(b)
      BY <1>1, <2>3, ValidLease DEF FinishWikiReview
    <3>2. wiki.cursor = b.after /\ wiki'.cursor = b.through
      BY <2>1, <2>3 DEF FinishWikiReview
    <3> QED
      BY <3>1, <3>2, WikiAssumption DEF Batch, SoundBatch
  <2>4. CASE ~(\E through \in 0..SaidMax, changes \in BOOLEAN : CommitWiki(through, changes))
             /\ ~(\E w \in Worker : FinishWikiReview(w))
    <3>1. wiki'.cursor = wiki.cursor
      BY <1>1, <2>1, <2>4 DEF WikiNext, wikiVars, Say, OpenOrClose, EditWikiPage, RemoveWikiPage, Rewritten,
            ConfigureWiki, CancelWikiReview, ScheduleWikiReview, TimePasses, BlockBatch, ClaimWikiReview,
            RenewWikiReview, FinishAgain, Redraft, WorkerDies
    <3> QED
      BY <2>1, <3>1, SMTT(40)
  <2> QED
    BY <2>2, <2>3, <2>4
<1> QED
  BY <1>1, WikiInvariant, PTL DEF WikiSpec, CursorNeverFalls

-----------------------------------------------------------------------------
(* The components side by side. *)

(* Each component's own invariant.  Admission runs with the building at rest, *)
(* so that approvals, which the building does not take, keep only its types.  *)
RecordsInv ==
    /\ focus \in {"attachments", "admission", "lobby", "bearers", "sessions", "operators", "wiki"}
    /\ AttInv /\ AuthInv /\ WikiInv
    /\ IF focus = "admission" THEN AdmInv /\ BldTypeOK ELSE BldTyped

(* A step of one component leaves the invariants of the others alone. *)
LEMMA RecordsStep ==
    ASSUME RecordsInv, [RecordsNext]_recordVars
    PROVE  RecordsInv'
<1> USE DEF RecordsInv
<1>0. UNCHANGED focus
  BY DEF RecordsNext, recordVars
<1>1. [AttNext]_attVars /\ [AuthNext]_authVars /\ [WikiNext]_wikiVars
  BY DEF RecordsNext, recordVars, AuthNext
<1>2. AttInv' /\ AuthInv' /\ WikiInv'
  BY <1>1, AttStep, AuthStep, WikiStep
<1>3. CASE focus = "admission"
  <2>1. [AdmNext \/ AdmRestart]_admVars /\ UNCHANGED holdVars
    BY <1>3 DEF RecordsNext, recordVars, bldVars
  <2>2. AdmInv'
    BY <1>3, <2>1, AdmStep
  <2>3. BldTypeOK'
    BY <1>3, <2>1 DEF BldTypeOK, holdVars
  <2> QED
    BY <1>0, <1>2, <1>3, <2>2, <2>3
<1>4. CASE focus # "admission"
  <2>1. [BldNext]_bldVars
    BY <1>4 DEF RecordsNext, recordVars, MembershipStep, BldNext
  <2>2. BldTyped'
    BY <1>4, <2>1, BldTypedStep
  <2> QED
    BY <1>0, <1>2, <1>4, <2>2
<1> QED
  BY <1>3, <1>4

(* The tables, hot maps, handlers and sockets of attachments, admission,     *)
(* building, authority and wiki hold what their columns and types allow,     *)
(* whichever component runs.                                                 *)
THEOREM RecordsTyping == RecordsSpec => []RecordsTypeOK
<1>1. RecordsInit => RecordsInv
  <2> SUFFICES ASSUME RecordsInit PROVE RecordsInv
    OBVIOUS
  <2>1. AttInv /\ AuthInv /\ WikiInv /\ BldTyped
    BY AttInitially, AuthInitially, WikiInitially, BldTypedInitially DEF RecordsInit
  <2>2. AdmInv /\ BldTypeOK
    BY <2>1, AdmInitially, BldTypedIsTyped DEF RecordsInit, BldInit
  <2> QED
    BY <2>1, <2>2 DEF RecordsInit, RecordsInv
<1>2. RecordsInv /\ [RecordsNext]_recordVars => RecordsInv'
  BY RecordsStep
<1>3. RecordsInv => RecordsTypeOK
  <2> SUFFICES ASSUME RecordsInv PROVE RecordsTypeOK
    OBVIOUS
  <2>1. AttTypeOK /\ AuthTypeOK
    BY DEF RecordsInv, AttInv, AuthInv
  <2>2. WikiTypeOK
    BY WikiInvTyped DEF RecordsInv
  <2>3. AdmTypeOK /\ BldTypeOK
    BY BldTypedIsTyped DEF RecordsInv, AdmInv
  <2> QED
    BY <2>1, <2>2, <2>3 DEF RecordsInv, RecordsTypeOK
<1> QED
  BY <1>1, <1>2, <1>3, PTL DEF RecordsSpec

=============================================================================
