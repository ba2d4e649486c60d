---------------------------- MODULE UploadStorage ----------------------------
(***************************************************************************)
(* Where build contexts are stored: one object uploads/latest.tar.gz per   *)
(* Substratus object, overwritten by each upload, behind the signed URLs   *)
(* and checksums of the SCI (internal/sci).                                *)
(*                                                                         *)
(* GCS stores a PUT as a whole, and only if its Content-MD5 is the one the *)
(* URL was signed with.  The kind SCI signs nothing and keeps the checksum *)
(* in a file md5.txt that it writes before the tarball.                    *)
(***************************************************************************)
EXTENDS BuildCluster

StorageInit ==
  /\ storedMd5 = NoTag
  /\ storedData = NoTag
  /\ everStored = {}
  /\ tainted = {}

(***************************************************************************)
(* Tags with a build that may still read the tarball: history for the      *)
(* property ReleasedContent, no state of the code.                         *)
(***************************************************************************)
TagsBeingBuilt ==
  {p.tag : p \in orphans}
    \cup (IF job.state = "running" THEN {job.tag} ELSE {})
    \cup (IF pc \in {"writeUploaded", "job"} THEN {worker.spec.tag} ELSE {})

ReportMd5(md5) ==
  /\ storedMd5' = md5
  /\ everStored' = everStored \cup {md5}

StoreData(data) ==
  /\ storedData' = data
  /\ tainted' = tainted \cup (TagsBeingBuilt \ {data})

\* GCS: the tarball and its checksum change together.
PutObject(md5, url) ==
  /\ url = md5
  /\ ReportMd5(md5)
  /\ StoreData(md5)

\* kind, saveUpload up to os.Create: md5.txt is new, the tarball is still the
\* former one or already truncated.
PutMd5File(md5) ==
  /\ ReportMd5(md5)
  /\ \E data \in {storedData, Torn} : StoreData(data)

\* kind, saveUpload from os.Create on.  A copy that is cut off, or that shares
\* the file with another copy, may leave something else than the tarball.
PutDataFile(md5, disturbed) ==
  /\ \E data \in {md5} \cup (IF disturbed THEN {Torn} ELSE {}) : StoreData(data)
  /\ UNCHANGED <<storedMd5, everStored>>
=============================================================================
