---------------------------- MODULE UploadClient ----------------------------
(***************************************************************************)
(* The CLI side of a build from local files: internal/client/upload.go as  *)
(* the TUI's applyWithUploadCmd and uploadTarballCmd run it.  A member of  *)
(* Runs is one invocation; it stands for the request UUID it generates.    *)
(*                                                                         *)
(*   step         where the run is                                         *)
(*   "new"        not started                                              *)
(*   "watching"   applied, watching the object for a signed URL            *)
(*   "putting"    PUT of the tarball about to be sent                      *)
(*   "copying"    kind only: the server is writing the tarball             *)
(*   "stored"     PUT answered 200, annotation patch to come               *)
(*   "done"       Upload returned nil                                      *)
(*   "failed"     Upload returned an error or the process was stopped      *)
(***************************************************************************)
EXTENDS UploadStorage

CONSTANT Overlap    \* whether a run may start while another is unfinished

ASSUME OverlapAssumption == Overlap \in BOOLEAN

RunSteps == {"new", "watching", "putting", "copying", "stored", "done", "failed"}

Active(r) == run[r].step \in {"watching", "putting", "copying", "stored"}

ClientInit ==
  run = [r \in Runs |-> [step |-> "new", tag |-> NoTag, url |-> NoTag]]

clientUnchanged == <<cache, jobVars, jobCache, registry, faults, workerVars>>

SetStep(r, step) == run' = [run EXCEPT ![r].step = step]

(***************************************************************************)
(* specifyUpload and Apply: the spec names the tarball and the request,    *)
(* any git source is dropped and the image is cleared.                     *)
(***************************************************************************)
Apply(r, md5) ==
  /\ run[r].step = "new"
  /\ Overlap \/ \A other \in Runs : ~Active(other)
  /\ run' = [run EXCEPT ![r].step = "watching", ![r].tag = md5]
  /\ Store([obj EXCEPT !.spec = [src |-> "upload", tag |-> md5, req |-> r,
                                 image |-> NoTag]], {})
  /\ UNCHANGED <<storageVars, clientUnchanged>>

\* The user applies a manifest with a git build; the image is not in it.
ApplyGit(ref) ==
  /\ obj.spec.tag # ref
  /\ Store([obj EXCEPT !.spec.src = "git", !.spec.tag = ref,
                       !.spec.req = NoRun], {})
  /\ UNCHANGED <<run, storageVars, clientUnchanged>>

(***************************************************************************)
(* The watch of Upload.  It begins with the object as it is and then sees  *)
(* each change.                                                            *)
(***************************************************************************)
SkipUpload(r) ==
  /\ run[r].step = "watching"
  /\ obj.status.stored = run[r].tag
  /\ SetStep(r, "done")
  /\ UNCHANGED <<objectVars, storageVars, clientUnchanged>>

\* Mutation of ReceiveURL: the request ID of the status is not compared.
ReceiveAnyURL(r) ==
  /\ run[r].step = "watching"
  /\ obj.status.stored # run[r].tag
  /\ obj.status.url # NoTag
  /\ run' = [run EXCEPT ![r].step = "putting", ![r].url = obj.status.url]
  /\ UNCHANGED <<objectVars, storageVars, clientUnchanged>>

ReceiveURL(r) ==
  /\ run[r].step = "watching"
  /\ obj.status.stored # run[r].tag
  /\ obj.status.url # NoTag
  /\ obj.spec.src = "upload"
  /\ obj.status.req = obj.spec.req
  /\ run' = [run EXCEPT ![r].step = "putting", ![r].url = obj.status.url]
  /\ UNCHANGED <<objectVars, storageVars, clientUnchanged>>

(***************************************************************************)
(* uploadTarball.  When the answer is lost the tarball is stored and the   *)
(* run fails all the same.                                                 *)
(***************************************************************************)
Put(r) ==
  /\ Cloud # "kind"
  /\ run[r].step = "putting"
  /\ PutObject(run[r].tag, run[r].url)
  /\ SetStep(r, "stored")
  /\ UNCHANGED <<objectVars, clientUnchanged>>

PutAnswerLost(r) ==
  /\ Cloud # "kind"
  /\ run[r].step = "putting"
  /\ PutObject(run[r].tag, run[r].url)
  /\ SetStep(r, "failed")
  /\ UNCHANGED <<objectVars, clientUnchanged>>

BeginPut(r) ==
  /\ Cloud = "kind"
  /\ run[r].step = "putting"
  /\ PutMd5File(run[r].tag)
  /\ SetStep(r, "copying")
  /\ UNCHANGED <<objectVars, clientUnchanged>>

FinishPut(r) ==
  /\ run[r].step = "copying"
  /\ PutDataFile(run[r].tag, \E other \in Runs \ {r} : run[other].step = "copying")
  /\ SetStep(r, "stored")
  /\ UNCHANGED <<objectVars, clientUnchanged>>

\* Mutation of Annotate: Upload returns without touching the object.
FinishSilently(r) ==
  /\ run[r].step = "stored"
  /\ SetStep(r, "done")
  /\ UNCHANGED <<objectVars, storageVars, clientUnchanged>>

(***************************************************************************)
(* The annotation upload-timestamp changes the object and nothing in it    *)
(* that anyone reads: its one effect is a watch event.                     *)
(***************************************************************************)
Annotate(r) ==
  /\ run[r].step = "stored"
  /\ fresh' = {}
  /\ SetStep(r, "done")
  /\ UNCHANGED <<obj, storageVars, clientUnchanged>>

\* kind: the connection breaks while the server copies.
CopyCutOff(r) ==
  /\ run[r].step = "copying"
  /\ PutDataFile(run[r].tag, TRUE)
  /\ SetStep(r, "failed")
  /\ UNCHANGED <<objectVars, clientUnchanged>>

\* A watch error, a nil pointer where a git build has replaced the upload, a
\* refused or expired URL, an interrupt of the user.
RunFails(r) ==
  /\ Active(r)
  /\ run[r].step # "copying"
  /\ SetStep(r, "failed")
  /\ UNCHANGED <<objectVars, storageVars, clientUnchanged>>

RunStep(r) ==
  \/ SkipUpload(r) \/ ReceiveURL(r)
  \/ Put(r) \/ BeginPut(r) \/ FinishPut(r)
  \/ Annotate(r)

ClientNext ==
  \/ \E r \in Runs, md5 \in Md5s : Apply(r, md5)
  \/ \E ref \in GitRefs : ApplyGit(ref)
  \/ \E r \in Runs : RunStep(r) \/ PutAnswerLost(r) \/ CopyCutOff(r) \/ RunFails(r)
=============================================================================
