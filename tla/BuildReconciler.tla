--------------------------- MODULE BuildReconciler ---------------------------
(***************************************************************************)
(* internal/controller/build_reconciler.go: the controller that turns the  *)
(* build section of an object into a container image.  One worker handles  *)
(* an object at a time.  Every call to the API server or to the SCI is a   *)
(* step of its own, named by pc; between two of them any other part of     *)
(* the system may run.                                                     *)
(*                                                                         *)
(*   pc               the call that comes next                             *)
(*   "idle"           waiting for the work queue                           *)
(*   "upload"         GetObjectMd5 in reconcileUploadFile                  *)
(*   "writeUploaded"  Status().Update, upload found or verified            *)
(*   "writeURL"       Status().Update, signed URL offered                  *)
(*   "job"            Get (and Create or Delete) of the builder Job        *)
(*   "writeWaiting"   Status().Update, Job not complete                    *)
(*   "setImage"       Update of spec.image                                 *)
(*   "writeBuilt"     Status().Update, Job complete                        *)
(***************************************************************************)
EXTENDS BuildCluster

WritingStatus == {"writeUploaded", "writeURL", "writeWaiting", "writeBuilt"}

Steps == {"idle", "upload", "job", "setImage"} \cup WritingStatus

ReconcilerInit ==
  /\ queued = TRUE
  /\ pc = "idle"
  /\ worker = NewObject

(***************************************************************************)
(* Returning from Reconcile drops the local copy; an error (a conflict     *)
(* among them) puts the key back into the queue.                           *)
(***************************************************************************)
Return(requeue) ==
  /\ pc' = "idle"
  /\ worker' = NewObject
  /\ queued' = (queued \/ requeue)

(***************************************************************************)
(* Reconcile up to the first call that leaves the manager: the object is   *)
(* read from the cache, and there is nothing to do for an object without   *)
(* a build or whose image is the one its build produces.                   *)
(***************************************************************************)
\* Mutation of Reconcile: a git build runs into reconcileUploadFile as well.
ReconcileUploadAlways ==
  /\ pc = "idle"
  /\ queued
  /\ queued' = FALSE
  /\ IF cache.spec.src = "none" \/ cache.spec.image = cache.spec.tag
       THEN UNCHANGED <<fresh, pc, worker>>
       ELSE /\ worker' = cache
            /\ fresh' = IF "cache" \in fresh THEN fresh \cup {"worker"} ELSE fresh
            /\ pc' = "upload"
  /\ UNCHANGED <<obj, cache, jobVars, jobCache, registry, faults,
                 storageVars, run>>

Reconcile ==
  /\ pc = "idle"
  /\ queued
  /\ queued' = FALSE
  /\ IF cache.spec.src = "none" \/ cache.spec.image = cache.spec.tag
       THEN UNCHANGED <<fresh, pc, worker>>
       ELSE /\ worker' = cache
            /\ fresh' = IF "cache" \in fresh THEN fresh \cup {"worker"} ELSE fresh
            /\ pc' = IF cache.spec.src = "upload" THEN "upload" ELSE "job"
  /\ UNCHANGED <<obj, cache, jobVars, jobCache, registry, faults,
                 storageVars, run>>

(***************************************************************************)
(* reconcileUploadFile.  FoundExisting and OfferURL handle a request the   *)
(* status does not yet answer, NotYetUploaded and VerifyUpload one it      *)
(* does.  SetStatusUpload and SetStatusCondition change only the local     *)
(* copy until it is written.                                               *)
(***************************************************************************)
Answered == worker.spec.req = worker.status.req

CheckedUpload(status, step) ==
  /\ worker' = [worker EXCEPT !.status = status]
  /\ pc' = step
  /\ UNCHANGED <<objectVars, cache, jobVars, jobCache, registry, queued,
                 storageVars, run>>

\* The status answers no request: RequestID is left empty here.
FoundExisting ==
  /\ pc = "upload"
  /\ ~Answered
  /\ storedMd5 = worker.spec.tag
  /\ CheckedUpload([worker.status EXCEPT !.url = NoTag,
                                         !.req = NoRun,
                                         !.stored = worker.spec.tag,
                                         !.uploaded = "True"],
                   "writeUploaded")
  /\ UNCHANGED faults

\* Mutation of OfferURL: the checksum of the former upload is kept.
OfferURLKeepingStored ==
  /\ pc = "upload"
  /\ ~Answered
  /\ IF storedMd5 # worker.spec.tag THEN UNCHANGED faults ELSE Fault
  /\ CheckedUpload([worker.status EXCEPT !.url = worker.spec.tag,
                                         !.req = worker.spec.req,
                                         !.uploaded = "False"],
                   "writeURL")

\* Mutation of OfferURL: the URL is offered without the request ID.
OfferURLToNobody ==
  /\ pc = "upload"
  /\ ~Answered
  /\ IF storedMd5 # worker.spec.tag THEN UNCHANGED faults ELSE Fault
  /\ CheckedUpload([worker.status EXCEPT !.url = worker.spec.tag,
                                         !.stored = NoTag,
                                         !.uploaded = "False"],
                   "writeURL")

\* An error of GetObjectMd5 is taken for a missing upload.
OfferURL ==
  /\ pc = "upload"
  /\ ~Answered
  /\ IF storedMd5 # worker.spec.tag THEN UNCHANGED faults ELSE Fault
  /\ CheckedUpload([worker.status EXCEPT !.url = worker.spec.tag,
                                         !.req = worker.spec.req,
                                         !.stored = NoTag,
                                         !.uploaded = "False"],
                   "writeURL")

\* Mutation of VerifyUpload: the checksum in storage is not compared.
VerifyUploadUnchecked ==
  /\ pc = "upload"
  /\ Answered
  /\ CheckedUpload([worker.status EXCEPT !.url = NoTag,
                                         !.req = worker.spec.req,
                                         !.stored = worker.spec.tag,
                                         !.uploaded = "True"],
                   "writeUploaded")
  /\ UNCHANGED faults

VerifyUpload ==
  /\ pc = "upload"
  /\ Answered
  /\ storedMd5 = worker.spec.tag
  /\ CheckedUpload([worker.status EXCEPT !.url = NoTag,
                                         !.req = worker.spec.req,
                                         !.stored = worker.spec.tag,
                                         !.uploaded = "True"],
                   "writeUploaded")
  /\ UNCHANGED faults

\* With nothing in storage GetObjectMd5 fails and Reconcile is retried; with
\* another upload in storage the client is expected to touch the object.
NotYetUploaded ==
  /\ pc = "upload"
  /\ Answered
  /\ storedMd5 # worker.spec.tag
  /\ Return(storedMd5 = NoTag)
  /\ fresh' = fresh \ {"worker"}
  /\ UNCHANGED <<obj, cache, jobVars, jobCache, registry, faults,
                 storageVars, run>>

(***************************************************************************)
(* The builder Job, read from the cache.                                   *)
(***************************************************************************)
Waiting == [worker EXCEPT !.status.built = "False", !.status.ready = FALSE]

\* AlreadyExists is ignored: the cache has not caught up with the Job.
CreateJob ==
  /\ pc = "job"
  /\ jobCache = NoJob
  /\ IF job = NoJob
       THEN job' = [tag |-> worker.spec.tag, state |-> "running"]
       ELSE UNCHANGED job
  /\ worker' = Waiting
  /\ pc' = "writeWaiting"
  /\ UNCHANGED <<objectVars, cache, context, orphans, jobCache, registry,
                 faults, queued, storageVars, run>>

DeleteJob ==
  /\ orphans' = IF job.state = "running"
                  THEN orphans \cup {[tag |-> job.tag, context |-> context]}
                  ELSE orphans
  /\ context' = NoTag

\* Mutation of RecreateJob: the Create that follows the Delete succeeds.
RecreateJobAtOnce ==
  /\ pc = "job"
  /\ jobCache # NoJob
  /\ jobCache.tag # worker.spec.tag
  /\ DeleteJob
  /\ job' = [tag |-> worker.spec.tag, state |-> "running"]
  /\ worker' = Waiting
  /\ pc' = "writeWaiting"
  /\ UNCHANGED <<objectVars, cache, jobCache, registry, faults, queued,
                 storageVars, run>>

\* Out of date, recreate.  The Job object read from the cache carries a
\* resourceVersion, with which the API server refuses the Create; the retry
\* that follows the error finds the Job gone and creates the new one.
RecreateJob ==
  /\ pc = "job"
  /\ jobCache # NoJob
  /\ jobCache.tag # worker.spec.tag
  /\ DeleteJob
  /\ job' = NoJob
  /\ Return(TRUE)
  /\ fresh' = fresh \ {"worker"}
  /\ UNCHANGED <<obj, cache, jobCache, registry, faults, storageVars, run>>

JobNotComplete ==
  /\ pc = "job"
  /\ jobCache.tag = worker.spec.tag
  /\ jobCache.state # "succeeded"
  /\ worker' = Waiting
  /\ pc' = "writeWaiting"
  /\ UNCHANGED <<objectVars, cache, jobVars, jobCache, registry, faults,
                 queued, storageVars, run>>

\* Mutation of JobComplete: the image annotation of the Job is ignored.
JobCompleteAnyTag ==
  /\ pc = "job"
  /\ jobCache.state = "succeeded"
  /\ pc' = "setImage"
  /\ UNCHANGED <<objectVars, cache, jobVars, jobCache, registry, faults,
                 queued, worker, storageVars, run>>

JobComplete ==
  /\ pc = "job"
  /\ jobCache.tag = worker.spec.tag
  /\ jobCache.state = "succeeded"
  /\ pc' = "setImage"
  /\ UNCHANGED <<objectVars, cache, jobVars, jobCache, registry, faults,
                 queued, worker, storageVars, run>>

(***************************************************************************)
(* The writes.  Update replaces the spec by the local copy's and           *)
(* Status().Update the status; the response replaces the local copy.       *)
(***************************************************************************)
WriteStatus(step) ==
  /\ pc = step
  /\ "worker" \in fresh
  /\ Store([obj EXCEPT !.status = worker.status], {"worker"})
  /\ worker' = obj'
  /\ UNCHANGED <<cache, jobVars, jobCache, registry, faults, queued,
                 storageVars, run>>

WriteStatusAndReturn(step) ==
  /\ pc = step
  /\ "worker" \in fresh
  /\ obj' = [obj EXCEPT !.status = worker.status]
  /\ fresh' = IF obj' = obj THEN fresh \ {"worker"} ELSE {}
  /\ Return(FALSE)
  /\ UNCHANGED <<cache, jobVars, jobCache, registry, faults, storageVars, run>>

WriteUploaded == WriteStatus("writeUploaded") /\ pc' = "job"

WriteURL     == WriteStatusAndReturn("writeURL")
WriteWaiting == WriteStatusAndReturn("writeWaiting")
WriteBuilt   == WriteStatusAndReturn("writeBuilt")

\* Mutation of SetImage: the spec is written without the resourceVersion.
SetImageBlindly ==
  /\ pc = "setImage"
  /\ Store([obj EXCEPT !.spec = [worker.spec EXCEPT !.image = worker.spec.tag]],
           {"worker"})
  /\ worker' = [obj' EXCEPT !.status.built = "True"]
  /\ pc' = "writeBuilt"
  /\ UNCHANGED <<cache, jobVars, jobCache, registry, faults, queued,
                 storageVars, run>>

SetImage ==
  /\ pc = "setImage"
  /\ "worker" \in fresh
  /\ Store([obj EXCEPT !.spec = [worker.spec EXCEPT !.image = worker.spec.tag]],
           {"worker"})
  /\ worker' = [obj' EXCEPT !.status.built = "True"]
  /\ pc' = "writeBuilt"
  /\ UNCHANGED <<cache, jobVars, jobCache, registry, faults, queued,
                 storageVars, run>>

\* The API server refuses a write from a copy that is not current.
Conflict ==
  /\ pc \in WritingStatus \cup {"setImage"}
  /\ "worker" \notin fresh
  /\ Return(TRUE)
  /\ UNCHANGED <<objectVars, cache, jobVars, jobCache, registry, faults,
                 storageVars, run>>

(***************************************************************************)
(* Any call may fail: reconcileServiceAccount, the SCI, the API server.    *)
(* The error is returned and the key requeued.  A crash of the manager     *)
(* loses the worker; the restarted manager lists everything anew.          *)
(***************************************************************************)
CallFails ==
  /\ pc # "idle"
  /\ Fault
  /\ Return(TRUE)
  /\ fresh' = fresh \ {"worker"}
  /\ UNCHANGED <<obj, cache, jobVars, jobCache, registry, storageVars, run>>

Restart ==
  /\ Fault
  /\ Return(TRUE)
  /\ cache' = obj
  /\ jobCache' = job
  /\ fresh' = {"cache"}
  /\ UNCHANGED <<obj, jobVars, registry, storageVars, run>>

WorkerStep ==
  \/ Reconcile
  \/ FoundExisting \/ OfferURL \/ VerifyUpload \/ NotYetUploaded
  \/ CreateJob \/ RecreateJob \/ JobNotComplete \/ JobComplete
  \/ WriteUploaded \/ WriteURL \/ WriteWaiting \/ SetImage \/ WriteBuilt
  \/ Conflict

ReconcilerNext == WorkerStep \/ CallFails \/ Restart
=============================================================================
