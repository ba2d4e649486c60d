---------------------------- MODULE BuildCluster ----------------------------
(***************************************************************************)
(* The surroundings of the image build of one Substratus object (a Model,  *)
(* Dataset, Server or Notebook): the object in the Kubernetes API server,  *)
(* the manager's informer caches, the builder Job with its kaniko pods,    *)
(* the image registry and the other controller that writes the object.    *)
(*                                                                         *)
(* Everything here runs outside the repository or is used by it through   *)
(* client libraries; BuildReconciler, UploadClient and UploadStorage hold  *)
(* the repository's own actions and share this state.                      *)
(*                                                                         *)
(* Resource versions: the API server accepts an Update only from a copy    *)
(* that carries the object's current resourceVersion.  Instead of a        *)
(* counter, "fresh" holds the names of the copies that do; a write that    *)
(* changes the object leaves only the writer's copy fresh.                 *)
(***************************************************************************)
EXTENDS Naturals

CONSTANTS
  Md5s,       \* checksums of the tarballs that clients upload
  GitRefs,    \* git tags and branches an object can be built from
  Runs,       \* invocations of the CLI, each with its own request UUID
  NoTag,      \* the empty string in place of a tag, image, URL or checksum
  NoRun,      \* the empty request ID
  Torn,       \* the bytes of an incompletely written tarball
  Cloud,      \* "gcp" (each URL signed for an MD5) or "kind"
  MaxFaults   \* bound: API errors, restarts, pod failures and outages

ASSUME ConstantsAssumption ==
  /\ Md5s \cap GitRefs = {}
  /\ NoTag \notin Md5s \cup GitRefs
  /\ Torn \notin Md5s \cup GitRefs \cup {NoTag}
  /\ NoRun \notin Runs
  /\ Cloud \in {"gcp", "kind"}
  /\ MaxFaults \in Nat

VARIABLES
  obj,        \* the object as the API server holds it
  fresh,      \* the copies that carry the object's resourceVersion
  cache,      \* the informer's copy of the object
  job,        \* the builder Job <object>-<kind>-bld in the API server
  jobCache,   \* the informer's copy of that Job
  context,    \* the build context the Job's pod has fetched
  orphans,    \* pods of deleted builder Jobs that are still running
  registry,   \* the content behind each image tag
  faults      \* faults injected so far, at most MaxFaults

VARIABLES
  queued,     \* the object's key is in the reconciler's work queue
  pc,         \* what the reconciler does next
  worker      \* the reconciler's local copy of the object

VARIABLES
  storedMd5,  \* the checksum the SCI reports for uploads/latest.tar.gz
  storedData, \* the bytes of uploads/latest.tar.gz
  everStored, \* history: checksums the SCI has ever been able to report
  tainted,    \* history: tags whose build context changed under the build
  run         \* each client run: its step, its tarball and the URL it uses

objectVars  == <<obj, fresh>>
jobVars     == <<job, context, orphans>>
workerVars  == <<queued, pc, worker>>
storageVars == <<storedMd5, storedData, everStored, tainted>>
vars == <<objectVars, cache, jobVars, jobCache, registry, faults,
          workerVars, storageVars, run>>

Tags == Md5s \cup GitRefs

(***************************************************************************)
(* The fields of the object that the build reads or writes.  An image is   *)
(* named by its tag: ObjectBuiltImageURL depends on nothing else that      *)
(* changes.  NoRun is the request ID of an object without an upload.       *)
(***************************************************************************)
Sources(tag) == IF tag \in Md5s THEN {"upload"}
                ELSE IF tag \in GitRefs THEN {"git"} ELSE {"none"}

Specs == {s \in [src   : {"none", "upload", "git"},
                 tag   : Tags \cup {NoTag},
                 req   : Runs \cup {NoRun},
                 image : Tags \cup {NoTag}] : s.src \in Sources(s.tag)}

Conditions == {"Unset", "False", "True"}

Statuses == [url      : Md5s \cup {NoTag},
             req      : Runs \cup {NoRun},
             stored   : Md5s \cup {NoTag},
             uploaded : Conditions,
             built    : Conditions,
             ready    : BOOLEAN]

Objects == [spec : Specs, status : Statuses]

NewObject ==
  [spec   |-> [src |-> "none", tag |-> NoTag, req |-> NoRun, image |-> NoTag],
   status |-> [url |-> NoTag, req |-> NoRun, stored |-> NoTag,
               uploaded |-> "Unset", built |-> "Unset", ready |-> FALSE]]

NoJob == [tag |-> NoTag, state |-> "absent"]

Jobs == [tag : Tags, state : {"running", "succeeded", "failed"}] \cup {NoJob}

ClusterInit ==
  /\ obj = NewObject
  /\ fresh = {"cache"}
  /\ cache = NewObject
  /\ job = NoJob
  /\ jobCache = NoJob
  /\ context = NoTag
  /\ orphans = {}
  /\ registry = [t \in Tags |-> NoTag]
  /\ faults = 0

(***************************************************************************)
(* The API server.  A write stores o; writing what is there changes no     *)
(* resourceVersion and sends no watch event.                               *)
(***************************************************************************)
Store(o, writers) ==
  /\ obj' = o
  /\ fresh' = IF o = obj THEN fresh ELSE writers

Fault ==
  /\ faults < MaxFaults
  /\ faults' = faults + 1

(***************************************************************************)
(* The informers.  The event handlers run after the cache is updated and   *)
(* enqueue the object, for its own events and for those of the Job it      *)
(* owns.  Several pending events may be delivered as one.                  *)
(***************************************************************************)
SyncObject ==
  /\ "cache" \notin fresh
  /\ cache' = obj
  /\ fresh' = fresh \cup {"cache"}
  /\ queued' = TRUE
  /\ UNCHANGED <<obj, jobVars, jobCache, registry, faults, pc, worker,
                 storageVars, run>>

SyncJob ==
  /\ jobCache # job
  /\ jobCache' = job
  /\ queued' = TRUE
  /\ UNCHANGED <<objectVars, cache, jobVars, registry, faults, pc, worker,
                 storageVars, run>>

(***************************************************************************)
(* The Job controller and kaniko.  The pod of a running Job fetches the    *)
(* context (the latest tarball, or the git ref) and later pushes the image *)
(* under the Job's tag.  A failed pod is retried (backoffLimit 1) or fails *)
(* the Job.  Deleting a Job through batch/v1 orphans its pods, which run   *)
(* on until they push or die.                                              *)
(***************************************************************************)
Source(tag) == IF tag \in GitRefs THEN tag ELSE storedData

FetchContext ==
  /\ job.state = "running"
  /\ context = NoTag
  /\ context' = Source(job.tag)
  /\ UNCHANGED <<objectVars, cache, job, orphans, jobCache, registry, faults,
                 workerVars, storageVars, run>>

PushImage ==
  /\ job.state = "running"
  /\ context \in Tags
  /\ registry' = [registry EXCEPT ![job.tag] = context]
  /\ job' = [job EXCEPT !.state = "succeeded"]
  /\ context' = NoTag
  /\ UNCHANGED <<objectVars, cache, orphans, jobCache, faults, workerVars,
                 storageVars, run>>

\* A truncated tarball fails every pod; other pod failures are faults.
PodFails ==
  /\ job.state = "running"
  /\ \/ /\ context = Torn
        /\ UNCHANGED faults
     \/ /\ context # Torn
        /\ Fault
  /\ context' = NoTag
  /\ \/ job' = [job EXCEPT !.state = "failed"]
     \/ UNCHANGED job
  /\ UNCHANGED <<objectVars, cache, orphans, jobCache, registry, workerVars,
                 storageVars, run>>

OrphanFetches(p) ==
  /\ p.context = NoTag
  /\ orphans' = (orphans \ {p}) \cup {[p EXCEPT !.context = Source(p.tag)]}
  /\ UNCHANGED <<objectVars, cache, job, context, jobCache, registry, faults,
                 workerVars, storageVars, run>>

OrphanPushes(p) ==
  /\ p.context \in Tags
  /\ registry' = [registry EXCEPT ![p.tag] = p.context]
  /\ orphans' = orphans \ {p}
  /\ UNCHANGED <<objectVars, cache, job, context, jobCache, faults,
                 workerVars, storageVars, run>>

OrphanDies(p) ==
  /\ orphans' = orphans \ {p}
  /\ UNCHANGED <<objectVars, cache, job, context, jobCache, registry, faults,
                 workerVars, storageVars, run>>

(***************************************************************************)
(* The other controller of the object: the Model, Dataset, Server or       *)
(* Notebook reconciler.  It does nothing while the image is empty and      *)
(* otherwise writes status.ready through Status().Update, which, when it   *)
(* is not refused, is a read-modify-write of the current object.           *)
(***************************************************************************)
KindMarksReady ==
  /\ obj.spec.image # NoTag
  /\ ~obj.status.ready
  /\ Store([obj EXCEPT !.status.ready = TRUE], {})
  /\ UNCHANGED <<cache, jobVars, jobCache, registry, faults, workerVars,
                 storageVars, run>>

KindMarksUnready ==
  /\ obj.spec.image # NoTag
  /\ obj.status.ready
  /\ Fault
  /\ Store([obj EXCEPT !.status.ready = FALSE], {})
  /\ UNCHANGED <<cache, jobVars, jobCache, registry, workerVars,
                 storageVars, run>>

ClusterNext ==
  \/ SyncObject
  \/ SyncJob
  \/ FetchContext
  \/ PushImage
  \/ PodFails
  \/ \E p \in orphans : OrphanFetches(p) \/ OrphanPushes(p) \/ OrphanDies(p)
  \/ KindMarksReady
  \/ KindMarksUnready
=============================================================================
