-------------------------- MODULE BuildSystemProofs --------------------------
(***************************************************************************)
(* Theorems about BuildSystem, for every set of runs, checksums and git    *)
(* references, every bound on faults, both kinds of storage and with runs  *)
(* that overlap or not.                                                    *)
(***************************************************************************)
EXTENDS BuildSystem, TLAPS

(***************************************************************************)
(* Type correctness is not inductive: that a URL is signed for a checksum  *)
(* depends on the worker reaching reconcileUploadFile only with an upload, *)
(* and that it does on fresh copies being copies of the current spec.      *)
(***************************************************************************)
FreshCopies ==
  /\ "cache" \in fresh => cache = obj
  /\ "worker" \in fresh => pc # "idle" /\ worker.spec = obj.spec

WorkerHasBuild ==
  /\ pc # "idle" => worker.spec.src # "none"
  /\ pc = "upload" => worker.spec.src = "upload"

RunHasTarball == \A r \in Runs : run[r].step # "new" => run[r].tag \in Md5s

TypeInv == TypeOK /\ WorkerHasBuild /\ FreshCopies /\ RunHasTarball

LEMMA NewObjectType == NewObject \in Objects
  BY ConstantsAssumption
  DEF NewObject, Objects, Specs, Statuses, Conditions, Sources, Tags

\* The tag of a spec with a build, and of one with an upload.
LEMMA SpecTags ==
  ASSUME NEW s \in Specs
  PROVE  /\ s.src # "none" => s.tag \in Tags
         /\ s.src = "upload" => s.tag \in Md5s
  BY ConstantsAssumption DEF Specs, Sources, Tags

LEMMA StatusType ==
  ASSUME NEW o \in Objects, NEW s \in Statuses
  PROVE  [o EXCEPT !.status = s] \in Objects
  BY DEF Objects

LEMMA ReadyType ==
  ASSUME NEW o \in Objects, NEW b \in BOOLEAN
  PROVE  [o EXCEPT !.status.ready = b] \in Objects
<1>1. [o EXCEPT !.status.ready = b]
        = [o EXCEPT !.status = [o.status EXCEPT !.ready = b]]
  BY DEF Objects
<1>2. [o.status EXCEPT !.ready = b] \in Statuses
  BY DEF Objects, Statuses
<1> QED
  BY <1>1, <1>2, StatusType

\* The local copy once the builder Job is found incomplete.
LEMMA WaitingType ==
  ASSUME worker \in Objects
  PROVE  Waiting \in Objects /\ Waiting.spec = worker.spec
<1>1. Waiting = [worker EXCEPT !.status = [worker.status EXCEPT !.built = "False",
                                                               !.ready = FALSE]]
  BY DEF Waiting, Objects
<1>2. [worker.status EXCEPT !.built = "False", !.ready = FALSE] \in Statuses
  BY DEF Objects, Statuses, Conditions
<1> QED
  BY <1>1, <1>2, StatusType DEF Objects

\* A write of somebody other than the worker.
LEMMA StoreByOther ==
  ASSUME NEW STATE o, Store(o, {})
  PROVE  obj' = o /\ (fresh' = {} \/ (fresh' = fresh /\ obj' = obj))
<1>1. CASE o = obj
  BY <1>1 DEF Store
<1>2. CASE o # obj
  BY <1>2 DEF Store
<1> QED
  BY <1>1, <1>2

LEMMA TypeInit == Init => TypeInv
  BY NewObjectType, ConstantsAssumption
  DEF Init, ClusterInit, ReconcilerInit, StorageInit, ClientInit, TypeInv,
      TypeOK, WorkerHasBuild, FreshCopies, RunHasTarball, Jobs, Tags, Steps, RunSteps, RunRecords

USE DEF objectVars, jobVars, workerVars, storageVars, clientUnchanged

\* Steps of the informers, the Job controller, kaniko and the kind's
\* controller keep the types.
LEMMA ClusterType == TypeInv /\ ClusterNext => TypeInv'
<1> SUFFICES ASSUME TypeInv, ClusterNext PROVE TypeInv'
  OBVIOUS
<1> USE DEF TypeInv, TypeOK, WorkerHasBuild, FreshCopies, RunHasTarball
<1>1. CASE SyncObject
  BY <1>1 DEF SyncObject
<1>2. CASE SyncJob
  BY <1>2 DEF SyncJob
<1>3. CASE FetchContext
  BY <1>3 DEF FetchContext, Source, Jobs, NoJob, Tags
<1>4. CASE PushImage
  BY <1>4 DEF PushImage, Jobs, NoJob
<1>5. CASE PodFails
  BY <1>5, ConstantsAssumption DEF PodFails, Fault, Jobs, NoJob
<1>6. ASSUME NEW p \in orphans, OrphanFetches(p) PROVE TypeInv'
  BY <1>6 DEF OrphanFetches, Source, Pods, Tags
<1>7. ASSUME NEW p \in orphans, OrphanPushes(p) PROVE TypeInv'
  BY <1>7 DEF OrphanPushes, Pods
<1>8. ASSUME NEW p \in orphans, OrphanDies(p) PROVE TypeInv'
  BY <1>8 DEF OrphanDies
<1>9. CASE KindMarksReady
<2>1. /\ obj' = [obj EXCEPT !.status.ready = TRUE]
      /\ fresh' = {} \/ (fresh' = fresh /\ obj' = obj)
  BY <1>9, StoreByOther DEF KindMarksReady
<2>2. obj' \in Objects
  BY <2>1, ReadyType
<2> QED
  BY <1>9, <2>1, <2>2 DEF KindMarksReady
<1>10. CASE KindMarksUnready
<2>1. /\ obj' = [obj EXCEPT !.status.ready = FALSE]
      /\ fresh' = {} \/ (fresh' = fresh /\ obj' = obj)
  BY <1>10, StoreByOther DEF KindMarksUnready
<2>2. obj' \in Objects
  BY <2>1, ReadyType
<2>3. faults' \in 0..MaxFaults
  BY <1>10, ConstantsAssumption DEF KindMarksUnready, Fault
<2> QED
  BY <1>10, <2>1, <2>2, <2>3 DEF KindMarksUnready
<1> QED
  BY <1>1, <1>2, <1>3, <1>4, <1>5, <1>6, <1>7, <1>8, <1>9, <1>10
  DEF ClusterNext
\* What CheckedUpload needs to know of the status it is given.
LEMMA CheckedUploadType ==
  ASSUME TypeInv, pc = "upload", NEW status \in Statuses, NEW step \in WritingStatus,
         CheckedUpload(status, step), faults' \in 0..MaxFaults
  PROVE  TypeInv'
<1>1. worker' \in Objects /\ worker'.spec = worker.spec
  BY StatusType DEF CheckedUpload, TypeInv, TypeOK, FreshCopies, RunHasTarball, Objects
<1> QED
  BY <1>1 DEF CheckedUpload, TypeInv, TypeOK, WorkerHasBuild, FreshCopies, RunHasTarball, Steps, WritingStatus

\* Steps of the reconciler keep the types.
LEMMA ReconcilerType == TypeInv /\ ReconcilerNext => TypeInv'
<1> SUFFICES ASSUME TypeInv, ReconcilerNext PROVE TypeInv'
  OBVIOUS
<1>0. /\ worker.spec \in Specs /\ worker.status \in Statuses
      /\ pc = "upload" => worker.spec.tag \in Md5s /\ worker.spec.req \in Runs \cup {NoRun}
      /\ pc # "idle" => worker.spec.tag \in Tags
  BY SpecTags DEF TypeInv, TypeOK, WorkerHasBuild, FreshCopies, RunHasTarball, Objects, Specs
<1>f. Fault => faults' \in 0..MaxFaults
  BY ConstantsAssumption DEF Fault, TypeInv, TypeOK, FreshCopies, RunHasTarball
<1>1. CASE Reconcile
<2>1. CASE cache.spec.src = "none" \/ cache.spec.image = cache.spec.tag
  BY <1>1, <2>1 DEF Reconcile, TypeInv, TypeOK, WorkerHasBuild, FreshCopies, RunHasTarball
<2>2. CASE ~(cache.spec.src = "none" \/ cache.spec.image = cache.spec.tag)
  <3>1. worker' = cache /\ pc' \in {"upload", "job"}
        /\ fresh' = (IF "cache" \in fresh THEN fresh \cup {"worker"} ELSE fresh)
        /\ (pc' = "upload" => cache.spec.src = "upload")
    BY <1>1, <2>2 DEF Reconcile
  <3>2. pc = "idle" /\ queued' = FALSE
        /\ UNCHANGED <<obj, cache, jobVars, jobCache, registry, faults, storageVars, run>>
    BY <1>1 DEF Reconcile
  <3> QED
    BY <2>2, <3>1, <3>2 DEF TypeInv, TypeOK, WorkerHasBuild, FreshCopies, RunHasTarball, Steps
<2> QED
  BY <2>1, <2>2
<1>2. CASE FoundExisting
<2>1. [worker.status EXCEPT !.url = NoTag, !.req = NoRun,
                            !.stored = worker.spec.tag, !.uploaded = "True"]
        \in Statuses
  BY <1>0, <1>2 DEF FoundExisting, Statuses, Conditions
<2> QED
  BY <1>2, <2>1, CheckedUploadType DEF FoundExisting, WritingStatus, TypeInv, TypeOK, FreshCopies, RunHasTarball
<1>3. CASE OfferURL
<2>1. [worker.status EXCEPT !.url = worker.spec.tag, !.req = worker.spec.req,
                            !.stored = NoTag, !.uploaded = "False"]
        \in Statuses
  BY <1>0, <1>3 DEF OfferURL, Statuses, Conditions
<2>2. faults' \in 0..MaxFaults
  BY <1>3, <1>f DEF OfferURL, TypeInv, TypeOK, FreshCopies, RunHasTarball
<2> QED
  BY <1>3, <2>1, <2>2, CheckedUploadType DEF OfferURL, WritingStatus
<1>4. CASE VerifyUpload
<2>1. [worker.status EXCEPT !.url = NoTag, !.req = worker.spec.req,
                            !.stored = worker.spec.tag, !.uploaded = "True"]
        \in Statuses
  BY <1>0, <1>4 DEF VerifyUpload, Statuses, Conditions
<2> QED
  BY <1>4, <2>1, CheckedUploadType DEF VerifyUpload, WritingStatus, TypeInv, TypeOK, FreshCopies, RunHasTarball
<1>r. ASSUME NEW b \in BOOLEAN, Return(b)
      PROVE  /\ worker' \in Objects /\ queued' \in BOOLEAN /\ pc' = "idle"
             /\ pc' \in Steps /\ WorkerHasBuild'
  BY <1>r, NewObjectType DEF Return, Steps, WorkerHasBuild, TypeInv, TypeOK, FreshCopies, RunHasTarball
<1>5. CASE NotYetUploaded
  BY <1>5, <1>r DEF NotYetUploaded, TypeInv, TypeOK, FreshCopies, RunHasTarball
<1>6. CASE CreateJob
  BY <1>6, <1>0, WaitingType
  DEF CreateJob, TypeInv, TypeOK, WorkerHasBuild, FreshCopies, RunHasTarball, Jobs, Steps, WritingStatus
<1>7. CASE RecreateJob
<2>1. job' \in Jobs
  BY <1>7 DEF RecreateJob, Jobs
<2>2. orphans' \subseteq Pods /\ context' \in Tags \cup {NoTag, Torn}
  BY <1>7 DEF RecreateJob, DeleteJob, Pods, Jobs, NoJob, TypeInv, TypeOK, FreshCopies, RunHasTarball
<2> QED
  BY <1>7, <1>r, <2>1, <2>2 DEF RecreateJob, TypeInv, TypeOK, FreshCopies, RunHasTarball
<1>8. CASE JobNotComplete
  BY <1>8, WaitingType
  DEF JobNotComplete, TypeInv, TypeOK, WorkerHasBuild, FreshCopies, RunHasTarball, Steps, WritingStatus
<1>9. CASE JobComplete
  BY <1>9 DEF JobComplete, TypeInv, TypeOK, WorkerHasBuild, FreshCopies, RunHasTarball, Steps
<1>s. [obj EXCEPT !.status = worker.status] \in Objects
  BY <1>0, StatusType DEF TypeInv, TypeOK, FreshCopies, RunHasTarball
<1>10. CASE WriteUploaded
<2>1. /\ obj' \in Objects /\ worker' = obj' /\ pc' = "job"
      /\ fresh' \subseteq {"cache", "worker"}
      /\ obj'.spec = worker.spec
      /\ "cache" \in fresh' => cache = obj'
  BY <1>10, <1>s DEF WriteUploaded, WriteStatus, Store, TypeInv, TypeOK, FreshCopies, RunHasTarball, Objects
<2> QED
  BY <1>10, <2>1 DEF WriteUploaded, WriteStatus, TypeInv, TypeOK, WorkerHasBuild, FreshCopies, RunHasTarball, Steps
<1>11. ASSUME NEW step, WriteStatusAndReturn(step) PROVE TypeInv'
<2>1. /\ obj' \in Objects /\ fresh' \subseteq {"cache", "worker"}
      /\ "cache" \in fresh' => cache = obj'
  BY <1>11, <1>s DEF WriteStatusAndReturn, TypeInv, TypeOK, FreshCopies, RunHasTarball
<2> QED
  BY <1>11, <1>r, <2>1 DEF WriteStatusAndReturn, TypeInv, TypeOK, FreshCopies, RunHasTarball
<1>12. CASE SetImage
<2>1. [worker.spec EXCEPT !.image = worker.spec.tag] \in Specs
  BY <1>0, <1>12 DEF SetImage, Specs
<2>2. /\ obj' \in Objects
      /\ obj'.spec = [worker.spec EXCEPT !.image = worker.spec.tag]
      /\ fresh' \subseteq {"cache", "worker"}
      /\ "cache" \in fresh' => cache = obj'
  BY <1>12, <2>1 DEF SetImage, Store, TypeInv, TypeOK, FreshCopies, RunHasTarball, Objects
<2>3. worker' \in Objects /\ worker'.spec = obj'.spec
  BY <1>12, <2>2 DEF SetImage, Objects, Statuses, Conditions
<2>4. obj'.spec.src # "none"
  BY <1>0, <1>12, <2>2 DEF SetImage, TypeInv, WorkerHasBuild, Specs
<2> QED
  BY <1>12, <2>2, <2>3, <2>4
  DEF SetImage, TypeInv, TypeOK, WorkerHasBuild, FreshCopies, RunHasTarball, Steps, WritingStatus
<1>13. CASE Conflict
  BY <1>13, <1>r DEF Conflict, TypeInv, TypeOK, FreshCopies, RunHasTarball
<1>14. CASE CallFails
  BY <1>14, <1>r, <1>f DEF CallFails, TypeInv, TypeOK, FreshCopies, RunHasTarball
<1>15. CASE Restart
  BY <1>15, <1>r, <1>f DEF Restart, TypeInv, TypeOK, FreshCopies, RunHasTarball
<1> QED
  BY <1>1, <1>2, <1>3, <1>4, <1>5, <1>6, <1>7, <1>8, <1>9, <1>10, <1>11, <1>12,
     <1>13, <1>14, <1>15
  DEF ReconcilerNext, WorkerStep, WriteURL, WriteWaiting, WriteBuilt

\* Steps of the CLI runs keep the types.
LEMMA ClientType == TypeInv /\ ClientNext => TypeInv'
<1> SUFFICES ASSUME TypeInv, ClientNext PROVE TypeInv'
  OBVIOUS
<1> USE DEF TypeInv, TypeOK, WorkerHasBuild, FreshCopies, RunHasTarball
<1>s. ASSUME NEW r \in Runs, NEW step \in RunSteps, SetStep(r, step),
             run[r].step # "new"
      PROVE  /\ run' \in [Runs -> RunRecords]
             /\ RunHasTarball'
  BY <1>s DEF SetStep, RunRecords
<1>d. ASSUME NEW data \in Tags \cup {NoTag, Torn}, StoreData(data)
      PROVE  storedData' \in Tags \cup {NoTag, Torn} /\ tainted' \subseteq Tags \cup {NoTag}
<2>1. TagsBeingBuilt \subseteq Tags \cup {NoTag}
  BY DEF TagsBeingBuilt, Pods, Jobs, NoJob, Objects, Specs
<2> QED
  BY <1>d, <2>1 DEF StoreData
<1>m. ASSUME NEW m \in Md5s, ReportMd5(m)
      PROVE  storedMd5' \in Tags \cup {NoTag} /\ everStored' \subseteq Md5s
  BY <1>m DEF ReportMd5, Tags
<1>1. ASSUME NEW r \in Runs, NEW md5 \in Md5s, Apply(r, md5) PROVE TypeInv'
<2>1. [src |-> "upload", tag |-> md5, req |-> r, image |-> NoTag] \in Specs
  BY ConstantsAssumption DEF Specs, Sources, Tags
<2>2. obj' \in Objects /\ (fresh' = {} \/ (fresh' = fresh /\ obj' = obj))
  <3>1. /\ obj' = [obj EXCEPT !.spec = [src |-> "upload", tag |-> md5, req |-> r,
                                       image |-> NoTag]]
        /\ fresh' = {} \/ (fresh' = fresh /\ obj' = obj)
    BY <1>1, StoreByOther DEF Apply
  <3> QED
    BY <3>1, <2>1 DEF Objects
<2>3. run' \in [Runs -> RunRecords] /\ RunHasTarball'
  <3>1. run' = [run EXCEPT ![r].step = "watching", ![r].tag = md5]
    BY <1>1 DEF Apply
  <3>2. run[r] \in RunRecords
    OBVIOUS
  <3>3. [run[r] EXCEPT !.step = "watching", !.tag = md5]
          \in RunRecords
    BY <3>2 DEF RunSteps, RunRecords
  <3>4. run' = [run EXCEPT ![r] = [run[r] EXCEPT !.step = "watching", !.tag = md5]]
    BY <3>1
  <3> QED
    BY <3>3, <3>4
<2> QED
  BY <1>1, <2>2, <2>3 DEF Apply
<1>2. ASSUME NEW ref \in GitRefs, ApplyGit(ref) PROVE TypeInv'
<2>1. [obj.spec EXCEPT !.src = "git", !.tag = ref, !.req = NoRun] \in Specs
  BY ConstantsAssumption DEF Objects, Specs, Sources, Tags
<2>2. [obj EXCEPT !.spec.src = "git", !.spec.tag = ref, !.spec.req = NoRun]
        = [obj EXCEPT !.spec = [obj.spec EXCEPT !.src = "git", !.tag = ref, !.req = NoRun]]
  BY DEF Objects
<2>3. obj' \in Objects /\ (fresh' = {} \/ (fresh' = fresh /\ obj' = obj))
  <3>1. /\ obj' = [obj EXCEPT !.spec.src = "git", !.spec.tag = ref, !.spec.req = NoRun]
        /\ fresh' = {} \/ (fresh' = fresh /\ obj' = obj)
    BY <1>2, StoreByOther DEF ApplyGit
  <3> QED
    BY <3>1, <2>1, <2>2 DEF Objects
<2> QED
  BY <1>2, <2>3 DEF ApplyGit
<1>3. ASSUME NEW r \in Runs, SkipUpload(r) PROVE TypeInv'
  BY <1>3, <1>s DEF SkipUpload, RunSteps
<1>4. ASSUME NEW r \in Runs, ReceiveURL(r) PROVE TypeInv'
<2>1. obj.status.url \in Md5s \cup {NoTag}
  BY DEF Objects, Statuses
<2>2. run' \in [Runs -> RunRecords] /\ RunHasTarball'
  <3>1. run' = [run EXCEPT ![r].step = "putting", ![r].url = obj.status.url]
    BY <1>4 DEF ReceiveURL
  <3>2. run[r] \in RunRecords /\ run[r].tag \in Md5s
    BY <1>4 DEF ReceiveURL
  <3>3. [run[r] EXCEPT !.step = "putting", !.url = obj.status.url]
          \in RunRecords
    BY <3>2, <2>1 DEF RunSteps, RunRecords
  <3>4. run' = [run EXCEPT ![r] = [run[r] EXCEPT !.step = "putting",
                                                !.url = obj.status.url]]
    BY <3>1
  <3>5. [run[r] EXCEPT !.step = "putting", !.url = obj.status.url].tag = run[r].tag
    BY <3>2 DEF RunRecords
  <3> QED
    BY <3>2, <3>3, <3>4, <3>5
<2> QED
  BY <1>4, <2>2 DEF ReceiveURL
<1>5. ASSUME NEW r \in Runs, Put(r) \/ PutAnswerLost(r) PROVE TypeInv'
<2>1. run[r].url = run[r].tag /\ run[r].tag \in Md5s \cup {NoTag}
  BY <1>5 DEF Put, PutAnswerLost, PutObject
<2>2. run[r].tag \in Md5s
  BY <1>5, <2>1 DEF Put, PutAnswerLost
<2>3. /\ ReportMd5(run[r].tag) /\ StoreData(run[r].tag)
      /\ SetStep(r, "stored") \/ SetStep(r, "failed")
      /\ UNCHANGED <<objectVars, clientUnchanged>>
  BY <1>5 DEF Put, PutAnswerLost, PutObject
<2>4. /\ storedData' \in Tags \cup {NoTag, Torn}
      /\ tainted' \subseteq Tags \cup {NoTag}
  BY <1>d, <2>2, <2>3 DEF Tags
<2>5. /\ storedMd5' \in Tags \cup {NoTag}
      /\ everStored' \subseteq Md5s
  BY <1>m, <2>2, <2>3
<2>6. run' \in [Runs -> RunRecords] /\ RunHasTarball'
  BY <1>s, <1>5, <2>3 DEF RunSteps, Put, PutAnswerLost
<2> QED
  BY <2>3, <2>4, <2>5, <2>6
<1>6. ASSUME NEW r \in Runs, BeginPut(r) PROVE TypeInv'
<2>1. run[r].tag \in Md5s
  BY <1>6 DEF BeginPut
<2>2. /\ ReportMd5(run[r].tag) /\ SetStep(r, "copying")
      /\ \E data \in {storedData, Torn} : StoreData(data)
      /\ UNCHANGED <<objectVars, clientUnchanged>>
  BY <1>6 DEF BeginPut, PutMd5File
<2>3. /\ storedData' \in Tags \cup {NoTag, Torn}
      /\ tainted' \subseteq Tags \cup {NoTag}
  BY <1>d, <2>2
<2>4. /\ storedMd5' \in Tags \cup {NoTag}
      /\ everStored' \subseteq Md5s
  BY <1>m, <2>1, <2>2
<2>5. run' \in [Runs -> RunRecords] /\ RunHasTarball'
  BY <1>s, <1>6, <2>2 DEF RunSteps, BeginPut
<2> QED
  BY <2>2, <2>3, <2>4, <2>5
<1>7. ASSUME NEW r \in Runs, FinishPut(r) \/ CopyCutOff(r) PROVE TypeInv'
  BY <1>7, <1>s, <1>d DEF FinishPut, CopyCutOff, PutDataFile, RunSteps, Tags
<1>8. ASSUME NEW r \in Runs, Annotate(r) \/ RunFails(r) PROVE TypeInv'
  BY <1>8, <1>s DEF Annotate, RunFails, Active, RunSteps
<1> QED
  BY <1>1, <1>2, <1>3, <1>4, <1>5, <1>6, <1>7, <1>8 DEF ClientNext, RunStep

\* Every variable keeps its type, and the worker handles only objects with a
\* build: the shapes of the records that the API server, the informers, the
\* SCI and the CLI exchange.
THEOREM TypeCorrect == Spec => []TypeOK
<1>1. TypeInv /\ [Next]_vars => TypeInv'
  BY ClusterType, ReconcilerType, ClientType
  DEF Next, vars, TypeInv, TypeOK, WorkerHasBuild, FreshCopies, RunHasTarball
<1>2. TypeInv => TypeOK
  BY DEF TypeInv
<1> QED
  BY TypeInit, <1>1, <1>2, PTL DEF Spec
=============================================================================
