-------------------------- MODULE BuildSafetyProofs --------------------------
(***************************************************************************)
(* The safety of the build, from type correctness: images are released     *)
(* after they are pushed and for the build that is asked for, uploads are  *)
(* verified before they are built, Jobs are deleted only when unwanted,    *)
(* and BuildSystem implements BuildContract.  Then the uploads: a status   *)
(* is one request's, runs that do not overlap use their own URLs, and with *)
(* signed uploads a released image holds what its tag names.               *)
(***************************************************************************)
EXTENDS BuildSystemProofs

\* A succeeded Job, the cached copy of one and a worker that has seen one
\* name an image that is in the registry.
PushedWhenDone ==
  /\ job.state = "succeeded" => registry[job.tag] # NoTag
  /\ jobCache.state = "succeeded" => registry[jobCache.tag] # NoTag
  /\ pc = "setImage" => registry[worker.spec.tag] # NoTag
  /\ ImageIsBuilt

\* What the worker has verified, and what a Job builds, the storage has
\* reported.
ReportedByStorage ==
  /\ storedMd5 # NoTag => storedMd5 \in everStored
  /\ pc \in {"writeUploaded", "job"} /\ worker.spec.tag \in Md5s
       => worker.spec.tag \in everStored
  /\ VerifiedBeforeBuild

\* A Job is created only while the cache holds none, so an out-of-date cached
\* Job has the tag of the Job in the API server, if there still is one.
CachedJobTag == jobCache # NoJob /\ job # NoJob => jobCache.tag = job.tag

BuildInv == TypeInv /\ PushedWhenDone /\ ReportedByStorage /\ CachedJobTag

USE DEF PushedWhenDone, ReportedByStorage, CachedJobTag, ImageIsBuilt,
        VerifiedBeforeBuild, objectVars, jobVars, workerVars, storageVars,
        clientUnchanged

\* The facts about types that the steps below need.
LEMMA TypeFacts ==
  ASSUME TypeInv
  PROVE  /\ obj.spec \in Specs /\ worker.spec \in Specs
         /\ obj.spec.image \in Tags \cup {NoTag}
         /\ registry \in [Tags -> Tags \cup {NoTag}]
         /\ job \in Jobs /\ jobCache \in Jobs
         /\ pc # "idle" => worker.spec.tag \in Tags
         /\ pc = "upload" => worker.spec.tag \in Md5s
         /\ pc # "idle" /\ worker.spec.src # "upload" => worker.spec.tag \in GitRefs
         /\ NoTag \notin Tags
<1>1. obj.spec \in Specs /\ worker.spec \in Specs
  BY DEF TypeInv, TypeOK, Objects
<1>2. pc # "idle" /\ worker.spec.src # "upload" => worker.spec.tag \in GitRefs
  BY <1>1, ConstantsAssumption DEF TypeInv, WorkerHasBuild, Specs, Sources
<1> QED
  BY <1>1, <1>2, SpecTags, ConstantsAssumption
  DEF TypeInv, TypeOK, WorkerHasBuild, Specs, Tags

LEMMA BuildInit == Init => BuildInv
  BY TypeInit, ConstantsAssumption
  DEF Init, ClusterInit, ReconcilerInit, StorageInit, BuildInv, NewObject, NoJob,
      Tags

\* Steps of the informers, the Job controller, kaniko and the kind's
\* controller.
LEMMA ClusterBuild == BuildInv /\ ClusterNext => BuildInv'
<1> SUFFICES ASSUME BuildInv, ClusterNext
             PROVE  PushedWhenDone' /\ ReportedByStorage' /\ CachedJobTag'
  BY ClusterType DEF BuildInv
<1>0. TypeInv
  BY DEF BuildInv
<1>1. CASE SyncObject
  BY <1>1 DEF SyncObject, BuildInv
<1>2. CASE SyncJob
  BY <1>2 DEF SyncJob, BuildInv
<1>3. CASE FetchContext
  BY <1>3 DEF FetchContext, BuildInv
<1>p. ASSUME NEW t \in Tags, NEW c \in Tags, registry' = [registry EXCEPT ![t] = c]
      PROVE  \A u \in Tags : registry[u] # NoTag => registry'[u] # NoTag
  BY <1>p, <1>0, TypeFacts
<1>4. CASE PushImage
<2>1. /\ job.tag \in Tags /\ context \in Tags
      /\ registry' = [registry EXCEPT ![job.tag] = context]
      /\ job'.state = "succeeded" /\ job'.tag = job.tag /\ job # NoJob
      /\ UNCHANGED <<obj, jobCache, pc, worker, storedMd5, everStored>>
  BY <1>4, <1>0, TypeFacts DEF PushImage, Jobs, NoJob
<2>2. registry'[job.tag] # NoTag
  BY <2>1, <1>0, TypeFacts
<2> QED
  BY <2>1, <2>2, <1>p, <1>0, TypeFacts DEF BuildInv, Jobs, NoJob
<1>5. CASE PodFails
  BY <1>5, <1>0, TypeFacts DEF PodFails, BuildInv, Jobs, NoJob
<1>6. ASSUME NEW p \in orphans, OrphanFetches(p) \/ OrphanDies(p)
      PROVE  PushedWhenDone' /\ ReportedByStorage' /\ CachedJobTag'
  BY <1>6 DEF OrphanFetches, OrphanDies, BuildInv
<1>7. ASSUME NEW p \in orphans, OrphanPushes(p)
      PROVE  PushedWhenDone' /\ ReportedByStorage' /\ CachedJobTag'
<2>1. /\ p.tag \in Tags /\ p.context \in Tags
      /\ registry' = [registry EXCEPT ![p.tag] = p.context]
      /\ UNCHANGED <<obj, job, jobCache, pc, worker, storedMd5, everStored>>
  BY <1>7 DEF OrphanPushes, BuildInv, TypeInv, TypeOK, Pods
<2> QED
  BY <2>1, <1>p, <1>0, TypeFacts DEF BuildInv, Jobs, NoJob
<1>8. CASE KindMarksReady \/ KindMarksUnready
<2>1. /\ obj'.spec = obj.spec
      /\ UNCHANGED <<job, jobCache, registry, pc, worker, storedMd5, everStored>>
  BY <1>8 DEF KindMarksReady, KindMarksUnready, Store, BuildInv, TypeInv, TypeOK,
              Objects
<2> QED
  BY <2>1 DEF BuildInv
<1> QED
  BY <1>1, <1>2, <1>3, <1>4, <1>5, <1>6, <1>7, <1>8 DEF ClusterNext

\* Steps of the BuildReconciler.
LEMMA ReconcilerBuild == BuildInv /\ ReconcilerNext => BuildInv'
<1> SUFFICES ASSUME BuildInv, ReconcilerNext
             PROVE  PushedWhenDone' /\ ReportedByStorage' /\ CachedJobTag'
  BY ReconcilerType DEF BuildInv
<1>0. TypeInv
  BY DEF BuildInv
<1>1. CASE Reconcile
<2>1. CASE cache.spec.src = "none" \/ cache.spec.image = cache.spec.tag
  BY <1>1, <2>1 DEF Reconcile, BuildInv
<2>2. CASE ~(cache.spec.src = "none" \/ cache.spec.image = cache.spec.tag)
  <3>1. pc' \in {"upload", "job"} /\ worker' = cache
        /\ (pc' = "job" => cache.spec.src \notin {"none", "upload"})
    BY <1>1, <2>2 DEF Reconcile
  <3>2. pc' = "job" => cache.spec.tag \notin Md5s
    BY <3>1, <1>0, ConstantsAssumption DEF TypeInv, TypeOK, Objects, Specs, Sources
  <3> QED
    BY <1>1, <3>1, <3>2 DEF Reconcile, BuildInv
<2> QED
  BY <2>1, <2>2
<1>2. ASSUME NEW status, CheckedUpload(status, "writeUploaded"),
             storedMd5 = worker.spec.tag, pc = "upload"
      PROVE  PushedWhenDone' /\ ReportedByStorage' /\ CachedJobTag'
<2>1. worker'.spec = worker.spec
  BY <1>2, <1>0 DEF CheckedUpload, TypeInv, TypeOK, Objects
<2>2. worker.spec.tag \in everStored
  BY <1>2, <1>0, TypeFacts, ConstantsAssumption DEF BuildInv
<2> QED
  BY <1>2, <2>1, <2>2 DEF CheckedUpload, BuildInv
<1>3. CASE FoundExisting \/ VerifyUpload
  BY <1>2, <1>3 DEF FoundExisting, VerifyUpload
<1>4. CASE OfferURL
  BY <1>4 DEF OfferURL, CheckedUpload, BuildInv
<1>5. CASE NotYetUploaded
  BY <1>5 DEF NotYetUploaded, Return, BuildInv
<1>6. CASE CreateJob
<2>1. job' = job \/ job' = [tag |-> worker.spec.tag, state |-> "running"]
  BY <1>6 DEF CreateJob
<2> QED
  BY <1>6, <2>1 DEF CreateJob, BuildInv
<1>7. CASE RecreateJob
  BY <1>7, <1>0, TypeFacts, ConstantsAssumption
  DEF RecreateJob, Return, BuildInv, NoJob, Tags
<1>8. CASE JobNotComplete
  BY <1>8 DEF JobNotComplete, BuildInv
<1>9. CASE JobComplete
  BY <1>9 DEF JobComplete, BuildInv
<1>10. CASE WriteUploaded
<2>1. "worker" \in fresh /\ obj'.spec = obj.spec /\ worker' = obj' /\ pc' = "job"
      /\ pc = "writeUploaded"
  BY <1>10, <1>0 DEF WriteUploaded, WriteStatus, Store, TypeInv, TypeOK, Objects
<2>2. worker'.spec = worker.spec
  BY <2>1, <1>0 DEF TypeInv, FreshCopies
<2> QED
  BY <1>10, <2>1, <2>2 DEF WriteUploaded, WriteStatus, BuildInv
<1>11. ASSUME NEW step, WriteStatusAndReturn(step)
       PROVE  PushedWhenDone' /\ ReportedByStorage' /\ CachedJobTag'
<2>1. obj'.spec = obj.spec
  BY <1>11, <1>0 DEF WriteStatusAndReturn, TypeInv, TypeOK, Objects
<2> QED
  BY <1>11, <2>1 DEF WriteStatusAndReturn, Return, BuildInv
<1>12. CASE SetImage
<2>1. obj'.spec.image = worker.spec.tag
  BY <1>12, <1>0 DEF SetImage, Store, TypeInv, TypeOK, Objects, Specs
<2> QED
  BY <1>12, <2>1 DEF SetImage, BuildInv
<1>13. CASE Conflict
  BY <1>13 DEF Conflict, Return, BuildInv
<1>14. CASE CallFails
  BY <1>14 DEF CallFails, Return, BuildInv
<1>15. CASE Restart
  BY <1>15 DEF Restart, Return, BuildInv
<1> QED
  BY <1>1, <1>3, <1>4, <1>5, <1>6, <1>7, <1>8, <1>9, <1>10, <1>11, <1>12, <1>13,
     <1>14, <1>15
  DEF ReconcilerNext, WorkerStep, WriteURL, WriteWaiting, WriteBuilt

\* Steps of the CLI runs.
LEMMA ClientBuild == BuildInv /\ ClientNext => BuildInv'
<1> SUFFICES ASSUME BuildInv, ClientNext
             PROVE  PushedWhenDone' /\ ReportedByStorage' /\ CachedJobTag'
  BY ClientType DEF BuildInv
<1>0. TypeInv
  BY DEF BuildInv
<1>1. UNCHANGED <<job, jobCache, registry, pc, worker>>
  BY DEF ClientNext, RunStep, Apply, ApplyGit, SkipUpload, ReceiveURL, Put,
         PutAnswerLost, BeginPut, FinishPut, CopyCutOff, Annotate,
         RunFails
<1>2. obj'.spec.image \in {NoTag, obj.spec.image}
<2>1. ASSUME NEW r \in Runs, NEW md5 \in Md5s, Apply(r, md5)
      PROVE  obj'.spec.image = NoTag
  BY <2>1, <1>0 DEF Apply, Store, TypeInv, TypeOK, Objects
<2>2. ASSUME NEW ref \in GitRefs, ApplyGit(ref)
      PROVE  obj'.spec.image = obj.spec.image
  <3>1. obj' = [obj EXCEPT !.spec = [obj.spec EXCEPT !.src = "git", !.tag = ref,
                                                     !.req = NoRun]]
    BY <2>2, <1>0 DEF ApplyGit, Store, TypeInv, TypeOK, Objects
  <3> QED
    BY <3>1, <1>0 DEF TypeInv, TypeOK, Objects, Specs
<2>3. ASSUME NEW r \in Runs, RunStep(r) \/ PutAnswerLost(r) \/ CopyCutOff(r) \/ RunFails(r)
      PROVE  obj' = obj
  BY <2>3 DEF RunStep, SkipUpload, ReceiveURL, Put, PutAnswerLost, BeginPut,
              FinishPut, CopyCutOff, Annotate, RunFails
<2> QED
  BY <2>1, <2>2, <2>3 DEF ClientNext
<1>3. \/ UNCHANGED <<storedMd5, everStored>>
      \/ storedMd5' \in everStored' /\ everStored \subseteq everStored'
  BY DEF ClientNext, RunStep, Apply, ApplyGit, SkipUpload, ReceiveURL, Put,
         PutAnswerLost, BeginPut, FinishPut, CopyCutOff, Annotate,
         RunFails, PutObject,
         PutMd5File, PutDataFile, ReportMd5
<1> QED
  BY <1>1, <1>2, <1>3 DEF BuildInv

LEMMA BuildStep == BuildInv /\ [Next]_vars => BuildInv'
<1> SUFFICES ASSUME BuildInv, [Next]_vars PROVE BuildInv'
  OBVIOUS
<1>1. CASE UNCHANGED vars
  BY <1>1 DEF vars, BuildInv, TypeInv, TypeOK, WorkerHasBuild, FreshCopies,
              RunHasTarball
<1> QED
  BY <1>1, ClusterBuild, ReconcilerBuild, ClientBuild DEF Next

\* What a release rests on at every moment: a Job that succeeded, as the API
\* server or the worker's cache has it, has pushed its image, and the checksum
\* the worker builds for is one the storage has reported.
THEOREM BuildInvariant == Spec => []BuildInv
  BY BuildInit, BuildStep, PTL DEF Spec

\* The workload controllers never see an image that was not pushed.
THEOREM ReleasedImageExists == Spec => []ImageIsBuilt
<1>1. BuildInv => ImageIsBuilt
  BY DEF BuildInv
<1> QED
  BY <1>1, BuildInvariant, PTL

\* The reconciler creates Jobs only for checksums the storage has reported.
THEOREM BuildsAreVerified == Spec => []VerifiedBeforeBuild
<1>1. BuildInv => VerifiedBeforeBuild
  BY DEF BuildInv
<1> QED
  BY <1>1, BuildInvariant, PTL

(***************************************************************************)
(* What a step does to the spec and to the images that are pushed: enough  *)
(* for ImageOfCurrentBuild and for the refinement of BuildContract.        *)
(***************************************************************************)
AppliedUpload(spec) ==
  \E r \in Runs, md5 \in Md5s :
    spec = [src |-> "upload", tag |-> md5, req |-> r, image |-> NoTag]

AppliedGit(spec) ==
  \E ref \in GitRefs : spec = [obj.spec EXCEPT !.src = "git", !.tag = ref,
                                               !.req = NoRun]

ReleasedImage(spec) ==
  /\ obj.spec.tag \in Tags
  /\ registry[obj.spec.tag] # NoTag
  /\ spec = [obj.spec EXCEPT !.image = obj.spec.tag]

LEMMA ClusterSpec ==
  ASSUME BuildInv, ClusterNext
  PROVE  /\ obj'.spec = obj.spec
         /\ \/ registry' = registry
            \/ \E t, c \in Tags : registry' = [registry EXCEPT ![t] = c]
<1>0. TypeInv
  BY DEF BuildInv
<1>1. CASE SyncObject \/ SyncJob \/ FetchContext \/ PodFails
  BY <1>1 DEF SyncObject, SyncJob, FetchContext, PodFails
<1>2. CASE PushImage
<2>1. job.tag \in Tags
  BY <1>2, <1>0, TypeFacts DEF PushImage, Jobs, NoJob
<2> QED
  BY <1>2, <2>1 DEF PushImage
<1>3. ASSUME NEW p \in orphans, OrphanFetches(p) \/ OrphanDies(p)
      PROVE  UNCHANGED <<obj, registry>>
  BY <1>3 DEF OrphanFetches, OrphanDies
<1>4. ASSUME NEW p \in orphans, OrphanPushes(p)
      PROVE  /\ obj' = obj
             /\ \E t, c \in Tags : registry' = [registry EXCEPT ![t] = c]
  BY <1>4, <1>0 DEF OrphanPushes, TypeInv, TypeOK, Pods
<1>5. CASE KindMarksReady \/ KindMarksUnready
  BY <1>5, <1>0 DEF KindMarksReady, KindMarksUnready, Store, TypeInv, TypeOK, Objects
<1> QED
  BY <1>1, <1>2, <1>3, <1>4, <1>5 DEF ClusterNext

LEMMA ReconcilerSpec ==
  ASSUME BuildInv, ReconcilerNext
  PROVE  /\ registry' = registry
         /\ obj'.spec = obj.spec \/ ReleasedImage(obj'.spec)
<1>0. TypeInv
  BY DEF BuildInv
<1>1. CASE \/ Reconcile \/ FoundExisting \/ OfferURL \/ VerifyUpload
           \/ NotYetUploaded \/ CreateJob \/ RecreateJob \/ JobNotComplete
           \/ JobComplete \/ Conflict \/ CallFails \/ Restart
  BY <1>1 DEF Reconcile, FoundExisting, OfferURL, VerifyUpload, CheckedUpload,
              NotYetUploaded, CreateJob, RecreateJob, JobNotComplete, JobComplete,
              Conflict, CallFails, Restart
<1>2. CASE WriteUploaded \/ WriteURL \/ WriteWaiting \/ WriteBuilt
  BY <1>2, <1>0 DEF WriteUploaded, WriteURL, WriteWaiting, WriteBuilt, WriteStatus,
                    WriteStatusAndReturn, Store, TypeInv, TypeOK, Objects
<1>3. CASE SetImage
<2>1. worker.spec = obj.spec
  BY <1>3, <1>0 DEF SetImage, TypeInv, FreshCopies
<2>2. obj'.spec = [worker.spec EXCEPT !.image = worker.spec.tag]
  BY <1>3, <1>0 DEF SetImage, Store, TypeInv, TypeOK, Objects
<2>3. obj.spec.tag \in Tags /\ registry[obj.spec.tag] # NoTag
  BY <1>3, <2>1, <1>0, TypeFacts DEF SetImage, BuildInv
<2> QED
  BY <1>3, <2>1, <2>2, <2>3 DEF SetImage, ReleasedImage
<1> QED
  BY <1>1, <1>2, <1>3 DEF ReconcilerNext, WorkerStep

LEMMA ClientSpec ==
  ASSUME BuildInv, ClientNext
  PROVE  /\ registry' = registry
         /\ \/ obj'.spec = obj.spec
            \/ AppliedUpload(obj'.spec)
            \/ AppliedGit(obj'.spec)
<1>0. TypeInv
  BY DEF BuildInv
<1>1. ASSUME NEW r \in Runs, NEW md5 \in Md5s, Apply(r, md5)
      PROVE  AppliedUpload(obj'.spec)
  BY <1>1, <1>0 DEF Apply, Store, TypeInv, TypeOK, Objects, AppliedUpload
<1>2. ASSUME NEW ref \in GitRefs, ApplyGit(ref)
      PROVE  AppliedGit(obj'.spec)
<2>1. obj' = [obj EXCEPT !.spec = [obj.spec EXCEPT !.src = "git", !.tag = ref,
                                                   !.req = NoRun]]
  BY <1>2, <1>0 DEF ApplyGit, Store, TypeInv, TypeOK, Objects
<2> QED
  BY <2>1, <1>0 DEF TypeInv, TypeOK, Objects, AppliedGit
<1>3. ASSUME NEW r \in Runs, RunStep(r) \/ PutAnswerLost(r) \/ CopyCutOff(r) \/ RunFails(r)
      PROVE  obj' = obj
  BY <1>3 DEF RunStep, SkipUpload, ReceiveURL, Put, PutAnswerLost, BeginPut,
              FinishPut, CopyCutOff, Annotate, RunFails
<1>4. registry' = registry
  BY DEF ClientNext, RunStep, Apply, ApplyGit, SkipUpload, ReceiveURL, Put,
         PutAnswerLost, BeginPut, FinishPut, CopyCutOff, Annotate,
         RunFails
<1> QED
  BY <1>1, <1>2, <1>3, <1>4 DEF ClientNext

\* A build that finishes late never puts its image over a newer request.
THEOREM NewerRequestWins == Spec => ImageOfCurrentBuild
<1> DEFINE Wins == obj'.spec.image \notin {NoTag, obj.spec.image}
                     => obj'.spec.image = obj'.spec.tag /\ obj'.spec.tag = obj.spec.tag
<1>1. BuildInv /\ [Next]_vars => [Wins]_vars
<2> SUFFICES ASSUME BuildInv, Next PROVE Wins
  OBVIOUS
<2>0. obj.spec \in Specs
  BY TypeFacts DEF BuildInv
<2>1. CASE ClusterNext
  BY <2>1, ClusterSpec
<2>2. CASE ReconcilerNext
  BY <2>2, <2>0, ReconcilerSpec DEF ReleasedImage, Specs
<2>3. CASE ClientNext
  <3>1. AppliedGit(obj'.spec) => obj'.spec.image = obj.spec.image
    BY <2>0 DEF AppliedGit, Specs
  <3>2. AppliedUpload(obj'.spec) => obj'.spec.image = NoTag
    BY DEF AppliedUpload
  <3> QED
    BY <2>3, <3>1, <3>2, ClientSpec
<2> QED
  BY <2>1, <2>2, <2>3 DEF Next
<1> QED
  BY <1>1, BuildInvariant, PTL DEF Spec, ImageOfCurrentBuild

\* However stale the copy of the Job it goes by, the worker never deletes a
\* Job that builds the tag it is looking for.
THEOREM WantedJobSurvives == Spec => NeverDeletesWantedJob
<1> DEFINE Survives ==
      pc = "job" /\ pc' # "job" /\ job # NoJob /\ job.tag = worker.spec.tag
        => job' = job /\ orphans' = orphans
<1>1. BuildInv /\ [Next]_vars => [Survives]_vars
<2> SUFFICES ASSUME BuildInv, Next, pc = "job", pc' # "job", job # NoJob,
                    job.tag = worker.spec.tag
             PROVE  job' = job /\ orphans' = orphans
  OBVIOUS
<2>1. ~RecreateJob
  BY DEF RecreateJob, BuildInv
<2>2. ~ClusterNext
  BY DEF ClusterNext, SyncObject, SyncJob, FetchContext, PushImage, PodFails,
         OrphanFetches, OrphanPushes, OrphanDies, KindMarksReady, KindMarksUnready,
         workerVars
<2>3. ~ClientNext
  BY DEF ClientNext, RunStep, Apply, ApplyGit, SkipUpload, ReceiveURL, Put,
         PutAnswerLost, BeginPut, FinishPut, CopyCutOff, Annotate,
         RunFails, clientUnchanged, workerVars
<2>4. CASE CreateJob
  BY <2>4 DEF CreateJob
<2>5. CASE JobNotComplete \/ JobComplete \/ CallFails \/ Restart
  BY <2>5 DEF JobNotComplete, JobComplete, CallFails, Restart, jobVars
<2>6. ReconcilerNext => \/ RecreateJob \/ CreateJob \/ JobNotComplete
                        \/ JobComplete \/ CallFails \/ Restart
  BY DEF ReconcilerNext, WorkerStep, Reconcile, FoundExisting, OfferURL,
         VerifyUpload, NotYetUploaded, WriteUploaded, WriteURL, WriteWaiting,
         WriteBuilt, WriteStatus, WriteStatusAndReturn, SetImage, Conflict,
         WritingStatus
<2> QED
  BY <2>1, <2>2, <2>3, <2>4, <2>5, <2>6 DEF Next
<1> QED
  BY <1>1, BuildInvariant, PTL DEF Spec, NeverDeletesWantedJob

(***************************************************************************)
(* Refinement of BuildContract.                                            *)
(***************************************************************************)
Want == [src |-> obj.spec.src, tag |-> obj.spec.tag, req |-> obj.spec.req]

Pushed == {t \in Tags : registry[t] # NoTag}

LEMMA ContractInit == Init => Contract!Init
  BY DEF Init, ClusterInit, NewObject, Contract!Init

LEMMA ContractStep == BuildInv /\ [Next]_vars => [Contract!Next]_(Contract!contractVars)
<1> SUFFICES ASSUME BuildInv, [Next]_vars
             PROVE  Contract!Next \/ UNCHANGED <<Want, obj.spec.image, Pushed>>
  BY DEF Contract!contractVars, Want, Pushed
<1>0. obj.spec \in Specs /\ registry \in [Tags -> Tags \cup {NoTag}] /\ NoTag \notin Tags
  BY TypeFacts DEF BuildInv
<1>1. CASE UNCHANGED vars
  BY <1>1 DEF vars, Want, Pushed
<1>2. ASSUME NEW t \in Tags, NEW c \in Tags, obj'.spec = obj.spec,
             registry' = [registry EXCEPT ![t] = c]
      PROVE  Contract!Push
<2>1. Pushed' = Pushed \cup {t}
  BY <1>0, <1>2 DEF Pushed
<2> QED
  BY <1>2, <2>1 DEF Contract!Push, Pushed, Tags
<1>3. CASE ClusterNext
  BY <1>2, <1>3, ClusterSpec DEF Want, Pushed, Contract!Next
<1>4. CASE ReconcilerNext
<2>1. CASE obj'.spec = obj.spec
  BY <1>4, <2>1, ReconcilerSpec DEF Want, Pushed
<2>2. CASE ReleasedImage(obj'.spec)
  <3>1. registry' = registry
    BY <1>4, ReconcilerSpec
  <3> QED
    BY <1>0, <2>2, <3>1 DEF ReleasedImage, Specs, Contract!Next, Contract!Release
<2> QED
  BY <1>4, <2>1, <2>2, ReconcilerSpec
<1>5. CASE ClientNext
<2>1. CASE obj'.spec = obj.spec
  BY <1>5, <2>1, ClientSpec DEF Want, Pushed
<2>2. CASE AppliedUpload(obj'.spec)
  BY <1>5, <2>2, ClientSpec
  DEF AppliedUpload, Contract!Next, Contract!Ask, Contract!Wants
<2>3. CASE AppliedGit(obj'.spec)
  <3>1. PICK ref \in GitRefs : obj'.spec = [obj.spec EXCEPT !.src = "git",
                                               !.tag = ref, !.req = NoRun]
    BY <2>3 DEF AppliedGit
  <3>2. /\ obj'.spec.src = "git" /\ obj'.spec.tag = ref /\ obj'.spec.req = NoRun
        /\ obj'.spec.image = obj.spec.image /\ registry' = registry
    BY <1>0, <1>5, <3>1, ClientSpec DEF Specs
  <3> QED
    BY <3>2 DEF Contract!Next, Contract!Ask, Contract!Wants
<2> QED
  BY <1>5, <2>1, <2>2, <2>3, ClientSpec
<1> QED
  BY <1>1, <1>3, <1>4, <1>5 DEF Next

\* The build of an object, with all its interleavings, faults and retries,
\* is an implementation of the contract.
THEOREM ImplementsContract == Spec => RefinesContract
  BY BuildInvariant, ContractInit, ContractStep, PTL
  DEF Spec, RefinesContract, Contract!Spec

USE DEF objectVars, jobVars, workerVars, storageVars, clientUnchanged

(***************************************************************************)
(* Requests.  A request ID stands for one run, and a run keeps its tarball *)
(* once it has applied it: every copy of the object, the one that a worker *)
(* is about to write among them, pairs a request with that run's tarball.  *)
(***************************************************************************)
OwnRequest(runs, spec) ==
  /\ spec.src = "upload" <=> spec.req # NoRun
  /\ spec.req # NoRun => runs[spec.req].step # "new" /\ runs[spec.req].tag = spec.tag

OwnAnswer(runs, status) ==
  IF status.req = NoRun
    THEN status.url = NoTag
    ELSE /\ runs[status.req].step # "new"
         /\ status.url \in {NoTag, runs[status.req].tag}
         /\ status.stored \in {NoTag, runs[status.req].tag}

RequestInv ==
  \A o \in {obj, cache, worker} : OwnRequest(run, o.spec) /\ OwnAnswer(run, o.status)

\* What a step may do to the runs.
RunsGoOn ==
  \A r \in Runs : run[r].step # "new" =>
    run'[r].step # "new" /\ run'[r].tag = run[r].tag

LEMMA RequestInit == Init => RequestInv
BY DEF Init, ClusterInit, ReconcilerInit, NewObject, RequestInv, OwnRequest, OwnAnswer

\* The part of a spec, and of a status, that is about requests.
SameRequest(s, t) == s.src = t.src /\ s.req = t.req /\ s.tag = t.tag
SameAnswer(s, t)  == s.req = t.req /\ s.url = t.url /\ s.stored = t.stored

LEMMA RequestTypes ==
  ASSUME TypeInv
  PROVE  /\ \A o \in {obj, cache, worker} : o.spec \in Specs /\ o.status \in Statuses
         /\ \A o \in {obj, cache, worker} : o.spec.req \in Runs \cup {NoRun}
         /\ \A o \in {obj, cache, worker} : o.status.req \in Runs \cup {NoRun}
         /\ obj \in Objects /\ cache \in Objects /\ worker \in Objects
BY DEF TypeInv, TypeOK, Objects, Specs, Statuses

\* A spec or status that is carried over keeps its run.
LEMMA RequestCarried ==
  ASSUME TypeInv, RequestInv, RunsGoOn, NEW o \in {obj, cache, worker}, NEW spec,
         SameRequest(spec, o.spec)
  PROVE  OwnRequest(run', spec)
BY RequestTypes DEF RequestInv, RunsGoOn, OwnRequest, SameRequest

LEMMA AnswerCarried ==
  ASSUME TypeInv, RequestInv, RunsGoOn, NEW o \in {obj, cache, worker}, NEW status,
         SameAnswer(status, o.status)
  PROVE  OwnAnswer(run', status)
BY RequestTypes DEF RequestInv, RunsGoOn, OwnAnswer, SameAnswer

\* So a step that changes no request and no answer is harmless.
LEMMA CopiesCarried ==
  ASSUME TypeInv, RequestInv, RunsGoOn,
         \A p \in {obj', cache', worker'} :
           p = NewObject \/ \E o \in {obj, cache, worker} : p = o
  PROVE  RequestInv'
<1>1. OwnRequest(run', NewObject.spec) /\ OwnAnswer(run', NewObject.status)
  BY DEF NewObject, OwnRequest, OwnAnswer
<1>2. ASSUME NEW p \in {obj', cache', worker'}
      PROVE  OwnRequest(run', p.spec) /\ OwnAnswer(run', p.status)
  BY <1>1, RequestCarried, AnswerCarried DEF SameRequest, SameAnswer
<1> QED
  BY <1>2 DEF RequestInv

LEMMA RunsOfCluster ==
  ASSUME ClusterNext \/ ReconcilerNext
  PROVE  run' = run
BY DEF ClusterNext, SyncObject, SyncJob, FetchContext, PushImage, PodFails, OrphanFetches,
       OrphanPushes, OrphanDies, KindMarksReady, KindMarksUnready, ReconcilerNext, WorkerStep,
       Reconcile, FoundExisting, OfferURL, VerifyUpload, CheckedUpload, NotYetUploaded, CreateJob,
       RecreateJob, JobNotComplete, JobComplete, WriteUploaded, WriteURL, WriteWaiting, WriteBuilt,
       WriteStatus, WriteStatusAndReturn, SetImage, Conflict, CallFails, Restart

LEMMA ClusterRequests ==
  ASSUME TypeInv, RequestInv, ClusterNext
  PROVE  RequestInv'
<1>0. RunsGoOn
  BY RunsOfCluster DEF RunsGoOn
<1>1. worker' = worker
  BY DEF ClusterNext, SyncObject, SyncJob, FetchContext, PushImage, PodFails, OrphanFetches,
         OrphanPushes, OrphanDies, KindMarksReady, KindMarksUnready
<1>2. CASE UNCHANGED obj /\ cache' \in {cache, obj}
  BY <1>0, <1>1, <1>2, CopiesCarried
<1>3. ASSUME KindMarksReady \/ KindMarksUnready
      PROVE  RequestInv'
  <2>1. SameRequest(obj'.spec, obj.spec) /\ SameAnswer(obj'.status, obj.status)
    BY <1>3, RequestTypes DEF KindMarksReady, KindMarksUnready, Store, Objects, Statuses,
                SameRequest, SameAnswer
  <2>2. cache' = cache
    BY <1>3 DEF KindMarksReady, KindMarksUnready
  <2>3. OwnRequest(run', obj'.spec) /\ OwnAnswer(run', obj'.status)
    BY <1>0, <2>1, RequestCarried, AnswerCarried
  <2> QED
    BY <1>1, <2>2, <2>3, RunsOfCluster DEF RequestInv
<1> QED
  BY <1>2, <1>3
  DEF ClusterNext, SyncObject, SyncJob, FetchContext, PushImage, PodFails, OrphanFetches,
      OrphanPushes, OrphanDies

LEMMA ReconcilerRequests ==
  ASSUME TypeInv, RequestInv, ReconcilerNext
  PROVE  RequestInv'
<1>0. RunsGoOn /\ run' = run
  BY RunsOfCluster DEF RunsGoOn
<1>1. CASE \/ Reconcile \/ NotYetUploaded \/ RecreateJob \/ JobComplete \/ Conflict
           \/ CallFails \/ Restart
  <2>1. /\ obj' = obj /\ cache' \in {cache, obj}
        /\ worker' \in {worker, cache, NewObject}
    BY <1>1 DEF Reconcile, NotYetUploaded, RecreateJob, JobComplete, Conflict, CallFails,
                Restart, Return
  <2> QED
    BY <1>0, <2>1, CopiesCarried
\* The worker's copy gets another status.
<1>2. ASSUME NEW status, worker'.spec = worker.spec, worker'.status = status,
             OwnAnswer(run, status), UNCHANGED <<obj, cache>>
      PROVE  RequestInv'
  BY <1>0, <1>2 DEF RequestInv
<1>u. CASE pc = "upload" /\ (FoundExisting \/ OfferURL \/ VerifyUpload)
  <2>1. worker.spec.src = "upload" /\ worker.spec.req \in Runs
    BY <1>u, RequestTypes DEF TypeInv, WorkerHasBuild, RequestInv, OwnRequest
  <2>2. OwnRequest(run, worker.spec)
    BY DEF RequestInv
  <2>3. worker.status \in Statuses /\ worker \in Objects
    BY RequestTypes
  <2>4. CASE FoundExisting
    <3> DEFINE status == [worker.status EXCEPT !.url = NoTag, !.req = NoRun,
                            !.stored = worker.spec.tag, !.uploaded = "True"]
    <3>1. CheckedUpload(status, "writeUploaded")
      BY <2>4 DEF FoundExisting
    <3>2. status.req = NoRun /\ status.url = NoTag
      BY <2>3 DEF Statuses
    <3> QED
      BY <1>2, <2>3, <3>1, <3>2 DEF CheckedUpload, OwnAnswer, Objects
  <2>5. CASE OfferURL
    <3> DEFINE status == [worker.status EXCEPT !.url = worker.spec.tag,
                            !.req = worker.spec.req, !.stored = NoTag, !.uploaded = "False"]
    <3>1. CheckedUpload(status, "writeURL")
      BY <2>5 DEF OfferURL
    <3>2. /\ status.req = worker.spec.req /\ status.url = worker.spec.tag
          /\ status.stored = NoTag
      BY <2>3 DEF Statuses
    <3>3. OwnAnswer(run, status)
      BY <2>1, <2>2, <3>2, ConstantsAssumption DEF OwnAnswer, OwnRequest
    <3> QED
      BY <1>2, <2>3, <3>1, <3>3 DEF CheckedUpload, Objects
  <2>6. CASE VerifyUpload
    <3> DEFINE status == [worker.status EXCEPT !.url = NoTag, !.req = worker.spec.req,
                            !.stored = worker.spec.tag, !.uploaded = "True"]
    <3>1. CheckedUpload(status, "writeUploaded")
      BY <2>6 DEF VerifyUpload
    <3>2. /\ status.req = worker.spec.req /\ status.url = NoTag
          /\ status.stored = worker.spec.tag
      BY <2>3 DEF Statuses
    <3>3. OwnAnswer(run, status)
      BY <2>1, <2>2, <3>2, ConstantsAssumption DEF OwnAnswer, OwnRequest
    <3> QED
      BY <1>2, <2>3, <3>1, <3>3 DEF CheckedUpload, Objects
  <2> QED
    BY <1>u, <2>4, <2>5, <2>6
<1>3. CASE CreateJob \/ JobNotComplete
  <2>1. UNCHANGED <<obj, cache>> /\ worker' = Waiting
    BY <1>3 DEF CreateJob, JobNotComplete
  <2>2. worker'.spec = worker.spec /\ SameAnswer(worker'.status, worker.status)
    BY <2>1, RequestTypes DEF Waiting, Objects, Statuses, SameAnswer
  <2> QED
    BY <1>0, <1>2, <2>1, <2>2, AnswerCarried
<1>4. ASSUME NEW p, obj' = [obj EXCEPT !.status = worker.status],
             worker' \in {obj', NewObject}, UNCHANGED cache
      PROVE  RequestInv'
  <2>1. obj'.spec = obj.spec /\ obj'.status = worker.status
    BY <1>4, RequestTypes DEF Objects
  <2>2. OwnRequest(run, NewObject.spec) /\ OwnAnswer(run, NewObject.status)
    BY DEF NewObject, OwnRequest, OwnAnswer
  <2> QED
    BY <1>0, <1>4, <2>1, <2>2 DEF RequestInv
<1>5. CASE WriteUploaded \/ WriteURL \/ WriteWaiting \/ WriteBuilt
  BY <1>4, <1>5 DEF WriteUploaded, WriteURL, WriteWaiting, WriteBuilt, WriteStatus,
                    WriteStatusAndReturn, Store, Return
<1>6. CASE SetImage
  <2>1. /\ obj'.spec = [worker.spec EXCEPT !.image = worker.spec.tag]
        /\ obj'.status = obj.status
        /\ obj' \in Objects
        /\ cache' = cache
    BY <1>6, RequestTypes DEF SetImage, Store, Objects, Specs
  <2>2. SameRequest(obj'.spec, worker.spec)
    BY <2>1, RequestTypes DEF SameRequest, Specs
  <2>3. worker'.spec = obj'.spec /\ SameAnswer(worker'.status, obj.status)
    BY <1>6, <2>1, RequestTypes DEF SetImage, SameAnswer, Objects, Statuses
  <2>4. OwnRequest(run', obj'.spec) /\ OwnAnswer(run', obj'.status) /\ OwnAnswer(run', worker'.status)
    BY <1>0, <2>1, <2>2, <2>3, RequestCarried, AnswerCarried DEF SameAnswer
  <2> QED
    BY <1>0, <2>1, <2>3, <2>4 DEF RequestInv
<1> QED
  BY <1>1, <1>u, <1>3, <1>5, <1>6
  DEF ReconcilerNext, WorkerStep, FoundExisting, OfferURL, VerifyUpload

\* Runs go on from step to step; they get their tarball as they apply.
LEMMA ClientRuns ==
  ASSUME TypeInv, ClientNext
  PROVE  RunsGoOn
<1>1. run \in [Runs -> RunRecords]
  BY DEF TypeInv, TypeOK
<1>2. ASSUME NEW r \in Runs, NEW step \in RunSteps \ {"new"}, SetStep(r, step)
      PROVE  RunsGoOn
  BY <1>1, <1>2 DEF SetStep, RunsGoOn, RunRecords
<1>3. ASSUME NEW r \in Runs, RunStep(r) \/ PutAnswerLost(r) \/ CopyCutOff(r) \/ RunFails(r),
             ~ReceiveURL(r)
      PROVE  RunsGoOn
  BY <1>2, <1>3 DEF RunStep, SkipUpload, Put, PutAnswerLost, BeginPut, FinishPut, CopyCutOff,
                    Annotate, RunFails, RunSteps
<1>4. ASSUME NEW r \in Runs, ReceiveURL(r)
      PROVE  RunsGoOn
  BY <1>1, <1>4 DEF ReceiveURL, RunsGoOn, RunRecords
<1>5. ASSUME NEW r \in Runs, NEW md5 \in Md5s, Apply(r, md5)
      PROVE  RunsGoOn
  BY <1>1, <1>5 DEF Apply, RunsGoOn, RunRecords
<1>6. ASSUME NEW ref \in GitRefs, ApplyGit(ref)
      PROVE  RunsGoOn
  BY <1>6 DEF ApplyGit, RunsGoOn
<1> QED
  BY <1>3, <1>4, <1>5, <1>6 DEF ClientNext

LEMMA ClientRequests ==
  ASSUME TypeInv, RequestInv, ClientNext
  PROVE  RequestInv'
<1>0. RunsGoOn
  BY ClientRuns
<1>1. UNCHANGED <<cache, worker>>
  BY DEF ClientNext, RunStep, Apply, ApplyGit, SkipUpload, ReceiveURL, Put, PutAnswerLost,
         BeginPut, FinishPut, CopyCutOff, Annotate, RunFails
<1>2. CASE obj' = obj
  BY <1>0, <1>1, <1>2, CopiesCarried
<1>3. ASSUME OwnRequest(run', obj'.spec), obj'.status = obj.status
      PROVE  RequestInv'
  <2>1. OwnAnswer(run', obj'.status)
    BY <1>0, <1>3, AnswerCarried DEF SameAnswer
  <2>2. /\ OwnRequest(run', cache.spec) /\ OwnAnswer(run', cache.status)
        /\ OwnRequest(run', worker.spec) /\ OwnAnswer(run', worker.status)
    BY <1>0, RequestCarried, AnswerCarried DEF SameRequest, SameAnswer
  <2> QED
    BY <1>1, <1>3, <2>1, <2>2 DEF RequestInv
<1>4. ASSUME NEW r \in Runs, NEW md5 \in Md5s, Apply(r, md5)
      PROVE  OwnRequest(run', obj'.spec) /\ obj'.status = obj.status
  <2>1. run'[r].step = "watching" /\ run'[r].tag = md5
    BY <1>4 DEF Apply, TypeInv, TypeOK, RunRecords
  <2>2. obj'.spec = [src |-> "upload", tag |-> md5, req |-> r, image |-> NoTag]
        /\ obj'.status = obj.status
    BY <1>4, RequestTypes DEF Apply, Store, Objects
  <2> QED
    BY <2>1, <2>2, ConstantsAssumption DEF OwnRequest
<1>5. ASSUME NEW ref \in GitRefs, ApplyGit(ref)
      PROVE  OwnRequest(run', obj'.spec) /\ obj'.status = obj.status
  <2>1. obj' = [obj EXCEPT !.spec = [obj.spec EXCEPT !.src = "git", !.tag = ref, !.req = NoRun]]
    BY <1>5, RequestTypes DEF ApplyGit, Store, Objects
  <2> QED
    BY <2>1, RequestTypes DEF Objects, Specs, OwnRequest
<1>6. ASSUME NEW r \in Runs, RunStep(r) \/ PutAnswerLost(r) \/ CopyCutOff(r) \/ RunFails(r)
      PROVE  obj' = obj
  BY <1>6 DEF RunStep, SkipUpload, ReceiveURL, Put, PutAnswerLost, BeginPut, FinishPut,
              CopyCutOff, Annotate, RunFails
<1> QED
  BY <1>2, <1>3, <1>4, <1>5, <1>6 DEF ClientNext

LEMMA RequestStep == BuildInv /\ RequestInv /\ [Next]_vars => RequestInv'
<1>1. CASE UNCHANGED vars
  BY <1>1 DEF vars, RequestInv
<1> QED
  BY <1>1, ClusterRequests, ReconcilerRequests, ClientRequests DEF BuildInv, Next

\* Whatever the order of requests, answers, conflicts and restarts, a status
\* speaks of one run's tarball.
THEOREM StatusIsOfOneRequest == Spec => []StatusOfOneRequest
<1>1. RequestInv => StatusOfOneRequest
  BY DEF RequestInv, OwnAnswer, StatusOfOneRequest
<1> QED
  BY <1>1, BuildInvariant, RequestInit, RequestStep, PTL DEF Spec

(***************************************************************************)
(* Without overlap an upload that the spec asks for is that of the run     *)
(* under way, so that the URL which answers it is that run's.              *)
(***************************************************************************)
OneRunInv ==
  /\ \A r, q \in Runs : Active(r) /\ Active(q) => r = q
  /\ \A r \in Runs : Active(r) /\ obj.spec.src = "upload" => obj.spec.req = r
  /\ UploadsToOwnURL

LEMMA OneRunInit == Init => OneRunInv
BY DEF Init, ClientInit, OneRunInv, Active, UploadsToOwnURL

\* Others than the runs leave the request as it is.
LEMMA RequestOfOthers ==
  ASSUME BuildInv, ClusterNext \/ ReconcilerNext
  PROVE  /\ run' = run
         /\ obj'.spec.src = obj.spec.src /\ obj'.spec.req = obj.spec.req
<1>1. obj.spec \in Specs
  BY TypeFacts DEF BuildInv
<1> QED
  BY <1>1, RunsOfCluster, ClusterSpec, ReconcilerSpec DEF ReleasedImage, Specs

\* A run that goes on, or ends, with the URL it has.
LEMMA RunGoesOn ==
  ASSUME TypeInv, OneRunInv, NEW r \in Runs, NEW step \in RunSteps, SetStep(r, step),
         Active(r), obj' = obj,
         step \in {"copying", "stored"} => run[r].step \in {"putting", "copying", "stored"},
         step \notin {"new", "watching", "putting"}
  PROVE  OneRunInv'
<1>1. run \in [Runs -> RunRecords]
  BY DEF TypeInv, TypeOK
<1>2. run' = [run EXCEPT ![r] = [run[r] EXCEPT !.step = step]]
  BY DEF SetStep
<1>3. /\ \A q \in Runs \ {r} : run'[q] = run[q]
      /\ run'[r].step = step /\ run'[r].url = run[r].url /\ run'[r].tag = run[r].tag
  BY <1>1, <1>2 DEF RunRecords
<1>4. \A q \in Runs : Active(q)' => Active(q)
  BY <1>3 DEF Active
<1>5. UploadsToOwnURL'
  BY <1>3 DEF OneRunInv, UploadsToOwnURL
<1> QED
  BY <1>4, <1>5 DEF OneRunInv

LEMMA OneRunStep ==
  ASSUME Overlap = FALSE, BuildInv, RequestInv, OneRunInv, [Next]_vars
  PROVE  OneRunInv'
<1>0. /\ TypeInv
      /\ run \in [Runs -> RunRecords]
  BY DEF BuildInv, TypeInv, TypeOK
<1>1. CASE UNCHANGED vars
  BY <1>1 DEF vars, OneRunInv, Active, UploadsToOwnURL
<1>2. CASE ClusterNext \/ ReconcilerNext
  BY <1>2, RequestOfOthers DEF OneRunInv, Active, UploadsToOwnURL
<1>3. ASSUME NEW r \in Runs, NEW md5 \in Md5s, Apply(r, md5)
      PROVE  OneRunInv'
  <2>1. \A q \in Runs : ~Active(q)
    BY <1>3 DEF Apply
  <2>2. /\ \A q \in Runs \ {r} : run'[q] = run[q]
        /\ run'[r].step = "watching"
    BY <1>0, <1>3 DEF Apply, RunRecords
  <2>3. obj'.spec.req = r
    BY <1>0, <1>3, RequestTypes DEF Apply, Store, Objects
  <2> QED
    BY <2>1, <2>2, <2>3 DEF OneRunInv, Active, UploadsToOwnURL
<1>4. ASSUME NEW ref \in GitRefs, ApplyGit(ref)
      PROVE  OneRunInv'
  <2>1. obj'.spec.src = "git" /\ run' = run
    BY <1>0, <1>4, RequestTypes DEF ApplyGit, Store, Objects, Specs
  <2> QED
    BY <2>1 DEF OneRunInv, Active, UploadsToOwnURL
<1>5. ASSUME NEW r \in Runs, ReceiveURL(r)
      PROVE  OneRunInv'
  <2>1. obj.spec.req = r /\ obj.status.req = r /\ r # NoRun
    BY <1>5, ConstantsAssumption DEF ReceiveURL, Active, OneRunInv
  <2>2. obj.status.url = run[r].tag
    BY <1>5, <2>1 DEF ReceiveURL, RequestInv, OwnAnswer
  <2>3. run' = [run EXCEPT ![r] = [run[r] EXCEPT !.step = "putting", !.url = obj.status.url]]
    BY <1>5 DEF ReceiveURL
  <2>4. /\ \A q \in Runs \ {r} : run'[q] = run[q]
        /\ run'[r].step = "putting" /\ run'[r].url = run'[r].tag
    BY <1>0, <2>2, <2>3 DEF RunRecords
  <2>5. Active(r) /\ (\A q \in Runs : Active(q)' => Active(q)) /\ obj' = obj
    BY <1>5, <2>4 DEF Active, ReceiveURL
  <2> QED
    BY <2>4, <2>5 DEF OneRunInv, UploadsToOwnURL
<1>6. ASSUME NEW r \in Runs, RunStep(r) \/ PutAnswerLost(r) \/ CopyCutOff(r) \/ RunFails(r),
             ~ReceiveURL(r)
      PROVE  OneRunInv'
  <2>1. obj' = obj /\ Active(r)
    BY <1>6 DEF RunStep, SkipUpload, Put, PutAnswerLost, BeginPut, FinishPut, CopyCutOff,
                Annotate, RunFails, Active, objectVars
  <2>2. \/ SetStep(r, "done") \/ SetStep(r, "failed")
        \/ /\ SetStep(r, "copying") \/ SetStep(r, "stored")
           /\ run[r].step \in {"putting", "copying"}
    BY <1>6 DEF RunStep, SkipUpload, Put, PutAnswerLost, BeginPut, FinishPut, CopyCutOff,
                Annotate, RunFails
  <2>3. {"done", "failed", "copying", "stored"} \subseteq RunSteps
    BY DEF RunSteps
  <2> QED
    BY <1>0, <2>1, <2>2, <2>3, RunGoesOn
<1> QED
  BY <1>1, <1>2, <1>3, <1>4, <1>5, <1>6 DEF Next, ClientNext

\* A run whose watch sees a URL uses its own, when runs follow each other.
THEOREM RunsUseOwnURL == ~Overlap => (Spec => []UploadsToOwnURL)
<1> SUFFICES ASSUME Overlap = FALSE PROVE Spec => []UploadsToOwnURL
  BY OverlapAssumption
<1>1. BuildInv /\ RequestInv /\ OneRunInv /\ [Next]_vars => OneRunInv'
  BY OneRunStep
<1>2. OneRunInv => UploadsToOwnURL
  BY DEF OneRunInv
<1> QED
  BY <1>1, <1>2, BuildInvariant, RequestInit, RequestStep, OneRunInit, PTL DEF Spec

(***************************************************************************)
(* Contents, where the storage takes a tarball and its checksum at once:   *)
(* what is behind a tag, or on its way there, is the tag's own content,    *)
(* unless the tag is tainted.                                              *)
(***************************************************************************)
OwnContent(tag, content) == content \in {tag, NoTag} \/ tag \in tainted

\* The pod of a build of this tag, if it fetches now, fetches its own content.
OwnSource(tag) == tag \in Md5s => storedData = tag \/ tag \in tainted

StorageIsWhole ==
  /\ storedMd5 = storedData
  /\ \A r \in Runs : run[r].step # "copying"

BuildsOwn ==
  /\ pc \in {"writeUploaded", "job"} => OwnSource(worker.spec.tag)
  /\ job.state = "running" => OwnSource(job.tag) /\ OwnContent(job.tag, context)
  /\ job.state # "running" => context = NoTag
  /\ \A p \in orphans : OwnSource(p.tag) /\ OwnContent(p.tag, p.context)

PushedOwn == \A t \in Tags : OwnContent(t, registry[t])

ContentInv == StorageIsWhole /\ BuildsOwn /\ PushedOwn

LEMMA ContentInit == Init => ContentInv
BY DEF Init, ClusterInit, ReconcilerInit, StorageInit, ClientInit, NoJob, ContentInv,
       StorageIsWhole, BuildsOwn, PushedOwn, OwnContent

LEMMA FetchedIsOwn ==
  ASSUME BuildInv, NEW tag \in Tags, OwnSource(tag)
  PROVE  OwnContent(tag, Source(tag))
BY DEF OwnSource, OwnContent, Source, Tags

LEMMA ClusterContent ==
  ASSUME BuildInv, ContentInv, ClusterNext
  PROVE  ContentInv'
<1>0. /\ TypeInv /\ job \in Jobs /\ orphans \subseteq Pods
      /\ registry \in [Tags -> Tags \cup {NoTag}] /\ NoTag \notin Tags
  BY TypeFacts DEF BuildInv, TypeInv, TypeOK
<1>1. UNCHANGED <<storedMd5, storedData, tainted, run, pc, worker>>
  BY DEF ClusterNext, SyncObject, SyncJob, FetchContext, PushImage, PodFails, OrphanFetches,
         OrphanPushes, OrphanDies, KindMarksReady, KindMarksUnready
<1> USE DEF ContentInv, StorageIsWhole, BuildsOwn, PushedOwn
<1>2. \A tag, content : /\ OwnSource(tag) => OwnSource(tag)'
                        /\ OwnContent(tag, content) => (content \in {tag, NoTag} \/ tag \in tainted')
  BY <1>1 DEF OwnSource, OwnContent
<1>3. CASE UNCHANGED <<job, context, orphans, registry>>
  BY <1>1, <1>3 DEF OwnSource, OwnContent
<1>4. CASE FetchContext
  <2>1. job.tag \in Tags
    BY <1>0, <1>4 DEF FetchContext, Jobs, NoJob
  <2> QED
    BY <1>1, <1>4, <2>1, FetchedIsOwn DEF FetchContext, OwnSource, OwnContent
<1>5. CASE PushImage
  BY <1>0, <1>1, <1>5 DEF PushImage, OwnSource, OwnContent, Jobs, NoJob
<1>6. CASE PodFails
  BY <1>0, <1>1, <1>6 DEF PodFails, OwnSource, OwnContent, Jobs, NoJob
<1>7. ASSUME NEW p \in orphans, OrphanFetches(p)
      PROVE  ContentInv'
  <2>1. p.tag \in Tags /\ p \in Pods
    BY <1>0 DEF Pods
  <2>2. [p EXCEPT !.context = Source(p.tag)].tag = p.tag
        /\ [p EXCEPT !.context = Source(p.tag)].context = Source(p.tag)
    BY <2>1 DEF Pods
  <2>3. OwnSource(p.tag) /\ OwnContent(p.tag, Source(p.tag))
    BY <2>1, FetchedIsOwn
  <2> QED
    BY <1>1, <1>7, <2>2, <2>3 DEF OrphanFetches, OwnSource, OwnContent
<1>8. ASSUME NEW p \in orphans, OrphanPushes(p)
      PROVE  ContentInv'
  BY <1>0, <1>1, <1>8 DEF OrphanPushes, OwnSource, OwnContent, Pods
<1>9. ASSUME NEW p \in orphans, OrphanDies(p)
      PROVE  ContentInv'
  BY <1>1, <1>9 DEF OrphanDies, OwnSource, OwnContent
<1> QED
  BY <1>3, <1>4, <1>5, <1>6, <1>7, <1>8, <1>9
  DEF ClusterNext, SyncObject, SyncJob, KindMarksReady, KindMarksUnready

LEMMA ReconcilerContent ==
  ASSUME BuildInv, ContentInv, ReconcilerNext
  PROVE  ContentInv'
<1>0. TypeInv /\ job \in Jobs /\ worker \in Objects /\ cache \in Objects
  BY TypeFacts DEF BuildInv, TypeInv, TypeOK
<1>1. UNCHANGED <<storageVars, run, registry>>
  BY DEF ReconcilerNext, WorkerStep, Reconcile, FoundExisting, OfferURL, VerifyUpload,
         CheckedUpload, NotYetUploaded, CreateJob, RecreateJob, JobNotComplete, JobComplete,
         WriteUploaded, WriteURL, WriteWaiting, WriteBuilt, WriteStatus, WriteStatusAndReturn,
         SetImage, Conflict, CallFails, Restart
<1>2. StorageIsWhole' /\ PushedOwn'
  BY <1>1 DEF ContentInv, StorageIsWhole, PushedOwn, OwnContent
<1>3. ASSUME UNCHANGED <<job, context, orphans>>,
             pc' \in {"writeUploaded", "job"} => OwnSource(worker'.spec.tag)
      PROVE  ContentInv'
  BY <1>1, <1>2, <1>3 DEF ContentInv, BuildsOwn, OwnSource, OwnContent
<1>4. CASE Reconcile
  <2>1. CASE pc' = pc
    BY <1>3, <1>4, <2>1 DEF Reconcile
  <2>2. CASE pc' # pc
    <3>1. worker' = cache /\ pc' \in {"upload", "job"}
          /\ (pc' = "job" => cache.spec.src \notin {"none", "upload"})
      BY <1>4, <2>2 DEF Reconcile
    <3>2. pc' = "job" => cache.spec.tag \notin Md5s
      BY <1>0, <3>1, ConstantsAssumption DEF Objects, Specs, Sources
    <3> QED
      BY <1>3, <1>4, <3>1, <3>2 DEF Reconcile, OwnSource
  <2> QED
    BY <2>1, <2>2
<1>5. CASE FoundExisting \/ VerifyUpload \/ OfferURL
  <2>1. worker'.spec = worker.spec /\ UNCHANGED <<job, context, orphans>>
    BY <1>0, <1>5 DEF FoundExisting, VerifyUpload, OfferURL, CheckedUpload, Objects
  <2>2. CASE FoundExisting \/ VerifyUpload
    BY <1>3, <2>1, <2>2 DEF FoundExisting, VerifyUpload, ContentInv, StorageIsWhole, OwnSource
  <2>3. CASE OfferURL
    BY <1>3, <2>1, <2>3 DEF OfferURL, CheckedUpload
  <2> QED
    BY <1>5, <2>2, <2>3
<1>6. CASE NotYetUploaded \/ Conflict \/ CallFails \/ Restart \/ JobComplete \/ JobNotComplete
           \/ SetImage \/ WriteURL \/ WriteWaiting \/ WriteBuilt
  <2>1. UNCHANGED <<job, context, orphans>> /\ pc' \notin {"writeUploaded", "job"}
    BY <1>6 DEF NotYetUploaded, Conflict, CallFails, Restart, JobComplete, JobNotComplete, SetImage,
                WriteURL, WriteWaiting, WriteBuilt, WriteStatusAndReturn, Return
  <2> QED
    BY <1>3, <2>1
<1>7. CASE WriteUploaded
  <2>1. worker'.spec = obj.spec /\ obj.spec = worker.spec /\ pc = "writeUploaded"
    BY <1>0, <1>7 DEF WriteUploaded, WriteStatus, Store, TypeInv, TypeOK, FreshCopies, Objects
  <2> QED
    BY <1>3, <1>7, <2>1 DEF WriteUploaded, WriteStatus, ContentInv, BuildsOwn
<1>8. CASE CreateJob
  <2>1. OwnSource(worker.spec.tag) /\ pc' = "writeWaiting"
    BY <1>8 DEF CreateJob, ContentInv, BuildsOwn
  <2>2. CASE job # NoJob
    BY <1>3, <1>8, <2>1, <2>2 DEF CreateJob
  <2>3. CASE job = NoJob
    BY <1>1, <1>2, <1>8, <2>1, <2>3
    DEF CreateJob, ContentInv, BuildsOwn, OwnSource, OwnContent, NoJob
  <2> QED
    BY <2>2, <2>3
<1>9. CASE RecreateJob
  BY <1>1, <1>2, <1>9
  DEF RecreateJob, DeleteJob, Return, ContentInv, BuildsOwn, OwnSource, OwnContent, NoJob
<1> QED
  BY <1>4, <1>5, <1>6, <1>7, <1>8, <1>9 DEF ReconcilerNext, WorkerStep

\* A stored tarball leaves tainted what it has changed under a build.
LEMMA StoredContent ==
  ASSUME BuildInv, ContentInv, NEW md5 \in Md5s, ReportMd5(md5), StoreData(md5),
         UNCHANGED <<job, context, orphans, registry, pc, worker>>,
         \A r \in Runs : run'[r].step # "copying"
  PROVE  ContentInv'
<1>1. tainted \subseteq tainted' /\ storedMd5' = md5 /\ storedData' = md5
  BY DEF ReportMd5, StoreData
<1>2. \A tag \in TagsBeingBuilt : tag \in tainted' \/ tag = md5
  BY DEF StoreData
<1>3. BuildsOwn'
  <2>1. pc \in {"writeUploaded", "job"} => OwnSource(worker.spec.tag)'
    BY <1>1, <1>2 DEF TagsBeingBuilt, OwnSource
  <2>2. job.state = "running" => OwnSource(job.tag)'
    BY <1>1, <1>2 DEF TagsBeingBuilt, OwnSource
  <2>3. \A p \in orphans : OwnSource(p.tag)'
    BY <1>1, <1>2 DEF TagsBeingBuilt, OwnSource
  <2> QED
    BY <1>1, <2>1, <2>2, <2>3 DEF ContentInv, BuildsOwn, OwnContent, OwnSource
<1> QED
  BY <1>1, <1>3 DEF ContentInv, StorageIsWhole, PushedOwn, OwnContent

LEMMA ClientContent ==
  ASSUME Cloud = "gcp", BuildInv, ContentInv, ClientNext
  PROVE  ContentInv'
<1>0. run \in [Runs -> RunRecords]
  BY DEF BuildInv, TypeInv, TypeOK
<1>1. UNCHANGED <<job, context, orphans, registry, pc, worker>>
  BY DEF ClientNext, RunStep, Apply, ApplyGit, SkipUpload, ReceiveURL, Put, PutAnswerLost,
         BeginPut, FinishPut, CopyCutOff, Annotate, RunFails
<1>2. \A r \in Runs : run'[r].step # "copying"
  <2>1. \A r \in Runs : run[r].step # "copying"
    BY DEF ContentInv, StorageIsWhole
  <2>2. ASSUME NEW r \in Runs, NEW step \in {"done", "failed", "stored"}, SetStep(r, step)
        PROVE  \A q \in Runs : run'[q].step # "copying"
    <3>1. run' = [run EXCEPT ![r] = [run[r] EXCEPT !.step = step]]
      BY <2>2 DEF SetStep
    <3> QED
      BY <1>0, <2>1, <3>1 DEF RunRecords
  <2>3. ASSUME NEW r \in Runs, NEW md5 \in Md5s, Apply(r, md5)
        PROVE  \A q \in Runs : run'[q].step # "copying"
    BY <1>0, <2>1, <2>3 DEF Apply, RunRecords
  <2>4. ASSUME NEW r \in Runs, ReceiveURL(r)
        PROVE  \A q \in Runs : run'[q].step # "copying"
    <3>1. run' = [run EXCEPT ![r] = [run[r] EXCEPT !.step = "putting", !.url = obj.status.url]]
      BY <2>4 DEF ReceiveURL
    <3> QED
      BY <1>0, <2>1, <3>1 DEF RunRecords
  <2>5. \A ref \in GitRefs : ApplyGit(ref) => run' = run
    BY DEF ApplyGit
  <2>6. \A r \in Runs :
          (RunStep(r) \/ PutAnswerLost(r) \/ CopyCutOff(r) \/ RunFails(r)) /\ ~ReceiveURL(r)
            => SetStep(r, "done") \/ SetStep(r, "failed") \/ SetStep(r, "stored")
    BY DEF RunStep, SkipUpload, Put, PutAnswerLost, BeginPut, FinishPut, CopyCutOff, Annotate,
           RunFails
  <2> QED
    BY <2>1, <2>2, <2>3, <2>4, <2>5, <2>6 DEF ClientNext
<1>3. CASE UNCHANGED storageVars
  BY <1>1, <1>2, <1>3
  DEF ContentInv, StorageIsWhole, BuildsOwn, PushedOwn, OwnSource, OwnContent
<1>4. ASSUME NEW r \in Runs, Put(r) \/ PutAnswerLost(r)
      PROVE  ContentInv'
  <2>1. run[r].tag \in Md5s
    BY <1>4 DEF Put, PutAnswerLost, BuildInv, TypeInv, RunHasTarball
  <2>2. ReportMd5(run[r].tag) /\ StoreData(run[r].tag)
    BY <1>4 DEF Put, PutAnswerLost, PutObject
  <2> QED
    BY <1>1, <1>2, <2>1, <2>2, StoredContent
<1> QED
  BY <1>3, <1>4
  DEF ClientNext, RunStep, Apply, ApplyGit, SkipUpload, ReceiveURL, BeginPut, FinishPut,
      CopyCutOff, Annotate, RunFails, ContentInv, StorageIsWhole

LEMMA ContentStep ==
  ASSUME Cloud = "gcp", BuildInv, ContentInv, [Next]_vars
  PROVE  ContentInv'
<1>1. CASE UNCHANGED vars
  BY <1>1
  DEF vars, ContentInv, StorageIsWhole, BuildsOwn, PushedOwn, OwnSource, OwnContent
<1> QED
  BY <1>1, ClusterContent, ReconcilerContent, ClientContent DEF Next

\* With signed uploads a released image holds what its tag names, unless an
\* upload landed under its build.
THEOREM ReleasesOwnContent == Cloud = "gcp" => (Spec => []ReleasedContent)
<1> SUFFICES ASSUME Cloud = "gcp" PROVE Spec => []ReleasedContent
  OBVIOUS
<1>1. BuildInv /\ ContentInv /\ [Next]_vars => ContentInv'
  BY ContentStep
<1>2. BuildInv /\ ContentInv => ReleasedContent
  BY TypeFacts DEF BuildInv, PushedWhenDone, ImageIsBuilt, ContentInv, PushedOwn, OwnContent,
                   ReleasedContent
<1> QED
  BY <1>1, <1>2, BuildInvariant, ContentInit, PTL DEF Spec
=============================================================================
