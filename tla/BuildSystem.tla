----------------------------- MODULE BuildSystem -----------------------------
(***************************************************************************)
(* The image build of one object, end to end: the CLI runs that request    *)
(* and upload it, the storage in between, the BuildReconciler, the builder *)
(* Job and the controller that waits for the image.                        *)
(***************************************************************************)
EXTENDS BuildReconciler, UploadClient

Init ==
  /\ ClusterInit
  /\ ReconcilerInit
  /\ StorageInit
  /\ ClientInit

Next ==
  \/ ClusterNext
  \/ ReconcilerNext
  \/ ClientNext

Spec == Init /\ [][Next]_vars

(***************************************************************************)
(* Fairness.  The informers deliver events, the manager's worker runs,     *)
(* the Job controller and kaniko make progress, the kind's controller      *)
(* reports readiness, and a run that is not stopped goes on.  Nobody has   *)
(* to request anything, and no failure has to happen.                      *)
(***************************************************************************)
Fairness ==
  /\ WF_vars(SyncObject)
  /\ WF_vars(SyncJob)
  /\ WF_vars(WorkerStep)
  /\ WF_vars(FetchContext)
  /\ WF_vars(PushImage)
  /\ WF_vars(job.state = "running" /\ context = Torn /\ PodFails)
  /\ WF_vars(KindMarksReady)
  /\ \A r \in Runs : WF_vars(RunStep(r))

FairSpec == Spec /\ Fairness

RunRecords == [step : RunSteps, tag : Md5s \cup {NoTag}, url : Md5s \cup {NoTag}]

Pods == [tag : Tags, context : Tags \cup {NoTag, Torn}]

TypeOK ==
  /\ obj \in Objects
  /\ fresh \subseteq {"cache", "worker"}
  /\ cache \in Objects
  /\ job \in Jobs
  /\ jobCache \in Jobs
  /\ context \in Tags \cup {NoTag, Torn}
  /\ orphans \subseteq Pods
  /\ registry \in [Tags -> Tags \cup {NoTag}]
  /\ faults \in 0..MaxFaults
  /\ queued \in BOOLEAN
  /\ pc \in Steps
  /\ worker \in Objects
  /\ storedMd5 \in Tags \cup {NoTag}
  /\ storedData \in Tags \cup {NoTag, Torn}
  /\ everStored \subseteq Md5s
  /\ tainted \subseteq Tags \cup {NoTag}
  /\ run \in [Runs -> RunRecords]

(***************************************************************************)
(* Properties.                                                             *)
(***************************************************************************)

\* An object names an image in its spec only when some builder pod has pushed
\* that image: the workload controllers, which start as soon as spec.image is
\* set, never schedule pods whose image does not exist.
ImageIsBuilt == obj.spec.image # NoTag => registry[obj.spec.image] # NoTag

\* A builder Job for an uploaded context exists only after the storage has
\* reported the checksum that is the Job's tag.
VerifiedBeforeBuild == job.tag \in Md5s => job.tag \in everStored

\* The upload part of the status is one request's: its URL is signed for, and
\* its stored checksum is that of, the tarball of the run whose request ID it
\* carries, whatever newer requests the spec has seen meanwhile.
StatusOfOneRequest ==
  LET status == obj.status
  IN  IF status.req = NoRun
        THEN status.url = NoTag
        ELSE /\ status.url \in {NoTag, run[status.req].tag}
             /\ status.stored \in {NoTag, run[status.req].tag}

\* The image an object is released with was built from the tarball that its
\* tag names, unless an upload landed while a build of that tag was running.
ReleasedContent ==
  LET image == obj.spec.image
  IN  image \notin tainted \cup {NoTag} => registry[image] = image

\* An image appears in a spec only as the image of the build that very spec
\* asks for: a build that finishes late never overwrites a newer request.
ImageOfCurrentBuild ==
  [][obj'.spec.image \notin {NoTag, obj.spec.image}
       => obj'.spec.image = obj'.spec.tag /\ obj'.spec.tag = obj.spec.tag]_vars

\* Jobs are deleted by name and judged by a cached copy.  All the same the
\* worker never deletes a Job that builds what it is looking for, nor leaves
\* the pod of such a Job behind.
NeverDeletesWantedJob ==
  [][pc = "job" /\ pc' # "job" /\ job # NoJob /\ job.tag = worker.spec.tag
       => job' = job /\ orphans' = orphans]_vars

\* The build of one object implements the contract of BuildContract: an image
\* is released once it has been pushed and while it is still wanted.
Contract == INSTANCE BuildContract WITH
  want   <- [src |-> obj.spec.src, tag |-> obj.spec.tag, req |-> obj.spec.req],
  image  <- obj.spec.image,
  pushed <- {t \in Tags : registry[t] # NoTag}

RefinesContract == Contract!Spec

\* When no run overlaps another, a run sends its tarball only to a URL that
\* was signed for it.
UploadsToOwnURL ==
  \A r \in Runs : run[r].step \in {"putting", "copying", "stored"}
                    => run[r].url = run[r].tag

\* A run that has finished its upload gets its image, unless the build fails
\* or another request replaces it.
UploadIsBuilt ==
  \A r \in Runs :
    (run[r].step = "done" /\ obj.spec.req = r)
      ~> \/ obj.spec.image = run[r].tag
         \/ obj.spec.req # r
         \/ job.tag = run[r].tag /\ job.state = "failed"

\* A run that waits for a signed URL is answered, unless another request
\* replaces its own.
WatchIsAnswered ==
  \A r \in Runs :
    (run[r].step = "watching" /\ obj.spec.req = r)
      ~> run[r].step # "watching" \/ obj.spec.req # r
(***************************************************************************)
(* What the repository says of the build and the code does not do: TLC     *)
(* refutes each of the following.                                          *)
(***************************************************************************)

\* main_test.go asserts that a built object eventually reports its condition
\* Built as true (and skips the assertion where it "only fails on Github
\* actions for unknown reason").
BuiltIsReported ==
  [](obj.spec.src # "none" /\ obj.spec.image = obj.spec.tag
       => <>(obj.status.built = "True" \/ obj.spec.image # obj.spec.tag))

\* UploadStatus.RequestID: clients check that it matches the request ID that
\* they set in the upload spec before uploading.
UploadsForOwnRequest ==
  [][\A r \in Runs :
       run[r].step = "watching" /\ run'[r].step = "putting"
         => obj.status.req = r]_vars

\* The image tag is the checksum of the tarball: the released image was built
\* from that tarball.
TagNamesContent ==
  obj.spec.image # NoTag => registry[obj.spec.image] = obj.spec.image
=============================================================================
