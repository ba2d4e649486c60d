------------------------------ MODULE Workloads ------------------------------
(***************************************************************************)
(* The Model, Dataset and Server controllers at work on one graph of       *)
(* objects, while users, builds, Jobs and pods change what they look at.   *)
(***************************************************************************)
EXTENDS ModelController, DatasetController, ServerController

Init == ClusterInit /\ WorkerInit

Next ==
  \/ ClusterNext
  \/ ModelStep \/ DatasetStep \/ ServerStep
  \/ \E c \in Controllers : CallFails(c)
  \/ \E c \in {"model", "dataset"} : JobCallFails(c)
  \/ Restart

Spec == Init /\ [][Next]_vars

(***************************************************************************)
(* Fairness.  Informers deliver, workers run, builds end with an image,    *)
(* Jobs end, pods start and garbage is collected.  Users need do nothing,  *)
(* and nothing has to fail.                                                *)
(***************************************************************************)
Fairness ==
  /\ \A o \in Names : WF_vars(SyncObject(o)) /\ WF_vars(ReleaseImage(o))
  /\ \A o \in Jobbers :
       WF_vars(SyncJob(o)) /\ WF_vars(JobCompletes(o)) /\ WF_vars(CollectJob(o))
  /\ \A s \in Servers :
       /\ WF_vars(SyncDeployment(s))
       /\ WF_vars(PodsReady(s))
       /\ WF_vars(CollectDeployment(s))
  /\ WF_vars(ModelStep)
  /\ WF_vars(DatasetStep)
  /\ WF_vars(ServerStep)

FairSpec == Spec /\ Fairness

TypeOK ==
  /\ objs \in [Names -> Records]
  /\ fresh \in [Names -> SUBSET {"cache", "worker"}]
  /\ cache \in [Names -> Records]
  /\ jobs \in [Jobbers -> JobRecords]
  /\ jobCache \in [Jobbers -> JobRecords]
  /\ deploys \in [Servers -> DeployRecords]
  /\ deployCache \in [Servers -> DeployRecords]
  /\ queue \subseteq Names
  /\ worker \in [Controllers -> Workers]
  /\ completed \subseteq Jobbers
  /\ edits \in 0..MaxEdits
  /\ faults \in 0..MaxFaults

(***************************************************************************)
(* Properties.                                                             *)
(***************************************************************************)

\* A modeller Job exists only when the Jobs of the Model's base Model and of
\* its Dataset have completed, although both are judged by cached copies and
\* may be deleted or rebuilt at any time.
JobAfterInputs ==
  \A m \in Models :
    jobs[m] # NoJob => {BaseOf[m], DataOf[m]} \ {None} \subseteq completed

\* status.ready of a Model or a Dataset means that a Job of its name has
\* completed.
ReadyIsEarned == \A o \in Jobbers : objs[o].ready => o \in completed

\* A Model or Dataset that is ready stays ready, whatever becomes of its
\* inputs and however old the copies the workers hold, until it is deleted or
\* given another image to build.
ReadyIsKept ==
  [][\A o \in Jobbers :
       /\ objs[o].ready
       /\ objs[o].image = objs[o].wanted
       /\ objs'[o].uid = objs[o].uid
       => objs'[o].ready]_vars

\* Work is done in the order of the references: a Job of a Model completes
\* after those of its inputs, and a Server has a Deployment only after the Job
\* of its Model has completed.
Order == INSTANCE TrainingOrder WITH
  finished <- completed,
  serving  <- {s \in Servers : deploys[s] # NoDeploy}

RefinesTrainingOrder == Order!Spec

Released(o) == objs[o].image # None /\ objs[o].image = objs[o].wanted

InputsReady(o) ==
  o \in Models => \A i \in {BaseOf[o], DataOf[o]} \ {None} : objs[i].ready

\* Readiness spreads along the references without anybody polling: a Model or
\* Dataset whose image is built and whose inputs stay ready ends up ready, or
\* reports that its Job has failed.
ReadinessSpreads ==
  \A o \in Jobbers :
    <>[](Released(o) /\ InputsReady(o))
      => <>[](objs[o].ready \/ objs[o].reason = "failed")

\* A Server whose Model stays ready ends up ready, with a Deployment of its own
\* and of its present image, also when a Server of the name was deleted before;
\* one whose Model does not come back ends up unready.
ServerFollowsModel ==
  \A s \in Servers :
    /\ <>[](Released(s) /\ objs[ModelOf[s]].ready)
         => <>[](/\ objs[s].ready
                 /\ deploys[s].uid = objs[s].uid
                 /\ deploys[s].image = objs[s].image)
    /\ <>[](Released(s) /\ ~objs[ModelOf[s]].ready) => <>[]~objs[s].ready
=============================================================================
