--------------------------- MODULE WorkloadProofs ---------------------------
(***************************************************************************)
(* Workloads: type correctness, for any graph of objects, and readiness    *)
(* kept.                                                                   *)
(***************************************************************************)
EXTENDS Workloads, TLAPS

\* The objects whose keys are in the work queue of controller c.
Kind(c) == IF c = "model" THEN Models
           ELSE IF c = "dataset" THEN Datasets ELSE Servers

\* A busy worker is busy with an object of its own kind.
WorkerKeys ==
  \A c \in Controllers : worker[c].step # "idle" => worker[c].key \in Kind(c)

TypeInv == TypeOK /\ WorkerKeys

USE DEF othersUnchanged, ownedVars, workVars

LEMMA KindFacts ==
  /\ Absent \in Records
  /\ NoJob \in JobRecords
  /\ NoDeploy \in DeployRecords
  /\ Idle \in Workers
  /\ Idle.step = "idle"
  /\ \A c \in Controllers : Kind(c) \subseteq Names
  /\ \A c \in Controllers : Idle.step # "idle" => Idle.key \in Kind(c)
BY WorkloadAssumption
DEF Absent, Records, NoJob, JobRecords, NoDeploy, DeployRecords, Idle, Workers,
    Kind, Names, Jobbers, Controllers, Reasons, Steps

LEMMA TypeInit == Init => TypeInv
BY KindFacts, WorkloadAssumption
DEF Init, ClusterInit, WorkerInit, TypeInv, TypeOK, WorkerKeys

\* Storing an object of the right type keeps every type.
LEMMA StoreType ==
  ASSUME TypeInv, NEW o \in Names, NEW record \in Records, Store(o, record)
  PROVE  /\ objs' \in [Names -> Records]
         /\ fresh' \in [Names -> SUBSET {"cache", "worker"}]
BY DEF TypeInv, TypeOK, Store

LEMMA EditType ==
  ASSUME TypeInv, NEW ask, NEW o, Edit(ask, o)
  PROVE  edits' \in 0..MaxEdits
BY WorkloadAssumption DEF Edit, TypeInv, TypeOK

LEMMA FaultType ==
  ASSUME TypeInv, Fault
  PROVE  faults' \in 0..MaxFaults
BY WorkloadAssumption DEF Fault, TypeInv, TypeOK

LEMMA UserType ==
  ASSUME TypeInv,
         \/ \E o \in Names, image \in Images : Create(o, image) \/ ChangeImage(o, image)
         \/ \E o \in Names : Delete(o)
  PROVE  TypeInv'
<1>1. ASSUME NEW o \in Names, NEW image \in Images, Create(o, image)
      PROVE  TypeInv'
  <2>1. edits' \in 0..MaxEdits
    BY <1>1, EditType DEF Create
  <2>2. [Absent EXCEPT !.uid = edits', !.wanted = image] \in Records
    BY <2>1, KindFacts DEF Absent, Records
  <2> QED
    BY <1>1, <2>1, <2>2, StoreType DEF Create, TypeInv, TypeOK, WorkerKeys
<1>2. ASSUME NEW o \in Names, NEW image \in Images, ChangeImage(o, image)
      PROVE  TypeInv'
  <2>1. edits' \in 0..MaxEdits
    BY <1>2, EditType DEF ChangeImage
  <2>2. PICK now \in {None, objs[o].image} :
          Store(o, [objs[o] EXCEPT !.wanted = image, !.image = now])
    BY <1>2 DEF ChangeImage
  <2>3. [objs[o] EXCEPT !.wanted = image, !.image = now] \in Records
    <3>1. objs[o] \in Records
      BY DEF TypeInv, TypeOK
    <3>2. objs[o].image \in Images \cup {None}
      BY <3>1 DEF Records
    <3> QED
      BY <2>2, <3>1, <3>2 DEF Records
  <2> QED
    BY <1>2, <2>1, <2>2, <2>3, StoreType DEF ChangeImage, TypeInv, TypeOK, WorkerKeys
<1>3. ASSUME NEW o \in Names, Delete(o)
      PROVE  TypeInv'
  <2>1. edits' \in 0..MaxEdits
    BY <1>3, EditType DEF Delete
  <2> QED
    BY <1>3, <2>1, KindFacts, StoreType DEF Delete, TypeInv, TypeOK, WorkerKeys
<1> QED
  BY <1>1, <1>2, <1>3

LEMMA BuildType ==
  ASSUME TypeInv, NEW o \in Names, WithdrawReady(o) \/ ReleaseImage(o)
  PROVE  TypeInv'
<1>1. /\ [objs[o] EXCEPT !.ready = FALSE] \in Records
      /\ [objs[o] EXCEPT !.image = objs[o].wanted] \in Records
  BY DEF Records, TypeInv, TypeOK
<1> QED
  BY <1>1, StoreType
  DEF WithdrawReady, ReleaseImage, TypeInv, TypeOK, WorkerKeys

LEMMA JobType ==
  ASSUME TypeInv, NEW o \in Jobbers,
         JobCompletes(o) \/ JobFails(o) \/ CollectJob(o) \/ SyncJob(o)
  PROVE  TypeInv'
<1>1. /\ [jobs[o] EXCEPT !.state = "complete"] \in JobRecords
      /\ [jobs[o] EXCEPT !.state = "failed"] \in JobRecords
  BY DEF JobRecords, TypeInv, TypeOK
<1>2. faults' \in 0..MaxFaults
  BY WorkloadAssumption
  DEF JobCompletes, JobFails, CollectJob, SyncJob, Fault, TypeInv, TypeOK
<1>3. o \in Names
  BY DEF Names
<1>4. CASE JobCompletes(o)
  <2>1. jobs' \in [Jobbers -> JobRecords]
    BY <1>1, <1>4 DEF JobCompletes, TypeInv, TypeOK, JobRecords
  <2> QED
    BY <2>1, <1>4 DEF JobCompletes, TypeInv, TypeOK, WorkerKeys
<1>5. CASE JobFails(o)
  <2>1. jobs' \in [Jobbers -> JobRecords]
    BY <1>1, <1>5 DEF JobFails, TypeInv, TypeOK, JobRecords
  <2> QED
    BY <2>1, <1>2, <1>5 DEF JobFails, TypeInv, TypeOK, WorkerKeys
<1>6. CASE CollectJob(o)
  BY <1>6, KindFacts DEF CollectJob, TypeInv, TypeOK, WorkerKeys
<1>7. CASE SyncJob(o)
  BY <1>3, <1>7 DEF SyncJob, TypeInv, TypeOK, WorkerKeys
<1> QED
  BY <1>4, <1>5, <1>6, <1>7

LEMMA DeployType ==
  ASSUME TypeInv, NEW s \in Servers,
         PodsReady(s) \/ PodsFail(s) \/ CollectDeployment(s) \/ SyncDeployment(s)
  PROVE  TypeInv'
<1>1. faults' \in 0..MaxFaults
  BY WorkloadAssumption
  DEF PodsReady, PodsFail, CollectDeployment, SyncDeployment, Fault, TypeInv, TypeOK
<1>2. s \in Names
  BY DEF Names
<1>3. CASE PodsReady(s)
  <2>1. deploys' \in [Servers -> DeployRecords]
    BY <1>3 DEF PodsReady, TypeInv, TypeOK, DeployRecords
  <2> QED
    BY <2>1, <1>3 DEF PodsReady, TypeInv, TypeOK, WorkerKeys
<1>4. CASE PodsFail(s)
  <2>1. deploys' \in [Servers -> DeployRecords]
    BY <1>4 DEF PodsFail, TypeInv, TypeOK, DeployRecords
  <2> QED
    BY <2>1, <1>1, <1>4 DEF PodsFail, TypeInv, TypeOK, WorkerKeys
<1>5. CASE CollectDeployment(s)
  BY <1>5, KindFacts DEF CollectDeployment, TypeInv, TypeOK, WorkerKeys
<1>6. CASE SyncDeployment(s)
  BY <1>2, <1>6 DEF SyncDeployment, TypeInv, TypeOK, WorkerKeys
<1> QED
  BY <1>3, <1>4, <1>5, <1>6

LEMMA SyncObjectType ==
  ASSUME TypeInv, NEW o \in Names, SyncObject(o)
  PROVE  TypeInv'
<1>1. Referring(o) \subseteq Names
  BY DEF Referring, Names, Jobbers
<1> QED
  BY <1>1 DEF SyncObject, TypeInv, TypeOK, WorkerKeys

(***************************************************************************)
(* The workers.  The first argument of a shared action is the controller.  *)
(***************************************************************************)
LEMMA TakeType ==
  ASSUME TypeInv, NEW c \in Controllers, NEW o \in Kind(c), NEW skip,
         NEW step \in Steps, Take(c, o, skip, step)
  PROVE  TypeInv'
<1>1. o \in Names
  BY KindFacts
<1>2. CASE skip \/ cache[o].image = None
  BY <1>2 DEF Take, TypeInv, TypeOK, WorkerKeys
<1>3. CASE ~(skip \/ cache[o].image = None)
  <2> DEFINE taken == [key |-> o, step |-> step, copy |-> cache[o], requeue |-> FALSE]
  <2>1. taken \in Workers
    BY <1>1 DEF Workers, TypeInv, TypeOK
  <2>2. worker' = [worker EXCEPT ![c] = taken]
    BY <1>3 DEF Take
  <2>3. taken.key \in Kind(c)
    OBVIOUS
  <2>4. worker' \in [Controllers -> Workers]
    BY <2>1, <2>2 DEF TypeInv, TypeOK
  <2>5. WorkerKeys'
    BY <2>2, <2>3 DEF TypeInv, TypeOK, WorkerKeys
  <2>6. fresh' \in [Names -> SUBSET {"cache", "worker"}]
    BY <1>1, <1>3 DEF Take, TypeInv, TypeOK
  <2> QED
    BY <2>4, <2>5, <2>6 DEF Take, TypeInv, TypeOK
<1> QED
  BY <1>2, <1>3

LEMMA GoToType ==
  ASSUME TypeInv, NEW c \in Controllers, NEW step \in Steps, GoTo(c, step),
         worker[c].step # "idle"
  PROVE  worker' \in [Controllers -> Workers] /\ WorkerKeys'
<1>1. [worker[c] EXCEPT !.step = step] \in Workers
  BY DEF Workers, TypeInv, TypeOK
<1>2. worker' = [worker EXCEPT ![c] = [worker[c] EXCEPT !.step = step]]
  BY DEF GoTo
<1> QED
  BY <1>1, <1>2 DEF TypeInv, TypeOK, WorkerKeys, Workers

LEMMA DecideType ==
  ASSUME TypeInv, NEW c \in Controllers, NEW ready \in BOOLEAN,
         NEW reason \in Reasons, NEW requeue \in BOOLEAN,
         Decide(c, ready, reason, requeue), worker[c].step # "idle"
  PROVE  worker' \in [Controllers -> Workers] /\ WorkerKeys'
<1> DEFINE copy == [worker[c].copy EXCEPT !.ready = ready, !.reason = reason]
           decided == [worker[c] EXCEPT !.step = "write", !.copy = copy,
                                        !.requeue = requeue]
<1>1. worker[c] \in Workers
  BY DEF TypeInv, TypeOK
<1>2. copy \in Records
  BY <1>1 DEF Workers, Records
<1>3. decided \in Workers
  BY <1>1, <1>2 DEF Workers, Steps
<1>4. worker' = [worker EXCEPT ![c] = decided]
  BY <1>1 DEF Decide, Workers, TypeInv, TypeOK
<1>5. decided.key = worker[c].key
  BY <1>1 DEF Workers
<1> QED
  BY <1>3, <1>4, <1>5 DEF TypeInv, TypeOK, WorkerKeys

LEMMA ReturnType ==
  ASSUME TypeInv, NEW c \in Controllers, NEW requeue \in BOOLEAN,
         Return(c, requeue), worker[c].step # "idle"
  PROVE  worker' \in [Controllers -> Workers] /\ WorkerKeys' /\ queue' \subseteq Names
BY KindFacts DEF Return, TypeInv, TypeOK, WorkerKeys

LEMMA CheckInputType ==
  ASSUME TypeInv, NEW c \in Controllers, NEW step \in Steps \ {"idle"}, NEW input,
         NEW next \in Steps, CheckInput(c, step, input, next)
  PROVE  TypeInv'
<1>1. worker' \in [Controllers -> Workers] /\ WorkerKeys'
  BY DecideType, GoToType DEF CheckInput, Reasons
<1> QED
  BY <1>1 DEF CheckInput, TypeInv, TypeOK

LEMMA CreateJobType ==
  ASSUME TypeInv, NEW c \in {"model", "dataset"}, CreateJob(c)
  PROVE  TypeInv'
<1>1. c \in Controllers /\ "get" \in Steps /\ worker[c] \in Workers
  BY DEF Controllers, Steps, TypeInv, TypeOK
<1>2. worker' \in [Controllers -> Workers] /\ WorkerKeys'
  BY <1>1, GoToType DEF CreateJob
<1>3. [uid |-> worker[c].copy.uid, image |-> worker[c].copy.image,
       state |-> "running"] \in JobRecords
  BY <1>1 DEF JobRecords, Workers, Records
<1>4. jobs' \in [Jobbers -> JobRecords]
  BY <1>3 DEF CreateJob, TypeInv, TypeOK
<1> QED
  BY <1>2, <1>4 DEF CreateJob, TypeInv, TypeOK

LEMMA GetJobType ==
  ASSUME TypeInv, NEW c \in Controllers, GetJob(c)
  PROVE  TypeInv'
<1>1. worker' \in [Controllers -> Workers] /\ WorkerKeys'
  BY DecideType DEF GetJob, Reasons
<1> QED
  BY <1>1 DEF GetJob, TypeInv, TypeOK

LEMMA WriteStatusType ==
  ASSUME TypeInv, NEW c \in Controllers, WriteStatus(c)
  PROVE  TypeInv'
<1> DEFINE o == worker[c].key
<1>1. worker[c] \in Workers /\ o \in Names
  BY KindFacts DEF WriteStatus, TypeInv, TypeOK, WorkerKeys
<1>2. WithStatus(o, worker[c].copy) \in Records
  BY <1>1 DEF WithStatus, Workers, Records, TypeInv, TypeOK
<1>3. /\ objs' \in [Names -> Records]
      /\ fresh' \in [Names -> SUBSET {"cache", "worker"}]
  BY <1>1, <1>2 DEF WriteStatus, TypeInv, TypeOK
<1>4. worker' \in [Controllers -> Workers] /\ WorkerKeys' /\ queue' \subseteq Names
  BY <1>1, ReturnType DEF WriteStatus, Workers
<1> QED
  BY <1>3, <1>4 DEF WriteStatus, TypeInv, TypeOK

LEMMA EndType ==
  ASSUME TypeInv, NEW c \in Controllers, Conflict(c) \/ CallFails(c)
  PROVE  TypeInv'
<1>1. worker' \in [Controllers -> Workers] /\ WorkerKeys' /\ queue' \subseteq Names
  BY ReturnType DEF Conflict, CallFails
<1>2. CASE Conflict(c)
  BY <1>1, <1>2 DEF Conflict, TypeInv, TypeOK
<1>3. CASE CallFails(c)
  <2>1. faults' \in 0..MaxFaults
    BY <1>3, FaultType DEF CallFails
  <2>2. fresh' \in [Names -> SUBSET {"cache", "worker"}]
    BY <1>3 DEF CallFails, TypeInv, TypeOK
  <2> QED
    BY <1>1, <1>3, <2>1, <2>2 DEF CallFails, TypeInv, TypeOK
<1> QED
  BY <1>2, <1>3

LEMMA JobCallFailsType ==
  ASSUME TypeInv, NEW c \in {"model", "dataset"}, JobCallFails(c)
  PROVE  TypeInv'
<1>1. c \in Controllers
  BY DEF Controllers
<1>2. worker' \in [Controllers -> Workers] /\ WorkerKeys'
  BY <1>1, DecideType DEF JobCallFails, Reasons
<1>3. faults' \in 0..MaxFaults
  BY FaultType DEF JobCallFails
<1> QED
  BY <1>2, <1>3 DEF JobCallFails, TypeInv, TypeOK

LEMMA RestartType ==
  ASSUME TypeInv, Restart
  PROVE  TypeInv'
<1>1. faults' \in 0..MaxFaults
  BY FaultType DEF Restart
<1> QED
  BY <1>1, KindFacts DEF Restart, TypeInv, TypeOK, WorkerKeys

LEMMA ServerOwnType ==
  ASSUME TypeInv, ApplyDeployment \/ GetDeployment
  PROVE  TypeInv'
<1> DEFINE s == worker["server"].key
<1>1. "server" \in Controllers /\ worker["server"] \in Workers
  BY DEF Controllers, TypeInv, TypeOK
<1>2. CASE ApplyDeployment
  <2>1. deploys' \in [Servers -> DeployRecords]
    <3>1. s \in Servers
      BY <1>1, <1>2 DEF ApplyDeployment, TypeInv, WorkerKeys, Kind
    <3>2. [deploys[s] EXCEPT !.uid = worker["server"].copy.uid,
                             !.image = worker["server"].copy.image] \in DeployRecords
      <4>1. deploys[s] \in DeployRecords /\ worker["server"].copy \in Records
        BY <1>1, <3>1 DEF Workers, TypeInv, TypeOK
      <4> QED
        BY <4>1 DEF DeployRecords, Records
    <3>3. deploys' = [deploys EXCEPT ![s] =
                        [deploys[s] EXCEPT !.uid = worker["server"].copy.uid,
                                           !.image = worker["server"].copy.image]]
      BY <1>2, <3>1 DEF ApplyDeployment, TypeInv, TypeOK, DeployRecords
    <3> QED
      BY <3>2, <3>3 DEF TypeInv, TypeOK
  <2>2. worker' \in [Controllers -> Workers] /\ WorkerKeys'
    BY <1>1, <1>2, GoToType DEF ApplyDeployment, Steps
  <2> QED
    BY <1>2, <2>1, <2>2 DEF ApplyDeployment, TypeInv, TypeOK
<1>3. CASE GetDeployment
  <2>1. /\ worker' \in [Controllers -> Workers]
        /\ WorkerKeys'
        /\ queue' \subseteq Names
    BY <1>1, <1>3, DecideType, ReturnType DEF GetDeployment, Reasons, TypeInv, TypeOK
  <2>2. fresh' \in [Names -> SUBSET {"cache", "worker"}]
    <3>1. \/ fresh' = fresh
          \/ fresh' = [fresh EXCEPT ![s] = @ \ {"worker"}]
      BY <1>3 DEF GetDeployment
    <3> QED
      BY <3>1 DEF TypeInv, TypeOK
  <2> QED
    BY <1>3, <2>1, <2>2 DEF GetDeployment, TypeInv, TypeOK
<1> QED
  BY <1>2, <1>3

\* Writing the artifacts URL changes at most the reason of one Dataset.
LEMMA LocatedObject ==
  ASSUME TypeInv, UpdateDatasetStatus
  PROVE  /\ objs' \in [Names -> Records]
         /\ \A o \in Names : /\ objs'[o].uid = objs[o].uid
                             /\ objs'[o].wanted = objs[o].wanted
                             /\ objs'[o].image = objs[o].image
                             /\ objs'[o].ready = objs[o].ready
<1> DEFINE d == worker["dataset"].key
<1>1. d \in Names
  BY KindFacts DEF UpdateDatasetStatus, TypeInv, TypeOK, WorkerKeys, Controllers
<1>2. objs[d] \in Records
  BY <1>1 DEF TypeInv, TypeOK
<1>3. PICK reason \in Reasons : objs' = [objs EXCEPT ![d] = [objs[d] EXCEPT !.reason = reason]]
  <2>1. CASE objs[d].reason = "unset"
    BY <2>1 DEF UpdateDatasetStatus, Reasons
  <2>2. CASE objs[d].reason # "unset"
    BY <1>2, <2>2 DEF UpdateDatasetStatus, Records
  <2> QED
    BY <2>1, <2>2
<1> QED
  BY <1>1, <1>2, <1>3 DEF Records, TypeInv, TypeOK

LEMMA ControllerType ==
  ASSUME TypeInv, ModelStep \/ DatasetStep \/ ServerStep
  PROVE  TypeInv'
<1>1. {"model", "dataset", "server"} \subseteq Controllers
      /\ {"base", "dataset", "status", "create", "get", "write"} \subseteq Steps \ {"idle"}
  BY DEF Controllers, Steps
<1>2. ASSUME NEW m \in Models, ReconcileModel(m) PROVE TypeInv'
  BY <1>1, <1>2, TakeType DEF ReconcileModel, Kind
<1>3. ASSUME NEW d \in Datasets, ReconcileDataset(d) PROVE TypeInv'
  BY <1>1, <1>3, TakeType DEF ReconcileDataset, Kind
<1>4. ASSUME NEW s \in Servers, ReconcileServer(s) PROVE TypeInv'
  BY <1>1, <1>4, TakeType DEF ReconcileServer, Kind
<1>5. CASE CheckBaseModel \/ CheckDataset \/ CheckModel
  BY <1>1, <1>5, CheckInputType DEF CheckBaseModel, CheckDataset, CheckModel
<1>6. CASE UpdateDatasetStatus
  <2>1. worker' \in [Controllers -> Workers] /\ WorkerKeys'
    BY <1>1, <1>6, GoToType DEF UpdateDatasetStatus
  <2>2. objs' \in [Names -> Records]
    BY <1>6, LocatedObject
  <2>3. fresh' \in [Names -> SUBSET {"cache", "worker"}]
    BY <1>6 DEF UpdateDatasetStatus, TypeInv, TypeOK
  <2> QED
    BY <1>6, <2>1, <2>2, <2>3 DEF UpdateDatasetStatus, TypeInv, TypeOK
<1>7. ASSUME NEW c \in {"model", "dataset", "server"},
             \/ c # "server" /\ CreateJob(c)
             \/ GetJob(c) \/ WriteStatus(c) \/ Conflict(c)
      PROVE TypeInv'
  BY <1>1, <1>7, CreateJobType, GetJobType, WriteStatusType, EndType
<1>8. CASE ModelStep
  BY <1>2, <1>5, <1>7, <1>8 DEF ModelStep
<1>9. CASE DatasetStep
  BY <1>3, <1>6, <1>7, <1>9 DEF DatasetStep
<1>10. CASE ServerStep
  BY <1>4, <1>5, <1>7, <1>10, ServerOwnType DEF ServerStep
<1> QED
  BY <1>8, <1>9, <1>10

LEMMA TypeStep == TypeInv /\ [Next]_vars => TypeInv'
<1> SUFFICES ASSUME TypeInv, [Next]_vars
             PROVE  TypeInv'
  OBVIOUS
<1>1. CASE ClusterNext
  BY <1>1, UserType, BuildType, JobType, DeployType, SyncObjectType DEF ClusterNext
<1>2. CASE \/ \E c \in Controllers : CallFails(c)
           \/ \E c \in {"model", "dataset"} : JobCallFails(c)
  BY <1>2, EndType, JobCallFailsType
<1>3. CASE UNCHANGED vars
  BY <1>3 DEF vars, TypeInv, TypeOK, WorkerKeys
<1> QED
  BY <1>1, <1>2, <1>3, ControllerType, RestartType DEF Next

\* Objects, Jobs, Deployments, queues and workers keep their types, and each
\* worker handles only objects of its own kind, for any graph of objects.
THEOREM WorkloadTypes == Spec => []TypeOK
<1>1. TypeInv => TypeOK
  BY DEF TypeInv
<1> QED
  BY <1>1, TypeInit, TypeStep, PTL DEF Spec

(***************************************************************************)
(* Readiness is never lost to a late status write.  The reason is the      *)
(* resourceVersion: a copy that carries the current one is the object, and *)
(* the Models and Datasets that workers take are unready.                  *)
(***************************************************************************)

\* An informer's copy that is current is the object.
CacheIsObject == \A o \in Names : "cache" \in fresh[o] => cache[o] = objs[o]

\* A worker's copy that is current is one of an object that is still unready.
WorkerSawUnready == \A o \in Jobbers : "worker" \in fresh[o] => ~objs[o].ready

FreshInv == TypeInv /\ CacheIsObject /\ WorkerSawUnready

LEMMA FreshInit == Init => FreshInv
BY TypeInit
DEF Init, ClusterInit, FreshInv, CacheIsObject, WorkerSawUnready, Jobbers, Names

\* A changed object leaves no copy current.
LEMMA StoreFresh ==
  ASSUME FreshInv, NEW o \in Names, NEW record, Store(o, record), UNCHANGED cache
  PROVE  CacheIsObject' /\ WorkerSawUnready'
BY DEF Store, FreshInv, CacheIsObject, WorkerSawUnready, TypeInv, TypeOK, Jobbers, Names

LEMMA ObjectFresh ==
  ASSUME FreshInv, NEW o \in Names,
         \/ \E image \in Images : Create(o, image) \/ ChangeImage(o, image)
         \/ Delete(o) \/ WithdrawReady(o) \/ ReleaseImage(o)
  PROVE  CacheIsObject' /\ WorkerSawUnready'
<1>1. UNCHANGED cache
  BY DEF Create, ChangeImage, Delete, WithdrawReady, ReleaseImage
<1>2. \E record : Store(o, record)
  <2>1. ASSUME NEW image \in Images, Create(o, image)
        PROVE  \E record : Store(o, record)
    BY <2>1 DEF Create
  <2>2. ASSUME NEW image \in Images, ChangeImage(o, image)
        PROVE  \E record : Store(o, record)
    BY <2>2 DEF ChangeImage
  <2>3. CASE Delete(o) \/ WithdrawReady(o) \/ ReleaseImage(o)
    BY <2>3 DEF Delete, WithdrawReady, ReleaseImage
  <2> QED
    BY <2>1, <2>2, <2>3
<1> QED
  BY <1>1, <1>2, StoreFresh

\* Without a new copy or a change of an object there is nothing to show.
LEMMA LessFresh ==
  ASSUME FreshInv, UNCHANGED <<objs, cache>>,
         \A o \in Names : fresh'[o] \subseteq fresh[o]
  PROVE  CacheIsObject' /\ WorkerSawUnready'
BY DEF FreshInv, CacheIsObject, WorkerSawUnready, Jobbers, Names

LEMMA SyncFresh ==
  ASSUME FreshInv, NEW o \in Names, SyncObject(o)
  PROVE  CacheIsObject' /\ WorkerSawUnready'
BY DEF SyncObject, FreshInv, CacheIsObject, WorkerSawUnready, TypeInv, TypeOK, Jobbers, Names

\* A worker's copy is as current as the cache that it was taken from.
LEMMA TakeFresh ==
  ASSUME FreshInv, NEW c \in Controllers, NEW o \in Names, NEW skip, NEW step,
         Take(c, o, skip, step), o \in Jobbers => (skip <=> cache[o].ready)
  PROVE  CacheIsObject' /\ WorkerSawUnready'
<1>1. UNCHANGED <<objs, cache>>
  BY DEF Take
<1>2. CASE UNCHANGED fresh
  BY <1>1, <1>2, LessFresh
<1>3. CASE /\ ~skip
           /\ "cache" \in fresh[o]
           /\ fresh' = [fresh EXCEPT ![o] = @ \cup {"worker"}]
  BY <1>1, <1>3
  DEF FreshInv, CacheIsObject, WorkerSawUnready, TypeInv, TypeOK, Jobbers, Names
<1> QED
  BY <1>2, <1>3 DEF Take, FreshInv, TypeInv, TypeOK

LEMMA WriteFresh ==
  ASSUME FreshInv, NEW c \in Controllers, WriteStatus(c)
  PROVE  CacheIsObject' /\ WorkerSawUnready'
<1>1. worker[c].key \in Names
  BY KindFacts DEF WriteStatus, FreshInv, TypeInv, TypeOK, WorkerKeys
<1> QED
  BY <1>1
  DEF WriteStatus, FreshInv, CacheIsObject, WorkerSawUnready, TypeInv, TypeOK, Jobbers, Names

LEMMA EndFresh ==
  ASSUME FreshInv, NEW c \in Controllers, CallFails(c) \/ GetDeployment
  PROVE  CacheIsObject' /\ WorkerSawUnready'
<1>1. \/ UNCHANGED fresh
      \/ \E o : fresh' = [fresh EXCEPT ![o] = @ \ {"worker"}]
  BY DEF CallFails, GetDeployment
<1>2. \A o \in Names : fresh'[o] \subseteq fresh[o]
  BY <1>1 DEF FreshInv, TypeInv, TypeOK
<1>3. UNCHANGED <<objs, cache>>
  BY DEF CallFails, GetDeployment
<1> QED
  BY <1>2, <1>3, LessFresh

LEMMA RestartFresh ==
  ASSUME FreshInv, Restart
  PROVE  CacheIsObject' /\ WorkerSawUnready'
BY DEF Restart, CacheIsObject, WorkerSawUnready, Jobbers, Names

LEMMA LocateFresh ==
  ASSUME FreshInv, UpdateDatasetStatus
  PROVE  CacheIsObject' /\ WorkerSawUnready'
<1> DEFINE d == worker["dataset"].key
<1>1. \A o \in Names : objs'[o].ready = objs[o].ready
  BY LocatedObject DEF FreshInv
<1>2. \A o \in Names : fresh'[o] \subseteq fresh[o]
  BY DEF UpdateDatasetStatus, FreshInv, TypeInv, TypeOK
<1>3. \A o \in Names : "cache" \in fresh'[o] => objs'[o] = objs[o]
  BY DEF UpdateDatasetStatus, FreshInv, TypeInv, TypeOK
<1>4. UNCHANGED cache
  BY DEF UpdateDatasetStatus
<1> QED
  BY <1>1, <1>2, <1>3, <1>4
  DEF FreshInv, CacheIsObject, WorkerSawUnready, Jobbers, Names

\* The steps that touch neither objects nor copies.
LEMMA QuietFresh ==
  ASSUME FreshInv, UNCHANGED <<objs, fresh, cache>>
  PROVE  CacheIsObject' /\ WorkerSawUnready'
BY LessFresh

LEMMA ControllerFresh ==
  ASSUME FreshInv, ModelStep \/ DatasetStep \/ ServerStep
  PROVE  CacheIsObject' /\ WorkerSawUnready'
<1>1. {"model", "dataset", "server"} \subseteq Controllers
  BY DEF Controllers
<1>2. ASSUME NEW m \in Models, ReconcileModel(m)
      PROVE  CacheIsObject' /\ WorkerSawUnready'
  BY <1>1, <1>2, TakeFresh DEF ReconcileModel, Names, Jobbers
<1>3. ASSUME NEW d \in Datasets, ReconcileDataset(d)
      PROVE  CacheIsObject' /\ WorkerSawUnready'
  BY <1>1, <1>3, TakeFresh DEF ReconcileDataset, Names, Jobbers
<1>4. ASSUME NEW s \in Servers, ReconcileServer(s)
      PROVE  CacheIsObject' /\ WorkerSawUnready'
  <2>1. s \in Names /\ s \notin Jobbers
    BY WorkloadAssumption DEF Names, Jobbers
  <2> QED
    BY <1>1, <1>4, <2>1, TakeFresh DEF ReconcileServer
<1>5. CASE CheckBaseModel \/ CheckDataset \/ CheckModel \/ ApplyDeployment
  BY <1>5, QuietFresh
  DEF CheckBaseModel, CheckDataset, CheckModel, CheckInput, ApplyDeployment
<1>6. ASSUME NEW c \in Controllers, CreateJob(c) \/ GetJob(c) \/ Conflict(c)
      PROVE  CacheIsObject' /\ WorkerSawUnready'
  BY <1>6, QuietFresh DEF CreateJob, GetJob, Conflict
<1>7. CASE ModelStep
  BY <1>1, <1>2, <1>5, <1>6, <1>7, WriteFresh DEF ModelStep
<1>8. CASE DatasetStep
  BY <1>1, <1>3, <1>6, <1>8, LocateFresh, WriteFresh DEF DatasetStep
<1>9. CASE ServerStep
  BY <1>1, <1>4, <1>5, <1>6, <1>9, WriteFresh, EndFresh DEF ServerStep
<1> QED
  BY <1>7, <1>8, <1>9

LEMMA FreshStep == FreshInv /\ [Next]_vars => FreshInv'
<1> SUFFICES ASSUME FreshInv, [Next]_vars
             PROVE  CacheIsObject' /\ WorkerSawUnready'
  BY TypeStep DEF FreshInv
<1>1. CASE ClusterNext
  <2>1. ASSUME NEW o \in Jobbers, JobCompletes(o) \/ JobFails(o) \/ CollectJob(o) \/ SyncJob(o)
        PROVE  UNCHANGED <<objs, fresh, cache>>
    BY <2>1 DEF JobCompletes, JobFails, CollectJob, SyncJob
  <2>2. ASSUME NEW s \in Servers,
               PodsReady(s) \/ PodsFail(s) \/ CollectDeployment(s) \/ SyncDeployment(s)
        PROVE  UNCHANGED <<objs, fresh, cache>>
    BY <2>2 DEF PodsReady, PodsFail, CollectDeployment, SyncDeployment
  <2> QED
    BY <1>1, <2>1, <2>2, ObjectFresh, SyncFresh, QuietFresh DEF ClusterNext
<1>2. ASSUME NEW c \in Controllers, CallFails(c)
      PROVE  CacheIsObject' /\ WorkerSawUnready'
  BY <1>2, EndFresh
<1>3. ASSUME NEW c \in {"model", "dataset"}, JobCallFails(c)
      PROVE  CacheIsObject' /\ WorkerSawUnready'
  BY <1>3, QuietFresh DEF JobCallFails
<1>4. CASE UNCHANGED vars
  BY <1>4, QuietFresh DEF vars
<1> QED
  BY <1>1, <1>2, <1>3, <1>4, ControllerFresh, RestartFresh DEF Next

\* Copies that pass the API server's check of the resourceVersion are what
\* they were taken for.
THEOREM FreshInvariant == Spec => []FreshInv
BY FreshInit, FreshStep, PTL DEF Spec

(***************************************************************************)
(* What a step does to an object that is ready and built.                  *)
(***************************************************************************)
Kept(o) ==
  /\ objs[o].ready
  /\ objs[o].image = objs[o].wanted
  /\ objs'[o].uid = objs[o].uid
  => objs'[o].ready

\* Deleted and created objects get another uid, other changes of users leave
\* the status, and builds touch it only while another image is wanted.
LEMMA ObjectKept ==
  ASSUME FreshInv, NEW o \in Names,
         \/ \E image \in Images : Create(o, image) \/ ChangeImage(o, image)
         \/ Delete(o) \/ WithdrawReady(o) \/ ReleaseImage(o)
  PROVE  \A p \in Names : Kept(p)
<1>1. /\ objs \in [Names -> Records]
      /\ objs[o] \in Records
  BY DEF FreshInv, TypeInv, TypeOK
<1>2. ASSUME NEW image \in Images, Create(o, image)
      PROVE  \A p \in Names : Kept(p)
  <2>1. objs[o].uid = 0
    BY <1>2 DEF Create, Exists
  <2>2. objs' = [objs EXCEPT ![o] = [Absent EXCEPT !.uid = edits', !.wanted = image]]
    BY <1>2 DEF Create, Store
  <2>3. objs'[o].uid # 0
    <3>1. edits \in Nat
      BY WorkloadAssumption DEF FreshInv, TypeInv, TypeOK
    <3>2. edits' = edits + 1
      BY <1>2 DEF Create, Edit
    <3> QED
      BY <1>1, <2>2, <3>1, <3>2 DEF Absent
  <2> QED
    BY <1>1, <2>1, <2>2, <2>3 DEF Kept
<1>3. ASSUME NEW image \in Images, ChangeImage(o, image)
      PROVE  \A p \in Names : Kept(p)
  <2>1. PICK now : objs' = [objs EXCEPT ![o] = [objs[o] EXCEPT !.wanted = image, !.image = now]]
    BY <1>3 DEF ChangeImage, Store
  <2>2. objs'[o].ready = objs[o].ready /\ \A p \in Names \ {o} : objs'[p] = objs[p]
    BY <1>1, <2>1 DEF Records
  <2> QED
    BY <2>2 DEF Kept
<1>4. CASE Delete(o)
  BY <1>1, <1>4 DEF Delete, Exists, Store, Kept, Absent
<1>5. CASE WithdrawReady(o) \/ ReleaseImage(o)
  BY <1>1, <1>5 DEF WithdrawReady, ReleaseImage, Store, Kept, Records
<1> QED
  BY <1>2, <1>3, <1>4, <1>5

\* A status write goes to an object that is unready.
LEMMA WriteKept ==
  ASSUME FreshInv, NEW c \in Controllers, WriteStatus(c)
  PROVE  \A o \in Jobbers : Kept(o)
BY DEF WriteStatus, Kept, FreshInv, WorkerSawUnready, TypeInv, TypeOK, Jobbers, Names

\* The artifacts URL leaves readiness alone, and no other step of a controller
\* writes an object.
LEMMA ControllerKept ==
  ASSUME FreshInv, ModelStep \/ DatasetStep \/ ServerStep
  PROVE  \A o \in Jobbers : Kept(o)
<1>1. \/ \E c \in Controllers : WriteStatus(c)
      \/ UpdateDatasetStatus
      \/ UNCHANGED objs
  BY DEF ModelStep, DatasetStep, ServerStep, Controllers, ReconcileModel,
         ReconcileDataset, ReconcileServer, Take, CheckBaseModel, CheckDataset,
         CheckModel, CheckInput, ApplyDeployment, GetDeployment, CreateJob,
         GetJob, Conflict
<1>2. CASE UpdateDatasetStatus
  BY <1>2, LocatedObject DEF Kept, FreshInv, Jobbers, Names
<1> QED
  BY <1>1, <1>2, WriteKept DEF Kept

\* A Model or Dataset that is ready stays ready, however old the copies are
\* that workers hold, for any graph of objects and any number of faults.
THEOREM ReadinessIsKept == Spec => ReadyIsKept
<1>1. FreshInv /\ [Next]_vars => \A o \in Jobbers : Kept(o)
  <2> SUFFICES ASSUME FreshInv, [Next]_vars
               PROVE  \A o \in Jobbers : Kept(o)
    OBVIOUS
  <2>1. CASE UNCHANGED objs
    BY <2>1 DEF Kept
  <2>2. CASE \E o \in Names :
               \/ \E image \in Images : Create(o, image) \/ ChangeImage(o, image)
               \/ Delete(o) \/ WithdrawReady(o) \/ ReleaseImage(o)
    BY <2>2, ObjectKept DEF Names
  <2>3. CASE ClusterNext
    BY <2>1, <2>2, <2>3
    DEF ClusterNext, SyncObject, JobCompletes, JobFails, CollectJob, SyncJob,
        PodsReady, PodsFail, CollectDeployment, SyncDeployment
  <2> QED
    BY <2>1, <2>3, ControllerKept DEF Next, CallFails, JobCallFails, Restart, vars
<1>2. FreshInv /\ [Next]_vars
        => [\A o \in Jobbers :
              /\ objs[o].ready
              /\ objs[o].image = objs[o].wanted
              /\ objs'[o].uid = objs[o].uid
              => objs'[o].ready]_vars
  BY <1>1 DEF Kept
<1> QED
  BY <1>2, FreshInvariant, PTL DEF Spec, ReadyIsKept
=============================================================================
