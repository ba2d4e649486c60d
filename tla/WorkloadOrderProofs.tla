------------------------ MODULE WorkloadOrderProofs ------------------------
(***************************************************************************)
(* Workloads: the order of the work, for any graph of objects.  The        *)
(* inductive invariant follows a completed Job along every copy that can   *)
(* speak of it: Job, cached Job, decision of a worker, status, cached      *)
(* status, and the place where the next worker stands because it read it.  *)
(***************************************************************************)
EXTENDS WorkloadProofs

USE DEF othersUnchanged, ownedVars, workVars

\* A ready status and its cached copy speak of a completed Job.
StatusEarned ==
  \A o \in Jobbers : objs[o].ready \/ cache[o].ready => o \in completed

\* So do a complete Job and its cached copy.
JobEarned ==
  \A o \in Jobbers :
    jobs[o].state = "complete" \/ jobCache[o].state = "complete" => o \in completed

\* So does a worker that has decided to write "ready".
DecisionEarned ==
  \A c \in Controllers :
    worker[c].step # "idle" /\ worker[c].key \in Jobbers /\ worker[c].copy.ready
      => worker[c].key \in completed

Done(i) == i \in completed \cup {None}

\* The model worker stands behind the checks that it has passed.
ModelChecked ==
  LET w == worker["model"]
  IN  /\ w.step \in {"dataset", "create"} => Done(BaseOf[w.key])
      /\ w.step = "create" => Done(DataOf[w.key])

\* So does the server worker.
ServerChecked ==
  worker["server"].step = "create" => ModelOf[worker["server"].key] \in completed

JobsInOrder ==
  \A m \in Models : jobs[m] # NoJob => Done(BaseOf[m]) /\ Done(DataOf[m])

DeploysInOrder ==
  \A s \in Servers : deploys[s] # NoDeploy => ModelOf[s] \in completed

WorkerParts  == DecisionEarned /\ ModelChecked /\ ServerChecked
ClusterParts == StatusEarned /\ JobEarned /\ JobsInOrder /\ DeploysInOrder

OrderInv == TypeInv /\ ClusterParts /\ WorkerParts

\* What is read of a worker's record after each way of changing it.
LEMMA WorkerKeyFacts ==
  ASSUME TypeInv
  PROVE  /\ "model" \in Controllers /\ "dataset" \in Controllers
         /\ "server" \in Controllers
         /\ worker \in [Controllers -> Workers]
         /\ worker["model"].step # "idle" => worker["model"].key \in Models
         /\ worker["dataset"].step # "idle" => worker["dataset"].key \in Datasets
         /\ worker["server"].step # "idle" => worker["server"].key \in Servers
BY DEF TypeInv, TypeOK, WorkerKeys, Kind, Controllers

LEMMA OrderInit == Init => OrderInv
<1> SUFFICES ASSUME Init PROVE OrderInv
  OBVIOUS
<1>1. TypeInv
  BY TypeInit
<1>2. Models \subseteq Jobbers /\ Jobbers \subseteq Names
  BY DEF Names, Jobbers
<1>3. ClusterParts
  BY <1>2
  DEF Init, ClusterInit, ClusterParts, StatusEarned, JobEarned, JobsInOrder,
      DeploysInOrder, Absent, NoJob
<1>4. WorkerParts
  BY DEF Init, WorkerInit, WorkerParts, DecisionEarned, ModelChecked,
         ServerChecked, Idle, Controllers
<1> QED
  BY <1>1, <1>3, <1>4 DEF OrderInv

\* Nothing but the Job matters to a worker that does not move.
LEMMA WorkersKept ==
  ASSUME WorkerParts, UNCHANGED worker, completed \subseteq completed'
  PROVE  WorkerParts'
BY DEF WorkerParts, DecisionEarned, ModelChecked, ServerChecked, Done

\* Storing an object that is not ready, or was, keeps StatusEarned.
LEMMA StoreEarned ==
  ASSUME OrderInv, NEW o \in Names, NEW record \in Records, Store(o, record),
         o \in Jobbers /\ record.ready => o \in completed, UNCHANGED <<cache, completed>>
  PROVE  StatusEarned'
BY DEF OrderInv, ClusterParts, StatusEarned, Store, TypeInv, TypeOK, Names

LEMMA UserOrder ==
  ASSUME OrderInv,
         \/ \E o \in Names, image \in Images : Create(o, image) \/ ChangeImage(o, image)
         \/ \E o \in Names : Delete(o) \/ WithdrawReady(o) \/ ReleaseImage(o)
  PROVE  ClusterParts' /\ WorkerParts'
<1>1. /\ UNCHANGED <<cache, jobs, jobCache, deploys, completed, worker>>
      /\ edits' \in 0..MaxEdits
  BY EditType
  DEF Create, ChangeImage, Delete, WithdrawReady, ReleaseImage, OrderInv, TypeInv, TypeOK
<1>2. /\ WorkerParts'
      /\ JobEarned'
      /\ JobsInOrder'
      /\ DeploysInOrder'
  BY <1>1, WorkersKept
  DEF OrderInv, ClusterParts, JobEarned, JobsInOrder, DeploysInOrder, Done
<1>3. PICK o \in Names : \E image \in Images \cup {None} :
        \/ image # None /\ (Create(o, image) \/ ChangeImage(o, image))
        \/ Delete(o) \/ WithdrawReady(o) \/ ReleaseImage(o)
  BY WorkloadAssumption
<1>4. objs[o] \in Records
  BY DEF OrderInv, TypeInv, TypeOK
<1>5. \E record \in Records :
        /\ Store(o, record)
        /\ record.ready => objs[o].ready
  <2>1. ASSUME NEW image \in Images, Create(o, image)
        PROVE  <1>5!:
    <3>1. [Absent EXCEPT !.uid = edits', !.wanted = image] \in Records
      BY <1>1, KindFacts DEF Absent, Records
    <3> QED
      BY <2>1, <3>1 DEF Create, Absent
  <2>2. ASSUME NEW image \in Images, ChangeImage(o, image)
        PROVE  <1>5!:
    <3>1. PICK now \in {None, objs[o].image} :
            Store(o, [objs[o] EXCEPT !.wanted = image, !.image = now])
      BY <2>2 DEF ChangeImage
    <3> DEFINE changed == [objs[o] EXCEPT !.wanted = image, !.image = now]
    <3>2. changed \in Records /\ changed.ready = objs[o].ready
      BY <1>4, <3>1 DEF Records
    <3> QED
      BY <3>1, <3>2
  <2>3. CASE Delete(o)
    BY <2>3, KindFacts DEF Delete, Absent
  <2>4. CASE WithdrawReady(o)
    BY <1>4, <2>4 DEF WithdrawReady, Records
  <2>5. CASE ReleaseImage(o)
    BY <1>4, <2>5 DEF ReleaseImage, Records
  <2> QED
    BY <1>3, <2>1, <2>2, <2>3, <2>4, <2>5
<1>6. StatusEarned'
  BY <1>1, <1>5, StoreEarned DEF OrderInv, ClusterParts, StatusEarned
<1> QED
  BY <1>2, <1>6 DEF ClusterParts

LEMMA JobOrder ==
  ASSUME OrderInv, NEW o \in Jobbers,
         JobCompletes(o) \/ JobFails(o) \/ CollectJob(o) \/ SyncJob(o)
  PROVE  ClusterParts' /\ WorkerParts'
<1>1. UNCHANGED <<objs, cache, deploys, worker>> /\ completed \subseteq completed'
  BY DEF JobCompletes, JobFails, CollectJob, SyncJob
<1>2. WorkerParts' /\ StatusEarned' /\ DeploysInOrder'
  BY <1>1, WorkersKept DEF OrderInv, ClusterParts, StatusEarned, DeploysInOrder
<1>3. /\ jobs \in [Jobbers -> JobRecords]
      /\ jobCache \in [Jobbers -> JobRecords]
      /\ NoJob.state = "absent"
  BY DEF OrderInv, TypeInv, TypeOK, NoJob
<1>4. JobEarned'
  BY <1>3
  DEF JobCompletes, JobFails, CollectJob, SyncJob, OrderInv, ClusterParts, JobEarned,
      JobRecords
<1>5. \A m \in Models : jobs'[m] # NoJob => jobs[m] # NoJob
  BY <1>3 DEF JobCompletes, JobFails, CollectJob, SyncJob, Jobbers
<1>6. JobsInOrder'
  BY <1>1, <1>5 DEF OrderInv, ClusterParts, JobsInOrder, Done
<1> QED
  BY <1>2, <1>4, <1>6 DEF ClusterParts

LEMMA DeployOrder ==
  ASSUME OrderInv, NEW s \in Servers,
         PodsReady(s) \/ PodsFail(s) \/ CollectDeployment(s) \/ SyncDeployment(s)
  PROVE  ClusterParts' /\ WorkerParts'
<1>1. UNCHANGED <<objs, cache, jobs, jobCache, completed, worker>>
  BY DEF PodsReady, PodsFail, CollectDeployment, SyncDeployment
<1>2. /\ WorkerParts'
      /\ StatusEarned'
      /\ JobEarned'
      /\ JobsInOrder'
  BY <1>1, WorkersKept
  DEF OrderInv, ClusterParts, StatusEarned, JobEarned, JobsInOrder, Done
<1>3. deploys \in [Servers -> DeployRecords] /\ ~NoDeploy.available
  BY DEF OrderInv, TypeInv, TypeOK, NoDeploy
<1>4. \A t \in Servers : deploys'[t] # NoDeploy => deploys[t] # NoDeploy
  BY <1>3 DEF PodsReady, PodsFail, CollectDeployment, SyncDeployment
<1>5. DeploysInOrder'
  BY <1>1, <1>4 DEF OrderInv, ClusterParts, DeploysInOrder
<1> QED
  BY <1>2, <1>5 DEF ClusterParts

LEMMA SyncObjectOrder ==
  ASSUME OrderInv, NEW o \in Names, SyncObject(o)
  PROVE  ClusterParts' /\ WorkerParts'
<1>1. UNCHANGED <<objs, jobs, jobCache, deploys, completed, worker>>
  BY DEF SyncObject
<1>2. /\ WorkerParts'
      /\ JobEarned'
      /\ JobsInOrder'
      /\ DeploysInOrder'
  BY <1>1, WorkersKept
  DEF OrderInv, ClusterParts, JobEarned, JobsInOrder, DeploysInOrder, Done
<1>3. StatusEarned'
  BY DEF SyncObject, OrderInv, TypeInv, TypeOK, ClusterParts, StatusEarned
<1> QED
  BY <1>2, <1>3 DEF ClusterParts

(***************************************************************************)
(* The ways in which a worker moves.                                       *)
(***************************************************************************)
LEMMA GoToOrder ==
  ASSUME OrderInv, NEW c \in Controllers, NEW step \in Steps, GoTo(c, step),
         worker[c].step # "idle", UNCHANGED completed,
         c = "model" /\ step \in {"dataset", "create"} => Done(BaseOf[worker[c].key]),
         c = "model" /\ step = "create" => Done(DataOf[worker[c].key]),
         c = "server" /\ step = "create" => ModelOf[worker[c].key] \in completed
  PROVE  WorkerParts'
<1>1. /\ worker' = [worker EXCEPT ![c] = [worker[c] EXCEPT !.step = step]]
      /\ worker \in [Controllers -> Workers]
      /\ worker[c] \in Workers
  BY WorkerKeyFacts DEF GoTo, OrderInv
<1>2. /\ worker'[c].key = worker[c].key
      /\ worker'[c].copy = worker[c].copy
      /\ worker'[c].step = step
      /\ \A e \in Controllers \ {c} : worker'[e] = worker[e]
  BY <1>1 DEF Workers
<1>3. DecisionEarned'
  BY <1>2 DEF OrderInv, WorkerParts, DecisionEarned
<1>4. ModelChecked' /\ ServerChecked'
  BY <1>2, WorkerKeyFacts DEF OrderInv, WorkerParts, ModelChecked, ServerChecked, Done
<1> QED
  BY <1>3, <1>4 DEF WorkerParts

LEMMA DecideOrder ==
  ASSUME OrderInv, NEW c \in Controllers, NEW ready \in BOOLEAN,
         NEW reason, NEW requeue, Decide(c, ready, reason, requeue),
         UNCHANGED completed, worker[c].step # "idle",
         worker[c].key \in Jobbers /\ ready => worker[c].key \in completed
  PROVE  WorkerParts'
<1>1. /\ worker \in [Controllers -> Workers]
      /\ worker[c] \in Workers
      /\ worker[c].copy \in Records
  BY WorkerKeyFacts DEF OrderInv, Workers
<1>2. /\ worker'[c].key = worker[c].key
      /\ worker'[c].copy.ready = ready
      /\ worker'[c].step = "write"
      /\ \A e \in Controllers \ {c} : worker'[e] = worker[e]
  BY <1>1 DEF Decide, Workers, Records
<1>3. DecisionEarned'
  BY <1>2 DEF OrderInv, WorkerParts, DecisionEarned
<1>4. ModelChecked' /\ ServerChecked'
  BY <1>2, WorkerKeyFacts DEF OrderInv, WorkerParts, ModelChecked, ServerChecked, Done
<1> QED
  BY <1>3, <1>4 DEF WorkerParts

LEMMA ReturnOrder ==
  ASSUME OrderInv, NEW c \in Controllers, NEW requeue, Return(c, requeue),
         UNCHANGED completed
  PROVE  WorkerParts'
<1>1. worker' = [worker EXCEPT ![c] = Idle] /\ worker \in [Controllers -> Workers]
  BY WorkerKeyFacts DEF Return, OrderInv
<1>2. worker'[c].step = "idle" /\ \A e \in Controllers \ {c} : worker'[e] = worker[e]
  BY <1>1, KindFacts
<1>3. DecisionEarned'
  BY <1>2 DEF OrderInv, WorkerParts, DecisionEarned
<1>4. ModelChecked' /\ ServerChecked'
  BY <1>2, WorkerKeyFacts DEF OrderInv, WorkerParts, ModelChecked, ServerChecked, Done
<1> QED
  BY <1>3, <1>4 DEF WorkerParts

LEMMA TakeOrder ==
  ASSUME OrderInv, NEW c \in Controllers, NEW o \in Kind(c), NEW skip,
         NEW step \in {"base", "status"}, Take(c, o, skip, step)
  PROVE  ClusterParts' /\ WorkerParts'
<1>1. UNCHANGED <<objs, cache, jobs, jobCache, deploys, completed>>
  BY DEF Take
<1>2. ClusterParts'
  BY <1>1
  DEF OrderInv, ClusterParts, StatusEarned, JobEarned, JobsInOrder, DeploysInOrder, Done
<1>3. CASE UNCHANGED worker
  BY <1>1, <1>2, <1>3, WorkersKept DEF OrderInv
<1>4. CASE worker' = [worker EXCEPT ![c] =
             [key |-> o, step |-> step, copy |-> cache[o], requeue |-> FALSE]]
  <2>1. /\ worker'[c].key = o
        /\ worker'[c].copy = cache[o]
        /\ worker'[c].step = step
        /\ \A e \in Controllers \ {c} : worker'[e] = worker[e]
    BY <1>4, WorkerKeyFacts DEF OrderInv
  <2>2. DecisionEarned'
    BY <1>1, <2>1
    DEF OrderInv, WorkerParts, ClusterParts, StatusEarned, DecisionEarned
  <2>3. ModelChecked' /\ ServerChecked'
    BY <1>1, <2>1, WorkerKeyFacts
    DEF OrderInv, WorkerParts, ModelChecked, ServerChecked, Done
  <2> QED
    BY <1>2, <2>2, <2>3 DEF WorkerParts
<1> QED
  BY <1>3, <1>4 DEF Take

\* Steps of a worker that change no object, Job or Deployment.
LEMMA ClusterKept ==
  ASSUME OrderInv,
         UNCHANGED <<objs, cache, jobs, jobCache, deploys, completed>>
  PROVE  ClusterParts'
BY DEF OrderInv, ClusterParts, StatusEarned, JobEarned, JobsInOrder, DeploysInOrder,
       Done

LEMMA CheckOrder ==
  ASSUME OrderInv, CheckBaseModel \/ CheckDataset \/ CheckModel
  PROVE  ClusterParts' /\ WorkerParts'
<1>1. UNCHANGED <<objs, cache, jobs, jobCache, deploys, completed>>
  BY DEF CheckBaseModel, CheckDataset, CheckModel, CheckInput
<1>2. ClusterParts'
  BY <1>1, ClusterKept
<1>3. {"base", "dataset", "create"} \subseteq Steps /\ {"model", "server"} \subseteq Controllers
  BY DEF Steps, Controllers
<1>4. \A i \in Jobbers : cache[i].ready => i \in completed
  BY DEF OrderInv, ClusterParts, StatusEarned
<1>5. \A m \in Models : /\ BaseOf[m] \in Jobbers \cup {None}
                        /\ DataOf[m] \in Jobbers \cup {None}
  BY WorkloadAssumption DEF Jobbers
<1>6. \A s \in Servers : ModelOf[s] \in Jobbers /\ ModelOf[s] # None
  BY WorkloadAssumption DEF Jobbers, Names
<1>7. CASE CheckBaseModel
  <2> DEFINE m == worker["model"].key
  <2>1. m \in Models /\ worker["model"].step = "base"
    BY <1>7, WorkerKeyFacts DEF CheckBaseModel, CheckInput, OrderInv
  <2>2. CASE BaseOf[m] # None /\ ~cache[BaseOf[m]].ready
    <3>1. Decide("model", FALSE, "inputs", FALSE)
      BY <1>6, <1>7, <2>1, <2>2 DEF CheckBaseModel, CheckInput
    <3> QED
      BY <1>1, <1>2, <1>3, <2>1, <3>1, DecideOrder
  <2>3. CASE ~(BaseOf[m] # None /\ ~cache[BaseOf[m]].ready)
    <3>1. Done(BaseOf[m])
      BY <1>4, <1>5, <2>1, <2>3 DEF Done
    <3>2. GoTo("model", "dataset")
      BY <1>7, <2>3 DEF CheckBaseModel, CheckInput
    <3> QED
      BY <1>1, <1>2, <1>3, <2>1, <3>1, <3>2, GoToOrder
  <2> QED
    BY <2>2, <2>3
<1>8. CASE CheckDataset
  <2> DEFINE m == worker["model"].key
  <2>1. m \in Models /\ worker["model"].step = "dataset"
    BY <1>8, WorkerKeyFacts DEF CheckDataset, CheckInput, OrderInv
  <2>2. CASE DataOf[m] # None /\ ~cache[DataOf[m]].ready
    <3>1. Decide("model", FALSE, "inputs", FALSE)
      BY <1>6, <1>8, <2>1, <2>2 DEF CheckDataset, CheckInput
    <3> QED
      BY <1>1, <1>2, <1>3, <2>1, <3>1, DecideOrder
  <2>3. CASE ~(DataOf[m] # None /\ ~cache[DataOf[m]].ready)
    <3>1. Done(BaseOf[m]) /\ Done(DataOf[m])
      BY <1>4, <1>5, <2>1, <2>3 DEF Done, OrderInv, WorkerParts, ModelChecked
    <3>2. GoTo("model", "create")
      BY <1>8, <2>3 DEF CheckDataset, CheckInput
    <3> QED
      BY <1>1, <1>2, <1>3, <2>1, <3>1, <3>2, GoToOrder
  <2> QED
    BY <2>2, <2>3
<1>9. CASE CheckModel
  <2> DEFINE s == worker["server"].key
  <2>1. s \in Servers /\ worker["server"].step = "base"
    BY <1>9, WorkerKeyFacts DEF CheckModel, CheckInput, OrderInv
  <2>2. CASE ~cache[ModelOf[s]].ready
    <3>1. Decide("server", FALSE, "inputs", FALSE)
      BY <1>6, <1>9, <2>1, <2>2 DEF CheckModel, CheckInput
    <3> QED
      BY <1>1, <1>2, <1>3, <2>1, <3>1, DecideOrder
  <2>3. CASE cache[ModelOf[s]].ready
    <3>1. ModelOf[s] \in completed
      BY <1>4, <1>6, <2>1, <2>3
    <3>2. GoTo("server", "create")
      BY <1>9, <2>3 DEF CheckModel, CheckInput
    <3> QED
      BY <1>1, <1>2, <1>3, <2>1, <3>1, <3>2, GoToOrder
  <2> QED
    BY <2>2, <2>3
<1> QED
  BY <1>7, <1>8, <1>9

LEMMA UpdateDatasetOrder ==
  ASSUME OrderInv, UpdateDatasetStatus
  PROVE  ClusterParts' /\ WorkerParts'
<1>1. UNCHANGED <<cache, jobs, jobCache, deploys, completed>>
  BY DEF UpdateDatasetStatus, ownedVars
<1>2. WorkerParts'
  BY <1>1, GoToOrder, WorkerKeyFacts DEF UpdateDatasetStatus, OrderInv, Steps
<1>3. \A o \in Jobbers : objs'[o].ready = objs[o].ready
  BY LocatedObject DEF OrderInv, Names
<1>4. ClusterParts'
  BY <1>1, <1>3
  DEF OrderInv, ClusterParts, StatusEarned, JobEarned, JobsInOrder,
      DeploysInOrder, Done
<1> QED
  BY <1>2, <1>4

\* The worker that creates a Job has passed the checks for it.
LEMMA CreateJobOrder ==
  ASSUME OrderInv, NEW c \in {"model", "dataset"}, CreateJob(c)
  PROVE  ClusterParts' /\ WorkerParts'
<1> DEFINE o == worker[c].key
<1>1. /\ UNCHANGED <<objs, cache, jobCache, deploys, completed>>
      /\ worker[c].step = "create"
      /\ GoTo(c, "get")
      /\ c \in Controllers
  BY DEF CreateJob, Controllers
<1>2. WorkerParts'
  BY <1>1, GoToOrder DEF Steps
<1>3. /\ c = "model" => o \in Models
      /\ c = "dataset" => o \in Datasets /\ o \notin Models
      /\ o \in Jobbers
  BY <1>1, WorkerKeyFacts, WorkloadAssumption DEF OrderInv, Jobbers
<1>4. \/ UNCHANGED jobs
      \/ \E job : /\ jobs' = [jobs EXCEPT ![o] = job]
                  /\ job.state = "running"
  BY DEF CreateJob
<1>5. jobs \in [Jobbers -> JobRecords]
  BY DEF OrderInv, TypeInv, TypeOK
<1>6. StatusEarned' /\ DeploysInOrder'
  BY <1>1 DEF OrderInv, ClusterParts, StatusEarned, DeploysInOrder
<1>7. JobEarned'
  BY <1>1, <1>4, <1>5 DEF OrderInv, ClusterParts, JobEarned
<1>8. JobsInOrder'
  <2>1. c = "model" => Done(BaseOf[o]) /\ Done(DataOf[o])
    BY <1>1 DEF OrderInv, WorkerParts, ModelChecked
  <2>2. \A m \in Models : m # o => jobs'[m] = jobs[m]
    BY <1>4, <1>5 DEF Jobbers
  <2>3. ASSUME NEW m \in Models, jobs'[m] # NoJob
        PROVE  Done(BaseOf[m]) /\ Done(DataOf[m])
    BY <1>3, <2>1, <2>2, <2>3 DEF OrderInv, ClusterParts, JobsInOrder
  <2> QED
    BY <1>1, <2>3 DEF JobsInOrder, Done
<1> QED
  BY <1>2, <1>6, <1>7, <1>8 DEF ClusterParts

LEMMA GetJobOrder ==
  ASSUME OrderInv, NEW c \in {"model", "dataset"}, GetJob(c)
  PROVE  ClusterParts' /\ WorkerParts'
<1>1. UNCHANGED <<objs, cache, jobs, jobCache, deploys, completed>>
  BY DEF GetJob
<1>2. /\ worker[c].step = "get"
      /\ c \in Controllers
      /\ worker[c].key \in Jobbers
  BY WorkerKeyFacts DEF GetJob, OrderInv, Jobbers
<1>3. jobCache[worker[c].key].state = "complete" => worker[c].key \in completed
  BY <1>2 DEF OrderInv, ClusterParts, JobEarned
<1>4. WorkerParts'
  BY <1>1, <1>2, <1>3, DecideOrder DEF GetJob
<1> QED
  BY <1>1, <1>4, ClusterKept

LEMMA WriteStatusOrder ==
  ASSUME OrderInv, NEW c \in Controllers, WriteStatus(c)
  PROVE  ClusterParts' /\ WorkerParts'
<1> DEFINE o == worker[c].key
           written == WithStatus(o, worker[c].copy)
<1>1. UNCHANGED <<cache, jobs, jobCache, deploys, completed>>
  BY DEF WriteStatus
<1>2. WorkerParts'
  BY <1>1, ReturnOrder DEF WriteStatus
<1>3. /\ objs \in [Names -> Records]
      /\ objs' = [objs EXCEPT ![o] = written]
      /\ worker[c].step = "write"
      /\ Jobbers \subseteq Names
  BY DEF WriteStatus, OrderInv, TypeInv, TypeOK, Names
<1>4. o \in Names => written.ready = worker[c].copy.ready
  BY <1>3 DEF WithStatus, Records
<1>5. o \in Jobbers /\ worker[c].copy.ready => o \in completed
  BY <1>3 DEF OrderInv, WorkerParts, DecisionEarned
<1>6. StatusEarned'
  BY <1>1, <1>3, <1>4, <1>5 DEF OrderInv, ClusterParts, StatusEarned
<1>7. JobEarned' /\ JobsInOrder' /\ DeploysInOrder'
  BY <1>1 DEF OrderInv, ClusterParts, JobEarned, JobsInOrder, DeploysInOrder, Done
<1> QED
  BY <1>2, <1>6, <1>7 DEF ClusterParts

LEMMA EndOrder ==
  ASSUME OrderInv, NEW c \in Controllers, Conflict(c) \/ CallFails(c)
  PROVE  ClusterParts' /\ WorkerParts'
<1>1. UNCHANGED <<objs, cache, jobs, jobCache, deploys, completed>>
  BY DEF Conflict, CallFails
<1>2. Return(c, TRUE)
  BY DEF Conflict, CallFails
<1> QED
  BY <1>1, <1>2, ReturnOrder, ClusterKept

LEMMA JobCallFailsOrder ==
  ASSUME OrderInv, NEW c \in {"model", "dataset"}, JobCallFails(c)
  PROVE  ClusterParts' /\ WorkerParts'
<1>1. UNCHANGED <<objs, cache, jobs, jobCache, deploys, completed>>
  BY DEF JobCallFails
<1>2. WorkerParts'
  BY <1>1, DecideOrder DEF JobCallFails, Controllers
<1> QED
  BY <1>1, <1>2, ClusterKept

LEMMA RestartOrder ==
  ASSUME OrderInv, Restart
  PROVE  ClusterParts' /\ WorkerParts'
<1>1. /\ UNCHANGED <<objs, jobs, deploys, completed>>
      /\ cache' = objs
      /\ jobCache' = jobs
      /\ worker' = [c \in Controllers |-> Idle]
  BY DEF Restart
<1>2. ClusterParts'
  BY <1>1
  DEF OrderInv, ClusterParts, StatusEarned, JobEarned, JobsInOrder, DeploysInOrder, Done
<1>3. WorkerParts'
  BY <1>1, KindFacts
  DEF WorkerParts, DecisionEarned, ModelChecked, ServerChecked, Controllers, Idle
<1> QED
  BY <1>2, <1>3

LEMMA ServerOwnOrder ==
  ASSUME OrderInv, ApplyDeployment \/ GetDeployment
  PROVE  ClusterParts' /\ WorkerParts'
<1> DEFINE s == worker["server"].key
<1>1. /\ UNCHANGED <<objs, cache, jobs, jobCache, completed>>
      /\ "server" \in Controllers
      /\ s \in Servers
      /\ s \notin Jobbers
      /\ worker["server"].step # "idle"
  BY WorkerKeyFacts, WorkloadAssumption DEF ApplyDeployment, GetDeployment, OrderInv
<1>2. CASE ApplyDeployment
  <2>1. WorkerParts'
    BY <1>1, <1>2, GoToOrder DEF ApplyDeployment, Steps
  <2>2. ModelOf[s] \in completed
    BY <1>2 DEF ApplyDeployment, OrderInv, WorkerParts, ServerChecked
  <2>3. \A r \in Servers : r # s => deploys'[r] = deploys[r]
    BY <1>2 DEF ApplyDeployment, OrderInv, TypeInv, TypeOK
  <2>4. DeploysInOrder'
    BY <1>1, <2>2, <2>3 DEF OrderInv, ClusterParts, DeploysInOrder
  <2>5. StatusEarned' /\ JobEarned' /\ JobsInOrder'
    BY <1>1 DEF OrderInv, ClusterParts, StatusEarned, JobEarned, JobsInOrder, Done
  <2> QED
    BY <2>1, <2>4, <2>5 DEF ClusterParts
<1>3. CASE GetDeployment
  <2>1. UNCHANGED deploys
    BY <1>3 DEF GetDeployment
  <2>2. WorkerParts'
    BY <1>1, <1>3, DecideOrder, ReturnOrder DEF GetDeployment
  <2> QED
    BY <1>1, <2>1, <2>2, ClusterKept
<1> QED
  BY <1>2, <1>3

LEMMA ControllerOrder ==
  ASSUME OrderInv, ModelStep \/ DatasetStep \/ ServerStep
  PROVE  ClusterParts' /\ WorkerParts'
<1>1. {"model", "dataset", "server"} = Controllers
  BY DEF Controllers
<1>2. CASE ModelStep
  <2>1. ASSUME NEW m \in Models, ReconcileModel(m)
        PROVE  ClusterParts' /\ WorkerParts'
    BY <1>1, <2>1, TakeOrder DEF ReconcileModel, Kind
  <2> QED
    BY <1>1, <1>2, <2>1, CheckOrder, CreateJobOrder, GetJobOrder, WriteStatusOrder,
       EndOrder
    DEF ModelStep
<1>3. CASE DatasetStep
  <2>1. ASSUME NEW d \in Datasets, ReconcileDataset(d)
        PROVE  ClusterParts' /\ WorkerParts'
    BY <1>1, <2>1, TakeOrder DEF ReconcileDataset, Kind
  <2> QED
    BY <1>1, <1>3, <2>1, UpdateDatasetOrder, CreateJobOrder, GetJobOrder,
       WriteStatusOrder, EndOrder
    DEF DatasetStep
<1>4. CASE ServerStep
  <2>1. ASSUME NEW s \in Servers, ReconcileServer(s)
        PROVE  ClusterParts' /\ WorkerParts'
    BY <1>1, <2>1, TakeOrder DEF ReconcileServer, Kind
  <2> QED
    BY <1>1, <1>4, <2>1, CheckOrder, ServerOwnOrder, WriteStatusOrder, EndOrder
    DEF ServerStep
<1> QED
  BY <1>2, <1>3, <1>4

LEMMA OrderStep == OrderInv /\ [Next]_vars => OrderInv'
<1> SUFFICES ASSUME OrderInv, [Next]_vars
             PROVE  OrderInv'
  OBVIOUS
<1>1. TypeInv'
  BY TypeStep DEF OrderInv
<1>2. CASE ClusterNext
  BY <1>1, <1>2, UserOrder, JobOrder, DeployOrder, SyncObjectOrder
  DEF ClusterNext, OrderInv
<1>3. CASE ModelStep \/ DatasetStep \/ ServerStep
  BY <1>1, <1>3, ControllerOrder DEF OrderInv
<1>4. CASE \/ \E c \in Controllers : CallFails(c)
           \/ \E c \in {"model", "dataset"} : JobCallFails(c)
           \/ Restart
  BY <1>1, <1>4, EndOrder, JobCallFailsOrder, RestartOrder DEF OrderInv
<1>5. CASE UNCHANGED vars
  <2>1. UNCHANGED <<objs, cache, jobs, jobCache, deploys, completed, worker>>
    BY <1>5 DEF vars
  <2>2. ClusterParts' /\ WorkerParts'
    BY <2>1, ClusterKept, WorkersKept DEF OrderInv
  <2> QED
    BY <1>1, <2>2 DEF OrderInv
<1> QED
  BY <1>2, <1>3, <1>4, <1>5 DEF Next

\* The inductive invariant of the order of the work.
THEOREM OrderInvariant == Spec => []OrderInv
BY OrderInit, OrderStep, PTL DEF Spec

LEMMA OrderImplies ==
  ASSUME OrderInv
  PROVE  ReadyIsEarned /\ JobAfterInputs
<1>1. ReadyIsEarned
  BY DEF OrderInv, ClusterParts, StatusEarned, ReadyIsEarned
<1>2. JobAfterInputs
  BY DEF OrderInv, ClusterParts, JobsInOrder, JobAfterInputs, Done
<1> QED
  BY <1>1, <1>2

\* A Model or Dataset is reported ready only when a Job of its name has
\* completed, through stale caches, conflicts, recreated objects and restarts.
THEOREM ReadinessIsEarned == Spec => []ReadyIsEarned
<1>1. OrderInv => ReadyIsEarned
  BY OrderImplies
<1> QED
  BY <1>1, OrderInvariant, PTL

\* A modeller Job exists only when the Jobs of all inputs have completed.
THEOREM JobsFollowInputs == Spec => []JobAfterInputs
<1>1. OrderInv => JobAfterInputs
  BY OrderImplies
<1> QED
  BY <1>1, OrderInvariant, PTL

(***************************************************************************)
(* The refinement.  Few steps do something that TrainingOrder can see: a   *)
(* Job completes, a Deployment appears, goes, or loses its pods.           *)
(***************************************************************************)
Serving == {s \in Servers : deploys[s] # NoDeploy}

\* Every other step leaves the mapped state as it was.
LEMMA OthersStutter ==
  ASSUME OrderInv, [Next]_vars,
         \A o \in Jobbers : ~JobCompletes(o),
         \A s \in Servers : ~CollectDeployment(s) /\ ~PodsFail(s),
         ~ApplyDeployment
  PROVE  UNCHANGED completed /\ Serving' = Serving
<1>1. deploys \in [Servers -> DeployRecords] /\ ~NoDeploy.available
  BY DEF OrderInv, TypeInv, TypeOK, NoDeploy
<1>2. ASSUME NEW s \in Servers, PodsReady(s)
      PROVE  UNCHANGED completed /\ Serving' = Serving
  <2>1. \A r \in Servers : deploys'[r] # NoDeploy <=> deploys[r] # NoDeploy
    <3>1. /\ \A r \in Servers \ {s} : deploys'[r] = deploys[r]
          /\ deploys[s] # NoDeploy
      BY <1>1, <1>2 DEF PodsReady
    <3>2. deploys'[s].available
      BY <1>1, <1>2 DEF PodsReady, DeployRecords
    <3> QED
      BY <1>1, <3>1, <3>2
  <2> QED
    BY <1>2, <2>1 DEF PodsReady, Serving
<1>3. CASE UNCHANGED <<completed, deploys>>
  BY <1>3 DEF Serving
<1>4. ASSUME NEW o \in Names, NEW image \in Images,
             Create(o, image) \/ ChangeImage(o, image)
      PROVE  UNCHANGED <<completed, deploys>>
  BY <1>4 DEF Create, ChangeImage
<1>5. ASSUME NEW o \in Names,
             Delete(o) \/ WithdrawReady(o) \/ ReleaseImage(o) \/ SyncObject(o)
      PROVE  UNCHANGED <<completed, deploys>>
  BY <1>5 DEF Delete, WithdrawReady, ReleaseImage, SyncObject
<1>6. ASSUME NEW o \in Jobbers, JobFails(o) \/ CollectJob(o) \/ SyncJob(o)
      PROVE  UNCHANGED <<completed, deploys>>
  BY <1>6 DEF JobFails, CollectJob, SyncJob
<1>7. ASSUME NEW s \in Servers, SyncDeployment(s)
      PROVE  UNCHANGED <<completed, deploys>>
  BY <1>7 DEF SyncDeployment
<1>8. ASSUME NEW c,
             \/ CreateJob(c) \/ GetJob(c) \/ WriteStatus(c) \/ Conflict(c)
             \/ CallFails(c) \/ JobCallFails(c)
      PROVE  UNCHANGED <<completed, deploys>>
  BY <1>8 DEF CreateJob, GetJob, WriteStatus, Conflict, CallFails, JobCallFails
<1>9. ASSUME NEW o, ReconcileModel(o) \/ ReconcileDataset(o) \/ ReconcileServer(o)
      PROVE  UNCHANGED <<completed, deploys>>
  BY <1>9 DEF ReconcileModel, ReconcileDataset, ReconcileServer, Take
<1>10. CASE CheckBaseModel \/ CheckDataset \/ CheckModel \/ UpdateDatasetStatus
            \/ GetDeployment \/ Restart \/ UNCHANGED vars
  BY <1>3, <1>10
  DEF CheckBaseModel, CheckDataset, CheckModel, CheckInput, UpdateDatasetStatus,
      GetDeployment, Restart, vars
<1>11. CASE ClusterNext
  BY <1>2, <1>3, <1>4, <1>5, <1>6, <1>7, <1>11 DEF ClusterNext
<1>12. CASE ModelStep \/ DatasetStep \/ ServerStep
  BY <1>3, <1>8, <1>9, <1>10, <1>12 DEF ModelStep, DatasetStep, ServerStep
<1> QED
  BY <1>3, <1>8, <1>10, <1>11, <1>12 DEF Next

LEMMA RefineStep == OrderInv /\ [Next]_vars => [Order!Next]_(Order!orderVars)
<1> SUFFICES ASSUME OrderInv, [Next]_vars
             PROVE  Order!Next \/ UNCHANGED Order!orderVars
  OBVIOUS
<1>1. ASSUME NEW o \in Jobbers, JobCompletes(o)
      PROVE  Order!Next
  <2>1. completed' = completed \cup {o} /\ Serving' = Serving
    BY <1>1 DEF JobCompletes, Serving
  <2>2. o \in Models => {BaseOf[o], DataOf[o]} \ {None} \subseteq completed
    BY <1>1 DEF JobCompletes, OrderInv, ClusterParts, JobsInOrder, Done, NoJob
  <2>3. Order!Finish
    BY <2>1, <2>2 DEF Order!Finish, Order!Inputs, Jobbers
  <2> QED
    BY <2>1, <2>3 DEF Order!Next, Serving
<1>2. ASSUME NEW s \in Servers, CollectDeployment(s)
      PROVE  Order!Next
  <2>1. UNCHANGED completed /\ Serving' = Serving \ {s}
    BY <1>2 DEF CollectDeployment, Serving, OrderInv, TypeInv, TypeOK
  <2> QED
    BY <2>1 DEF Order!Next, Order!Withdraw, Serving
<1>3. CASE ApplyDeployment
  <2> DEFINE s == worker["server"].key
  <2>1. s \in Servers /\ ModelOf[s] \in completed
    BY <1>3, WorkerKeyFacts
    DEF ApplyDeployment, OrderInv, WorkerParts, ServerChecked
  <2>2. UNCHANGED completed /\ \A r \in Servers \ {s} : deploys'[r] = deploys[r]
    BY <1>3 DEF ApplyDeployment, OrderInv, TypeInv, TypeOK
  <2>3. \/ Serving' = Serving \cup {s}
        \/ Serving' = Serving \ {s}
    BY <2>1, <2>2 DEF Serving
  <2> QED
    BY <2>1, <2>2, <2>3 DEF Order!Next, Order!Serve, Order!Withdraw, Serving
<1>4. ASSUME NEW s \in Servers, PodsFail(s)
      PROVE  Order!Next
  <2>1. /\ UNCHANGED completed
        /\ \A r \in Servers \ {s} : deploys'[r] = deploys[r]
        /\ deploys[s] # NoDeploy
    BY <1>4 DEF PodsFail, OrderInv, TypeInv, TypeOK, NoDeploy
  <2>2. \/ Serving' = Serving
        \/ Serving' = Serving \ {s}
    BY <2>1 DEF Serving
  <2>3. Serving' = Serving \cup {s} \/ Serving' = Serving \ {s}
    BY <2>1, <2>2 DEF Serving
  <2>4. ModelOf[s] \in completed
    BY <2>1 DEF OrderInv, ClusterParts, DeploysInOrder
  <2> QED
    BY <2>1, <2>3, <2>4 DEF Order!Next, Order!Serve, Order!Withdraw, Serving
<1>5. CASE /\ \A o \in Jobbers : ~JobCompletes(o)
           /\ \A s \in Servers : ~CollectDeployment(s) /\ ~PodsFail(s)
           /\ ~ApplyDeployment
  <2>1. UNCHANGED completed /\ Serving' = Serving
    BY <1>5, OthersStutter
  <2> QED
    BY <2>1 DEF Order!orderVars, Serving
<1> QED
  BY <1>1, <1>2, <1>3, <1>4, <1>5

\* The controllers implement TrainingOrder: Jobs complete and Deployments
\* appear in the order of the references, for any graph of objects.
THEOREM ControllersRefineTrainingOrder == Spec => RefinesTrainingOrder
<1>1. Init => Order!Init
  BY DEF Init, ClusterInit, Order!Init
<1> QED
  BY <1>1, RefineStep, OrderInvariant, PTL DEF Spec, Order!Spec, RefinesTrainingOrder
=============================================================================
