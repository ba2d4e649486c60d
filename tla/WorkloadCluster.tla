--------------------------- MODULE WorkloadCluster ---------------------------
(***************************************************************************)
(* The Models, Datasets and Servers of one namespace as the API server     *)
(* holds them, the informer caches that the manager's controllers read,    *)
(* the Jobs and Deployments that the controllers own, and everything that  *)
(* changes these besides the controllers: users, the image builds, the Job *)
(* and Deployment controllers and the garbage collector.                   *)
(*                                                                         *)
(* The references between objects (spec.model, spec.dataset) are           *)
(* constants.  Optimistic concurrency is modelled as in BuildCluster:      *)
(* "fresh" holds, per object, the copies with a current resourceVersion.   *)
(***************************************************************************)
EXTENDS Naturals

CONSTANTS
  Models, Datasets, Servers,   \* names of objects, by kind
  Images,     \* container images
  NewImages,  \* bound: those that objects are created for
  None,       \* no image, no reference
  BaseOf,     \* spec.model of each Model, or None
  DataOf,     \* spec.dataset of each Model, or None
  ModelOf,    \* spec.model of each Server
  MaxEdits,   \* bound: objects created, changed or deleted by users
  MaxFaults,  \* bound: failing calls, Jobs and pods, restarts
  MaxEvents,  \* bound: edits and faults together
  Story       \* bound: Story[n] is what the n-th edit may be

Jobbers == Models \cup Datasets
Names   == Jobbers \cup Servers

\* What users may ask for.
Asks == {"create", "change", "delete"} \X Names

ASSUME WorkloadAssumption ==
  /\ Models \cap Datasets = {}
  /\ Jobbers \cap Servers = {}
  /\ None \notin Names \cup Images
  /\ BaseOf \in [Models -> Models \cup {None}]
  /\ DataOf \in [Models -> Datasets \cup {None}]
  /\ ModelOf \in [Servers -> Models]
  /\ MaxEdits \in Nat
  /\ MaxFaults \in Nat

VARIABLES
  objs,         \* the objects in the API server, Absent where there is none
  fresh,        \* per object, the copies that carry its resourceVersion
  cache,        \* the informers' copies of the objects
  jobs,         \* <model>-modeller and <dataset>-data-loader
  jobCache,     \* the informer's copies of the Jobs
  deploys,      \* <server>-server
  deployCache,  \* the informer's copies of the Deployments
  queue,        \* keys waiting in the controllers' work queues
  worker,       \* the worker of each controller
  completed,    \* history: Models and Datasets that a Job has completed for
  edits,        \* changes users have made, at most MaxEdits
  faults        \* faults injected so far, at most MaxFaults

ownedVars  == <<jobs, jobCache, deploys, deployCache, completed>>
workVars   == <<queue, worker>>
vars == <<objs, fresh, cache, ownedVars, workVars, edits, faults>>

\* The reason of the Complete or Serving condition; "located": no condition
\* yet, but the artifacts URL of a Dataset; "unset": neither.
Reasons == {"unset", "located", "inputs", "running", "failed", "complete"}

\* An object: "wanted" is the image its build section stands for.
Records == [uid : 0..MaxEdits, wanted : Images \cup {None},
            image : Images \cup {None}, ready : BOOLEAN, reason : Reasons]

Absent == [uid |-> 0, wanted |-> None, image |-> None, ready |-> FALSE,
           reason |-> "unset"]

JobRecords == [uid : 0..MaxEdits, image : Images \cup {None},
               state : {"absent", "running", "complete", "failed"}]

NoJob == [uid |-> 0, image |-> None, state |-> "absent"]

DeployRecords ==
  [uid : 0..MaxEdits, image : Images \cup {None}, available : BOOLEAN]

NoDeploy == [uid |-> 0, image |-> None, available |-> FALSE]

ClusterInit ==
  /\ objs = [o \in Names |-> Absent]
  /\ fresh = [o \in Names |-> {"cache"}]
  /\ cache = objs
  /\ jobs = [o \in Jobbers |-> NoJob]
  /\ jobCache = jobs
  /\ deploys = [s \in Servers |-> NoDeploy]
  /\ deployCache = deploys
  /\ completed = {}
  /\ edits = 0
  /\ faults = 0

Exists(o) == objs[o].uid # 0

Store(o, record) ==
  /\ objs' = [objs EXCEPT ![o] = record]
  /\ fresh' = [fresh EXCEPT ![o] = IF record = objs[o] THEN @ ELSE {}]

Fault ==
  /\ faults < MaxFaults
  /\ edits + faults < MaxEvents
  /\ faults' = faults + 1

Edit(ask, o) ==
  /\ edits < MaxEdits
  /\ edits + faults < MaxEvents
  /\ edits' = edits + 1
  /\ <<ask, o>> \in Story[edits']

(***************************************************************************)
(* Users create and delete objects and ask for other images: a new upload  *)
(* clears the image, an edited git section leaves it.                      *)
(***************************************************************************)
Create(o, image) ==
  /\ ~Exists(o)
  /\ image \in NewImages
  /\ Edit("create", o)
  /\ Store(o, [Absent EXCEPT !.uid = edits', !.wanted = image])
  /\ UNCHANGED <<cache, ownedVars, workVars, faults>>

ChangeImage(o, image) ==
  /\ Exists(o)
  /\ objs[o].wanted # image
  /\ Edit("change", o)
  /\ \E now \in {None, objs[o].image} :
       Store(o, [objs[o] EXCEPT !.wanted = image, !.image = now])
  /\ UNCHANGED <<cache, ownedVars, workVars, faults>>

Delete(o) ==
  /\ Exists(o)
  /\ Edit("delete", o)
  /\ Store(o, Absent)
  /\ UNCHANGED <<cache, ownedVars, workVars, faults>>

(***************************************************************************)
(* The BuildReconciler of the object's kind (see BuildReconciler): while   *)
(* the builder Job runs it marks the object unready, then sets the image.  *)
(***************************************************************************)
WithdrawReady(o) ==
  /\ objs[o].image # objs[o].wanted
  /\ objs[o].ready
  /\ Store(o, [objs[o] EXCEPT !.ready = FALSE])
  /\ UNCHANGED <<cache, ownedVars, workVars, edits, faults>>

ReleaseImage(o) ==
  /\ objs[o].image # objs[o].wanted
  /\ Store(o, [objs[o] EXCEPT !.image = objs[o].wanted])
  /\ UNCHANGED <<cache, ownedVars, workVars, edits, faults>>

(***************************************************************************)
(* Jobs and Deployments.  What an owner that is gone has left behind is    *)
(* collected some time later; until then a new object of the same name     *)
(* finds it.                                                               *)
(***************************************************************************)
JobCompletes(o) ==
  /\ jobs[o].state = "running"
  /\ jobs' = [jobs EXCEPT ![o].state = "complete"]
  /\ completed' = completed \cup {o}
  /\ UNCHANGED <<objs, fresh, cache, jobCache, deploys, deployCache, workVars,
                 edits, faults>>

JobFails(o) ==
  /\ jobs[o].state = "running"
  /\ Fault
  /\ jobs' = [jobs EXCEPT ![o].state = "failed"]
  /\ UNCHANGED <<objs, fresh, cache, jobCache, deploys, deployCache, completed,
                 workVars, edits>>

CollectJob(o) ==
  /\ jobs[o].uid \notin {0, objs[o].uid}
  /\ jobs' = [jobs EXCEPT ![o] = NoJob]
  /\ UNCHANGED <<objs, fresh, cache, jobCache, deploys, deployCache, completed,
                 workVars, edits, faults>>

PodsReady(s) ==
  /\ deploys[s] # NoDeploy
  /\ ~deploys[s].available
  /\ deploys' = [deploys EXCEPT ![s].available = TRUE]
  /\ UNCHANGED <<objs, fresh, cache, jobs, jobCache, deployCache, completed,
                 workVars, edits, faults>>

PodsFail(s) ==
  /\ deploys[s].available
  /\ Fault
  /\ deploys' = [deploys EXCEPT ![s].available = FALSE]
  /\ UNCHANGED <<objs, fresh, cache, jobs, jobCache, deployCache, completed,
                 workVars, edits>>

CollectDeployment(s) ==
  /\ deploys[s].uid \notin {0, objs[s].uid}
  /\ deploys' = [deploys EXCEPT ![s] = NoDeploy]
  /\ UNCHANGED <<objs, fresh, cache, jobs, jobCache, deployCache, completed,
                 workVars, edits, faults>>

(***************************************************************************)
(* The informers and what SetupWithManager makes of their events: For and  *)
(* Owns enqueue the object itself, Watches the objects that the cache's    *)
(* index lists as referring to it.                                         *)
(***************************************************************************)
Referring(o) ==
  {m \in Models : o \in {BaseOf[m], DataOf[m]}} \cup {s \in Servers : ModelOf[s] = o}

\* Mutation of SyncObject: the Watches are missing.
SyncObjectForOnly(o) ==
  /\ "cache" \notin fresh[o]
  /\ cache' = [cache EXCEPT ![o] = objs[o]]
  /\ fresh' = [fresh EXCEPT ![o] = @ \cup {"cache"}]
  /\ queue' = queue \cup {o}
  /\ UNCHANGED <<objs, ownedVars, worker, edits, faults>>

SyncObject(o) ==
  /\ "cache" \notin fresh[o]
  /\ cache' = [cache EXCEPT ![o] = objs[o]]
  /\ fresh' = [fresh EXCEPT ![o] = @ \cup {"cache"}]
  /\ queue' = queue \cup {o} \cup {r \in Referring(o) : cache'[r].uid # 0}
  /\ UNCHANGED <<objs, ownedVars, worker, edits, faults>>

SyncJob(o) ==
  /\ jobCache[o] # jobs[o]
  /\ jobCache' = [jobCache EXCEPT ![o] = jobs[o]]
  /\ queue' = queue \cup {o}
  /\ UNCHANGED <<objs, fresh, cache, jobs, deploys, deployCache, completed,
                 worker, edits, faults>>

SyncDeployment(s) ==
  /\ deployCache[s] # deploys[s]
  /\ deployCache' = [deployCache EXCEPT ![s] = deploys[s]]
  /\ queue' = queue \cup {s}
  /\ UNCHANGED <<objs, fresh, cache, jobs, jobCache, deploys, completed, worker,
                 edits, faults>>

ClusterNext ==
  \/ \E o \in Names, image \in Images : Create(o, image) \/ ChangeImage(o, image)
  \/ \E o \in Names :
       Delete(o) \/ WithdrawReady(o) \/ ReleaseImage(o) \/ SyncObject(o)
  \/ \E o \in Jobbers : JobCompletes(o) \/ JobFails(o) \/ CollectJob(o) \/ SyncJob(o)
  \/ \E s \in Servers :
       PodsReady(s) \/ PodsFail(s) \/ CollectDeployment(s) \/ SyncDeployment(s)
=============================================================================
