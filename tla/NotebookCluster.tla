--------------------------- MODULE NotebookCluster ---------------------------
(***************************************************************************)
(* One Notebook and its Pod as the API server holds them, the informer     *)
(* caches of the Notebook controller, and everything that changes these    *)
(* besides the controller: users (the TUI among them), the image build,    *)
(* the controllers of the Model and the Dataset that the Notebook refers   *)
(* to, the kubelet and the garbage collector.                              *)
(*                                                                         *)
(* The image of a Pod can be changed in place, nothing else of it can: all *)
(* that is made from command, env, resources and mounts is its "shape".    *)
(***************************************************************************)
EXTENDS Naturals

CONSTANTS
  Images,     \* container images
  Shapes,     \* what a Pod cannot change
  Refs,       \* the inputs the Notebook refers to: "model", "dataset"
  None,       \* no image
  MaxEdits,   \* bound: changes made by users and to the inputs
  MaxFaults,  \* bound: failing calls, Pods, restarts
  MaxEvents,  \* bound: edits and faults together
  First       \* bound: image and shape that the first edit applies, when others
              \* would differ in names only

ASSUME NotebookAssumption ==
  /\ Refs \subseteq {"model", "dataset"}
  /\ None \notin Images
  /\ MaxEdits \in Nat
  /\ MaxFaults \in Nat

VARIABLES
  nb,          \* the Notebook in the API server, Absent where there is none
  fresh,       \* the copies of it that carry its resourceVersion
  cache,       \* the informer's copy of it
  inputReady,  \* the inputs that are ready
  inputCache,  \* the inputs that are ready in the informers' copies
  pod,         \* <notebook>-notebook
  podCache,    \* the informer's copy of the Pod
  podFresh,    \* {"cache"} if the informer has handled every event of the Pod
  queue,       \* the work queue: the Notebook, or nothing
  worker,      \* the worker of the controller
  everReady,   \* history: the inputs that have been ready
  edits,       \* changes made so far, at most MaxEdits
  faults       \* faults injected so far, at most MaxFaults

inputVars == <<inputReady, inputCache, everReady>>
podVars   == <<pod, podCache, podFresh>>
workVars  == <<queue, worker>>
vars == <<nb, fresh, cache, inputVars, podVars, workVars, edits, faults>>

Reasons == {"unset", "Suspended", "InputNotReady", "PodReady", "PodNotReady"}

\* "wanted" is the image that the build section stands for.
Notebooks == [uid : 1..MaxEdits, suspend : BOOLEAN, wanted : Images,
              image : Images \cup {None}, shape : Shapes,
              ready : BOOLEAN, reason : Reasons]

Absent == [uid |-> 0, suspend |-> FALSE, wanted |-> None, image |-> None,
           shape |-> None, ready |-> FALSE, reason |-> "unset"]

Records == Notebooks \cup {Absent}

\* A Pod has an owner and an image; "serving" is the image of a container that passes its readiness probe.
LivePods == [uid : 1..MaxEdits, image : Images, shape : Shapes,
             ending : BOOLEAN, serving : Images \cup {None}]

NoPod == [uid |-> 0, image |-> None, shape |-> None, ending |-> FALSE,
          serving |-> None]

PodRecords == LivePods \cup {NoPod}

isPodReady(p) == p.serving # None

ClusterInit ==
  /\ nb = Absent
  /\ fresh = {"cache"}
  /\ cache = nb
  /\ inputReady = {}
  /\ inputCache = {}
  /\ everReady = {}
  /\ pod = NoPod
  /\ podCache = NoPod
  /\ podFresh = {"cache"}
  /\ edits = 0
  /\ faults = 0

\* What the work queue holds when the Notebook is in it.
Key == {"notebook"}

Exists == nb.uid # 0

Store(record) ==
  /\ nb' = record
  /\ fresh' = IF record = nb THEN fresh ELSE {}

\* The informer hears of every change of the Pod, also of one that is undone
\* before it looks.
SetPod(p) ==
  /\ pod' = p
  /\ podFresh' = IF p = pod THEN podFresh ELSE {}

Fault ==
  /\ faults < MaxFaults
  /\ edits + faults < MaxEvents
  /\ faults' = faults + 1

Edit ==
  /\ edits < MaxEdits
  /\ edits + faults < MaxEvents
  /\ edits' = edits + 1

(***************************************************************************)
(* Users.  The notebook command applies the Notebook unsuspended; with an  *)
(* upload it clears the image, which the build sets again if the upload is *)
(* ever finished.                                                          *)
(***************************************************************************)
Apply(image, shape) ==
  /\ Edit
  /\ edits = 0 => <<image, shape>> = First
  /\ \E now \in {None, nb.image} :
       Store([nb EXCEPT !.uid = IF Exists THEN @ ELSE edits',
                        !.suspend = FALSE, !.wanted = image,
                        !.image = now, !.shape = shape])
  /\ UNCHANGED <<cache, inputVars, podVars, workVars, faults>>

Suspend ==
  /\ Exists
  /\ ~nb.suspend
  /\ Edit
  /\ Store([nb EXCEPT !.suspend = TRUE])
  /\ UNCHANGED <<cache, inputVars, podVars, workVars, faults>>

Delete ==
  /\ Exists
  /\ Edit
  /\ Store(Absent)
  /\ UNCHANGED <<cache, inputVars, podVars, workVars, faults>>

(***************************************************************************)
(* The BuildReconciler of Notebooks (see BuildReconciler).                 *)
(***************************************************************************)
WithdrawReady ==
  /\ nb.image # nb.wanted
  /\ nb.ready
  /\ Store([nb EXCEPT !.ready = FALSE])
  /\ UNCHANGED <<cache, inputVars, podVars, workVars, edits, faults>>

ReleaseImage ==
  /\ nb.image # nb.wanted
  /\ Store([nb EXCEPT !.image = nb.wanted])
  /\ UNCHANGED <<cache, inputVars, podVars, workVars, edits, faults>>

(***************************************************************************)
(* The inputs.                                                             *)
(***************************************************************************)
InputReady(r) ==
  /\ r \notin inputReady
  /\ inputReady' = inputReady \cup {r}
  /\ everReady' = everReady \cup {r}
  /\ UNCHANGED <<nb, fresh, cache, inputCache, podVars, workVars, edits, faults>>

InputGone(r) ==
  /\ r \in inputReady
  /\ Edit
  /\ inputReady' = inputReady \ {r}
  /\ UNCHANGED <<nb, fresh, cache, inputCache, everReady, podVars, workVars,
                 faults>>

(***************************************************************************)
(* The kubelet and the garbage collector.  A Pod that is being deleted may *)
(* serve until it is gone.                                                 *)
(***************************************************************************)
podAlone == <<nb, fresh, cache, inputVars, podCache, workVars, edits>>

PodStarts ==
  /\ pod # NoPod
  /\ ~pod.ending
  /\ pod.serving = None
  /\ SetPod([pod EXCEPT !.serving = pod.image])
  /\ UNCHANGED <<podAlone, faults>>

\* The image was changed in place: the container is started anew.
ContainerRestarts ==
  /\ pod.serving \notin {None, pod.image}
  /\ SetPod([pod EXCEPT !.serving = None])
  /\ UNCHANGED <<podAlone, faults>>

ProbeFails ==
  /\ pod.serving # None
  /\ Fault
  /\ SetPod([pod EXCEPT !.serving = None])
  /\ UNCHANGED podAlone

PodEvicted ==
  /\ pod # NoPod
  /\ ~pod.ending
  /\ Fault
  /\ SetPod([pod EXCEPT !.ending = TRUE])
  /\ UNCHANGED podAlone

CollectPod ==
  /\ pod.uid \notin {0, nb.uid}
  /\ ~pod.ending
  /\ SetPod([pod EXCEPT !.ending = TRUE])
  /\ UNCHANGED <<podAlone, faults>>

PodEnds ==
  /\ pod.ending
  /\ SetPod(NoPod)
  /\ UNCHANGED <<podAlone, faults>>

(***************************************************************************)
(* The informers and what SetupWithManager makes of their events.  The     *)
(* watches on Models and Datasets find the Notebook by the cache's index.  *)
(***************************************************************************)
SyncNotebook ==
  /\ "cache" \notin fresh
  /\ cache' = nb
  /\ fresh' = fresh \cup {"cache"}
  /\ queue' = Key
  /\ UNCHANGED <<nb, inputVars, podVars, worker, edits, faults>>

\* Mutation of SyncPod: the controller does not own Pods.
SyncPodUnowned ==
  /\ podFresh = {}
  /\ podCache' = pod
  /\ podFresh' = {"cache"}
  /\ UNCHANGED <<nb, fresh, cache, inputVars, pod, workVars, edits, faults>>

SyncPod ==
  /\ podFresh = {}
  /\ podCache' = pod
  /\ podFresh' = {"cache"}
  /\ queue' = Key
  /\ UNCHANGED <<nb, fresh, cache, inputVars, pod, worker, edits, faults>>

\* Mutation of SyncInput: nobody watches Models and Datasets.
SyncInputUnwatched ==
  /\ inputCache # inputReady
  /\ inputCache' = inputReady
  /\ UNCHANGED <<nb, fresh, cache, inputReady, everReady, podVars, workVars,
                 edits, faults>>

SyncInput ==
  /\ inputCache # inputReady
  /\ inputCache' = inputReady
  /\ queue' = IF cache.uid # 0 THEN Key ELSE queue
  /\ UNCHANGED <<nb, fresh, cache, inputReady, everReady, podVars, worker,
                 edits, faults>>

ClusterNext ==
  \/ \E image \in Images, shape \in Shapes : Apply(image, shape)
  \/ Suspend \/ Delete \/ WithdrawReady \/ ReleaseImage
  \/ \E r \in Refs : InputReady(r) \/ InputGone(r)
  \/ PodStarts \/ ContainerRestarts \/ ProbeFails
  \/ PodEvicted \/ CollectPod \/ PodEnds
  \/ SyncNotebook \/ SyncPod \/ SyncInput
=============================================================================
