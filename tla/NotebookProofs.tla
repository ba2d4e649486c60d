--------------------------- MODULE NotebookProofs ---------------------------
(***************************************************************************)
(* Proofs about the Notebook controller: the type invariant, and that no   *)
(* Pod exists before every input of the Notebook has been ready, for any   *)
(* images, shapes and references and any number of edits and faults.       *)
(*                                                                         *)
(* PodAfterInputs is not inductive: the worker decides from cached copies  *)
(* some steps before it applies the Pod.  InputsInv says what each place   *)
(* the worker can be in has seen.                                          *)
(***************************************************************************)
EXTENDS NotebookController, TLAPS

\* "r has been ready, if it is referred to at all"
WasReady(r) == r \in Refs => r \in everReady

\* The inputs seen ready so far, by the step of the worker.
WorkerSaw ==
  /\ worker.step = "dataset" => WasReady("model")
  /\ worker.step \in {"apply", "replace", "get"}
       => WasReady("model") /\ WasReady("dataset")

InputsInv ==
  /\ inputReady \subseteq everReady
  /\ inputCache \subseteq everReady
  /\ WorkerSaw
  /\ PodAfterInputs

(***************************************************************************)
(* Types.  That a Pod always has an owner and an image is not inductive    *)
(* either: it rests on the copy that the worker goes about with, and that  *)
(* a status is only written to a Notebook that exists rests on the copies  *)
(* that the API server takes for current.                                  *)
(***************************************************************************)
CopyInv ==
  /\ "cache" \in fresh => cache = nb
  /\ "worker" \in fresh => Exists
  /\ worker.step \in {"model", "dataset", "apply", "get"}
       => worker.copy \in Notebooks /\ worker.copy.image \in Images

TypeInv == TypeOK /\ CopyInv

LEMMA RecordTypes == Absent \in Records /\ NoPod \in PodRecords /\ Idle \in Workers
BY DEF Absent, Records, NoPod, PodRecords, Idle, Workers, Steps

LEMMA RecordFields ==
  ASSUME NEW n \in Records
  PROVE  /\ n.ready \in BOOLEAN /\ n.reason \in Reasons
         /\ n.uid # 0 => n \in Notebooks
         /\ n.image # None => n \in Notebooks /\ n.image \in Images
<1>1. CASE n \in Notebooks
  BY <1>1 DEF Notebooks
<1>2. CASE n = Absent
  BY <1>2 DEF Absent, Reasons
<1>. QED
  BY <1>1, <1>2 DEF Records

LEMMA InitTypes == Init => TypeInv
BY RecordTypes, NotebookAssumption
DEF Init, ClusterInit, TypeInv, TypeOK, CopyInv, Idle

\* Storing a Notebook makes every other copy of it out of date.
LEMMA StoreTypes ==
  ASSUME TypeInv, NEW record \in Records, Store(record), UNCHANGED <<cache, worker>>
  PROVE  /\ nb' \in Records
         /\ fresh' \subseteq {"cache", "worker"}
         /\ CopyInv'
<1>1. \/ nb' = nb /\ fresh' = fresh
      \/ fresh' = {}
  BY DEF Store
<1>. QED
  BY <1>1 DEF Store, TypeInv, TypeOK, CopyInv, Exists

\* Steps that touch neither the Notebook nor the worker.
LEMMA CopyKept ==
  ASSUME CopyInv, UNCHANGED <<nb, fresh, cache, worker>>
  PROVE  CopyInv'
BY DEF CopyInv, Exists

\* What the kubelet and the garbage collector do to a Pod, which has no more
\* than to be there.
LEMMA PodChanges ==
  ASSUME TypeInv, pod # NoPod
  PROVE  /\ [pod EXCEPT !.serving = pod.image] \in PodRecords
         /\ [pod EXCEPT !.serving = None] \in PodRecords
         /\ [pod EXCEPT !.ending = TRUE] \in PodRecords
<1>1. pod \in LivePods
  BY DEF TypeInv, TypeOK, PodRecords
<1>. QED
  BY <1>1 DEF LivePods, PodRecords

LEMMA SetPodTypes ==
  ASSUME TypeInv, NEW p \in PodRecords, SetPod(p)
  PROVE  pod' \in PodRecords /\ podFresh' \subseteq {"cache"}
BY DEF SetPod, TypeInv, TypeOK

\* The users, the image build, the inputs, the kubelet and the informers.
LEMMA ClusterTypes == TypeInv /\ ClusterNext => TypeInv'
<1>. SUFFICES ASSUME TypeInv, ClusterNext PROVE TypeInv'
  OBVIOUS
<1>. USE NotebookAssumption, RecordTypes
<1>a. nb \in Records
  BY DEF TypeInv, TypeOK
<1>1. CASE \E image \in Images, shape \in Shapes : Apply(image, shape)
  <2>1. PICK image \in Images, shape \in Shapes : Apply(image, shape)
    BY <1>1
  <2>. DEFINE record(now) == [nb EXCEPT !.uid = IF Exists THEN @ ELSE edits',
                                        !.suspend = FALSE, !.wanted = image,
                                        !.image = now, !.shape = shape]
  <2>2. PICK now \in {None, nb.image} : Store(record(now))
    BY <2>1 DEF Apply
  <2>3. edits' \in 1..MaxEdits
    BY <2>1 DEF Apply, Edit, TypeInv, TypeOK
  <2>4. record(now) \in Notebooks
    <3>1. now \in Images \cup {None}
      BY <1>a, RecordFields
    <3>2. CASE nb \in Notebooks
      BY <2>3, <3>1, <3>2 DEF Notebooks
    <3>3. CASE nb = Absent
      BY <2>3, <3>1, <3>3 DEF Notebooks, Absent, Exists, Reasons
    <3>. QED
      BY <1>a, <3>2, <3>3 DEF Records
  <2>5. record(now) \in Records
    BY <2>4 DEF Records
  <2>6. UNCHANGED <<cache, inputVars, podVars, workVars, faults>>
    BY <2>1 DEF Apply
  <2>7. nb' \in Records /\ fresh' \subseteq {"cache", "worker"} /\ CopyInv'
    <3>. HIDE DEF record
    <3>. QED
      BY <2>2, <2>5, <2>6, StoreTypes DEF workVars
  <2>. QED
    BY <2>3, <2>6, <2>7 DEF TypeInv, TypeOK, inputVars, podVars, workVars
<1>2. CASE Suspend \/ Delete
  <2>1. edits' \in 0..MaxEdits
    BY <1>2 DEF Suspend, Delete, Edit, TypeInv, TypeOK
  <2>2. Exists
    BY <1>2 DEF Suspend, Delete
  <2>3. [nb EXCEPT !.suspend = TRUE] \in Records
    <3>1. nb \in Notebooks
      BY <1>a, <2>2, RecordFields DEF Exists
    <3>. QED
      BY <3>1 DEF Records, Notebooks
  <2>4. UNCHANGED <<cache, inputVars, podVars, workVars, faults>>
    BY <1>2 DEF Suspend, Delete
  <2>5. PICK record \in Records : Store(record)
    BY <1>2, <2>3 DEF Suspend, Delete
  <2>6. nb' \in Records /\ fresh' \subseteq {"cache", "worker"} /\ CopyInv'
    BY <2>4, <2>5, StoreTypes DEF workVars
  <2>. QED
    BY <2>1, <2>4, <2>6 DEF TypeInv, TypeOK, inputVars, podVars, workVars
<1>3. CASE WithdrawReady \/ ReleaseImage
  <2>1. nb \in Notebooks
    BY <1>a, <1>3 DEF WithdrawReady, ReleaseImage, Records, Absent
  <2>2. /\ [nb EXCEPT !.ready = FALSE] \in Records
        /\ [nb EXCEPT !.image = nb.wanted] \in Records
    BY <2>1 DEF Records, Notebooks
  <2>3. UNCHANGED <<cache, inputVars, podVars, workVars, edits, faults>>
    BY <1>3 DEF WithdrawReady, ReleaseImage
  <2>4. PICK record \in Records : Store(record)
    BY <1>3, <2>2 DEF WithdrawReady, ReleaseImage
  <2>5. nb' \in Records /\ fresh' \subseteq {"cache", "worker"} /\ CopyInv'
    BY <2>3, <2>4, StoreTypes DEF workVars
  <2>. QED
    BY <2>3, <2>5 DEF TypeInv, TypeOK, inputVars, podVars, workVars
<1>4. CASE \E r \in Refs : InputReady(r) \/ InputGone(r)
  <2>1. edits' \in 0..MaxEdits
    BY <1>4 DEF InputReady, InputGone, Edit, TypeInv, TypeOK
  <2>2. inputReady' \subseteq Refs /\ everReady' \subseteq Refs
    BY <1>4 DEF InputReady, InputGone, TypeInv, TypeOK
  <2>3. CopyInv'
    BY <1>4, CopyKept DEF InputReady, InputGone, TypeInv, workVars
  <2>. QED
    BY <1>4, <2>1, <2>2, <2>3
    DEF InputReady, InputGone, TypeInv, TypeOK, podVars, workVars
<1>5. CASE \/ PodStarts \/ ContainerRestarts \/ CollectPod \/ PodEnds
           \/ ProbeFails \/ PodEvicted
  <2>1. UNCHANGED podAlone /\ faults' \in 0..MaxFaults
    BY <1>5 DEF PodStarts, ContainerRestarts, CollectPod, PodEnds, ProbeFails,
                PodEvicted, Fault, TypeInv, TypeOK
  <2>2. PICK p \in PodRecords : SetPod(p)
    <3>1. pod = NoPod => ~(PodStarts \/ ContainerRestarts \/ CollectPod \/ PodEnds
                             \/ ProbeFails \/ PodEvicted)
      BY DEF PodStarts, ContainerRestarts, CollectPod, PodEnds, ProbeFails,
             PodEvicted, NoPod
    <3>2. pod # NoPod
      BY <1>5, <3>1
    <3>. QED
      BY <1>5, <3>2, PodChanges DEF PodStarts, ContainerRestarts, CollectPod, PodEnds,
                                    ProbeFails, PodEvicted
  <2>3. pod' \in PodRecords /\ podFresh' \subseteq {"cache"}
    BY <2>2, SetPodTypes
  <2>4. CopyInv'
    BY <2>1, CopyKept DEF TypeInv, podAlone, workVars
  <2>. QED
    BY <2>1, <2>3, <2>4 DEF TypeInv, TypeOK, podAlone, inputVars, workVars
<1>6. CASE SyncNotebook
  BY <1>6, <1>a DEF SyncNotebook, Key, TypeInv, TypeOK, CopyInv, Exists, inputVars,
                    podVars
<1>7. CASE SyncPod \/ SyncInput
  <2>1. CopyInv'
    BY <1>7, CopyKept DEF SyncPod, SyncInput, TypeInv
  <2>. QED
    BY <1>7, <2>1 DEF SyncPod, SyncInput, Key, TypeInv, TypeOK, inputVars, podVars
<1>. QED
  BY <1>1, <1>2, <1>3, <1>4, <1>5, <1>6, <1>7 DEF ClusterNext

LEMMA DecideType ==
  ASSUME TypeOK, NEW r \in BOOLEAN, NEW reason \in Reasons, Decide(r, reason),
         worker.copy \in Notebooks
  PROVE  worker' \in Workers /\ worker'.step = "write"
<1>1. [worker.copy EXCEPT !.ready = r, !.reason = reason] \in Records
  BY DEF Records, Notebooks
<1>2. worker' = [worker EXCEPT !.step = "write",
                   !.copy = [worker.copy EXCEPT !.ready = r, !.reason = reason]]
  BY DEF Decide, TypeOK, Workers, Notebooks
<1>. QED
  BY <1>1, <1>2 DEF TypeOK, Workers, Steps

\* A status is written to a Notebook that exists.
LEMMA UpdateTypes ==
  ASSUME TypeInv, NEW r \in BOOLEAN, NEW reason \in Reasons, Update(r, reason),
         cache' = cache
  PROVE  /\ nb' \in Records
         /\ fresh' \subseteq {"cache", "worker"}
         /\ "cache" \in fresh' => cache' = nb'
         /\ "worker" \notin fresh'
<1>1. nb \in Notebooks
  BY RecordFields DEF Update, TypeInv, TypeOK, CopyInv, Exists
<1>2. nb' = [nb EXCEPT !.ready = r, !.reason = reason]
  BY DEF Update
<1>3. nb' \in Records
  BY <1>1, <1>2 DEF Notebooks, Records
<1>4. fresh' = {} \/ (nb' = nb /\ fresh' = fresh \ {"worker"})
  BY DEF Update
<1>. QED
  BY <1>3, <1>4 DEF TypeInv, TypeOK, CopyInv

LEMMA WorkerTypes == TypeInv /\ WorkerStep => TypeInv'
<1>. SUFFICES ASSUME TypeInv, WorkerStep PROVE TypeInv'
  OBVIOUS
<1>. USE NotebookAssumption, RecordTypes
<1>1. CASE Reconcile
  <2>1. CASE cache.image = None
    BY <1>1, <2>1 DEF Reconcile, Key, TypeInv, TypeOK, CopyInv, Exists,
                      othersUnchanged, inputVars, podSync
  <2>2. CASE cache.image # None
    <3>1. cache \in Notebooks /\ cache.image \in Images
      BY <2>2, RecordFields DEF TypeInv, TypeOK
    <3>2. worker' = [Idle EXCEPT !.step = IF cache.suspend THEN "suspend" ELSE "model",
                                 !.copy = cache]
      BY <1>1, <2>2 DEF Reconcile
    <3>3. worker' \in Workers /\ worker'.copy = cache
      BY <3>2 DEF TypeInv, TypeOK, Workers, Steps, Idle
    <3>4. fresh' = IF "cache" \in fresh THEN fresh \cup {"worker"} ELSE fresh
      BY <1>1, <2>2 DEF Reconcile
    <3>5. "cache" \in fresh => Exists
      BY <3>1 DEF TypeInv, CopyInv, Exists, Notebooks
    <3>6. UNCHANGED <<othersUnchanged, podSync, faults>> /\ queue' = {}
      BY <1>1 DEF Reconcile
    <3>7. CopyInv'
      BY <3>1, <3>3, <3>4, <3>5, <3>6
      DEF TypeInv, TypeOK, CopyInv, Exists, othersUnchanged
    <3>. QED
      BY <3>3, <3>4, <3>6, <3>7
      DEF TypeInv, TypeOK, othersUnchanged, inputVars, podSync
  <2>. QED
    BY <2>1, <2>2
<1>2. CASE SuspendStatus
  <2>1. /\ nb' \in Records
        /\ fresh' \subseteq {"cache", "worker"}
        /\ "cache" \in fresh' => cache' = nb'
        /\ "worker" \notin fresh'
    BY <1>2, UpdateTypes DEF SuspendStatus, Reasons
  <2>2. worker' \in Workers /\ worker'.step = "stop"
    BY <1>2 DEF SuspendStatus, GoTo, TypeInv, TypeOK, Workers, Steps
  <2>. QED
    BY <1>2, <2>1, <2>2 DEF SuspendStatus, TypeInv, TypeOK, CopyInv, inputVars, podVars
<1>3. CASE StopPod \/ ReplacePod
  <2>1. PICK p \in PodRecords : SetPod(p)
    BY <1>3, PodChanges DEF StopPod, ReplacePod
  <2>2. pod' \in PodRecords /\ podFresh' \subseteq {"cache"}
    BY <2>1, SetPodTypes
  <2>3. /\ queue' \subseteq Key
        /\ fresh' \subseteq fresh
        /\ worker' = Idle
    BY <1>3 DEF StopPod, ReplacePod, Return, TypeInv, TypeOK
  <2>4. UNCHANGED <<othersUnchanged, faults>>
    BY <1>3 DEF StopPod, ReplacePod
  <2>5. CopyInv'
    BY <2>3, <2>4 DEF TypeInv, CopyInv, Exists, Idle, othersUnchanged
  <2>. QED
    BY <2>2, <2>3, <2>4, <2>5 DEF TypeInv, TypeOK, othersUnchanged, inputVars
<1>4. CASE CheckInput("model", "dataset") \/ CheckInput("dataset", "apply")
  <2>1. worker.copy \in Notebooks /\ worker.copy.image \in Images
    BY <1>4 DEF CheckInput, TypeInv, CopyInv
  <2>2. \/ Decide(FALSE, "InputNotReady")
        \/ GoTo("dataset")
        \/ GoTo("apply")
    BY <1>4 DEF CheckInput
  <2>3. UNCHANGED <<othersUnchanged, fresh, queue, podSync, faults>>
    BY <1>4 DEF CheckInput
  <2>4. CASE Decide(FALSE, "InputNotReady")
    <3>1. worker' \in Workers /\ worker'.step = "write"
      BY <2>1, <2>4, DecideType DEF Reasons, TypeInv
    <3>. QED
      BY <2>3, <3>1 DEF TypeInv, TypeOK, CopyInv, Exists, othersUnchanged, inputVars,
                        podSync
  <2>5. CASE GoTo("dataset") \/ GoTo("apply")
    <3>1. worker' \in Workers /\ worker'.copy = worker.copy
      BY <2>5 DEF GoTo, TypeInv, TypeOK, Workers, Steps
    <3>. QED
      BY <2>1, <2>3, <3>1 DEF TypeInv, TypeOK, CopyInv, Exists, othersUnchanged,
                              inputVars, podSync
  <2>. QED
    BY <2>2, <2>4, <2>5
<1>5. CASE ApplyPod
  <2>. DEFINE applied == [pod EXCEPT !.uid = worker.copy.uid, !.image = worker.copy.image,
                                     !.shape = worker.copy.shape]
  <2>1. worker.copy \in Notebooks /\ worker.copy.image \in Images
    BY <1>5 DEF ApplyPod, TypeInv, CopyInv
  <2>2. applied \in PodRecords
    <3>1. pod \in LivePods \/ pod = NoPod
      BY DEF TypeInv, TypeOK, PodRecords
    <3>2. applied \in LivePods
      <4>1. CASE pod \in LivePods
        BY <2>1, <4>1 DEF LivePods, Notebooks
      <4>2. CASE pod = NoPod
        BY <2>1, <4>2 DEF LivePods, NoPod, Notebooks
      <4>. QED
        BY <3>1, <4>1, <4>2
    <3>. QED
      BY <3>2 DEF PodRecords
  <2>3. pod' \in PodRecords /\ podFresh' \subseteq {"cache"}
    <3>1. SetPod(applied)
      BY <1>5 DEF ApplyPod
    <3>. QED
      BY <2>2, <3>1, SetPodTypes
  <2>4. worker' \in Workers /\ worker'.copy = worker.copy
    BY <1>5 DEF ApplyPod, isPodReady, TypeInv, TypeOK, Workers, Steps
  <2>. QED
    BY <1>5, <2>1, <2>3, <2>4 DEF ApplyPod, TypeInv, TypeOK, CopyInv, Exists,
                                  othersUnchanged, inputVars
<1>6. CASE ApplyInvalid
  <2>1. worker' \in Workers /\ worker'.step = "replace"
    BY <1>6 DEF ApplyInvalid, GoTo, TypeInv, TypeOK, Workers, Steps
  <2>. QED
    BY <1>6, <2>1 DEF ApplyInvalid, TypeInv, TypeOK, CopyInv, Exists, othersUnchanged,
                      inputVars, podSync
<1>7. CASE GetPod
  <2>. DEFINE ready == IF podCache = NoPod THEN worker.podReady ELSE isPodReady(podCache)
  <2>1. ready \in BOOLEAN
    BY DEF isPodReady, TypeInv, TypeOK, Workers
  <2>2. Decide(ready, IF ready THEN "PodReady" ELSE "PodNotReady")
    BY <1>7 DEF GetPod
  <2>3. worker.copy \in Notebooks
    BY <1>7 DEF GetPod, TypeInv, CopyInv
  <2>4. worker' \in Workers /\ worker'.step = "write"
    <3>. HIDE DEF ready
    <3>1. (IF ready THEN "PodReady" ELSE "PodNotReady") \in Reasons
      BY DEF Reasons
    <3>. QED
      BY <2>1, <2>2, <2>3, <3>1, DecideType DEF TypeInv
  <2>. QED
    BY <1>7, <2>4 DEF GetPod, TypeInv, TypeOK, CopyInv, Exists, othersUnchanged,
                      inputVars, podSync
<1>8. CASE WriteStatus
  <2>1. worker.copy.ready \in BOOLEAN /\ worker.copy.reason \in Reasons
    BY RecordFields DEF TypeInv, TypeOK, Workers
  <2>2. /\ nb' \in Records
        /\ fresh' \subseteq {"cache", "worker"}
        /\ "cache" \in fresh' => cache' = nb'
        /\ "worker" \notin fresh'
    BY <1>8, <2>1, UpdateTypes DEF WriteStatus
  <2>3. worker' = Idle /\ queue' = queue
    BY <1>8 DEF WriteStatus, Return
  <2>. QED
    BY <1>8, <2>2, <2>3 DEF WriteStatus, TypeInv, TypeOK, CopyInv, Idle, inputVars,
                            podVars
<1>9. CASE Conflict
  BY <1>9 DEF Conflict, Return, Key, TypeInv, TypeOK, CopyInv, Exists, Idle,
              othersUnchanged, inputVars, podSync
<1>. QED
  BY <1>1, <1>2, <1>3, <1>4, <1>5, <1>6, <1>7, <1>8, <1>9 DEF WorkerStep

LEMMA FaultTypes == TypeInv /\ (CallFails \/ Restart) => TypeInv'
<1>. SUFFICES ASSUME TypeInv, CallFails \/ Restart PROVE TypeInv'
  OBVIOUS
<1>1. faults' \in 0..MaxFaults
  <2>1. Fault
    BY DEF CallFails, Restart
  <2>. QED
    BY <2>1, NotebookAssumption DEF Fault, TypeInv, TypeOK
<1>2. CASE CallFails
  <2>1. worker' = Idle /\ queue' \subseteq Key /\ fresh' = fresh \ {"worker"}
    BY <1>2 DEF CallFails, Return, TypeInv, TypeOK
  <2>. QED
    BY <1>1, <1>2, <2>1, RecordTypes
    DEF CallFails, TypeInv, TypeOK, CopyInv, Exists, Idle, othersUnchanged, inputVars,
        podSync
<1>3. CASE Restart
  <2>1. /\ queue' \subseteq Key
        /\ fresh' = {"cache"} /\ cache' = nb /\ nb' = nb
        /\ podFresh' \subseteq {"cache"}
        /\ worker' = Idle
    BY <1>3 DEF Restart
  <2>. QED
    BY <1>1, <1>3, <2>1, RecordTypes DEF Restart, TypeInv, TypeOK, CopyInv, Idle
<1>. QED
  BY <1>2, <1>3

\* Every variable of the Notebook's model keeps its type; above all, a Pod that
\* exists has an owner, an image and a shape, and no status is ever written to
\* a Notebook that is not there.
THEOREM NotebookTypes == Spec => []TypeOK
<1>1. TypeInv /\ [Next]_vars => TypeInv'
  <2>1. TypeInv /\ UNCHANGED vars => TypeInv'
    BY DEF TypeInv, TypeOK, CopyInv, Exists, vars, inputVars, podVars, workVars
  <2>. QED
    BY <2>1, ClusterTypes, WorkerTypes, FaultTypes DEF Next
<1>2. TypeInv => TypeOK
  BY DEF TypeInv
<1>. QED
  BY InitTypes, <1>1, <1>2, PTL DEF Spec

(***************************************************************************)
(* Pods after inputs.                                                      *)
(***************************************************************************)
LEMMA InputsInit == Init => InputsInv
BY DEF Init, ClusterInit, InputsInv, WorkerSaw, PodAfterInputs, Idle

\* Nothing but the worker brings a Pod into being, and what was ready once
\* stays so.
LEMMA ClusterInputs == TypeOK /\ InputsInv /\ ClusterNext => InputsInv'
<1>. SUFFICES ASSUME TypeOK, InputsInv, ClusterNext PROVE InputsInv'
  OBVIOUS
<1>. USE DEF InputsInv, WorkerSaw, WasReady, PodAfterInputs, inputVars, podVars,
             workVars, podAlone
<1>1. CASE \E image \in Images, shape \in Shapes : Apply(image, shape)
  BY <1>1 DEF Apply
<1>2. CASE Suspend \/ Delete \/ WithdrawReady \/ ReleaseImage
  BY <1>2 DEF Suspend, Delete, WithdrawReady, ReleaseImage
<1>3. CASE \E r \in Refs : InputReady(r) \/ InputGone(r)
  BY <1>3 DEF InputReady, InputGone
<1>4. CASE PodStarts \/ ContainerRestarts \/ CollectPod \/ PodEnds
  BY <1>4 DEF PodStarts, ContainerRestarts, CollectPod, PodEnds, SetPod, NoPod
<1>5. CASE ProbeFails \/ PodEvicted
  BY <1>5 DEF ProbeFails, PodEvicted, SetPod, NoPod
<1>6. CASE SyncNotebook \/ SyncPod \/ SyncInput
  BY <1>6 DEF SyncNotebook, SyncPod, SyncInput
<1>. QED
  BY <1>1, <1>2, <1>3, <1>4, <1>5, <1>6 DEF ClusterNext

LEMMA WorkerInputs == TypeOK /\ InputsInv /\ WorkerStep => InputsInv'
<1>. SUFFICES ASSUME TypeOK, InputsInv, WorkerStep PROVE InputsInv'
  OBVIOUS
<1>. USE DEF InputsInv, WorkerSaw, WasReady, PodAfterInputs, othersUnchanged,
             podSync, inputVars
<1>1. CASE Reconcile
  BY <1>1 DEF Reconcile, Idle, TypeOK, Workers
<1>2. CASE SuspendStatus
  BY <1>2 DEF SuspendStatus, GoTo, TypeOK, Workers, podVars
<1>3. CASE StopPod \/ ReplacePod
  BY <1>3 DEF StopPod, ReplacePod, SetPod, Return, Idle
<1>4. CASE CheckInput("model", "dataset") \/ CheckInput("dataset", "apply")
  BY <1>4 DEF CheckInput, Decide, GoTo, TypeOK, Workers
<1>5. CASE ApplyPod
  <2>1. WasReady("model") /\ WasReady("dataset")
    BY <1>5 DEF ApplyPod
  <2>2. Refs \subseteq everReady'
    BY <2>1, <1>5, NotebookAssumption DEF ApplyPod
  <2>3. worker'.step = "get"
    BY <1>5 DEF ApplyPod, TypeOK, Workers
  <2>. QED
    BY <1>5, <2>1, <2>2, <2>3 DEF ApplyPod
<1>6. CASE ApplyInvalid
  BY <1>6 DEF ApplyInvalid, GoTo, TypeOK, Workers
<1>7. CASE GetPod
  BY <1>7 DEF GetPod, Decide, TypeOK, Workers
<1>8. CASE WriteStatus
  BY <1>8 DEF WriteStatus, Return, Idle, podVars
<1>9. CASE Conflict
  BY <1>9 DEF Conflict, Return, Idle
<1>. QED
  BY <1>1, <1>2, <1>3, <1>4, <1>5, <1>6, <1>7, <1>8, <1>9 DEF WorkerStep

LEMMA FaultInputs == TypeOK /\ InputsInv /\ (CallFails \/ Restart) => InputsInv'
BY DEF CallFails, Restart, Return, Idle, InputsInv, WorkerSaw, WasReady,
       PodAfterInputs, othersUnchanged, podSync, inputVars

\* No Pod exists before every input of the Notebook has been ready, although
\* the worker judges them by cached copies that move on before it acts.
THEOREM PodsFollowInputs == Spec => []PodAfterInputs
<1>1. TypeOK /\ InputsInv /\ [Next]_vars => InputsInv'
  <2>1. InputsInv /\ UNCHANGED vars => InputsInv'
    BY DEF InputsInv, WorkerSaw, WasReady, PodAfterInputs, vars, inputVars, podVars,
           workVars
  <2>. QED
    BY <2>1, ClusterInputs, WorkerInputs, FaultInputs DEF Next
<1>2. InputsInv => PodAfterInputs
  BY DEF InputsInv
<1>. QED
  BY InputsInit, NotebookTypes, <1>1, <1>2, PTL DEF Spec
=============================================================================
