------------------------- MODULE NotebookController -------------------------
(***************************************************************************)
(* internal/controller/notebook_controller.go: the Pod of a Notebook is    *)
(* applied once the Model and the Dataset are ready, replaced when it      *)
(* cannot be changed in place, and deleted while the Notebook is           *)
(* suspended.  Every call that leaves the manager is a step of its own.    *)
(*                                                                         *)
(*   step       the call that comes next                                   *)
(*   "idle"     waiting for the work queue                                 *)
(*   "suspend"  Status().Update of a suspended Notebook                    *)
(*   "stop"     Delete of its Pod                                          *)
(*   "model"    Get of the Model, cached                                   *)
(*   "dataset"  Get of the Dataset, cached                                 *)
(*   "apply"    Patch of the Pod                                           *)
(*   "replace"  Delete of a Pod that cannot be patched                     *)
(*   "get"      Get of the Pod, cached                                     *)
(*   "write"    Status().Update of what was decided                        *)
(***************************************************************************)
EXTENDS NotebookCluster

Steps == {"idle", "suspend", "stop", "model", "dataset", "apply", "replace",
          "get", "write"}

Workers == [step : Steps, copy : Records, podReady : BOOLEAN]

Idle == [step |-> "idle", copy |-> Absent, podReady |-> FALSE]

Init ==
  /\ ClusterInit
  /\ queue = {}
  /\ worker = Idle

othersUnchanged == <<nb, cache, inputVars, podCache, edits>>
podSync == <<pod, podFresh>>

\* Mutation of Reconcile: a Notebook is gone on with before it has an image.
ReconcileUnbuilt ==
  /\ worker.step = "idle"
  /\ queue = Key
  /\ queue' = {}
  /\ IF cache = Absent
       THEN UNCHANGED <<worker, fresh>>
       ELSE /\ worker' = [Idle EXCEPT
                 !.step = IF cache.suspend THEN "suspend" ELSE "model",
                 !.copy = cache]
            /\ fresh' = IF "cache" \in fresh THEN fresh \cup {"worker"} ELSE fresh
  /\ UNCHANGED <<othersUnchanged, podSync, faults>>

(***************************************************************************)
(* Reconcile.  A Notebook without an image (or one that does not exist) is *)
(* left alone, suspended or not.                                           *)
(***************************************************************************)
Reconcile ==
  /\ worker.step = "idle"
  /\ queue = Key
  /\ queue' = {}
  /\ IF cache.image = None
       THEN UNCHANGED <<worker, fresh>>
       ELSE /\ worker' = [Idle EXCEPT
                 !.step = IF cache.suspend THEN "suspend" ELSE "model",
                 !.copy = cache]
            /\ fresh' = IF "cache" \in fresh THEN fresh \cup {"worker"} ELSE fresh
  /\ UNCHANGED <<othersUnchanged, podSync, faults>>

GoTo(step) == worker' = [worker EXCEPT !.step = step]

Return(requeue) ==
  /\ worker' = Idle
  /\ queue' = IF requeue THEN Key ELSE queue

\* SetStatusCondition and Status.Ready on the local copy, to be written next.
Decide(ready, reason) ==
  worker' = [worker EXCEPT !.step = "write", !.copy.ready = ready,
                           !.copy.reason = reason]

\* Status().Update: refused unless the copy is current.
Update(ready, reason) ==
  LET written == [nb EXCEPT !.ready = ready, !.reason = reason]
  IN  /\ "worker" \in fresh
      /\ nb' = written
      /\ fresh' = IF written = nb THEN fresh \ {"worker"} ELSE {}

SuspendStatus ==
  /\ worker.step = "suspend"
  /\ Update(FALSE, "Suspended")
  /\ GoTo("stop")
  /\ UNCHANGED <<cache, inputVars, podVars, queue, edits, faults>>

\* Mutation of StopPod: the worker returns without deleting the Pod.
StopPodNever ==
  /\ worker.step = "stop"
  /\ Return(FALSE)
  /\ UNCHANGED <<othersUnchanged, fresh, podSync, faults>>

\* NotFound is ignored, and a Pod that is being deleted is deleted again.
StopPod ==
  /\ worker.step = "stop"
  /\ SetPod(IF pod = NoPod THEN pod ELSE [pod EXCEPT !.ending = TRUE])
  /\ Return(FALSE)
  /\ UNCHANGED <<othersUnchanged, fresh, faults>>

\* Mutation of CheckInput: the input need not be ready.
CheckInputExists(step, next) ==
  /\ worker.step = step
  /\ GoTo(next)
  /\ UNCHANGED <<othersUnchanged, fresh, queue, podSync, faults>>

\* An input that does not exist is not ready either.
CheckInput(step, next) ==
  /\ worker.step = step
  /\ IF step \in Refs \ inputCache
       THEN Decide(FALSE, "InputNotReady")
       ELSE GoTo(next)
  /\ UNCHANGED <<othersUnchanged, fresh, queue, podSync, faults>>

(***************************************************************************)
(* A server-side apply creates the Pod or changes its image and owner in   *)
(* place.  Anything else is refused as Invalid, and the Pod deleted.       *)
(***************************************************************************)
ApplyPod ==
  LET copy == worker.copy
  IN  /\ worker.step = "apply"
      /\ pod = NoPod \/ pod.shape = copy.shape
      /\ SetPod([pod EXCEPT !.uid = copy.uid, !.image = copy.image,
                            !.shape = copy.shape])
      /\ worker' = [worker EXCEPT !.step = "get", !.podReady = isPodReady(pod)]
      /\ UNCHANGED <<othersUnchanged, fresh, queue, faults>>

ApplyInvalid ==
  /\ worker.step = "apply"
  /\ pod # NoPod
  /\ pod.shape # worker.copy.shape
  /\ GoTo("replace")
  /\ UNCHANGED <<othersUnchanged, fresh, queue, podSync, faults>>

\* The event of the Pod brings the Notebook back; a Pod that has gone in the
\* meantime is an error, which requeues.
ReplacePod ==
  /\ worker.step = "replace"
  /\ SetPod(IF pod = NoPod THEN pod ELSE [pod EXCEPT !.ending = TRUE])
  /\ Return(pod = NoPod)
  /\ fresh' = fresh \ {"worker"}
  /\ UNCHANGED <<othersUnchanged, faults>>

\* A Pod that the cache does not have yet is judged by the answer to the Patch.
GetPod ==
  LET ready == IF podCache = NoPod THEN worker.podReady ELSE isPodReady(podCache)
  IN  /\ worker.step = "get"
      /\ Decide(ready, IF ready THEN "PodReady" ELSE "PodNotReady")
      /\ UNCHANGED <<othersUnchanged, fresh, queue, podSync, faults>>

WriteStatus ==
  /\ worker.step = "write"
  /\ Update(worker.copy.ready, worker.copy.reason)
  /\ Return(FALSE)
  /\ UNCHANGED <<cache, inputVars, podVars, edits, faults>>

Conflict ==
  /\ worker.step \in {"suspend", "write"}
  /\ "worker" \notin fresh
  /\ Return(TRUE)
  /\ UNCHANGED <<othersUnchanged, fresh, podSync, faults>>

WorkerStep ==
  \/ Reconcile
  \/ SuspendStatus \/ StopPod
  \/ CheckInput("model", "dataset") \/ CheckInput("dataset", "apply")
  \/ ApplyPod \/ ApplyInvalid \/ ReplacePod
  \/ GetPod
  \/ WriteStatus \/ Conflict

\* A call fails: the error is returned and the key requeued.
CallFails ==
  /\ worker.step # "idle"
  /\ Fault
  /\ Return(TRUE)
  /\ fresh' = fresh \ {"worker"}
  /\ UNCHANGED <<othersUnchanged, podSync>>

\* The restarted manager lists everything anew.
Restart ==
  /\ Fault
  /\ worker' = Idle
  /\ cache' = nb
  /\ fresh' = {"cache"}
  /\ inputCache' = inputReady
  /\ podCache' = pod
  /\ podFresh' = {"cache"}
  /\ queue' = IF Exists THEN Key ELSE {}
  /\ UNCHANGED <<nb, inputReady, everReady, pod, edits>>

Next == ClusterNext \/ WorkerStep \/ CallFails \/ Restart

Spec == Init /\ [][Next]_vars

(***************************************************************************)
(* Fairness.  Informers deliver, the worker runs, the kubelet starts and   *)
(* ends containers, garbage is collected.  Users need do nothing, nothing  *)
(* has to fail, and an upload may be broken off so that no image follows.  *)
(***************************************************************************)
Fairness ==
  /\ WF_vars(SyncNotebook) /\ WF_vars(SyncPod) /\ WF_vars(SyncInput)
  /\ WF_vars(WorkerStep)
  /\ WF_vars(PodStarts) /\ WF_vars(ContainerRestarts)
  /\ WF_vars(PodEnds) /\ WF_vars(CollectPod)

FairSpec == Spec /\ Fairness

(***************************************************************************)
(* Properties.                                                             *)
(***************************************************************************)
TypeOK ==
  /\ nb \in Records
  /\ fresh \subseteq {"cache", "worker"}
  /\ cache \in Records
  /\ inputReady \subseteq Refs
  /\ inputCache \subseteq Refs
  /\ everReady \subseteq Refs
  /\ pod \in PodRecords
  /\ podCache \in PodRecords
  /\ podFresh \subseteq {"cache"}
  /\ queue \subseteq Key
  /\ worker \in Workers
  /\ edits \in 0..MaxEdits
  /\ faults \in 0..MaxFaults

\* A Pod is only ever started when every input of the Notebook has been ready,
\* although inputs are judged by cached copies that have moved on since.
PodAfterInputs == pod # NoPod => Refs \subseteq everReady

Released == Exists /\ nb.image # None /\ nb.image = nb.wanted

InputsReady == Refs \subseteq inputReady

\* A Notebook that is left alone, with its image and its inputs, ends up ready
\* and served by a Pod of its present image and shape, also when the Pod had to
\* be replaced, was evicted, or belonged to a Notebook deleted before.
NotebookRuns ==
  <>[](Released /\ ~nb.suspend /\ InputsReady)
    => <>[](/\ nb.ready
            /\ pod.serving = nb.image
            /\ pod.shape = nb.shape
            /\ pod.uid = nb.uid)

\* A Notebook with an image that stays suspended loses its Pod for good, even
\* if a worker was about to apply the Pod when it was suspended.
SuspendStops ==
  <>[](Released /\ nb.suspend) => <>[](pod = NoPod /\ ~nb.ready)

\* An image given, a Notebook whose inputs do not come back does not stay ready.
UnreadyWithInputs ==
  <>[](Released /\ ~InputsReady) => <>[]~nb.ready

\* api/v1/notebook_types.go:17 says of spec.suspend that it "should be set to
\* true to stop the notebook (Pod) from running".
SuspendStopsPod == <>[](Exists /\ nb.suspend) => <>[](pod = NoPod)
=============================================================================
