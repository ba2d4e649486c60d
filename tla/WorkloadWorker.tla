--------------------------- MODULE WorkloadWorker ---------------------------
(***************************************************************************)
(* What the Model, Dataset and Server controllers have in common: a work   *)
(* queue with one worker, a local copy of the object read from the cache,  *)
(* a status written back from that copy, and (for Models and Datasets)     *)
(* reconcileJob.  Every call that leaves the manager is a step of its own. *)
(*                                                                         *)
(*   step        the call that comes next                                  *)
(*   "idle"      waiting for the work queue                                *)
(*   "base"      Get of the base Model (Server: of the Model), cached      *)
(*   "dataset"   Get of the Dataset, cached                                *)
(*   "status"    Dataset: Status().Update before the Job                   *)
(*   "create"    Create of the Job (Server: Patch of the Deployment)       *)
(*   "get"       Get of the Job (Server: of the Deployment), cached        *)
(*   "write"     Status().Update of what was decided                       *)
(***************************************************************************)
EXTENDS WorkloadCluster

Controllers == {"model", "dataset", "server"}

Steps == {"idle", "base", "dataset", "status", "create", "get", "write"}

Workers == [key : Names \cup {None}, step : Steps, copy : Records,
            requeue : BOOLEAN]

Idle == [key |-> None, step |-> "idle", copy |-> Absent, requeue |-> FALSE]

WorkerInit ==
  /\ queue = {}
  /\ worker = [c \in Controllers |-> Idle]

othersUnchanged == <<objs, cache, jobCache, deployCache, completed, edits>>

(***************************************************************************)
(* Reconcile takes a key and reads the object from the cache.  An object   *)
(* without an image (or one that does not exist) is left alone; Models and *)
(* Datasets that are ready are too.                                        *)
(***************************************************************************)
Take(c, o, skip, step) ==
  /\ worker[c].step = "idle"
  /\ o \in queue
  /\ queue' = queue \ {o}
  /\ IF skip \/ cache[o].image = None
       THEN UNCHANGED <<worker, fresh>>
       ELSE /\ worker' = [worker EXCEPT ![c] =
                 [key |-> o, step |-> step, copy |-> cache[o], requeue |-> FALSE]]
            /\ fresh' = [fresh EXCEPT ![o] =
                 IF "cache" \in @ THEN @ \cup {"worker"} ELSE @]
  /\ UNCHANGED <<othersUnchanged, jobs, deploys, faults>>

GoTo(c, step) == worker' = [worker EXCEPT ![c].step = step]

\* SetStatusCondition and Status.Ready on the local copy, to be written next.
Decide(c, ready, reason, requeue) ==
  worker' = [worker EXCEPT ![c].step = "write",
                           ![c].copy.ready = ready,
                           ![c].copy.reason = reason,
                           ![c].requeue = requeue]

\* An input that does not exist is Absent, which is not ready either.
CheckInput(c, step, input, next) ==
  /\ worker[c].step = step
  /\ IF input # None /\ ~cache[input].ready
       THEN Decide(c, FALSE, "inputs", FALSE)
       ELSE GoTo(c, next)
  /\ UNCHANGED <<othersUnchanged, fresh, queue, jobs, deploys, faults>>

(***************************************************************************)
(* reconcileJob: Create, ignoring AlreadyExists, then Get from the cache.  *)
(***************************************************************************)
CreateJob(c) ==
  LET o == worker[c].key
  IN  /\ worker[c].step = "create"
      /\ IF jobs[o] = NoJob
           THEN jobs' = [jobs EXCEPT ![o] = [uid   |-> worker[c].copy.uid,
                                             image |-> worker[c].copy.image,
                                             state |-> "running"]]
           ELSE UNCHANGED jobs
      /\ GoTo(c, "get")
      /\ UNCHANGED <<othersUnchanged, fresh, queue, deploys, faults>>

\* Mutation of GetJob: a failed Job counts as finished.
GetJobFinished(c) ==
  LET state == jobCache[worker[c].key].state
  IN  /\ worker[c].step = "get"
      /\ \/ state \in {"complete", "failed"} /\ Decide(c, TRUE, "complete", FALSE)
         \/ state = "running"  /\ Decide(c, FALSE, "running", FALSE)
         \/ state = "absent"   /\ Decide(c, FALSE, "running", TRUE)
      /\ UNCHANGED <<othersUnchanged, fresh, queue, jobs, deploys, faults>>

\* A Job that the cache does not have yet is an error: the status is written
\* all the same and the key is requeued.
GetJob(c) ==
  LET state == jobCache[worker[c].key].state
  IN  /\ worker[c].step = "get"
      /\ \/ state = "complete" /\ Decide(c, TRUE, "complete", FALSE)
         \/ state = "failed"   /\ Decide(c, FALSE, "failed", FALSE)
         \/ state = "running"  /\ Decide(c, FALSE, "running", FALSE)
         \/ state = "absent"   /\ Decide(c, FALSE, "running", TRUE)
      /\ UNCHANGED <<othersUnchanged, fresh, queue, jobs, deploys, faults>>

(***************************************************************************)
(* Writing the status, and the other ends of a reconciliation.             *)
(***************************************************************************)
\* Mutation of Return: the key is taken after the local state was dropped.
ReturnDropped(c, requeue) ==
  /\ worker' = [worker EXCEPT ![c] = Idle]
  /\ queue' = queue \cup (IF requeue THEN {worker'[c].key} ELSE {})

Return(c, requeue) ==
  /\ worker' = [worker EXCEPT ![c] = Idle]
  /\ queue' = queue \cup (IF requeue THEN {worker[c].key} ELSE {})

WithStatus(o, copy) ==
  [objs[o] EXCEPT !.ready = copy.ready, !.reason = copy.reason]

\* Mutation of WriteStatus: the status is patched without a resourceVersion.
WriteStatusBlindly(c) ==
  LET o == worker[c].key
  IN  /\ worker[c].step = "write"
      /\ Exists(o)
      /\ Store(o, WithStatus(o, worker[c].copy))
      /\ Return(c, worker[c].requeue)
      /\ UNCHANGED <<cache, ownedVars, edits, faults>>

WriteStatus(c) ==
  LET o == worker[c].key
      written == WithStatus(o, worker[c].copy)
  IN  /\ worker[c].step = "write"
      /\ "worker" \in fresh[o]
      /\ objs' = [objs EXCEPT ![o] = written]
      /\ fresh' = [fresh EXCEPT ![o] =
           IF written = objs[o] THEN @ \ {"worker"} ELSE {}]
      /\ Return(c, worker[c].requeue)
      /\ UNCHANGED <<cache, ownedVars, edits, faults>>

\* The write is refused: the copy is not current, or the object is gone.
Conflict(c) ==
  /\ worker[c].step \in {"status", "write"}
  /\ "worker" \notin fresh[worker[c].key]
  /\ Return(c, TRUE)
  /\ UNCHANGED <<othersUnchanged, fresh, jobs, deploys, faults>>

\* A call fails: the error is returned and the key requeued.
CallFails(c) ==
  /\ worker[c].step \in IF c = "server" THEN Steps \ {"idle"}
                         ELSE {"base", "dataset", "status", "write"}
  /\ Fault
  /\ Return(c, TRUE)
  /\ fresh' = [fresh EXCEPT ![worker[c].key] = @ \ {"worker"}]
  /\ UNCHANGED <<othersUnchanged, jobs, deploys>>

\* A call of reconcileJob fails: as for a Job that is not there, the status is
\* written before the error is returned.
JobCallFails(c) ==
  /\ worker[c].step \in {"create", "get"}
  /\ Fault
  /\ Decide(c, FALSE, "running", TRUE)
  /\ UNCHANGED <<othersUnchanged, fresh, queue, jobs, deploys>>

\* The restarted manager lists everything anew.
Restart ==
  /\ Fault
  /\ worker' = [c \in Controllers |-> Idle]
  /\ fresh' = [o \in Names |-> {"cache"}]
  /\ cache' = objs
  /\ jobCache' = jobs
  /\ deployCache' = deploys
  /\ queue' = {o \in Names : Exists(o)}
  /\ UNCHANGED <<objs, jobs, deploys, completed, edits>>
=============================================================================
