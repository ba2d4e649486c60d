--------------------------- MODULE ModelController ---------------------------
(***************************************************************************)
(* internal/controller/model_controller.go: a Model is trained (or         *)
(* imported) by one modeller Job once its base Model and its Dataset are   *)
(* ready, and is ready from then on.                                       *)
(***************************************************************************)
EXTENDS WorkloadWorker

ReconcileModel(m) == Take("model", m, cache[m].ready, "base")

\* Mutation of CheckBaseModel: the base Model need only exist.
CheckBaseModelExists ==
  /\ worker["model"].step = "base"
  /\ LET base == BaseOf[worker["model"].key]
     IN  IF base # None /\ cache[base] = Absent
           THEN Decide("model", FALSE, "inputs", FALSE)
           ELSE GoTo("model", "dataset")
  /\ UNCHANGED <<othersUnchanged, fresh, queue, jobs, deploys, faults>>

CheckBaseModel ==
  CheckInput("model", "base", BaseOf[worker["model"].key], "dataset")

\* Mutation of CheckDataset: the Dataset need only exist.
CheckDatasetExists ==
  /\ worker["model"].step = "dataset"
  /\ LET data == DataOf[worker["model"].key]
     IN  IF data # None /\ cache[data] = Absent
           THEN Decide("model", FALSE, "inputs", FALSE)
           ELSE GoTo("model", "create")
  /\ UNCHANGED <<othersUnchanged, fresh, queue, jobs, deploys, faults>>

CheckDataset ==
  CheckInput("model", "dataset", DataOf[worker["model"].key], "create")

ModelStep ==
  \/ \E m \in Models : ReconcileModel(m)
  \/ CheckBaseModel
  \/ CheckDataset
  \/ CreateJob("model")
  \/ GetJob("model")
  \/ WriteStatus("model")
  \/ Conflict("model")
=============================================================================
