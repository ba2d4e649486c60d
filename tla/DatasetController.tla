-------------------------- MODULE DatasetController --------------------------
(***************************************************************************)
(* internal/controller/dataset_controller.go: a Dataset is loaded by one   *)
(* data-loader Job and is ready from then on.                              *)
(***************************************************************************)
EXTENDS WorkloadWorker

ReconcileDataset(d) == Take("dataset", d, cache[d].ready, "status")

\* The artifacts URL is written before the Job is created.  The first write
\* changes the object, and the worker's copy gets its new resourceVersion; the
\* later ones change nothing.  An old copy ends here (Conflict).
UpdateDatasetStatus ==
  LET o == worker["dataset"].key
      located == [objs[o] EXCEPT !.reason = IF @ = "unset" THEN "located" ELSE @]
  IN  /\ worker["dataset"].step = "status"
      /\ "worker" \in fresh[o]
      /\ objs' = [objs EXCEPT ![o] = located]
      /\ fresh' = [fresh EXCEPT ![o] = IF located = objs[o] THEN @ ELSE {"worker"}]
      /\ GoTo("dataset", "create")
      /\ UNCHANGED <<cache, ownedVars, queue, edits, faults>>

DatasetStep ==
  \/ \E d \in Datasets : ReconcileDataset(d)
  \/ UpdateDatasetStatus
  \/ CreateJob("dataset")
  \/ GetJob("dataset")
  \/ WriteStatus("dataset")
  \/ Conflict("dataset")
=============================================================================
