---------------------------- MODULE TrainingOrder ----------------------------
(***************************************************************************)
(* What the workload controllers promise together: work is done in the     *)
(* order of the references.  A Model is trained after its base Model was   *)
(* and after its Dataset was loaded; a Server is deployed after its Model  *)
(* was trained.                                                            *)
(***************************************************************************)
CONSTANTS Models, Datasets, Servers, None, BaseOf, DataOf, ModelOf

VARIABLES
  finished,   \* Models and Datasets whose artifacts have been written
  serving     \* Servers with a Deployment

orderVars == <<finished, serving>>

Inputs(m) == {BaseOf[m], DataOf[m]} \ {None}

Init == finished = {} /\ serving = {}

Finish ==
  \/ \E d \in Datasets : finished' = finished \cup {d}
  \/ \E m \in Models : Inputs(m) \subseteq finished /\ finished' = finished \cup {m}

Serve == \E s \in Servers : ModelOf[s] \in finished /\ serving' = serving \cup {s}

Withdraw == \E s \in Servers : serving' = serving \ {s}

Next ==
  \/ Finish /\ UNCHANGED serving
  \/ (Serve \/ Withdraw) /\ UNCHANGED finished

Spec == Init /\ [][Next]_orderVars
=============================================================================
