-------------------------- MODULE ServerController --------------------------
(***************************************************************************)
(* internal/controller/server_controller.go: a Server has a Deployment     *)
(* once its Model is ready, and is ready while Model and Deployment are.   *)
(* The Service that is applied together with the Deployment never changes. *)
(***************************************************************************)
EXTENDS WorkloadWorker

ReconcileServer(s) == Take("server", s, FALSE, "base")

\* Mutation of CheckModel: the Model need only exist.
CheckModelExists ==
  /\ worker["server"].step = "base"
  /\ IF cache[ModelOf[worker["server"].key]] = Absent
       THEN Decide("server", FALSE, "inputs", FALSE)
       ELSE GoTo("server", "create")
  /\ UNCHANGED <<othersUnchanged, fresh, queue, jobs, deploys, faults>>

CheckModel ==
  CheckInput("server", "base", ModelOf[worker["server"].key], "create")

\* A server-side apply: what the Deployment is, and whose, but not its pods.
ApplyDeployment ==
  LET s == worker["server"].key
  IN  /\ worker["server"].step = "create"
      /\ deploys' = [deploys EXCEPT ![s].uid = worker["server"].copy.uid,
                                    ![s].image = worker["server"].copy.image]
      /\ GoTo("server", "get")
      /\ UNCHANGED <<othersUnchanged, fresh, queue, jobs, faults>>

\* A Deployment that the cache does not have yet is an error, and here
\* nothing is written.
GetDeployment ==
  LET s == worker["server"].key
  IN  /\ worker["server"].step = "get"
      /\ IF deployCache[s] = NoDeploy
           THEN /\ Return("server", TRUE)
                /\ fresh' = [fresh EXCEPT ![s] = @ \ {"worker"}]
           ELSE /\ IF deployCache[s].available
                     THEN Decide("server", TRUE, "complete", FALSE)
                     ELSE Decide("server", FALSE, "running", FALSE)
                /\ UNCHANGED <<fresh, queue>>
      /\ UNCHANGED <<othersUnchanged, jobs, deploys, faults>>

ServerStep ==
  \/ \E s \in Servers : ReconcileServer(s)
  \/ CheckModel
  \/ ApplyDeployment
  \/ GetDeployment
  \/ WriteStatus("server")
  \/ Conflict("server")
=============================================================================
