-------------------------------- MODULE Tui ---------------------------------
(***************************************************************************)
(* The terminal programs of `sub` together: in every terminal one of them  *)
(* runs, or none (src/internal/tui, with the cluster that the terminals    *)
(* share).                                                                 *)
(***************************************************************************)
EXTENDS TuiApply, TuiGet, TuiRun, TuiServe, TuiNotebook

vars == <<runtimeVars, applyVars, getVars, runVars, serveVars, notebookVars>>

SomeRuns(ps) == \E c \in Clients : program[c] \in ps

(* What was in the cluster before matters to the programs that look at it. *)
Init == /\ RuntimeInit /\ ApplyInit /\ GetInit /\ RunInit /\ ServeInit /\ NotebookInit
        /\ SomeRuns({"apply", "delete"}) \/ cluster = {}
        /\ SomeRuns({"get"}) \/ \A o \in Listed : objects[o] = 0
        /\ SomeRuns({"run"}) \/ DOMAIN owner = {}
        /\ SomeRuns({"notebook"}) \/ notebook = "none"

Find(c) == /\ FindManifests(c) \/ SelectManifest(c)
           /\ UNCHANGED <<applyVars, getVars, runVars, serveVars, notebookVars>>

QuitProgram(c) == Quit(c) /\ UNCHANGED <<applyVars, getVars, runVars, serveVars, notebookVars>>

ApplyStep(c) == /\ program[c] \in {"apply", "delete"}
                /\ ApplyAnswers(c) \/ ApplyUpdates(c)
                /\ UNCHANGED <<getVars, runVars, serveVars, notebookVars>>
GetStep(c) == Runs(c, "get") /\ GetUpdates(c) /\ UNCHANGED <<applyVars, runVars, serveVars, notebookVars>>
RunStep(c) == /\ Runs(c, "run")
              /\ RunAnswers(c) \/ RunUpdates(c)
              /\ UNCHANGED <<applyVars, getVars, serveVars, notebookVars>>
ServeStep(c) == /\ Runs(c, "serve")
                /\ ServeAnswers(c) \/ ServeUpdates(c)
                /\ UNCHANGED <<applyVars, getVars, runVars, notebookVars>>
NotebookStep(c) == /\ Runs(c, "notebook")
                   /\ NotebookAnswers(c) \/ NotebookUpdates(c)
                   /\ UNCHANGED <<applyVars, getVars, runVars, serveVars>>

(* A program takes a step of its own: a command is answered, the event     *)
(* loop takes a message, or the program ends.  (Steps of `sub serve` are   *)
(* apart, since no liveness property is about them.)                       *)
Works(c) ==
    /\ program[c] \notin {"none", "serve"} /\ ended[c] = "no"
    /\ Find(c) \/ QuitProgram(c) \/ ApplyStep(c) \/ GetStep(c) \/ RunStep(c) \/ NotebookStep(c)

Serves(c) ==
    /\ program[c] = "serve" /\ ended[c] = "no"
    /\ Find(c) \/ QuitProgram(c) \/ ServeStep(c)

ApplyUser(c) == ApplyKey(c) /\ UNCHANGED <<getVars, runVars, serveVars, notebookVars>>
GetUser(c) == \/ GetKey(c) /\ UNCHANGED <<applyVars, runVars, serveVars, notebookVars>>
              \/ OpenFails(c) /\ UNCHANGED <<applyVars, runVars, serveVars, notebookVars>>
              \/ /\ \E k \in Kinds : CloseWatch(c, k)
                 /\ UNCHANGED <<applyVars, runVars, serveVars, notebookVars>>
RunUser(c) == RunKey(c) /\ UNCHANGED <<applyVars, getVars, serveVars, notebookVars>>
ServeUser(c) == /\ \E key \in ServeKeys : ServeKey(c, key)
                /\ UNCHANGED <<applyVars, getVars, runVars, notebookVars>>
NotebookUser(c) == /\ \E key \in NotebookKeys : NotebookKey(c, key)
                   /\ UNCHANGED <<applyVars, getVars, runVars, serveVars>>

ObjectsChange == /\ \E o \in Listed : ChangeObject(o)
                 /\ UNCHANGED <<applyVars, runVars, serveVars, notebookVars>>
ControllersReady == \/ /\ \E v \in DOMAIN owner : BecomeReady(v)
                       /\ UNCHANGED <<applyVars, getVars, serveVars, notebookVars>>
                    \/ /\ NotebookBecomes(TRUE)
                       /\ UNCHANGED <<applyVars, getVars, runVars, serveVars>>
JobsFail == \/ /\ \E v \in DOMAIN owner : JobFails(v)
               /\ UNCHANGED <<applyVars, getVars, serveVars, notebookVars>>
            \/ /\ NotebookBuildFails
               /\ UNCHANGED <<applyVars, getVars, runVars, serveVars>>
PodsChange == \/ /\ \E p \in Pods : ServerPodChanges(p)
                 /\ UNCHANGED <<applyVars, getVars, runVars, notebookVars>>
              \/ /\ NotebookBecomes(FALSE)
                 /\ UNCHANGED <<applyVars, getVars, runVars, serveVars>>

Next == \/ \E c \in Clients :
              \/ Works(c) \/ Serves(c) \/ ApplyUser(c) \/ GetUser(c) \/ RunUser(c)
              \/ ServeUser(c) \/ NotebookUser(c)
        \/ ObjectsChange \/ ControllersReady \/ JobsFail \/ PodsChange

Spec == Init /\ [][Next]_vars

(* The event loop goes on as long as its program runs, a command's call    *)
(* comes to an end, and the controllers make ready what can be: an object  *)
(* whose Jobs have failed is not among them.  Keys, faults, failing Jobs   *)
(* and the changes of others need not happen.                              *)
FairSpec == /\ Spec
            /\ \A c \in Clients : WF_vars(Works(c))
            /\ WF_vars(ControllersReady)

----------------------------------------------------------------------------
TypeOK == /\ RuntimeTypeOK /\ ApplyTypeOK /\ GetTypeOK
          /\ RunTypeOK /\ ServeTypeOK /\ NotebookTypeOK

(* An object is awaited that stays unready for good: WaitReady asks for    *)
(* readiness only, not for the failed Job that the conditions tell of.     *)
RunWaitsForFailed(c) == \E v \in broken : NamedCmd("wait", v) \in calls[c]
NotebookWaitsForFailed(c) == nbBroken /\ Cmd("waitNotebook") \in calls[c]

Arrived(c) ==
    CASE program[c] = "apply" -> ended[c] = "quit"
      [] program[c] = "run" -> ended[c] = "quit" \/ failed[c] \/ RunWaitsForFailed(c)
      [] program[c] = "notebook" -> \/ nb[c].syncing \/ ended[c] = "quit" \/ failed[c]
                                    \/ ended[c] = "crash" /\ keys # 0
                                    \/ NotebookWaitsForFailed(c)
      [] OTHER -> TRUE


(* `sub get` shows every object as it is and none that is gone, in the end,*)
(* as long as the watch of its kind stays open.                            *)
ListConverges ==
    \A c \in Clients :
        <>[](program[c] = "get" /\ ended[c] = "no" =>
                \A o \in Listed : watches[c][KindOf[o]] = "open" => listed[c][o] = objects[o])
=============================================================================
