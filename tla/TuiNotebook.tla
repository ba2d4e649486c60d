---------------------------- MODULE TuiNotebook -----------------------------
(***************************************************************************)
(* `sub notebook`: src/internal/tui/notebook.go with upload.go,            *)
(* readiness.go and the commands of common.go.                             *)
(*                                                                         *)
(* The directory is packed, the Notebook is applied (not suspended) and    *)
(* the tarball uploaded; when the Notebook is ready its files are          *)
(* synchronised and its port is forwarded.  'q' asks what to do with the   *)
(* Notebook: 's' suspends it, 'd' deletes it, ESC goes on.                 *)
(***************************************************************************)
EXTENDS TuiRuntime

VARIABLES notebook,   \* "none", "running", "suspended" or "deleted" in the cluster
          nbReady,    \* its status
          nbBroken,   \* it stays unready for good
          nb          \* nb[c]: the fields of NotebookModel

notebookCloud == <<notebook, nbReady, nbBroken>>
notebookVars == <<notebookCloud, nb>>

(* selected: notebook and resource are set; tarball: it exists; applied,   *)
(* syncing as in the model; goodbye: what the screen says the program did, *)
(* and hasty: an apply was under way or to come as the key was pressed.    *)
NoNotebook == [selected |-> FALSE, tarball |-> FALSE, applied |-> FALSE, syncing |-> FALSE,
               quitting |-> FALSE, goodbye |-> "none", hasty |-> FALSE]
SetNb(c, field, value) == nb' = [nb EXCEPT ![c][field] = value]
(* What a key does: how is what the Notebook is to become, when is "early" *)
(* before the manifest is selected (the command gets a nil resource),      *)
(* "hasty" while an apply is ahead, "settled" otherwise.                   *)
LeaveCall(how, when) == [cmd |-> "leave", how |-> how, when |-> when]
LeftMsg(how, when, ok) == [msg |-> "left", how |-> how, when |-> when, ok |-> ok]
CleanupCall(tarball) == [cmd |-> "cleanup", tarball |-> tarball]

NotebookInit == /\ notebook \in {"none", "running", "suspended"}
                /\ nbReady = (notebook = "running")
                /\ nbBroken = FALSE
                /\ nb = [c \in Clients |-> NoNotebook]

NotebookExists == notebook \in {"running", "suspended"}

----------------------------------------------------------------------------
(* Update *)
NotebookSelected(c) ==
    /\ Runs(c, "notebook")
    /\ Handle(c, Msg("selected"), {Cmd("prepare")}, {})
    /\ NoError
    /\ SetNb(c, "selected", TRUE)
    /\ UNCHANGED notebookCloud

NotebookTarball(c) ==
    /\ Runs(c, "notebook")
    /\ Handle(c, Msg("tarball"), {Cmd("applyNotebook")}, {})
    /\ NoError
    /\ SetNb(c, "tarball", TRUE)
    /\ UNCHANGED notebookCloud

NotebookApplied(c) ==
    /\ Runs(c, "notebook")
    /\ Handle(c, Msg("appliedNotebook"), {Cmd("uploadNotebook")}, {})
    /\ NoError
    /\ SetNb(c, "applied", TRUE)
    /\ UNCHANGED notebookCloud

NotebookUploaded(c) ==
    /\ Runs(c, "notebook")
    /\ Handle(c, Msg("uploadedNotebook"), {Cmd("waitNotebook")}, {})
    /\ NoError
    /\ UNCHANGED <<nb, notebookCloud>>

NotebookReady(c) ==
    /\ Runs(c, "notebook")
    /\ Handle(c, Msg("readyNotebook"), {Cmd("sync")}, {})
    /\ NoError
    /\ SetNb(c, "syncing", TRUE)
    /\ UNCHANGED notebookCloud

Goodbye(c, how, when) ==
    nb' = [nb EXCEPT ![c].goodbye = how, ![c].hasty = when = "hasty"]

NotebookLeftAnyhow(c, how, when, ok) ==   \* a plausible bug: the error is not looked at
    /\ Runs(c, "notebook")
    /\ Handle(c, LeftMsg(how, when, ok), {CleanupCall(nb[c].tarball)}, {})
    /\ NoError
    /\ Goodbye(c, how, when)
    /\ UNCHANGED notebookCloud

NotebookLeftOnSuccess(c, how, when, ok) ==   \* a plausible bug: an error does not end the program
    /\ Runs(c, "notebook")
    /\ Handle(c, LeftMsg(how, when, ok), IF ok THEN {CleanupCall(nb[c].tarball)} ELSE {}, {})
    /\ IF ok THEN NoError /\ Goodbye(c, how, when)
             ELSE ShowError(c) /\ UNCHANGED nb
    /\ UNCHANGED notebookCloud

(* suspendedMsg and deletedMsg: the program cleans up and quits, whatever  *)
(* the outcome.                                                            *)
NotebookLeft(c, how, when, ok) ==
    /\ Runs(c, "notebook")
    /\ Handle(c, LeftMsg(how, when, ok), {CleanupCall(nb[c].tarball)}, {})
    /\ IF ok THEN NoError /\ Goodbye(c, how, when)
             ELSE ShowError(c) /\ UNCHANGED nb
    /\ UNCHANGED notebookCloud

NotebookError(c) ==
    /\ Runs(c, "notebook")
    /\ Handle(c, Error, {}, {})
    /\ ShowError(c)
    /\ SetNb(c, "quitting", TRUE)
    /\ UNCHANGED notebookCloud

LeaveWhen(c) == IF ~ nb[c].selected THEN "early"
           ELSE IF \/ {Cmd("prepare"), Cmd("applyNotebook")} \cap calls[c] # {}
                   \/ Msg("tarball") \in inbox[c]
           THEN "hasty" ELSE "settled"

NotebookKey(c, key) ==
    /\ program[c] = "notebook"
    /\ UNCHANGED notebookCloud
    /\ CASE key = "q" /\ ~ nb[c].quitting -> SetNb(c, "quitting", TRUE) /\ Press(c, {}, {})
         [] key = "esc" /\ nb[c].quitting /\ ~ failed[c] -> SetNb(c, "quitting", FALSE) /\ Press(c, {}, {})
         [] key = "s" /\ nb[c].quitting -> UNCHANGED nb /\ Press(c, {LeaveCall("suspended", LeaveWhen(c))}, {})
         [] key = "d" /\ nb[c].quitting -> UNCHANGED nb /\ Press(c, {LeaveCall("deleted", LeaveWhen(c))}, {})
         [] OTHER -> FALSE   \* the key has no effect

----------------------------------------------------------------------------
(* Commands *)
PrepareNotebook(c) ==
    /\ Runs(c, "notebook")
    /\ \/ NoFault /\ Answer(c, Cmd("prepare"), {Msg("tarball")})
       \/ Fault /\ Answer(c, Cmd("prepare"), {Error})
    /\ UNCHANGED notebookVars

(* applyWithUploadCmd; NotebookModel has set suspend to false.  A new      *)
(* tarball has a tag of its own, and gets a new builder Job.               *)
ApplyNotebook(c) ==
    /\ Runs(c, "notebook")
    /\ \/ NoFault /\ notebook' = "running" /\ Answer(c, Cmd("applyNotebook"), {Msg("appliedNotebook")})
       \/ Fault /\ notebook' \in {notebook, "running"} /\ Answer(c, Cmd("applyNotebook"), {Error})
    /\ nbReady' = (nbReady /\ notebook = "running")
    /\ nbBroken' \in {nbBroken, FALSE}
    /\ UNCHANGED nb

UploadNotebook(c) ==
    /\ Runs(c, "notebook")
    /\ \/ NotebookExists /\ NoFault /\ Answer(c, Cmd("uploadNotebook"), {Msg("uploadedNotebook")})
       \/ Fault /\ Answer(c, Cmd("uploadNotebook"), {Error})
    /\ UNCHANGED notebookVars

WaitNotebook(c) ==
    /\ Runs(c, "notebook")
    /\ \/ nbReady /\ NoFault /\ Answer(c, Cmd("waitNotebook"), {Msg("readyNotebook")})
       \/ ~ NotebookExists /\ NoFault /\ Answer(c, Cmd("waitNotebook"), {Error})
       \/ Fault /\ Answer(c, Cmd("waitNotebook"), {Error})
    /\ UNCHANGED notebookVars

(* The synchronisation ends with an error when its Pod does.               *)
SyncFails(c) ==
    /\ Runs(c, "notebook")
    /\ \/ ~ nbReady /\ NoFault
       \/ Fault
    /\ Answer(c, Cmd("sync"), {Error})
    /\ UNCHANGED notebookVars

(* suspendCmd and deleteCmd; with a nil resource the goroutine dies.  A    *)
(* Notebook that does not exist can be neither suspended nor deleted, and  *)
(* a call that fails may have had its effect.                              *)
LeaveNotebook(c, how, when) ==
    LET call == LeaveCall(how, when)
        left == /\ notebook' = how /\ nbReady' = FALSE
                /\ nbBroken' = (nbBroken /\ how = "suspended")
    IN
    /\ Runs(c, "notebook") /\ call \in calls[c]
    /\ \/ /\ when = "early"
          /\ Crash(c)
          /\ UNCHANGED notebookCloud
       \/ /\ when # "early" /\ NotebookExists /\ NoFault
          /\ Answer(c, call, {LeftMsg(how, when, TRUE)})
          /\ left
       \/ /\ when # "early" /\ ~ NotebookExists /\ NoFault
          /\ Answer(c, call, {LeftMsg(how, when, FALSE)})
          /\ UNCHANGED notebookCloud
       \/ /\ when # "early" /\ Fault
          /\ Answer(c, call, {LeftMsg(how, when, FALSE)})
          /\ UNCHANGED notebookCloud \/ (NotebookExists /\ left)
    /\ UNCHANGED nb

(* cleanup dereferences the tarball, also when there is none.              *)
Cleanup(c, tarball) ==
    /\ Runs(c, "notebook") /\ CleanupCall(tarball) \in calls[c]
    /\ IF tarball THEN Answer(c, CleanupCall(tarball), {QuitMsg}) /\ NoFault ELSE Crash(c)
    /\ UNCHANGED notebookVars

(* The controller makes a running Notebook ready when its Pod is; it may   *)
(* become unready when its Pod is replaced, which counts as a fault.       *)
NotebookBecomes(isReady) ==
    /\ \E c \in Clients : Runs(c, "notebook")
    /\ notebook = "running" /\ nbReady # isReady /\ ~ nbBroken
    /\ nbReady' = isReady
    /\ IF isReady THEN NoFault ELSE Fault
    /\ UNCHANGED <<program, calls, inbox, ended, failed, keys, notebook, nbBroken, nb>>

(* The builder Job of what was uploaded fails and is kept: until there is  *)
(* another tarball the Notebook has no image, and stays unready.  (To      *)
(* whoever waits, a Pod that never gets ready is the same.)                *)
NotebookBuildFails ==
    /\ \E c \in Clients : Runs(c, "notebook")
    /\ NotebookExists /\ ~ nbReady /\ ~ nbBroken /\ Fault
    /\ nbBroken' = TRUE
    /\ UNCHANGED <<program, calls, inbox, ended, failed, keys, notebook, nbReady, nb>>

Whens == {"early", "settled", "hasty"}
NotebookKeys == {"q", "esc", "s", "d"}
NotebookAnswers(c) ==
    \/ PrepareNotebook(c) \/ ApplyNotebook(c) \/ UploadNotebook(c) \/ WaitNotebook(c) \/ SyncFails(c)
    \/ \E how \in {"suspended", "deleted"}, when \in Whens : LeaveNotebook(c, how, when)
    \/ \E tarball \in BOOLEAN : Cleanup(c, tarball)

NotebookUpdates(c) ==
    \/ NotebookSelected(c) \/ NotebookTarball(c) \/ NotebookApplied(c) \/ NotebookUploaded(c)
    \/ NotebookReady(c) \/ NotebookError(c)
    \/ \E how \in {"suspended", "deleted"}, when \in Whens, ok \in BOOLEAN : NotebookLeft(c, how, when, ok)

NotebookTypeOK ==
    /\ notebook \in {"none", "running", "suspended", "deleted"}
    /\ nbReady \in BOOLEAN /\ nbBroken \in BOOLEAN
    /\ nb \in [Clients -> [selected : BOOLEAN, tarball : BOOLEAN, applied : BOOLEAN, syncing : BOOLEAN,
                           quitting : BOOLEAN, goodbye : {"none", "suspended", "deleted"}, hasty : BOOLEAN]]

(* "Notebook suspended." and "Notebook deleted." are true, when no apply   *)
(* was ahead as the key was pressed and no other terminal has the Notebook:*)
(* nothing that is still under way starts it again.                        *)
GoodbyeHolds ==
    \A c \in Clients :
        nb[c].goodbye # "none" /\ ~ nb[c].hasty /\ (\A d \in Clients \ {c} : program[d] # "notebook") =>
            notebook # "running"

(* What the screen says (notebook.go:177, "Notebook suspended."; :185,     *)
(* "Notebook deleted.").                                                   *)
GoodbyeIsTrue ==
    \A c \in Clients : nb[c].goodbye # "none" => notebook # "running"
=============================================================================
