------------------------------ MODULE TuiApply ------------------------------
(***************************************************************************)
(* `sub apply` and `sub delete`: src/internal/tui/apply.go, delete.go.     *)
(*                                                                         *)
(* ApplyModel starts one command for every object, all of them with index  *)
(* 0, and every answer with index i starts the command of object i + 1: a  *)
(* chain from each object over the second, third, ... to the last one,     *)
(* whose answer ends the program.  (Indices count from 1 here.)            *)
(***************************************************************************)
EXTENDS TuiRuntime

CONSTANTS N           \* the manifests, in their order, are 1 .. N

ASSUME ApplyAssumption == N \in Nat \ {0}

VARIABLES marks,      \* marks[c][i]: what the screen shows of object i
          cluster,    \* the objects that the cluster has
          deleted     \* deleted[c]: deletions that were answered without an error

applyVars == <<marks, cluster, deleted>>

Objects == 1 .. N
(* The commands of the chain that began with object k.                     *)
ApplyCall(k, o, i) == [cmd |-> "apply", chain |-> k, object |-> o, index |-> i]
AppliedMsg(k, i, ok) == [msg |-> "applied", chain |-> k, index |-> i, ok |-> ok]
DeletedMsg(ok) == [msg |-> "deleted", ok |-> ok]

ApplyInit == /\ marks = [c \in Clients |-> [o \in Objects |-> "none"]]
             /\ cluster \in SUBSET {1}
             /\ deleted = [c \in Clients |-> 0]

ManifestsFound(c) ==
    /\ Runs(c, "apply")
    /\ Handle(c, Msg("found"), {ApplyCall(o, o, 1) : o \in Objects}, {})
    /\ NoError
    /\ marks' = [marks EXCEPT ![c] = [o \in Objects |-> "inProgress"]]
    /\ UNCHANGED <<cluster, deleted>>

(* A call that fails may have had its effect.                              *)
ApplyObject(c, call) ==
    /\ Runs(c, "apply") /\ call.cmd = "apply"
    /\ \/ /\ NoFault
          /\ Answer(c, call, {AppliedMsg(call.chain, call.index, TRUE)})
          /\ cluster' = cluster \cup {call.object}
       \/ /\ Fault
          /\ Answer(c, call, {AppliedMsg(call.chain, call.index, FALSE)})
          /\ cluster' \in {cluster, cluster \cup {call.object}}
    /\ UNCHANGED <<marks, deleted>>

Mark(c, message) ==
    marks' = [marks EXCEPT ![c][message.index] = IF message.ok THEN "check" ELSE "cross"]

AppliedSkipping(c, message) ==   \* a plausible bug: the last object is taken for finished too early
    LET i == message.index IN
    /\ Runs(c, "apply") /\ message.msg = "applied"
    /\ IF i >= N - 1
       THEN Handle(c, message, {}, {QuitMsg})
       ELSE Handle(c, message, {ApplyCall(message.chain, i + 1, i + 1)}, {})
    /\ NoError
    /\ Mark(c, message)
    /\ UNCHANGED <<cluster, deleted>>

AppliedUntilError(c, message) ==   \* a plausible bug: an error breaks the chain
    LET i == message.index IN
    /\ Runs(c, "apply") /\ message.msg = "applied"
    /\ IF i = N
       THEN Handle(c, message, {}, {QuitMsg})
       ELSE Handle(c, message, IF message.ok THEN {ApplyCall(message.chain, i + 1, i + 1)} ELSE {}, {})
    /\ NoError
    /\ Mark(c, message)
    /\ UNCHANGED <<cluster, deleted>>

Applied(c, message) ==
    LET i == message.index IN
    /\ Runs(c, "apply") /\ message.msg = "applied"
    /\ IF i = N
       THEN Handle(c, message, {}, {QuitMsg})
       ELSE Handle(c, message, {ApplyCall(message.chain, i + 1, i + 1)}, {})
    /\ NoError
    /\ Mark(c, message)
    /\ UNCHANGED <<cluster, deleted>>

ApplyError(c) ==
    /\ Runs(c, "apply")
    /\ Handle(c, Error, {}, {QuitMsg})
    /\ ShowError(c)
    /\ UNCHANGED applyVars

----------------------------------------------------------------------------
(* `sub delete KIND/NAME`; object 1 stands for the one that is named.      *)
InitDelete(c) ==
    /\ Runs(c, "delete")
    /\ Handle(c, Msg("deleteInit"), {Cmd("get")}, {})
    /\ NoError
    /\ UNCHANGED applyVars

GetTarget(c) ==
    /\ Runs(c, "delete")
    /\ \/ /\ NoFault
          /\ Answer(c, Cmd("get"), IF 1 \in cluster THEN {Msg("target")} ELSE {Error})
       \/ /\ Fault
          /\ Answer(c, Cmd("get"), {Error})
    /\ UNCHANGED applyVars

DeleteTarget(c) ==
    /\ Runs(c, "delete")
    /\ Handle(c, Msg("target"), {Cmd("delete")}, {})
    /\ NoError
    /\ UNCHANGED applyVars

DeleteObject(c) ==
    /\ Runs(c, "delete")
    /\ \/ /\ NoFault
          /\ Answer(c, Cmd("delete"), {DeletedMsg(1 \in cluster)})
          /\ cluster' = cluster \ {1}
       \/ /\ Fault
          /\ Answer(c, Cmd("delete"), {DeletedMsg(FALSE)})
          /\ cluster' \in {cluster, cluster \ {1}}
    /\ UNCHANGED <<marks, deleted>>

(* A deletion that failed is shown and not counted; the error of a lookup  *)
(* is not handled at all, and the screen stays empty.                      *)
Deleted(c, message) ==
    /\ Runs(c, "delete") /\ message.msg = "deleted"
    /\ Handle(c, message, {}, IF message.ok THEN {QuitMsg} ELSE {})
    /\ IF message.ok
       THEN deleted' = [deleted EXCEPT ![c] = @ + 1] /\ NoError
       ELSE deleted' = deleted /\ ShowError(c)
    /\ UNCHANGED <<marks, cluster>>

DeleteIgnoresError(c) ==
    /\ Runs(c, "delete")
    /\ Handle(c, Error, {}, {})
    /\ NoError
    /\ UNCHANGED applyVars

(* Both quit at any time.                                                  *)
ApplyKey(c) ==
    /\ program[c] \in {"apply", "delete"}
    /\ Press(c, {}, {QuitMsg})
    /\ UNCHANGED applyVars

ApplyAnswers(c) ==
    \/ \E call \in calls[c] : ApplyObject(c, call)
    \/ GetTarget(c) \/ DeleteObject(c)

ApplyUpdates(c) ==
    \/ ManifestsFound(c) \/ ApplyError(c)
    \/ \E message \in inbox[c] : Applied(c, message) \/ Deleted(c, message)
    \/ InitDelete(c) \/ DeleteTarget(c) \/ DeleteIgnoresError(c)

ApplyTypeOK ==
    /\ marks \in [Clients -> [Objects -> {"none", "inProgress", "check", "cross"}]]
    /\ cluster \subseteq Objects
    /\ deleted \in [Clients -> 0 .. 1]

(* However the chains overtake each other, `sub apply` quits by itself     *)
(* only when every object has an answer, and the check mark of every       *)
(* object but the first, whose mark is that of the latest chain to begin,  *)
(* is true.                                                                *)
QuitsAfterLast ==
    \A c \in Clients : program[c] = "apply" /\ ended[c] = "quit" /\ ~ failed[c] /\ keys = 0 =>
        \A o \in Objects : /\ marks[c][o] # "inProgress"
                           /\ o # 1 /\ marks[c][o] = "check" => o \in cluster
=============================================================================
