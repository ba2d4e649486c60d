------------------------------ MODULE TuiServe ------------------------------
(***************************************************************************)
(* `sub serve`: src/internal/tui/serve.go with readiness.go, pods.go and   *)
(* portforward.go.                                                         *)
(*                                                                         *)
(* A Server is applied; its readiness is awaited and its Pods are watched; *)
(* the first Pod of role "run" that is ready gets a port-forward, and when *)
(* that is up the browser is opened.  'q' asks what to do with the Server: *)
(* 'l' leaves it, 'd' deletes it, ESC goes on.                             *)
(***************************************************************************)
EXTENDS TuiPods

VARIABLES server,     \* the cluster has the Server
          serving     \* serving[c]: the fields of ServeModel

serveVars == <<server, serving, podVars>>
serveCloud == <<server, podVars>>

(* goodbye: "Server deleted.", with what was under way when 'd' was        *)
(* pressed: an apply ("hasty") or none ("settled"); before the manifest is *)
(* selected ("early") the command gets a nil resource.                     *)
Fresh == [resource |-> FALSE, quitting |-> FALSE, goodbye |-> "none",
          readyPod |-> "none", url |-> FALSE]
Set(c, field, value) == serving' = [serving EXCEPT ![c][field] = value]
AppliedServer(ok) == [msg |-> "appliedServer", ok |-> ok]
DeleteCall(when) == [cmd |-> "deleteServer", when |-> when]
DeletedServer(ok, when) == [msg |-> "deletedServer", ok |-> ok, when |-> when]
ForwardCall(p, try, up) == [cmd |-> "forward", pod |-> p, try |-> try, up |-> up]

ServeInit == /\ server = FALSE
             /\ serving = [c \in Clients |-> Fresh]
             /\ PodsInit

----------------------------------------------------------------------------
(* Update *)
ServeSelected(c) ==
    /\ Runs(c, "serve")
    /\ Handle(c, Msg("selected"), {Cmd("applyServer")}, {})
    /\ NoError
    /\ Set(c, "resource", TRUE)
    /\ UNCHANGED serveCloud

ServerApplied(c, ok) ==
    /\ Runs(c, "serve")
    /\ Handle(c, AppliedServer(ok), IF ok THEN {Cmd("waitServer"), Cmd("watchPods")} ELSE {}, {})
    /\ IF ok THEN NoError ELSE ShowError(c)
    /\ UNCHANGED <<serving, serveCloud>>

ServerDeletedAnyhow(c, ok, when) ==   \* a plausible bug: the error is not looked at
    /\ Runs(c, "serve")
    /\ Handle(c, DeletedServer(ok, when), {}, {QuitMsg})
    /\ NoError
    /\ Set(c, "goodbye", when)
    /\ UNCHANGED serveCloud

(* A deletion that was asked for ends the program, whatever its outcome.   *)
ServerDeleted(c, ok, when) ==
    /\ Runs(c, "serve")
    /\ Handle(c, DeletedServer(ok, when), {}, {QuitMsg})
    /\ IF ok THEN NoError /\ Set(c, "goodbye", when)
             ELSE ShowError(c) /\ UNCHANGED serving
    /\ UNCHANGED serveCloud

(* The first Pod of role "run" that is ready gets the port-forward; that   *)
(* the event is of its deletion is not looked at.                          *)
ForwardsAgain(c, event) ==   \* a plausible bug: every ready Pod gets one
    RoleOf[event.pod] = "run" /\ event.ready

ForwardsAnyRole(c, event) ==   \* a plausible bug: the build's Pod gets one
    serving[c].readyPod = "none" /\ event.ready

Forwards(c, event) ==
    /\ serving[c].readyPod = "none"
    /\ RoleOf[event.pod] = "run" /\ event.ready

(* Both ServeModel and its pods part see the Pod's event; the watch's      *)
(* goroutine delivers one at a time.                                       *)
ServePodMsg(c) ==
    /\ Runs(c, "serve") /\ podEvents[c] # <<>>
    /\ LET event == Head(podEvents[c])
           forwards == Forwards(c, event)
           logs == StartsLogs(WithRoleReset(entries[c], event.pod), event)
       IN  /\ PodWatchMsg(c, event)
           /\ calls' = [calls EXCEPT ![c] = @ \cup (IF logs THEN {LogsCall(event.pod)} ELSE {})
                                             \cup (IF forwards THEN {ForwardCall(event.pod, 1, FALSE)} ELSE {})]
           /\ serving' = IF forwards THEN [serving EXCEPT ![c].readyPod = event.pod] ELSE serving
    /\ UNCHANGED <<program, inbox, ended, failed, faults, keys, server>>

ServeLogsMsg(c, p) == Runs(c, "serve") /\ PodLogsMsg(c, p) /\ UNCHANGED <<server, serving>>

(* The browser is opened, and the URL is shown.                            *)
ForwardReady(c) ==
    /\ Runs(c, "serve")
    /\ Handle(c, Msg("forwardReady"), {}, {})
    /\ NoError
    /\ Set(c, "url", TRUE)
    /\ UNCHANGED serveCloud

ServeError(c) ==
    /\ Runs(c, "serve")
    /\ Handle(c, Error, {}, {})
    /\ ShowError(c)
    /\ Set(c, "quitting", TRUE)
    /\ UNCHANGED serveCloud

ServeWhen(c) == IF ~ serving[c].resource THEN "early"
           ELSE IF Cmd("applyServer") \in calls[c] THEN "hasty" ELSE "settled"

ServeKey(c, key) ==
    /\ program[c] = "serve"
    /\ UNCHANGED serveCloud
    /\ CASE key = "q" /\ ~ serving[c].quitting -> Set(c, "quitting", TRUE) /\ Press(c, {}, {})
         [] key = "esc" /\ serving[c].quitting /\ ~ failed[c] -> Set(c, "quitting", FALSE) /\ Press(c, {}, {})
         [] key = "l" /\ serving[c].quitting -> UNCHANGED serving /\ Press(c, {}, {QuitMsg})
         [] key = "d" /\ serving[c].quitting -> UNCHANGED serving /\ Press(c, {DeleteCall(ServeWhen(c))}, {})
         [] OTHER -> FALSE   \* the key has no effect

----------------------------------------------------------------------------
(* Commands *)
ApplyServer(c) ==
    /\ Runs(c, "serve")
    /\ \/ NoFault /\ server' = TRUE /\ Answer(c, Cmd("applyServer"), {AppliedServer(TRUE)})
       \/ Fault /\ server' \in {server, TRUE} /\ Answer(c, Cmd("applyServer"), {AppliedServer(FALSE)})
    /\ UNCHANGED <<serving, podVars>>

(* Without a resource the goroutine dereferences nil.                      *)
DeleteServer(c, when) ==
    /\ Runs(c, "serve") /\ DeleteCall(when) \in calls[c]
    /\ IF when = "early"
       THEN Crash(c) /\ UNCHANGED server
       ELSE \/ NoFault /\ server' = FALSE /\ Answer(c, DeleteCall(when), {DeletedServer(server, when)})
            \/ Fault /\ server' \in {server, FALSE} /\ Answer(c, DeleteCall(when), {DeletedServer(FALSE, when)})
    /\ UNCHANGED <<serving, podVars>>

(* WaitReady: the message that the Server is ready only changes the screen.*)
WaitServer(c) ==
    /\ Runs(c, "serve")
    /\ \/ /\ server /\ NoFault /\ \E p \in Pods : RoleOf[p] = "run" /\ pods[p] = "ready"
          /\ Answer(c, Cmd("waitServer"), {})
       \/ ~ server /\ NoFault /\ Answer(c, Cmd("waitServer"), {Error})
       \/ Fault /\ Answer(c, Cmd("waitServer"), {Error})
    /\ UNCHANGED serveVars

WatchPods(c) ==
    /\ Runs(c, "serve")
    /\ \/ NoFault /\ Answer(c, Cmd("watchPods"), {}) /\ OpenPodWatch(c)
       \/ Fault /\ Answer(c, Cmd("watchPods"), {Error}) /\ UNCHANGED podVars
    /\ UNCHANGED <<server, serving>>

(* portForwardCmd: each of at most three tries may be up before it breaks; *)
(* after the third the command gives up without a message.                 *)
MaxRetries == 3
Forward(c, call, next) ==
    /\ Runs(c, "serve") /\ call \in calls[c]
    /\ calls' = [calls EXCEPT ![c] = (@ \ {call}) \cup next]
    /\ UNCHANGED <<program, ended, failed, keys, serveVars>>

ForwardUp(c, p, try) ==
    /\ pods[p] = "ready"
    /\ Forward(c, ForwardCall(p, try, FALSE), {ForwardCall(p, try, TRUE)})
    /\ inbox' = [inbox EXCEPT ![c] = @ \cup {Msg("forwardReady")}]
    /\ NoFault

ForwardBreaks(c, p, try, up) ==
    /\ \/ pods[p] # "ready" /\ NoFault
       \/ Fault
    /\ Forward(c, ForwardCall(p, try, up),
               IF try = MaxRetries THEN {} ELSE {ForwardCall(p, try + 1, FALSE)})
    /\ inbox' = inbox

(* The cluster: the Server's Pods come and go while it exists.             *)
ServerPodChanges(p) ==
    /\ \E c \in Clients : Runs(c, "serve")
    /\ server \/ pods[p] # "new"
    /\ PodChanges(p)
    /\ UNCHANGED <<program, calls, inbox, ended, failed, keys, server, serving>>

(* View: Pods are shown unless an error, a goodbye or the question is.     *)
(* With an entry that has no Pod, View panics, which ends the program.     *)
ViewPanics(c) ==
    /\ Runs(c, "serve")
    /\ ~ failed[c] /\ serving[c].goodbye = "none" /\ ~ serving[c].quitting
    /\ \E p \in Pods : NilPod(entries[c][p])

ServeKeys == {"q", "esc", "l", "d"}
ServeAnswers(c) ==
    \/ ApplyServer(c) \/ WaitServer(c) \/ WatchPods(c)
    \/ \E when \in {"early", "settled", "hasty"} : DeleteServer(c, when)
    \/ \E p \in Pods :
          \/ \E try \in 1 .. MaxRetries : \/ ForwardUp(c, p, try)
                                         \/ \E up \in BOOLEAN : ForwardBreaks(c, p, try, up)
          \/ Runs(c, "serve") /\ (LogsBreak(c, p) \/ LogLine(c, p)) /\ UNCHANGED <<server, serving>>

ServeUpdates(c) ==
    \/ ServeSelected(c) \/ ForwardReady(c)
    \/ \E ok \in BOOLEAN : \/ ServerApplied(c, ok)
                           \/ \E when \in {"settled", "hasty"} : ServerDeleted(c, ok, when)
    \/ ServePodMsg(c) \/ ServeError(c)
    \/ \E p \in Pods : ServeLogsMsg(c, p)

ServeTypeOK ==
    /\ PodsTypeOK
    /\ server \in BOOLEAN
    /\ serving \in [Clients -> [resource : BOOLEAN, quitting : BOOLEAN, url : BOOLEAN,
                                goodbye : {"none", "settled", "hasty"},
                                readyPod : {p \in Pods : RoleOf[p] = "run"} \cup {"none"}]]

(* "Server deleted." is true when no apply was under way as 'd' was        *)
(* pressed and no other terminal has the Server: whatever is under way     *)
(* later does not bring it back.                                           *)
DeletedForGood ==
    \A c \in Clients :
        serving[c].goodbye = "settled" /\ (\A d \in Clients \ {c} : program[d] # "serve") => ~ server

(* Local port 8000 is wanted by one port-forward at a time, however many   *)
(* Pods become ready and however often the forward breaks.                 *)
OnePortForward ==
    \A c \in Clients : Cardinality({call \in calls[c] : call.cmd = "forward"}) <= 1

(* What the comment on View says (serve.go:233): "View returns a string    *)
(* based on data in the model."                                            *)
ViewReturns == \A c \in Clients : ~ ViewPanics(c)
=============================================================================
