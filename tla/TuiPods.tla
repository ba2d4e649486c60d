------------------------------ MODULE TuiPods -------------------------------
(***************************************************************************)
(* The part of `sub run`, `sub serve` and `sub notebook` that shows Pods   *)
(* and their logs: src/internal/tui/pods.go.                               *)
(*                                                                         *)
(* A goroutine passes the events of the Pods' watch on in their order; for *)
(* a Pod whose container is ready a command follows the logs, each line a  *)
(* message.  m.pods is a map of roles to maps of Pod names; the entry of a *)
(* line whose Pod has no entry has a nil Pod, which View dereferences.     *)
(***************************************************************************)
EXTENDS TuiRuntime

CONSTANTS PodList,    \* the Pods of the object, as they are started, each with a name of its own
          RoleOf,     \* RoleOf[p]: "build" or "run"
          MaxLines    \* bound: log lines of all Pods

Pods == {PodList[i] : i \in DOMAIN PodList}

ASSUME PodAssumption == PodList \in Seq(Pods) /\ "none" \notin Pods /\ MaxLines \in Nat

VARIABLES pods,       \* pods[p]: "new", "starting", "ready" or "gone" in the cluster
          podWatch,   \* podWatch[c]: the watch is open
          podEvents,  \* podEvents[c]: on their way
          entries,    \* entries[c][p]: what m.pods holds
          lines       \* counts log lines

podVars == <<pods, podWatch, podEvents, entries, lines>>

NoEntry == [pod |-> "none", logging |-> FALSE]
(* An entry without a Pod, which podLogsMsg has made.                      *)
NilPod(e) == e.pod = "nil"
LogsCall(p) == [cmd |-> "logs", pod |-> p]
LineMsg(p) == [msg |-> "line", pod |-> p]
PodEvent(p, to, isReady) == [pod |-> p, to |-> to, ready |-> isReady]

PodsInit == /\ pods = [p \in Pods |-> "new"]
            /\ podWatch = [c \in Clients |-> FALSE]
            /\ podEvents = [c \in Clients |-> <<>>]
            /\ entries = [c \in Clients |-> [p \in Pods |-> NoEntry]]
            /\ lines = 0

(* The cluster: the image's build ends before a Pod runs it, and a Pod     *)
(* that replaces one starts after it.  A container that is restarted       *)
(* counts as a fault.  The event of a deletion has the Pod's last status,  *)
(* which may still be ready.                                               *)
PodChanges(p) ==
    /\ \A i, j \in DOMAIN PodList : i < j /\ PodList[j] = p =>
          /\ pods[PodList[i]] \in {"ready", "gone"}
          /\ RoleOf[PodList[i]] # RoleOf[p] => pods[PodList[i]] = "gone"
    /\ \/ pods[p] = "new" /\ pods' = [pods EXCEPT ![p] = "starting"] /\ NoFault
       \/ pods[p] = "starting" /\ pods' = [pods EXCEPT ![p] = "ready"] /\ NoFault
       \/ pods[p] = "ready" /\ pods' = [pods EXCEPT ![p] = "gone"] /\ NoFault
       \/ pods[p] = "ready" /\ pods' = [pods EXCEPT ![p] = "starting"] /\ Fault
    /\ \E isReady \in IF pods'[p] = "gone" THEN BOOLEAN ELSE {pods'[p] = "ready"} :
          podEvents' = [c \in Clients |-> IF podWatch[c] THEN Append(podEvents[c], PodEvent(p, pods'[p], isReady))
                                         ELSE podEvents[c]]
    /\ UNCHANGED <<podWatch, entries, lines>>

(* watchPods; the first events are the Pods that exist.                    *)
OpenPodWatch(c) ==
    LET there == {p \in Pods : pods[p] \in {"starting", "ready"}} IN
    /\ podWatch' = [podWatch EXCEPT ![c] = TRUE]
    /\ \E order \in [1 .. Cardinality(there) -> there] :
          /\ \A i, j \in DOMAIN order : i # j => order[i] # order[j]
          /\ podEvents' = [podEvents EXCEPT ![c] =
             [i \in DOMAIN order |-> PodEvent(order[i], pods[order[i]], pods[order[i]] = "ready")]]
    /\ UNCHANGED <<pods, entries, lines>>

(* Update on a podWatchMsg: a Pod that has no entry gets one, in a new map *)
(* for its role; logs are followed from the first time the container is    *)
(* ready.                                                                  *)
WithRoleReset(old, p) ==
    [q \in Pods |-> IF old[p].pod = "none" /\ RoleOf[q] = RoleOf[p] THEN NoEntry ELSE old[q]]

StartsLogs(old, event) == event.ready /\ ~ old[event.pod].logging

PodWatchMsg(c, event) ==
    LET old == WithRoleReset(entries[c], event.pod) IN
    /\ entries' = [entries EXCEPT ![c] =
                     [old EXCEPT ![event.pod] = [pod |-> event.to, logging |-> @.logging \/ event.ready]]]
    /\ podEvents' = [podEvents EXCEPT ![c] = Tail(@)]
    /\ UNCHANGED <<pods, podWatch, lines>>

(* getLogs sends lines as long as the container runs.  (A command whose    *)
(* container has ended stays in calls, and does nothing; when the Pod is   *)
(* gone it may also end with an error.)                                    *)
LogLine(c, p) ==
    /\ ended[c] = "no" /\ LogsCall(p) \in calls[c] /\ LineMsg(p) \notin inbox[c]
    /\ pods[p] = "ready" /\ lines < MaxLines
    /\ lines' = lines + 1
    /\ inbox' = [inbox EXCEPT ![c] = @ \cup {LineMsg(p)}]
    /\ UNCHANGED <<program, calls, ended, failed, faults, keys, pods, podWatch, podEvents, entries>>

LogsBreak(c, p) ==
    /\ Fault \/ (pods[p] = "gone" /\ NoFault)
    /\ Answer(c, LogsCall(p), {Error})
    /\ UNCHANGED podVars

PodLogsMsg(c, p) ==
    /\ Handle(c, LineMsg(p), {}, {})
    /\ NoError
    /\ entries' = [entries EXCEPT ![c][p].pod = IF @ = "none" THEN "nil" ELSE @]
    /\ UNCHANGED <<pods, podWatch, podEvents, lines>>

PodsTypeOK ==
    /\ pods \in [Pods -> {"new", "starting", "ready", "gone"}]
    /\ podWatch \in [Clients -> BOOLEAN]
    /\ \A c \in Clients : \A i \in DOMAIN podEvents[c] : podEvents[c][i].pod \in Pods
    /\ entries \in [Clients -> [Pods -> [pod : {"none", "nil", "starting", "ready", "gone"}, logging : BOOLEAN]]]
    /\ lines \in 0 .. MaxLines
=============================================================================
