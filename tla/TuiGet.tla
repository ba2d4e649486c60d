------------------------------- MODULE TuiGet -------------------------------
(***************************************************************************)
(* `sub get`: src/internal/tui/get.go.                                     *)
(*                                                                         *)
(* watchCmd opens one watch for each kind, one after the other.  For each, *)
(* a goroutine of its own passes the events on in their order; the first   *)
(* of them are the objects that exist.  A watch that the server closes is  *)
(* not opened again, and the screen does not say so.                       *)
(***************************************************************************)
EXTENDS TuiRuntime, SequencesExt

CONSTANTS Listed,     \* the objects that come and go
          KindOf,     \* KindOf[o]
          KindList,   \* the kinds, in the order in which they are watched
          MaxChanges  \* bound: changes of objects

Kinds == ToSet(KindList)

ASSUME GetAssumption ==
    /\ KindList \in Seq(Kinds) /\ KindList # <<>>
    /\ \A i, j \in 1 .. Len(KindList) : KindList[i] = KindList[j] => i = j
    /\ KindOf \in [Listed -> Kinds]
    /\ IsFiniteSet(Listed)
    /\ MaxChanges \in Nat

VARIABLES objects,    \* objects[o]: version of o, 0 when there is none
          changes,    \* counts the changes, and names the versions
          watches,    \* watches[c][k]: "unopened", "open" or "closed"
          events,     \* events[c][k]: on their way
          listed      \* listed[c][o]: what m.objects holds of o, 0 for nothing

getVars == <<objects, changes, watches, events, listed>>

Event(type, o) == [type |-> type, object |-> o, version |-> objects'[o]]

GetInit == /\ objects \in [Listed -> {0, 1}]
           /\ changes = 1
           /\ watches = [c \in Clients |-> [k \in Kinds |-> "unopened"]]
           /\ events = [c \in Clients |-> [k \in Kinds |-> <<>>]]
           /\ listed = [c \in Clients |-> [o \in Listed |-> 0]]

Publish(o, event) ==
    events' = [c \in Clients |->
                 IF watches[c][KindOf[o]] = "open"
                 THEN [events[c] EXCEPT ![KindOf[o]] = Append(@, event)] ELSE events[c]]

(* The cluster: an object is created, changed or deleted.                  *)
ChangeObject(o) ==
    /\ \E c \in Clients : Runs(c, "get")
    /\ changes <= MaxChanges
    /\ changes' = changes + 1
    /\ \E version \in {0, changes + 1} :
          /\ version # objects[o]
          /\ objects' = [objects EXCEPT ![o] = version]
          /\ Publish(o, Event(IF version = 0 THEN "deleted"
                              ELSE IF objects[o] = 0 THEN "added" ELSE "modified", o))
    /\ UNCHANGED <<runtimeVars, watches, listed>>

(* The next watch is opened, in the order of the loop; or it fails, and    *)
(* the kinds after it are never watched.                                   *)
OpenWatch(c) ==
    /\ Runs(c, "get") /\ Cmd("watch") \in calls[c]
    /\ LET k == KindList[Cardinality({x \in Kinds : watches[c][x] # "unopened"}) + 1]
           there == {o \in Listed : KindOf[o] = k /\ objects[o] # 0}
           last == k = KindList[Len(KindList)]
       IN  /\ objects' = objects
           /\ watches' = [watches EXCEPT ![c][k] = "open"]
           /\ events' = [events EXCEPT ![c][k] =
                           [i \in 1 .. Cardinality(there) |-> Event("added", SetToSeq(there)[i])]]
           /\ calls' = [calls EXCEPT ![c] = IF last THEN {} ELSE @]
    /\ UNCHANGED <<program, inbox, ended, failed, faults, keys, changes, listed>>

OpenFails(c) ==
    /\ Runs(c, "get") /\ Fault
    /\ Answer(c, Cmd("watch"), {Error})
    /\ UNCHANGED getVars

CloseWatch(c, k) ==
    /\ Runs(c, "get") /\ watches[c][k] = "open"
    /\ watches' = [watches EXCEPT ![c][k] = "closed"]
    /\ UNCHANGED <<runtimeVars, objects, changes, events, listed>>

(* Update handles a watchMsg.                                              *)
WatchMsgSticky(c, k) ==   \* a plausible bug: a Deleted event is shown like any other
    /\ Runs(c, "get") /\ events[c][k] # <<>>
    /\ LET event == Head(events[c][k]) IN
       listed' = [listed EXCEPT ![c][event.object] = IF event.type = "deleted" THEN @ ELSE event.version]
    /\ events' = [events EXCEPT ![c][k] = Tail(@)]
    /\ UNCHANGED <<runtimeVars, objects, changes, watches>>

WatchMsg(c, k) ==
    /\ Runs(c, "get") /\ events[c][k] # <<>>
    /\ LET event == Head(events[c][k]) IN
       listed' = [listed EXCEPT ![c][event.object] = IF event.type = "deleted" THEN 0 ELSE event.version]
    /\ events' = [events EXCEPT ![c][k] = Tail(@)]
    /\ UNCHANGED <<runtimeVars, objects, changes, watches>>

GetError(c) ==
    /\ Runs(c, "get")
    /\ Handle(c, Error, {}, {})
    /\ ShowError(c)
    /\ UNCHANGED getVars

GetKey(c) ==
    /\ program[c] = "get"
    /\ Press(c, {}, {QuitMsg})
    /\ UNCHANGED getVars

GetUpdates(c) == OpenWatch(c) \/ GetError(c) \/ \E k \in Kinds : WatchMsg(c, k)

GetTypeOK ==
    /\ objects \in [Listed -> 0 .. MaxChanges + 1]
    /\ changes \in 1 .. MaxChanges + 1
    /\ watches \in [Clients -> [Kinds -> {"unopened", "open", "closed"}]]
    /\ \A c \in Clients, k \in Kinds : \A i \in DOMAIN events[c][k] :
          KindOf[events[c][k][i].object] = k
    /\ listed \in [Clients -> [Listed -> 0 .. MaxChanges + 1]]
=============================================================================
