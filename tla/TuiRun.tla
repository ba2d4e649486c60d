------------------------------- MODULE TuiRun -------------------------------
(***************************************************************************)
(* `sub run`: src/internal/tui/run.go with the parts upload.go and         *)
(* readiness.go and the commands of common.go.                             *)
(*                                                                         *)
(* The directory is packed, an object is created with an upload, the       *)
(* tarball is uploaded and the object awaited.  With --increment the name  *)
(* gets the number after the highest one in use; with --replace an object  *)
(* that has the name is deleted first.  Several terminals may run at once. *)
(***************************************************************************)
EXTENDS TuiRuntime, FiniteSetsExt

CONSTANTS Mode,       \* Mode[c]: "create", "increment" or "replace"
          Alike,      \* numbers in names of other objects that contain the name
          MaxVersion  \* bound: the highest number in use at the start

ASSUME VersionAssumption == MaxVersion \in Nat /\ Alike \subseteq 0 .. MaxVersion

VARIABLES owner,      \* owner[v], of each number that has an object (0: the plain name):
                      \* the terminal that created it, "other" for one that was there
          ready,      \* the numbers whose objects are ready
          broken,     \* the numbers whose objects stay unready for good
          stage,      \* stage[c]: what the parts of the model have completed
          name        \* name[c]: the number of the name of m.object

runCloud == <<owner, ready, broken>>
runVars == <<runCloud, stage, name>>

Exists(v) == v \in DOMAIN owner
Create(c, step, v) == [cmd |-> "create", step |-> step, version |-> v]
Named(m, v) == [msg |-> m, version |-> v]
NamedCmd(a, v) == [cmd |-> a, version |-> v]

(* The numbers that other objects of the kind have; the plain name and     *)
(* other numbers may be free or taken.                                     *)
RunInit == /\ \E taken \in SUBSET (0 .. MaxVersion) : owner = [v \in taken |-> "other"]
           /\ ready = DOMAIN owner
           /\ broken = {}
           /\ stage = [c \in Clients |-> "start"]
           /\ name = [c \in Clients |-> 0]

Stage(c, from, to) == stage[c] = from /\ stage' = [stage EXCEPT ![c] = to]

----------------------------------------------------------------------------
(* Update: the parts and RunModel itself see each message.                 *)
RunSelected(c) ==
    /\ Runs(c, "run") /\ Stage(c, "start", "tarring")
    /\ Handle(c, Msg("selected"), {Cmd("prepare")}, {})
    /\ NoError
    /\ UNCHANGED <<runCloud, name>>

TarballComplete(c) ==
    /\ Runs(c, "run") /\ Stage(c, "tarring", "creating")
    /\ Handle(c, Msg("tarball"),
              {Create(c, IF Mode[c] = "increment" THEN "list" ELSE "create", 0)}, {})
    /\ NoError
    /\ UNCHANGED <<runCloud, name>>

CreatedWithUpload(c, v) ==
    /\ Runs(c, "run") /\ Stage(c, "creating", "uploading")
    /\ Handle(c, Named("created", v), {NamedCmd("upload", v)}, {})
    /\ NoError
    /\ name' = [name EXCEPT ![c] = v]
    /\ UNCHANGED runCloud

TarballUploaded(c, v) ==
    /\ Runs(c, "run") /\ Stage(c, "uploading", "waiting")
    /\ Handle(c, Named("uploaded", v), {NamedCmd("wait", v)}, {})
    /\ NoError
    /\ UNCHANGED <<runCloud, name>>


(* RunModel quits as soon as its readiness part has completed.             *)
ObjectReady(c, v) ==
    /\ Runs(c, "run") /\ Stage(c, "waiting", "ready")
    /\ Handle(c, Named("ready", v), {}, {QuitMsg})
    /\ NoError
    /\ UNCHANGED <<runCloud, name>>

(* An error is shown; the program goes on until 'q'.                       *)
RunError(c) ==
    /\ Runs(c, "run")
    /\ Handle(c, Error, {}, {})
    /\ ShowError(c)
    /\ UNCHANGED runVars

RunKey(c) ==
    /\ program[c] = "run"
    /\ Press(c, {}, {QuitMsg})
    /\ UNCHANGED runVars

----------------------------------------------------------------------------
(* Commands *)

PrepareTarball(c) ==
    /\ Runs(c, "run")
    /\ \/ NoFault /\ Answer(c, Cmd("prepare"), {Msg("tarball")})
       \/ Fault /\ Answer(c, Cmd("prepare"), {Error})
    /\ UNCHANGED runVars

(* createWithUploadCmd goes from step to step of its calls.                *)
Step(c, from, to) ==
    /\ ended[c] = "no" /\ from \in calls[c]
    /\ calls' = [calls EXCEPT ![c] = (@ \ {from}) \cup {to}]
    /\ UNCHANGED <<program, inbox, ended, failed, faults, keys>>

(* nextModelVersion, nextDatasetVersion.  The pattern is not anchored, so  *)
(* that other objects' names count too.                                    *)
NextVersion == 1 + Max({0} \cup Alike \cup DOMAIN owner)

(* The cluster with, and without, an object of number v.  The Jobs of an   *)
(* object go with it.                                                      *)
Unstarted(v) == ready' = ready \ {v} /\ broken' = broken \ {v}
WithObject(v, c) == /\ owner' = [w \in DOMAIN owner \cup {v} |-> IF w = v THEN c ELSE owner[w]]
                    /\ Unstarted(v)
WithoutObject(v) == /\ owner' = [w \in DOMAIN owner \ {v} |-> owner[w]]
                    /\ Unstarted(v)

ListVersions(c) ==
    /\ Runs(c, "run")
    /\ \/ Step(c, Create(c, "list", 0), Create(c, "create", NextVersion))
       \/ Fault /\ Answer(c, Create(c, "list", 0), {Error})
    /\ UNCHANGED runVars

CreateObjectOver(c, s, v) ==   \* a plausible bug: AlreadyExists is taken for success
    LET call == Create(c, s, v) IN
    /\ Runs(c, "run") /\ s \in {"create", "recreate"}
    /\ NoFault
    /\ IF Exists(v) THEN UNCHANGED runCloud ELSE WithObject(v, c)
    /\ Answer(c, call, {Named("created", v)})
    /\ UNCHANGED <<stage, name>>

(* A Create whose answer is lost has taken place.                          *)
CreateObject(c, s, v) ==
    LET call == Create(c, s, v) IN
    /\ Runs(c, "run") /\ s \in {"create", "recreate"}
    /\ \/ /\ ~ Exists(v) /\ NoFault
          /\ Answer(c, call, {Named("created", v)})
          /\ WithObject(v, c)
       \/ /\ Exists(v)
          /\ IF Mode[c] = "replace" /\ s = "create"
             THEN Step(c, call, Create(c, "delete", v))
             ELSE NoFault /\ Answer(c, call, {Error})
          /\ UNCHANGED runCloud
       \/ /\ Fault
          /\ Answer(c, call, {Error})
          /\ UNCHANGED runCloud \/ (~ Exists(v) /\ WithObject(v, c))
    /\ UNCHANGED <<stage, name>>

(* Someone else may have deleted it meanwhile: then the deletion fails.    *)
DeleteForReplace(c, v) ==
    LET call == Create(c, "delete", v) IN
    /\ Runs(c, "run")
    /\ \/ /\ Exists(v)
          /\ Step(c, call, Create(c, "recreate", v))
          /\ WithoutObject(v)
       \/ /\ ~ Exists(v) /\ NoFault
          /\ Answer(c, call, {Error})
          /\ UNCHANGED runCloud
       \/ /\ Fault
          /\ Answer(c, call, {Error})
          /\ UNCHANGED runCloud
    /\ UNCHANGED <<stage, name>>

(* Resource.Upload in short: module UploadClient has its steps.            *)
UploadTarball(c, v) ==
    LET call == NamedCmd("upload", v) IN
    /\ Runs(c, "run")
    /\ \/ Exists(v) /\ NoFault /\ Answer(c, call, {Named("uploaded", v)})
       \/ ~ Exists(v) /\ NoFault /\ Answer(c, call, {Error})
       \/ Fault /\ Answer(c, call, {Error})
    /\ UNCHANGED runVars

(* WaitReady polls until the object is ready; a failing Get ends it.       *)
WaitReady(c, v) ==
    LET call == NamedCmd("wait", v) IN
    /\ Runs(c, "run")
    /\ \/ v \in ready /\ NoFault /\ Answer(c, call, {Named("ready", v)})
       \/ ~ Exists(v) /\ NoFault /\ Answer(c, call, {Error})
       \/ Fault /\ Answer(c, call, {Error})
    /\ UNCHANGED runVars

(* The controllers work on an object whose tarball is there.               *)
Unfinished(v) == /\ Exists(v) /\ v \notin ready \cup broken
                 /\ \E c \in Clients : stage[c] = "waiting" /\ name[c] = v

BecomeReady(v) ==
    /\ Unfinished(v)
    /\ ready' = ready \cup {v}
    /\ UNCHANGED <<runtimeVars, owner, broken, stage, name>>

(* The builder Job, or the modeller or loader Job, fails: the controllers  *)
(* keep it, and the object stays unready.  (To whoever waits, a Job that   *)
(* never ends or an input that never gets ready is the same.)              *)
JobFails(v) ==
    /\ Unfinished(v) /\ Fault
    /\ broken' = broken \cup {v}
    /\ UNCHANGED <<program, calls, inbox, ended, failed, keys, owner, ready, stage, name>>

(* The numbers in the commands, or the messages, of a terminal.            *)
Numbers(things) == {thing.version : thing \in {x \in things : "version" \in DOMAIN x}}

RunAnswers(c) ==
    \/ PrepareTarball(c) \/ ListVersions(c)
    \/ \E v \in Numbers(calls[c]) : \/ \E s \in {"create", "recreate"} : CreateObject(c, s, v)
                           \/ DeleteForReplace(c, v) \/ UploadTarball(c, v) \/ WaitReady(c, v)

RunUpdates(c) ==
    \/ RunSelected(c) \/ TarballComplete(c) \/ RunError(c)
    \/ \E v \in Numbers(inbox[c]) : CreatedWithUpload(c, v) \/ TarballUploaded(c, v) \/ ObjectReady(c, v)

RunTypeOK ==
    /\ DOMAIN owner \subseteq Nat
    /\ \A v \in DOMAIN owner : owner[v] \in Clients \cup {"other"}
    /\ ready \subseteq DOMAIN owner /\ broken \subseteq DOMAIN owner \ ready
    /\ stage \in [Clients -> {"start", "tarring", "creating", "uploading", "waiting", "ready"}]
    /\ name \in [Clients -> Nat]

(* A run that uploads to an object, or waits for one, has created it: two  *)
(* runs that pick the same next number never share an object, and only an  *)
(* object of the plain name can be taken away, by a run that replaces it.  *)
OwnObject ==
    \A c \in Clients :
        stage[c] \in {"uploading", "waiting", "ready"} =>
            \/ Exists(name[c]) /\ owner[name[c]] = c
            \/ /\ name[c] = 0
               /\ \E d \in Clients \ {c} : program[d] = "run" /\ Mode[d] = "replace"
=============================================================================
