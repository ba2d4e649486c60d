----------------------------- MODULE TuiProofs ------------------------------
(***************************************************************************)
(* The safety of the terminal programs, for any number of terminals and    *)
(* any choice of programs for them.  Each program keeps an invariant about *)
(* the commands and messages of its own terminal: in which order they can  *)
(* come, and what they say of the cluster.                                 *)
(***************************************************************************)
EXTENDS Tui, FiniteSetTheorems, SequenceTheorems, TLAPS

USE DEF runtimeVars, applyVars, getVars, runVars, serveVars, podVars, notebookVars,
        runCloud, serveCloud, notebookCloud

(***************************************************************************)
(* A step of one terminal leaves the commands and messages of the others.  *)
(***************************************************************************)
Framed == /\ DOMAIN calls = Clients /\ DOMAIN inbox = Clients
          /\ ended \in [Clients -> {"no", "quit", "crash"}]
          /\ failed \in [Clients -> BOOLEAN]
          /\ keys \in Nat

Same(c) == /\ calls'[c] = calls[c] /\ inbox'[c] = inbox[c]
           /\ ended'[c] = ended[c] /\ failed'[c] = failed[c]

Local(d) == /\ program' = program /\ Framed'
            /\ keys' >= keys
            /\ \A c \in Clients \ {d} : Same(c)

(* No port-forward is started.                                             *)
Unforwarded(d) == \A x \in calls'[d] : x \in calls[d] \/ x.cmd # "forward"

LEMMA AnswerLocal ==
  ASSUME Framed, NEW d \in Clients, NEW call, NEW messages, Answer(d, call, messages)
  PROVE  /\ Local(d)
         /\ ended[d] = "no" /\ call \in calls[d]
         /\ calls'[d] = calls[d] \ {call} /\ inbox'[d] = inbox[d] \cup messages
         /\ ended' = ended /\ failed' = failed /\ keys' = keys
         /\ Unforwarded(d)
BY DEF Framed, Answer, Local, Same, Unforwarded

LEMMA HandleLocal ==
  ASSUME Framed, NEW d \in Clients, NEW message, NEW started, NEW sent,
         Handle(d, message, started, sent), NoError \/ ShowError(d)
  PROVE  /\ Local(d)
         /\ ended[d] = "no" /\ message \in inbox[d]
         /\ calls'[d] = calls[d] \cup started /\ inbox'[d] = (inbox[d] \ {message}) \cup sent
         /\ ended' = ended /\ keys' = keys
         /\ ShowError(d) => failed'[d]
         /\ failed[d] => failed'[d]
         /\ (\A x \in started : x.cmd # "forward") => Unforwarded(d)
<1>1. /\ failed' \in [Clients -> BOOLEAN]
      /\ \A c \in Clients \ {d} : failed'[c] = failed[c]
  BY DEF Framed, NoError, ShowError
<1>2. (ShowError(d) => failed'[d]) /\ (failed[d] => failed'[d])
  BY Zenon DEF Framed, NoError, ShowError
<1>3. /\ program' = program /\ ended' = ended /\ keys' = keys
      /\ ended[d] = "no" /\ message \in inbox[d]
      /\ calls'[d] = calls[d] \cup started /\ inbox'[d] = (inbox[d] \ {message}) \cup sent
      /\ DOMAIN calls' = Clients /\ DOMAIN inbox' = Clients
      /\ \A c \in Clients \ {d} : calls'[c] = calls[c] /\ inbox'[c] = inbox[c]
  BY DEF Framed, Handle
<1>4. Local(d)
  BY <1>1, <1>3 DEF Framed, Local, Same
<1>5. (\A x \in started : x.cmd # "forward") => Unforwarded(d)
  BY <1>3 DEF Unforwarded
<1> QED
  BY <1>2, <1>3, <1>4, <1>5

LEMMA PressLocal ==
  ASSUME Framed, NEW d \in Clients, NEW started, NEW sent, Press(d, started, sent)
  PROVE  /\ Local(d)
         /\ ended[d] = "no"
         /\ calls'[d] = calls[d] \cup started /\ inbox'[d] = inbox[d] \cup sent
         /\ ended' = ended /\ failed' = failed /\ keys' # 0
         /\ (\A x \in started : x.cmd # "forward") => Unforwarded(d)
BY DEF Framed, Press, Local, Same, Unforwarded

LEMMA CrashLocal ==
  ASSUME Framed, NEW d \in Clients, Crash(d)
  PROVE  /\ Local(d)
         /\ calls' = calls /\ inbox' = inbox /\ ended'[d] = "crash"
         /\ failed' = failed /\ keys' = keys
         /\ Unforwarded(d)
BY DEF Framed, Crash, Local, Same, Unforwarded

LEMMA QuitLocal ==
  ASSUME Framed, NEW d \in Clients, Quit(d)
  PROVE  /\ Local(d)
         /\ ended[d] = "no" /\ QuitMsg \in inbox[d]
         /\ calls' = calls /\ inbox' = inbox /\ ended'[d] = "quit"
         /\ failed' = failed /\ keys' = keys
         /\ Unforwarded(d)
BY DEF Framed, Quit, Local, Same, Unforwarded

LEMMA StepLocal ==
  ASSUME Framed, NEW d \in Clients, NEW from, NEW to, Step(d, from, to)
  PROVE  /\ Local(d)
         /\ ended[d] = "no" /\ from \in calls[d]
         /\ calls'[d] = (calls[d] \ {from}) \cup {to}
         /\ inbox' = inbox /\ ended' = ended /\ failed' = failed /\ keys' = keys
         /\ to.cmd # "forward" => Unforwarded(d)
BY DEF Framed, Step, Local, Same, Unforwarded

LEMMA FindLocal ==
  ASSUME Framed, NEW d \in Clients, FindManifests(d) \/ SelectManifest(d)
  PROVE  Local(d) /\ Unforwarded(d)
BY AnswerLocal, HandleLocal DEF FindManifests, SelectManifest

LEMMA ApplyLocal ==
  ASSUME Framed, NEW d \in Clients, ApplyAnswers(d) \/ ApplyUpdates(d) \/ ApplyKey(d)
  PROVE  Local(d) /\ Unforwarded(d)
<1>1. ASSUME NEW call \in calls[d], ApplyObject(d, call)
      PROVE  Local(d) /\ Unforwarded(d)
  BY <1>1, AnswerLocal DEF ApplyObject
<1>2. CASE GetTarget(d) \/ DeleteObject(d)
  BY <1>2, AnswerLocal DEF GetTarget, DeleteObject
<1>3. CASE ManifestsFound(d) \/ ApplyError(d) \/ InitDelete(d) \/ DeleteTarget(d)
             \/ DeleteIgnoresError(d)
  BY <1>3, HandleLocal
  DEF ManifestsFound, ApplyError, InitDelete, DeleteTarget, DeleteIgnoresError, ApplyCall, Cmd
<1>4. ASSUME NEW message \in inbox[d], Applied(d, message) \/ Deleted(d, message)
      PROVE  Local(d) /\ Unforwarded(d)
  BY <1>4, HandleLocal DEF Applied, Deleted, ApplyCall
<1>5. CASE ApplyKey(d)
  BY <1>5, PressLocal DEF ApplyKey
<1> QED
  BY <1>1, <1>2, <1>3, <1>4, <1>5 DEF ApplyAnswers, ApplyUpdates

LEMMA GetLocal ==
  ASSUME Framed, NEW d \in Clients,
         GetUpdates(d) \/ GetKey(d) \/ OpenFails(d) \/ \E k \in Kinds : CloseWatch(d, k)
  PROVE  Local(d) /\ Unforwarded(d)
<1>1. CASE OpenWatch(d)
  BY <1>1 DEF Framed, OpenWatch, Local, Same, Unforwarded
<1>2. CASE GetError(d)
  BY <1>2, HandleLocal DEF GetError
<1>6. ASSUME NEW k \in Kinds, WatchMsg(d, k)
      PROVE  Local(d) /\ Unforwarded(d)
  <2>1. UNCHANGED runtimeVars
    BY <1>6 DEF WatchMsg
  <2> QED
    BY <2>1 DEF Framed, Local, Same, Unforwarded
<1>3. CASE GetKey(d)
  BY <1>3, PressLocal DEF GetKey
<1>4. CASE OpenFails(d)
  BY <1>4, AnswerLocal DEF OpenFails
<1>5. ASSUME NEW k \in Kinds, CloseWatch(d, k)
      PROVE  Local(d) /\ Unforwarded(d)
  BY <1>5 DEF Framed, CloseWatch, Local, Same, Unforwarded
<1> QED
  BY <1>1, <1>2, <1>3, <1>4, <1>5, <1>6 DEF GetUpdates

LEMMA RunLocal ==
  ASSUME Framed, NEW d \in Clients, RunAnswers(d) \/ RunUpdates(d) \/ RunKey(d)
  PROVE  Local(d) /\ Unforwarded(d)
<1>1. CASE PrepareTarball(d) \/ ListVersions(d)
  BY <1>1, AnswerLocal, StepLocal DEF PrepareTarball, ListVersions, Create
<1>2. ASSUME NEW v, \/ CreateObject(d, "create", v) \/ CreateObject(d, "recreate", v)
                    \/ DeleteForReplace(d, v) \/ UploadTarball(d, v) \/ WaitReady(d, v)
      PROVE  Local(d) /\ Unforwarded(d)
  BY <1>2, AnswerLocal, StepLocal 
  DEF CreateObject, DeleteForReplace, UploadTarball, WaitReady, Create
<1>3. CASE RunSelected(d) \/ TarballComplete(d) \/ RunError(d)
  BY <1>3, HandleLocal DEF RunSelected, TarballComplete, RunError, Create, Cmd
<1>4. ASSUME NEW v, CreatedWithUpload(d, v) \/ TarballUploaded(d, v) \/ ObjectReady(d, v)
      PROVE  Local(d) /\ Unforwarded(d)
  BY <1>4, HandleLocal DEF CreatedWithUpload, TarballUploaded, ObjectReady, NamedCmd
<1>5. CASE RunKey(d)
  BY <1>5, PressLocal DEF RunKey
<1> QED
  BY <1>1, <1>2, <1>3, <1>4, <1>5 DEF RunAnswers, RunUpdates

LEMMA ServeLocal ==
  ASSUME Framed, NEW d \in Clients,
         ServeAnswers(d) \/ ServeUpdates(d) \/ \E key \in ServeKeys : ServeKey(d, key)
  PROVE  Local(d)
<1>1. CASE ApplyServer(d) \/ WaitServer(d) \/ WatchPods(d)
  BY <1>1, AnswerLocal DEF ApplyServer, WaitServer, WatchPods
<1>2. ASSUME NEW when, DeleteServer(d, when)
      PROVE  Local(d)
  BY <1>2, AnswerLocal, CrashLocal DEF DeleteServer
<1>3. ASSUME NEW p, NEW try, NEW up, ForwardUp(d, p, try) \/ ForwardBreaks(d, p, try, up)
      PROVE  Local(d)
  <2>1. PICK call, next : Forward(d, call, next)
    BY <1>3 DEF ForwardUp, ForwardBreaks
  <2>2. DOMAIN inbox' = Clients /\ \A c \in Clients \ {d} : inbox'[c] = inbox[c]
    BY <1>3 DEF Framed, ForwardUp, ForwardBreaks
  <2>3. /\ program' = program /\ ended' = ended /\ failed' = failed /\ keys' = keys
        /\ calls' = [calls EXCEPT ![d] = (calls[d] \ {call}) \cup next]
    BY <2>1 DEF Forward
  <2> QED
    BY <2>2, <2>3 DEF Framed, Local, Same
<1>4. ASSUME NEW p, LogsBreak(d, p)
      PROVE  Local(d)
  BY <1>4, AnswerLocal DEF LogsBreak
<1>5. ASSUME NEW p, LogLine(d, p)
      PROVE  Local(d)
  BY <1>5 DEF Framed, LogLine, Local, Same
<1>6. CASE ServeSelected(d) \/ ForwardReady(d) \/ ServeError(d)
  BY <1>6, HandleLocal DEF ServeSelected, ForwardReady, ServeError
<1>7. ASSUME NEW ok, NEW when, ServerApplied(d, ok) \/ ServerDeleted(d, ok, when)
      PROVE  Local(d)
  BY <1>7, HandleLocal DEF ServerApplied, ServerDeleted
<1>8. CASE ServePodMsg(d)
  BY <1>8 DEF Framed, ServePodMsg, Local, Same
<1>9. ASSUME NEW p, ServeLogsMsg(d, p)
      PROVE  Local(d)
  BY <1>9, HandleLocal DEF ServeLogsMsg, PodLogsMsg
<1>10. ASSUME NEW key \in ServeKeys, ServeKey(d, key)
       PROVE  Local(d)
  BY <1>10, PressLocal DEF ServeKey
<1> QED
  BY <1>1, <1>2, <1>3, <1>4, <1>5, <1>6, <1>7, <1>8, <1>9, <1>10 DEF ServeAnswers, ServeUpdates

LEMMA NotebookLocal ==
  ASSUME Framed, NEW d \in Clients,
         NotebookAnswers(d) \/ NotebookUpdates(d) \/ \E key \in NotebookKeys : NotebookKey(d, key)
  PROVE  Local(d) /\ Unforwarded(d)
<1>1. CASE PrepareNotebook(d) \/ ApplyNotebook(d) \/ UploadNotebook(d) \/ WaitNotebook(d)
             \/ SyncFails(d)
  BY <1>1, AnswerLocal
  DEF PrepareNotebook, ApplyNotebook, UploadNotebook, WaitNotebook, SyncFails
<1>2. ASSUME NEW how, NEW when, LeaveNotebook(d, how, when)
      PROVE  Local(d) /\ Unforwarded(d)
  BY <1>2, AnswerLocal, CrashLocal DEF LeaveNotebook
<1>3. ASSUME NEW tarball \in BOOLEAN, Cleanup(d, tarball)
      PROVE  Local(d) /\ Unforwarded(d)
  BY <1>3, AnswerLocal, CrashLocal DEF Cleanup
<1>4. CASE NotebookSelected(d) \/ NotebookTarball(d) \/ NotebookApplied(d) \/ NotebookUploaded(d)
             \/ NotebookReady(d) \/ NotebookError(d)
  <2>1. PICK m, started :
           /\ Handle(d, m, started, {}) /\ (NoError \/ ShowError(d))
           /\ started = {} \/ \E a \in {"prepare", "applyNotebook", "uploadNotebook", "waitNotebook", "sync"} :
                               started = {Cmd(a)}
    BY <1>4 DEF NotebookSelected, NotebookTarball, NotebookApplied, NotebookUploaded,
         NotebookReady, NotebookError
  <2>2. \A x \in started : x.cmd # "forward"
    BY <2>1 DEF Cmd
  <2> QED
    BY <2>1, <2>2, HandleLocal
<1>5. ASSUME NEW how, NEW when, NEW ok, NotebookLeft(d, how, when, ok)
      PROVE  Local(d) /\ Unforwarded(d)
  BY <1>5, HandleLocal DEF NotebookLeft, CleanupCall
<1>6. ASSUME NEW key \in NotebookKeys, NotebookKey(d, key)
      PROVE  Local(d) /\ Unforwarded(d)
  <2>1. PICK started : /\ Press(d, started, {})
                       /\ started = {} \/ \E how, when : started = {LeaveCall(how, when)}
    BY <1>6 DEF NotebookKey, NotebookKeys
  <2>2. \A x \in started : x.cmd # "forward"
    BY <2>1 DEF LeaveCall
  <2> QED
    BY <2>1, <2>2, PressLocal
<1> QED
  BY <1>1, <1>2, <1>3, <1>4, <1>5, <1>6 DEF NotebookAnswers, NotebookUpdates

(***************************************************************************)
(* A step belongs to one terminal and the program in it, or to the cluster.*)
(***************************************************************************)
Shared(d) == /\ FindManifests(d) \/ SelectManifest(d) \/ Quit(d)
             /\ UNCHANGED <<applyVars, getVars, runVars, serveVars, notebookVars>>
Applies(d) == /\ program[d] \in {"apply", "delete"}
              /\ ApplyAnswers(d) \/ ApplyUpdates(d) \/ ApplyKey(d)
              /\ UNCHANGED <<getVars, runVars, serveVars, notebookVars>>
Gets(d) == /\ program[d] = "get"
           /\ GetUpdates(d) \/ GetKey(d) \/ OpenFails(d) \/ \E k \in Kinds : CloseWatch(d, k)
           /\ UNCHANGED <<applyVars, runVars, serveVars, notebookVars>>
RunsOn(d) == /\ program[d] = "run"
             /\ RunAnswers(d) \/ RunUpdates(d) \/ RunKey(d)
             /\ UNCHANGED <<applyVars, getVars, serveVars, notebookVars>>
ServesOn(d) == /\ program[d] = "serve"
               /\ ServeAnswers(d) \/ ServeUpdates(d) \/ \E key \in ServeKeys : ServeKey(d, key)
               /\ UNCHANGED <<applyVars, getVars, runVars, notebookVars>>
NotesOn(d) == /\ program[d] = "notebook"
              /\ NotebookAnswers(d) \/ NotebookUpdates(d)
                   \/ \E key \in NotebookKeys : NotebookKey(d, key)
              /\ UNCHANGED <<applyVars, getVars, runVars, serveVars>>

Outside == /\ UNCHANGED <<program, calls, inbox, ended, failed, keys>>
           /\ UNCHANGED <<applyVars, owner, stage, name, server, serving, notebook, nb>>
           /\ NoFault \/ Fault
           /\ nbReady' \in {nbReady} \cup BOOLEAN /\ nbBroken' \in {nbBroken, TRUE}
           /\ \/ UNCHANGED getVars
              \/ \E o \in Listed : ChangeObject(o)
           /\ \/ UNCHANGED <<ready, broken>>
              \/ \E v \in DOMAIN owner : BecomeReady(v) \/ JobFails(v)
           /\ \/ UNCHANGED podVars
              \/ \E p \in Pods : PodChanges(p)

LEMMA StepCases ==
  ASSUME Framed, [Next]_vars
  PROVE  \/ Outside /\ Framed'
         \/ \E d \in Clients :
               /\ Local(d)
               /\ Shared(d) \/ Applies(d) \/ Gets(d) \/ RunsOn(d) \/ ServesOn(d) \/ NotesOn(d)
<1> DEFINE Goal == \/ Outside /\ Framed'
                   \/ \E d \in Clients :
                        /\ Local(d)
                        /\ Shared(d) \/ Applies(d) \/ Gets(d) \/ RunsOn(d) \/ ServesOn(d)
                           \/ NotesOn(d)
<1>a. Outside => Framed'
  BY DEF Outside, Framed
<1>1. CASE UNCHANGED vars
  BY <1>1, <1>a DEF vars, Outside, NoFault
<1>2. ASSUME NEW d \in Clients, Find(d) \/ QuitProgram(d)
      PROVE  Goal
  <2>1. Local(d)
    BY <1>2, FindLocal, QuitLocal DEF Find, QuitProgram
  <2>2. Shared(d)
    BY <1>2 DEF Find, QuitProgram, Shared
  <2> QED
    BY <2>1, <2>2
<1>3. ASSUME NEW d \in Clients, ApplyStep(d) \/ ApplyUser(d)
      PROVE  Goal
  <2>1. Applies(d)
    BY <1>3 DEF ApplyStep, ApplyUser, Applies, ApplyKey
  <2> QED
    BY <2>1, ApplyLocal DEF Applies
<1>4. ASSUME NEW d \in Clients, GetStep(d) \/ GetUser(d)
      PROVE  Goal
  <2>1. Gets(d)
    BY <1>4 DEF GetStep, GetUser, Gets, GetKey, OpenFails, CloseWatch, Runs
  <2> QED
    BY <2>1, GetLocal DEF Gets
<1>5. ASSUME NEW d \in Clients, RunStep(d) \/ RunUser(d)
      PROVE  Goal
  <2>1. RunsOn(d)
    BY <1>5 DEF RunStep, RunUser, RunsOn, RunKey, Runs
  <2> QED
    BY <2>1, RunLocal DEF RunsOn
<1>6. ASSUME NEW d \in Clients, ServeStep(d) \/ ServeUser(d)
      PROVE  Goal
  <2>1. ServesOn(d)
    BY <1>6 DEF ServeStep, ServeUser, ServesOn, ServeKey, Runs
  <2> QED
    BY <2>1, ServeLocal DEF ServesOn
<1>7. ASSUME NEW d \in Clients, NotebookStep(d) \/ NotebookUser(d)
      PROVE  Goal
  <2>1. NotesOn(d)
    BY <1>7 DEF NotebookStep, NotebookUser, NotesOn, NotebookKey, Runs
  <2> QED
    BY <2>1, NotebookLocal DEF NotesOn
<1>8. ASSUME ObjectsChange
      PROVE  Goal
  <2>1. PICK o \in Listed : ChangeObject(o) /\ UNCHANGED <<applyVars, runVars, serveVars, notebookVars>>
    BY <1>8 DEF ObjectsChange
  <2>2. UNCHANGED runtimeVars
    BY <2>1 DEF ChangeObject
  <2> QED
    BY <1>a, <2>1, <2>2 DEF Outside, NoFault
<1>9. ASSUME ControllersReady
      PROVE  Goal
  <2>1. ASSUME NEW v \in DOMAIN owner, BecomeReady(v),
               UNCHANGED <<applyVars, getVars, serveVars, notebookVars>>
        PROVE  Outside
    BY <2>1 DEF BecomeReady, Outside, NoFault
  <2>2. ASSUME NotebookBecomes(TRUE), UNCHANGED <<applyVars, getVars, runVars, serveVars>>
        PROVE  Outside
    BY <2>2 DEF NotebookBecomes, Outside
  <2> QED
    BY <1>9, <1>a, <2>1, <2>2 DEF ControllersReady
<1>10. ASSUME PodsChange
       PROVE  Goal
  <2>1. ASSUME NEW p \in Pods, ServerPodChanges(p),
               UNCHANGED <<applyVars, getVars, runVars, notebookVars>>
        PROVE  Outside
    BY <2>1 DEF ServerPodChanges, PodChanges, Outside
  <2>2. ASSUME NotebookBecomes(FALSE), UNCHANGED <<applyVars, getVars, runVars, serveVars>>
        PROVE  Outside
    BY <2>2 DEF NotebookBecomes, Outside
  <2> QED
    BY <1>10, <1>a, <2>1, <2>2 DEF PodsChange
<1>11. ASSUME JobsFail
       PROVE  Goal
  <2>1. ASSUME NEW v \in DOMAIN owner, JobFails(v),
               UNCHANGED <<applyVars, getVars, serveVars, notebookVars>>
        PROVE  Outside
    BY <2>1 DEF JobFails, Outside
  <2>2. ASSUME NotebookBuildFails, UNCHANGED <<applyVars, getVars, runVars, serveVars>>
        PROVE  Outside
    BY <2>2 DEF NotebookBuildFails, Outside
  <2> QED
    BY <1>11, <1>a, <2>1, <2>2 DEF JobsFail
<1> QED
  BY <1>1, <1>2, <1>3, <1>4, <1>5, <1>6, <1>7, <1>8, <1>9, <1>10, <1>11 DEF Next, Works, Serves

LEMMA InitFramed ==
  ASSUME Init
  PROVE  Framed
BY DEF Init, RuntimeInit, Framed

(***************************************************************************)
(* `sub run`.  A run has at most one creation under way or answered, while *)
(* its stage is "creating".  The object that an answer names, and later    *)
(* the one that the model holds, is the run's own, unless it has the plain *)
(* name and another run replaces objects: those know no other name.        *)
(***************************************************************************)
Replacers(c) == {d \in Clients \ {c} : program[d] = "run" /\ Mode[d] = "replace"}
Owns(c, v) == Exists(v) /\ owner[v] = c
Safe(c, v) == v # 0 \/ Replacers(c) = {}

RunTerminal(c) ==
    /\ program[c] # "run" => stage[c] = "start"
    /\ program[c] = "run" =>
         /\ \A x \in calls[c] : x.cmd = "create" =>
               /\ stage[c] = "creating"
               /\ x.step = "delete" => Mode[c] = "replace"
               /\ Mode[c] = "replace" => x.step # "list" /\ x.version = 0
               /\ \A y \in calls[c] : y.cmd = "create" => y = x
               /\ \A m \in inbox[c] : m.msg # "created"
         /\ \A m \in inbox[c] : m.msg = "created" =>
               /\ stage[c] = "creating"
               /\ \A n \in inbox[c] : n.msg = "created" => n = m
               /\ Safe(c, m.version) => Owns(c, m.version)
         /\ stage[c] \in {"uploading", "waiting", "ready"} /\ Safe(c, name[c]) => Owns(c, name[c])

RunInv == /\ Framed
          /\ DOMAIN stage = Clients /\ DOMAIN name = Clients
          /\ \A c \in Clients : RunTerminal(c)

(* Nothing new is created: what a terminal's invariant says stays.         *)
LEMMA RunFewer ==
  ASSUME NEW c \in Clients, RunTerminal(c),
         program' = program, stage'[c] = stage[c], name'[c] = name[c],
         \A x \in calls'[c] : x.cmd = "create" => x \in calls[c],
         \A m \in inbox'[c] : m.msg = "created" => m \in inbox[c],
         \A v : Safe(c, v) /\ Owns(c, v) => Owns(c, v)'
  PROVE  RunTerminal(c)'
<1>1. \A v : Safe(c, v)' = Safe(c, v)
  BY DEF Safe, Replacers
<1> QED
  BY <1>1 DEF RunTerminal

LEMMA OwnsKept ==
  ASSUME NEW c, NEW v, Owns(c, v),
         \/ owner' = owner
         \/ \E w, d : ~ Exists(w) /\ WithObject(w, d)
  PROVE  Owns(c, v)'
BY DEF Owns, Exists, WithObject

(* A step of a run keeps the invariant of its terminal.                    *)
LEMMA RunOwnStep ==
  ASSUME RunInv, NEW d \in Clients, RunsOn(d)
  PROVE  /\ RunTerminal(d)'
         /\ DOMAIN stage' = Clients /\ DOMAIN name' = Clients
         /\ \A c \in Clients \ {d} : stage'[c] = stage[c] /\ name'[c] = name[c]
         /\ \A c \in Clients \ {d} : \A v : Safe(c, v) /\ Owns(c, v) => Owns(c, v)'
<1> DEFINE Goal == /\ RunTerminal(d)'
                   /\ DOMAIN stage' = Clients /\ DOMAIN name' = Clients
                   /\ \A c \in Clients \ {d} : stage'[c] = stage[c] /\ name'[c] = name[c]
                   /\ \A c \in Clients \ {d} : \A v : Safe(c, v) /\ Owns(c, v) => Owns(c, v)'
<1>a. /\ Framed /\ RunTerminal(d) /\ program[d] = "run"
      /\ DOMAIN stage = Clients /\ DOMAIN name = Clients
  BY DEF RunInv, RunsOn
<1>b. (\A v : Safe(d, v)' = Safe(d, v)) /\ program' = program
  BY <1>a, RunLocal DEF RunsOn, Local, Safe, Replacers
<1>f. ASSUME \/ owner' = owner
             \/ \E w, e : ~ Exists(w) /\ WithObject(w, e),
             stage' = stage, name' = name,
             \A x \in calls'[d] : x.cmd = "create" => x \in calls[d],
             \A m \in inbox'[d] : m.msg = "created" => m \in inbox[d]
      PROVE  Goal
  BY <1>a, <1>b, <1>f, OwnsKept, RunFewer
<1>g. ASSUME owner' = owner
      PROVE  \A c, v : Owns(c, v)' = Owns(c, v)
  BY <1>g DEF Owns, Exists
<1>1. CASE PrepareTarball(d) \/ RunError(d) \/ RunKey(d)
  <2>1. /\ owner' = owner /\ stage' = stage /\ name' = name
    BY <1>1 DEF PrepareTarball, RunError, RunKey
  <2>2. /\ \A x \in calls'[d] : x.cmd = "create" => x \in calls[d]
        /\ \A m \in inbox'[d] : m.msg = "created" => m \in inbox[d]
    BY <1>1, <1>a, AnswerLocal, HandleLocal, PressLocal
    DEF PrepareTarball, RunError, RunKey, Error, QuitMsg, Msg
  <2> QED
    BY <1>f, <2>1, <2>2
<1>2. ASSUME NEW v, UploadTarball(d, v) \/ WaitReady(d, v)
      PROVE  Goal
  <2>1. /\ owner' = owner /\ stage' = stage /\ name' = name
    BY <1>2 DEF UploadTarball, WaitReady
  <2>2. /\ \A x \in calls'[d] : x.cmd = "create" => x \in calls[d]
        /\ \A m \in inbox'[d] : m.msg = "created" => m \in inbox[d]
    BY <1>2, <1>a, AnswerLocal DEF UploadTarball, WaitReady, Error, Msg, Named
  <2> QED
    BY <1>f, <2>1, <2>2
<1>3. CASE RunSelected(d)
  <2>1. /\ owner' = owner /\ name' = name /\ stage[d] = "start"
        /\ stage' = [stage EXCEPT ![d] = "tarring"]
        /\ calls'[d] = calls[d] \cup {Cmd("prepare")} /\ inbox'[d] \subseteq inbox[d]
    BY <1>3, <1>a, HandleLocal DEF RunSelected, Stage
  <2>2. RunTerminal(d)'
    BY <1>a, <1>b, <2>1 DEF RunTerminal, Cmd
  <2> QED
    BY <1>a, <1>g, <2>1, <2>2
<1>4. CASE TarballComplete(d)
  <2>1. PICK s : /\ s = IF Mode[d] = "increment" THEN "list" ELSE "create"
                 /\ calls'[d] = calls[d] \cup {Create(d, s, 0)}
                 /\ inbox'[d] \subseteq inbox[d]
    BY <1>4, <1>a, HandleLocal DEF TarballComplete
  <2>2. /\ owner' = owner /\ name' = name /\ stage[d] = "tarring"
        /\ stage' = [stage EXCEPT ![d] = "creating"]
    BY <1>4 DEF TarballComplete, Stage
  <2>3. RunTerminal(d)'
    BY <1>a, <1>b, <2>1, <2>2 DEF RunTerminal, Create
  <2> QED
    BY <1>a, <1>g, <2>2, <2>3
<1>5. ASSUME NEW v, CreatedWithUpload(d, v)
      PROVE  Goal
  <2>1. /\ Named("created", v) \in inbox[d]
        /\ calls'[d] = calls[d] \cup {NamedCmd("upload", v)}
        /\ inbox'[d] = inbox[d] \ {Named("created", v)}
    BY <1>5, <1>a, HandleLocal DEF CreatedWithUpload
  <2>2. /\ owner' = owner /\ name' = [name EXCEPT ![d] = v] /\ stage[d] = "creating"
        /\ stage' = [stage EXCEPT ![d] = "uploading"]
    BY <1>5 DEF CreatedWithUpload, Stage
  <2>3. RunTerminal(d)'
    BY <1>a, <1>b, <1>g, <2>1, <2>2 DEF RunTerminal, NamedCmd, Named
  <2> QED
    BY <1>a, <1>g, <2>2, <2>3
<1>6. ASSUME NEW v, TarballUploaded(d, v) \/ ObjectReady(d, v)
      PROVE  Goal
  <2>1. /\ \A x \in calls'[d] : x.cmd = "create" => x \in calls[d]
        /\ \A m \in inbox'[d] : m.msg = "created" => m \in inbox[d]
    BY <1>6, <1>a, HandleLocal DEF TarballUploaded, ObjectReady, NamedCmd, QuitMsg, Msg
  <2>2. /\ owner' = owner /\ name' = name
        /\ \/ stage[d] = "uploading" /\ stage' = [stage EXCEPT ![d] = "waiting"]
           \/ stage[d] = "waiting" /\ stage' = [stage EXCEPT ![d] = "ready"]
    BY <1>6 DEF TarballUploaded, ObjectReady, Stage
  <2>3. RunTerminal(d)'
    BY <1>a, <1>b, <1>g, <2>1, <2>2 DEF RunTerminal
  <2> QED
    BY <1>a, <1>g, <2>2, <2>3
(* A step of a creation: one call replaces the other.                      *)
<1>s. ASSUME NEW from, NEW to, Step(d, from, to), from.cmd = "create", to.cmd = "create",
             to.step = "delete" => Mode[d] = "replace",
             Mode[d] = "replace" => to.step # "list" /\ to.version = 0,
             stage' = stage, name' = name
      PROVE  RunTerminal(d)'
  <2>1. calls'[d] = (calls[d] \ {from}) \cup {to} /\ inbox' = inbox /\ from \in calls[d]
    BY <1>a, <1>s, StepLocal
  <2> QED
    BY <1>a, <1>b, <1>s, <2>1 DEF RunTerminal
<1>7. CASE ListVersions(d)
  <2>1. /\ owner' = owner /\ stage' = stage /\ name' = name
    BY <1>7 DEF ListVersions
  <2>2. CASE Step(d, Create(d, "list", 0), Create(d, "create", NextVersion))
    <3>1. Mode[d] # "replace"
      BY <1>a, <2>2, StepLocal DEF RunTerminal, Create
    <3> QED
      BY <1>a, <1>g, <1>s, <2>1, <2>2, <3>1 DEF Create
  <2>3. CASE Answer(d, Create(d, "list", 0), {Error})
    BY <1>a, <1>f, <2>1, <2>3, AnswerLocal DEF Error, Msg
  <2> QED
    BY <1>7, <2>2, <2>3 DEF ListVersions
<1>8. ASSUME NEW v, NEW s \in {"create", "recreate"}, CreateObject(d, s, v)
      PROVE  Goal
  <2>1. /\ stage' = stage /\ name' = name
    BY <1>8 DEF CreateObject
  <2>2. CASE /\ ~ Exists(v) /\ WithObject(v, d)
             /\ Answer(d, Create(d, s, v), {Named("created", v)})
    <3>1. /\ Create(d, s, v) \in calls[d]
          /\ calls'[d] = calls[d] \ {Create(d, s, v)}
          /\ inbox'[d] = inbox[d] \cup {Named("created", v)}
      BY <1>a, <2>2, AnswerLocal
    <3>2. Owns(d, v)'
      BY <2>2 DEF Owns, Exists, WithObject
    <3>3. RunTerminal(d)'
      BY <1>a, <1>b, <2>1, <3>1, <3>2 DEF RunTerminal, Create, Named
    <3> QED
      BY <1>a, <2>1, <2>2, <3>3, OwnsKept
  <2>3. CASE /\ Exists(v) /\ Mode[d] = "replace" /\ owner' = owner
             /\ Step(d, Create(d, s, v), Create(d, "delete", v))
    <3>1. v = 0
      BY <1>a, <2>3, StepLocal DEF RunTerminal, Create
    <3> QED
      BY <1>a, <1>g, <1>s, <2>1, <2>3, <3>1 DEF Create
  <2>4. CASE /\ Answer(d, Create(d, s, v), {Error})
             /\ owner' = owner \/ (~ Exists(v) /\ WithObject(v, d))
    BY <1>a, <1>f, <2>1, <2>4, AnswerLocal DEF Error, Msg
  <2> QED
    BY <1>8, <2>2, <2>3, <2>4 DEF CreateObject
<1>9. ASSUME NEW v, DeleteForReplace(d, v)
      PROVE  Goal
  <2>1. /\ stage' = stage /\ name' = name
    BY <1>9 DEF DeleteForReplace
  <2>2. CASE WithoutObject(v) /\ Step(d, Create(d, "delete", v), Create(d, "recreate", v))
    <3>1. Create(d, "delete", v) \in calls[d]
      BY <2>2 DEF Step
    <3>2. Mode[d] = "replace" /\ v = 0
      BY <1>a, <3>1 DEF RunTerminal, Create
    <3>3. RunTerminal(d)'
      BY <1>s, <2>1, <2>2, <3>2 DEF Create
    <3>4. \A c \in Clients \ {d} : Replacers(c) # {}
      BY <1>a, <3>2 DEF Replacers
    <3>5. \A c \in Clients \ {d} : \A w : Safe(c, w) /\ Owns(c, w) => Owns(c, w)'
      BY <2>2, <3>2, <3>4 DEF Safe, Owns, Exists, WithoutObject
    <3> QED
      BY <1>a, <2>1, <3>3, <3>5
  <2>3. CASE owner' = owner /\ Answer(d, Create(d, "delete", v), {Error})
    BY <1>a, <1>f, <2>1, <2>3, AnswerLocal DEF Error, Msg
  <2> QED
    BY <1>9, <2>2, <2>3 DEF DeleteForReplace
<1> QED
  BY <1>1, <1>2, <1>3, <1>4, <1>5, <1>6, <1>7, <1>8, <1>9 DEF RunsOn, RunAnswers, RunUpdates

LEMMA RunInvStep ==
  ASSUME RunInv, [Next]_vars
  PROVE  RunInv'
<1>a. Framed /\ \A c \in Clients : RunTerminal(c)
  BY DEF RunInv
<1>b. ASSUME owner' = owner
      PROVE  \A c, v : Owns(c, v) => Owns(c, v)'
  BY <1>b DEF Owns, Exists
<1>c. ASSUME NEW c \in Clients, program' = program, Same(c),
             stage'[c] = stage[c], name'[c] = name[c],
             \A v : Safe(c, v) /\ Owns(c, v) => Owns(c, v)'
      PROVE  RunTerminal(c)'
  BY <1>a, <1>c, RunFewer DEF Same
<1>1. CASE Outside /\ Framed'
  <2>1. \A c \in Clients : RunTerminal(c)'
    BY <1>1, <1>b, <1>c DEF Outside, Same
  <2> QED
    BY <1>1, <2>1 DEF RunInv, Outside
<1>2. ASSUME NEW d \in Clients, Local(d), RunsOn(d)
      PROVE  RunInv'
  BY <1>2, <1>c, RunOwnStep DEF RunInv, Local
<1>3. ASSUME NEW d \in Clients, Local(d),
             Shared(d) \/ Applies(d) \/ Gets(d) \/ ServesOn(d) \/ NotesOn(d)
      PROVE  RunInv'
  <2>1. UNCHANGED runVars
    BY <1>3 DEF Shared, Applies, Gets, ServesOn, NotesOn
  <2>2. \A c \in Clients \ {d} : RunTerminal(c)'
    BY <1>3, <1>b, <1>c, <2>1 DEF Local
  <2>3. RunTerminal(d)'
    <3>1. CASE program[d] # "run"
      BY <1>3, <1>a, <2>1, <3>1 DEF RunTerminal, Local
    <3>2. CASE Shared(d)
      <4>1. /\ \A x \in calls'[d] : x.cmd = "create" => x \in calls[d]
            /\ \A m \in inbox'[d] : m.msg = "created" => m \in inbox[d]
        BY <1>a, <3>2, AnswerLocal, HandleLocal, QuitLocal
        DEF Shared, FindManifests, SelectManifest, Error, Msg
      <4> QED
        BY <1>3, <1>a, <1>b, <2>1, <4>1, RunFewer DEF Local
    <3> QED
      BY <1>3, <3>1, <3>2 DEF Applies, Gets, ServesOn, NotesOn
  <2> QED
    BY <1>3, <2>1, <2>2, <2>3 DEF RunInv, Local
<1> QED
  BY <1>a, <1>1, <1>2, <1>3, StepCases

(* However many terminals run, whatever they replace and whichever calls   *)
(* fail or are lost after their effect: a run that uploads to an object,   *)
(* or waits for one, has created it (createWithUploadCmd of common.go and  *)
(* upload.go), unless it has the plain name and another run replaces it.   *)
THEOREM RunsOwnObject == Spec => []OwnObject
<1>1. Init => RunInv
  <2>1. SUFFICES ASSUME Init PROVE RunInv
    OBVIOUS
  <2>2. Framed
    BY <2>1, InitFramed
  <2>3. ASSUME NEW c \in Clients
        PROVE  RunTerminal(c)
    <3>1. stage[c] = "start"
      BY <2>1 DEF Init, RunInit
    <3>2. /\ \A x \in calls[c] : x.cmd # "create"
          /\ \A m \in inbox[c] : m.msg # "created"
      BY <2>1 DEF Init, RuntimeInit, Cmd, Msg
    <3> QED
      BY <3>1, <3>2 DEF RunTerminal
  <2> QED
    BY <2>1, <2>2, <2>3 DEF Init, RunInit, RunInv
<1>2. RunInv /\ [Next]_vars => RunInv'
  BY RunInvStep
<1>3. RunInv => OwnObject
  BY DEF RunInv, RunTerminal, OwnObject, Safe, Replacers, Owns, Exists
<1> QED
  BY <1>1, <1>2, <1>3, PTL DEF Spec

(***************************************************************************)
(* `sub apply`.                                                            *)
(***************************************************************************)
Begins(c) == Cmd("find") \in calls[c] \/ Msg("found") \in inbox[c]
Answered(c, i) == \A j \in Objects : j < i => marks[c][j] # "inProgress"
Leaves(c) == QuitMsg \in inbox[c] \/ ended[c] = "quit"

ApplyTerminal(c) ==
    /\ \A x \in calls[c] : x.cmd = "apply" =>
          /\ ~ Begins(c)
          /\ x.index \in Objects /\ x.object \in Objects
          /\ x.index # 1 => x.object = x.index
          /\ Answered(c, x.index)
    /\ \A m \in inbox[c] : m.msg = "applied" =>
          /\ ~ Begins(c)
          /\ m.index \in Objects
          /\ m.ok /\ m.index # 1 => m.index \in cluster
          /\ Answered(c, m.index)
    /\ ~ (Cmd("find") \in calls[c] /\ Msg("found") \in inbox[c])
    /\ Begins(c) /\ Leaves(c) => failed[c] \/ keys # 0
    /\ Leaves(c) /\ ~ failed[c] /\ keys = 0 => Answered(c, N + 1)
    /\ \A o \in Objects : o # 1 /\ marks[c][o] = "check" => o \in cluster

ApplyInv == /\ Framed
            /\ marks \in [Clients -> [Objects -> {"none", "inProgress", "check", "cross"}]]
            /\ \A c \in Clients : program[c] = "apply" => ApplyTerminal(c)

(* What a terminal's invariant says is kept when nothing of it changes but *)
(* that objects come and object 1 goes.                                    *)
LEMMA ApplyKept ==
  ASSUME NEW c \in Clients, ApplyTerminal(c), Framed, Same(c),
         marks'[c] = marks[c], keys' \in Nat, keys' >= keys,
         \A o \in cluster : o # 1 => o \in cluster'
  PROVE  ApplyTerminal(c)'
<1>1. keys # 0 => keys' # 0
  BY DEF Framed
<1>2. /\ Begins(c)' = Begins(c)
      /\ \A i : Answered(c, i)' = Answered(c, i)
      /\ Leaves(c)' = Leaves(c)
  BY DEF Begins, Answered, Leaves, Same
<1> QED
  BY <1>1, <1>2 DEF ApplyTerminal, Same

LEMMA ApplyOwnStep ==
  ASSUME ApplyInv, NEW d \in Clients, Local(d), Shared(d) \/ Applies(d)
  PROVE  /\ marks' \in [Clients -> [Objects -> {"none", "inProgress", "check", "cross"}]]
         /\ program[d] = "apply" => ApplyTerminal(d)'
         /\ \A c \in Clients \ {d} : marks'[c] = marks[c]
         /\ \A o \in cluster : o # 1 => o \in cluster'
<1> DEFINE States == {"none", "inProgress", "check", "cross"}
           Goal == /\ marks' \in [Clients -> [Objects -> States]]
                   /\ program[d] = "apply" => ApplyTerminal(d)'
                   /\ \A c \in Clients \ {d} : marks'[c] = marks[c]
                   /\ \A o \in cluster : o # 1 => o \in cluster'
<1>a. /\ Framed /\ marks \in [Clients -> [Objects -> States]]
      /\ program[d] = "apply" => ApplyTerminal(d)
      /\ keys \in Nat /\ keys' \in Nat /\ keys' >= keys
  BY DEF ApplyInv, Framed, Local
<1>n. N \in Nat \ {0} /\ 1 \in Objects /\ N \in Objects
  BY ApplyAssumption DEF Objects
<1>i. Objects \subseteq Nat
  BY DEF Objects
<1>1. CASE Shared(d)
  <2>a. marks' = marks /\ cluster' = cluster
    BY <1>1 DEF Shared
  <2>b. \A i : Answered(d, i)' = Answered(d, i)
    BY <2>a DEF Answered
  <2>1. ASSUME program[d] = "apply", FindManifests(d)
        PROVE  ApplyTerminal(d)'
    <3>1. /\ Cmd("find") \in calls[d]
          /\ calls'[d] = calls[d] \ {Cmd("find")}
          /\ \/ inbox'[d] = inbox[d] \cup {Msg("found")}
             \/ inbox'[d] = inbox[d] \cup {Error}
          /\ ended' = ended /\ failed' = failed /\ keys' = keys
      BY <1>a, <2>1, AnswerLocal DEF FindManifests
    <3>2. /\ Begins(d)
          /\ Leaves(d)' = Leaves(d)
      BY <3>1 DEF Begins, Leaves, Error, QuitMsg, Msg
    <3> QED
      BY <1>a, <2>1, <2>a, <2>b, <3>1, <3>2 DEF ApplyTerminal, Begins, Error, Msg, Cmd
  <2>2. ASSUME program[d] = "apply", Quit(d)
        PROVE  ApplyTerminal(d)'
    <3>1. /\ calls' = calls /\ inbox' = inbox /\ failed' = failed /\ keys' = keys
          /\ Leaves(d)
      BY <1>a, <2>2, QuitLocal DEF Leaves
    <3>2. Begins(d)' = Begins(d)
      BY <3>1 DEF Begins
    <3> QED
      BY <1>a, <2>2, <2>a, <2>b, <3>1, <3>2 DEF ApplyTerminal
  <2> QED
    BY <1>1, <1>a, <2>a, <2>1, <2>2 DEF Shared, SelectManifest
<1>2. ASSUME program[d] = "apply", ManifestsFound(d)
      PROVE  Goal
  <2>1. /\ Msg("found") \in inbox[d]
        /\ calls'[d] = calls[d] \cup {ApplyCall(o, o, 1) : o \in Objects}
        /\ inbox'[d] = inbox[d] \ {Msg("found")}
        /\ ended' = ended /\ failed' = failed /\ keys' = keys
    BY <1>2, <1>a, HandleLocal DEF ManifestsFound, NoError
  <2>2. /\ marks' = [marks EXCEPT ![d] = [o \in Objects |-> "inProgress"]]
        /\ cluster' = cluster
    BY <1>2 DEF ManifestsFound
  <2>3. Begins(d) /\ ~ Begins(d)' /\ Leaves(d)' = Leaves(d)
    BY <1>2, <1>a, <2>1 DEF Begins, Leaves, ApplyTerminal, QuitMsg, Msg, Cmd, ApplyCall
  <2>4. /\ \A x \in calls[d] : x.cmd # "apply"
        /\ \A m \in inbox'[d] : m.msg # "applied"
        /\ Leaves(d)' => failed[d] \/ keys # 0
    BY <1>2, <1>a, <2>1, <2>3 DEF ApplyTerminal
  <2>5. \A x \in calls'[d] : x.cmd = "apply" => x.index = 1 /\ x.object \in Objects
    BY <2>1, <2>4 DEF ApplyCall
  <2>6. Answered(d, 1)'
    BY <1>i DEF Answered, Objects
  <2>7. \A o \in Objects : marks'[d][o] = "inProgress"
    BY <1>a, <2>2
  <2>8. ApplyTerminal(d)'
    BY <1>n, <2>1, <2>3, <2>4, <2>5, <2>6, <2>7 DEF ApplyTerminal, Begins
  <2> QED
    BY <1>a, <2>2, <2>8
<1>3. ASSUME program[d] = "apply", NEW x \in calls[d], ApplyObject(d, x)
      PROVE  Goal
  <2>1. PICK ok \in BOOLEAN :
           /\ Answer(d, x, {AppliedMsg(x.chain, x.index, ok)})
           /\ ok => cluster' = cluster \cup {x.object}
    BY <1>3 DEF ApplyObject
  <2>2. /\ x.cmd = "apply" /\ marks' = marks /\ cluster \subseteq cluster'
    BY <1>3 DEF ApplyObject
  <2>3. /\ calls'[d] = calls[d] \ {x}
        /\ inbox'[d] = inbox[d] \cup {AppliedMsg(x.chain, x.index, ok)}
        /\ ended' = ended /\ failed' = failed /\ keys' = keys
    BY <1>a, <2>1, AnswerLocal
  <2>4. /\ x.index \in Objects /\ Answered(d, x.index) /\ ~ Begins(d)
        /\ x.index # 1 => x.object = x.index
    BY <1>3, <1>a, <2>2 DEF ApplyTerminal
  <2>5. /\ ~ Begins(d)' /\ Leaves(d)' = Leaves(d)
        /\ \A i : Answered(d, i)' = Answered(d, i)
    BY <2>2, <2>3, <2>4 DEF Begins, Leaves, Answered, AppliedMsg, QuitMsg, Msg
  <2>6. \A m \in inbox'[d] : m.msg = "applied" =>
           /\ m.index \in Objects
           /\ m.ok /\ m.index # 1 => m.index \in cluster'
           /\ Answered(d, m.index)
    <3>1. ASSUME NEW m \in inbox[d], m.msg = "applied"
          PROVE  /\ m.index \in Objects
                 /\ m.ok /\ m.index # 1 => m.index \in cluster'
                 /\ Answered(d, m.index)
      BY <1>3, <1>a, <2>2, <3>1 DEF ApplyTerminal
    <3>2. LET m == AppliedMsg(x.chain, x.index, ok)
          IN  /\ m.index \in Objects
              /\ m.ok /\ m.index # 1 => m.index \in cluster'
              /\ Answered(d, m.index)
      BY <2>1, <2>4 DEF AppliedMsg
    <3> QED
      BY <2>3, <3>1, <3>2
  <2>7. ApplyTerminal(d)'
    BY <1>3, <1>a, <2>2, <2>3, <2>5, <2>6 DEF ApplyTerminal, Begins
  <2> QED
    BY <1>a, <2>2, <2>7
<1>4. ASSUME program[d] = "apply", NEW m \in inbox[d], Applied(d, m)
      PROVE  Goal
  <2>1. PICK started, sent :
           /\ Handle(d, m, started, sent) /\ NoError
           /\ m.index = N => started = {} /\ sent = {QuitMsg}
           /\ m.index # N => /\ started = {ApplyCall(m.chain, m.index + 1, m.index + 1)}
                             /\ sent = {}
    BY <1>4 DEF Applied
  <2>2. /\ m.msg = "applied" /\ cluster' = cluster
        /\ marks' = [marks EXCEPT ![d][m.index] = IF m.ok THEN "check" ELSE "cross"]
    BY <1>4 DEF Applied, Mark
  <2>3. /\ calls'[d] = calls[d] \cup started
        /\ inbox'[d] = (inbox[d] \ {m}) \cup sent
        /\ ended' = ended /\ failed' = failed /\ keys' = keys
    BY <1>a, <2>1, HandleLocal DEF NoError
  <2>4. /\ m.index \in Objects /\ Answered(d, m.index) /\ ~ Begins(d)
        /\ m.ok /\ m.index # 1 => m.index \in cluster
    BY <1>4, <1>a, <2>2 DEF ApplyTerminal
  <2>5. PICK mark \in {"check", "cross"} :
           /\ marks' = [marks EXCEPT ![d][m.index] = mark]
           /\ mark = "check" => m.ok
    BY <2>2
  <2>6. /\ marks' \in [Clients -> [Objects -> States]]
        /\ \A c \in Clients \ {d} : marks'[c] = marks[c]
        /\ \A o \in Objects : marks'[d][o] = IF o = m.index THEN mark ELSE marks[d][o]
    BY <1>a, <2>4, <2>5
  <2>7. /\ \A i : Answered(d, i) => Answered(d, i)'
        /\ Answered(d, m.index + 1)'
    <3>1. ASSUME NEW o \in Objects, marks[d][o] # "inProgress" \/ o = m.index
          PROVE  marks'[d][o] # "inProgress"
      BY <2>5, <2>6, <3>1
    <3>2. \A j \in Objects : j < m.index + 1 => j < m.index \/ j = m.index
      <4>1. m.index \in Nat
        BY <1>i, <2>4
      <4>2. \A i, j \in Nat : j < i + 1 => j < i \/ j = i
        OBVIOUS
      <4> QED
        BY <1>i, <4>1, <4>2
    <3> QED
      BY <2>4, <3>1, <3>2 DEF Answered
  <2>8. /\ ~ Begins(d)'
        /\ m.index # N => Leaves(d)' = Leaves(d)
    BY <2>1, <2>2, <2>3, <2>4 DEF Begins, Leaves, QuitMsg, Msg, Cmd, ApplyCall
  <2>9. \A x \in calls'[d] : x.cmd = "apply" =>
           /\ x.index \in Objects /\ x.object \in Objects
           /\ x.index # 1 => x.object = x.index
           /\ Answered(d, x.index)'
    <3>1. ASSUME NEW x \in calls[d], x.cmd = "apply"
          PROVE  /\ x.index \in Objects /\ x.object \in Objects
                 /\ x.index # 1 => x.object = x.index
                 /\ Answered(d, x.index)'
      BY <1>4, <1>a, <2>7, <3>1 DEF ApplyTerminal
    <3>2. ASSUME m.index # N, NEW x, x = ApplyCall(m.chain, m.index + 1, m.index + 1)
          PROVE  /\ x.index \in Objects /\ x.object \in Objects
                 /\ x.index # 1 => x.object = x.index
                 /\ Answered(d, x.index)'
      BY <1>n, <2>4, <2>7, <3>2 DEF ApplyCall, Objects
    <3> QED
      BY <2>1, <2>3, <3>1, <3>2
  <2>10. \A n \in inbox'[d] : n.msg = "applied" => n \in inbox[d]
    BY <2>1, <2>3 DEF QuitMsg, Msg
  <2>11. Leaves(d)' /\ ~ failed[d] /\ keys = 0 => Answered(d, N + 1)'
    BY <1>4, <1>a, <2>7, <2>8 DEF ApplyTerminal
  <2>12. \A o \in Objects : o # 1 /\ marks'[d][o] = "check" => o \in cluster
    BY <1>4, <1>a, <2>4, <2>5, <2>6 DEF ApplyTerminal
  <2>13. ApplyTerminal(d)'
    <3>1. \A n \in inbox'[d] : n.msg = "applied" =>
             /\ n.index \in Objects
             /\ n.ok /\ n.index # 1 => n.index \in cluster'
             /\ Answered(d, n.index)'
      BY <1>4, <1>a, <2>2, <2>7, <2>10 DEF ApplyTerminal
    <3> QED
      BY <2>2, <2>3, <2>8, <2>9, <2>11, <2>12, <3>1 DEF ApplyTerminal, Begins
  <2> QED
    BY <2>2, <2>6, <2>13
<1>5. ASSUME program[d] = "apply", ApplyError(d) \/ ApplyKey(d)
      PROVE  Goal
  <2>1. /\ calls'[d] = calls[d]
        /\ \/ inbox'[d] = (inbox[d] \ {Error}) \cup {QuitMsg}
           \/ inbox'[d] = inbox[d] \cup {QuitMsg}
        /\ failed'[d] \/ keys' # 0
    <3>1. CASE ApplyError(d)
      <4>1. Handle(d, Error, {}, {QuitMsg}) /\ ShowError(d)
        BY <3>1 DEF ApplyError
      <4>2. /\ calls'[d] = calls[d] \cup {}
            /\ inbox'[d] = (inbox[d] \ {Error}) \cup {QuitMsg}
        BY <1>a, <4>1 DEF Handle, Framed
      <4>3. failed'[d]
        BY <1>a, <4>1, HandleLocal
      <4> QED
        BY <4>2, <4>3
    <3>2. CASE ApplyKey(d)
      <4>1. /\ calls'[d] = calls[d] \cup {}
            /\ inbox'[d] = inbox[d] \cup {QuitMsg}
            /\ keys' # 0
        BY <1>a, <3>2, PressLocal DEF ApplyKey
      <4> QED
        BY <4>1
    <3> QED
      BY <1>5, <3>1, <3>2
  <2>2. marks' = marks /\ cluster' = cluster
    BY <1>5 DEF ApplyError, ApplyKey
  <2>3. /\ Begins(d)' = Begins(d)
        /\ \A i : Answered(d, i)' = Answered(d, i)
        /\ \A m \in inbox'[d] : m.msg = "applied" => m \in inbox[d]
    BY <2>1, <2>2 DEF Begins, Answered, QuitMsg, Error, Msg
  <2>4. ~ (Cmd("find") \in calls'[d] /\ Msg("found") \in inbox'[d])
    BY <1>5, <1>a, <2>1 DEF ApplyTerminal, QuitMsg, Error, Msg
  <2>5. ApplyTerminal(d)'
    BY <1>5, <1>a, <2>1, <2>2, <2>3, <2>4 DEF ApplyTerminal
  <2> QED
    BY <1>a, <2>2, <2>5
<1>6. ASSUME program[d] = "delete", Applies(d)
      PROVE  Goal
  <2>1. marks' = marks
    BY <1>6 DEF Applies, ApplyAnswers, ApplyUpdates, ApplyObject, GetTarget, DeleteObject,
         ManifestsFound, ApplyError, Applied, Deleted, InitDelete, DeleteTarget,
         DeleteIgnoresError, ApplyKey, Runs
  <2>2. \A o \in cluster : o # 1 => o \in cluster'
    BY <1>6 DEF Applies, ApplyAnswers, ApplyUpdates, ApplyObject, GetTarget, DeleteObject,
         ManifestsFound, ApplyError, Applied, Deleted, InitDelete, DeleteTarget,
         DeleteIgnoresError, ApplyKey, Runs
  <2> QED
    BY <1>6, <1>a, <2>1, <2>2
<1>7. ASSUME program[d] = "apply", Applies(d)
      PROVE  Goal
  <2>1. \/ ManifestsFound(d) \/ ApplyError(d) \/ ApplyKey(d)
        \/ \E x \in calls[d] : ApplyObject(d, x)
        \/ \E m \in inbox[d] : Applied(d, m)
    BY <1>7 DEF Applies, ApplyAnswers, ApplyUpdates, GetTarget, DeleteObject,
         Deleted, InitDelete, DeleteTarget, DeleteIgnoresError, Runs
  <2> QED
    BY <1>2, <1>3, <1>4, <1>5, <1>7, <2>1
<1> QED
  BY <1>1, <1>6, <1>7 DEF Applies

LEMMA ApplyInvStep ==
  ASSUME ApplyInv, [Next]_vars
  PROVE  ApplyInv'
<1>a. Framed /\ \A c \in Clients : program[c] = "apply" => ApplyTerminal(c)
  BY DEF ApplyInv
<1>1. CASE Outside /\ Framed'
  <2>1. ASSUME NEW c \in Clients, program[c] = "apply"
        PROVE  ApplyTerminal(c)'
    BY <1>1, <1>a, <2>1, ApplyKept DEF Outside, Same, Framed
  <2> QED
    BY <1>1, <2>1 DEF ApplyInv, Outside
<1>2. ASSUME NEW d \in Clients, Local(d), Shared(d) \/ Applies(d)
      PROVE  ApplyInv'
  <2>1. ASSUME NEW c \in Clients \ {d}, program[c] = "apply"
        PROVE  ApplyTerminal(c)'
    BY <1>2, <1>a, <2>1, ApplyKept, ApplyOwnStep DEF Local, Framed
  <2> QED
    BY <1>2, <2>1, ApplyOwnStep DEF ApplyInv, Local
<1>3. ASSUME NEW d \in Clients, Local(d), Gets(d) \/ RunsOn(d) \/ ServesOn(d) \/ NotesOn(d)
      PROVE  ApplyInv'
  <2>1. marks' = marks /\ cluster' = cluster /\ program[d] # "apply"
    BY <1>3 DEF Gets, RunsOn, ServesOn, NotesOn
  <2>2. ASSUME NEW c \in Clients \ {d}, program[c] = "apply"
        PROVE  ApplyTerminal(c)'
    BY <1>3, <1>a, <2>1, <2>2, ApplyKept DEF Local, Framed
  <2> QED
    BY <1>3, <2>1, <2>2 DEF ApplyInv, Local
<1> QED
  BY <1>a, <1>1, <1>2, <1>3, StepCases

LEMMA ApplyInvInit ==
  ASSUME Init
  PROVE  ApplyInv
<1>1. Framed
  BY InitFramed
<1>2. ASSUME NEW c \in Clients, program[c] = "apply"
      PROVE  ApplyTerminal(c)
  <2>1. /\ calls[c] = {Cmd("find")} /\ inbox[c] = {} /\ ended[c] = "no"
    BY <1>2 DEF Init, RuntimeInit
  <2>2. \A o \in Objects : marks[c][o] = "none"
    BY DEF Init, ApplyInit
  <2> QED
    BY <2>1, <2>2 DEF ApplyTerminal, Leaves, Cmd
<1> QED
  BY <1>1, <1>2 DEF Init, ApplyInit, ApplyInv

(* Whatever the number of manifests, and however the chains of commands    *)
(* overtake each other (ApplyModel, apply.go): when `sub apply` quits      *)
(* by itself, every object has its answer, and the check mark of each but  *)
(* the first is true.                                                      *)
THEOREM ApplyQuitsAfterLast == Spec => []QuitsAfterLast
<1>1. Init => ApplyInv
  BY ApplyInvInit
<1>2. ApplyInv /\ [Next]_vars => ApplyInv'
  BY ApplyInvStep
<1>3. ApplyInv => QuitsAfterLast
  BY ApplyAssumption DEF ApplyInv, ApplyTerminal, QuitsAfterLast, Leaves, Answered, Objects
<1> QED
  BY <1>1, <1>2, <1>3, PTL DEF Spec

(***************************************************************************)
(* The Pods and the model of `sub serve` keep their types.                 *)
(***************************************************************************)
PodStates == {"new", "starting", "ready", "gone"}
Entries == [pod : {"none", "nil", "starting", "ready", "gone"}, logging : BOOLEAN]
PodEvents == [pod : Pods, to : {"starting", "ready", "gone"}, ready : BOOLEAN]
Servings == [resource : BOOLEAN, quitting : BOOLEAN, url : BOOLEAN,
             goodbye : {"none", "settled", "hasty"},
             readyPod : {p \in Pods : RoleOf[p] = "run"} \cup {"none"}]

PodsTyped == /\ pods \in [Pods -> PodStates]
             /\ podWatch \in [Clients -> BOOLEAN]
             /\ podEvents \in [Clients -> Seq(PodEvents)]
             /\ entries \in [Clients -> [Pods -> Entries]]
             /\ lines \in 0 .. MaxLines

ServeTyped == /\ PodsTyped
              /\ server \in BOOLEAN
              /\ serving \in [Clients -> Servings]

LEMMA PodsFinite == IsFiniteSet(Pods)
<1>1. PodList \in Surjection(1 .. Len(PodList), Pods) /\ Len(PodList) \in Nat
  BY PodAssumption DEF Pods, Surjection
<1> QED
  BY <1>1, FS_Surjection, FS_Interval

LEMMA PodChangesTyped ==
  ASSUME PodsTyped, NEW p \in Pods, PodChanges(p)
  PROVE  PodsTyped'
<1>1. PICK to \in {"starting", "ready", "gone"} : pods' = [pods EXCEPT ![p] = to]
  BY DEF PodChanges
<1>2. PICK isReady \in BOOLEAN :
         podEvents' = [c \in Clients |->
                         IF podWatch[c] THEN Append(podEvents[c], PodEvent(p, pods'[p], isReady))
                         ELSE podEvents[c]]
  BY DEF PodChanges
<1>3. pods' \in [Pods -> PodStates] /\ PodEvent(p, pods'[p], isReady) \in PodEvents
  BY <1>1, <1>2 DEF PodsTyped, PodStates, PodEvents, PodEvent
<1>5. podEvents' \in [Clients -> Seq(PodEvents)]
  <2>1. ASSUME NEW c \in Clients
        PROVE  Append(podEvents[c], PodEvent(p, pods'[p], isReady)) \in Seq(PodEvents)
    BY <1>3, AppendProperties DEF PodsTyped
  <2> QED
    BY <1>2, <2>1 DEF PodsTyped
<1>4. UNCHANGED <<podWatch, entries, lines>>
  BY DEF PodChanges
<1> QED
  BY <1>3, <1>4, <1>5 DEF PodsTyped

LEMMA OpenPodWatchTyped ==
  ASSUME PodsTyped, NEW c \in Clients, OpenPodWatch(c)
  PROVE  PodsTyped'
<1> DEFINE there == {p \in Pods : pods[p] \in {"starting", "ready"}}
<1>1. PICK order \in [1 .. Cardinality(there) -> there] :
         podEvents' = [podEvents EXCEPT ![c] =
                         [i \in DOMAIN order |-> PodEvent(order[i], pods[order[i]], pods[order[i]] = "ready")]]
  BY DEF OpenPodWatch
<1>2. Cardinality(there) \in Nat
  BY PodsFinite, FS_Subset, FS_CardinalityType
<1>3. \A q \in there : PodEvent(q, pods[q], pods[q] = "ready") \in PodEvents
  BY DEF PodEvents, PodEvent
<1>4. [i \in DOMAIN order |-> PodEvent(order[i], pods[order[i]], pods[order[i]] = "ready")] \in Seq(PodEvents)
  <2> HIDE DEF there
  <2> QED
    BY <1>1, <1>2, <1>3
<1>5. podEvents' \in [Clients -> Seq(PodEvents)]
  BY <1>1, <1>4 DEF PodsTyped
<1> QED
  BY <1>5 DEF PodsTyped, OpenPodWatch

LEMMA PodWatchMsgTyped ==
  ASSUME PodsTyped, NEW c \in Clients, podEvents[c] # <<>>, PodWatchMsg(c, Head(podEvents[c]))
  PROVE  PodsTyped' /\ Head(podEvents[c]) \in PodEvents
<1>1. PICK event : event = Head(podEvents[c])
  OBVIOUS
<1>2. event \in PodEvents /\ Tail(podEvents[c]) \in Seq(PodEvents)
  BY <1>1, HeadTailProperties DEF PodsTyped
<1>3. PICK old : old = WithRoleReset(entries[c], event.pod)
  OBVIOUS
<1>4. old \in [Pods -> Entries]
  BY <1>2, <1>3 DEF WithRoleReset, NoEntry, Entries, PodsTyped
<1>5. entries' = [entries EXCEPT ![c] =
                    [old EXCEPT ![event.pod] = [pod |-> event.to, logging |-> @.logging \/ event.ready]]]
  BY <1>1, <1>3 DEF PodWatchMsg
<1>6. [pod |-> event.to, logging |-> old[event.pod].logging \/ event.ready] \in Entries
  BY <1>2 DEF Entries, PodEvents
<1>7. entries' \in [Clients -> [Pods -> Entries]]
  BY <1>2, <1>4, <1>5, <1>6 DEF PodsTyped, PodEvents
<1>8. podEvents' = [podEvents EXCEPT ![c] = Tail(podEvents[c])]
  BY DEF PodWatchMsg
<1>9. podEvents' \in [Clients -> Seq(PodEvents)]
  BY <1>2, <1>8 DEF PodsTyped
<1> QED
  BY <1>1, <1>2, <1>7, <1>9 DEF PodsTyped, PodWatchMsg

LEMMA LogsTyped ==
  ASSUME PodsTyped, NEW c \in Clients, NEW p \in Pods, LogLine(c, p) \/ PodLogsMsg(c, p)
  PROVE  PodsTyped'
<1>1. CASE LogLine(c, p)
  BY <1>1, PodAssumption DEF PodsTyped, LogLine
<1>2. CASE PodLogsMsg(c, p)
  <2>1. PICK e : e = [entries[c][p] EXCEPT !.pod = IF @ = "none" THEN "nil" ELSE @]
    OBVIOUS
  <2>2. e \in Entries
    <3>1. PICK old : old = entries[c][p] /\ old \in Entries
      BY DEF PodsTyped
    <3>2. PICK to : to = IF old.pod = "none" THEN "nil" ELSE old.pod
      OBVIOUS
    <3>3. to \in {"nil", "starting", "ready", "gone"}
      BY <3>1, <3>2 DEF Entries
    <3>4. e = [old EXCEPT !.pod = to]
      BY <2>1, <3>1, <3>2
    <3> QED
      BY <3>1, <3>3, <3>4 DEF Entries
  <2>3. entries' = [entries EXCEPT ![c] = [entries[c] EXCEPT ![p] = e]]
    BY <1>2, <2>1 DEF PodLogsMsg
  <2>4. entries' \in [Clients -> [Pods -> Entries]]
    BY <2>2, <2>3 DEF PodsTyped
  <2> QED
    BY <1>2, <2>4 DEF PodsTyped, PodLogsMsg
<1> QED
  BY <1>1, <1>2

LEMMA SetTyped ==
  ASSUME serving \in [Clients -> Servings], NEW c \in Clients, NEW field, NEW value,
         Set(c, field, value),
         \/ field \in {"resource", "quitting", "url"} /\ value \in BOOLEAN
         \/ field = "goodbye" /\ value \in {"settled", "hasty"}
  PROVE  /\ serving' \in [Clients -> Servings]
         /\ \A d \in Clients \ {c} : serving'[d] = serving[d]
         /\ field # "resource" => serving'[c].resource = serving[c].resource
         /\ field # "goodbye" => serving'[c].goodbye = serving[c].goodbye
         /\ field = "goodbye" => serving'[c].goodbye = value
         /\ serving'[c].readyPod = serving[c].readyPod
<1>1. PICK s : s = [serving[c] EXCEPT ![field] = value]
  OBVIOUS
<1>2. serving[c] \in Servings
  OBVIOUS
<1>3. s \in Servings
  BY <1>1, <1>2 DEF Servings
<1>4. serving' = [serving EXCEPT ![c] = s]
  BY <1>1 DEF Set
<1>5. /\ field # "resource" => s.resource = serving[c].resource
      /\ field # "goodbye" => s.goodbye = serving[c].goodbye
      /\ field = "goodbye" => s.goodbye = value
      /\ s.readyPod = serving[c].readyPod
  BY <1>1, <1>2 DEF Servings
<1> QED
  BY <1>3, <1>4, <1>5

LEMMA ServeOwnTyped ==
  ASSUME ServeTyped, NEW d \in Clients, ServesOn(d)
  PROVE  ServeTyped' /\ \A c \in Clients \ {d} : serving'[c] = serving[c]
<1> DEFINE Goal == ServeTyped' /\ \A c \in Clients \ {d} : serving'[c] = serving[c]
<1>a. PodsTyped /\ server \in BOOLEAN /\ serving \in [Clients -> Servings]
  BY DEF ServeTyped
<1>b. ASSUME UNCHANGED podVars
      PROVE  PodsTyped'
  BY <1>a, <1>b DEF PodsTyped
<1>1. CASE ServeSelected(d) \/ ForwardReady(d) \/ ServeError(d)
  <2>1. UNCHANGED serveCloud
    BY <1>1 DEF ServeSelected, ForwardReady, ServeError
  <2>2. PICK field \in {"resource", "quitting", "url"} : Set(d, field, TRUE)
    BY <1>1 DEF ServeSelected, ForwardReady, ServeError
  <2> QED
    BY <1>a, <1>b, <2>1, <2>2, SetTyped DEF ServeTyped
<1>2. ASSUME NEW ok \in BOOLEAN, NEW when \in {"settled", "hasty"},
             ServerApplied(d, ok) \/ ServerDeleted(d, ok, when)
      PROVE  Goal
  <2>1. UNCHANGED serveCloud
    BY <1>2 DEF ServerApplied, ServerDeleted
  <2>2. Set(d, "goodbye", when) \/ UNCHANGED serving
    BY <1>2 DEF ServerApplied, ServerDeleted
  <2> QED
    BY <1>a, <1>b, <2>1, <2>2, SetTyped DEF ServeTyped
<1>3. ASSUME NEW key \in ServeKeys, ServeKey(d, key)
      PROVE  Goal
  <2>1. UNCHANGED serveCloud
    BY <1>3 DEF ServeKey
  <2>2. \/ Set(d, "quitting", TRUE) \/ Set(d, "quitting", FALSE) \/ UNCHANGED serving
    BY <1>3 DEF ServeKey, ServeKeys
  <2> QED
    BY <1>a, <1>b, <2>1, <2>2, SetTyped DEF ServeTyped
<1>4. CASE ServePodMsg(d)
  <2>1. PICK event : event = Head(podEvents[d])
    OBVIOUS
  <2>2. podEvents[d] # <<>> /\ PodWatchMsg(d, event) /\ server' = server
    BY <1>4, <2>1 DEF ServePodMsg
  <2>3. PodsTyped' /\ event \in PodEvents
    BY <1>a, <2>1, <2>2, PodWatchMsgTyped
  <2>4. \/ Forwards(d, event) /\ serving' = [serving EXCEPT ![d].readyPod = event.pod]
        \/ serving' = serving
    BY <1>4, <2>1 DEF ServePodMsg
  <2>5. ASSUME Forwards(d, event), serving' = [serving EXCEPT ![d].readyPod = event.pod]
        PROVE  serving' \in [Clients -> Servings] /\ \A c \in Clients \ {d} : serving'[c] = serving[c]
    <3>1. event.pod \in {p \in Pods : RoleOf[p] = "run"}
      BY <2>3, <2>5 DEF Forwards, PodEvents
    <3>2. PICK s : s = [serving[d] EXCEPT !.readyPod = event.pod]
      OBVIOUS
    <3>3. s \in Servings
      BY <1>a, <3>1, <3>2 DEF Servings
    <3>4. serving' = [serving EXCEPT ![d] = s]
      BY <2>5, <3>2
    <3> QED
      BY <1>a, <3>3, <3>4
  <2> QED
    BY <1>a, <2>2, <2>3, <2>4, <2>5 DEF ServeTyped
<1>5. ASSUME NEW p \in Pods, ServeLogsMsg(d, p)
      PROVE  Goal
  BY <1>5, <1>a, LogsTyped DEF ServeLogsMsg, ServeTyped
<1>6. CASE ApplyServer(d) \/ WaitServer(d)
  <2>1. server' \in BOOLEAN /\ serving' = serving /\ UNCHANGED podVars
    BY <1>6, <1>a DEF ApplyServer, WaitServer
  <2> QED
    BY <1>a, <1>b, <2>1 DEF ServeTyped
<1>7. CASE WatchPods(d)
  <2>1. server' = server /\ serving' = serving /\ (OpenPodWatch(d) \/ UNCHANGED podVars)
    BY <1>7 DEF WatchPods
  <2> QED
    BY <1>a, <1>b, <2>1, OpenPodWatchTyped DEF ServeTyped
<1>8. ASSUME NEW when, DeleteServer(d, when)
      PROVE  Goal
  <2>1. server' \in BOOLEAN /\ serving' = serving /\ UNCHANGED podVars
    BY <1>8, <1>a DEF DeleteServer
  <2> QED
    BY <1>a, <1>b, <2>1 DEF ServeTyped
<1>9. ASSUME NEW p \in Pods, NEW try, NEW up, ForwardUp(d, p, try) \/ ForwardBreaks(d, p, try, up)
      PROVE  Goal
  <2>1. UNCHANGED serveVars
    BY <1>9 DEF ForwardUp, ForwardBreaks, Forward
  <2> QED
    BY <1>a, <1>b, <2>1 DEF ServeTyped
<1>10. ASSUME NEW p \in Pods, LogsBreak(d, p) \/ LogLine(d, p), UNCHANGED <<server, serving>>
       PROVE  Goal
  <2>1. PodsTyped'
    BY <1>10, <1>a, <1>b, LogsTyped DEF LogsBreak
  <2> QED
    BY <1>10, <1>a, <2>1 DEF ServeTyped
<1> QED
  BY <1>1, <1>2, <1>3, <1>4, <1>5, <1>6, <1>7, <1>8, <1>9, <1>10
  DEF ServesOn, ServeAnswers, ServeUpdates

LEMMA ServeTypedStep ==
  ASSUME Framed, ServeTyped, [Next]_vars
  PROVE  ServeTyped'
<1>1. CASE Outside
  <2>1. server' = server /\ serving' = serving
    BY <1>1 DEF Outside
  <2>2. PodsTyped'
    <3>1. CASE UNCHANGED podVars
      BY <3>1 DEF ServeTyped, PodsTyped
    <3> QED
      BY <1>1, <3>1, PodChangesTyped DEF Outside, ServeTyped
  <2> QED
    BY <2>1, <2>2 DEF ServeTyped
<1>2. ASSUME NEW d \in Clients, Shared(d) \/ Applies(d) \/ Gets(d) \/ RunsOn(d) \/ NotesOn(d)
      PROVE  ServeTyped'
  <2>1. UNCHANGED serveVars
    BY <1>2 DEF Shared, Applies, Gets, RunsOn, NotesOn
  <2> QED
    BY <2>1 DEF ServeTyped, PodsTyped
<1> QED
  BY <1>1, <1>2, ServeOwnTyped, StepCases

LEMMA ServeInitTyped ==
  ASSUME Init
  PROVE  ServeTyped
<1>1. ServeInit /\ PodsInit
  BY DEF Init, ServeInit
<1>2. Fresh \in Servings
  BY DEF Fresh, Servings
<1>3. NoEntry \in Entries
  BY DEF NoEntry, Entries
<1>4. << >> \in Seq(PodEvents)
  OBVIOUS
<1>5. PodsTyped
  BY <1>1, <1>3, <1>4, PodAssumption DEF PodsInit, PodsTyped, PodStates
<1> QED
  BY <1>1, <1>2, <1>5 DEF ServeInit, ServeTyped

(***************************************************************************)
(* The manifest is found and selected once.                                *)
(***************************************************************************)
FoundOnce(c) ==
    /\ ~ (Cmd("find") \in calls[c] /\ Msg("found") \in inbox[c])
    /\ ~ (Cmd("find") \in calls[c] /\ Msg("selected") \in inbox[c])
    /\ ~ (Msg("found") \in inbox[c] /\ Msg("selected") \in inbox[c])
Unselected(c) == \/ Cmd("find") \in calls[c]
                 \/ Msg("found") \in inbox[c] \/ Msg("selected") \in inbox[c]

(* Nothing of it comes back.                                               *)
LEMMA FoundFewer ==
  ASSUME NEW c, FoundOnce(c),
         Cmd("find") \in calls'[c] => Cmd("find") \in calls[c],
         Msg("found") \in inbox'[c] => Msg("found") \in inbox[c],
         Msg("selected") \in inbox'[c] => Msg("selected") \in inbox[c]
  PROVE  FoundOnce(c)' /\ (Unselected(c)' => Unselected(c))
BY DEF FoundOnce, Unselected

LEMMA FoundStep ==
  ASSUME Framed, NEW c \in Clients, FoundOnce(c), FindManifests(c) \/ SelectManifest(c)
  PROVE  FoundOnce(c)' /\ Unselected(c)
<1>1. CASE FindManifests(c)
  <2>1. /\ Cmd("find") \in calls[c]
        /\ calls'[c] = calls[c] \ {Cmd("find")}
        /\ \/ inbox'[c] = inbox[c] \cup {Msg("found")}
           \/ inbox'[c] = inbox[c] \cup {Error}
    BY <1>1, AnswerLocal DEF FindManifests
  <2> QED
    BY <2>1 DEF FoundOnce, Unselected, Error, Msg
<1>2. CASE SelectManifest(c)
  <2>1. /\ Msg("found") \in inbox[c]
        /\ calls'[c] = calls[c] \cup {}
        /\ inbox'[c] = (inbox[c] \ {Msg("found")}) \cup {Msg("selected")}
    BY <1>2 DEF SelectManifest, Handle, Framed
  <2> QED
    BY <2>1 DEF FoundOnce, Unselected, Msg
<1> QED
  BY <1>1, <1>2

(***************************************************************************)
(* `sub serve`.  Once 'd' has been pressed with no apply under way, none   *)
(* comes, since the manifest is selected once.                             *)
(***************************************************************************)
AloneServing(c) == \A d \in Clients \ {c} : program[d] # "serve"
AskedToDelete(c) == \/ DeleteCall("settled") \in calls[c]
                    \/ \E ok \in BOOLEAN : DeletedServer(ok, "settled") \in inbox[c]
                    \/ serving[c].goodbye = "settled"
SaysDeleted(c) == \/ DeletedServer(TRUE, "settled") \in inbox[c]
                  \/ serving[c].goodbye = "settled"

ServeTerminal(c) ==
    /\ FoundOnce(c)
    /\ serving[c].resource => ~ Unselected(c)
    /\ AskedToDelete(c) => serving[c].resource /\ Cmd("applyServer") \notin calls[c]
    /\ SaysDeleted(c) /\ AloneServing(c) => ~ server

ServeInv == /\ Framed
            /\ ServeTyped
            /\ \A c \in Clients : /\ program[c] = "serve" => ServeTerminal(c)
                                  /\ program[c] # "serve" => serving[c].goodbye = "none"

LEMMA ServeFewer ==
  ASSUME NEW c \in Clients, ServeTerminal(c), program' = program,
         \A a \in {"find", "applyServer"} : Cmd(a) \in calls'[c] => Cmd(a) \in calls[c],
         DeleteCall("settled") \in calls'[c] => DeleteCall("settled") \in calls[c],
         \A m \in {"found", "selected"} : Msg(m) \in inbox'[c] => Msg(m) \in inbox[c],
         \A ok \in BOOLEAN : DeletedServer(ok, "settled") \in inbox'[c]
                               => DeletedServer(ok, "settled") \in inbox[c],
         serving'[c].resource = serving[c].resource,
         serving'[c].goodbye = serving[c].goodbye,
         AloneServing(c) /\ ~ server => ~ server'
  PROVE  ServeTerminal(c)'
<1>1. FoundOnce(c)' /\ (Unselected(c)' => Unselected(c))
  BY FoundFewer DEF ServeTerminal
<1>2. AskedToDelete(c)' => AskedToDelete(c)
  BY DEF AskedToDelete
<1>3. SaysDeleted(c)' => SaysDeleted(c)
  BY DEF SaysDeleted
<1>4. AloneServing(c)' <=> AloneServing(c)
  BY DEF AloneServing
<1> QED
  BY <1>1, <1>2, <1>3, <1>4 DEF ServeTerminal

LEMMA ServeOwnStep ==
  ASSUME ServeInv, NEW d \in Clients, ServesOn(d)
  PROVE  ServeTerminal(d)'
<1>a. /\ Framed /\ ServeTyped /\ ServeTerminal(d) /\ program[d] = "serve"
      /\ serving \in [Clients -> Servings] /\ server \in BOOLEAN
  BY DEF ServeInv, ServesOn, ServeTyped
<1>b. program' = program
  BY <1>a, ServeLocal DEF ServesOn, Local
<1> USE DEF Cmd, Msg, Error, QuitMsg, DeletedServer, DeleteCall
(* The other steps add nothing that ServeTerminal speaks of.               *)
<1>1. CASE ForwardReady(d) \/ ServeError(d)
  <2>1. PICK field \in {"url", "quitting"} : Set(d, field, TRUE)
    BY <1>1 DEF ForwardReady, ServeError
  <2>2. server' = server
    BY <1>1 DEF ForwardReady, ServeError
  <2>3. calls'[d] = calls[d] \cup {} /\ inbox'[d] \subseteq inbox[d]
    <3>1. PICK m : Handle(d, m, {}, {}) /\ (NoError \/ ShowError(d))
      BY <1>1 DEF ForwardReady, ServeError
    <3> QED
      BY <1>a, <3>1 DEF Handle, Framed
  <2> QED
    BY <1>a, <1>b, <2>1, <2>2, <2>3, SetTyped, ServeFewer
<1>2. ASSUME NEW ok \in BOOLEAN, ServerApplied(d, ok)
      PROVE  ServeTerminal(d)'
  <2>1. /\ serving' = serving /\ server' = server
        /\ calls'[d] \subseteq calls[d] \cup {Cmd("waitServer"), Cmd("watchPods")}
        /\ inbox'[d] \subseteq inbox[d]
    BY <1>2, <1>a DEF ServerApplied, Handle, Framed
  <2> QED
    BY <1>a, <1>b, <2>1, ServeFewer
<1>3. CASE WaitServer(d) \/ WatchPods(d)
  <2>1. /\ serving' = serving /\ server' = server
    BY <1>3 DEF WaitServer, WatchPods
  <2>2. /\ calls'[d] \subseteq calls[d]
        /\ inbox'[d] \subseteq inbox[d] \cup {Error}
    BY <1>3, <1>a, AnswerLocal DEF WaitServer, WatchPods
  <2> QED
    BY <1>a, <1>b, <2>1, <2>2, ServeFewer
<1>4. ASSUME NEW p, LogsBreak(d, p) \/ LogLine(d, p) \/ ServeLogsMsg(d, p),
             UNCHANGED <<server, serving>>
      PROVE  ServeTerminal(d)'
  <2>1. /\ calls'[d] \subseteq calls[d]
        /\ inbox'[d] \subseteq inbox[d] \cup {Error, LineMsg(p)}
    BY <1>4, <1>a DEF LogsBreak, LogLine, ServeLogsMsg, PodLogsMsg, Answer, Handle, Framed
  <2> QED
    BY <1>4, <1>a, <1>b, <2>1, ServeFewer DEF LineMsg
<1>5. ASSUME NEW p, NEW try, NEW up, ForwardUp(d, p, try) \/ ForwardBreaks(d, p, try, up)
      PROVE  ServeTerminal(d)'
  <2>1. /\ server' = server /\ serving' = serving
        /\ inbox'[d] \subseteq inbox[d] \cup {Msg("forwardReady")}
    BY <1>5, <1>a DEF ForwardUp, ForwardBreaks, Forward, Framed
  <2>2. \A x \in calls'[d] : x \in calls[d] \/ x.cmd = "forward"
    BY <1>5, <1>a DEF ForwardUp, ForwardBreaks, Forward, ForwardCall, Framed
  <2> QED
    BY <1>a, <1>b, <2>1, <2>2, ServeFewer
<1>6. CASE ServePodMsg(d)
  <2>1. PICK event : event = Head(podEvents[d])
    OBVIOUS
  <2>2. /\ server' = server /\ inbox' = inbox
        /\ \A x \in calls'[d] : x \in calls[d] \/ x.cmd \in {"logs", "forward"}
    BY <1>6, <1>a DEF ServePodMsg, LogsCall, ForwardCall, Framed
  <2>3. /\ serving'[d].resource = serving[d].resource
        /\ serving'[d].goodbye = serving[d].goodbye
    BY <1>6, <1>a DEF ServePodMsg, Servings
  <2> QED
    BY <1>a, <1>b, <2>2, <2>3, ServeFewer
<1>7. CASE ServeSelected(d)
  <2>1. /\ Msg("selected") \in inbox[d]
        /\ calls'[d] = calls[d] \cup {Cmd("applyServer")}
        /\ inbox'[d] = inbox[d] \ {Msg("selected")}
    BY <1>7, <1>a DEF ServeSelected, Handle, Framed
  <2>2. server' = server /\ Set(d, "resource", TRUE)
    BY <1>7 DEF ServeSelected
  <2>3. serving'[d].resource /\ serving'[d].goodbye = serving[d].goodbye
    BY <1>a, <2>2 DEF Set, Servings
  <2>4. Unselected(d) /\ ~ AskedToDelete(d)
    BY <1>a, <2>1 DEF Unselected, ServeTerminal
  <2>5. ~ AskedToDelete(d)' /\ ~ SaysDeleted(d)'
    BY <2>1, <2>3, <2>4 DEF AskedToDelete, SaysDeleted
  <2>6. FoundOnce(d)' /\ ~ Unselected(d)'
    BY <1>a, <2>1 DEF FoundOnce, Unselected, ServeTerminal
  <2> QED
    BY <2>5, <2>6 DEF ServeTerminal
<1>8. ASSUME NEW ok \in BOOLEAN, NEW when \in {"settled", "hasty"}, ServerDeleted(d, ok, when)
      PROVE  ServeTerminal(d)'
  <2>1. /\ DeletedServer(ok, when) \in inbox[d]
        /\ calls'[d] = calls[d] \cup {}
        /\ inbox'[d] = (inbox[d] \ {DeletedServer(ok, when)}) \cup {QuitMsg}
        /\ server' = server
    BY <1>8, <1>a DEF ServerDeleted, Handle, Framed
  <2>2. \/ serving' = serving
        \/ ok = TRUE /\ Set(d, "goodbye", when)
    BY <1>8 DEF ServerDeleted
  <2>3. CASE serving' = serving
    BY <1>a, <1>b, <2>1, <2>3, ServeFewer
  <2>4. CASE ok = TRUE /\ Set(d, "goodbye", when)
    <3>1. serving'[d].resource = serving[d].resource /\ serving'[d].goodbye = when
      BY <1>a, <2>4, SetTyped
    <3>2. AskedToDelete(d)' => AskedToDelete(d)
      BY <2>1, <3>1 DEF AskedToDelete
    <3>3. SaysDeleted(d)' => SaysDeleted(d)
      BY <2>1, <2>4, <3>1 DEF SaysDeleted
    <3>4. FoundOnce(d)' /\ (Unselected(d)' => Unselected(d))
      BY <1>a, <2>1, FoundFewer DEF ServeTerminal
    <3>5. AloneServing(d)' <=> AloneServing(d)
      BY <1>b DEF AloneServing
    <3> QED
      BY <1>a, <2>1, <3>1, <3>2, <3>3, <3>4, <3>5 DEF ServeTerminal
  <2> QED
    BY <2>2, <2>3, <2>4
<1>9. ASSUME NEW key \in ServeKeys, ServeKey(d, key)
      PROVE  ServeTerminal(d)'
  <2>1. server' = server
    BY <1>9 DEF ServeKey
  <2>2. CASE /\ Press(d, {}, {}) \/ Press(d, {}, {QuitMsg})
             /\ \/ \E b \in BOOLEAN : Set(d, "quitting", b)
                \/ UNCHANGED serving
    <3>1. calls'[d] = calls[d] \cup {} /\ inbox'[d] \subseteq inbox[d] \cup {QuitMsg}
      BY <1>a, <2>2 DEF Press, Framed
    <3>2. /\ serving'[d].resource = serving[d].resource
          /\ serving'[d].goodbye = serving[d].goodbye
      BY <1>a, <2>2, SetTyped
    <3> QED
      BY <1>a, <1>b, <2>1, <3>1, <3>2, ServeFewer
  <2>3. CASE serving' = serving /\ Press(d, {DeleteCall(ServeWhen(d))}, {})
    <3>1. calls'[d] = calls[d] \cup {DeleteCall(ServeWhen(d))} /\ inbox'[d] = inbox[d] \cup {}
      BY <1>a, <2>3 DEF Press, Framed
    <3>2. ServeWhen(d) = "settled" => serving[d].resource /\ Cmd("applyServer") \notin calls[d]
      BY DEF ServeWhen
    <3>3. AskedToDelete(d)' => serving[d].resource /\ Cmd("applyServer") \notin calls[d]
      BY <1>a, <2>3, <3>1, <3>2 DEF AskedToDelete, ServeTerminal
    <3>4. SaysDeleted(d)' => SaysDeleted(d)
      BY <2>3, <3>1 DEF SaysDeleted
    <3>5. FoundOnce(d)' /\ (Unselected(d)' => Unselected(d))
      BY <1>a, <3>1, FoundFewer DEF ServeTerminal
    <3>6. AloneServing(d)' <=> AloneServing(d)
      BY <1>b DEF AloneServing
    <3> QED
      BY <1>a, <2>1, <2>3, <3>1, <3>3, <3>4, <3>5, <3>6 DEF ServeTerminal
  <2> QED
    BY <1>9, <2>2, <2>3 DEF ServeKey, ServeKeys
<1>10. CASE ApplyServer(d)
  <2>1. PICK ok : /\ Cmd("applyServer") \in calls[d]
                  /\ calls'[d] = calls[d] \ {Cmd("applyServer")}
                  /\ inbox'[d] = inbox[d] \cup {AppliedServer(ok)}
                  /\ serving' = serving
    BY <1>10, <1>a DEF ApplyServer, Answer, Framed
  <2>2. ~ AskedToDelete(d)
    BY <1>a, <2>1 DEF ServeTerminal
  <2>3. ~ AskedToDelete(d)' /\ ~ SaysDeleted(d)'
    BY <2>1, <2>2 DEF AskedToDelete, SaysDeleted, AppliedServer
  <2>4. FoundOnce(d)' /\ (Unselected(d)' => Unselected(d))
    BY <1>a, <2>1, FoundFewer DEF ServeTerminal, AppliedServer
  <2> QED
    BY <1>a, <2>1, <2>3, <2>4 DEF ServeTerminal
<1>11. ASSUME NEW when \in {"early", "settled", "hasty"}, DeleteServer(d, when)
       PROVE  ServeTerminal(d)'
  <2>1. serving' = serving
    BY <1>11 DEF DeleteServer
  <2>2. CASE Crash(d) /\ server' = server
    BY <1>a, <1>b, <2>1, <2>2, ServeFewer DEF Crash
  <2>3. ASSUME NEW ok \in BOOLEAN, Answer(d, DeleteCall(when), {DeletedServer(ok, when)}),
               ok => ~ server', ~ server => ~ server'
        PROVE  ServeTerminal(d)'
    <3>1. /\ DeleteCall(when) \in calls[d]
          /\ calls'[d] = calls[d] \ {DeleteCall(when)}
          /\ inbox'[d] = inbox[d] \cup {DeletedServer(ok, when)}
      BY <1>a, <2>3 DEF Answer, Framed
    <3>2. AskedToDelete(d)' => AskedToDelete(d)
      BY <2>1, <3>1 DEF AskedToDelete
    <3>3. SaysDeleted(d)' => SaysDeleted(d) \/ ok
      BY <2>1, <3>1 DEF SaysDeleted
    <3>4. FoundOnce(d)' /\ (Unselected(d)' => Unselected(d))
      BY <1>a, <3>1, FoundFewer DEF ServeTerminal
    <3>5. AloneServing(d)' <=> AloneServing(d)
      BY <1>b DEF AloneServing
    <3>6. (AskedToDelete(d)' => serving'[d].resource /\ Cmd("applyServer") \notin calls'[d])
      BY <1>a, <2>1, <3>1, <3>2 DEF ServeTerminal
    <3>7. SaysDeleted(d)' /\ AloneServing(d)' => ~ server'
      BY <1>a, <2>3, <3>3, <3>5 DEF ServeTerminal
    <3>8. serving'[d].resource => ~ Unselected(d)'
      BY <1>a, <2>1, <3>4 DEF ServeTerminal
    <3> QED
      BY <3>4, <3>6, <3>7, <3>8 DEF ServeTerminal
  <2> QED
    BY <1>11, <1>a, <2>2, <2>3 DEF DeleteServer
<1> QED
  BY <1>a, <1>1, <1>2, <1>3, <1>4, <1>5, <1>6, <1>7, <1>8, <1>9, <1>10, <1>11
  DEF ServesOn, ServeAnswers, ServeUpdates, ServeLogsMsg

LEMMA ServeInvStep ==
  ASSUME ServeInv, [Next]_vars
  PROVE  ServeInv'
<1>a. /\ Framed /\ ServeTyped /\ ServeTyped'
      /\ \A c \in Clients : program[c] = "serve" => ServeTerminal(c)
      /\ \A c \in Clients : program[c] # "serve" => serving[c].goodbye = "none"
  BY ServeTypedStep DEF ServeInv
<1>b. ASSUME NEW c \in Clients, ServeTerminal(c), program' = program, Same(c),
             serving'[c] = serving[c], AloneServing(c) /\ ~ server => ~ server'
      PROVE  ServeTerminal(c)'
  BY <1>b, ServeFewer DEF Same
<1>1. CASE Outside /\ Framed'
  BY <1>1, <1>a, <1>b DEF Outside, Same, ServeInv
<1>2. ASSUME NEW d \in Clients, Local(d), ServesOn(d)
      PROVE  ServeInv'
  <2>1. program[d] = "serve" /\ \A c \in Clients \ {d} : ~ AloneServing(c)
    BY <1>2 DEF ServesOn, AloneServing
  <2>2. \A c \in Clients \ {d} : serving'[c] = serving[c]
    BY <1>2, <1>a, ServeOwnTyped
  <2>3. \A c \in Clients \ {d} : program[c] = "serve" => ServeTerminal(c)'
    BY <1>2, <1>a, <1>b, <2>1, <2>2 DEF Local
  <2>4. ServeTerminal(d)'
    BY <1>2, ServeOwnStep
  <2> QED
    BY <1>2, <1>a, <2>1, <2>2, <2>3, <2>4 DEF ServeInv, Local
<1>3. ASSUME NEW d \in Clients, Local(d),
             Shared(d) \/ Applies(d) \/ Gets(d) \/ RunsOn(d) \/ NotesOn(d)
      PROVE  ServeInv'
  <2>1. UNCHANGED serveVars
    BY <1>3 DEF Shared, Applies, Gets, RunsOn, NotesOn
  <2>2. \A c \in Clients \ {d} : program[c] = "serve" => ServeTerminal(c)'
    BY <1>3, <1>a, <1>b, <2>1 DEF Local
  <2>3. ASSUME program[d] = "serve"
        PROVE  ServeTerminal(d)'
    <3>1. Shared(d) /\ ServeTerminal(d) /\ program' = program
      BY <1>3, <1>a, <2>3 DEF Applies, Gets, RunsOn, NotesOn, Local
    <3>2. CASE Quit(d)
      BY <2>1, <3>1, <3>2, ServeFewer DEF Quit
    <3>3. CASE FindManifests(d) \/ SelectManifest(d)
      <4>1. FoundOnce(d)' /\ Unselected(d)
        BY <1>a, <3>1, <3>3, FoundStep DEF ServeTerminal
      <4>2. ~ serving[d].resource /\ ~ AskedToDelete(d)
        BY <3>1, <4>1 DEF ServeTerminal
      <4>3. \A ok \in BOOLEAN : /\ DeletedServer(ok, "settled") \in inbox'[d]
                                   => DeletedServer(ok, "settled") \in inbox[d]
        BY <1>a, <3>3, AnswerLocal, HandleLocal
        DEF FindManifests, SelectManifest, DeletedServer, Msg, Error
      <4>4. DeleteCall("settled") \in calls'[d] => DeleteCall("settled") \in calls[d]
        BY <1>a, <3>3, AnswerLocal, HandleLocal DEF FindManifests, SelectManifest
      <4>5. ~ AskedToDelete(d)' /\ ~ SaysDeleted(d)'
        BY <2>1, <4>2, <4>3, <4>4 DEF AskedToDelete, SaysDeleted
      <4> QED
        BY <2>1, <4>1, <4>2, <4>5 DEF ServeTerminal
    <3> QED
      BY <3>1, <3>2, <3>3 DEF Shared
  <2> QED
    BY <1>3, <1>a, <2>1, <2>2, <2>3 DEF ServeInv, Local
<1> QED
  BY <1>a, <1>1, <1>2, <1>3, StepCases

(* `sub serve` says that the Server is deleted (ServeModel.Update, serve.go)*)
(* only when it is, for good, if no apply was under way as 'd' was pressed *)
(* and no other terminal serves: whatever else is under way, whichever     *)
(* calls fail.                                                             *)
THEOREM ServerDeletedForGood == Spec => []DeletedForGood
<1>1. Init => ServeInv
  <2>1. SUFFICES ASSUME Init PROVE ServeInv
    OBVIOUS
  <2>2. Framed /\ ServeTyped
    BY <2>1, InitFramed, ServeInitTyped
  <2>3. \A c \in Clients : serving[c] = Fresh
    BY <2>1 DEF Init, ServeInit
  <2>4. ASSUME NEW c \in Clients, program[c] = "serve"
        PROVE  ServeTerminal(c)
    <3>1. calls[c] = {Cmd("find")} /\ inbox[c] = {}
      BY <2>1, <2>4 DEF Init, RuntimeInit
    <3> QED
      BY <2>3, <3>1 DEF ServeTerminal, FoundOnce, Unselected, AskedToDelete, SaysDeleted, Fresh,
           Cmd, DeleteCall
  <2> QED
    BY <2>2, <2>3, <2>4 DEF ServeInv, Fresh
<1>2. ServeInv /\ [Next]_vars => ServeInv'
  BY ServeInvStep
<1>3. ServeInv => DeletedForGood
  BY DEF ServeInv, ServeTerminal, DeletedForGood, SaysDeleted, AloneServing
<1> QED
  BY <1>1, <1>2, <1>3, PTL DEF Spec

(***************************************************************************)
(* A port-forward belongs to the Pod that has been chosen, and one command *)
(* at a time keeps it up.                                                  *)
(***************************************************************************)
ForwardTerminal(c) ==
    \A x \in calls[c] : x.cmd = "forward" =>
       /\ program[c] = "serve" /\ serving[c].readyPod # "none"
       /\ \A y \in calls[c] : y.cmd = "forward" => y = x

ForwardInv == Framed /\ ServeTyped /\ \A c \in Clients : ForwardTerminal(c)

LEMMA ForwardFewer ==
  ASSUME NEW c \in Clients, ForwardTerminal(c), program' = program, Unforwarded(c),
         program[c] = "serve" => serving'[c].readyPod = serving[c].readyPod
  PROVE  ForwardTerminal(c)'
BY DEF ForwardTerminal, Unforwarded

LEMMA ForwardOwnStep ==
  ASSUME ForwardInv, NEW d \in Clients, ServesOn(d)
  PROVE  ForwardTerminal(d)'
<1>a. /\ Framed /\ ServeTyped /\ ForwardTerminal(d) /\ program[d] = "serve"
      /\ serving \in [Clients -> Servings]
  BY DEF ForwardInv, ServesOn, ServeTyped
<1>b. program' = program
  BY <1>a, ServeLocal DEF ServesOn, Local
<1>f. ASSUME Unforwarded(d), serving'[d].readyPod = serving[d].readyPod
      PROVE  ForwardTerminal(d)'
  BY <1>a, <1>b, <1>f, ForwardFewer
<1>1. CASE ServeSelected(d) \/ ForwardReady(d) \/ ServeError(d)
  <2>1. PICK field \in {"resource", "url", "quitting"} : Set(d, field, TRUE)
    BY <1>1 DEF ServeSelected, ForwardReady, ServeError
  <2>2. PICK m, started : /\ Handle(d, m, started, {})
                          /\ started = {} \/ started = {Cmd("applyServer")}
    BY <1>1 DEF ServeSelected, ForwardReady, ServeError
  <2>3. Unforwarded(d)
    BY <1>a, <2>2 DEF Handle, Framed, Unforwarded, Cmd
  <2> QED
    BY <1>a, <1>f, <2>1, <2>3, SetTyped
<1>2. ASSUME NEW ok \in BOOLEAN, NEW when \in {"settled", "hasty"},
             ServerApplied(d, ok) \/ ServerDeleted(d, ok, when)
      PROVE  ForwardTerminal(d)'
  <2>1. Unforwarded(d)
    BY <1>2, <1>a DEF ServerApplied, ServerDeleted, Handle, Framed, Unforwarded, Cmd
  <2>2. Set(d, "goodbye", when) \/ UNCHANGED serving
    BY <1>2 DEF ServerApplied, ServerDeleted
  <2> QED
    BY <1>a, <1>f, <2>1, <2>2, SetTyped
<1>3. ASSUME NEW key \in ServeKeys, ServeKey(d, key)
      PROVE  ForwardTerminal(d)'
  <2>1. PICK started, sent : /\ Press(d, started, sent)
                             /\ started = {} \/ \E when : started = {DeleteCall(when)}
    BY <1>3 DEF ServeKey, ServeKeys
  <2>2. Unforwarded(d)
    BY <1>a, <2>1 DEF Press, Framed, Unforwarded, DeleteCall
  <2>3. \/ Set(d, "quitting", TRUE) \/ Set(d, "quitting", FALSE) \/ UNCHANGED serving
    BY <1>3 DEF ServeKey, ServeKeys
  <2> QED
    BY <1>a, <1>f, <2>2, <2>3, SetTyped
<1>4. CASE ServePodMsg(d)
  <2>1. PICK event : event = Head(podEvents[d])
    OBVIOUS
  <2>2. event \in PodEvents
    BY <1>4, <1>a, <2>1, HeadTailProperties DEF ServePodMsg, ServeTyped, PodsTyped
  <2>3. CASE Forwards(d, event)
    <3>1. \A x \in calls[d] : x.cmd # "forward"
      BY <1>a, <2>3 DEF Forwards, ForwardTerminal
    <3>2. \A x \in calls'[d] : x.cmd = "forward" => x = ForwardCall(event.pod, 1, FALSE)
      <4>1. PICK logs : /\ logs \subseteq {LogsCall(event.pod)}
                        /\ calls' = [calls EXCEPT ![d] = @ \cup logs \cup {ForwardCall(event.pod, 1, FALSE)}]
        BY <1>4, <2>1, <2>3 DEF ServePodMsg
      <4>2. calls'[d] = calls[d] \cup logs \cup {ForwardCall(event.pod, 1, FALSE)}
        BY <1>a, <4>1 DEF Framed
      <4>3. \A x \in logs : x.cmd # "forward"
        BY <4>1 DEF LogsCall
      <4> QED
        BY <3>1, <4>2, <4>3
    <3>3. serving'[d].readyPod = event.pod
      BY <1>4, <1>a, <2>1, <2>3 DEF ServePodMsg, Servings
    <3>4. event.pod # "none"
      BY <2>2, PodAssumption DEF PodEvents
    <3> QED
      BY <1>a, <1>b, <3>2, <3>3, <3>4 DEF ForwardTerminal
  <2>4. CASE ~ Forwards(d, event)
    <3>1. serving' = serving
      BY <1>4, <2>1, <2>4 DEF ServePodMsg
    <3>2. Unforwarded(d)
      BY <1>4, <1>a, <2>1, <2>4 DEF ServePodMsg, Framed, LogsCall, Unforwarded
    <3> QED
      BY <1>f, <3>1, <3>2
  <2> QED
    BY <2>3, <2>4
<1>5. ASSUME NEW p \in Pods, ServeLogsMsg(d, p)
      PROVE  ForwardTerminal(d)'
  BY <1>5, <1>a, <1>f DEF ServeLogsMsg, PodLogsMsg, Handle, Framed, Unforwarded
<1>6. CASE ApplyServer(d) \/ WaitServer(d) \/ WatchPods(d)
  <2>1. serving' = serving
    BY <1>6 DEF ApplyServer, WaitServer, WatchPods
  <2>2. Unforwarded(d)
    BY <1>6, <1>a, AnswerLocal DEF ApplyServer, WaitServer, WatchPods
  <2> QED
    BY <1>f, <2>1, <2>2
<1>7. ASSUME NEW when, DeleteServer(d, when)
      PROVE  ForwardTerminal(d)'
  <2>1. serving' = serving
    BY <1>7 DEF DeleteServer
  <2>2. Unforwarded(d)
    BY <1>7, <1>a, AnswerLocal, CrashLocal DEF DeleteServer
  <2> QED
    BY <1>f, <2>1, <2>2
<1>8. ASSUME NEW p \in Pods, LogsBreak(d, p) \/ LogLine(d, p), UNCHANGED <<server, serving>>
      PROVE  ForwardTerminal(d)'
  BY <1>8, <1>a, <1>f DEF LogsBreak, LogLine, Answer, Framed, Unforwarded
<1>9. ASSUME NEW p \in Pods, NEW try, NEW up, ForwardUp(d, p, try) \/ ForwardBreaks(d, p, try, up)
      PROVE  ForwardTerminal(d)'
  <2>a. \A q, t, u : ForwardCall(q, t, u).cmd = "forward"
    BY DEF ForwardCall
  <2>1. PICK call, next :
           /\ Forward(d, call, next) /\ call.cmd = "forward"
           /\ next = {} \/ \E new : next = {new}
    <3>1. CASE ForwardUp(d, p, try)
      <4>1. Forward(d, ForwardCall(p, try, FALSE), {ForwardCall(p, try, TRUE)})
        BY <3>1 DEF ForwardUp
      <4> QED
        BY <4>1, <2>a
    <3>2. CASE ForwardBreaks(d, p, try, up)
      <4>1. \/ Forward(d, ForwardCall(p, try, up), {})
            \/ Forward(d, ForwardCall(p, try, up), {ForwardCall(p, try + 1, FALSE)})
        BY <3>2 DEF ForwardBreaks
      <4>2. CASE Forward(d, ForwardCall(p, try, up), {})
        <5> WITNESS ForwardCall(p, try, up), {}
        <5> QED
          BY <4>2, <2>a
      <4>3. CASE Forward(d, ForwardCall(p, try, up), {ForwardCall(p, try + 1, FALSE)})
        <5> WITNESS ForwardCall(p, try, up), {ForwardCall(p, try + 1, FALSE)}
        <5> QED
          BY <4>3, <2>a
      <4> QED
        BY <4>1, <4>2, <4>3
    <3> QED
      BY <1>9, <3>1, <3>2
  <2>2. /\ serving' = serving /\ call \in calls[d]
        /\ calls'[d] = (calls[d] \ {call}) \cup next
    BY <1>a, <2>1 DEF Forward, Framed
  <2> QED
    BY <1>a, <1>b, <2>1, <2>2 DEF ForwardTerminal
<1> QED
  BY <1>1, <1>2, <1>3, <1>4, <1>5, <1>6, <1>7, <1>8, <1>9
  DEF ServesOn, ServeAnswers, ServeUpdates

LEMMA ForwardInvStep ==
  ASSUME ForwardInv, [Next]_vars
  PROVE  ForwardInv'
<1>a. Framed /\ ServeTyped /\ ServeTyped' /\ \A c \in Clients : ForwardTerminal(c)
  BY ServeTypedStep DEF ForwardInv
<1>b. ASSUME NEW c \in Clients, program' = program, Same(c), serving'[c] = serving[c]
      PROVE  ForwardTerminal(c)'
  BY <1>a, <1>b, ForwardFewer DEF Same, Unforwarded
<1>1. CASE Outside /\ Framed'
  BY <1>1, <1>a, <1>b DEF Outside, Same, ForwardInv
<1>2. ASSUME NEW d \in Clients, Local(d), ServesOn(d)
      PROVE  ForwardInv'
  <2>1. \A c \in Clients \ {d} : serving'[c] = serving[c]
    BY <1>2, <1>a, ServeOwnTyped
  <2>2. \A c \in Clients \ {d} : ForwardTerminal(c)'
    BY <1>2, <1>b, <2>1 DEF Local
  <2> QED
    BY <1>2, <1>a, <2>2, ForwardOwnStep DEF ForwardInv, Local
<1>3. ASSUME NEW d \in Clients, Local(d),
             Shared(d) \/ Applies(d) \/ Gets(d) \/ RunsOn(d) \/ NotesOn(d)
      PROVE  ForwardInv'
  <2>1. UNCHANGED serveVars
    BY <1>3 DEF Shared, Applies, Gets, RunsOn, NotesOn
  <2>2. \A c \in Clients \ {d} : ForwardTerminal(c)'
    BY <1>3, <1>b, <2>1 DEF Local
  <2>3. Unforwarded(d)
    <3>1. CASE Shared(d)
      BY <1>a, <3>1, FindLocal, QuitLocal DEF Shared
    <3>2. CASE Applies(d)
      BY <1>a, <3>2, ApplyLocal DEF Applies
    <3>3. CASE Gets(d)
      BY <1>a, <3>3, GetLocal DEF Gets
    <3>4. CASE RunsOn(d)
      BY <1>a, <3>4, RunLocal DEF RunsOn
    <3>5. CASE NotesOn(d)
      BY <1>a, <3>5, NotebookLocal DEF NotesOn
    <3> QED
      BY <1>3, <3>1, <3>2, <3>3, <3>4, <3>5
  <2>4. ForwardTerminal(d)'
    BY <1>3, <1>a, <2>1, <2>3, ForwardFewer DEF Local
  <2> QED
    BY <1>3, <1>a, <2>2, <2>4 DEF ForwardInv, Local
<1> QED
  BY <1>a, <1>1, <1>2, <1>3, StepCases

(* However many Pods become ready and however often a port-forward breaks, *)
(* `sub serve` has at most one that wants the local port (serve.go, and    *)
(* portForwardCmd of portforward.go).                                      *)
THEOREM ServeForwardsOnce == Spec => []OnePortForward
<1>1. Init => ForwardInv
  <2>1. SUFFICES ASSUME Init PROVE ForwardInv
    OBVIOUS
  <2>2. Framed /\ ServeTyped
    BY <2>1, InitFramed, ServeInitTyped
  <2>3. ASSUME NEW c \in Clients
        PROVE  ForwardTerminal(c)
    <3>1. \A x \in calls[c] : x = Cmd("find") \/ x = Cmd("watch")
      BY <2>1 DEF Init, RuntimeInit
    <3> QED
      BY <3>1 DEF ForwardTerminal, Cmd
  <2> QED
    BY <2>2, <2>3 DEF ForwardInv
<1>2. ForwardInv /\ [Next]_vars => ForwardInv'
  BY ForwardInvStep
<1>3. ForwardInv => OnePortForward
  <2>1. SUFFICES ASSUME ForwardInv, NEW c \in Clients
                 PROVE  Cardinality({call \in calls[c] : call.cmd = "forward"}) <= 1
    BY DEF OnePortForward
  <2>2. PICK forwards : forwards = {call \in calls[c] : call.cmd = "forward"}
    OBVIOUS
  <2>3. \A x, y \in forwards : x = y
    BY <2>1, <2>2 DEF ForwardInv, ForwardTerminal
  <2>4. forwards = {} \/ \E x : forwards = {x}
    <3>1. ASSUME NEW x \in forwards
          PROVE  forwards = {x}
      BY <2>3
    <3> QED
      BY <3>1
  <2>5. Cardinality(forwards) = 0 \/ Cardinality(forwards) = 1
    BY <2>4, FS_EmptySet, FS_Singleton
  <2>6. Cardinality(forwards) <= 1
    BY <2>5
  <2> QED
    BY <2>2, <2>6
<1> QED
  BY <1>1, <1>2, <1>3, PTL DEF Spec

(***************************************************************************)
(* `sub notebook`.  Once the directory is packed and the Notebook applied, *)
(* or that has failed, no apply comes again.                               *)
(***************************************************************************)
Notes == [selected : BOOLEAN, tarball : BOOLEAN, applied : BOOLEAN, syncing : BOOLEAN,
          quitting : BOOLEAN, goodbye : {"none", "suspended", "deleted"}, hasty : BOOLEAN]
AloneNoting(c) == \A d \in Clients \ {c} : program[d] # "notebook"
Settled(c) == /\ nb[c].selected
              /\ Cmd("prepare") \notin calls[c] /\ Cmd("applyNotebook") \notin calls[c]
              /\ Msg("tarball") \notin inbox[c]
SaidGoodbye(c) == nb[c].goodbye # "none" /\ nb[c].hasty = FALSE
Stopped(c) == AloneNoting(c) => notebook # "running"

NotebookTerminal(c) ==
    /\ FoundOnce(c)
    /\ nb[c].selected => ~ Unselected(c)
    /\ \A x \in calls[c] : x.cmd = "leave" =>
          /\ x.how \in {"suspended", "deleted"}
          /\ x.when = "settled" => Settled(c)
    /\ \A m \in inbox[c] : m.msg = "left" =>
          /\ m.when # "early"
          /\ m.when = "settled" => Settled(c)
          /\ m.when = "settled" /\ m.ok = TRUE => Stopped(c)
    /\ SaidGoodbye(c) => Settled(c) /\ Stopped(c)

NotebookInv == /\ Framed
               /\ nb \in [Clients -> Notes]
               /\ \A c \in Clients : /\ program[c] = "notebook" => NotebookTerminal(c)
                                     /\ program[c] # "notebook" => nb[c].goodbye = "none"

LEMMA NotebookFewer ==
  ASSUME NEW c \in Clients, NotebookTerminal(c), program' = program,
         Cmd("find") \in calls'[c] => Cmd("find") \in calls[c],
         \A m \in {"found", "selected"} : Msg(m) \in inbox'[c] => Msg(m) \in inbox[c],
         \A x \in calls'[c] : x.cmd = "leave" => x \in calls[c],
         \A m \in inbox'[c] : m.msg = "left" => m \in inbox[c],
         nb'[c].selected = nb[c].selected,
         nb'[c].goodbye = nb[c].goodbye /\ nb'[c].hasty = nb[c].hasty,
         Settled(c) => Settled(c)' /\ (Stopped(c) => Stopped(c)')
  PROVE  NotebookTerminal(c)'
<1>1. FoundOnce(c)' /\ (Unselected(c)' => Unselected(c))
  BY FoundFewer DEF NotebookTerminal
<1>2. SaidGoodbye(c)' => SaidGoodbye(c)
  BY DEF SaidGoodbye
<1> QED
  BY <1>1, <1>2 DEF NotebookTerminal

LEMMA SetNbTyped ==
  ASSUME nb \in [Clients -> Notes], NEW c \in Clients,
         NEW field \in {"selected", "tarball", "applied", "syncing", "quitting"}, NEW value \in BOOLEAN,
         SetNb(c, field, value)
  PROVE  /\ nb' \in [Clients -> Notes]
         /\ \A d \in Clients \ {c} : nb'[d] = nb[d]
         /\ field # "selected" => nb'[c].selected = nb[c].selected
         /\ nb'[c].goodbye = nb[c].goodbye /\ nb'[c].hasty = nb[c].hasty
<1>1. PICK s : s = [nb[c] EXCEPT ![field] = value]
  OBVIOUS
<1>2. nb[c] \in Notes
  OBVIOUS
<1>3. s \in Notes
  BY <1>1, <1>2 DEF Notes
<1>4. nb' = [nb EXCEPT ![c] = s]
  BY <1>1 DEF SetNb
<1>5. /\ field # "selected" => s.selected = nb[c].selected
      /\ s.goodbye = nb[c].goodbye /\ s.hasty = nb[c].hasty
  BY <1>1, <1>2 DEF Notes
<1> QED
  BY <1>3, <1>4, <1>5

LEMMA GoodbyeTyped ==
  ASSUME nb \in [Clients -> Notes], NEW c \in Clients, NEW how \in {"suspended", "deleted"}, NEW when,
         Goodbye(c, how, when)
  PROVE  /\ nb' \in [Clients -> Notes]
         /\ \A d \in Clients \ {c} : nb'[d] = nb[d]
         /\ nb'[c].selected = nb[c].selected
         /\ nb'[c].goodbye = how /\ nb'[c].hasty = (when = "hasty")
<1>1. PICK hasty \in BOOLEAN : hasty = (when = "hasty")
  OBVIOUS
<1>2. PICK s : s = [nb[c] EXCEPT !.goodbye = how, !.hasty = hasty]
  OBVIOUS
<1>3. nb[c] \in Notes
  OBVIOUS
<1>4. s \in Notes /\ s.selected = nb[c].selected /\ s.goodbye = how /\ s.hasty = hasty
  BY <1>2, <1>3 DEF Notes
<1>5. nb' = [nb EXCEPT ![c] = s]
  BY <1>1, <1>2 DEF Goodbye
<1> QED
  BY <1>1, <1>4, <1>5

(* A step of a notebook keeps the invariant of its terminal.               *)
LEMMA NotebookOwnStep ==
  ASSUME NotebookInv, NEW d \in Clients, NotesOn(d)
  PROVE  /\ NotebookTerminal(d)'
         /\ nb' \in [Clients -> Notes]
         /\ \A c \in Clients \ {d} : nb'[c] = nb[c]
<1> DEFINE Goal == /\ NotebookTerminal(d)'
                   /\ nb' \in [Clients -> Notes]
                   /\ \A c \in Clients \ {d} : nb'[c] = nb[c]
<1>a. /\ Framed /\ NotebookTerminal(d) /\ program[d] = "notebook"
      /\ nb \in [Clients -> Notes]
  BY DEF NotebookInv, NotesOn
<1>b. program' = program
  BY <1>a, NotebookLocal DEF NotesOn, Local
<1>s. ASSUME notebook' = notebook
      PROVE  Stopped(d)' <=> Stopped(d)
  BY <1>b, <1>s DEF Stopped, AloneNoting
<1> USE DEF Cmd, Msg, Error, QuitMsg
(* Update: the steps that take a message and start the next command.       *)
<1>1. CASE NotebookSelected(d)
  <2>1. /\ Msg("selected") \in inbox[d]
        /\ calls'[d] = calls[d] \cup {Cmd("prepare")}
        /\ inbox'[d] = inbox[d] \ {Msg("selected")}
    BY <1>1, <1>a DEF NotebookSelected, Handle, Framed
  <2>2. SetNb(d, "selected", TRUE) /\ notebook' = notebook
    BY <1>1 DEF NotebookSelected
  <2>3. /\ nb' \in [Clients -> Notes] /\ \A c \in Clients \ {d} : nb'[c] = nb[c]
        /\ nb'[d].goodbye = nb[d].goodbye /\ nb'[d].hasty = nb[d].hasty
    BY <1>a, <2>2, SetNbTyped
  <2>4. FoundOnce(d)' /\ ~ Unselected(d)' /\ Unselected(d)
    BY <1>a, <2>1 DEF FoundOnce, Unselected, NotebookTerminal
  <2>5. ~ Settled(d)
    BY <1>a, <2>4 DEF NotebookTerminal, Settled
  <2>6. ~ SaidGoodbye(d)'
    BY <1>a, <2>3, <2>5 DEF NotebookTerminal, SaidGoodbye
  <2>7. /\ \A x \in calls'[d] : x.cmd = "leave" =>
              x.how \in {"suspended", "deleted"} /\ x.when # "settled"
        /\ \A m \in inbox'[d] : m.msg = "left" => m.when # "early" /\ m.when # "settled"
    BY <1>a, <2>1, <2>5 DEF NotebookTerminal
  <2> QED
    BY <2>3, <2>4, <2>6, <2>7 DEF NotebookTerminal
<1>2. CASE NotebookTarball(d)
  <2>1. /\ Msg("tarball") \in inbox[d]
        /\ calls'[d] = calls[d] \cup {Cmd("applyNotebook")}
        /\ inbox'[d] = inbox[d] \ {Msg("tarball")}
    BY <1>2, <1>a DEF NotebookTarball, Handle, Framed
  <2>2. SetNb(d, "tarball", TRUE)
    BY <1>2 DEF NotebookTarball
  <2>3. ~ Settled(d)
    BY <2>1 DEF Settled
  <2>4. /\ nb' \in [Clients -> Notes] /\ \A c \in Clients \ {d} : nb'[c] = nb[c]
        /\ nb'[d].selected = nb[d].selected
        /\ nb'[d].goodbye = nb[d].goodbye /\ nb'[d].hasty = nb[d].hasty
    BY <1>a, <2>2, SetNbTyped
  <2>5. /\ \A x \in calls'[d] : x \in calls[d] \/ x.cmd = "applyNotebook"
        /\ Cmd("find") \in calls'[d] => Cmd("find") \in calls[d]
    BY <2>1
  <2> QED
    BY <1>a, <1>b, <2>1, <2>3, <2>4, <2>5, NotebookFewer
<1>q. ASSUME notebook' = notebook,
             \A x \in calls'[d] : \/ x \in calls[d]
                                  \/ x.cmd \in {"uploadNotebook", "waitNotebook", "sync", "cleanup"},
             \A m \in inbox'[d] : \/ m \in inbox[d]
                                  \/ m.msg \in {"error", "quit", "appliedNotebook", "uploadedNotebook",
                                                "readyNotebook"},
             \/ UNCHANGED nb
             \/ \E field \in {"applied", "syncing", "quitting"}, value \in BOOLEAN : SetNb(d, field, value)
      PROVE  Goal
  <2>1. /\ nb' \in [Clients -> Notes] /\ \A c \in Clients \ {d} : nb'[c] = nb[c]
        /\ nb'[d].selected = nb[d].selected
        /\ nb'[d].goodbye = nb[d].goodbye /\ nb'[d].hasty = nb[d].hasty
    BY <1>a, <1>q, SetNbTyped
  <2>2. Settled(d) => Settled(d)'
    BY <1>q, <2>1 DEF Settled
  <2> QED
    BY <1>a, <1>b, <1>q, <1>s, <2>1, <2>2, NotebookFewer
<1>3. CASE NotebookApplied(d) \/ NotebookUploaded(d) \/ NotebookReady(d) \/ NotebookError(d)
  <2>1. PICK m, started :
           /\ Handle(d, m, started, {})
           /\ started = {} \/ \E a \in {"uploadNotebook", "waitNotebook", "sync"} : started = {Cmd(a)}
    BY <1>3 DEF NotebookApplied, NotebookUploaded, NotebookReady, NotebookError
  <2>2. calls'[d] = calls[d] \cup started /\ inbox'[d] \subseteq inbox[d]
    BY <1>a, <2>1 DEF Handle, Framed
  <2>3. /\ notebook' = notebook
        /\ \/ UNCHANGED nb
           \/ \E field \in {"applied", "syncing", "quitting"} : SetNb(d, field, TRUE)
    BY <1>3 DEF NotebookApplied, NotebookUploaded, NotebookReady, NotebookError
  <2>4. \A x \in calls'[d] : x \in calls[d] \/ x.cmd \in {"uploadNotebook", "waitNotebook", "sync"}
    BY <2>1, <2>2
  <2> QED
    BY <1>q, <2>2, <2>3, <2>4
<1>4. CASE PrepareNotebook(d)
  <2>1. /\ Cmd("prepare") \in calls[d]
        /\ calls'[d] \subseteq calls[d]
        /\ inbox'[d] \subseteq inbox[d] \cup {Msg("tarball"), Error}
    BY <1>4, <1>a DEF PrepareNotebook, Answer, Framed
  <2>2. nb' = nb
    BY <1>4 DEF PrepareNotebook
  <2>3. ~ Settled(d)
    BY <2>1 DEF Settled
  <2> QED
    BY <1>a, <1>b, <2>1, <2>2, <2>3, NotebookFewer
<1>5. CASE ApplyNotebook(d)
  <2>1. /\ Cmd("applyNotebook") \in calls[d]
        /\ calls'[d] \subseteq calls[d]
        /\ inbox'[d] \subseteq inbox[d] \cup {Msg("appliedNotebook"), Error}
    BY <1>5, <1>a DEF ApplyNotebook, Answer, Framed
  <2>2. nb' = nb
    BY <1>5 DEF ApplyNotebook
  <2>3. ~ Settled(d)
    BY <2>1 DEF Settled
  <2> QED
    BY <1>a, <1>b, <2>1, <2>2, <2>3, NotebookFewer
<1>6. CASE UploadNotebook(d) \/ WaitNotebook(d) \/ SyncFails(d)
  <2>1. /\ calls'[d] \subseteq calls[d]
        /\ inbox'[d] \subseteq inbox[d] \cup {Msg("uploadedNotebook"), Msg("readyNotebook"), Error}
    BY <1>6, <1>a DEF UploadNotebook, WaitNotebook, SyncFails, Answer, Framed
  <2>2. \A m \in inbox'[d] : m \in inbox[d] \/ m.msg \in {"error", "uploadedNotebook", "readyNotebook"}
    BY <2>1
  <2>3. notebook' = notebook /\ nb' = nb
    BY <1>6 DEF UploadNotebook, WaitNotebook, SyncFails
  <2> QED
    BY <1>q, <2>1, <2>2, <2>3
<1>7. ASSUME NEW tarball \in BOOLEAN, Cleanup(d, tarball)
      PROVE  Goal
  <2>1. Crash(d) \/ Answer(d, CleanupCall(tarball), {QuitMsg})
    BY <1>7 DEF Cleanup
  <2>2. calls'[d] \subseteq calls[d] /\ inbox'[d] \subseteq inbox[d] \cup {QuitMsg}
    BY <1>a, <2>1 DEF Answer, Crash, Framed
  <2>3. notebook' = notebook /\ nb' = nb
    BY <1>7 DEF Cleanup
  <2> QED
    BY <1>q, <2>2, <2>3
<1>8. ASSUME NEW how \in {"suspended", "deleted"}, NEW when \in Whens, NEW ok \in BOOLEAN,
             NotebookLeft(d, how, when, ok)
      PROVE  Goal
  <2>1. /\ LeftMsg(how, when, ok) \in inbox[d]
        /\ calls'[d] = calls[d] \cup {CleanupCall(nb[d].tarball)}
        /\ inbox'[d] = inbox[d] \ {LeftMsg(how, when, ok)}
        /\ notebook' = notebook
    BY <1>8, <1>a DEF NotebookLeft, Handle, Framed
  <2>2. UNCHANGED nb \/ (ok = TRUE /\ Goodbye(d, how, when))
    BY <1>8 DEF NotebookLeft
  <2>3. CASE UNCHANGED nb
    BY <1>q, <2>1, <2>3 DEF CleanupCall
  <2>4. CASE ok = TRUE /\ Goodbye(d, how, when)
    <3>1. /\ nb' \in [Clients -> Notes] /\ \A c \in Clients \ {d} : nb'[c] = nb[c]
          /\ nb'[d].selected = nb[d].selected
          /\ nb'[d].goodbye = how /\ nb'[d].hasty = (when = "hasty")
      BY <1>a, <2>4, GoodbyeTyped
    <3>2. /\ when # "early"
          /\ when = "settled" => Settled(d) /\ Stopped(d)
      BY <1>a, <2>1, <2>4 DEF NotebookTerminal, LeftMsg
    <3>3. SaidGoodbye(d)' => when = "settled"
      BY <3>1, <3>2 DEF SaidGoodbye, Whens
    <3>4. Settled(d) => Settled(d)'
      BY <2>1, <3>1 DEF Settled, CleanupCall
    <3>5. FoundOnce(d)' /\ (Unselected(d)' => Unselected(d))
      BY <1>a, <2>1, FoundFewer DEF NotebookTerminal, CleanupCall
    <3>6. \A x \in calls'[d] : x.cmd = "leave" => x \in calls[d]
      BY <2>1 DEF CleanupCall
    <3> QED
      BY <1>a, <1>s, <2>1, <3>1, <3>2, <3>3, <3>4, <3>5, <3>6 DEF NotebookTerminal
  <2> QED
    BY <2>2, <2>3, <2>4
<1>9. ASSUME NEW key \in NotebookKeys, NotebookKey(d, key)
      PROVE  Goal
  <2>1. notebook' = notebook
    BY <1>9 DEF NotebookKey
  <2>2. CASE Press(d, {}, {}) /\ \E value \in BOOLEAN : SetNb(d, "quitting", value)
    <3>1. calls'[d] = calls[d] \cup {} /\ inbox'[d] = inbox[d] \cup {}
      BY <1>a, <2>2 DEF Press, Framed
    <3> QED
      BY <1>q, <2>1, <2>2, <3>1
  <2>3. ASSUME UNCHANGED nb, NEW how \in {"suspended", "deleted"},
               Press(d, {LeaveCall(how, LeaveWhen(d))}, {})
        PROVE  Goal
    <3>1. /\ calls'[d] = calls[d] \cup {LeaveCall(how, LeaveWhen(d))}
          /\ inbox'[d] = inbox[d] \cup {}
      BY <1>a, <2>3 DEF Press, Framed
    <3>2. LeaveWhen(d) = "settled" => Settled(d)
      BY DEF LeaveWhen, Settled
    <3>3. Settled(d) => Settled(d)'
      BY <2>3, <3>1 DEF Settled, LeaveCall
    <3>4. \A x \in calls'[d] : x.cmd = "leave" =>
             x.how \in {"suspended", "deleted"} /\ (x.when = "settled" => Settled(d))
      BY <1>a, <3>1, <3>2 DEF NotebookTerminal, LeaveCall
    <3>5. FoundOnce(d)' /\ (Unselected(d)' => Unselected(d))
      BY <1>a, <3>1, FoundFewer DEF NotebookTerminal, LeaveCall
    <3>6. SaidGoodbye(d)' => SaidGoodbye(d)
      BY <2>3 DEF SaidGoodbye
    <3> QED
      BY <1>a, <1>s, <2>1, <2>3, <3>1, <3>3, <3>4, <3>5, <3>6 DEF NotebookTerminal
  <2> QED
    BY <1>9, <2>2, <2>3 DEF NotebookKey, NotebookKeys
<1>10. ASSUME NEW how \in {"suspended", "deleted"}, NEW when \in Whens, LeaveNotebook(d, how, when)
       PROVE  Goal
  <2>1. nb' = nb /\ LeaveCall(how, when) \in calls[d]
    BY <1>10 DEF LeaveNotebook
  <2>2. CASE Crash(d) /\ notebook' = notebook
    BY <1>q, <2>1, <2>2 DEF Crash
  <2>3. ASSUME when # "early", NEW ok \in BOOLEAN,
               Answer(d, LeaveCall(how, when), {LeftMsg(how, when, ok)}),
               notebook' = how \/ (notebook' = notebook /\ ok = FALSE)
        PROVE  Goal
    <3>1. /\ calls'[d] = calls[d] \ {LeaveCall(how, when)}
          /\ inbox'[d] = inbox[d] \cup {LeftMsg(how, when, ok)}
      BY <1>a, <2>3 DEF Answer, Framed
    <3>2. when = "settled" => Settled(d)
      BY <1>a, <2>1 DEF NotebookTerminal, LeaveCall
    <3>3. Settled(d) => Settled(d)'
      BY <2>1, <3>1 DEF Settled, LeftMsg
    <3>4. /\ Stopped(d) => Stopped(d)'
          /\ ok = TRUE => Stopped(d)'
      BY <1>b, <2>3 DEF Stopped, AloneNoting
    <3>5. FoundOnce(d)' /\ (Unselected(d)' => Unselected(d))
      BY <1>a, <3>1, FoundFewer DEF NotebookTerminal, LeftMsg
    <3>6. SaidGoodbye(d)' => SaidGoodbye(d)
      BY <2>1 DEF SaidGoodbye
    <3>7. \A m \in inbox'[d] : m.msg = "left" =>
             /\ m.when # "early"
             /\ m.when = "settled" => Settled(d)'
             /\ m.when = "settled" /\ m.ok = TRUE => Stopped(d)'
      <4>1. ASSUME NEW m \in inbox[d], m.msg = "left"
            PROVE  /\ m.when # "early"
                   /\ m.when = "settled" => Settled(d)'
                   /\ m.when = "settled" /\ m.ok = TRUE => Stopped(d)'
        BY <1>a, <3>3, <3>4, <4>1 DEF NotebookTerminal
      <4>2. ASSUME NEW m, m = LeftMsg(how, when, ok)
            PROVE  /\ m.when # "early"
                   /\ m.when = "settled" => Settled(d)'
                   /\ m.when = "settled" /\ m.ok = TRUE => Stopped(d)'
        BY <2>3, <3>2, <3>3, <3>4, <4>2 DEF LeftMsg
      <4> QED
        BY <3>1, <4>1, <4>2
    <3> QED
      BY <1>a, <2>1, <3>1, <3>3, <3>4, <3>5, <3>6, <3>7 DEF NotebookTerminal
  <2> QED
    BY <1>10, <2>2, <2>3 DEF LeaveNotebook
<1> QED
  BY <1>1, <1>2, <1>3, <1>4, <1>5, <1>6, <1>7, <1>8, <1>9, <1>10
  DEF NotesOn, NotebookAnswers, NotebookUpdates

LEMMA NotebookInvStep ==
  ASSUME NotebookInv, [Next]_vars
  PROVE  NotebookInv'
<1>a. /\ Framed /\ nb \in [Clients -> Notes]
      /\ \A c \in Clients : program[c] = "notebook" => NotebookTerminal(c)
      /\ \A c \in Clients : program[c] # "notebook" => nb[c].goodbye = "none"
  BY DEF NotebookInv
<1>b. ASSUME NEW c \in Clients, NotebookTerminal(c), program' = program, Same(c), nb'[c] = nb[c],
             Stopped(c) => Stopped(c)'
      PROVE  NotebookTerminal(c)'
  <2>1. Settled(c)' = Settled(c)
    BY <1>b DEF Settled, Same
  <2> QED
    BY <1>b, <2>1, NotebookFewer DEF Same
<1>c. ASSUME program' = program, notebook' = notebook, NEW c
      PROVE  Stopped(c) => Stopped(c)'
  BY <1>c DEF Stopped, AloneNoting
<1>1. CASE Outside /\ Framed'
  BY <1>1, <1>a, <1>b, <1>c DEF Outside, Same, NotebookInv
<1>2. ASSUME NEW d \in Clients, Local(d), NotesOn(d)
      PROVE  NotebookInv'
  <2>1. \A c \in Clients \ {d} : Stopped(c)'
    BY <1>2 DEF NotesOn, Stopped, AloneNoting, Local
  <2>2. /\ NotebookTerminal(d)' /\ nb' \in [Clients -> Notes]
        /\ \A c \in Clients \ {d} : nb'[c] = nb[c]
    BY <1>2, NotebookOwnStep
  <2>3. \A c \in Clients \ {d} : program[c] = "notebook" => NotebookTerminal(c)'
    BY <1>2, <1>a, <1>b, <2>1, <2>2 DEF Local
  <2> QED
    BY <1>2, <1>a, <2>2, <2>3 DEF NotebookInv, Local, NotesOn
<1>3. ASSUME NEW d \in Clients, Local(d),
             Shared(d) \/ Applies(d) \/ Gets(d) \/ RunsOn(d) \/ ServesOn(d)
      PROVE  NotebookInv'
  <2>1. UNCHANGED notebookVars /\ program' = program
    BY <1>3 DEF Shared, Applies, Gets, RunsOn, ServesOn, Local
  <2>2. \A c \in Clients \ {d} : program[c] = "notebook" => NotebookTerminal(c)'
    BY <1>3, <1>a, <1>b, <1>c, <2>1 DEF Local
  <2>3. ASSUME program[d] = "notebook"
        PROVE  NotebookTerminal(d)'
    <3>1. Shared(d) /\ NotebookTerminal(d)
      BY <1>3, <1>a, <2>3 DEF Applies, Gets, RunsOn, ServesOn
    <3>2. CASE Quit(d)
      <4>1. Settled(d)' = Settled(d)
        BY <2>1, <3>2 DEF Settled, Quit
      <4> QED
        BY <1>c, <2>1, <3>1, <3>2, <4>1, NotebookFewer DEF Quit
    <3>3. CASE FindManifests(d) \/ SelectManifest(d)
      <4>1. FoundOnce(d)' /\ Unselected(d)
        BY <1>a, <3>1, <3>3, FoundStep DEF NotebookTerminal
      <4>2. ~ nb[d].selected /\ ~ Settled(d) /\ ~ SaidGoodbye(d)
        BY <3>1, <4>1 DEF NotebookTerminal, Settled
      <4>3. \A m \in inbox'[d] : m.msg = "left" => m \in inbox[d]
        BY <1>a, <3>3 DEF FindManifests, SelectManifest, Answer, Handle, Framed, Msg, Error
      <4>4. \A x \in calls'[d] : x \in calls[d]
        BY <1>a, <3>3 DEF FindManifests, SelectManifest, Answer, Handle, Framed
      <4>5. ~ SaidGoodbye(d)'
        BY <2>1, <4>2 DEF SaidGoodbye
      <4> QED
        BY <2>1, <3>1, <4>1, <4>2, <4>3, <4>4, <4>5 DEF NotebookTerminal
    <3> QED
      BY <3>1, <3>2, <3>3 DEF Shared
  <2> QED
    BY <1>3, <1>a, <2>1, <2>2, <2>3 DEF NotebookInv, Local
<1> QED
  BY <1>a, <1>1, <1>2, <1>3, StepCases

LEMMA NotebookInvInit ==
  ASSUME Init
  PROVE  NotebookInv
<1>1. Framed
  BY InitFramed
<1>2. nb = [c \in Clients |-> NoNotebook] /\ NoNotebook \in Notes /\ NoNotebook.goodbye = "none"
      /\ NoNotebook.selected = FALSE
  BY DEF Init, NotebookInit, NoNotebook, Notes
<1>3. ASSUME NEW c \in Clients, program[c] = "notebook"
      PROVE  NotebookTerminal(c)
  <2>1. calls[c] = {Cmd("find")} /\ inbox[c] = {}
    BY <1>3 DEF Init, RuntimeInit
  <2> QED
    BY <1>2, <2>1 DEF NotebookTerminal, FoundOnce, SaidGoodbye, Cmd
<1> QED
  BY <1>1, <1>2, <1>3 DEF NotebookInv

(* `sub notebook` says that the Notebook is suspended or deleted           *)
(* (NotebookModel.Update, notebook.go) only when nothing starts it again,  *)
(* if no apply was ahead as the key was pressed and no other terminal has  *)
(* the Notebook, whatever else is under way and whichever calls fail.      *)
THEOREM NotebookGoodbyeHolds == Spec => []GoodbyeHolds
<1>1. Init => NotebookInv
  BY NotebookInvInit
<1>2. NotebookInv /\ [Next]_vars => NotebookInv'
  BY NotebookInvStep
<1>3. NotebookInv => GoodbyeHolds
  <2>1. SUFFICES ASSUME NotebookInv, NEW c \in Clients,
                        nb[c].goodbye # "none", ~ nb[c].hasty,
                        \A d \in Clients \ {c} : program[d] # "notebook"
                 PROVE  notebook # "running"
    BY DEF GoodbyeHolds
  <2>2. nb[c].hasty = FALSE
    BY <2>1 DEF NotebookInv, Notes
  <2> QED
    BY <2>1, <2>2 DEF NotebookInv, NotebookTerminal, SaidGoodbye, Stopped, AloneNoting
<1> QED
  BY <1>1, <1>2, <1>3, PTL DEF Spec

(***************************************************************************)
(* Type correctness.  Commands and messages are records of their kind, and *)
(* the numbers of objects in them are natural numbers.                     *)
(***************************************************************************)
WellCalled(x) == "cmd" \in DOMAIN x /\ ("version" \in DOMAIN x => x.version \in Nat)
WellSent(m) == "msg" \in DOMAIN m /\ ("version" \in DOMAIN m => m.version \in Nat)
Tidy(c) == (\A x \in calls[c] : WellCalled(x)) /\ (\A m \in inbox[c] : WellSent(m))
Counted == faults \in 0 .. MaxFaults /\ keys \in 0 .. MaxKeys

LEMMA Shapes ==
  /\ \A a : WellCalled(Cmd(a))
  /\ \A m : WellSent(Msg(m))
  /\ WellSent(Error) /\ WellSent(QuitMsg)
  /\ \A k, o, i : WellCalled(ApplyCall(k, o, i))
  /\ \A k, i, ok : WellSent(AppliedMsg(k, i, ok))
  /\ \A ok : WellSent(DeletedMsg(ok))
  /\ \A c, s : \A v \in Nat : WellCalled(Create(c, s, v))
  /\ \A a : \A v \in Nat : WellCalled(NamedCmd(a, v))
  /\ \A m : \A v \in Nat : WellSent(Named(m, v))
  /\ \A p : WellCalled(LogsCall(p)) /\ WellSent(LineMsg(p))
  /\ \A ok, when : WellSent(AppliedServer(ok)) /\ WellSent(DeletedServer(ok, when))
  /\ \A when : WellCalled(DeleteCall(when))
  /\ \A p, try, up : WellCalled(ForwardCall(p, try, up))
  /\ \A how, when : WellCalled(LeaveCall(how, when))
  /\ \A how, when, ok : WellSent(LeftMsg(how, when, ok))
  /\ \A tarball : WellCalled(CleanupCall(tarball))
BY DEF WellCalled, WellSent, Cmd, Msg, Error, QuitMsg, ApplyCall, AppliedMsg, DeletedMsg,
       Create, NamedCmd, Named, LogsCall, LineMsg, AppliedServer, DeletedServer, DeleteCall,
       ForwardCall, LeaveCall, LeftMsg, CleanupCall

LEMMA Counting ==
  ASSUME Counted, NoFault \/ Fault, keys' = keys
  PROVE  Counted'
BY RuntimeAssumption DEF Counted, NoFault, Fault

LEMMA AnswerTidy ==
  ASSUME Framed, NEW d \in Clients, Tidy(d), Counted, NEW call, NEW messages,
         Answer(d, call, messages), \A m \in messages : WellSent(m), faults' \in 0 .. MaxFaults
  PROVE  Tidy(d)' /\ Counted'
BY AnswerLocal DEF Tidy, Counted

LEMMA HandleTidy ==
  ASSUME Framed, NEW d \in Clients, Tidy(d), Counted, NEW message, NEW started, NEW sent,
         Handle(d, message, started, sent),
         \A x \in started : WellCalled(x), \A m \in sent : WellSent(m)
  PROVE  Tidy(d)' /\ Counted'
<1>1. /\ calls'[d] = calls[d] \cup started /\ inbox'[d] = (inbox[d] \ {message}) \cup sent
      /\ faults' = faults /\ keys' = keys
  BY DEF Framed, Handle
<1> QED
  BY <1>1 DEF Tidy, Counted

LEMMA PressTidy ==
  ASSUME Framed, NEW d \in Clients, Tidy(d), Counted, NEW started, NEW sent,
         Press(d, started, sent),
         \A x \in started : WellCalled(x), \A m \in sent : WellSent(m)
  PROVE  Tidy(d)' /\ Counted'
<1>1. /\ calls'[d] = calls[d] \cup started /\ inbox'[d] = inbox[d] \cup sent
      /\ faults' = faults /\ keys' = keys + 1 /\ keys < MaxKeys
  BY DEF Framed, Press
<1> QED
  BY <1>1, RuntimeAssumption DEF Tidy, Counted

LEMMA StepTidy ==
  ASSUME Framed, NEW d \in Clients, Tidy(d), Counted, NEW from, NEW to,
         Step(d, from, to), WellCalled(to)
  PROVE  Tidy(d)' /\ Counted'
<1>1. faults' = faults
  BY DEF Step
<1> QED
  BY <1>1, StepLocal DEF Tidy, Counted

(* Nothing of the terminal, or only its end, changes.                      *)
LEMMA SameTidy ==
  ASSUME NEW d \in Clients, Tidy(d), Counted,
         UNCHANGED <<calls, inbox, faults, keys>>
  PROVE  Tidy(d)' /\ Counted'
BY DEF Tidy, Counted

LEMMA SharedTidy ==
  ASSUME Framed, NEW d \in Clients, Tidy(d), Counted, Shared(d)
  PROVE  Tidy(d)' /\ Counted'
<1>1. CASE FindManifests(d)
  <2>1. faults' \in 0 .. MaxFaults
    BY <1>1, RuntimeAssumption DEF FindManifests, NoFault, Fault, Counted
  <2> QED
    BY <1>1, <2>1, AnswerTidy, Shapes DEF FindManifests
<1>2. CASE SelectManifest(d)
  BY <1>2, HandleTidy, Shapes DEF SelectManifest
<1>3. CASE Quit(d)
  BY <1>3, SameTidy DEF Quit
<1> QED
  BY <1>1, <1>2, <1>3 DEF Shared

LEMMA ApplyTidy ==
  ASSUME Framed, NEW d \in Clients, Tidy(d), Counted, Applies(d)
  PROVE  Tidy(d)' /\ Counted'
<1>1. ASSUME NEW call \in calls[d], ApplyObject(d, call)
      PROVE  Tidy(d)' /\ Counted'
  <2>1. faults' \in 0 .. MaxFaults
    BY <1>1, RuntimeAssumption DEF ApplyObject, NoFault, Fault, Counted
  <2>2. PICK ok \in BOOLEAN : Answer(d, call, {AppliedMsg(call.chain, call.index, ok)})
    BY <1>1 DEF ApplyObject
  <2>3. \A m \in {AppliedMsg(call.chain, call.index, ok)} : WellSent(m)
    BY Shapes
  <2> QED
    BY <2>1, <2>2, <2>3, AnswerTidy
<1>2. CASE GetTarget(d) \/ DeleteObject(d)
  <2>1. faults' \in 0 .. MaxFaults
    BY <1>2, RuntimeAssumption DEF GetTarget, DeleteObject, NoFault, Fault, Counted
  <2> QED
    BY <1>2, <2>1, AnswerTidy, Shapes DEF GetTarget, DeleteObject
<1>3. CASE ManifestsFound(d) \/ ApplyError(d) \/ InitDelete(d) \/ DeleteTarget(d)
             \/ DeleteIgnoresError(d)
  BY <1>3, HandleTidy, Shapes
  DEF ManifestsFound, ApplyError, InitDelete, DeleteTarget, DeleteIgnoresError
<1>4. ASSUME NEW message \in inbox[d], Applied(d, message) \/ Deleted(d, message)
      PROVE  Tidy(d)' /\ Counted'
  BY <1>4, HandleTidy, Shapes DEF Applied, Deleted
<1>5. CASE ApplyKey(d)
  BY <1>5, PressTidy, Shapes DEF ApplyKey
<1> QED
  BY <1>1, <1>2, <1>3, <1>4, <1>5 DEF Applies, ApplyAnswers, ApplyUpdates

LEMMA GetTidy ==
  ASSUME Framed, NEW d \in Clients, Tidy(d), Counted, Gets(d)
  PROVE  Tidy(d)' /\ Counted'
<1>1. CASE OpenWatch(d)
  <2>1. calls'[d] \subseteq calls[d] /\ UNCHANGED <<inbox, faults, keys>>
    BY <1>1 DEF Framed, OpenWatch
  <2> QED
    BY <2>1 DEF Tidy, Counted
<1>2. CASE GetError(d)
  BY <1>2, HandleTidy DEF GetError
<1>3. CASE GetKey(d)
  BY <1>3, PressTidy, Shapes DEF GetKey
<1>4. CASE OpenFails(d)
  <2>1. faults' \in 0 .. MaxFaults
    BY <1>4, RuntimeAssumption DEF OpenFails, Fault, Counted
  <2> QED
    BY <1>4, <2>1, AnswerTidy, Shapes DEF OpenFails
<1>5. ASSUME NEW k \in Kinds, CloseWatch(d, k) \/ WatchMsg(d, k)
      PROVE  Tidy(d)' /\ Counted'
  <2>1. UNCHANGED runtimeVars
    BY <1>5 DEF CloseWatch, WatchMsg
  <2> QED
    BY <2>1, SameTidy
<1> QED
  BY <1>1, <1>2, <1>3, <1>4, <1>5 DEF Gets, GetUpdates

LEMMA NumbersAreNat ==
  ASSUME NEW d \in Clients, Tidy(d)
  PROVE  Numbers(calls[d]) \subseteq Nat /\ Numbers(inbox[d]) \subseteq Nat
BY DEF Numbers, Tidy, WellCalled, WellSent

LEMMA RunTidy ==
  ASSUME Framed, NEW d \in Clients, Tidy(d), Counted, RunsOn(d), NextVersion \in Nat
  PROVE  Tidy(d)' /\ Counted'
<1>1. CASE PrepareTarball(d)
  <2>1. faults' \in 0 .. MaxFaults
    BY <1>1, RuntimeAssumption DEF PrepareTarball, NoFault, Fault, Counted
  <2> QED
    BY <1>1, <2>1, AnswerTidy, Shapes DEF PrepareTarball
<1>2. CASE ListVersions(d)
  <2>1. CASE Step(d, Create(d, "list", 0), Create(d, "create", NextVersion))
    BY <2>1, StepTidy, Shapes
  <2>2. CASE Fault /\ Answer(d, Create(d, "list", 0), {Error})
    <3>1. faults' \in 0 .. MaxFaults
      BY <2>2, RuntimeAssumption DEF Fault, Counted
    <3> QED
      BY <2>2, <3>1, AnswerTidy, Shapes
  <2> QED
    BY <1>2, <2>1, <2>2 DEF ListVersions
<1>3. ASSUME NEW v \in Nat, NEW s \in {"create", "recreate"}, CreateObject(d, s, v)
      PROVE  Tidy(d)' /\ Counted'
  <2>1. CASE Step(d, Create(d, s, v), Create(d, "delete", v))
    BY <2>1, StepTidy, Shapes
  <2>2. CASE /\ NoFault \/ Fault
             /\ \E m \in {Named("created", v), Error} : Answer(d, Create(d, s, v), {m})
    <3>1. faults' \in 0 .. MaxFaults
      BY <2>2, RuntimeAssumption DEF NoFault, Fault, Counted
    <3>2. PICK m \in {Named("created", v), Error} : Answer(d, Create(d, s, v), {m})
      BY <2>2
    <3>3. \A n \in {m} : WellSent(n)
      BY <3>2, Shapes
    <3> QED
      BY <3>1, <3>2, <3>3, AnswerTidy
  <2> QED
    BY <1>3, <2>1, <2>2 DEF CreateObject
<1>4. ASSUME NEW v \in Nat, DeleteForReplace(d, v)
      PROVE  Tidy(d)' /\ Counted'
  <2>1. CASE Step(d, Create(d, "delete", v), Create(d, "recreate", v))
    BY <2>1, StepTidy, Shapes
  <2>2. CASE (NoFault \/ Fault) /\ Answer(d, Create(d, "delete", v), {Error})
    <3>1. faults' \in 0 .. MaxFaults
      BY <2>2, RuntimeAssumption DEF NoFault, Fault, Counted
    <3> QED
      BY <2>2, <3>1, AnswerTidy, Shapes
  <2> QED
    BY <1>4, <2>1, <2>2 DEF DeleteForReplace
<1>5. ASSUME NEW v \in Nat, UploadTarball(d, v) \/ WaitReady(d, v)
      PROVE  Tidy(d)' /\ Counted'
  <2>1. faults' \in 0 .. MaxFaults
    BY <1>5, RuntimeAssumption DEF UploadTarball, WaitReady, NoFault, Fault, Counted
  <2>2. PICK call, m : /\ Answer(d, call, {m})
                       /\ m = Named("uploaded", v) \/ m = Named("ready", v) \/ m = Error
    BY <1>5 DEF UploadTarball, WaitReady
  <2>3. \A n \in {m} : WellSent(n)
    BY <2>2, Shapes
  <2> QED
    BY <2>1, <2>2, <2>3, AnswerTidy
<1>6. CASE RunSelected(d) \/ RunError(d)
  BY <1>6, HandleTidy, Shapes DEF RunSelected, RunError
<1>7. CASE TarballComplete(d)
  <2>1. PICK s : Handle(d, Msg("tarball"), {Create(d, s, 0)}, {})
    BY <1>7 DEF TarballComplete
  <2>2. \A x \in {Create(d, s, 0)} : WellCalled(x)
    BY Shapes
  <2> QED
    BY <2>1, <2>2, HandleTidy
<1>8. ASSUME NEW v \in Nat, CreatedWithUpload(d, v) \/ TarballUploaded(d, v) \/ ObjectReady(d, v)
      PROVE  Tidy(d)' /\ Counted'
  BY <1>8, HandleTidy, Shapes DEF CreatedWithUpload, TarballUploaded, ObjectReady
<1>9. CASE RunKey(d)
  BY <1>9, PressTidy, Shapes DEF RunKey
<1> QED
  BY <1>1, <1>2, <1>3, <1>4, <1>5, <1>6, <1>7, <1>8, <1>9, NumbersAreNat
  DEF RunsOn, RunAnswers, RunUpdates

LEMMA ServeTidy ==
  ASSUME Framed, NEW d \in Clients, Tidy(d), Counted, ServesOn(d)
  PROVE  Tidy(d)' /\ Counted'
<1>f. ASSUME NEW call, NEW messages, Answer(d, call, messages), NoFault \/ Fault,
             messages = {} \/ \E m : messages = {m} /\ WellSent(m)
      PROVE  Tidy(d)' /\ Counted'
  <2>1. faults' \in 0 .. MaxFaults
    BY <1>f, RuntimeAssumption DEF NoFault, Fault, Counted
  <2>2. \A m \in messages : WellSent(m)
    BY <1>f
  <2> QED
    BY <1>f, <2>1, <2>2, AnswerTidy
<1>1. CASE ApplyServer(d) \/ WaitServer(d) \/ WatchPods(d)
  <2>1. \E call, messages :
           /\ Answer(d, call, messages) /\ (NoFault \/ Fault)
           /\ messages \in {{}, {Error}, {AppliedServer(TRUE)}, {AppliedServer(FALSE)}}
    <3>1. CASE ApplyServer(d)
      BY Zenon, <3>1 DEF ApplyServer
    <3>2. CASE WaitServer(d)
      BY Zenon, <3>2 DEF WaitServer
    <3>3. CASE WatchPods(d)
      BY Zenon, <3>3 DEF WatchPods
    <3> QED
      BY <1>1, <3>1, <3>2, <3>3
  <2> QED
    BY <1>f, <2>1, Shapes
<1>2. ASSUME NEW when, DeleteServer(d, when)
      PROVE  Tidy(d)' /\ Counted'
  <2>1. CASE Crash(d)
    BY <2>1, SameTidy DEF Crash
  <2>2. CASE /\ NoFault \/ Fault
             /\ \E ok : Answer(d, DeleteCall(when), {DeletedServer(ok, when)})
    <3>1. faults' \in 0 .. MaxFaults
      BY <2>2, RuntimeAssumption DEF NoFault, Fault, Counted
    <3> QED
      BY <2>2, <3>1, AnswerTidy, Shapes
  <2> QED
    BY <1>2, <2>1, <2>2 DEF DeleteServer
<1>3. ASSUME NEW p, NEW try \in 1 .. MaxRetries, NEW up, ForwardUp(d, p, try) \/ ForwardBreaks(d, p, try, up)
      PROVE  Tidy(d)' /\ Counted'
  <2>1. faults' \in 0 .. MaxFaults
    <3>1. NoFault \/ Fault
      BY <1>3 DEF ForwardUp, ForwardBreaks
    <3> QED
      BY <3>1, RuntimeAssumption DEF NoFault, Fault, Counted
  <2>2. PICK call, next : /\ Forward(d, call, next)
                          /\ \A x \in next : WellCalled(x)
    <3>1. PICK call, next : /\ Forward(d, call, next)
                            /\ next = {} \/ \E t, u : next = {ForwardCall(p, t, u)}
      <4>1. CASE ForwardUp(d, p, try)
        BY <4>1 DEF ForwardUp
      <4>2. CASE ForwardBreaks(d, p, try, up)
        BY <4>2 DEF ForwardBreaks
      <4> QED
        BY <1>3, <4>1, <4>2
    <3> QED
      BY <3>1, Shapes
  <2>3. calls'[d] = (calls[d] \ {call}) \cup next /\ keys' = keys
    BY <2>2 DEF Framed, Forward
  <2>4. inbox'[d] \subseteq inbox[d] \cup {Msg("forwardReady")}
    BY <1>3 DEF Framed, ForwardUp, ForwardBreaks
  <2> QED
    BY <2>1, <2>2, <2>3, <2>4, Shapes DEF Tidy, Counted
<1>4. ASSUME NEW p, LogsBreak(d, p)
      PROVE  Tidy(d)' /\ Counted'
  <2>1. faults' \in 0 .. MaxFaults
    BY <1>4, RuntimeAssumption DEF LogsBreak, NoFault, Fault, Counted
  <2> QED
    BY <1>4, <2>1, AnswerTidy, Shapes DEF LogsBreak
<1>5. ASSUME NEW p, LogLine(d, p)
      PROVE  Tidy(d)' /\ Counted'
  <2>1. calls' = calls /\ inbox'[d] = inbox[d] \cup {LineMsg(p)} /\ UNCHANGED <<faults, keys>>
    BY <1>5 DEF Framed, LogLine
  <2> QED
    BY <2>1, Shapes DEF Tidy, Counted
<1>6. CASE ServeSelected(d) \/ ForwardReady(d) \/ ServeError(d)
  <2>1. PICK m, started : /\ Handle(d, m, started, {})
                          /\ started \in {{}, {Cmd("applyServer")}}
    BY <1>6 DEF ServeSelected, ForwardReady, ServeError
  <2> QED
    BY <2>1, HandleTidy, Shapes
<1>7. ASSUME NEW ok, NEW when, ServerApplied(d, ok) \/ ServerDeleted(d, ok, when)
      PROVE  Tidy(d)' /\ Counted'
  BY <1>7, HandleTidy, Shapes DEF ServerApplied, ServerDeleted
<1>8. CASE ServePodMsg(d)
  <2>1. PICK started : /\ calls'[d] = calls[d] \cup started
                       /\ \A x \in started : WellCalled(x)
    <3>1. PICK event : event = Head(podEvents[d])
      OBVIOUS
    <3>2. PICK logs, forwards :
             /\ calls' = [calls EXCEPT ![d] = calls[d] \cup logs \cup forwards]
             /\ logs \subseteq {LogsCall(event.pod)}
             /\ forwards \subseteq {ForwardCall(event.pod, 1, FALSE)}
      <4>1. PICK logs \in SUBSET {LogsCall(event.pod)} :
              logs = IF StartsLogs(WithRoleReset(entries[d], event.pod), event)
                     THEN {LogsCall(event.pod)} ELSE {}
        OBVIOUS
      <4>2. PICK forwards \in SUBSET {ForwardCall(event.pod, 1, FALSE)} :
              forwards = IF Forwards(d, event) THEN {ForwardCall(event.pod, 1, FALSE)} ELSE {}
        OBVIOUS
      <4>3. calls' = [calls EXCEPT ![d] = calls[d] \cup logs \cup forwards]
        BY <1>8, <3>1, <4>1, <4>2 DEF ServePodMsg
      <4> QED
        BY <4>1, <4>2, <4>3
    <3>3. calls'[d] = calls[d] \cup (logs \cup forwards)
      BY <3>2 DEF Framed
    <3>4. \A x \in logs \cup forwards : WellCalled(x)
      BY <3>2, Shapes
    <3> QED
      BY <3>3, <3>4
  <2>2. UNCHANGED <<inbox, faults, keys>>
    BY <1>8 DEF ServePodMsg
  <2> QED
    BY <2>1, <2>2 DEF Tidy, Counted
<1>9. ASSUME NEW p, ServeLogsMsg(d, p)
      PROVE  Tidy(d)' /\ Counted'
  BY <1>9, HandleTidy DEF ServeLogsMsg, PodLogsMsg
<1>10. ASSUME NEW key \in ServeKeys, ServeKey(d, key)
       PROVE  Tidy(d)' /\ Counted'
  <2>1. PICK started, sent :
           /\ Press(d, started, sent)
           /\ started \in {{}, {DeleteCall(ServeWhen(d))}} /\ sent \in {{}, {QuitMsg}}
    BY <1>10 DEF ServeKey, ServeKeys
  <2> QED
    BY <2>1, PressTidy, Shapes
<1> QED
  BY <1>1, <1>2, <1>3, <1>4, <1>5, <1>6, <1>7, <1>8, <1>9, <1>10
  DEF ServesOn, ServeAnswers, ServeUpdates

LEMMA NotebookTidy ==
  ASSUME Framed, NEW d \in Clients, Tidy(d), Counted, NotesOn(d)
  PROVE  Tidy(d)' /\ Counted'
<1>1. CASE PrepareNotebook(d) \/ ApplyNotebook(d) \/ UploadNotebook(d) \/ WaitNotebook(d)
             \/ SyncFails(d)
  <2>1. faults' \in 0 .. MaxFaults
    <3>1. NoFault \/ Fault
      BY Zenon, <1>1
      DEF PrepareNotebook, ApplyNotebook, UploadNotebook, WaitNotebook, SyncFails
    <3> QED
      BY <3>1, RuntimeAssumption DEF NoFault, Fault, Counted
  <2>2. PICK call, m : Answer(d, call, {m}) /\ (m = Error \/ \E a : m = Msg(a))
    BY <1>1 DEF PrepareNotebook, ApplyNotebook, UploadNotebook, WaitNotebook, SyncFails
  <2> QED
    BY <2>1, <2>2, AnswerTidy, Shapes
<1>2. ASSUME NEW how, NEW when, LeaveNotebook(d, how, when)
      PROVE  Tidy(d)' /\ Counted'
  <2>1. CASE Crash(d) /\ when = "early"
    BY <2>1, SameTidy DEF Crash
  <2>2. CASE /\ NoFault \/ Fault
             /\ \E ok : Answer(d, LeaveCall(how, when), {LeftMsg(how, when, ok)})
    <3>1. faults' \in 0 .. MaxFaults
      BY <2>2, RuntimeAssumption DEF NoFault, Fault, Counted
    <3> QED
      BY <2>2, <3>1, AnswerTidy, Shapes
  <2> QED
    BY <1>2, <2>1, <2>2 DEF LeaveNotebook
<1>3. ASSUME NEW tarball \in BOOLEAN, Cleanup(d, tarball)
      PROVE  Tidy(d)' /\ Counted'
  <2>1. CASE Crash(d)
    BY <2>1, SameTidy DEF Crash
  <2>2. CASE Answer(d, CleanupCall(tarball), {QuitMsg}) /\ NoFault
    <3>1. faults' \in 0 .. MaxFaults
      BY <2>2 DEF NoFault, Counted
    <3> QED
      BY <2>2, <3>1, AnswerTidy, Shapes
  <2> QED
    BY <1>3, <2>1, <2>2 DEF Cleanup
<1>4. CASE NotebookSelected(d) \/ NotebookTarball(d) \/ NotebookApplied(d) \/ NotebookUploaded(d)
             \/ NotebookReady(d) \/ NotebookError(d)
  <2>1. PICK m, started : Handle(d, m, started, {}) /\ (started = {} \/ \E a : started = {Cmd(a)})
    BY <1>4 DEF NotebookSelected, NotebookTarball, NotebookApplied, NotebookUploaded,
         NotebookReady, NotebookError
  <2> QED
    BY <2>1, HandleTidy, Shapes
<1>5. ASSUME NEW how, NEW when, NEW ok, NotebookLeft(d, how, when, ok)
      PROVE  Tidy(d)' /\ Counted'
  BY <1>5, HandleTidy, Shapes DEF NotebookLeft
<1>6. ASSUME NEW key \in NotebookKeys, NotebookKey(d, key)
      PROVE  Tidy(d)' /\ Counted'
  <2>1. PICK started : /\ Press(d, started, {})
                       /\ started = {} \/ \E how, when : started = {LeaveCall(how, when)}
    BY <1>6 DEF NotebookKey, NotebookKeys
  <2> QED
    BY <2>1, PressTidy, Shapes
<1> QED
  BY <1>1, <1>2, <1>3, <1>4, <1>5, <1>6 DEF NotesOn, NotebookAnswers, NotebookUpdates

(***************************************************************************)
(* `sub run`: the numbers in use are natural numbers, and have a largest.  *)
(***************************************************************************)
Stages == {"start", "tarring", "creating", "uploading", "waiting", "ready"}

RunTyped ==
    /\ \E b \in Nat : DOMAIN owner \subseteq 0 .. b
    /\ \A v \in DOMAIN owner : owner[v] \in Clients \cup {"other"}
    /\ ready \subseteq DOMAIN owner /\ broken \subseteq DOMAIN owner \ ready
    /\ stage \in [Clients -> Stages]
    /\ name \in [Clients -> Nat]

LEMMA LargestNumber ==
  ASSUME NEW S \in SUBSET Nat, 0 \in S, NEW b \in Nat, \A x \in S : x <= b
  PROVE  Max(S) \in S
<1> DEFINE Bounds == {n \in Nat : \A x \in S : x <= n}
<1>1. Bounds \subseteq Nat /\ b \in Bounds
  OBVIOUS
<1>2. PICK m \in Bounds : \A y \in Bounds : ~ (<<y, m>> \in OpToRel(<, Nat))
  <2> HIDE DEF Bounds
  <2>1. Bounds # {}
    BY <1>1
  <2> QED
    BY <1>1, <2>1, WFMin, NatLessThanWellFounded
<1>3. m \in Nat /\ \A x \in S : x <= m
  OBVIOUS
<1>4. m \in S
  <2>1. SUFFICES ASSUME m \notin S PROVE FALSE
    OBVIOUS
  <2>2. m # 0
    BY <2>1
  <2>3. m - 1 \in Nat /\ m - 1 < m
    BY <1>3, <2>2
  <2>4. \A x \in S : x <= m - 1
    <3>1. ASSUME NEW x \in S
          PROVE  x <= m - 1
      <4>1. x \in Nat /\ x <= m /\ x # m
        BY <1>3, <2>1
      <4> QED
        BY <1>3, <2>3, <4>1
    <3> QED
      BY <3>1
  <2>5. m - 1 \in Bounds
    BY <2>3, <2>4
  <2>6. <<m - 1, m>> \in OpToRel(<, Nat)
    BY <1>3, <2>3 DEF OpToRel
  <2> QED
    BY <1>2, <2>5, <2>6
<1>5. \A y \in S : m >= y
  BY <1>3
<1> QED
  BY <1>4, <1>5 DEF Max

LEMMA NextIsNat ==
  ASSUME RunTyped
  PROVE  NextVersion \in Nat
<1>1. PICK b \in Nat : DOMAIN owner \subseteq 0 .. b
  BY DEF RunTyped
<1>2. PICK S : S = {0} \cup Alike \cup DOMAIN owner
  OBVIOUS
<1>3. S \in SUBSET Nat /\ 0 \in S
  <2>1. \A x \in DOMAIN owner : x \in Nat
    BY <1>1
  <2>2. \A x \in Alike : x \in Nat
    BY VersionAssumption
  <2> QED
    BY <1>2, <2>1, <2>2
<1>4. PICK n \in Nat : n >= b /\ n >= MaxVersion
  <2>1. MaxVersion \in Nat
    BY VersionAssumption
  <2> QED
    BY <2>1
<1>5. \A x \in S : x <= n
  BY <1>1, <1>2, <1>4, VersionAssumption
<1>6. Max(S) \in S
  BY <1>3, <1>5, LargestNumber
<1> QED
  BY <1>2, <1>3, <1>6 DEF NextVersion

LEMMA OwnerTyped ==
  ASSUME RunTyped, NEW v \in Nat, NEW c \in Clients,
         WithObject(v, c) \/ WithoutObject(v), stage' = stage, name' = name
  PROVE  RunTyped'
<1>1. PICK b \in Nat : DOMAIN owner \subseteq 0 .. b
  BY DEF RunTyped
<1>2. PICK n \in Nat : n >= b /\ n >= v
  OBVIOUS
<1>3. DOMAIN owner' \subseteq 0 .. n
  BY <1>1, <1>2 DEF WithObject, WithoutObject
<1>4. \A w \in DOMAIN owner' : owner'[w] \in Clients \cup {"other"}
  BY DEF RunTyped, WithObject, WithoutObject
<1>5. ready' \subseteq DOMAIN owner' /\ broken' \subseteq DOMAIN owner' \ ready'
  BY DEF RunTyped, WithObject, WithoutObject, Unstarted
<1> QED
  BY <1>3, <1>4, <1>5 DEF RunTyped

LEMMA RunOwnTyped ==
  ASSUME RunTyped, NEW d \in Clients, Tidy(d), RunsOn(d)
  PROVE  RunTyped'
<1>u. ASSUME UNCHANGED <<runCloud, name>>, stage' \in [Clients -> Stages]
      PROVE  RunTyped'
  BY <1>u DEF RunTyped
<1>1. CASE PrepareTarball(d) \/ ListVersions(d) \/ RunError(d) \/ RunKey(d)
  <2>1. UNCHANGED runVars
    BY <1>1 DEF PrepareTarball, ListVersions, RunError, RunKey
  <2> QED
    BY <1>u, <2>1 DEF RunTyped
<1>2. ASSUME NEW v \in Nat, UploadTarball(d, v) \/ WaitReady(d, v)
      PROVE  RunTyped'
  <2>1. UNCHANGED runVars
    BY <1>2 DEF UploadTarball, WaitReady
  <2> QED
    BY <1>u, <2>1 DEF RunTyped
<1>3. CASE RunSelected(d) \/ TarballComplete(d)
  BY <1>3, <1>u DEF RunTyped, RunSelected, TarballComplete, Stage, Stages
<1>4. ASSUME NEW v \in Nat, TarballUploaded(d, v) \/ ObjectReady(d, v)
      PROVE  RunTyped'
  BY <1>4, <1>u DEF RunTyped, TarballUploaded, ObjectReady, Stage, Stages
<1>5. ASSUME NEW v \in Nat, CreatedWithUpload(d, v)
      PROVE  RunTyped'
  BY <1>5 DEF RunTyped, CreatedWithUpload, Stage, Stages
<1>6. ASSUME NEW v \in Nat, NEW s, CreateObject(d, s, v)
      PROVE  RunTyped'
  <2>1. UNCHANGED runCloud \/ WithObject(v, d)
    BY <1>6 DEF CreateObject
  <2>2. stage' = stage /\ name' = name
    BY <1>6 DEF CreateObject
  <2> QED
    BY <1>u, <2>1, <2>2, OwnerTyped DEF RunTyped
<1>7. ASSUME NEW v \in Nat, DeleteForReplace(d, v)
      PROVE  RunTyped'
  <2>1. UNCHANGED runCloud \/ WithoutObject(v)
    BY <1>7 DEF DeleteForReplace
  <2>2. stage' = stage /\ name' = name
    BY <1>7 DEF DeleteForReplace
  <2> QED
    BY <1>u, <2>1, <2>2, OwnerTyped DEF RunTyped
<1> QED
  BY <1>1, <1>2, <1>3, <1>4, <1>5, <1>6, <1>7, NumbersAreNat
  DEF RunsOn, RunAnswers, RunUpdates

(***************************************************************************)
(* `sub delete` has one thing to do at a time, and then nothing more.      *)
(***************************************************************************)
DeleteWork(c) ==
    {<<"call", x>> : x \in {x \in calls[c] : x.cmd \in {"get", "delete"}}}
    \cup {<<"message", m>> : m \in {m \in inbox[c] : m.msg \in {"deleteInit", "target", "deleted"}}}

DeleteTyped(c) == /\ deleted[c] \in 0 .. 1
                  /\ program[c] = "delete" =>
                       /\ \A x, y \in DeleteWork(c) : x = y
                       /\ deleted[c] = 1 => DeleteWork(c) = {}

ApplyTyped == /\ cluster \subseteq Objects
              /\ deleted \in [Clients -> Nat]
              /\ \A c \in Clients : DeleteTyped(c)

LEMMA DeleteFewer ==
  ASSUME NEW c, DeleteTyped(c), program' = program, deleted'[c] = deleted[c],
         program[c] = "delete" => DeleteWork(c)' \subseteq DeleteWork(c)
  PROVE  DeleteTyped(c)'
BY DEF DeleteTyped

LEMMA DeleteMoves ==
  ASSUME NEW c, DeleteTyped(c), program[c] = "delete", program' = program, deleted'[c] = deleted[c],
         NEW x \in DeleteWork(c), NEW y, DeleteWork(c)' \subseteq (DeleteWork(c) \ {x}) \cup {y}
  PROVE  DeleteTyped(c)'
BY DEF DeleteTyped

LEMMA ApplyOwnTyped ==
  ASSUME ApplyInv, ApplyTyped, NEW d \in Clients, Local(d), Applies(d)
  PROVE  ApplyTyped'
<1>a. /\ Framed /\ program' = program /\ cluster \subseteq Objects /\ deleted \in [Clients -> Nat]
      /\ DeleteTyped(d)
  BY DEF ApplyInv, ApplyTyped, Local
<1>o. \A c \in Clients \ {d} : DeleteWork(c)' = DeleteWork(c)
  BY DEF Local, Same, DeleteWork
<1>g. ASSUME cluster' \subseteq Objects, DeleteTyped(d)',
             deleted' = deleted \/ deleted' = [deleted EXCEPT ![d] = deleted[d] + 1]
      PROVE  ApplyTyped'
  <2>1. ASSUME NEW c \in Clients \ {d}
        PROVE  DeleteTyped(c)'
    BY <1>a, <1>o, <1>g, <2>1, DeleteFewer DEF ApplyTyped
  <2> QED
    BY <1>a, <1>g, <2>1 DEF ApplyTyped
<1>1. CASE program[d] = "apply"
  <2>1. /\ deleted' = deleted
        /\ \/ cluster' = cluster
           \/ \E x \in calls[d] : x.cmd = "apply" /\ cluster' \in {cluster, cluster \cup {x.object}}
    BY <1>1 DEF Applies, ApplyAnswers, ApplyUpdates, ApplyObject, GetTarget, DeleteObject,
       ManifestsFound, ApplyError, Applied, Deleted, InitDelete, DeleteTarget, DeleteIgnoresError,
       ApplyKey, Runs
  <2>2. \A x \in calls[d] : x.cmd = "apply" => x.object \in Objects
    BY <1>1 DEF ApplyInv, ApplyTerminal
  <2>3. DeleteTyped(d)'
    BY <1>1, <1>a, <2>1, DeleteFewer
  <2> QED
    BY <1>a, <1>g, <2>1, <2>2, <2>3
<1>2. CASE program[d] = "delete" /\ InitDelete(d)
  <2>1. /\ <<"message", Msg("deleteInit")>> \in DeleteWork(d) /\ UNCHANGED applyVars
        /\ calls'[d] = calls[d] \cup {Cmd("get")} /\ inbox'[d] = (inbox[d] \ {Msg("deleteInit")}) \cup {}
    BY <1>2, <1>a DEF InitDelete, Handle, Framed, DeleteWork, Msg
  <2>2. DeleteWork(d)' \subseteq (DeleteWork(d) \ {<<"message", Msg("deleteInit")>>}) \cup {<<"call", Cmd("get")>>}
    BY <2>1 DEF DeleteWork, Cmd, Msg
  <2>9. DeleteTyped(d)'
    BY <1>2, <1>a, <2>1, <2>2, DeleteMoves
  <2> QED
    BY <1>a, <1>g, <2>1, <2>2, <2>9
<1>3. CASE program[d] = "delete" /\ GetTarget(d)
  <2>1. PICK m \in {Msg("target"), Error} : Answer(d, Cmd("get"), {m})
    BY <1>3 DEF GetTarget
  <2>2. /\ <<"call", Cmd("get")>> \in DeleteWork(d) /\ UNCHANGED applyVars
        /\ calls'[d] = calls[d] \ {Cmd("get")} /\ inbox'[d] = inbox[d] \cup {m}
    BY <1>3, <1>a, <2>1, AnswerLocal DEF GetTarget, DeleteWork, Cmd
  <2>3. DeleteWork(d)' \subseteq (DeleteWork(d) \ {<<"call", Cmd("get")>>}) \cup {<<"message", m>>}
    BY <2>1, <2>2 DEF DeleteWork, Cmd, Msg, Error
  <2>9. DeleteTyped(d)'
    BY <1>3, <1>a, <2>2, <2>3, DeleteMoves
  <2> QED
    BY <1>a, <1>g, <2>2, <2>3, <2>9
<1>4. CASE program[d] = "delete" /\ DeleteTarget(d)
  <2>1. /\ <<"message", Msg("target")>> \in DeleteWork(d) /\ UNCHANGED applyVars
        /\ calls'[d] = calls[d] \cup {Cmd("delete")} /\ inbox'[d] = (inbox[d] \ {Msg("target")}) \cup {}
    BY <1>4, <1>a DEF DeleteTarget, Handle, Framed, DeleteWork, Msg
  <2>2. DeleteWork(d)' \subseteq (DeleteWork(d) \ {<<"message", Msg("target")>>}) \cup {<<"call", Cmd("delete")>>}
    BY <2>1 DEF DeleteWork, Cmd, Msg
  <2>9. DeleteTyped(d)'
    BY <1>4, <1>a, <2>1, <2>2, DeleteMoves
  <2> QED
    BY <1>a, <1>g, <2>1, <2>2, <2>9
<1>5. CASE program[d] = "delete" /\ DeleteObject(d)
  <2>1. PICK ok : Answer(d, Cmd("delete"), {DeletedMsg(ok)})
    BY <1>5 DEF DeleteObject
  <2>2. /\ <<"call", Cmd("delete")>> \in DeleteWork(d) /\ deleted' = deleted /\ cluster' \subseteq cluster
        /\ calls'[d] = calls[d] \ {Cmd("delete")} /\ inbox'[d] = inbox[d] \cup {DeletedMsg(ok)}
    BY <1>5, <1>a, <2>1, AnswerLocal DEF DeleteObject, DeleteWork, Cmd
  <2>3. DeleteWork(d)' \subseteq (DeleteWork(d) \ {<<"call", Cmd("delete")>>}) \cup {<<"message", DeletedMsg(ok)>>}
    BY <2>1, <2>2 DEF DeleteWork, Cmd, DeletedMsg
  <2>9. DeleteTyped(d)'
    BY <1>5, <1>a, <2>2, <2>3, DeleteMoves
  <2> QED
    BY <1>a, <1>g, <2>2, <2>3, <2>9
<1>6. ASSUME program[d] = "delete", NEW m \in inbox[d], Deleted(d, m)
      PROVE  ApplyTyped'
  <2>1. PICK sent \in {{}, {QuitMsg}} : Handle(d, m, {}, sent)
    BY <1>6 DEF Deleted
  <2>2. /\ <<"message", m>> \in DeleteWork(d) /\ cluster' = cluster
        /\ calls'[d] = calls[d] \cup {} /\ inbox'[d] = (inbox[d] \ {m}) \cup sent
    BY <1>6, <1>a, <2>1 DEF Deleted, Handle, Framed, DeleteWork
  <2>3. DeleteWork(d)' \subseteq DeleteWork(d) \ {<<"message", m>>}
    BY <2>1, <2>2 DEF DeleteWork, QuitMsg, Msg
  <2>4. deleted[d] = 0 /\ DeleteWork(d)' = {}
    BY <1>6, <1>a, <2>2, <2>3 DEF DeleteTyped
  <2>5. deleted' = deleted \/ deleted' = [deleted EXCEPT ![d] = deleted[d] + 1]
    BY <1>6 DEF Deleted
  <2>6. DeleteTyped(d)'
    BY <1>a, <2>4, <2>5 DEF DeleteTyped
  <2> QED
    BY <1>a, <1>g, <2>2, <2>5, <2>6
<1>7. CASE program[d] = "delete" /\ (DeleteIgnoresError(d) \/ ApplyKey(d))
  <2>1. /\ UNCHANGED applyVars
        /\ calls'[d] = calls[d] \cup {} /\ inbox'[d] \subseteq inbox[d] \cup {QuitMsg}
    BY <1>7, <1>a DEF DeleteIgnoresError, ApplyKey, Handle, Press, Framed
  <2>2. DeleteWork(d)' \subseteq DeleteWork(d)
    BY <2>1 DEF DeleteWork, QuitMsg, Msg
  <2>9. DeleteTyped(d)'
    BY <1>a, <2>1, <2>2, DeleteFewer
  <2> QED
    BY <1>a, <1>g, <2>1, <2>9
<1>8. CASE program[d] = "delete"
  <2>1. \/ InitDelete(d) \/ GetTarget(d) \/ DeleteTarget(d) \/ DeleteObject(d)
        \/ \E m \in inbox[d] : Deleted(d, m)
        \/ DeleteIgnoresError(d) \/ ApplyKey(d)
    BY <1>8 DEF Applies, ApplyAnswers, ApplyUpdates, ApplyObject, ManifestsFound, ApplyError,
       Applied, Runs
  <2> QED
    BY <1>2, <1>3, <1>4, <1>5, <1>6, <1>7, <1>8, <2>1
<1> QED
  BY <1>1, <1>8 DEF Applies

LEMMA ApplyTypedStep ==
  ASSUME ApplyInv, ApplyTyped, [Next]_vars
  PROVE  ApplyTyped'
<1>a. Framed /\ \A c \in Clients : DeleteTyped(c)
  BY DEF ApplyInv, ApplyTyped
<1>b. ASSUME NEW c \in Clients, program' = program, Same(c), deleted' = deleted
      PROVE  DeleteTyped(c)'
  BY <1>a, <1>b, DeleteFewer DEF Same, DeleteWork
<1>1. CASE Outside
  BY <1>1, <1>b DEF Outside, Same, ApplyTyped
<1>2. ASSUME NEW d \in Clients, Local(d),
             Shared(d) \/ Gets(d) \/ RunsOn(d) \/ ServesOn(d) \/ NotesOn(d)
      PROVE  ApplyTyped'
  <2>1. UNCHANGED applyVars /\ program' = program
    BY <1>2 DEF Shared, Gets, RunsOn, ServesOn, NotesOn, Local
  <2>2. \A c \in Clients \ {d} : DeleteTyped(c)'
    BY <1>2, <1>b, <2>1 DEF Local
  <2>3. program[d] = "delete" => DeleteWork(d)' \subseteq DeleteWork(d)
    <3>1. SUFFICES ASSUME program[d] = "delete"
                   PROVE  DeleteWork(d)' \subseteq DeleteWork(d)
      OBVIOUS
    <3>2. FindManifests(d) \/ Quit(d)
      BY <1>2, <3>1 DEF Shared, Gets, RunsOn, ServesOn, NotesOn, SelectManifest
    <3>3. calls'[d] \subseteq calls[d] /\ inbox'[d] \subseteq inbox[d] \cup {Msg("found"), Error}
      BY <1>a, <3>2 DEF FindManifests, Quit, Answer, Framed
    <3> QED
      BY <3>3 DEF DeleteWork, Msg, Error
  <2>4. DeleteTyped(d)'
    BY <1>a, <2>1, <2>3, DeleteFewer
  <2> QED
    BY <2>1, <2>2, <2>4 DEF ApplyTyped
<1> QED
  BY <1>a, <1>1, <1>2, ApplyOwnTyped, StepCases

LEMMA RunTypedStep ==
  ASSUME Framed, RunTyped, \A c \in Clients : Tidy(c), [Next]_vars
  PROVE  RunTyped'
<1>1. CASE Outside
  <2>1. ready' \subseteq DOMAIN owner /\ broken' \subseteq DOMAIN owner \ ready'
    BY <1>1 DEF Outside, BecomeReady, JobFails, Unfinished, Exists, RunTyped
  <2> QED
    BY <1>1, <2>1 DEF Outside, RunTyped
<1>2. ASSUME NEW d \in Clients, Shared(d) \/ Applies(d) \/ Gets(d) \/ ServesOn(d) \/ NotesOn(d)
      PROVE  RunTyped'
  <2>1. UNCHANGED runVars
    BY <1>2 DEF Shared, Applies, Gets, ServesOn, NotesOn
  <2> QED
    BY <2>1 DEF RunTyped
<1> QED
  BY <1>1, <1>2, RunOwnTyped, StepCases

(***************************************************************************)
(* `sub get`: an event on a watch is about an object of the watch's kind.  *)
(***************************************************************************)
Versions == 0 .. MaxChanges + 1
EventsOf(k) == [type : {"added", "modified", "deleted"},
                object : {o \in Listed : KindOf[o] = k}, version : Versions]

GetTyped ==
    /\ objects \in [Listed -> Versions]
    /\ changes \in 1 .. MaxChanges + 1
    /\ watches \in [Clients -> [Kinds -> {"unopened", "open", "closed"}]]
    /\ DOMAIN events = Clients
    /\ \A c \in Clients : /\ DOMAIN events[c] = Kinds
                          /\ \A k \in Kinds : events[c][k] \in Seq(EventsOf(k))
    /\ listed \in [Clients -> [Listed -> Versions]]

LEMMA SequenceOfSet ==
  ASSUME NEW S, IsFiniteSet(S)
  PROVE  SetToSeq(S) \in [1 .. Cardinality(S) -> S]
<1>1. PICK f \in [1 .. Cardinality(S) -> S] : IsInjective(f)
  BY FS_CardinalityType DEF ExistsBijection, Bijection, Injection, IsInjective
<1> QED
  BY <1>1 DEF SetToSeq

LEMMA ChangeTyped ==
  ASSUME GetTyped, NEW o \in Listed, ChangeObject(o)
  PROVE  GetTyped'
<1>1. PICK version \in {0, changes + 1}, type \in {"added", "modified", "deleted"} :
         /\ objects' = [objects EXCEPT ![o] = version]
         /\ Publish(o, Event(type, o))
  BY DEF ChangeObject
<1>2. changes' \in 1 .. MaxChanges + 1 /\ version \in Versions
  BY <1>1, GetAssumption DEF ChangeObject, GetTyped, Versions
<1>3. objects' \in [Listed -> Versions] /\ objects'[o] = version
  BY <1>1, <1>2 DEF GetTyped
<1>4. Event(type, o) \in EventsOf(KindOf[o]) /\ KindOf[o] \in Kinds
  BY <1>1, <1>2, <1>3, GetAssumption DEF Event, EventsOf
<1>5. ASSUME NEW c \in Clients
      PROVE  DOMAIN events'[c] = Kinds /\ \A k \in Kinds : events'[c][k] \in Seq(EventsOf(k))
  <2>1. \/ events'[c] = events[c]
        \/ events'[c] = [events[c] EXCEPT ![KindOf[o]] = Append(events[c][KindOf[o]], Event(type, o))]
    BY <1>1 DEF Publish
  <2>2. Append(events[c][KindOf[o]], Event(type, o)) \in Seq(EventsOf(KindOf[o]))
    BY <1>4, AppendProperties DEF GetTyped
  <2> QED
    BY <2>1, <2>2 DEF GetTyped
<1> QED
  BY <1>1, <1>2, <1>3, <1>5 DEF GetTyped, ChangeObject, Publish

LEMMA OpenWatchTyped ==
  ASSUME GetTyped, NEW d \in Clients, OpenWatch(d)
  PROVE  GetTyped'
<1>1. PICK k : k = KindList[Cardinality({x \in Kinds : watches[d][x] # "unopened"}) + 1]
  OBVIOUS
<1>2. PICK there : there = {o \in Listed : KindOf[o] = k /\ objects[o] # 0}
  OBVIOUS
<1>3. PICK first : first = [i \in 1 .. Cardinality(there) |-> Event("added", SetToSeq(there)[i])]
  OBVIOUS
<1>4. /\ objects' = objects /\ changes' = changes /\ listed' = listed
      /\ watches' = [watches EXCEPT ![d][k] = "open"]
      /\ events' = [events EXCEPT ![d][k] = first]
  BY <1>1, <1>2, <1>3 DEF OpenWatch
<1>5. IsFiniteSet(there)
  BY <1>2, GetAssumption, FS_Subset
<1>6. ASSUME NEW i \in 1 .. Cardinality(there)
      PROVE  Event("added", SetToSeq(there)[i]) \in EventsOf(k)
  <2>1. PICK o \in there : o = SetToSeq(there)[i]
    BY <1>5, SequenceOfSet
  <2>2. o \in Listed /\ KindOf[o] = k /\ objects'[o] \in Versions
    BY <1>2, <1>4, <2>1 DEF GetTyped
  <2> QED
    BY <2>1, <2>2 DEF Event, EventsOf
<1>7. first \in Seq(EventsOf(k))
  <2>1. Cardinality(there) \in Nat
    BY <1>5, FS_CardinalityType
  <2>2. first \in [1 .. Cardinality(there) -> EventsOf(k)]
    BY <1>3, <1>6
  <2> QED
    BY <2>1, <2>2
<1>8. /\ watches' \in [Clients -> [Kinds -> {"unopened", "open", "closed"}]]
      /\ DOMAIN events' = Clients
  BY <1>4 DEF GetTyped
<1>9. ASSUME NEW c \in Clients
      PROVE  DOMAIN events'[c] = Kinds /\ \A x \in Kinds : events'[c][x] \in Seq(EventsOf(x))
  <2>1. events'[c] = events[c] \/ events'[c] = [events[c] EXCEPT ![k] = first]
    BY <1>4 DEF GetTyped
  <2> QED
    BY <1>7, <2>1 DEF GetTyped
<1> QED
  BY <1>4, <1>8, <1>9 DEF GetTyped

LEMMA WatchMsgTyped ==
  ASSUME GetTyped, NEW d \in Clients, NEW k \in Kinds, WatchMsg(d, k)
  PROVE  GetTyped'
<1>1. PICK event : event = Head(events[d][k])
  OBVIOUS
<1>2. event \in EventsOf(k) /\ Tail(events[d][k]) \in Seq(EventsOf(k))
  BY <1>1, HeadTailProperties DEF GetTyped, WatchMsg
<1>3. PICK version \in Versions : listed' = [listed EXCEPT ![d][event.object] = version]
  <2>1. event.version \in Versions /\ 0 \in Versions
    BY <1>2, GetAssumption DEF EventsOf, Versions
  <2> QED
    BY <1>1, <2>1 DEF WatchMsg
<1>4. /\ events' = [events EXCEPT ![d][k] = Tail(events[d][k])]
      /\ UNCHANGED <<objects, changes, watches>>
  BY DEF WatchMsg
<1>5. listed' \in [Clients -> [Listed -> Versions]]
  BY <1>3 DEF GetTyped
<1>6. ASSUME NEW c \in Clients
      PROVE  DOMAIN events'[c] = Kinds /\ \A x \in Kinds : events'[c][x] \in Seq(EventsOf(x))
  <2>1. events'[c] = events[c] \/ events'[c] = [events[c] EXCEPT ![k] = Tail(events[d][k])]
    BY <1>4 DEF GetTyped
  <2> QED
    BY <1>2, <2>1 DEF GetTyped
<1> QED
  BY <1>4, <1>5, <1>6 DEF GetTyped

LEMMA GetTypedStep ==
  ASSUME Framed, GetTyped, [Next]_vars
  PROVE  GetTyped'
<1>u. UNCHANGED getVars => GetTyped'
  BY DEF GetTyped
<1>1. CASE Outside
  BY <1>1, <1>u, ChangeTyped DEF Outside
<1>2. ASSUME NEW d \in Clients, Shared(d) \/ Applies(d) \/ RunsOn(d) \/ ServesOn(d) \/ NotesOn(d)
      PROVE  GetTyped'
  BY <1>2, <1>u DEF Shared, Applies, RunsOn, ServesOn, NotesOn
<1>3. ASSUME NEW d \in Clients, Gets(d)
      PROVE  GetTyped'
  <2>1. CASE GetError(d) \/ GetKey(d) \/ OpenFails(d)
    BY <2>1, <1>u DEF GetError, GetKey, OpenFails
  <2>2. ASSUME NEW k \in Kinds, CloseWatch(d, k)
        PROVE  GetTyped'
    BY <2>2 DEF CloseWatch, GetTyped
  <2> QED
    BY <1>3, <2>1, <2>2, OpenWatchTyped, WatchMsgTyped DEF Gets, GetUpdates
<1> QED
  BY <1>1, <1>2, <1>3, StepCases

NotebookTyped == /\ notebook \in {"none", "running", "suspended", "deleted"}
                 /\ nbReady \in BOOLEAN /\ nbBroken \in BOOLEAN

LEMMA NotebookTypedStep ==
  ASSUME Framed, NotebookTyped, [Next]_vars
  PROVE  NotebookTyped'
<1>u. UNCHANGED notebookCloud => NotebookTyped'
  BY DEF NotebookTyped
<1>1. CASE Outside
  BY <1>1 DEF Outside, NotebookTyped
<1>2. ASSUME NEW d \in Clients, Shared(d) \/ Applies(d) \/ Gets(d) \/ RunsOn(d) \/ ServesOn(d)
      PROVE  NotebookTyped'
  BY <1>2, <1>u DEF Shared, Applies, Gets, RunsOn, ServesOn
<1>3. ASSUME NEW d \in Clients, NotesOn(d)
      PROVE  NotebookTyped'
  <2>1. CASE NotebookUpdates(d) \/ \E key \in NotebookKeys : NotebookKey(d, key)
    BY <2>1, <1>u
    DEF NotebookUpdates, NotebookKey, NotebookSelected, NotebookTarball, NotebookApplied,
        NotebookUploaded, NotebookReady, NotebookError, NotebookLeft
  <2>2. CASE PrepareNotebook(d) \/ UploadNotebook(d) \/ WaitNotebook(d) \/ SyncFails(d)
             \/ \E tarball \in BOOLEAN : Cleanup(d, tarball)
    BY <2>2, <1>u DEF PrepareNotebook, UploadNotebook, WaitNotebook, SyncFails, Cleanup
  <2>3. CASE ApplyNotebook(d)
    <3>1. /\ notebook' \in {notebook, "running"}
          /\ nbReady' \in BOOLEAN /\ nbBroken' \in {nbBroken, FALSE}
      BY <2>3 DEF ApplyNotebook
    <3> QED
      BY <3>1 DEF NotebookTyped
  <2>4. ASSUME NEW how \in {"suspended", "deleted"}, NEW when \in Whens, LeaveNotebook(d, how, when)
        PROVE  NotebookTyped'
    BY <2>4 DEF LeaveNotebook, NotebookTyped
  <2> QED
    BY <1>3, <2>1, <2>2, <2>3, <2>4 DEF NotesOn, NotebookAnswers
<1> QED
  BY <1>1, <1>2, <1>3, StepCases

(***************************************************************************)
(* All of it together.                                                     *)
(***************************************************************************)
TypeInv == /\ program \in Sessions
           /\ Counted
           /\ \A c \in Clients : Tidy(c)
           /\ ApplyInv /\ ApplyTyped
           /\ GetTyped /\ RunTyped /\ ServeTyped
           /\ NotebookInv /\ NotebookTyped

LEMMA TypeInvInit ==
  ASSUME Init
  PROVE  TypeInv
<1>1. program \in Sessions /\ faults = 0 /\ keys = 0
  BY DEF Init, RuntimeInit
<1>2. Counted
  BY <1>1, RuntimeAssumption DEF Counted
<1>3. ASSUME NEW c \in Clients
      PROVE  /\ calls[c] \in {{}, {Cmd("find")}, {Cmd("watch")}}
             /\ inbox[c] = IF program[c] = "delete" THEN {Msg("deleteInit")} ELSE {}
             /\ program[c] = "delete" => calls[c] = {}
  BY DEF Init, RuntimeInit
<1>4. \A c \in Clients : Tidy(c)
  BY <1>3, Shapes DEF Tidy
<1>5. ApplyTyped
  <2>1. cluster \subseteq Objects /\ deleted = [c \in Clients |-> 0]
    BY ApplyAssumption DEF Init, ApplyInit, Objects
  <2>2. ASSUME NEW c \in Clients
        PROVE  DeleteTyped(c)
    BY <1>3, <2>1, <2>2 DEF DeleteTyped, DeleteWork
  <2> QED
    BY <2>1, <2>2 DEF ApplyTyped
<1>6. GetTyped
  <2>1. 0 \in Versions /\ 1 \in Versions /\ 1 \in 1 .. MaxChanges + 1
    BY GetAssumption DEF Versions
  <2>2. \A k : << >> \in Seq(EventsOf(k))
    OBVIOUS
  <2> QED
    BY <2>1, <2>2 DEF Init, GetInit, GetTyped
<1>7. RunTyped
  <2>1. PICK taken \in SUBSET (0 .. MaxVersion) : owner = [v \in taken |-> "other"]
    BY DEF Init, RunInit
  <2>2. MaxVersion \in Nat /\ DOMAIN owner \subseteq 0 .. MaxVersion
    BY <2>1, VersionAssumption
  <2> QED
    BY <2>1, <2>2 DEF Init, RunInit, RunTyped, Stages
<1>8. NotebookTyped
  BY DEF Init, NotebookInit, NotebookTyped
<1> QED
  BY <1>1, <1>2, <1>4, <1>5, <1>6, <1>7, <1>8, ApplyInvInit, NotebookInvInit, ServeInitTyped
  DEF TypeInv

LEMMA TypeInvStep ==
  ASSUME TypeInv, [Next]_vars
  PROVE  TypeInv'
<1>1. Framed
  BY DEF TypeInv, ApplyInv
<1>2. program' \in Sessions /\ Counted' /\ \A c \in Clients : Tidy(c)'
  <2>1. CASE Outside
    <3>1. faults' \in 0 .. MaxFaults
      BY <2>1, RuntimeAssumption DEF Outside, NoFault, Fault, TypeInv, Counted
    <3> QED
      BY <2>1, <3>1 DEF Outside, TypeInv, Counted, Tidy
  <2>2. ASSUME NEW d \in Clients, Local(d),
               Shared(d) \/ Applies(d) \/ Gets(d) \/ RunsOn(d) \/ ServesOn(d) \/ NotesOn(d)
        PROVE  program' \in Sessions /\ Counted' /\ \A c \in Clients : Tidy(c)'
    <3>1. Tidy(d)' /\ Counted'
      BY <1>1, <2>2, SharedTidy, ApplyTidy, GetTidy, RunTidy, ServeTidy, NotebookTidy, NextIsNat
      DEF TypeInv
    <3>2. \A c \in Clients \ {d} : Tidy(c)'
      BY <2>2 DEF Local, Same, TypeInv, Tidy
    <3> QED
      BY <2>2, <3>1, <3>2 DEF Local, TypeInv
  <2> QED
    BY <1>1, <2>1, <2>2, StepCases
<1> QED
  BY <1>1, <1>2, ApplyInvStep, ApplyTypedStep, GetTypedStep, RunTypedStep, ServeTypedStep,
     NotebookInvStep, NotebookTypedStep
  DEF TypeInv

(* In whatever order messages arrive and calls fail, every variable keeps  *)
(* its type.  Beyond the sets of values it says that `sub delete` counts   *)
(* one deletion (DeleteModel.Update, delete.go), that the numbers which    *)
(* `sub run` puts into names are numbers (nextModelVersion, common.go),    *)
(* and that a watch has events of its own kind only (watchCmd, get.go).    *)
THEOREM TuiTypeCorrect == Spec => []TypeOK
<1>1. Init => TypeInv
  BY TypeInvInit
<1>2. TypeInv /\ [Next]_vars => TypeInv'
  BY TypeInvStep
<1>3. TypeInv => TypeOK
  <2>1. SUFFICES ASSUME TypeInv PROVE TypeOK
    OBVIOUS
  <2>2. RuntimeTypeOK
    BY <2>1 DEF TypeInv, ApplyInv, Framed, Counted, Tidy, WellCalled, WellSent, RuntimeTypeOK
  <2>3. ApplyTypeOK
    BY <2>1 DEF TypeInv, ApplyInv, ApplyTyped, DeleteTyped, ApplyTypeOK
  <2>4. GetTypeOK
    <3>1. ASSUME NEW c \in Clients, NEW k \in Kinds, NEW i \in DOMAIN events[c][k]
          PROVE  KindOf[events[c][k][i].object] = k
      <4>1. events[c][k] \in Seq(EventsOf(k))
        BY <2>1 DEF TypeInv, GetTyped
      <4>2. events[c][k][i] \in EventsOf(k)
        BY <4>1, ElementOfSeq, LenProperties
      <4> QED
        BY <4>2 DEF EventsOf
    <3> QED
      BY <2>1, <3>1 DEF TypeInv, GetTyped, GetTypeOK, Versions
  <2>5. RunTypeOK
    BY <2>1 DEF TypeInv, RunTyped, RunTypeOK, Stages
  <2>6. ServeTypeOK
    <3>1. ASSUME NEW c \in Clients, NEW i \in DOMAIN podEvents[c]
          PROVE  podEvents[c][i].pod \in Pods
      <4>1. podEvents[c] \in Seq(PodEvents)
        BY <2>1 DEF TypeInv, ServeTyped, PodsTyped
      <4>2. podEvents[c][i] \in PodEvents
        BY <4>1, ElementOfSeq, LenProperties
      <4> QED
        BY <4>2 DEF PodEvents
    <3> QED
      BY <2>1, <3>1
      DEF TypeInv, ServeTyped, PodsTyped, PodsTypeOK, ServeTypeOK, PodStates, Entries, Servings
  <2>7. NotebookTypeOK
    BY <2>1 DEF TypeInv, NotebookInv, NotebookTyped, NotebookTypeOK, Notes
  <2> QED
    BY <2>2, <2>3, <2>4, <2>5, <2>6, <2>7 DEF TypeOK
<1> QED
  BY <1>1, <1>2, <1>3, PTL DEF Spec
=============================================================================
