----------------------------- MODULE SyncProofs -----------------------------
(***************************************************************************)
(* The safety of the file synchronisation: what version.txt vouches for,   *)
(* and what the local directory has when no event is under way.            *)
(***************************************************************************)
EXTENDS NotebookSync, SequenceTheorems, TLAPS

USE DEF cacheVars, syncVars, vars, ReaderOnly

(* A run that writes tools has an architecture left to download.           *)
TypeInv ==
  /\ TypeOK
  /\ \A r \in Runs : step[r] = "write" => done[r] < Len(ArchList)

\* The constants, as the proofs use them.
LEMMA Constants ==
  /\ Len(ArchList) \in Nat
  /\ \A i \in 1 .. Len(ArchList) : ArchList[i] \in Archs
  /\ \A a \in Archs : \E i \in 1 .. Len(ArchList) : ArchList[i] = a
BY CacheAssumption DEF Archs


CacheTyped ==
  /\ CacheTypeOK
  /\ \A r \in Runs : step[r] = "write" => done[r] < Len(ArchList)

LEMMA CacheTypeStep ==
  ASSUME CacheTyped, NEW r \in Runs, CacheStep(r)
  PROVE  CacheTyped'
<1>1. CASE MakeCacheDir(r) \/ CheckVersion(r) \/ CacheFails(r)
  <2>1. \E s \in CacheSteps \ {"write"} : Go(r, s)
    BY <1>1 DEF MakeCacheDir, CheckVersion, CacheFails, CacheSteps
  <2>2. spoiled' \in BOOLEAN
    BY <1>1 DEF CacheTyped, CacheTypeOK, MakeCacheDir, CheckVersion, CacheFails
  <2>3. dirs' \subseteq Archs \cup {"root"} /\ UNCHANGED <<version, tools, done>>
    BY <1>1 DEF CacheTyped, CacheTypeOK, MakeCacheDir, CheckVersion, CacheFails
  <2>4. /\ step' \in [Runs -> CacheSteps]
        /\ \A q \in Runs : step'[q] = "write" => step[q] = "write"
    BY <2>1 DEF CacheTyped, CacheTypeOK, Go
  <2> QED
    BY <2>2, <2>3, <2>4 DEF CacheTyped, CacheTypeOK
<1>2. CASE RemoveVersion(r) \/ RemoveRoot(r) \/ \E a \in Archs : RemoveTools(r, a)
  <2>1. CASE RemoveVersion(r)
    BY <2>1 DEF CacheTyped, CacheTypeOK, RemoveVersion
  <2>2. ASSUME NEW a \in Archs, RemoveTools(r, a)
        PROVE  CacheTyped'
    <3>1. tools' \in [Archs -> [by : Runs \cup {None}, whole : BOOLEAN]]
      BY <2>2 DEF CacheTyped, CacheTypeOK, RemoveTools, NoTools
    <3> QED
      BY <2>2, <3>1 DEF CacheTyped, CacheTypeOK, RemoveTools
  <2>3. CASE RemoveRoot(r)
    BY <2>3 DEF CacheTyped, CacheTypeOK, RemoveRoot, Go, CacheSteps
  <2> QED
    BY <1>2, <2>1, <2>2, <2>3
<1>3. CASE OpenTools(r)
  <2>1. done[r] + 1 \in 1 .. Len(ArchList)
    BY <1>3, Constants DEF CacheTyped, CacheTypeOK, OpenTools
  <2>2. Downloading(r) \in Archs
    BY <2>1, Constants DEF Downloading
  <2> QED
    BY <1>3, <2>2, Constants DEF CacheTyped, CacheTypeOK, OpenTools, Go, CacheSteps
<1>4. CASE WriteTools(r)
  <2>1. done[r] + 1 \in 1 .. Len(ArchList)
    BY <1>4, Constants DEF CacheTyped, CacheTypeOK, WriteTools
  <2>2. done' \in [Runs -> 0 .. Len(ArchList)]
    BY <1>4, <2>1 DEF CacheTyped, CacheTypeOK, WriteTools
  <2>3. tools' \in [Archs -> [by : Runs \cup {None}, whole : BOOLEAN]]
    <3> DEFINE a == Downloading(r)
    <3>1. CASE tools[a].by # r
      BY <1>4, <3>1 DEF CacheTyped, CacheTypeOK, WriteTools
    <3>2. CASE tools[a].by = r
      <4>1. tools' = [tools EXCEPT ![a] = [tools[a] EXCEPT !.whole = TRUE]]
        BY <1>4, <3>2 DEF WriteTools
      <4>2. a \in Archs
        BY <2>1, Constants DEF Downloading
      <4>3. tools[a] \in [by : Runs \cup {None}, whole : BOOLEAN]
        BY <4>2 DEF CacheTyped, CacheTypeOK
      <4> QED
        BY <4>1, <4>3 DEF CacheTyped, CacheTypeOK
    <3> QED
      BY <3>1, <3>2
  <2> QED
    BY <1>4, <2>2, <2>3 DEF CacheTyped, CacheTypeOK, WriteTools, Go, CacheSteps
<1>5. CASE WriteVersion(r)
  BY <1>5 DEF CacheTyped, CacheTypeOK, WriteVersion, Go, CacheSteps
<1> QED
  BY <1>1, <1>2, <1>3, <1>4, <1>5 DEF CacheStep

SyncTyped ==
  /\ remote \in [Files -> 0 .. MaxEdits + 1]
  /\ local \in [Files -> 0 .. MaxEdits + 1]
  /\ watcher \in {"none", "whole", "broken"}
  /\ exec \in {"idle", "running", "failed", "ended"}
  /\ stream \in Seq(Events) /\ buffer \in Seq(Events)
  /\ reader \in [at : {"none", "scan", "ended"}]
           \cup [at : {"copy"}, file : Watched, content : 1 .. MaxEdits + 1]
  /\ edits \in 1 .. MaxEdits + 1 /\ misses \in 0 .. MaxMisses
  /\ missed \in [Files -> BOOLEAN]

LEMMA TypeInit == Init => CacheTyped /\ SyncTyped
<1> SUFFICES ASSUME Init PROVE CacheTyped /\ SyncTyped
  OBVIOUS
<1>1. CacheTyped
  <2>1. tools \in [Archs -> [by : Runs \cup {None}, whole : BOOLEAN]]
    BY DEF Init, CacheInit, NoTools
  <2>2. done \in [Runs -> 0 .. Len(ArchList)]
    BY Constants DEF Init, CacheInit
  <2>3. step \in [Runs -> CacheSteps] /\ \A r \in Runs : step[r] # "write"
    BY DEF Init, CacheInit, CacheSteps
  <2> QED
    BY <2>1, <2>2, <2>3 DEF Init, CacheInit, CacheTyped, CacheTypeOK
<1>2. remote \in [Files -> 0 .. MaxEdits + 1] /\ local = remote
  BY SyncAssumption DEF Init
<1>3. <<>> \in Seq(Events)
  OBVIOUS
<1>4. SyncTyped
  BY <1>2, <1>3, SyncAssumption DEF Init, SyncTyped
<1> QED
  BY <1>1, <1>4

LEMMA TypeParts == TypeInv <=> CacheTyped /\ SyncTyped
BY DEF TypeInv, TypeOK, CacheTyped, SyncTyped

\* What the watcher prints of a change is a sequence of events.
LEMMA SeenTypes ==
  ASSUME NEW op \in {"changed", "gone"}, NEW f
  PROVE  Seen([op |-> op, file |-> f]) \in Seq(Events)
<1> DEFINE event == [op |-> op, file |-> f]
<1>1. CASE f \in Watched
  <2>1. event \in Events
    BY <1>1 DEF Events
  <2>2. Seen(event) = <<event>>
    BY <1>1 DEF Seen
  <2> QED
    BY <2>1, <2>2
<1>2. CASE f \notin Watched
  <2>1. Seen(event) = <<>>
    BY <1>2 DEF Seen
  <2> QED
    BY <2>1
<1> QED
  BY <1>1, <1>2

LEMMA EmitTypes ==
  ASSUME SyncTyped, NEW seen \in Seq(Events), Emit(seen)
  PROVE  stream' \in Seq(Events) /\ missed' \in [Files -> BOOLEAN]
<1>1. stream \o seen \in Seq(Events)
  BY DEF SyncTyped
<1> QED
  BY <1>1 DEF Emit, SyncTyped

LEMMA EditTypes ==
  ASSUME SyncTyped, Edited, stream' \in Seq(Events), missed' \in [Files -> BOOLEAN],
         remote' \in [Files -> 0 .. MaxEdits + 1]
  PROVE  SyncTyped'
<1>1. edits + 1 \in 1 .. MaxEdits + 1
  BY SyncAssumption DEF SyncTyped, Edited
<1> QED
  BY <1>1 DEF SyncTyped, Edited

LEMMA PodTypeStep ==
  ASSUME SyncTyped, Pod
  PROVE  SyncTyped'
<1>1. ASSUME NEW f \in Files, WriteFile(f)
      PROVE  SyncTyped'
  <2>1. stream' \in Seq(Events) /\ missed' \in [Files -> BOOLEAN]
    BY <1>1, SeenTypes, EmitTypes DEF WriteFile, Changed
  <2>4. remote' \in [Files -> 0 .. MaxEdits + 1]
    BY <1>1, SyncAssumption DEF WriteFile, Edited, SyncTyped
  <2> QED
    BY <1>1, <2>1, <2>4, EditTypes DEF WriteFile
<1>2. ASSUME NEW f \in Files, RemoveFile(f)
      PROVE  SyncTyped'
  <2>1. stream' \in Seq(Events) /\ missed' \in [Files -> BOOLEAN]
    BY <1>2, SeenTypes, EmitTypes DEF RemoveFile, Gone
  <2>4. remote' \in [Files -> 0 .. MaxEdits + 1]
    BY <1>2, SyncAssumption DEF RemoveFile, Edited, SyncTyped
  <2> QED
    BY <1>2, <2>1, <2>4, EditTypes DEF RemoveFile
<1>3. ASSUME NEW f \in Files, NEW g \in Files, RenameFile(f, g)
      PROVE  SyncTyped'
  <2>1. Seen(Gone(f)) \in Seq(Events) /\ Seen(Changed(g)) \in Seq(Events)
    BY SeenTypes DEF Gone, Changed
  <2>2. Seen(Gone(f)) \o Seen(Changed(g)) \in Seq(Events)
    BY <2>1
  <2>3. stream' \in Seq(Events) /\ missed' \in [Files -> BOOLEAN]
    BY <1>3, <2>2, EmitTypes DEF RenameFile
  <2>4. remote' \in [Files -> 0 .. MaxEdits + 1]
    <3>1. remote[f] \in 0 .. MaxEdits + 1
      BY DEF SyncTyped
    <3>2. PICK between \in [Files -> 0 .. MaxEdits + 1] : between = [remote EXCEPT ![f] = 0]
      <4>1. 0 \in 0 .. MaxEdits + 1
        BY SyncAssumption
      <4> QED
        BY <4>1 DEF SyncTyped
    <3>3. remote' = [between EXCEPT ![g] = remote[f]]
      BY <1>3, <3>2 DEF RenameFile
    <3> QED
      BY <3>1, <3>2, <3>3
  <2> QED
    BY <1>3, <2>3, <2>4, EditTypes DEF RenameFile
<1> QED
  BY <1>1, <1>2, <1>3 DEF Pod

LEMMA ReaderTypeStep ==
  ASSUME SyncTyped, Reader
  PROVE  SyncTyped'
<1>1. ASSUME NEW n \in 1 .. Len(stream), FillBuffer(n)
      PROVE  SyncTyped'
  <2>1. SubSeq(stream, 1, n) \in Seq(Events) /\ SubSeq(stream, n + 1, Len(stream)) \in Seq(Events)
    BY DEF SyncTyped
  <2> QED
    BY <1>1, <2>1 DEF SyncTyped, FillBuffer
<1>2. CASE BeginCopy \/ RemoveLocal \/ FailRemove
  <2> DEFINE f == Head(buffer).file
  <2>1. buffer # <<>> /\ buffer' = Tail(buffer) /\ stream' = stream
    BY <1>2 DEF BeginCopy, RemoveLocal, FailRemove, Take
  <2>2. Head(buffer) \in Events /\ buffer' \in Seq(Events)
    BY <2>1, HeadTailProperties DEF SyncTyped
  <2>3. f \in Watched /\ f \in Files
    BY <2>2 DEF Events, Watched
  <2> HIDE DEF f
  <2>4. CASE BeginCopy
    <3>1. remote[f] \in 0 .. MaxEdits + 1
      BY <2>3 DEF SyncTyped
    <3>2. reader' = IF remote[f] = 0 THEN Scanning
                    ELSE [at |-> "copy", file |-> f, content |-> remote[f]]
      BY <2>4 DEF BeginCopy, f
    <3>3. CASE remote[f] = 0
      BY <2>1, <2>2, <2>4, <3>2, <3>3 DEF SyncTyped, BeginCopy, Scanning
    <3>4. CASE remote[f] # 0
      <4>1. remote[f] \in 1 .. MaxEdits + 1
        BY <3>1, <3>4, SyncAssumption
      <4> QED
        BY <2>1, <2>2, <2>3, <2>4, <3>2, <3>4, <4>1 DEF SyncTyped, BeginCopy
    <3> QED
      BY <3>3, <3>4
  <2>5. CASE RemoveLocal
    <3>1. local' = [local EXCEPT ![f] = 0] /\ missed' = [missed EXCEPT ![f] = FALSE]
      BY <2>5 DEF RemoveLocal, f
    <3>2. local' \in [Files -> 0 .. MaxEdits + 1]
      <4>1. 0 \in 0 .. MaxEdits + 1
        BY SyncAssumption
      <4>2. local \in [Files -> 0 .. MaxEdits + 1]
        BY DEF SyncTyped
      <4> QED
        BY <3>1, <4>1, <4>2
    <3>3. missed' \in [Files -> BOOLEAN]
      BY <3>1 DEF SyncTyped
    <3> QED
      BY <2>1, <2>2, <2>5, <3>2, <3>3 DEF SyncTyped, RemoveLocal
  <2>6. CASE FailRemove
    <3>1. misses' \in 0 .. MaxMisses
      BY <2>6, SyncAssumption DEF SyncTyped, FailRemove
    <3>2. missed' \in [Files -> BOOLEAN]
      BY <2>6 DEF SyncTyped, FailRemove
    <3> QED
      BY <2>1, <2>2, <2>6, <3>1, <3>2 DEF SyncTyped, FailRemove
  <2> QED
    BY <1>2, <2>4, <2>5, <2>6
<1>3. CASE EndCopy
  <2>1. reader.file \in Files /\ reader.content \in 0 .. MaxEdits + 1
    BY <1>3, SyncAssumption DEF SyncTyped, EndCopy, Watched
  <2>2. local' \in [Files -> 0 .. MaxEdits + 1] /\ missed' \in [Files -> BOOLEAN]
    BY <1>3, <2>1 DEF SyncTyped, EndCopy
  <2> QED
    BY <1>3, <2>2 DEF SyncTyped, EndCopy, Scanning
<1>4. CASE FailCopy
  <2>1. misses' \in 0 .. MaxMisses
    BY <1>4, SyncAssumption DEF SyncTyped, FailCopy
  <2>2. missed' \in [Files -> BOOLEAN]
    BY <1>4 DEF SyncTyped, FailCopy
  <2> QED
    BY <1>4, <2>1, <2>2 DEF SyncTyped, FailCopy, Scanning
<1>5. CASE EndScan
  BY <1>5 DEF SyncTyped, EndScan
<1> QED
  BY <1>1, <1>2, <1>3, <1>4, <1>5 DEF Reader

LEMMA MainTypeStep ==
  ASSUME CacheTyped, SyncTyped, Main
  PROVE  CacheTyped' /\ SyncTyped'
<1>1. CASE CopyWatcher
  BY <1>1 DEF CacheTyped, CacheTypeOK, SyncTyped, CopyWatcher, Go, CacheSteps
<1>2. CASE StartReader \/ StartWatcher
  BY <1>2 DEF CacheTyped, CacheTypeOK, SyncTyped, StartReader, StartWatcher, Scanning
<1>3. ASSUME NEW outcome \in {"failed", "ended"}, ExecReturns(outcome)
      PROVE  CacheTyped' /\ SyncTyped'
  BY <1>3 DEF CacheTyped, CacheTypeOK, SyncTyped, ExecReturns
<1> QED
  BY <1>1, <1>2, <1>3 DEF Main

LEMMA TypeStep == TypeInv /\ [Next]_vars => TypeInv'
<1> SUFFICES ASSUME CacheTyped, SyncTyped, [Next]_vars
             PROVE  CacheTyped' /\ SyncTyped'
  BY TypeParts DEF TypeInv, TypeOK, CacheTyped, SyncTyped
<1>1. CASE Cache
  BY <1>1, CacheTypeStep DEF Cache, SyncTyped
<1>2. CASE Pod
  BY <1>2, PodTypeStep
  DEF Pod, WriteFile, RemoveFile, RenameFile, Edited, CacheTyped, CacheTypeOK
<1>3. CASE Main
  BY <1>3, MainTypeStep
<1>4. CASE Reader
  BY <1>4, ReaderTypeStep
  DEF Reader, FillBuffer, BeginCopy, EndCopy, FailCopy, RemoveLocal, FailRemove, EndScan,
      CacheTyped, CacheTypeOK
<1>5. CASE UNCHANGED vars
  BY <1>5 DEF CacheTyped, CacheTypeOK, SyncTyped
<1> QED
  BY <1>1, <1>2, <1>3, <1>4, <1>5 DEF Next

\* Every variable keeps its type; in particular no event ever names a file
\* whose changes the watcher does not print.
THEOREM SyncTypeCorrect == Spec => []TypeOK
<1>1. TypeInv => TypeOK
  BY DEF TypeInv
<1>2. Init => TypeInv
  BY TypeInit, TypeParts
<1> QED
  BY <1>1, <1>2, TypeStep, PTL DEF Spec

(***************************************************************************)
(* The cache.  While no two runs overlap and no removal is cut off, the    *)
(* one run at work knows what is there: all of the release that            *)
(* version.txt names, or its own architectures up to the one it is at.     *)
(***************************************************************************)
Stocked(v) == \A a \in Archs : Complete(a, v)

RunKnows(r) ==
  /\ step[r] \in {"fetch", "write"} =>
       version = None /\ \A i \in 1 .. done[r] : Complete(ArchList[i], Release[r])
  /\ step[r] = "write" => tools[Downloading(r)].by = r
  /\ step[r] = "ready" => version = Release[r]

Unspoiled ==
  /\ \A r, q \in Runs : Busy(r) /\ Busy(q) => r = q
  /\ version # None /\ (\A r \in Runs : step[r] # "remove") => Stocked(version)
  /\ \A r \in Runs : RunKnows(r)

CacheInv ==
  /\ \A a \in Archs : tools[a].whole => tools[a].by \in Runs
  /\ \A r \in Runs : step[r] \in {"new", "check", "remove"} => done[r] = 0
  /\ spoiled \/ Unspoiled

LEMMA CacheInit0 == Init => CacheInv
BY DEF Init, CacheInit, CacheInv, NoTools, Unspoiled, RunKnows, Busy

\* What is to be shown of a step of the only run at work.
LEMMA OneAtWork ==
  ASSUME NEW r \in Runs,
         \A q \in Runs \ {r} : ~Busy(q) /\ step'[q] = step[q],
         RunKnows(r)',
         version' # None /\ step'[r] # "remove" => Stocked(version)'
  PROVE  Unspoiled'
<1>1. \A q \in Runs \ {r} : step'[q] \in {"new", "over"}
  BY DEF Busy
<1>2. \A q \in Runs \ {r} : RunKnows(q)'
  BY <1>1 DEF RunKnows
<1> QED
  BY <1>1, <1>2 DEF Unspoiled, Busy

\* A run that is at work alone, and the cache as it knows it.
LEMMA Alone ==
  ASSUME CacheInv, ~spoiled, NEW r \in Runs, Busy(r)
  PROVE  /\ \A q \in Runs \ {r} : ~Busy(q)
         /\ RunKnows(r)
         /\ version # None /\ step[r] # "remove" => Stocked(version)
BY DEF CacheInv, Unspoiled, Busy

LEMMA CacheStepKeeps ==
  ASSUME CacheTyped, CacheInv, NEW r \in Runs, CacheStep(r)
  PROVE  CacheInv'
<1>0. /\ step \in [Runs -> CacheSteps] /\ done \in [Runs -> 0 .. Len(ArchList)]
      /\ tools \in [Archs -> [by : Runs \cup {None}, whole : BOOLEAN]]
  BY DEF CacheTyped, CacheTypeOK
<1>1. \A s : Go(r, s) => /\ step'[r] = s
                         /\ \A q \in Runs \ {r} : step'[q] = step[q]
  BY <1>0 DEF Go
<1>2. CASE MakeCacheDir(r)
  <2>1. \A q \in Runs \ {r} : step'[q] = step[q]
    BY <1>1, <1>2 DEF MakeCacheDir
  <2>2. step'[r] = "check" /\ done' = done /\ step[r] = "new" /\ tools' = tools
    BY <1>1, <1>2 DEF MakeCacheDir
  <2>3. ~spoiled' => Unspoiled'
    <3> SUFFICES ASSUME ~spoiled' PROVE Unspoiled'
      OBVIOUS
    <3>1. ~spoiled /\ \A q \in Runs \ {r} : ~Busy(q)
      BY <1>2 DEF MakeCacheDir
    <3>2. \A q \in Runs : step[q] # "remove"
      BY <2>2, <3>1 DEF Busy
    <3>3. version # None => Stocked(version)
      BY <3>1, <3>2 DEF CacheInv, Unspoiled
    <3>4. version' = version /\ (Stocked(version)' <=> Stocked(version))
      BY <1>2 DEF MakeCacheDir, Stocked, Complete
    <3>5. RunKnows(r)'
      BY <2>2 DEF RunKnows
    <3> QED
      BY <2>1, <3>1, <3>3, <3>4, <3>5, OneAtWork
  <2> QED
    BY <2>1, <2>2, <2>3 DEF CacheInv
<1>3. CASE CheckVersion(r)
  <2>1. /\ \A q \in Runs \ {r} : step'[q] = step[q]
        /\ step'[r] = IF version = Release[r] THEN "ready" ELSE "remove"
        /\ step[r] = "check" /\ UNCHANGED <<version, tools, done, spoiled>>
    BY <1>1, <1>3 DEF CheckVersion
  <2>2. ~spoiled => Unspoiled'
    <3> SUFFICES ASSUME ~spoiled PROVE Unspoiled'
      OBVIOUS
    <3>1. /\ \A q \in Runs \ {r} : ~Busy(q)
          /\ version # None => Stocked(version)
      BY <2>1, Alone DEF Busy
    <3>2. RunKnows(r)'
      BY <2>1 DEF RunKnows
    <3>3. version' # None => Stocked(version)'
      BY <2>1, <3>1 DEF Stocked, Complete
    <3> QED
      BY <2>1, <3>1, <3>2, <3>3, OneAtWork
  <2> QED
    BY <2>1, <2>2 DEF CacheInv
<1>4. CASE RemoveVersion(r) \/ \E a \in Archs : RemoveTools(r, a)
  <2>1. step[r] = "remove" /\ UNCHANGED <<step, done, spoiled>>
    BY <1>4 DEF RemoveVersion, RemoveTools
  <2>2. \A a \in Archs : tools'[a].whole => tools'[a].by \in Runs
    <3>1. \A a \in Archs : tools[a].whole => tools[a].by \in Runs
      BY DEF CacheInv
    <3>2. \A a \in Archs : tools'[a] \in {tools[a], NoTools}
      BY <1>0, <1>4 DEF RemoveVersion, RemoveTools
    <3> QED
      BY <3>1, <3>2 DEF NoTools
  <2>3. ~spoiled => Unspoiled'
    BY <2>1, Alone, OneAtWork DEF Busy, RunKnows
  <2> QED
    BY <2>1, <2>2, <2>3 DEF CacheInv
<1>5. CASE RemoveRoot(r)
  <2>1. /\ \A q \in Runs \ {r} : step'[q] = step[q]
        /\ step'[r] = "fetch" /\ step[r] = "remove"
        /\ version = None /\ UNCHANGED <<version, tools, done, spoiled>>
    BY <1>1, <1>5 DEF RemoveRoot
  <2>2. RunKnows(r)'
    BY <2>1 DEF CacheInv, RunKnows
  <2>3. ~spoiled => Unspoiled'
    BY <2>1, <2>2, Alone, OneAtWork DEF Busy
  <2> QED
    BY <2>1, <2>3 DEF CacheInv
<1>6. CASE OpenTools(r)
  <2> DEFINE k == done[r] + 1
  <2>1. /\ \A q \in Runs \ {r} : step'[q] = step[q]
        /\ step'[r] = "write" /\ step[r] = "fetch"
        /\ UNCHANGED <<version, done, spoiled>>
    BY <1>1, <1>6 DEF OpenTools
  <2>2. k \in 1 .. Len(ArchList) /\ ArchList[k] \in Archs
    BY <1>0, <1>6, Constants DEF OpenTools
  <2>3. /\ tools'[ArchList[k]] = [by |-> r, whole |-> FALSE]
        /\ \A a \in Archs \ {ArchList[k]} : tools'[a] = tools[a]
    BY <1>0, <1>6, <2>2 DEF OpenTools, Downloading
  <2>4. \A a \in Archs : tools'[a].whole => tools'[a].by \in Runs
    BY <2>3 DEF CacheInv
  <2>5. ~spoiled => Unspoiled'
    <3> SUFFICES ASSUME ~spoiled PROVE Unspoiled'
      OBVIOUS
    <3>1. /\ \A q \in Runs \ {r} : ~Busy(q)
          /\ version = None /\ \A i \in 1 .. done[r] : Complete(ArchList[i], Release[r])
      BY <2>1, Alone DEF Busy, RunKnows
    <3>2. \A i \in 1 .. done[r] : ArchList[i] \in Archs \ {ArchList[k]}
      <4> SUFFICES ASSUME NEW i \in 1 .. done[r] PROVE ArchList[i] \in Archs \ {ArchList[k]}
        OBVIOUS
      <4>1. i \in 1 .. Len(ArchList) /\ i # k
        BY <1>0, <2>2, Constants
      <4> QED
        BY <2>2, <4>1, Constants, CacheAssumption
    <3>3. \A i \in 1 .. done[r] : Complete(ArchList[i], Release[r])'
      BY <2>3, <3>1, <3>2 DEF Complete
    <3>4. RunKnows(r)'
      BY <2>1, <2>3, <3>1, <3>3 DEF RunKnows, Downloading
    <3> QED
      BY <2>1, <3>1, <3>4, OneAtWork
  <2> QED
    BY <2>1, <2>4, <2>5 DEF CacheInv
<1>7. CASE WriteTools(r)
  <2> DEFINE k == done[r] + 1
  <2>1. /\ \A q \in Runs \ {r} : step'[q] = step[q] /\ done'[q] = done[q]
        /\ step'[r] = "fetch" /\ step[r] = "write" /\ done'[r] = k
        /\ UNCHANGED <<version, spoiled>>
    BY <1>0, <1>1, <1>7 DEF WriteTools
  <2>2. k \in 1 .. Len(ArchList) /\ ArchList[k] \in Archs
    BY <1>0, <2>1, Constants DEF CacheTyped
  <2>3. /\ \A a \in Archs : tools'[a].by = tools[a].by
        /\ \A a \in Archs : tools'[a].whole => tools[a].whole \/ tools[a].by = r
        /\ \A a \in Archs : tools[a].whole => tools'[a].whole
        /\ tools[ArchList[k]].by = r => tools'[ArchList[k]].whole
    <3>1. CASE tools[ArchList[k]].by # r
      BY <1>7, <3>1 DEF WriteTools, Downloading
    <3>2. CASE tools[ArchList[k]].by = r
      <4>1. tools' = [tools EXCEPT ![ArchList[k]] = [tools[ArchList[k]] EXCEPT !.whole = TRUE]]
        BY <1>7, <3>2 DEF WriteTools, Downloading
      <4>2. tools[ArchList[k]] \in [by : Runs \cup {None}, whole : BOOLEAN]
        BY <1>0, <2>2
      <4>3. /\ tools'[ArchList[k]].by = r /\ tools'[ArchList[k]].whole = TRUE
            /\ \A a \in Archs \ {ArchList[k]} : tools'[a] = tools[a]
        BY <1>0, <2>2, <3>2, <4>1, <4>2
      <4> QED
        BY <3>2, <4>3
    <3> QED
      BY <3>1, <3>2
  <2>4. ASSUME NEW a \in Archs, tools'[a].whole
        PROVE  tools'[a].by \in Runs
    <3>1. tools[a].whole \/ tools[a].by = r
      BY <2>3, <2>4
    <3>2. tools[a].by \in Runs
      BY <3>1 DEF CacheInv
    <3> QED
      BY <2>3, <3>2
  <2>5. ~spoiled => Unspoiled'
    <3> SUFFICES ASSUME ~spoiled PROVE Unspoiled'
      OBVIOUS
    <3>1. /\ \A q \in Runs \ {r} : ~Busy(q)
          /\ version = None /\ \A i \in 1 .. done[r] : Complete(ArchList[i], Release[r])
          /\ tools[ArchList[k]].by = r
      BY <2>1, Alone DEF Busy, RunKnows, Downloading
    <3>2. ASSUME NEW i \in 1 .. k
          PROVE  Complete(ArchList[i], Release[r])'
      <4>1. ArchList[i] \in Archs
        BY <1>0, <2>2, Constants
      <4>2. CASE i = k
        BY <2>2, <2>3, <3>1, <4>2 DEF Complete
      <4>3. CASE i # k
        <5>1. Complete(ArchList[i], Release[r])
          BY <1>0, <3>1, <4>3, Constants
        <5> QED
          BY <2>3, <4>1, <5>1 DEF Complete
      <4> QED
        BY <4>2, <4>3
    <3>3. RunKnows(r)'
      BY <2>1, <3>1, <3>2 DEF RunKnows
    <3> QED
      BY <2>1, <3>1, <3>3, OneAtWork
  <2> QED
    BY <2>1, <2>4, <2>5 DEF CacheInv
<1>8. CASE WriteVersion(r)
  <2>1. /\ \A q \in Runs \ {r} : step'[q] = step[q]
        /\ step'[r] = "ready" /\ step[r] = "fetch" /\ done[r] = Len(ArchList)
        /\ version' = Release[r] /\ UNCHANGED <<tools, done, spoiled>>
    BY <1>1, <1>8 DEF WriteVersion
  <2>2. ~spoiled => Unspoiled'
    <3> SUFFICES ASSUME ~spoiled PROVE Unspoiled'
      OBVIOUS
    <3>1. /\ \A q \in Runs \ {r} : ~Busy(q)
          /\ \A i \in 1 .. done[r] : Complete(ArchList[i], Release[r])
      BY <2>1, Alone DEF Busy, RunKnows
    <3>2. Stocked(version)'
      BY <2>1, <3>1, Constants DEF Stocked, Complete
    <3>3. RunKnows(r)'
      BY <2>1 DEF RunKnows
    <3> QED
      BY <2>1, <3>1, <3>2, <3>3, OneAtWork
  <2> QED
    BY <2>1, <2>2 DEF CacheInv
<1>9. CASE CacheFails(r)
  <2>1. /\ \A q \in Runs \ {r} : step'[q] = step[q]
        /\ step'[r] = "over" /\ Busy(r)
        /\ spoiled' = (spoiled \/ step[r] = "remove")
        /\ UNCHANGED <<version, tools, done>>
    BY <1>1, <1>9 DEF CacheFails
  <2>2. ~spoiled' => Unspoiled'
    <3> SUFFICES ASSUME ~spoiled' PROVE Unspoiled'
      OBVIOUS
    <3>1. /\ \A q \in Runs \ {r} : ~Busy(q)
          /\ version # None => Stocked(version)
      BY <2>1, Alone
    <3>2. RunKnows(r)'
      BY <2>1 DEF RunKnows
    <3>3. version' # None => Stocked(version)'
      BY <2>1, <3>1 DEF Stocked, Complete
    <3> QED
      BY <2>1, <3>1, <3>2, <3>3, OneAtWork
  <2> QED
    BY <2>1, <2>2 DEF CacheInv
<1> QED
  BY <1>2, <1>3, <1>4, <1>5, <1>6, <1>7, <1>8, <1>9 DEF CacheStep

\* The run that has its tools copies the watcher of its own release.
LEMMA CopyWatcherKeeps ==
  ASSUME CacheTyped, CacheInv, CopyWatcher
  PROVE  CacheInv' /\ WatcherIsWhole'
<1>1. Self \in Runs /\ Busy(Self)
  BY SyncAssumption DEF CopyWatcher, Busy
<1>2. /\ \A q \in Runs \ {Self} : step'[q] = step[q]
      /\ step'[Self] = "over" /\ step[Self] = "ready"
      /\ UNCHANGED <<version, tools, done, spoiled>>
  BY <1>1 DEF CopyWatcher, Go, CacheTyped, CacheTypeOK
<1>3. ~spoiled => /\ \A q \in Runs \ {Self} : ~Busy(q)
                  /\ version = Release[Self] /\ Stocked(version)
  BY <1>1, <1>2, Alone, CacheAssumption DEF RunKnows
<1>4. RunKnows(Self)'
  BY <1>2 DEF RunKnows
<1>5. ~spoiled => Unspoiled'
  <2> SUFFICES ASSUME ~spoiled PROVE Unspoiled'
    OBVIOUS
  <2>1. Stocked(version)'
    BY <1>2, <1>3 DEF Stocked, Complete
  <2> QED
    BY <1>1, <1>2, <1>3, <1>4, <2>1, OneAtWork
<1>6. CacheInv'
  BY <1>2, <1>5 DEF CacheInv
<1>7. ~spoiled => Complete(NodeArch, Release[Self])
  BY <1>3, SyncAssumption DEF Stocked
<1> QED
  BY <1>2, <1>6, <1>7 DEF CopyWatcher, WatcherIsWhole

LEMMA CacheInvStep ==
  ASSUME TypeInv, CacheInv, WatcherIsWhole, [Next]_vars
  PROVE  CacheInv' /\ WatcherIsWhole'
<1>0. CacheTyped
  BY TypeParts
<1>1. CASE Cache
  BY <1>0, <1>1, CacheStepKeeps DEF Cache, WatcherIsWhole
<1>2. CASE CopyWatcher
  BY <1>0, <1>2, CopyWatcherKeeps
<1>3. ASSUME UNCHANGED <<cacheVars, watcher>>
      PROVE  CacheInv' /\ WatcherIsWhole'
  BY <1>3 DEF CacheInv, WatcherIsWhole, Unspoiled, RunKnows, Stocked, Complete, Busy, Downloading
<1>4. CASE Pod \/ (Main /\ ~CopyWatcher) \/ Reader \/ UNCHANGED vars
  BY <1>3, <1>4
  DEF Pod, WriteFile, RemoveFile, RenameFile, Edited, Main, StartReader, StartWatcher,
      ExecReturns, Reader, FillBuffer, BeginCopy, EndCopy, FailCopy, RemoveLocal, FailRemove,
      EndScan
<1> QED
  BY <1>1, <1>2, <1>4 DEF Next

\* Unless runs overlapped or a removal was cut off, the watcher that goes to
\* the Pod is the whole one of the run's own release.
THEOREM WatcherIsOwn == Spec => []WatcherIsWhole
<1>1. Init => TypeInv /\ WatcherIsWhole
  BY TypeInit, TypeParts DEF Init, WatcherIsWhole
<1> QED
  BY <1>1, CacheInit0, TypeStep, CacheInvStep, PTL DEF Spec

(***************************************************************************)
(* The events.  Those the goroutine has yet to take tell, for each file,   *)
(* at the last of them, whether the file is there; and a file that is in   *)
(* none of them nor being copied is as in the Pod, unless it was missed.   *)
(***************************************************************************)
Mentions(events, f) == \E i \in 1 .. Len(events) : events[i].file = f

Truthful(events, files) ==
  \A i \in 1 .. Len(events) :
    \/ \E j \in i + 1 .. Len(events) : events[j].file = events[i].file
    \/ events[i].op = "gone" <=> files[events[i].file] = 0

Copying(f) == reader.at = "copy" /\ reader.file = f

MirrorInv ==
  /\ exec = "idle" => stream = <<>> /\ buffer = <<>> /\ reader.at # "copy"
  /\ exec \in {"idle", "running"} =>
       /\ Truthful(buffer \o stream, remote)
       /\ \A f \in Watched :
            \/ Mentions(buffer \o stream, f)
            \/ Copying(f) /\ reader.content = remote[f]
            \/ ~Copying(f) /\ (missed[f] \/ local[f] = remote[f])

USE DEF Truthful, Mentions

LEMMA EventFiles ==
  ASSUME NEW events \in Seq(Events), NEW i \in 1 .. Len(events)
  PROVE  events[i] \in Events /\ events[i].file \in Watched
<1>1. events[i] \in Events
  BY ElementOfSeq
<1> QED
  BY <1>1 DEF Events

\* Whatever either part mentions the whole mentions.
LEMMA MentionedByBoth ==
  ASSUME NEW first \in Seq(Events), NEW second \in Seq(Events), NEW f,
         Mentions(first, f) \/ Mentions(second, f)
  PROVE  Mentions(first \o second, f)
<1> DEFINE all == first \o second
<1>1. /\ Len(all) = Len(first) + Len(second) /\ Len(first) \in Nat /\ Len(second) \in Nat
      /\ \A i \in 1 .. Len(first) : all[i] = first[i]
      /\ \A i \in 1 .. Len(second) : all[Len(first) + i] = second[i]
  BY ConcatProperties
<1> HIDE DEF all
<1>2. \A i \in 1 .. Len(first) : i \in 1 .. Len(all)
  BY <1>1
<1>3. \A i \in 1 .. Len(second) : Len(first) + i \in 1 .. Len(all)
  BY <1>1
<1>4. Mentions(all, f)
  BY <1>1, <1>2, <1>3
<1> QED
  BY <1>4 DEF all

\* A later event says what there is now: the files it does not name are as
\* they were.
LEMMA LaterEvent ==
  ASSUME NEW events \in Seq(Events), NEW files, NEW files2, NEW event \in Events,
         Truthful(events, files),
         event.op = "gone" <=> files2[event.file] = 0,
         \A f \in Watched \ {event.file} : files2[f] = files[f]
  PROVE  Truthful(events \o <<event>>, files2)
<1> DEFINE all == events \o <<event>>
<1>1. /\ Len(all) = Len(events) + 1 /\ Len(events) \in Nat
      /\ \A i \in 1 .. Len(events) : all[i] = events[i]
      /\ all[Len(events) + 1] = event
  OBVIOUS
<1>2. \A i \in 1 .. Len(events) : events[i].file \in Watched
  BY EventFiles
<1> HIDE DEF all
<1>3. Truthful(all, files2)
  <2> SUFFICES ASSUME NEW i \in 1 .. Len(all),
                      \A j \in i + 1 .. Len(all) : all[j].file # all[i].file
               PROVE  all[i].op = "gone" <=> files2[all[i].file] = 0
    OBVIOUS
  <2>1. CASE i = Len(events) + 1
    BY <1>1, <2>1
  <2>2. CASE i # Len(events) + 1
    <3>1. i \in 1 .. Len(events) /\ all[i] = events[i]
      BY <1>1, <2>2
    <3>2. events[i].file # event.file
      BY <1>1, <3>1
    <3>3. \A j \in i + 1 .. Len(events) : events[j].file # events[i].file
      BY <1>1, <3>1
    <3> QED
      BY <1>2, <3>1, <3>2, <3>3
  <2> QED
    BY <2>1, <2>2
<1> QED
  BY <1>3 DEF all

\* Nothing changes for what is told when a file changes that nobody watches.
LEMMA UnseenChange ==
  ASSUME NEW events \in Seq(Events), NEW files, NEW files2,
         Truthful(events, files), \A f \in Watched : files2[f] = files[f]
  PROVE  Truthful(events, files2)
<1>1. \A i \in 1 .. Len(events) : events[i].file \in Watched
  BY EventFiles
<1> QED
  BY <1>1

\* What remains after the first event has been taken.
LEMMA FirstTaken ==
  ASSUME NEW events \in Seq(Events), events # <<>>, NEW files, Truthful(events, files)
  PROVE  /\ Truthful(Tail(events), files)
         /\ \A f : Mentions(events, f) => f = Head(events).file \/ Mentions(Tail(events), f)
         /\ \/ Mentions(Tail(events), Head(events).file)
            \/ Head(events).op = "gone" <=> files[Head(events).file] = 0
<1> DEFINE rest == Tail(events)
<1>1. /\ Len(events) \in Nat \ {0} /\ Len(rest) = Len(events) - 1
      /\ \A i \in 1 .. Len(rest) : rest[i] = events[i + 1]
      /\ Head(events) = events[1]
  BY EmptySeq, HeadTailProperties
<1> HIDE DEF rest
<1>2. \A i \in 2 .. Len(events) : i - 1 \in 1 .. Len(rest) /\ rest[i - 1] = events[i]
  BY <1>1
<1>3. Truthful(rest, files)
  <2> SUFFICES ASSUME NEW i \in 1 .. Len(rest),
                      \A j \in i + 1 .. Len(rest) : rest[j].file # rest[i].file
               PROVE  rest[i].op = "gone" <=> files[rest[i].file] = 0
    OBVIOUS
  <2>1. i + 1 \in 1 .. Len(events) /\ rest[i] = events[i + 1]
    BY <1>1
  <2>2. ASSUME NEW j \in i + 2 .. Len(events)
        PROVE  events[j].file # events[i + 1].file
    <3>1. j - 1 \in i + 1 .. Len(rest) /\ rest[j - 1] = events[j]
      BY <1>1, <1>2
    <3> QED
      BY <2>1, <3>1
  <2> QED
    BY <2>1, <2>2
<1>4. \A f : Mentions(events, f) => f = Head(events).file \/ Mentions(rest, f)
  BY <1>1, <1>2
<1>5. \/ Mentions(rest, Head(events).file)
      \/ Head(events).op = "gone" <=> files[Head(events).file] = 0
  <2> SUFFICES ASSUME ~Mentions(rest, events[1].file)
               PROVE  events[1].op = "gone" <=> files[events[1].file] = 0
    BY <1>1
  <2>1. \A j \in 2 .. Len(events) : events[j].file # events[1].file
    BY <1>2
  <2> QED
    BY <1>1, <2>1
<1> QED
  BY <1>3, <1>4, <1>5 DEF rest

HIDE DEF Truthful, Mentions

\* The same for what the watcher prints of one change, if anything.
LEMMA SeenEvent ==
  ASSUME NEW events \in Seq(Events), NEW files, NEW files2,
         NEW op \in {"changed", "gone"}, NEW f,
         Truthful(events, files),
         op = "gone" <=> files2[f] = 0,
         \A g \in Watched \ {f} : files2[g] = files[g]
  PROVE  LET seen == Seen([op |-> op, file |-> f])
         IN  /\ seen \in Seq(Events) /\ events \o seen \in Seq(Events)
             /\ Truthful(events \o seen, files2)
             /\ f \in Watched => Mentions(seen, f)
<1> DEFINE event == [op |-> op, file |-> f]
<1>1. CASE f \in Watched
  <2>1. event \in Events /\ Seen(event) = <<event>>
    BY <1>1 DEF Seen, Events
  <2>2. event.op = op /\ event.file = f
    OBVIOUS
  <2>3. <<event>> \in Seq(Events) /\ Mentions(<<event>>, f)
    BY <2>1, <2>2 DEF Mentions
  <2>4. events \o <<event>> \in Seq(Events)
    BY <2>3, ConcatProperties
  <2> HIDE DEF event
  <2>5. Truthful(events \o <<event>>, files2)
    BY <2>1, <2>2, LaterEvent
  <2>6. /\ Seen(event) \in Seq(Events) /\ events \o Seen(event) \in Seq(Events)
        /\ Truthful(events \o Seen(event), files2)
        /\ Mentions(Seen(event), f)
    BY <2>1, <2>3, <2>4, <2>5
  <2> QED
    BY <2>6 DEF event
<1>2. CASE f \notin Watched
  <2>1. Seen(event) = <<>>
    BY <1>2 DEF Seen
  <2>2. events \o <<>> = events /\ <<>> \in Seq(Events)
    BY ConcatEmptySeq
  <2>3. Truthful(events, files2)
    BY <1>2, UnseenChange
  <2> QED
    BY <1>2, <2>1, <2>2, <2>3
<1> QED
  BY <1>1, <1>2

UnderWay == buffer \o stream

LEMMA UnderWayTypes == SyncTyped => UnderWay \in Seq(Events)
BY ConcatProperties DEF SyncTyped, UnderWay

LEMMA NothingUnderWay ==
  ASSUME NEW files
  PROVE  Truthful(<<>> \o <<>>, files) /\ \A f : ~Mentions(<<>> \o <<>>, f)
<1>1. <<>> \in Seq(Events) /\ Len(<<>>) = 0
  BY EmptySeq
<1>2. <<>> \o <<>> = <<>>
  BY <1>1, ConcatEmptySeq
<1> QED
  BY <1>1, <1>2 DEF Truthful, Mentions

\* A change in the Pod of which the watcher prints what it should.
LEMMA EditKeeps ==
  ASSUME SyncTyped, MirrorInv, Edited, NEW seen \in Seq(Events), Emit(seen),
         Truthful(UnderWay \o seen, remote'),
         \A f \in Watched : Mentions(seen, f) \/ remote'[f] = remote[f]
  PROVE  MirrorInv'
<1>0. UNCHANGED <<local, exec, buffer, reader>>
  BY DEF Edited
<1>1. CASE exec \notin {"idle", "running"}
  BY <1>0, <1>1 DEF MirrorInv
<1>2. CASE exec = "running"
  <2>1. UnderWay' = UnderWay \o seen /\ missed' = missed
    <3>1. stream' = stream \o seen
      BY <1>2 DEF Emit
    <3>2. buffer \o (stream \o seen) = (buffer \o stream) \o seen
      BY ConcatAssociative DEF SyncTyped
    <3>3. \A f \in Files : missed'[f] = missed[f]
      BY <1>2 DEF Emit, SyncTyped
    <3>4. missed' = missed
      BY <3>3 DEF Emit, SyncTyped
    <3> QED
      BY <1>0, <3>1, <3>2, <3>4 DEF UnderWay
  <2>2. ASSUME NEW f \in Watched
        PROVE  \/ Mentions(UnderWay, f)'
               \/ Copying(f)' /\ reader'.content = remote'[f]
               \/ ~Copying(f)' /\ (missed'[f] \/ local'[f] = remote'[f])
    <3>1. CASE Mentions(seen, f) \/ Mentions(UnderWay, f)
      <4>1. Mentions(UnderWay \o seen, f)
        BY <3>1, UnderWayTypes, MentionedByBoth
      <4> QED
        BY <2>1, <4>1
    <3>2. CASE ~Mentions(seen, f) /\ ~Mentions(UnderWay, f)
      BY <1>0, <1>2, <2>1, <3>2 DEF MirrorInv, Copying, UnderWay
    <3> QED
      BY <3>1, <3>2
  <2>3. Truthful(UnderWay, remote)'
    BY <2>1
  <2> QED
    BY <1>0, <1>2, <2>2, <2>3 DEF MirrorInv, UnderWay
<1>3. CASE exec = "idle"
  <2>1. stream = <<>> /\ buffer = <<>> /\ reader.at # "copy" /\ stream' = stream
    BY <1>3 DEF MirrorInv, Emit
  <2>2. Truthful(<<>> \o <<>>, remote') /\ \A f : ~Mentions(<<>> \o <<>>, f)
    BY NothingUnderWay
  <2>3. ASSUME NEW f \in Watched
        PROVE  ~Copying(f)' /\ (missed'[f] \/ local'[f] = remote'[f])
    <3>1. missed'[f] = (missed[f] \/ \E i \in DOMAIN seen : seen[i].file = f)
      BY <1>3 DEF Emit, Watched
    <3>2. Mentions(seen, f) => missed'[f]
      BY <3>1, LenProperties DEF Mentions
    <3>3. missed[f] \/ local[f] = remote[f]
      BY <1>3, <2>1, <2>2 DEF MirrorInv, Copying
    <3> QED
      BY <1>0, <2>1, <3>1, <3>2, <3>3 DEF Copying
  <2> QED
    BY <1>0, <2>1, <2>2, <2>3 DEF MirrorInv
<1> QED
  BY <1>1, <1>2, <1>3

LEMMA Regroup ==
  ASSUME NEW a \in Seq(Events), NEW b \in Seq(Events), NEW c \in Seq(Events)
  PROVE  a \o (b \o c) = (a \o b) \o c
BY ConcatAssociative

LEMMA PodKeeps ==
  ASSUME SyncTyped, MirrorInv, Pod
  PROVE  MirrorInv'
<1>0. /\ UnderWay \in Seq(Events)
      /\ \A f \in Watched : f \in Files
      /\ remote \in [Files -> 0 .. MaxEdits + 1]
  BY UnderWayTypes DEF SyncTyped, Watched
<1>1. CASE exec \notin {"idle", "running"}
  <2>1. UNCHANGED exec
    BY DEF Pod, WriteFile, RemoveFile, RenameFile, Edited
  <2> QED
    BY <1>1, <2>1 DEF MirrorInv
<1>2. CASE exec \in {"idle", "running"}
  <2>0. Truthful(UnderWay, remote)
    BY <1>2 DEF MirrorInv, UnderWay
  <2>1. ASSUME NEW f \in Files, WriteFile(f)
        PROVE  MirrorInv'
    <3>1. remote'[f] # 0 /\ \A g \in Files \ {f} : remote'[g] = remote[g]
      BY <1>0, <2>1 DEF WriteFile, Edited, SyncTyped
    <3>2. /\ Seen(Changed(f)) \in Seq(Events)
          /\ Truthful(UnderWay \o Seen(Changed(f)), remote')
          /\ f \in Watched => Mentions(Seen(Changed(f)), f)
      BY <1>0, <2>0, <3>1, SeenEvent DEF Changed
    <3> QED
      BY <1>0, <2>1, <3>1, <3>2, EditKeeps DEF WriteFile
  <2>2. ASSUME NEW f \in Files, RemoveFile(f)
        PROVE  MirrorInv'
    <3>1. remote'[f] = 0 /\ \A g \in Files \ {f} : remote'[g] = remote[g]
      BY <1>0, <2>2 DEF RemoveFile
    <3>2. /\ Seen(Gone(f)) \in Seq(Events)
          /\ Truthful(UnderWay \o Seen(Gone(f)), remote')
          /\ f \in Watched => Mentions(Seen(Gone(f)), f)
      BY <1>0, <2>0, <3>1, SeenEvent DEF Gone
    <3> QED
      BY <1>0, <2>2, <3>1, <3>2, EditKeeps DEF RemoveFile
  <2>3. ASSUME NEW f \in Files, NEW g \in Files, RenameFile(f, g)
        PROVE  MirrorInv'
    <3> DEFINE between == [remote EXCEPT ![f] = 0]
               gone == Seen(Gone(f))
               changed == Seen(Changed(g))
    <3>1. between[f] = 0 /\ \A h \in Files \ {f} : between[h] = remote[h]
      BY <1>0
    <3>2. /\ remote'[g] # 0 /\ remote'[f] = 0
          /\ \A h \in Files \ {g} : remote'[h] = between[h]
      BY <1>0, <2>3 DEF RenameFile
    <3> HIDE DEF between
    <3>3. /\ gone \in Seq(Events) /\ UnderWay \o gone \in Seq(Events)
          /\ Truthful(UnderWay \o gone, between)
          /\ f \in Watched => Mentions(gone, f)
      BY <1>0, <2>0, <3>1, SeenEvent DEF Gone
    <3> HIDE DEF gone
    <3>4. /\ changed \in Seq(Events)
          /\ Truthful((UnderWay \o gone) \o changed, remote')
          /\ g \in Watched => Mentions(changed, g)
      BY <1>0, <3>2, <3>3, SeenEvent DEF Changed
    <3> HIDE DEF changed
    <3>5. /\ gone \o changed \in Seq(Events)
          /\ UnderWay \o (gone \o changed) = (UnderWay \o gone) \o changed
      <4>1. gone \o changed \in Seq(Events)
        BY <3>3, <3>4, ConcatProperties
      <4>2. UnderWay \o (gone \o changed) = (UnderWay \o gone) \o changed
        BY <1>0, <3>3, <3>4, Regroup
      <4> QED
        BY <4>1, <4>2
    <3>6. /\ f \in Watched => Mentions(gone \o changed, f)
          /\ g \in Watched => Mentions(gone \o changed, g)
      BY <3>3, <3>4, MentionedByBoth
    <3>7. \A h \in Watched : Mentions(gone \o changed, h) \/ remote'[h] = remote[h]
      BY <1>0, <3>1, <3>2, <3>6
    <3>8. Edited /\ Emit(gone \o changed)
      BY <2>3 DEF RenameFile, gone, changed
    <3> QED
      BY <3>4, <3>5, <3>7, <3>8, EditKeeps
  <2> QED
    BY <2>1, <2>2, <2>3 DEF Pod
<1> QED
  BY <1>1, <1>2

\* The scanner reads a part of the stream: what is under way stays the same.
LEMMA FillKeeps ==
  ASSUME SyncTyped, MirrorInv, NEW n \in 1 .. Len(stream), FillBuffer(n)
  PROVE  MirrorInv'
<1>1. stream \in Seq(Events) /\ Len(stream) \in Nat
  BY DEF SyncTyped
<1>2. SubSeq(stream, 1, n) \o SubSeq(stream, n + 1, Len(stream)) = stream
  <2>1. SubSeq(stream, 1, n) \o SubSeq(stream, n + 1, Len(stream))
          = SubSeq(stream, 1, Len(stream))
    BY <1>1, ConcatAdjacentSubSeq
  <2> QED
    BY <1>1, <2>1, SubSeqFull
<1>3. buffer' \o stream' = buffer \o stream
  BY <1>1, <1>2, ConcatEmptySeq DEF FillBuffer
<1>4. stream # <<>>
  BY <1>1
<1>5. exec # "idle" /\ UNCHANGED <<exec, remote, local, reader, missed>>
  BY <1>4 DEF MirrorInv, FillBuffer
<1> QED
  BY <1>3, <1>5 DEF MirrorInv, Copying

\* The goroutine takes the first event.
LEMMA TakeIsTail ==
  ASSUME SyncTyped, NEW op, Take(op)
  PROVE  /\ UnderWay # <<>> /\ UnderWay' = Tail(UnderWay)
         /\ Head(UnderWay) = Head(buffer) /\ Head(buffer).file \in Watched
         /\ Head(buffer).op = op /\ reader.at = "scan"
<1>1. buffer \in Seq(Events) /\ stream \in Seq(Events) /\ buffer # <<>>
  BY DEF SyncTyped, Take
<1>2. /\ UnderWay \in Seq(Events) /\ Len(UnderWay) = Len(buffer) + Len(stream)
      /\ Len(buffer) \in Nat \ {0} /\ Len(stream) \in Nat
      /\ \A i \in 1 .. Len(buffer) + Len(stream) :
            UnderWay[i] = IF i <= Len(buffer) THEN buffer[i] ELSE stream[i - Len(buffer)]
  BY <1>1, ConcatProperties, EmptySeq, LenProperties DEF UnderWay
<1>3. UnderWay # <<>>
  BY <1>2, EmptySeq
<1>4. Head(UnderWay) = Head(buffer) /\ Head(buffer) \in Events
  BY <1>1, <1>2, <1>3, HeadTailProperties
<1>5. Tail(buffer) \o stream = Tail(UnderWay)
  <2>1. /\ Tail(buffer) \in Seq(Events) /\ Len(Tail(buffer)) = Len(buffer) - 1
        /\ \A i \in 1 .. Len(buffer) - 1 : Tail(buffer)[i] = buffer[i + 1]
    BY <1>1, <1>2, HeadTailProperties
  <2>2. /\ Tail(UnderWay) \in Seq(Events) /\ Len(Tail(UnderWay)) = Len(UnderWay) - 1
        /\ \A i \in 1 .. Len(UnderWay) - 1 : Tail(UnderWay)[i] = UnderWay[i + 1]
    BY <1>2, <1>3, HeadTailProperties
  <2> DEFINE left == Tail(buffer) \o stream
             right == Tail(UnderWay)
  <2>3. /\ left \in Seq(Events) /\ Len(left) = Len(buffer) - 1 + Len(stream)
        /\ \A i \in 1 .. Len(buffer) - 1 + Len(stream) :
              left[i] = IF i <= Len(buffer) - 1 THEN Tail(buffer)[i]
                        ELSE stream[i - (Len(buffer) - 1)]
    BY <1>1, <2>1, ConcatProperties
  <2> HIDE DEF left
  <2>4. Len(left) = Len(right)
    BY <1>2, <2>2, <2>3
  <2>5. ASSUME NEW i \in 1 .. Len(left)
        PROVE  left[i] = right[i]
    <3>1. right[i] = UnderWay[i + 1] /\ i \in 1 .. Len(buffer) - 1 + Len(stream)
      BY <1>2, <2>2, <2>3
    <3>2. CASE i <= Len(buffer) - 1
      BY <1>2, <2>1, <2>3, <3>1, <3>2
    <3>3. CASE ~(i <= Len(buffer) - 1)
      <4>1. i - (Len(buffer) - 1) = i + 1 - Len(buffer) /\ ~(i + 1 <= Len(buffer))
        BY <1>2, <3>1, <3>3
      <4>2. i + 1 \in 1 .. Len(buffer) + Len(stream)
        BY <1>2, <3>1
      <4>3. UnderWay[i + 1] = stream[i + 1 - Len(buffer)]
        BY <1>2, <4>1, <4>2
      <4>4. left[i] = stream[i - (Len(buffer) - 1)]
        BY <2>3, <3>1, <3>3
      <4> QED
        BY <3>1, <4>1, <4>3, <4>4
    <3> QED
      BY <3>2, <3>3
  <2> HIDE DEF right
  <2>6. left = right
    BY <2>2, <2>3, <2>4, <2>5, SeqEqual DEF right
  <2> QED
    BY <2>6 DEF left, right
<1> QED
  BY <1>3, <1>4, <1>5 DEF Take, UnderWay, Events

\* What is known of the files while the watch goes on.
Follows(events, f) ==
  \/ Mentions(events, f)
  \/ Copying(f) /\ reader.content = remote[f]
  \/ ~Copying(f) /\ (missed[f] \/ local[f] = remote[f])

LEMMA TakeKeeps ==
  ASSUME SyncTyped, MirrorInv, BeginCopy \/ RemoveLocal \/ FailRemove
  PROVE  MirrorInv'
<1> PICK f : f = Head(buffer).file
  OBVIOUS
<1>0. UNCHANGED <<exec, remote>>
  BY DEF BeginCopy, RemoveLocal, FailRemove
<1>1. CASE exec \notin {"idle", "running"}
  BY <1>0, <1>1 DEF MirrorInv
<1>2. exec # "idle"
  BY DEF MirrorInv, BeginCopy, RemoveLocal, FailRemove, Take
<1>3. CASE exec = "running"
  <2> DEFINE op == IF BeginCopy THEN "changed" ELSE "gone"
  <2>1. Take(op)
    BY DEF BeginCopy, RemoveLocal, FailRemove
  <2>2. op \in {"changed", "gone"}
    OBVIOUS
  <2>3. /\ UnderWay # <<>> /\ UnderWay' = Tail(UnderWay)
        /\ Head(UnderWay) = Head(buffer) /\ f \in Watched /\ f \in Files
        /\ Head(UnderWay).op = op /\ reader.at = "scan"
    BY <2>1, TakeIsTail DEF Watched
  <2>4. Truthful(UnderWay, remote) /\ \A g \in Watched : Follows(UnderWay, g)
    BY <1>3 DEF MirrorInv, UnderWay, Follows
  <2>5. /\ Truthful(Tail(UnderWay), remote)
        /\ \A g : Mentions(UnderWay, g) => g = f \/ Mentions(Tail(UnderWay), g)
        /\ Mentions(Tail(UnderWay), f) \/ (op = "gone" <=> remote[f] = 0)
    BY <2>3, <2>4, UnderWayTypes, FirstTaken
  <2>6. \A g \in Watched \ {f} : Follows(UnderWay, g)'
    <3>1. \A g \in Watched \ {f} : Follows(Tail(UnderWay), g) /\ ~Copying(g)
      BY <2>3, <2>4, <2>5 DEF Follows, Copying
    <3>2. \A g \in Watched \ {f} : missed'[g] = missed[g] /\ local'[g] = local[g]
      BY <2>3 DEF SyncTyped, Watched, BeginCopy, RemoveLocal, FailRemove
    <3>3. \A g \in Watched \ {f} : ~Copying(g)'
      BY <2>3 DEF Copying, BeginCopy, RemoveLocal, FailRemove, Scanning
    <3> QED
      BY <1>0, <2>3, <3>1, <3>2, <3>3 DEF Follows
  <2>7. Follows(UnderWay, f)'
    <3>1. CASE Mentions(Tail(UnderWay), f)
      BY <2>3, <3>1 DEF Follows
    <3>2. CASE BeginCopy /\ ~Mentions(Tail(UnderWay), f)
      <4>1. remote[f] # 0
        BY <2>5, <3>2
      <4>2. reader' = [at |-> "copy", file |-> f, content |-> remote[f]]
        BY <3>2, <4>1 DEF BeginCopy
      <4> QED
        BY <1>0, <4>2 DEF Follows, Copying
    <3>3. CASE ~BeginCopy /\ ~Mentions(Tail(UnderWay), f)
      <4>1. remote[f] = 0
        BY <2>5, <3>3
      <4>2. ~Copying(f)'
        BY <2>3, <3>3 DEF Copying, RemoveLocal, FailRemove
      <4>3. local'[f] = 0 \/ missed'[f]
        BY <2>3, <3>3 DEF SyncTyped, RemoveLocal, FailRemove
      <4> QED
        BY <1>0, <4>1, <4>2, <4>3 DEF Follows
    <3> QED
      BY <3>1, <3>2, <3>3
  <2> QED
    BY <1>0, <1>3, <2>3, <2>5, <2>6, <2>7 DEF MirrorInv, UnderWay, Follows
<1> QED
  BY <1>1, <1>2, <1>3

LEMMA CopyKeeps ==
  ASSUME SyncTyped, MirrorInv, EndCopy \/ FailCopy
  PROVE  MirrorInv'
<1> PICK f : f = reader.file
  OBVIOUS
<1>0. UNCHANGED <<exec, remote, buffer, stream>>
  BY DEF EndCopy, FailCopy
<1>1. CASE exec \notin {"idle", "running"}
  BY <1>0, <1>1 DEF MirrorInv
<1>2. exec # "idle"
  BY DEF MirrorInv, EndCopy, FailCopy
<1>3. CASE exec = "running"
  <2>1. reader.at = "copy" /\ f \in Watched /\ reader' = Scanning
    BY DEF SyncTyped, EndCopy, FailCopy
  <2>2. Truthful(UnderWay, remote) /\ \A g \in Watched : Follows(UnderWay, g)
    BY <1>3 DEF MirrorInv, UnderWay, Follows
  <2>3. \A g \in Watched : ~Copying(g)'
    BY <2>1 DEF Copying, Scanning
  <2>4. \A g \in Watched \ {f} : Follows(UnderWay, g)'
    <3>1. \A g \in Watched \ {f} : missed'[g] = missed[g] /\ local'[g] = local[g]
      BY <2>1 DEF SyncTyped, Watched, EndCopy, FailCopy
    <3> QED
      BY <1>0, <2>2, <2>3, <3>1 DEF Follows, UnderWay, Copying
  <2>5. Follows(UnderWay, f)'
    <3>1. Mentions(UnderWay, f) \/ reader.content = remote[f]
      BY <2>1, <2>2 DEF Follows, Copying
    <3>2. missed'[f] \/ local'[f] = reader.content
      BY <2>1 DEF SyncTyped, Watched, EndCopy, FailCopy
    <3> QED
      BY <1>0, <2>1, <2>3, <3>1, <3>2 DEF Follows, UnderWay
  <2> QED
    BY <1>0, <1>3, <2>2, <2>4, <2>5 DEF MirrorInv, UnderWay, Follows
<1> QED
  BY <1>1, <1>2, <1>3

LEMMA MainKeeps ==
  ASSUME SyncTyped, MirrorInv, Main
  PROVE  MirrorInv'
<1>1. CASE CopyWatcher
  BY <1>1 DEF CopyWatcher, MirrorInv, Copying
<1>2. CASE StartReader
  BY <1>2 DEF StartReader, MirrorInv, Copying, Scanning
<1>3. CASE StartWatcher
  BY <1>3 DEF StartWatcher, MirrorInv, Copying
<1>4. CASE \E outcome \in {"failed", "ended"} : ExecReturns(outcome)
  BY <1>4 DEF ExecReturns, MirrorInv
<1> QED
  BY <1>1, <1>2, <1>3, <1>4 DEF Main

LEMMA MirrorInit == Init => MirrorInv
<1> SUFFICES ASSUME Init PROVE MirrorInv
  OBVIOUS
<1>1. stream = <<>> /\ buffer = <<>> /\ reader.at = "none" /\ local = remote
  BY DEF Init
<1> QED
  BY <1>1, NothingUnderWay DEF MirrorInv, Copying

LEMMA MirrorStep == TypeInv /\ MirrorInv /\ [Next]_vars => MirrorInv'
<1> SUFFICES ASSUME SyncTyped, MirrorInv, [Next]_vars PROVE MirrorInv'
  BY TypeParts
<1>1. CASE UNCHANGED syncVars
  BY <1>1 DEF MirrorInv, Copying
<1>2. CASE Reader
  <2>1. CASE EndScan
    BY <2>1 DEF EndScan, MirrorInv, Copying
  <2> QED
    BY <1>2, <2>1, FillKeeps, TakeKeeps, CopyKeeps DEF Reader
<1> QED
  BY <1>1, <1>2, PodKeeps, MainKeeps DEF Next, Cache

\* While the watch runs a watched file without a pending event is the same
\* on both sides, unless its last event was lost or not obeyed.
THEOREM DirectoriesMirror == Spec => []Mirrors
<1>1. Init => TypeInv
  BY TypeInit, TypeParts
<1>2. TypeInv /\ MirrorInv => Mirrors
  <2> SUFFICES ASSUME SyncTyped, MirrorInv, exec = "running",
                      NEW f \in Watched, ~Pending(f)
               PROVE  missed[f] \/ local[f] = remote[f]
    BY TypeParts DEF Mirrors
  <2>1. ~Copying(f)
    BY DEF Pending, Copying
  <2>2. ~Mentions(UnderWay, f)
    <3>1. /\ buffer \in Seq(Events) /\ stream \in Seq(Events)
          /\ \A i \in 1 .. Len(buffer) : buffer[i].file # f
          /\ \A i \in 1 .. Len(stream) : stream[i].file # f
      BY LenProperties DEF SyncTyped, Pending
    <3>2. /\ Len(UnderWay) = Len(buffer) + Len(stream)
          /\ Len(buffer) \in Nat /\ Len(stream) \in Nat
          /\ \A i \in 1 .. Len(UnderWay) :
                UnderWay[i] = IF i <= Len(buffer) THEN buffer[i] ELSE stream[i - Len(buffer)]
      BY <3>1, ConcatProperties, LenProperties DEF UnderWay
    <3>3. \A i \in 1 .. Len(UnderWay) :
            i <= Len(buffer) \/ i - Len(buffer) \in 1 .. Len(stream)
      BY <3>2
    <3> QED
      BY <3>1, <3>2, <3>3 DEF Mentions
  <2> QED
    BY <2>1, <2>2 DEF MirrorInv, UnderWay
<1> QED
  BY <1>1, <1>2, MirrorInit, TypeStep, MirrorStep, PTL DEF Spec
=============================================================================
