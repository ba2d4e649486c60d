----------------------------- MODULE ToolsCache -----------------------------
(***************************************************************************)
(* The container tools that `sub notebook` keeps in the user's cache       *)
(* directory: getContainerTools and getContainerToolsRelease of            *)
(* src/internal/client/sync.go.  version.txt names the release whose tools *)
(* are there; a run of the CLI that belongs to another release removes the *)
(* directory and downloads its own tools, one architecture after the       *)
(* other, straight into their final place.                                 *)
(*                                                                         *)
(* Several runs may be at work on one machine, each of which may fail or   *)
(* be interrupted between any two steps.                                   *)
(***************************************************************************)
EXTENDS Naturals, Sequences

CONSTANTS Runs,      \* the runs of the CLI on one machine
          Release,   \* Release[r]: the release that run r belongs to
          ArchList,  \* the architectures, in the order of their download
          None       \* no version.txt, no file

Archs == {ArchList[i] : i \in DOMAIN ArchList}

ASSUME CacheAssumption ==
    /\ ArchList \in Seq(Archs)
    /\ \A i, j \in 1 .. Len(ArchList) : ArchList[i] = ArchList[j] => i = j
    /\ None \notin Runs
    /\ \A r \in Runs : Release[r] # None

VARIABLES version,   \* what version.txt says
          dirs,      \* the directories that exist: "root" and one per architecture
          tools,     \* tools[a]: the run that last truncated a's file, and whether it wrote it all
          step,      \* step[r]: where run r is
          done,      \* done[r]: how many architectures run r has downloaded
          spoiled    \* history: two runs overlapped, or a removal was cut off

cacheVars == <<version, dirs, tools, step, done, spoiled>>

CacheSteps == {"new", "check", "remove", "fetch", "write", "ready", "over"}
NoTools == [by |-> None, whole |-> FALSE]
Busy(r) == step[r] \notin {"new", "over"}
Go(r, s) == step' = [step EXCEPT ![r] = s]
Downloading(r) == ArchList[done[r] + 1]

(* The complete tools of release v are there for architecture a.           *)
Complete(a, v) == tools[a].whole /\ Release[tools[a].by] = v

CacheInit == /\ version = None
             /\ dirs = {}
             /\ tools = [a \in Archs |-> NoTools]
             /\ step = [r \in Runs |-> "new"]
             /\ done = [r \in Runs |-> 0]
             /\ spoiled = FALSE

(* SyncFilesFromNotebook makes the directory.                              *)
MakeCacheDir(r) ==
    /\ step[r] = "new"
    /\ dirs' = dirs \cup {"root"}
    /\ spoiled' = (spoiled \/ \E q \in Runs \ {r} : Busy(q))
    /\ Go(r, "check")
    /\ UNCHANGED <<version, tools, done>>

CheckVersion(r) ==
    /\ step[r] = "check"
    /\ Go(r, IF version = Release[r] THEN "ready" ELSE "remove")
    /\ UNCHANGED <<version, dirs, tools, done, spoiled>>

(* os.RemoveAll unlinks the entries in the order of the directory, which   *)
(* is any; a run that has a file open goes on writing to it unseen.        *)
RemoveVersion(r) ==
    /\ step[r] = "remove" /\ version # None
    /\ version' = None
    /\ UNCHANGED <<dirs, tools, step, done, spoiled>>

RemoveTools(r, a) ==
    /\ step[r] = "remove" /\ a \in dirs
    /\ dirs' = dirs \ {a}
    /\ tools' = [tools EXCEPT ![a] = NoTools]
    /\ UNCHANGED <<version, step, done, spoiled>>

(* A plausible bug: version.txt is written before the download.            *)
RemoveRootVersionFirst(r) ==
    /\ step[r] = "remove" /\ version = None /\ dirs \subseteq {"root"}
    /\ dirs' = {"root"}
    /\ version' = Release[r]
    /\ Go(r, "fetch")
    /\ UNCHANGED <<tools, done, spoiled>>

RemoveRoot(r) ==
    /\ step[r] = "remove" /\ version = None /\ dirs \subseteq {"root"}
    /\ dirs' = {}
    /\ Go(r, "fetch")
    /\ UNCHANGED <<version, tools, done, spoiled>>

(* MkdirAll, then the request, then OpenFile, which truncates what is      *)
(* there.  (Between the two another run may remove the directory again;    *)
(* OpenFile then fails, which is CacheFails.)                              *)
OpenTools(r) ==
    /\ step[r] = "fetch" /\ done[r] < Len(ArchList)
    /\ dirs' = dirs \cup {"root", Downloading(r)}
    /\ tools' = [tools EXCEPT ![Downloading(r)] = [by |-> r, whole |-> FALSE]]
    /\ Go(r, "write")
    /\ UNCHANGED <<version, done, spoiled>>

(* The file is whole when the run that truncated it last has written it:   *)
(* runs of one release write the same bytes to the same places.  A run     *)
(* whose file was removed, or truncated by another, goes on regardless.    *)
WriteTools(r) ==
    /\ step[r] = "write"
    /\ LET a == Downloading(r) IN
       tools' = IF tools[a].by = r THEN [tools EXCEPT ![a].whole = TRUE] ELSE tools
    /\ done' = [done EXCEPT ![r] = @ + 1]
    /\ Go(r, "fetch")
    /\ UNCHANGED <<version, dirs, spoiled>>

WriteVersion(r) ==
    /\ step[r] = "fetch" /\ done[r] = Len(ArchList)
    /\ "root" \in dirs
    /\ version' = Release[r]
    /\ Go(r, "ready")
    /\ UNCHANGED <<dirs, tools, done, spoiled>>

(* A system call or the download fails, the user interrupts the run, or it *)
(* is done with the tools.                                                 *)
CacheFails(r) ==
    /\ Busy(r)
    /\ spoiled' = (spoiled \/ step[r] = "remove")
    /\ Go(r, "over")
    /\ UNCHANGED <<version, dirs, tools, done>>

CacheStep(r) == \/ MakeCacheDir(r) \/ CheckVersion(r)
                \/ RemoveVersion(r) \/ RemoveRoot(r)
                \/ \E a \in Archs : RemoveTools(r, a)
                \/ OpenTools(r) \/ WriteTools(r) \/ WriteVersion(r)
                \/ CacheFails(r)

CacheTypeOK ==
    /\ version \in {Release[r] : r \in Runs} \cup {None}
    /\ dirs \subseteq Archs \cup {"root"}
    /\ tools \in [Archs -> [by : Runs \cup {None}, whole : BOOLEAN]]
    /\ step \in [Runs -> CacheSteps]
    /\ done \in [Runs -> 0 .. Len(ArchList)]
    /\ spoiled \in BOOLEAN

=============================================================================
