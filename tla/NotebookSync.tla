---------------------------- MODULE NotebookSync ----------------------------
(***************************************************************************)
(* The file synchronisation of `sub notebook`: SyncFilesFromNotebook of    *)
(* src/internal/client/sync.go and the watcher it runs in the Pod,         *)
(* src/containertools/cmd/nbwatch/main.go.                                 *)
(*                                                                         *)
(* nbwatch prints a line for each change of a watched file.  The lines     *)
(* travel through the exec connection into a pipe; a goroutine scans them  *)
(* and copies or removes the local file, one event after the other, with   *)
(* the content the file has when it is copied.  The main thread waits for  *)
(* exec, and then for the goroutine unless exec failed.                    *)
(***************************************************************************)
EXTENDS ToolsCache, FiniteSets

CONSTANTS Self,       \* the run whose synchronisation is followed
          NodeArch,   \* the architecture of the node its Pod runs on
          Files,      \* the files of /content that are edited
          Unwatched,  \* those with a hidden name or in a directory without a watch
          MaxEdits,   \* bound: changes of files in the Pod
          MaxMisses   \* bound: copies and removals that fail

ASSUME SyncAssumption ==
    /\ Self \in Runs /\ NodeArch \in Archs
    /\ MaxEdits \in Nat /\ MaxMisses \in Nat

VARIABLES remote,     \* remote[f]: the content of f in the Pod, 0 when there is no f
          local,      \* local[f]: the same for the local directory
          watcher,    \* the binary in the Pod: "none", "whole", "broken"
          exec,       \* "idle", "running", "failed" or "ended" (without an error)
          stream,     \* lines on their way to the pipe
          buffer,     \* lines the scanner has read
          reader,     \* the goroutine
          edits,      \* counts the changes, and names their contents
          misses,     \* counts the failures
          missed      \* history: missed[f], f's last event was lost or not obeyed

syncVars == <<remote, local, watcher, exec, stream, buffer, reader, edits, misses, missed>>
vars == <<cacheVars, syncVars>>

Watched == Files \ Unwatched
Changed(f) == [op |-> "changed", file |-> f]   \* WRITE, CREATE
Gone(f) == [op |-> "gone", file |-> f]         \* REMOVE, RENAME
Events == [op : {"changed", "gone"}, file : Watched]
Scanning == [at |-> "scan"]

Init == /\ CacheInit
        /\ remote = [f \in Files |-> IF f \in Watched THEN 1 ELSE 0]
        /\ local = remote
        /\ watcher = "none"
        /\ exec = "idle"
        /\ stream = <<>> /\ buffer = <<>>
        /\ reader = [at |-> "none"]
        /\ edits = 1 /\ misses = 0
        /\ missed = [f \in Files |-> FALSE]

----------------------------------------------------------------------------
(* The Pod *)

(* watchLoop drops the events of hidden names; run sets no watch on hidden *)
(* directories, data, model and artifacts.                                 *)
SeenAll(event) == <<event>>   \* a plausible bug: hidden names are not dropped

Seen(event) == IF event.file \in Watched THEN <<event>> ELSE <<>>

Emit(seen) ==
    /\ stream' = IF exec = "running" THEN stream \o seen ELSE stream
    /\ missed' = [f \in Files |->
                    missed[f] \/ (exec # "running" /\ \E i \in DOMAIN seen : seen[i].file = f)]

Edited == /\ watcher # "none" /\ edits <= MaxEdits
          /\ edits' = edits + 1
          /\ UNCHANGED <<cacheVars, local, watcher, exec, buffer, reader, misses>>

WriteFile(f) == /\ Edited
            /\ remote' = [remote EXCEPT ![f] = edits + 1]
            /\ Emit(Seen(Changed(f)))

RemoveFile(f) == /\ Edited /\ remote[f] # 0
             /\ remote' = [remote EXCEPT ![f] = 0]
             /\ Emit(Seen(Gone(f)))

(* Jupyter saves by writing a hidden file and renaming it.                 *)
RenameFile(f, g) == /\ Edited /\ f # g /\ remote[f] # 0
                /\ remote' = [remote EXCEPT ![f] = 0, ![g] = remote[f]]
                /\ Emit(Seen(Gone(f)) \o Seen(Changed(g)))

----------------------------------------------------------------------------
(* The main thread *)

(* The node's architecture is read before the tools; a failure to read it, *)
(* or to copy the watcher, ends the run like CacheFails.                   *)
CopyWatcher ==
    /\ step[Self] = "ready" /\ watcher = "none"
    /\ watcher' = IF Complete(NodeArch, Release[Self]) THEN "whole" ELSE "broken"
    /\ Go(Self, "over")
    /\ UNCHANGED <<version, dirs, tools, done, spoiled, remote, local, exec, stream, buffer, reader, edits, misses, missed>>

StartReader ==
    /\ watcher # "none" /\ reader.at = "none"
    /\ reader' = Scanning
    /\ UNCHANGED <<cacheVars, remote, local, watcher, exec, stream, buffer, edits, misses, missed>>

StartWatcher ==
    /\ reader.at # "none" /\ exec = "idle"
    /\ exec' = IF watcher = "whole" THEN "running" ELSE "failed"
    /\ UNCHANGED <<cacheVars, remote, local, watcher, stream, buffer, reader, edits, misses, missed>>

(* exec returns: with an error (nbwatch or the Pod is killed, the user     *)
(* quits, the connection is reset), and then the pipe is closed; or        *)
(* without one, when the error stream ends empty.  Lines that have not     *)
(* reached the scanner are lost.                                           *)
ExecReturns(outcome) ==
    /\ exec = "running"
    /\ exec' = outcome
    /\ stream' = <<>>
    /\ missed' = [f \in Files |-> missed[f] \/ \E i \in DOMAIN stream : stream[i].file = f]
    /\ UNCHANGED <<cacheVars, remote, local, watcher, buffer, reader, edits, misses>>

----------------------------------------------------------------------------
(* The goroutine *)

ReaderOnly == UNCHANGED <<cacheVars, remote, watcher, exec, edits>>

(* One read of the pipe takes whatever part of the stream is there.        *)
FillBufferOnce(n) ==   \* a plausible bug: only the first event of a file is kept
    /\ reader.at = "scan" /\ buffer = <<>> /\ n \in 1..Len(stream)
    /\ LET part == SubSeq(stream, 1, n)
           first(i) == \A j \in 1 .. i - 1 : part[j].file # part[i].file
           kept == {i \in 1 .. n : first(i)}
       IN  buffer' = [i \in 1 .. Cardinality(kept) |->
                        part[CHOOSE j \in kept : Cardinality({k \in kept : k < j}) = i - 1]]
    /\ stream' = SubSeq(stream, n + 1, Len(stream))
    /\ ReaderOnly /\ UNCHANGED <<local, reader, misses, missed>>

FillBuffer(n) ==
    /\ reader.at = "scan" /\ buffer = <<>> /\ n \in 1..Len(stream)
    /\ buffer' = SubSeq(stream, 1, n)
    /\ stream' = SubSeq(stream, n + 1, Len(stream))
    /\ ReaderOnly /\ UNCHANGED <<local, reader, misses, missed>>

Take(op) == /\ reader.at = "scan" /\ buffer # <<>> /\ Head(buffer).op = op
            /\ buffer' = Tail(buffer)
            /\ stream' = stream

(* kubectl cp reads the file as it is now; without one it fails.           *)
BeginCopy ==
    /\ Take("changed")
    /\ LET f == Head(buffer).file IN
       reader' = IF remote[f] = 0 THEN Scanning
                 ELSE [at |-> "copy", file |-> f, content |-> remote[f]]
    /\ ReaderOnly /\ UNCHANGED <<local, misses, missed>>

EndCopy ==
    /\ reader.at = "copy"
    /\ local' = [local EXCEPT ![reader.file] = reader.content]
    /\ missed' = [missed EXCEPT ![reader.file] = FALSE]
    /\ reader' = Scanning
    /\ ReaderOnly /\ UNCHANGED <<stream, buffer, misses>>

(* A copy that fails is logged and not tried again.                        *)
FailCopy ==
    /\ reader.at = "copy" /\ misses < MaxMisses
    /\ misses' = misses + 1
    /\ missed' = [missed EXCEPT ![reader.file] = TRUE]
    /\ reader' = Scanning
    /\ ReaderOnly /\ UNCHANGED <<local, stream, buffer>>

RemoveLocalNever ==   \* a plausible bug: a renamed or removed file is left where it was
    /\ Take("gone")
    /\ missed' = [missed EXCEPT ![Head(buffer).file] = FALSE]
    /\ ReaderOnly /\ UNCHANGED <<local, reader, misses>>

RemoveLocal ==
    /\ Take("gone")
    /\ LET f == Head(buffer).file IN
       /\ local' = [local EXCEPT ![f] = 0]
       /\ missed' = [missed EXCEPT ![f] = FALSE]
    /\ ReaderOnly /\ UNCHANGED <<reader, misses>>

FailRemove ==
    /\ Take("gone") /\ local[Head(buffer).file] # 0 /\ misses < MaxMisses
    /\ misses' = misses + 1
    /\ missed' = [missed EXCEPT ![Head(buffer).file] = TRUE]
    /\ ReaderOnly /\ UNCHANGED <<local, reader>>

EndScanUnlessBroken ==   \* a plausible bug: the pipe is not closed when the watcher does not start
    /\ reader.at = "scan" /\ buffer = <<>> /\ exec = "failed" /\ watcher = "whole"
    /\ reader' = [at |-> "ended"]
    /\ ReaderOnly /\ UNCHANGED <<local, stream, buffer, misses, missed>>

(* The scanner ends when the pipe has been closed.                         *)
EndScan ==
    /\ reader.at = "scan" /\ buffer = <<>> /\ exec = "failed"
    /\ reader' = [at |-> "ended"]
    /\ ReaderOnly /\ UNCHANGED <<local, stream, buffer, misses, missed>>

----------------------------------------------------------------------------
Reader == \/ \E n \in 1..Len(stream) : FillBuffer(n)
          \/ BeginCopy \/ EndCopy \/ FailCopy
          \/ RemoveLocal \/ FailRemove \/ EndScan

(* The cache has no part in what happens after the watcher was copied, nor *)
(* the edits in what happened before: the two phases are not interleaved.  *)
Cache == watcher = "none" /\ (\E r \in Runs : CacheStep(r)) /\ UNCHANGED syncVars

Pod == \/ \E f \in Files : WriteFile(f) \/ RemoveFile(f)
       \/ \E f, g \in Files : RenameFile(f, g)

Main == \/ CopyWatcher \/ StartReader \/ StartWatcher
        \/ \E outcome \in {"failed", "ended"} : ExecReturns(outcome)

Next == Cache \/ Pod \/ Main \/ Reader

(* The goroutine goes on as long as it has something to do, and the        *)
(* failures of kubectl are bounded.                                        *)
Spec == Init /\ [][Next]_vars
FairSpec == Spec /\ WF_vars(Reader)

----------------------------------------------------------------------------
TypeOK ==
    /\ CacheTypeOK
    /\ {remote, local} \subseteq [Files -> 0 .. MaxEdits + 1]
    /\ watcher \in {"none", "whole", "broken"}
    /\ exec \in {"idle", "running", "failed", "ended"}
    /\ stream \in Seq(Events) /\ buffer \in Seq(Events)
    /\ reader \in [at : {"none", "scan", "ended"}]
             \cup [at : {"copy"}, file : Watched, content : 1 .. MaxEdits + 1]
    /\ edits \in 1 .. MaxEdits + 1 /\ misses \in 0 .. MaxMisses
    /\ missed \in [Files -> BOOLEAN]

(* The watcher that is copied to the Pod is the whole one of the run's own *)
(* release, whatever earlier runs left behind in the cache: unless runs    *)
(* overlapped or a removal was cut off.                                    *)
WatcherIsWhole == watcher = "broken" => spoiled

Pending(f) == \/ \E i \in DOMAIN stream : stream[i].file = f
              \/ \E i \in DOMAIN buffer : buffer[i].file = f
              \/ reader.at = "copy" /\ reader.file = f

(* While the watch runs, a watched file without a pending event is the     *)
(* same on both sides, however writes, removals and renames overlapped     *)
(* with copies, unless its last event was lost or failed: copies read the  *)
(* file as it is, never as it was when the event was made.                 *)
Mirrors == exec = "running" =>
             \A f \in Watched : missed[f] \/ Pending(f) \/ local[f] = remote[f]

(* Once the edits are over the directories agree on every watched file     *)
(* whose last event was obeyed, for as long as the watch runs.             *)
Settles == <>[](exec = "running" => \A f \in Watched : missed[f] \/ local[f] = remote[f])

(* When exec fails the goroutine comes to its end: it does not outlive a   *)
(* synchronisation that has returned.                                      *)
ReaderEnds == exec = "failed" ~> reader.at = "ended"

(* What the messages around wg.Wait announce (sync.go:130-132): when exec  *)
(* returns without an error the goroutine ends and SyncFilesFromNotebook   *)
(* returns.                                                                *)
SyncReturns == exec = "ended" ~> reader.at = "ended"

=============================================================================
