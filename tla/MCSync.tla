------------------------------- MODULE MCSync -------------------------------
(* Three runs, one of another release, share the cache; one of them goes   *)
(* on to follow two files, which are also saved under a hidden name.       *)
EXTENDS NotebookSync
MCRelease == [r1 |-> "v2", r2 |-> "v2", r3 |-> "v1"]
MCArchList == <<"amd64", "arm64">>

(* Nothing depends on the cache any more once the watcher was copied.      *)
MCView == IF watcher = "none" THEN <<vars>> ELSE <<spoiled, syncVars>>
=============================================================================
