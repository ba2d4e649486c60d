------------------------------- MODULE MCTui --------------------------------
(* Four terminals; each session is a choice of programs for them.          *)
EXTENDS Tui

CONSTANTS t1, t2, t3, t4, p1, p2, b1, x1, y1

Session(a, b, r, q) == t1 :> a @@ t2 :> b @@ t3 :> r @@ t4 :> q
Alone(p) == Session(p, "none", "none", "none")
MCSessions == {Alone(p) : p \in {"apply", "delete", "get", "serve", "notebook"}} \cup
              {Session("run", "run", "none", "none"), Session("none", "run", "run", "none"),
               Session("none", "none", "run", "run")}
MCMode == t1 :> "increment" @@ t2 :> "increment" @@ t3 :> "replace" @@ t4 :> "replace"
MCPodList == <<b1, p1>>
MCPodListRollout == <<p1, p2>>
MCServeOnly == {Alone("serve")}
MCNotebookOnly == {Alone("notebook")}
MCRoleOf == p1 :> "run" @@ p2 :> "run" @@ b1 :> "build"
MCKindOf == x1 :> "Model" @@ y1 :> "Server"
MCKindList == <<"Model", "Server">>
=============================================================================
