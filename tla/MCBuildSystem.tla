---------------------------- MODULE MCBuildSystem ----------------------------
(* Model-checking instances of BuildSystem. *)
EXTENDS BuildSystem, TLC

BuildSymmetry == Permutations(Runs) \cup Permutations(Md5s)
=============================================================================
