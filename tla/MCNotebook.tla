----------------------------- MODULE MCNotebook -----------------------------
(* Model-checking instances of NotebookController. *)
EXTENDS NotebookController

CONSTANTS i1, i2, x, y

MCFirst == <<i1, x>>
=============================================================================
