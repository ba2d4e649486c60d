--------------------------- MODULE IdentityPolicy ---------------------------
(***************************************************************************)
(* What the binding of cloud identities promises: service accounts are     *)
(* bound to the principal one after the other, none ever loses its         *)
(* binding, and pods are created only with accounts that have theirs.      *)
(***************************************************************************)
CONSTANT Accounts

VARIABLES
  bound,   \* the accounts that may act as the principal
  served   \* the accounts that pods have been created with

vars == <<bound, served>>

Init ==
  /\ bound = {}
  /\ served = {}

Bind(a) ==
  /\ a \notin bound
  /\ bound' = bound \cup {a}
  /\ UNCHANGED served

Serve(a) ==
  /\ a \in bound
  /\ served' = served \cup {a}
  /\ UNCHANGED bound

Next == \E a \in Accounts : Bind(a) \/ Serve(a)

Spec == Init /\ [][Next]_vars
=============================================================================
