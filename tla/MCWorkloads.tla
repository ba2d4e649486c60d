---------------------------- MODULE MCWorkloads ----------------------------
(* Model-checking instances of Workloads. *)
EXTENDS Workloads, TLC

CONSTANTS d, b, m, srv

\* One Dataset, a Model trained with it, a Server of that Model.
ChainBase == m :> None
ChainData == m :> d
ChainServer == srv :> m

\* A Model fine-tuned from a base Model.
TunedBase == b :> None @@ m :> b
TunedData == b :> None @@ m :> None

NoServer == <<>>

\* Any edit, whichever it is.
AnyStory == [n \in 1..MaxEdits |-> Asks]

\* The Model comes first and keeps its image, but may be deleted and created
\* again.  The fourth edit, if there is one, creates the Server (again).
ServerStory ==
  LET between == Asks \ {<<"change", m>>}
  IN  <<{<<"create", m>>}, between, between, {<<"create", srv>>}>>
=============================================================================
