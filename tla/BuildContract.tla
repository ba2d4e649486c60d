---------------------------- MODULE BuildContract ----------------------------
(***************************************************************************)
(* What the build promises the rest of the system about one object: users  *)
(* ask for builds, images get pushed, and an image is released into the    *)
(* spec only when it exists and is the one that is being asked for.        *)
(***************************************************************************)
CONSTANTS Md5s, GitRefs, Runs, NoTag, NoRun

VARIABLES
  want,    \* the build the object asks for
  image,   \* the image the workload of the object may use, or NoTag
  pushed   \* tags the registry holds an image for

contractVars == <<want, image, pushed>>

Wants == {[src |-> "upload", tag |-> m, req |-> r] : m \in Md5s, r \in Runs}
           \cup {[src |-> "git", tag |-> g, req |-> NoRun] : g \in GitRefs}

Init ==
  /\ want = [src |-> "none", tag |-> NoTag, req |-> NoRun]
  /\ image = NoTag
  /\ pushed = {}

\* A new upload withdraws the image; a new git reference leaves it in place
\* until its own build is there.
Ask ==
  /\ want' \in Wants
  /\ image' = IF want'.src = "upload" THEN NoTag ELSE image
  /\ UNCHANGED pushed

Push ==
  /\ \E t \in Md5s \cup GitRefs : pushed' = pushed \cup {t}
  /\ UNCHANGED <<want, image>>

Release ==
  /\ want.tag \in pushed
  /\ image' = want.tag
  /\ UNCHANGED <<want, pushed>>

Next == Ask \/ Push \/ Release

Spec == Init /\ [][Next]_contractVars
=============================================================================
