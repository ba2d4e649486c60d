--------------------------- MODULE IdentityProofs ---------------------------
(***************************************************************************)
(* Proofs about IdentityBinding for any number of reconcilers and          *)
(* accounts.  The argument on GCP: a copy of the policy that still carries *)
(* its ETag equals the policy, so a write that is accepted only adds; and  *)
(* a reconciler that is past its binding keeps it.                         *)
(***************************************************************************)
EXTENDS IdentityBinding, TLAPS

USE IdentityAssumption

THEOREM TypeInit == Init => TypeOK
  BY DEF Init, TypeOK, Idle, Contents, AllAccounts

LEMMA AssociatedType == ASSUME NEW c \in Contents PROVE Associated(c) \in Contents
  BY DEF Associated, Contents

LEMMA StoreType ==
  ASSUME TypeOK, NEW a \in AllAccounts, NEW c \in Contents, StoreAccount(a, c)
  PROVE  /\ sa' \in [AllAccounts -> Contents]
         /\ fresh' \in [AllAccounts -> SUBSET {"cache", "manager"}]
  BY DEF TypeOK, StoreAccount

LEMMA WritePolicyType ==
  ASSUME TypeOK, NEW w \in Workers, WritePolicy(w)
  PROVE  policy' \subseteq Accounts /\ current' \subseteq Workers
  BY DEF TypeOK, WritePolicy, BindingsWith

LEMMA WorkerStepType ==
  ASSUME TypeOK, NEW w \in Workers, WorkerStep(w)
  PROVE  TypeOK'
<1>a. AccountOf[w] \in Accounts
  OBVIOUS
<1>1. CASE Reconcile(w)
  BY <1>1 DEF TypeOK, Reconcile, GoTo, saVars, bounds
<1>2. CASE GetPolicy(w)
  BY <1>2 DEF TypeOK, GetPolicy, saVars, bounds
<1>3. CASE SetPolicy(w)
  BY <1>3, WritePolicyType DEF TypeOK, SetPolicy, saVars, bounds
<1>4. CASE PolicyConflict(w)
  BY <1>4 DEF TypeOK, PolicyConflict, Requeue, Idle, saVars, bounds
<1>5. CASE ApplyAccount(w)
  <2>1. Wanted(AccountOf[w]) \in Contents
    BY <1>a, AssociatedType DEF TypeOK, Wanted, Contents
  <2>2. /\ sa' \in [AllAccounts -> Contents]
        /\ fresh' \in [AllAccounts -> SUBSET {"cache", "manager"}]
    BY <1>5, <1>a, <2>1, StoreType DEF ApplyAccount, AllAccounts, TypeOK
  <2>3. worker' \in [Workers -> [step : {"idle", "read", "set", "apply"},
                                 copy : SUBSET Accounts]]
    BY <1>5 DEF ApplyAccount, TypeOK, Idle
  <2> QED
    BY <1>5, <1>a, <2>2, <2>3 DEF ApplyAccount, TypeOK, bounds
<1>6. CASE ApplyConflict(w)
  BY <1>6 DEF TypeOK, ApplyConflict, Requeue, Idle, saVars, bounds
<1> QED
  BY <1>1, <1>2, <1>3, <1>4, <1>5, <1>6 DEF WorkerStep

LEMMA TypeStep == TypeOK /\ [Next]_vars => TypeOK'
<1> SUFFICES ASSUME TypeOK, [Next]_vars PROVE TypeOK'
  OBVIOUS
<1>1. CASE GetSciAccount
  <2>1. fresh' \in [AllAccounts -> SUBSET {"cache", "manager"}]
    BY <1>1 DEF TypeOK, GetSciAccount
  <2> QED
    BY <1>1, <2>1 DEF TypeOK, GetSciAccount, bounds
<1>2. CASE UpdateSciAccount
  <2>1. Sci \in AllAccounts /\ Associated(sa[Sci]) \in Contents
    BY AssociatedType DEF AllAccounts, TypeOK
  <2>2. /\ sa' \in [AllAccounts -> Contents]
        /\ fresh' \in [AllAccounts -> SUBSET {"cache", "manager"}]
    BY <1>2, <2>1, StoreType DEF UpdateSciAccount, TypeOK
  <2> QED
    BY <1>2, <2>2 DEF TypeOK, UpdateSciAccount, bounds
<1>3. CASE Restart
  BY <1>3 DEF TypeOK, Restart, Fault, Idle, saVars
<1>4. ASSUME NEW w \in Workers,
             WorkerStep(w) \/ Event(w) \/ AnswerLost(w) \/ CallFails(w)
      PROVE  TypeOK'
  <2>1. CASE WorkerStep(w)
    BY <2>1, WorkerStepType
  <2>2. CASE Event(w)
    BY <2>2 DEF TypeOK, Event, saVars
  <2>3. CASE AnswerLost(w)
    <3>1. policy' \subseteq Accounts /\ current' \subseteq Workers
      BY <2>3, WritePolicyType DEF AnswerLost
    <3> QED
      BY <2>3, <3>1 DEF TypeOK, AnswerLost, Requeue, Fault, Idle, saVars
  <2>4. CASE CallFails(w)
    BY <2>4 DEF TypeOK, CallFails, Requeue, Fault, Idle, saVars
  <2> QED
    BY <1>4, <2>1, <2>2, <2>3, <2>4
<1>5. ASSUME NEW a \in Accounts, SyncAccount(a) PROVE TypeOK'
  <2>1. a \in AllAccounts
    BY DEF AllAccounts
  <2> QED
    BY <1>5, <2>1 DEF TypeOK, SyncAccount, bounds
<1>6. ASSUME NEW a \in AllAccounts, EditAccount(a) PROVE TypeOK'
  <2>1. PICK c \in {"absent", "plain"} : StoreAccount(a, c)
    BY <1>6 DEF EditAccount
  <2>2. /\ sa' \in [AllAccounts -> Contents]
        /\ fresh' \in [AllAccounts -> SUBSET {"cache", "manager"}]
    BY <2>1, StoreType DEF Contents
  <2> QED
    BY <1>6, <2>2 DEF TypeOK, EditAccount
<1>7. CASE UNCHANGED vars
  BY <1>7 DEF TypeOK, vars, saVars, bounds
<1> QED
  BY <1>1, <1>2, <1>3, <1>4, <1>5, <1>6, <1>7 DEF Next, ManagerStep

\* Every state of the binding has its type, on every cloud.
THEOREM TypeCorrect == Spec => []TypeOK
  BY TypeInit, TypeStep, PTL DEF Spec

(***************************************************************************)
(* GCP.  What a reconciler and the ServiceAccounts know of the policy.     *)
(***************************************************************************)
CopyIsCurrent ==
  \A w \in current : worker[w].step = "set" => worker[w].copy = policy

PastBinding ==
  \A w \in Workers : worker[w].step = "apply" => AccountOf[w] \in policy

CacheIsBound == \A a \in Accounts : cache[a] = "annotated" => a \in policy

BindingInv ==
  /\ CopyIsCurrent
  /\ PastBinding
  /\ CacheIsBound
  /\ AnnotatedIsBound
  /\ served \subseteq policy

LEMMA BindingInit == Cloud = "gcp" /\ Init => BindingInv
  BY DEF Init, Idle, BindingInv, CopyIsCurrent, PastBinding, CacheIsBound,
         AnnotatedIsBound, AllAccounts

\* A step that leaves the policy and the ServiceAccounts alone, and starts no
\* reconciler on "set" or "apply", keeps the invariant.
LEMMA BindingQuiet ==
  ASSUME BindingInv, UNCHANGED <<policy, sa, cache, served>>,
         current' \subseteq current,
         \A w \in Workers : \/ worker'[w] = worker[w]
                            \/ worker'[w].step \in {"idle", "read"},
         current \subseteq Workers
  PROVE  BindingInv'
  BY DEF BindingInv, CopyIsCurrent, PastBinding, CacheIsBound, AnnotatedIsBound

\* An accepted write of the policy adds the account and takes nobody out.
LEMMA WriteAdds ==
  ASSUME Cloud = "gcp", TypeOK, BindingInv, NEW w \in Workers,
         worker[w].step = "set", Accepted(w), WritePolicy(w)
  PROVE  policy' = policy \cup {AccountOf[w]} /\ current' = {}
  BY DEF BindingInv, CopyIsCurrent, Accepted, WritePolicy, BindingsWith

LEMMA WriteKeeps ==
  ASSUME Cloud = "gcp", TypeOK, BindingInv, NEW w \in Workers,
         worker[w].step = "set", Accepted(w), WritePolicy(w),
         UNCHANGED <<sa, cache, served>>,
         \A v \in Workers \ {w} : worker'[v] = worker[v]
  PROVE  BindingInv'
<1>1. policy' = policy \cup {AccountOf[w]} /\ current' = {}
  BY WriteAdds
<1>2. CopyIsCurrent'
  BY <1>1 DEF CopyIsCurrent
<1>3. PastBinding'
  BY <1>1 DEF PastBinding, BindingInv
<1>4. CacheIsBound' /\ AnnotatedIsBound' /\ (served \subseteq policy)'
  BY <1>1 DEF CacheIsBound, AnnotatedIsBound, BindingInv
<1> QED
  BY <1>2, <1>3, <1>4 DEF BindingInv

LEMMA ApplyKeeps ==
  ASSUME Cloud = "gcp", TypeOK, BindingInv, NEW w \in Workers, ApplyAccount(w)
  PROVE  BindingInv'
<1> DEFINE a == AccountOf[w]
<1>1. a \in Accounts /\ a \in policy
  BY DEF ApplyAccount, BindingInv, PastBinding
<1>2. policy' = policy /\ cache' = cache /\ current' = current
  BY DEF ApplyAccount
<1>3. served' \subseteq policy'
  BY <1>1, <1>2 DEF ApplyAccount, BindingInv
<1>4. \A b \in Accounts \ {a} : sa'[b] = sa[b]
  BY DEF ApplyAccount, StoreAccount, TypeOK, AllAccounts
<1>5. AnnotatedIsBound'
  BY <1>1, <1>2, <1>4 DEF AnnotatedIsBound, BindingInv
<1>6. \A v \in Workers : worker'[v] = worker[v] \/ worker'[v].step = "idle"
  BY DEF ApplyAccount, Idle, TypeOK
<1>7. CopyIsCurrent' /\ PastBinding' /\ CacheIsBound'
  BY <1>2, <1>6
     DEF CopyIsCurrent, PastBinding, CacheIsBound, BindingInv, TypeOK
<1> QED
  BY <1>3, <1>5, <1>7 DEF BindingInv

LEMMA BindingStep ==
  ASSUME Cloud = "gcp", TypeOK, BindingInv, [Next]_vars
  PROVE  BindingInv'
<1>t. current \subseteq Workers
  BY DEF TypeOK
<1>1. CASE GetSciAccount \/ UNCHANGED vars
  BY <1>1, <1>t, BindingQuiet DEF GetSciAccount, vars, saVars
<1>2. CASE UpdateSciAccount
  <2>1. \A a \in Accounts : sa'[a] = sa[a]
    BY <1>2 DEF UpdateSciAccount, StoreAccount, TypeOK, AllAccounts
  <2> QED
    BY <1>2, <2>1
       DEF UpdateSciAccount, BindingInv, CopyIsCurrent, PastBinding,
           CacheIsBound, AnnotatedIsBound
<1>3. CASE Restart
  BY <1>3, <1>t, BindingQuiet DEF Restart, Idle, saVars
<1>4. ASSUME NEW w \in Workers,
             WorkerStep(w) \/ Event(w) \/ AnswerLost(w) \/ CallFails(w)
      PROVE  BindingInv'
  <2>1. CASE Reconcile(w)
    BY <2>1, <1>t, BindingQuiet
       DEF Reconcile, GoTo, AlreadyBound, TypeOK, saVars
  <2>2. CASE GetPolicy(w)
    <3>1. CopyIsCurrent'
      BY <2>2 DEF GetPolicy, CopyIsCurrent, BindingInv, TypeOK
    <3>2. PastBinding'
      BY <2>2 DEF GetPolicy, PastBinding, BindingInv, TypeOK
    <3> QED
      BY <2>2, <3>1, <3>2
         DEF GetPolicy, BindingInv, CacheIsBound, AnnotatedIsBound, saVars
  <2>3. CASE SetPolicy(w)
    <3>1. \A v \in Workers \ {w} : worker'[v] = worker[v]
      BY <2>3 DEF SetPolicy, TypeOK
    <3> QED
      BY <2>3, <3>1, WriteKeeps DEF SetPolicy, saVars
  <2>4. CASE PolicyConflict(w) \/ ApplyConflict(w) \/ CallFails(w)
    BY <2>4, <1>t, BindingQuiet
       DEF PolicyConflict, ApplyConflict, CallFails, Requeue, Idle, TypeOK, saVars
  <2>5. CASE ApplyAccount(w)
    BY <2>5, ApplyKeeps
  <2>6. CASE Event(w)
    BY <2>6, <1>t, BindingQuiet DEF Event, saVars
  <2>7. CASE AnswerLost(w)
    <3>1. \A v \in Workers \ {w} : worker'[v] = worker[v]
      BY <2>7 DEF AnswerLost, Requeue, TypeOK
    <3> QED
      BY <2>7, <3>1, WriteKeeps DEF AnswerLost, saVars
  <2> QED
    BY <1>4, <2>1, <2>2, <2>3, <2>4, <2>5, <2>6, <2>7 DEF WorkerStep
<1>5. ASSUME NEW a \in Accounts, SyncAccount(a) PROVE BindingInv'
  <2>1. CacheIsBound'
    BY <1>5 DEF SyncAccount, CacheIsBound, AnnotatedIsBound, BindingInv, TypeOK
  <2> QED
    BY <1>5, <2>1
       DEF SyncAccount, BindingInv, CopyIsCurrent, PastBinding, AnnotatedIsBound
<1>6. ASSUME NEW a \in AllAccounts, EditAccount(a) PROVE BindingInv'
  <2>1. \A b \in Accounts : sa'[b] = sa[b] \/ sa'[b] # "annotated"
    BY <1>6 DEF EditAccount, StoreAccount, TypeOK, AllAccounts
  <2> QED
    BY <1>6, <2>1
       DEF EditAccount, BindingInv, CopyIsCurrent, PastBinding, CacheIsBound,
           AnnotatedIsBound
<1> QED
  BY <1>1, <1>2, <1>3, <1>4, <1>5, <1>6 DEF Next, ManagerStep

\* On GCP, only accounts that the principal trusts carry its annotation.
THEOREM AnnotationsAreBound == Spec => []AnnotatedIsBound
<1>1. CASE Cloud = "gcp"
  <2>1. Init => TypeOK /\ BindingInv
    BY <1>1, TypeInit, BindingInit
  <2>2. TypeOK /\ BindingInv /\ [Next]_vars => (TypeOK /\ BindingInv)'
    BY <1>1, TypeStep, BindingStep
  <2>3. TypeOK /\ BindingInv => AnnotatedIsBound
    BY DEF BindingInv
  <2> QED
    BY <2>1, <2>2, <2>3, PTL DEF Spec
<1>2. CASE Cloud # "gcp"
  <2>1. AnnotatedIsBound
    BY <1>2 DEF AnnotatedIsBound
  <2> QED
    BY <2>1, PTL
<1> QED
  BY <1>1, <1>2

(***************************************************************************)
(* The refinement of IdentityPolicy.                                       *)
(***************************************************************************)
LEMMA PolicyStep ==
  ASSUME Cloud = "gcp", TypeOK, BindingInv, [Next]_vars
  PROVE  [Policy!Next]_(Policy!vars)
<1> USE DEF Policy!Next, Policy!Bind, Policy!Serve, Policy!vars
<1>1. CASE \E w \in Workers : SetPolicy(w) \/ AnswerLost(w)
  <2>1. PICK w \in Workers : SetPolicy(w) \/ AnswerLost(w)
    BY <1>1
  <2>2. policy' = policy \cup {AccountOf[w]} /\ served' = served
    BY <2>1, WriteAdds DEF SetPolicy, AnswerLost
  <2>3. AccountOf[w] \in Accounts
    OBVIOUS
  <2> QED
    BY <2>2, <2>3
<1>2. CASE \E w \in Workers : ApplyAccount(w)
  <2>1. PICK w \in Workers : ApplyAccount(w)
    BY <1>2
  <2>2. AccountOf[w] \in policy /\ AccountOf[w] \in Accounts
    BY <2>1 DEF ApplyAccount, BindingInv, PastBinding
  <2> QED
    BY <2>1, <2>2 DEF ApplyAccount
<1>3. CASE UNCHANGED <<policy, served>>
  BY <1>3
<1> QED
  BY <1>1, <1>2, <1>3
     DEF Next, ManagerStep, GetSciAccount, UpdateSciAccount, Restart, WorkerStep,
         Event, CallFails, Reconcile, GetPolicy, PolicyConflict, ApplyConflict,
         SyncAccount, EditAccount, vars

\* On GCP, concurrent BindIdentity calls and the reconcilers around them
\* implement a set of bindings that only grows and precedes every use.
THEOREM BindingImplementsPolicy == Cloud = "gcp" => (Spec => RefinesPolicy)
<1> SUFFICES ASSUME Cloud = "gcp" PROVE Spec => RefinesPolicy
  OBVIOUS
<1>1. Init => TypeOK /\ BindingInv /\ Policy!Init
  BY TypeInit, BindingInit DEF Init, Policy!Init
<1>2. TypeOK /\ BindingInv /\ [Next]_vars => (TypeOK /\ BindingInv)'
  BY TypeStep, BindingStep
<1>3. TypeOK /\ BindingInv /\ [Next]_vars => [Policy!Next]_(Policy!vars)
  BY PolicyStep
<1> QED
  BY <1>1, <1>2, <1>3, PTL DEF Spec, RefinesPolicy, Policy!Spec
=============================================================================
