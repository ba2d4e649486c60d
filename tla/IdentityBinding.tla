--------------------------- MODULE IdentityBinding ---------------------------
(***************************************************************************)
(* How Kubernetes service accounts are bound to the cloud principal:       *)
(* reconcileServiceAccount and AssociatePrincipalSCIServiceAccount of the  *)
(* controllers, and BindIdentity of the SCI, which reads the principal's   *)
(* policy, changes its copy and writes the whole of it back.  Reconcilers  *)
(* of several kinds do this at the same time for the same principal.       *)
(*                                                                         *)
(*   step     the call a reconciler makes next                             *)
(*   "idle"   waiting for its work queue                                   *)
(*   "read"   GetIamPolicy, GetRole                                        *)
(*   "set"    SetIamPolicy, UpdateAssumeRolePolicy                         *)
(*   "apply"  CreateOrUpdate of the ServiceAccount                         *)
(***************************************************************************)
EXTENDS Naturals

CONSTANTS
  Cloud,       \* "gcp", "aws" or "kind"
  Accounts,    \* the service accounts that pods run as
  Sci,         \* the SCI's own service account
  Workers,     \* reconcilers, of any kind
  AccountOf,   \* [Workers -> Accounts]: the one a reconciler's pods run as
  MaxEvents,   \* bound: events that make a reconciler look again
  MaxEdits,    \* bound: service accounts changed by somebody else
  MaxFaults    \* bound: failing calls, lost answers, restarts

ASSUME IdentityAssumption ==
  /\ Cloud \in {"gcp", "aws", "kind"}
  /\ Sci \notin Accounts
  /\ AccountOf \in [Workers -> Accounts]
  /\ MaxEvents \in Nat
  /\ MaxEdits \in Nat
  /\ MaxFaults \in Nat

VARIABLES
  policy,    \* the accounts that the principal's policy trusts
  current,   \* the workers whose copy of the policy carries its ETag
  sa,        \* the ServiceAccounts: "absent", "plain" or "annotated"
  cache,     \* the informer's copies of them, but for Sci
  fresh,     \* the copies that carry the resourceVersion, per account
  manager,   \* "down", "starting" (it has read Sci) or "up"
  queue,     \* the workers with something to reconcile
  worker,    \* [step, copy]: the policy as the SCI read it for the worker
  served,    \* history: the accounts that pods have been created with
  events, edits, faults

saVars == <<sa, cache, fresh>>
bounds == <<events, edits, faults>>
vars == <<policy, current, saVars, manager, queue, worker, served, bounds>>

AllAccounts == Accounts \cup {Sci}
Contents == {"absent", "plain", "annotated"}
Idle == [step |-> "idle", copy |-> {}]

Init ==
  /\ policy = {}
  /\ current = {}
  /\ sa = [a \in AllAccounts |-> IF a = Sci THEN "plain" ELSE "absent"]
  /\ cache = [a \in Accounts |-> "absent"]
  /\ fresh = [a \in AllAccounts |-> IF a = Sci THEN {} ELSE {"cache"}]
  /\ manager = "down"
  /\ queue = Workers
  /\ worker = [w \in Workers |-> Idle]
  /\ served = {}
  /\ events = 0
  /\ edits = 0
  /\ faults = 0

Fault ==
  /\ faults < MaxFaults
  /\ faults' = faults + 1

\* AssociatePrincipal: on GCP the annotation, on kind nothing.
Associated(content) == IF Cloud = "kind" THEN content ELSE "annotated"

StoreAccount(a, content) ==
  /\ sa' = [sa EXCEPT ![a] = content]
  /\ fresh' = IF content = sa[a] THEN fresh ELSE [fresh EXCEPT ![a] = {}]

(***************************************************************************)
(* Start of the manager: AssociatePrincipalSCIServiceAccount with a client *)
(* that does not cache.  A refused Update ends the process, and Kubernetes *)
(* starts it again.                                                        *)
(***************************************************************************)
GetSciAccount ==
  /\ manager = "down"
  /\ manager' = "starting"
  /\ fresh' = [fresh EXCEPT ![Sci] = @ \cup {"manager"}]
  /\ UNCHANGED <<policy, current, sa, cache, queue, worker, served, bounds>>

UpdateSciAccount ==
  /\ manager = "starting"
  /\ IF "manager" \in fresh[Sci]
       THEN /\ manager' = "up"
            /\ StoreAccount(Sci, Associated(sa[Sci]))
       ELSE /\ manager' = "down"
            /\ UNCHANGED <<sa, fresh>>
  /\ UNCHANGED <<policy, current, cache, queue, worker, served, bounds>>

\* The informers list every object again.
Restart ==
  /\ manager = "up"
  /\ Fault
  /\ manager' = "down"
  /\ queue' = Workers
  /\ worker' = [w \in Workers |-> Idle]
  /\ current' = {}
  /\ UNCHANGED <<policy, saVars, served, events, edits>>

(***************************************************************************)
(* The reconcilers.                                                        *)
(***************************************************************************)
Event(w) ==
  /\ events < MaxEvents
  /\ events' = events + 1
  /\ queue' = queue \cup {w}
  /\ UNCHANGED <<policy, current, saVars, manager, worker, served, edits, faults>>

GoTo(w, step) == worker' = [worker EXCEPT ![w].step = step]

\* The error goes back to the work queue, which tries again.
Requeue(w) ==
  /\ worker' = [worker EXCEPT ![w] = Idle]
  /\ queue' = queue \cup {w}

\* GetPrincipal's second result for a ServiceAccount with this content.  (Only
\* the SCI exists for "aws"; no manager in the repository has that Cloud.)
AlreadyBound(content) == Cloud = "kind" \/ content = "annotated"

\* Mutation of Reconcile: the ServiceAccount is written before it is bound.
ReconcileUnbound(w) ==
  /\ manager = "up"
  /\ worker[w].step = "idle"
  /\ w \in queue
  /\ queue' = queue \ {w}
  /\ GoTo(w, "apply")
  /\ UNCHANGED <<policy, current, saVars, manager, served, bounds>>

\* GetPrincipal is asked about the ServiceAccount that the caller has just put
\* together, whose annotations are empty whatever the API server holds.
Reconcile(w) ==
  /\ manager = "up"
  /\ worker[w].step = "idle"
  /\ w \in queue
  /\ queue' = queue \ {w}
  /\ GoTo(w, IF AlreadyBound("plain") THEN "apply" ELSE "read")
  /\ UNCHANGED <<policy, current, saVars, manager, served, bounds>>

GetPolicy(w) ==
  /\ worker[w].step = "read"
  /\ worker' = [worker EXCEPT ![w] = [step |-> "set", copy |-> policy]]
  /\ current' = current \cup {w}
  /\ UNCHANGED <<policy, saVars, manager, queue, served, bounds>>

\* Mutation of BindingsWith: the account of the SCI itself is bound.
BindingsWithSci(copy, a) == copy \cup {Sci}

\* The policy that BindIdentity writes for an account.  GCP's appends a
\* binding; AWS's puts the account in the place of the one that the statement
\* of the OIDC provider trusts, and appends a statement if there is none.
BindingsWith(copy, a) == IF Cloud = "aws" THEN {a} ELSE copy \cup {a}

\* Mutation of Accepted: the ETag is not sent.
AcceptedBlindly(w) == TRUE

\* GCP refuses a policy whose ETag is not the current one; AWS has none.
Accepted(w) == Cloud = "aws" \/ w \in current

WritePolicy(w) ==
  /\ policy' = BindingsWith(worker[w].copy, AccountOf[w])
  /\ current' = {}

SetPolicy(w) ==
  /\ worker[w].step = "set"
  /\ Accepted(w)
  /\ WritePolicy(w)
  /\ worker' = [worker EXCEPT ![w] = [step |-> "apply", copy |-> {}]]
  /\ UNCHANGED <<saVars, manager, queue, served, bounds>>

\* Mutation of PolicyConflict: the error is logged and forgotten.
PolicyConflictIgnored(w) ==
  /\ worker[w].step = "set"
  /\ ~Accepted(w)
  /\ worker' = [worker EXCEPT ![w] = Idle]
  /\ UNCHANGED <<policy, current, saVars, manager, queue, served, bounds>>

PolicyConflict(w) ==
  /\ worker[w].step = "set"
  /\ ~Accepted(w)
  /\ Requeue(w)
  /\ UNCHANGED <<policy, current, saVars, manager, served, bounds>>

\* The policy is written, but the answer of the SCI never arrives.
AnswerLost(w) ==
  /\ worker[w].step = "set"
  /\ Accepted(w)
  /\ Fault
  /\ WritePolicy(w)
  /\ Requeue(w)
  /\ UNCHANGED <<saVars, manager, served, events, edits>>

CallFails(w) ==
  /\ worker[w].step # "idle"
  /\ Fault
  /\ Requeue(w)
  /\ UNCHANGED <<policy, current, saVars, manager, served, events, edits>>

\* CreateOrUpdate.  It gets the ServiceAccount from the cache, creates it if
\* it is not there, and else updates it if AssociatePrincipal changes it.
Wanted(a) == Associated(IF cache[a] = "absent" THEN "plain" ELSE cache[a])

\* What the API server says to that: AlreadyExists, or a conflict, for a copy
\* that is out of date.
Allowed(a) ==
  \/ Wanted(a) = cache[a]
  \/ cache[a] = "absent" /\ sa[a] = "absent"
  \/ cache[a] # "absent" /\ "cache" \in fresh[a]

ApplyAccount(w) ==
  LET a == AccountOf[w]
  IN  /\ worker[w].step = "apply"
      /\ Allowed(a)
      /\ IF Wanted(a) = cache[a] THEN UNCHANGED <<sa, fresh>>
                                 ELSE StoreAccount(a, Wanted(a))
      /\ worker' = [worker EXCEPT ![w] = Idle]
      /\ served' = served \cup {a}
      /\ UNCHANGED <<policy, current, cache, manager, queue, bounds>>

ApplyConflict(w) ==
  /\ worker[w].step = "apply"
  /\ ~Allowed(AccountOf[w])
  /\ Requeue(w)
  /\ UNCHANGED <<policy, current, saVars, manager, served, bounds>>

(***************************************************************************)
(* The informer, and whoever else has a hand in the ServiceAccounts: they  *)
(* are deleted with a namespace, or applied anew without the annotation.   *)
(***************************************************************************)
SyncAccount(a) ==
  /\ "cache" \notin fresh[a]
  /\ cache' = [cache EXCEPT ![a] = sa[a]]
  /\ fresh' = [fresh EXCEPT ![a] = @ \cup {"cache"}]
  /\ UNCHANGED <<policy, current, sa, manager, queue, worker, served, bounds>>

EditAccount(a) ==
  /\ edits < MaxEdits
  /\ edits' = edits + 1
  /\ \E content \in {"absent", "plain"} :
       /\ a = Sci => content = "plain"
       /\ content # sa[a]
       /\ StoreAccount(a, content)
  /\ UNCHANGED <<policy, current, cache, manager, queue, worker, served,
                 events, faults>>

WorkerStep(w) ==
  \/ Reconcile(w) \/ GetPolicy(w) \/ SetPolicy(w) \/ PolicyConflict(w)
  \/ ApplyAccount(w) \/ ApplyConflict(w)

ManagerStep == GetSciAccount \/ UpdateSciAccount

Next ==
  \/ ManagerStep \/ Restart
  \/ \E w \in Workers : WorkerStep(w) \/ Event(w) \/ AnswerLost(w) \/ CallFails(w)
  \/ \E a \in Accounts : SyncAccount(a)
  \/ \E a \in AllAccounts : EditAccount(a)

Spec == Init /\ [][Next]_vars

\* Controllers work off their queues with backoff and for ever, informers keep
\* up, and Kubernetes restarts the manager.
FairSpec ==
  /\ Spec
  /\ WF_vars(ManagerStep)
  /\ \A w \in Workers : WF_vars(WorkerStep(w))
  /\ \A a \in Accounts : WF_vars(SyncAccount(a))

TypeOK ==
  /\ policy \subseteq Accounts
  /\ current \subseteq Workers
  /\ sa \in [AllAccounts -> Contents]
  /\ cache \in [Accounts -> Contents]
  /\ fresh \in [AllAccounts -> SUBSET {"cache", "manager"}]
  /\ manager \in {"down", "starting", "up"}
  /\ queue \subseteq Workers
  /\ worker \in [Workers -> [step : {"idle", "read", "set", "apply"},
                             copy : SUBSET Accounts]]
  /\ served \subseteq Accounts
  /\ events \in 0..MaxEvents
  /\ edits \in 0..MaxEdits
  /\ faults \in 0..MaxFaults

(***************************************************************************)
(* Properties.                                                             *)
(***************************************************************************)

\* On GCP, BindIdentity's read, change and write of one policy by several
\* reconcilers at once implements a set of bindings that only grows, and no
\* reconciler goes on to create pods before their account is in it.
Policy == INSTANCE IdentityPolicy WITH bound <- policy

RefinesPolicy == Policy!Spec

\* On GCP, a ServiceAccount that tells its pods to act as the principal is
\* trusted by the principal: a failed or half-done binding leaves no
\* annotation behind, whoever else is writing the policy.
AnnotatedIsBound ==
  Cloud = "gcp" => \A a \in Accounts : sa[a] = "annotated" => a \in policy

Identified(a) == sa[a] = "annotated" /\ a \in policy

\* Refused writes of the policy or of the ServiceAccount, lost answers and
\* restarts only delay an account's identity.  Nobody watches ServiceAccounts:
\* a reconciler repairs one only from a copy that shows the damage.
IdentityIsRestored ==
  \A w \in Workers :
    LET a == AccountOf[w]
    IN  w \in queue /\ edits = MaxEdits /\ "cache" \in fresh[a]
          ~> Identified(a)

(***************************************************************************)
(* What the repository says and the code does not do: TLC refutes the      *)
(* first on GCP and the second on AWS.                                     *)
(***************************************************************************)

\* GetPrincipal returns "whether the principal was already bound successfully
\* to the service account": such an account is not bound again.
BindsOnce ==
  [][\A w \in Workers :
       worker[w].step = "idle" /\ Identified(AccountOf[w])
         => worker'[w].step # "read"]_vars

\* docs/proposals/operator-managed-infra.md: the binding is called "to ensure
\* the new KSA has access to the AWS IAM Role"; an account that was given
\* access is not shut out when the next one is.
AccessIsKept == [][policy \subseteq policy']_vars
=============================================================================
