------------------------------ MODULE Routing ------------------------------
(***************************************************************************)
(* Provider routing (routing.py): every call of a model walks its role's   *)
(* chain of providers, skips those that are cooling down, waits for one of *)
(* the provider's permits, and falls back to the next one on an error.     *)
(* The cooldowns, the degraded marks and the permits are shared by every   *)
(* thread of the process and live in its memory only.                      *)
(***************************************************************************)
EXTENDS Naturals, Sequences, FiniteSets

CONSTANTS
  Callers,      \* the threads that call models, each one call at a time
  Providers,    \* provider names
  Roles,        \* roles with a chain of their own
  Chain,        \* role -> the providers to try, in order
  Permits,      \* provider -> calls it serves at once (concurrency_limit)
  MaxFailures   \* bound: errors of providers

ASSUME RoutingAssumption ==
  /\ IsFiniteSet(Callers)
  /\ Chain \in [Roles -> Seq(Providers)]
  /\ Permits \in [Providers -> Nat \ {0}]
  /\ MaxFailures \in Nat

VARIABLES
  step,      \* caller -> "idle", "trying", "queued", "sent" or, past the chains,
             \*           "direct", and then "returned" or "raised"
  role,      \* caller -> the role its call is for
  at,        \* caller -> its place in the role's chain
  free,      \* provider -> permits of its semaphore that are free
  cooling,   \* providers whose cooldown runs
  degraded,  \* providers whose last failure still counts
  failures

routing == <<step, role, at, free, cooling, degraded, failures>>

Working == {"trying", "queued", "sent"}

NoRole == [c \in Callers |-> CHOOSE r \in Roles : TRUE]

RoutingInit ==
  /\ step = [c \in Callers |-> "idle"]
  /\ role = NoRole /\ at = [c \in Callers |-> 1]
  /\ free = Permits
  /\ cooling = {} /\ degraded = {}
  /\ failures = 0

\* The provider a call is at, once it has one.
Provider(c) == Chain[role[c]][at[c]]

\* primary_degraded: a failed primary with a fallback to carry its load.
PrimaryDegraded(r) == Len(Chain[r]) >= 2 /\ Chain[r][1] \in degraded

Invoke(c, r) ==
  /\ step[c] = "idle"
  /\ step' = [step EXCEPT ![c] = "trying"]
  /\ role' = [role EXCEPT ![c] = r]
  /\ at' = [at EXCEPT ![c] = 1]
  /\ UNCHANGED <<free, cooling, degraded, failures>>

NextProvider(c) == at' = [at EXCEPT ![c] = @ + 1]

\* The chain is at its end: AllProvidersCoolingDown, or the last error.
Exhausted(c) ==
  /\ step[c] = "trying" /\ at[c] > Len(Chain[role[c]])
  /\ step' = [step EXCEPT ![c] = "raised"]
  /\ UNCHANGED <<role, at, free, cooling, degraded, failures>>

TryProvider(c) ==
  /\ step[c] = "trying" /\ at[c] <= Len(Chain[role[c]])
  /\ IF Provider(c) \in cooling
       THEN NextProvider(c) /\ UNCHANGED step
       ELSE step' = [step EXCEPT ![c] = "queued"] /\ UNCHANGED at
  /\ UNCHANGED <<role, free, cooling, degraded, failures>>

Acquire(c) ==
  /\ step[c] = "queued" /\ free[Provider(c)] > 0
  /\ step' = [step EXCEPT ![c] = "sent"]
  /\ free' = [free EXCEPT ![Provider(c)] = @ - 1]
  /\ UNCHANGED <<role, at, cooling, degraded, failures>>

Release(c) == free' = [free EXCEPT ![Provider(c)] = @ + 1]

\* report_success clears the degraded mark and leaves the cooldown.
Answered(c) ==
  /\ step[c] = "sent"
  /\ step' = [step EXCEPT ![c] = "returned"]
  /\ Release(c)
  /\ degraded' = degraded \ {Provider(c)}
  /\ UNCHANGED <<role, at, cooling, failures>>

\* Mutant: a failed call keeps its permit.
FailsHolding(c) ==
  /\ step[c] = "sent" /\ failures < MaxFailures
  /\ failures' = failures + 1
  /\ step' = [step EXCEPT ![c] = "trying"]
  /\ NextProvider(c)
  /\ cooling' = cooling \cup {Provider(c)}
  /\ degraded' = degraded \cup {Provider(c)}
  /\ UNCHANGED <<role, free>>

\* An error: the provider is unwell and cools down, or it rejects what was
\* sent (is_content_error) and stays available.
Fails(c) ==
  /\ step[c] = "sent" /\ failures < MaxFailures
  /\ failures' = failures + 1
  /\ step' = [step EXCEPT ![c] = "trying"]
  /\ NextProvider(c)
  /\ Release(c)
  /\ \/ cooling' = cooling \cup {Provider(c)} /\ degraded' = degraded \cup {Provider(c)}
     \/ UNCHANGED <<cooling, degraded>>
  /\ UNCHANGED role

\* A model that was built without a chain (reflection.build_model): no cooldown,
\* no permit, no fallback.
InvokeDirect(c) ==
  /\ step[c] = "idle"
  /\ step' = [step EXCEPT ![c] = "direct"]
  /\ UNCHANGED <<role, at, free, cooling, degraded, failures>>

DirectEnds(c) ==
  /\ step[c] = "direct"
  /\ \/ step' = [step EXCEPT ![c] = "returned"] /\ UNCHANGED failures
     \/ /\ failures < MaxFailures /\ failures' = failures + 1
        /\ step' = [step EXCEPT ![c] = "raised"]
  /\ UNCHANGED <<role, at, free, cooling, degraded>>

\* The caller's frame goes on with the answer or the exception.
Taken(c) ==
  /\ step[c] \in {"returned", "raised"}
  /\ step' = [step EXCEPT ![c] = "idle"]
  /\ role' = [role EXCEPT ![c] = NoRole[c]] /\ at' = [at EXCEPT ![c] = 1]
  /\ UNCHANGED <<free, cooling, degraded, failures>>

\* A cooldown ends; the degraded mark's timer is the cooldown's plus a grace.
CooldownEnds(p) ==
  /\ p \in cooling
  /\ cooling' = cooling \ {p}
  /\ UNCHANGED <<step, role, at, free, degraded, failures>>

DegradedEnds(p) ==
  /\ p \in degraded \ cooling
  /\ degraded' = degraded \ {p}
  /\ UNCHANGED <<step, role, at, free, cooling, failures>>

\* The process dies: nothing of this outlives it.
RoutingLost ==
  /\ step' = [c \in Callers |-> "idle"]
  /\ role' = NoRole /\ at' = [c \in Callers |-> 1]
  /\ free' = Permits
  /\ cooling' = {} /\ degraded' = {}
  /\ UNCHANGED failures

Route(c) ==
  \/ Exhausted(c) \/ TryProvider(c) \/ Acquire(c) \/ Answered(c) \/ Fails(c)
  \/ DirectEnds(c)

Timers == \E p \in Providers : CooldownEnds(p) \/ DegradedEnds(p)

RoutingTypeOK ==
  /\ step \in [Callers -> {"idle", "direct", "returned", "raised"} \cup Working]
  /\ role \in [Callers -> Roles] /\ at \in [Callers -> Nat \ {0}]
  /\ free \in [Providers -> Nat]
  /\ cooling \in SUBSET Providers /\ degraded \in SUBSET Providers
  /\ failures \in 0..MaxFailures

\* The calls a provider is serving.
Served(p) == {c \in Callers : step[c] = "sent" /\ Provider(c) = p}

\* No permit of a provider is ever lost or served twice, whatever mixture of
\* answers, errors, fallbacks and restarts (routing.py ConcurrencyGate and
\* the "with semaphore" of invoke): a provider whose permits leaked would
\* serve nobody again until the process restarts.
PermitsHeld == \A p \in Providers : free[p] + Cardinality(Served(p)) = Permits[p]
=============================================================================
