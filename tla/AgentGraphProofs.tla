-------------------------- MODULE AgentGraphProofs --------------------------
(***************************************************************************)
(* For every set of agents, of other threads, of providers and of turns,   *)
(* and any number of failures and crashes: the types, that no permit of a  *)
(* provider is lost, that no forbidden command of one line runs, that a    *)
(* settled thread stays settled, that each nudge is given once, and that   *)
(* every request is one its providers accept: the repair of a checkpoint   *)
(* answers what was left open and can be answered, once, leaves what is    *)
(* accepted as it is, and the bounds of a request never cut at an answer.  *)
(***************************************************************************)
EXTENDS AgentGraph, FiniteSetTheorems, SequenceTheorems, TLAPS

----------------------------------------------------------------------------
(* Routing, whose steps are the same whoever takes them.                   *)

RoutingStep ==
  \/ \E c \in Callers : Route(c) \/ Taken(c) \/ InvokeDirect(c) \/ \E r \in Roles : Invoke(c, r)
  \/ Timers
  \/ RoutingLost

\* A call that waits for a permit or holds one is at a provider of its chain.
Placed ==
  \A c \in Callers :
    step[c] \in {"queued", "sent"} => at[c] \in 1..Len(Chain[role[c]])

RoutingInv == RoutingTypeOK /\ Placed /\ PermitsHeld

LEMMA RoutingConstants ==
  /\ \A r \in Roles : Len(Chain[r]) \in Nat
  /\ \A r \in Roles : \A i \in 1..Len(Chain[r]) : Chain[r][i] \in Providers
  /\ Permits \in [Providers -> Nat \ {0}]
  /\ MaxFailures \in Nat
  /\ IsFiniteSet(Callers)
BY RoutingAssumption

LEMMA NoRoleType == NoRole \in [Callers -> Roles]
BY AgentAssumption DEF NoRole

LEMMA RoutingStarts == RoutingInit => RoutingInv
<1> SUFFICES ASSUME RoutingInit
             PROVE  RoutingInv
  OBVIOUS
<1>1. RoutingTypeOK
  BY NoRoleType, RoutingConstants DEF RoutingInit, RoutingTypeOK, Working
<1>2. Placed
  BY DEF RoutingInit, Placed
<1>3. \A p \in Providers : Served(p) = {}
  BY DEF RoutingInit, Served
<1>4. PermitsHeld
  <2>1. \A p \in Providers : Cardinality(Served(p)) = 0
    BY <1>3, FS_EmptySet, Zenon
  <2> QED
    BY <2>1, RoutingConstants DEF RoutingInit, PermitsHeld
<1> QED
  BY <1>1, <1>2, <1>4 DEF RoutingInv

LEMMA ServedFinite ==
  \A p \in Providers : IsFiniteSet(Served(p)) /\ Cardinality(Served(p)) \in Nat
BY RoutingConstants, FS_Subset, FS_CardinalityType DEF Served

\* A step that leaves every semaphore and every served call alone.
LEMMA PermitsUntouched ==
  ASSUME PermitsHeld, free' = free, \A p \in Providers : Served(p)' = Served(p)
  PROVE  PermitsHeld'
BY DEF PermitsHeld

LEMMA RoutingStays ==
  ASSUME RoutingInv, RoutingStep
  PROVE  RoutingInv'
<1> USE RoutingConstants, NoRoleType DEF RoutingInv, RoutingTypeOK, Placed, Working
<1>1. ASSUME NEW c \in Callers, NEW r \in Roles, Invoke(c, r)
      PROVE  RoutingInv'
  <2>1. RoutingTypeOK' /\ Placed'
    BY <1>1 DEF Invoke
  <2>2. \A p \in Providers : Served(p)' = Served(p)
    BY <1>1 DEF Invoke, Served, Provider
  <2> QED
    BY <2>1, <2>2, <1>1, PermitsUntouched DEF Invoke
<1>2. ASSUME NEW c \in Callers, Exhausted(c)
      PROVE  RoutingInv'
  <2>1. RoutingTypeOK' /\ Placed'
    BY <1>2 DEF Exhausted
  <2>2. \A p \in Providers : Served(p)' = Served(p)
    BY <1>2 DEF Exhausted, Served, Provider
  <2> QED
    BY <2>1, <2>2, <1>2, PermitsUntouched DEF Exhausted
<1>3. ASSUME NEW c \in Callers, TryProvider(c)
      PROVE  RoutingInv'
  <2>0. /\ step[c] = "trying" /\ at[c] \in 1..Len(Chain[role[c]])
        /\ UNCHANGED <<role, free, cooling, degraded, failures>>
        /\ \/ at' = [at EXCEPT ![c] = @ + 1] /\ step' = step
           \/ step' = [step EXCEPT ![c] = "queued"] /\ at' = at
    <3>1. CASE Provider(c) \in cooling
      BY <3>1, <1>3 DEF TryProvider, NextProvider
    <3>2. CASE Provider(c) \notin cooling
      BY <3>2, <1>3 DEF TryProvider
    <3> QED
      BY <3>1, <3>2
  <2>1. RoutingTypeOK' /\ Placed'
    <3>1. CASE at' = [at EXCEPT ![c] = @ + 1] /\ step' = step
      BY <2>0, <3>1
    <3>2. CASE step' = [step EXCEPT ![c] = "queued"] /\ at' = at
      BY <2>0, <3>2
    <3> QED
      BY <2>0, <3>1, <3>2
  <2>2. \A p \in Providers : Served(p)' = Served(p)
    BY <2>0 DEF Served, Provider
  <2> QED
    BY <2>1, <2>2, <1>3, PermitsUntouched DEF TryProvider
<1>4. ASSUME NEW c \in Callers, Acquire(c)
      PROVE  RoutingInv'
  <2>0. Provider(c) \in Providers
    BY <1>4 DEF Acquire, Provider
  <2>1. RoutingTypeOK' /\ Placed'
    BY <1>4, <2>0 DEF Acquire
  <2>q. PICK q \in Providers : q = Provider(c)
    BY <2>0
  <2>2. /\ \A p \in Providers \ {q} : Served(p)' = Served(p)
        /\ Served(q)' = Served(q) \cup {c}
        /\ c \notin Served(q)
    BY <1>4, <2>q DEF Acquire, Served, Provider
  <2>3. \A p \in Providers :
          Cardinality(Served(p)') = Cardinality(Served(p)) + (IF p = q THEN 1 ELSE 0)
    <3> TAKE p \in Providers
    <3>1. CASE p = q
      BY <3>1, <2>2, ServedFinite, FS_AddElement
    <3>2. CASE p # q
      BY <3>2, <2>2, ServedFinite
    <3> QED
      BY <3>1, <3>2
  <2>4. PermitsHeld'
    BY <1>4, <2>q, <2>3, ServedFinite DEF Acquire, PermitsHeld
  <2> QED
    BY <2>1, <2>4
<1>5. ASSUME NEW c \in Callers, Answered(c) \/ Fails(c)
      PROVE  RoutingInv'
  <2>0. Provider(c) \in Providers /\ step[c] = "sent"
    BY <1>5 DEF Answered, Fails, Provider
  <2>1. RoutingTypeOK' /\ Placed'
    <3>1. CASE Answered(c)
      BY <3>1, <2>0 DEF Answered, Release
    <3>2. CASE Fails(c)
      BY <3>2, <2>0 DEF Fails, Release, NextProvider
    <3> QED
      BY <1>5, <3>1, <3>2
  <2>q. PICK q \in Providers : q = Provider(c)
    BY <2>0
  <2>2. /\ \A p \in Providers \ {q} : Served(p)' = Served(p)
        /\ Served(q)' = Served(q) \ {c}
        /\ c \in Served(q)
    <3>1. CASE Answered(c)
      BY <3>1, <2>q DEF Answered, Served, Provider
    <3>2. CASE Fails(c)
      <4>1. /\ step[c] = "sent" /\ role' = role
            /\ step' = [step EXCEPT ![c] = "trying"] /\ at' = [at EXCEPT ![c] = @ + 1]
        BY <3>2 DEF Fails, NextProvider
      <4> QED
        BY <4>1, <2>q DEF Served, Provider
    <3> QED
      BY <1>5, <3>1, <3>2
  <2>3. \A p \in Providers :
          Cardinality(Served(p)') = Cardinality(Served(p)) - (IF p = q THEN 1 ELSE 0)
    <3> TAKE p \in Providers
    <3>1. CASE p = q
      <4>1. Cardinality(Served(q) \ {c}) = Cardinality(Served(q)) - 1
        BY <2>2, ServedFinite, FS_RemoveElement
      <4> QED
        BY <3>1, <2>2, <4>1
    <3>2. CASE p # q
      BY <3>2, <2>2, ServedFinite
    <3> QED
      BY <3>1, <3>2
  <2>4. free' = [free EXCEPT ![q] = @ + 1]
    BY <1>5, <2>q DEF Answered, Fails, Release
  <2>5. PermitsHeld'
    BY <2>3, <2>4, ServedFinite DEF PermitsHeld
  <2> QED
    BY <2>1, <2>5
<1>6. ASSUME NEW c \in Callers, Taken(c)
      PROVE  RoutingInv'
  <2>1. RoutingTypeOK' /\ Placed'
    BY <1>6 DEF Taken
  <2>2. \A p \in Providers : Served(p)' = Served(p)
    BY <1>6 DEF Taken, Served, Provider
  <2> QED
    BY <2>1, <2>2, <1>6, PermitsUntouched DEF Taken
<1>7. ASSUME Timers
      PROVE  RoutingInv'
  <2>1. RoutingTypeOK' /\ Placed'
    BY <1>7 DEF Timers, CooldownEnds, DegradedEnds
  <2>2. (\A p \in Providers : Served(p)' = Served(p)) /\ free' = free
    BY <1>7 DEF Timers, CooldownEnds, DegradedEnds, Served, Provider
  <2> QED
    BY <2>1, <2>2, PermitsUntouched
<1>8. ASSUME RoutingLost
      PROVE  RoutingInv'
  <2>1. RoutingTypeOK' /\ Placed'
    BY <1>8 DEF RoutingLost
  <2>2. \A p \in Providers : Served(p)' = {}
    BY <1>8 DEF RoutingLost, Served
  <2>3. \A p \in Providers : Cardinality(Served(p)') = 0
    BY <2>2, FS_EmptySet, Zenon
  <2>4. PermitsHeld'
    BY <1>8, <2>3 DEF RoutingLost, PermitsHeld
  <2> QED
    BY <2>1, <2>4
<1>9. ASSUME NEW c \in Callers, InvokeDirect(c) \/ DirectEnds(c)
      PROVE  RoutingInv'
  <2>1. CASE InvokeDirect(c)
    <3>1. RoutingTypeOK' /\ Placed'
      BY <2>1 DEF InvokeDirect
    <3>2. (\A p \in Providers : Served(p)' = Served(p)) /\ free' = free
      BY <2>1 DEF InvokeDirect, Served, Provider
    <3> QED
      BY <3>1, <3>2, PermitsUntouched
  <2>2. CASE DirectEnds(c)
    <3>1. step' \in [Callers -> {"idle", "direct", "returned", "raised"} \cup Working]
      BY <2>2 DEF DirectEnds
    <3>2. failures' \in 0..MaxFailures
      BY <2>2, SMT DEF DirectEnds
    <3>3. RoutingTypeOK'
      BY <2>2, <3>1, <3>2 DEF DirectEnds
    <3>4. Placed'
      BY <2>2 DEF DirectEnds
    <3>5. (\A p \in Providers : Served(p)' = Served(p)) /\ free' = free
      BY <2>2 DEF DirectEnds, Served, Provider
    <3> QED
      BY <3>3, <3>4, <3>5, PermitsUntouched
  <2> QED
    BY <1>9, <2>1, <2>2
<1> QED
  BY <1>1, <1>2, <1>3, <1>4, <1>5, <1>6, <1>7, <1>8, <1>9 DEF RoutingStep, Route

LEMMA RoutingStaysPut ==
  ASSUME RoutingInv, UNCHANGED routing
  PROVE  RoutingInv'
<1> USE DEF RoutingInv, routing
<1>1. RoutingTypeOK' /\ Placed'
  BY DEF RoutingTypeOK, Placed
<1>2. \A p \in Providers : Served(p)' = Served(p)
  BY DEF Served, Provider
<1> QED
  BY <1>1, <1>2, PermitsUntouched

\* Whatever an agent, another thread or the process does, routing takes one of
\* its own steps or none.
LEMMA StepsOfRouting ==
  ASSUME [Next]_vars
  PROVE  RoutingStep \/ UNCHANGED routing
<1>1. ASSUME NEW a \in Agents, Agent(a)
      PROVE  RoutingStep \/ UNCHANGED routing
  <2>1. CASE CallModel(a) \/ Ask(a)
    BY <2>1, AgentAssumption DEF CallModel, Ask, RoutingStep
  <2>2. CASE ModelAnswers(a) \/ ClassifierAnswers(a) \/ RunFails(a)
    BY <2>2, AgentAssumption DEF ModelAnswers, ClassifierAnswers, RunFails, RoutingStep
  <2>3. CASE Begin(a) \/ Resume(a) \/ RunEnds(a)
    BY <2>3 DEF Begin, Resume, RunEnds
  <2>4. CASE Judge(a) \/ GateDecides(a) \/ RunTools(a)
    BY <2>4 DEF Judge, GateDecides, RunTools
  <2> QED
    BY <1>1, <2>1, <2>2, <2>3, <2>4 DEF Agent
<1>2. ASSUME NEW c \in Callers \ Agents, Other(c)
      PROVE  RoutingStep \/ UNCHANGED routing
  BY <1>2, AgentAssumption DEF Other, OtherStarts, OtherCalls, OtherGoesOn, RoutingStep
<1>3. CASE Models
  BY <1>3 DEF Models, RoutingStep
<1>4. CASE Crash
  BY <1>4 DEF Crash, RoutingStep
<1>5. CASE UNCHANGED vars
  BY <1>5 DEF vars
<1> QED
  BY <1>1, <1>2, <1>3, <1>4, <1>5 DEF Next

LEMMA RoutingHolds == Spec => []RoutingInv
<1>1. Init => RoutingInv
  BY RoutingStarts DEF Init
<1>2. RoutingInv /\ [Next]_vars => RoutingInv'
  BY StepsOfRouting, RoutingStays, RoutingStaysPut
<1> QED
  BY <1>1, <1>2, PTL DEF Spec

\* No permit of any provider is lost or served twice, however many callers
\* queue for it and whatever mixture of answers, errors, fallbacks and
\* restarts they meet (routing.py RoutedModel.invoke).
THEOREM NoPermitLost == Spec => []PermitsHeld
<1>1. RoutingInv => PermitsHeld
  BY DEF RoutingInv
<1> QED
  BY <1>1, RoutingHolds, PTL

----------------------------------------------------------------------------
(* The agents' threads.                                                    *)

AgentTypes ==
  /\ kind \in [Agents -> Kinds] /\ running \subseteq Callers
  /\ node \in [Agents -> {"agent", "gate", "tools", "end"}]
  /\ history \in [Agents -> Seq(Message)]
  /\ turns \in [Agents -> Nat] /\ nudged \in [Agents -> BOOLEAN]
  /\ verdict \in [Agents -> [allow : SUBSET ToolCall, deny : SUBSET ToolCall]]
  /\ asking \in [Agents -> [calls : SUBSET ToolCall, try : 0..3]]
  /\ begun \in [Agents -> Nat] /\ troubles \in 0..MaxTroubles

\* At the gate and at the tools the last message is the model's; what is
\* judged or asked about is of its batch, which reaches the tools judged call
\* by call; and nothing is judged while no run is at the gate.
AtBatch(a) ==
  /\ node[a] \in {"gate", "tools"} => \E t \in Turns : Last(history[a]) = AI(t)
  /\ node[a] = "tools" => IsFiniteSet(Batch(a))
  /\ IsFiniteSet(Judged(a))
  /\ At(a, "gate") => Judged(a) \subseteq Batch(a) /\ asking[a].calls \subseteq Batch(a)
  /\ ~At(a, "gate") => Judged(a) = {} /\ asking[a].calls = {}

ThreadInv == AgentTypes /\ \A a \in Agents : AtBatch(a)

\* The steps that leave every thread and every verdict alone.
Quiet ==
  /\ UNCHANGED <<kind, thread, gate>>
  /\ running' \subseteq Callers /\ troubles' \in 0..MaxTroubles
  /\ \A a \in Agents : a \in running \ running' => node[a] = "end"

LEMMA AgentConstants ==
  /\ Agents \subseteq Callers
  /\ \A t \in Turns : t.calls \subseteq ToolCall /\ t.bad \in {"none", "named", "nameless"}
  /\ \A t \in Turns : IsFiniteSet(t.calls)
  /\ MaxTroubles \in Nat
BY AgentAssumption

LEMMA Messages ==
  /\ System \in Message
  /\ \A x \in {"brief", "handoff", "completion"} : Human(x) \in Message
  /\ \A t \in Turns : AI(t) \in Message /\ AI(t).calls = t.calls /\ AI(t).kind = "ai"
  /\ \A t \in Turns : \A c \in t.calls, r \in {"denied", "done", "settled", "error"} :
       /\ Answer(<<c>>, r) \in Message
       /\ Answer(<<c>>, r).kind = "tool" /\ Answer(<<c>>, r).res = r
       /\ Answer(<<c>>, r).of = <<c>> /\ Answer(<<c>>, r).of[1] = c
<1>1. /\ System \in Message
      /\ \A x \in {"brief", "handoff", "completion"} : Human(x) \in Message
      /\ \A t \in Turns : AI(t) \in Message
  BY DEF Message
<1>2. \A t \in Turns : AI(t).calls = t.calls /\ AI(t).kind = "ai"
  BY DEF AI
<1>3. ASSUME NEW t \in Turns, NEW c \in t.calls,
             NEW r \in {"denied", "done", "settled", "error"}
      PROVE  /\ Answer(<<c>>, r) \in Message
             /\ Answer(<<c>>, r).kind = "tool" /\ Answer(<<c>>, r).res = r
             /\ Answer(<<c>>, r).of = <<c>> /\ Answer(<<c>>, r).of[1] = c
  <2>1. <<c>> \in {<<x>> : x \in UNION {u.calls : u \in Turns}}
    OBVIOUS
  <2>2. Answer(<<c>>, r) \in [kind : {"tool"},
          of : {<<x>> : x \in UNION {u.calls : u \in Turns}},
          res : {"denied", "done", "settled", "error"}]
    BY <2>1 DEF Answer
  <2>3. Answer(<<c>>, r) \in Message
    BY <2>2 DEF Message
  <2> QED
    BY <2>3 DEF Answer
<1> QED
  BY <1>1, <1>2, <1>3

LEMMA FunctionIsSeq ==
  ASSUME NEW S, NEW n \in Nat, NEW f \in [1..n -> S]
  PROVE  f \in Seq(S) /\ Len(f) = n
OBVIOUS

LEMMA LastOfAppended ==
  ASSUME NEW S, NEW s \in Seq(S), NEW t \in Seq(S), NEW x \in S
  PROVE  t \o <<x>> \in Seq(S) /\ Last(s \o (t \o <<x>>)) = x
BY DEF Last

LEMMA Nudges ==
  ASSUME NEW a \in Agents
  PROVE  /\ HandoffNudge(a) \in {<<>>, <<Human("handoff")>>}
         /\ CompletionNudge(a) \in {<<>>, <<Human("completion")>>}
         /\ HandoffNudge(a) \o CompletionNudge(a) \in Seq(Message)
<1>1. /\ HandoffNudge(a) \in {<<>>, <<Human("handoff")>>}
      /\ CompletionNudge(a) \in {<<>>, <<Human("completion")>>}
  BY DEF HandoffNudge, CompletionNudge
<1>2. Human("handoff") \in Message /\ Human("completion") \in Message
  BY Messages
<1>3. HandoffNudge(a) \in Seq(Message) /\ CompletionNudge(a) \in Seq(Message)
  <2>1. <<>> \in Seq(Message) /\ \A m \in Message : <<m>> \in Seq(Message)
    OBVIOUS
  <2>2. <<Human("handoff")>> \in Seq(Message) /\ <<Human("completion")>> \in Seq(Message)
    BY <1>2, <2>1
  <2> QED
    BY <1>1, <2>1, <2>2, Zenon
<1> QED
  BY <1>1, <1>3

\* The sequence of a finite set holds its elements.
LEMMA SequenceOfSet ==
  ASSUME NEW S, IsFiniteSet(S)
  PROVE  SetToSeq(S) \in [1..Cardinality(S) -> S] /\ Cardinality(S) \in Nat
<1>1. Cardinality(S) \in Nat /\ ExistsBijection(1..Cardinality(S), S)
  BY FS_CardinalityType
<1>2. PICK f \in Bijection(1..Cardinality(S), S) : TRUE
  BY <1>1 DEF ExistsBijection
<1>3. f \in [1..Cardinality(S) -> S] /\ IsInjective(f)
  BY <1>2 DEF Bijection, Injection, IsInjective
<1>4. SetToSeq(S) \in [1..Cardinality(S) -> S]
  BY <1>3, Zenon DEF SetToSeq
<1> QED
  BY <1>1, <1>4

LEMMA ThreadStarts == Init => ThreadInv
<1> SUFFICES ASSUME Init
             PROVE  ThreadInv
  OBVIOUS
<1>1. AgentTypes
  BY AgentConstants DEF Init, AgentTypes, NoVerdict, Nobody
<1>2. \A a \in Agents : Judged(a) = {}
  BY DEF Init, Judged, NoVerdict
<1>3. \A a \in Agents : AtBatch(a)
  BY <1>2, FS_EmptySet DEF Init, AtBatch, At, Nobody
<1> QED
  BY <1>1, <1>3 DEF ThreadInv

LEMMA QuietKeeps ==
  ASSUME ThreadInv, Quiet
  PROVE  ThreadInv'
BY DEF ThreadInv, Quiet, AgentTypes, AtBatch, thread, gate, Batch, Judged, At

\* The steps that are quiet, whatever routing does.
LEMMA QuietSteps ==
  ASSUME ThreadInv
  PROVE  /\ \A a \in Agents :
              Resume(a) \/ RunEnds(a) \/ CallModel(a) \/ Ask(a) => Quiet
         /\ \A c \in Callers \ Agents : Other(c) => Quiet
         /\ Models \/ UNCHANGED vars => Quiet
<1> USE AgentConstants DEF ThreadInv, AgentTypes, Quiet
<1>1. ASSUME NEW a \in Agents
      PROVE  Resume(a) \/ RunEnds(a) \/ CallModel(a) \/ Ask(a) => Quiet
  BY DEF Resume, RunEnds, CallModel, Ask, Slot, Leave, thread, gate
<1>2. ASSUME NEW c \in Callers \ Agents
      PROVE  Other(c) => Quiet
  BY DEF thread, gate, Other, OtherStarts, OtherCalls, OtherGoesOn, Slot, Leave
<1>3. Models \/ UNCHANGED vars => Quiet
  BY DEF Models, vars
<1> QED
  BY <1>1, <1>2, <1>3

\* A step of one agent's thread leaves those of the others as they are.
LEMMA OthersKeep ==
  ASSUME NEW b \in Agents, AtBatch(b),
         history'[b] = history[b], node'[b] = node[b],
         verdict'[b] = verdict[b], asking'[b] = asking[b],
         b \in running' <=> b \in running
  PROVE  AtBatch(b)'
BY DEF AtBatch, Batch, Judged, At

\* A call at the gate is a tool call.
LEMMA BatchOfCalls ==
  ASSUME ThreadInv, NEW a \in Agents, node[a] \in {"gate", "tools"}
  PROVE  \E t \in Turns : Batch(a) = t.calls /\ Batch(a) \subseteq ToolCall
<1>1. PICK t \in Turns : Last(history[a]) = AI(t)
  BY DEF ThreadInv, AtBatch
<1>2. Batch(a) = t.calls
  BY <1>1, Messages DEF Batch
<1> QED
  BY <1>2, AgentConstants

\* One call of the batch more is judged, and one more is asked about.
LEMMA JudgesMore ==
  ASSUME ThreadInv, NEW a \in Agents, At(a, "gate"), NEW c \in Batch(a),
         Allow(a, c) \/ Deny(a, c),
         asking' = asking \/ asking' = [asking EXCEPT ![a] = Nobody],
         UNCHANGED <<kind, running, thread, troubles>>
  PROVE  ThreadInv'
<1> USE DEF ThreadInv, AgentTypes, thread
<1>0. c \in ToolCall
  BY BatchOfCalls DEF At
<1>1. verdict' \in [Agents -> [allow : SUBSET ToolCall, deny : SUBSET ToolCall]]
  <2>1. verdict[a].allow \subseteq ToolCall /\ verdict[a].deny \subseteq ToolCall
    OBVIOUS
  <2>2. CASE Allow(a, c)
    BY <1>0, <2>1, <2>2 DEF Allow
  <2>3. CASE Deny(a, c)
    BY <1>0, <2>1, <2>3 DEF Deny
  <2> QED
    BY <2>2, <2>3
<1>2. asking' \in [Agents -> [calls : SUBSET ToolCall, try : 0..3]]
  <2>1. Nobody \in [calls : SUBSET ToolCall, try : 0..3]
    BY DEF Nobody
  <2> QED
    BY <2>1
<1>3. Judged(a)' = Judged(a) \cup {c}
  BY DEF Allow, Deny, Judged
<1>4. asking'[a].calls \in {asking[a].calls, {}}
  BY DEF Nobody
<1>5. AtBatch(a)'
  <2>1. IsFiniteSet(Judged(a)')
    <3>1. IsFiniteSet(Judged(a))
      BY DEF AtBatch
    <3>2. IsFiniteSet(Judged(a) \cup {c})
      BY <3>1, FS_AddElement, Zenon
    <3> QED
      BY <1>3, <3>2, Zenon
  <2>2. Batch(a)' = Batch(a) /\ At(a, "gate")' /\ node'[a] = "gate" /\ history'[a] = history[a]
    BY DEF Batch, At
  <2> QED
    BY <1>3, <1>4, <2>1, <2>2 DEF AtBatch
<1>6. \A b \in Agents \ {a} : AtBatch(b)'
  <2>1. \A b \in Agents \ {a} : verdict'[b] = verdict[b] /\ asking'[b] = asking[b]
    BY DEF Allow, Deny
  <2> QED
    BY <2>1, OthersKeep
<1> QED
  BY <1>1, <1>2, <1>5, <1>6

LEMMA AsksMore ==
  ASSUME ThreadInv, NEW a \in Agents, At(a, "gate"), NEW c \in Batch(a),
         UNCHANGED verdict, NEW n \in 0..3,
         asking' = [asking EXCEPT ![a] = [calls |-> {c}, try |-> n]],
         UNCHANGED <<kind, running, thread, troubles>>
  PROVE  ThreadInv'
<1> USE DEF ThreadInv, AgentTypes, thread
<1>0. c \in ToolCall
  BY BatchOfCalls DEF At
<1>1. AgentTypes'
  BY <1>0
<1>2. AtBatch(a)'
  BY DEF AtBatch, Judged, Batch, At
<1>3. \A b \in Agents \ {a} : AtBatch(b)'
  BY OthersKeep
<1> QED
  BY <1>1, <1>2, <1>3

Denials(a) == SetToSeq({Answer(<<c>>, "denied") : c \in Batch(a)})

\* A denied batch is answered with denials.
LEMMA DenialsGiven ==
  ASSUME ThreadInv, NEW a \in Agents, node[a] = "gate", IsFiniteSet(Batch(a))
  PROVE  /\ Denials(a) \in Seq(Message)
         /\ \A i \in 1..Len(Denials(a)) :
              /\ Tool(Denials(a)[i]) /\ Denials(a)[i].res = "denied"
              /\ \E c \in Batch(a) : Denials(a)[i].of = <<c>>
<1> DEFINE S == {Answer(<<c>>, "denied") : c \in Batch(a)}
           f == [c \in Batch(a) |-> Answer(<<c>>, "denied")]
<1>1. f \in Surjection(Batch(a), S)
  BY DEF Surjection
<1>2. IsFiniteSet(S)
  BY <1>1, FS_Surjection
<1>3. PICK t \in Turns : Batch(a) = t.calls
  BY BatchOfCalls
<1>4. \A m \in S : /\ m \in Message /\ Tool(m) /\ m.res = "denied"
                   /\ \E c \in Batch(a) : m.of = <<c>>
  <2> SUFFICES ASSUME NEW c \in Batch(a)
               PROVE  LET m == Answer(<<c>>, "denied")
                      IN m \in Message /\ Tool(m) /\ m.res = "denied" /\ m.of = <<c>>
    OBVIOUS
  <2> QED
    BY <1>3, Messages DEF Tool
<1> HIDE DEF S
<1>5. SetToSeq(S) \in [1..Cardinality(S) -> S] /\ Cardinality(S) \in Nat
  BY <1>2, SequenceOfSet
<1>6. SetToSeq(S) \in Seq(S) /\ Len(SetToSeq(S)) = Cardinality(S)
  BY <1>5
<1>7. SetToSeq(S) \in Seq(Message)
  BY <1>4, <1>6
<1> QED
  BY <1>4, <1>5, <1>6, <1>7 DEF S, Denials

\* What the tools add is an answer to each call of the batch.
LEMMA ToolsAnswer ==
  ASSUME ThreadInv, NEW a \in Agents, RunTools(a)
  PROVE  \E answers \in Seq(Message) :
           /\ history' = [history EXCEPT ![a] = @ \o answers]
           /\ node' = [node EXCEPT ![a] = IF TookEffect(answers) THEN "end" ELSE "agent"]
           /\ \A i \in 1..Len(answers) :
                Tool(answers[i]) /\ \E c \in Batch(a) : answers[i].of = <<c>>
<1> DEFINE ans(s, r) == [i \in DOMAIN s |-> Answer(<<s[i]>>, r[i])]
<1>1. PICK s \in Orders(Batch(a)) : \E r \in [DOMAIN s -> {"settled", "error", "done"}] :
        /\ history' = [history EXCEPT ![a] = @ \o ans(s, r)]
        /\ node' = [node EXCEPT ![a] = IF TookEffect(ans(s, r)) THEN "end" ELSE "agent"]
  BY DEF RunTools
<1>2. PICK r \in [DOMAIN s -> {"settled", "error", "done"}] :
        /\ history' = [history EXCEPT ![a] = @ \o ans(s, r)]
        /\ node' = [node EXCEPT ![a] = IF TookEffect(ans(s, r)) THEN "end" ELSE "agent"]
  BY <1>1
<1>3. node[a] = "tools" /\ IsFiniteSet(Batch(a))
  BY DEF RunTools, At, ThreadInv, AtBatch
<1>4. Cardinality(Batch(a)) \in Nat
  BY <1>3, FS_CardinalityType
<1>5. PICK t \in Turns : Batch(a) = t.calls
  BY <1>3, BatchOfCalls
<1>6. s \in [1..Cardinality(Batch(a)) -> Batch(a)] /\ DOMAIN s = 1..Cardinality(Batch(a))
  BY DEF Orders
<1>7. \A i \in DOMAIN s : /\ ans(s, r)[i] \in Message /\ Tool(ans(s, r)[i])
                          /\ s[i] \in Batch(a) /\ ans(s, r)[i].of = <<s[i]>>
  BY <1>5, <1>6, Messages DEF Tool
<1>8. ans(s, r) \in [1..Cardinality(Batch(a)) -> Message]
  BY <1>6, <1>7
<1>9. ans(s, r) \in Seq(Message) /\ Len(ans(s, r)) = Cardinality(Batch(a))
  BY <1>4, <1>8, FunctionIsSeq
<1>10. \A i \in 1..Len(ans(s, r)) :
         Tool(ans(s, r)[i]) /\ \E c \in Batch(a) : ans(s, r)[i].of = <<c>>
  BY <1>6, <1>7, <1>9
<1> HIDE DEF ans
<1> QED
  BY <1>2, <1>9, <1>10

LEMMA ThreadStays ==
  ASSUME ThreadInv, [Next]_vars
  PROVE  ThreadInv'
<1> USE AgentConstants DEF ThreadInv, AgentTypes, thread, gate
<1>1. ASSUME NEW a \in Agents, Begin(a)
      PROVE  ThreadInv'
  <2>1. LeadIn \in Seq(Message)
    BY Messages DEF LeadIn
  <2>2. AgentTypes'
    BY <1>1, <2>1 DEF Begin, Slot
  <2>3. AtBatch(a)'
    BY <1>1 DEF Begin, Slot, AtBatch, Batch, Judged, At
  <2>4. \A b \in Agents \ {a} : AtBatch(b)'
    BY <1>1, OthersKeep DEF Begin, Slot
  <2> QED
    BY <2>2, <2>3, <2>4
<1>2. ASSUME NEW a \in Agents, RunFails(a)
      PROVE  ThreadInv'
  <2>1. AgentTypes'
    BY <1>2 DEF RunFails, Leave, NoVerdict, Nobody
  <2>2. Judged(a)' = {} /\ asking'[a].calls = {} /\ ~At(a, "gate")' /\ Batch(a)' = Batch(a)
    BY <1>2 DEF RunFails, Judged, NoVerdict, Nobody, Leave, At, Batch
  <2>3. AtBatch(a)'
    BY <1>2, <2>2, FS_EmptySet DEF RunFails, AtBatch
  <2>4. \A b \in Agents \ {a} : AtBatch(b)'
    BY <1>2, OthersKeep DEF RunFails, Leave
  <2> QED
    BY <2>1, <2>3, <2>4
<1>3. ASSUME NEW a \in Agents, ModelAnswers(a)
      PROVE  ThreadInv'
  <2> DEFINE nudges == HandoffNudge(a) \o CompletionNudge(a)
             n == nudged[a] \/ CompletionNudge(a) # <<>>
  <2>1. PICK turn \in Turns :
          /\ history' = [history EXCEPT ![a] = @ \o (nudges \o <<AI(turn)>>)]
          /\ nudged' = [nudged EXCEPT ![a] = n]
          /\ node' = [node EXCEPT ![a] = AfterAgent(a, history[a] \o (nudges \o <<AI(turn)>>), n)]
    BY <1>3 DEF ModelAnswers
  <2>2. nudges \in Seq(Message) /\ AI(turn) \in Message /\ n \in BOOLEAN
    BY Nudges, Messages
  <2> DEFINE said == nudges \o <<AI(turn)>>
  <2>3. nudged' \in [Agents -> BOOLEAN]
    BY <2>1, <2>2
  <2> HIDE DEF nudges, n
  <2>4. said \in Seq(Message) /\ Last(history[a] \o said) = AI(turn)
    BY <2>2, LastOfAppended
  <2> HIDE DEF said
  <2>5. AfterAgent(a, history[a] \o said, n) \in {"agent", "gate", "end"}
    BY DEF AfterAgent
  <2>6. /\ history' = [history EXCEPT ![a] = @ \o said]
        /\ node' = [node EXCEPT ![a] = AfterAgent(a, history[a] \o said, n)]
    BY <2>1 DEF said
  <2>7. UNCHANGED <<kind, running, begun, gate, troubles>> /\ turns' = [turns EXCEPT ![a] = @ + 1]
        /\ At(a, "agent")
    BY <1>3 DEF ModelAnswers
  <2>8. AgentTypes'
    <3>1. history' \in [Agents -> Seq(Message)]
      BY <2>4, <2>6
    <3>2. node' \in [Agents -> {"agent", "gate", "tools", "end"}]
      BY <2>5, <2>6
    <3>3. turns' \in [Agents -> Nat]
      BY <2>7
    <3> QED
      BY <2>3, <2>7, <3>1, <3>2, <3>3
  <2>9. AtBatch(a)'
    <3>1. Judged(a)' = {} /\ asking'[a].calls = {} /\ IsFiniteSet(Judged(a)')
      BY <2>7, FS_EmptySet DEF AtBatch, Judged, At
    <3>2. node'[a] # "tools" /\ Last(history'[a]) = AI(turn)
      BY <2>4, <2>5, <2>6
    <3> QED
      BY <3>1, <3>2 DEF AtBatch
  <2>10. \A b \in Agents \ {a} : AtBatch(b)'
    BY <2>6, <2>7, OthersKeep
  <2> QED
    BY <2>8, <2>9, <2>10
<1>4. ASSUME NEW a \in Agents, Judge(a)
      PROVE  ThreadInv'
  <2>1. Batch(a) \ Judged(a) # {} /\ At(a, "gate")
    BY <1>4 DEF Judge, AtBatch
  <2>2. PICK c \in Batch(a) :
          \/ Deny(a, c) /\ UNCHANGED asking
          \/ Allow(a, c) /\ UNCHANGED asking
          \/ asking' = [asking EXCEPT ![a] = [calls |-> {c}, try |-> 1]] /\ UNCHANGED verdict
    BY <1>4, <2>1 DEF Judge
  <2>3. UNCHANGED <<kind, running, thread, troubles>>
    BY <1>4 DEF Judge
  <2>4. CASE (Deny(a, c) \/ Allow(a, c)) /\ asking' = asking
    BY <2>1, <2>3, <2>4, JudgesMore
  <2>5. CASE asking' = [asking EXCEPT ![a] = [calls |-> {c}, try |-> 1]] /\ UNCHANGED verdict
    <3>1. 1 \in 0..3
      OBVIOUS
    <3> QED
      BY <2>1, <2>3, <2>5, <3>1, AsksMore
  <2> QED
    BY <2>2, <2>4, <2>5
<1>5. ASSUME NEW a \in Agents, ClassifierAnswers(a)
      PROVE  ThreadInv'
  <2>1. UNCHANGED <<kind, running, thread, troubles>> /\ At(a, "gate")
    BY <1>5 DEF ClassifierAnswers
  <2>2. PICK c \in asking[a].calls :
          \/ (Allow(a, c) \/ Deny(a, c)) /\ asking' = [asking EXCEPT ![a] = Nobody]
          \/ Unreadable(a, c)
    BY <1>5 DEF ClassifierAnswers
  <2>3. c \in Batch(a)
    BY <2>1, <2>2 DEF AtBatch
  <2>4. CASE asking' = [asking EXCEPT ![a] = [calls |-> {c}, try |-> @.try + 1]]
             /\ UNCHANGED verdict /\ asking[a].try < 3
    <3>0. asking[a].try \in 0..3
      OBVIOUS
    <3>1. asking[a].try + 1 \in 0..3
      BY <2>4, <3>0
    <3>2. asking' = [asking EXCEPT ![a] = [calls |-> {c}, try |-> asking[a].try + 1]]
      BY <2>4
    <3> QED
      BY <2>1, <2>3, <2>4, <3>1, <3>2, AsksMore
  <2>5. CASE (Allow(a, c) \/ Deny(a, c)) /\ asking' = [asking EXCEPT ![a] = Nobody]
    BY <2>1, <2>3, <2>5, JudgesMore
  <2> QED
    BY <2>2, <2>4, <2>5 DEF Unreadable
<1>6. ASSUME NEW a \in Agents, GateDecides(a)
      PROVE  ThreadInv'
  <2>1. /\ At(a, "gate") /\ Judged(a) = Batch(a) /\ asking[a] = Nobody
        /\ verdict' = [verdict EXCEPT ![a] = NoVerdict]
        /\ UNCHANGED <<routing, kind, running, turns, nudged, begun, asking, troubles>>
    BY <1>6 DEF GateDecides
  <2>2. Judged(a)' = {} /\ asking'[a].calls = {} /\ IsFiniteSet(Judged(a)')
    BY <2>1, FS_EmptySet DEF Judged, NoVerdict, Nobody
  <2>3. verdict' \in [Agents -> [allow : SUBSET ToolCall, deny : SUBSET ToolCall]]
    BY <2>1 DEF NoVerdict
  <2>4. IsFiniteSet(Batch(a))
    BY <2>1 DEF AtBatch
  <2>5. CASE node' = [node EXCEPT ![a] = "tools"] /\ UNCHANGED history
    <3>1. AtBatch(a)'
      BY <2>1, <2>2, <2>4, <2>5 DEF AtBatch, At, Batch
    <3>2. \A b \in Agents \ {a} : AtBatch(b)'
      BY <2>1, <2>5, OthersKeep
    <3> QED
      BY <2>1, <2>3, <2>5, <3>1, <3>2
  <2>6. CASE /\ node' = [node EXCEPT ![a] = "agent"]
             /\ history' = [history EXCEPT ![a] = @ \o Denials(a)]
    <3>1. Denials(a) \in Seq(Message)
      BY <2>1, <2>4, DenialsGiven DEF At
    <3>2. AtBatch(a)'
      BY <2>1, <2>2, <2>6 DEF AtBatch, At
    <3>3. \A b \in Agents \ {a} : AtBatch(b)'
      BY <2>1, <2>6, OthersKeep
    <3> QED
      BY <2>1, <2>3, <2>6, <3>1, <3>2, <3>3
  <2> QED
    BY <1>6, <2>5, <2>6 DEF GateDecides, Denials
<1>7. ASSUME NEW a \in Agents, RunTools(a)
      PROVE  ThreadInv'
  <2>1. PICK answers \in Seq(Message) :
          /\ history' = [history EXCEPT ![a] = @ \o answers]
          /\ node' = [node EXCEPT ![a] = IF TookEffect(answers) THEN "end" ELSE "agent"]
    BY <1>7, ToolsAnswer
  <2>2. At(a, "tools") /\ UNCHANGED <<kind, running, turns, nudged, begun, gate, troubles>>
    BY <1>7 DEF RunTools
  <2>3. AgentTypes'
    BY <2>1, <2>2
  <2>4. AtBatch(a)'
    BY <2>1, <2>2 DEF AtBatch, At, Judged
  <2>5. \A b \in Agents \ {a} : AtBatch(b)'
    BY <2>1, <2>2, OthersKeep
  <2> QED
    BY <2>3, <2>4, <2>5
<1>8. CASE Crash
  <2>1. AgentTypes'
    BY <1>8 DEF Crash, NoVerdict, Nobody
  <2>2. \A a \in Agents : /\ Judged(a)' = {} /\ asking'[a].calls = {}
                         /\ ~At(a, "gate")' /\ Batch(a)' = Batch(a)
    BY <1>8 DEF Crash, Judged, NoVerdict, Nobody, At, Batch
  <2>3. \A a \in Agents : AtBatch(a)'
    BY <1>8, <2>2, FS_EmptySet DEF Crash, AtBatch
  <2> QED
    BY <2>1, <2>3
<1>9. CASE Quiet
  BY <1>9, QuietKeeps
<1> QED
  BY <1>1, <1>2, <1>3, <1>4, <1>5, <1>6, <1>7, <1>8, <1>9, QuietSteps DEF Next, Agent

LEMMA ThreadsHold == Spec => []ThreadInv
<1>1. ThreadInv /\ [Next]_vars => ThreadInv'
  BY ThreadStays
<1> QED
  BY ThreadStarts, <1>1, PTL DEF Spec

\* The types of the variables, those of routing and of every message in a
\* checkpoint included (state.py HarnessState, routing.py RoutingTable).
THEOREM TypesHold == Spec => []TypeOK
<1>1. RoutingInv /\ ThreadInv => TypeOK
  BY DEF RoutingInv, ThreadInv, AgentTypes, TypeOK
<1> QED
  BY <1>1, RoutingHolds, ThreadsHold, PTL

----------------------------------------------------------------------------
(* The gate, and the end of a thread.                                      *)

\* What was said is not a tool's answer.
LEMMA SaidIsNoAnswer ==
  ASSUME ThreadInv, NEW a \in Agents, ModelAnswers(a)
  PROVE  \E said \in Seq(Message) :
           /\ history' = [history EXCEPT ![a] = @ \o said]
           /\ \A i \in 1..Len(said) : ~Tool(said[i])
           /\ node'[a] # "tools"
<1> DEFINE nudges == HandoffNudge(a) \o CompletionNudge(a)
<1>1. PICK turn \in Turns :
        /\ history' = [history EXCEPT ![a] = @ \o (nudges \o <<AI(turn)>>)]
        /\ node'[a] # "tools"
  BY DEF ModelAnswers, AfterAgent, ThreadInv, AgentTypes
<1>2. \A x \in {"handoff", "completion"} : Human(x) \in Message /\ ~Tool(Human(x))
  BY Messages DEF Human, Tool
<1>3. AI(turn) \in Message /\ ~Tool(AI(turn))
  BY Messages DEF Tool
<1>4. nudges \in Seq(Message) /\ \A i \in 1..Len(nudges) : ~Tool(nudges[i])
  BY <1>2, Nudges
<1> HIDE DEF nudges
<1>5. /\ nudges \o <<AI(turn)>> \in Seq(Message)
      /\ \A i \in 1..Len(nudges \o <<AI(turn)>>) : ~Tool((nudges \o <<AI(turn)>>)[i])
  BY <1>3, <1>4
<1> QED
  BY <1>1, <1>5

\* Of the messages of a thread, those that come with a step and those before.
LEMMA Appended ==
  ASSUME NEW s \in Seq(Message), NEW t \in Seq(Message), NEW i \in 1..Len(s \o t)
  PROVE  \/ i \in 1..Len(s) /\ (s \o t)[i] = s[i]
         \/ i - Len(s) \in 1..Len(t) /\ (s \o t)[i] = t[i - Len(s)]
OBVIOUS

LEMMA LeadInSaid ==
  LeadIn \in Seq(Message) /\ Len(LeadIn) = 2 /\ \A i \in 1..Len(LeadIn) : ~Tool(LeadIn[i])
<1>1. System \in Message /\ Human("brief") \in Message
  BY Messages
<1>2. ~Tool(System) /\ ~Tool(Human("brief"))
  BY DEF System, Human, Tool
<1> QED
  BY <1>1, <1>2 DEF LeadIn

\* What the gate lets pass, on its way from the verdict to the tools and into
\* the thread: without the first conjunct the second is not inductive.
Passed(a) ==
  /\ \A c \in verdict[a].allow \cup asking[a].calls : Clean(c)
  /\ node[a] = "tools" => \A c \in Batch(a) : Clean(c)
  /\ \A i \in 1..Len(history[a]) :
       Tool(history[a][i]) /\ history[a][i].res # "denied" => Clean(history[a][i].of[1])

LEMMA NotForbiddenIsClean ==
  \A c : ~Forbidden(c) => Clean(c)
BY DEF Forbidden, Heads, OneLine, Clean

LEMMA OthersPass ==
  ASSUME NEW b \in Agents, Passed(b),
         history'[b] = history[b], node'[b] = node[b],
         verdict'[b] = verdict[b], asking'[b] = asking[b]
  PROVE  Passed(b)'
BY DEF Passed, Batch

LEMMA GateStays ==
  ASSUME ThreadInv, \A a \in Agents : Passed(a), [Next]_vars
  PROVE  \A a \in Agents : Passed(a)'
<1> USE DEF thread, gate
<1>0. AgentTypes
  BY DEF ThreadInv
<1>1. ASSUME NEW a \in Agents, Begin(a)
      PROVE  \A b \in Agents : Passed(b)'
  <2>1. LeadIn \in Seq(Message) /\ \A i \in 1..Len(LeadIn) : ~Tool(LeadIn[i])
    BY LeadInSaid
  <2>2. history'[a] = history[a] \o LeadIn /\ node'[a] = "agent"
        /\ verdict' = verdict /\ asking' = asking /\ history[a] \in Seq(Message)
    BY <1>0, <1>1 DEF Begin, AgentTypes
  <2>3. \A i \in 1..Len(history'[a]) : Tool(history'[a][i]) =>
          i \in 1..Len(history[a]) /\ history'[a][i] = history[a][i]
    BY <2>1, <2>2, Appended
  <2>4. Passed(a)'
    BY <2>2, <2>3 DEF Passed
  <2>5. \A b \in Agents \ {a} : Passed(b)'
    BY <1>0, <1>1, OthersPass DEF Begin, AgentTypes
  <2> QED
    BY <2>4, <2>5
<1>2. ASSUME NEW a \in Agents, RunFails(a)
      PROVE  \A b \in Agents : Passed(b)'
  <2>1. Passed(a)'
    BY <1>0, <1>2 DEF RunFails, AgentTypes, Passed, Batch, NoVerdict, Nobody
  <2>2. \A b \in Agents \ {a} : Passed(b)'
    BY <1>0, <1>2, OthersPass DEF RunFails, AgentTypes
  <2> QED
    BY <2>1, <2>2
<1>3. ASSUME NEW a \in Agents, ModelAnswers(a)
      PROVE  \A b \in Agents : Passed(b)'
  <2>1. PICK said \in Seq(Message) :
          /\ history' = [history EXCEPT ![a] = @ \o said]
          /\ \A i \in 1..Len(said) : ~Tool(said[i])
          /\ node'[a] # "tools"
    BY <1>3, SaidIsNoAnswer
  <2>2. /\ verdict' = verdict /\ asking' = asking /\ history[a] \in Seq(Message)
        /\ \A b \in Agents \ {a} : node'[b] = node[b] /\ history'[b] = history[b]
        /\ history'[a] = history[a] \o said
    BY <1>0, <1>3, <2>1 DEF ModelAnswers, AgentTypes
  <2>3. \A i \in 1..Len(history'[a]) : Tool(history'[a][i]) =>
          i \in 1..Len(history[a]) /\ history'[a][i] = history[a][i]
    BY <2>1, <2>2, Appended
  <2>4. Passed(a)'
    BY <2>1, <2>2, <2>3 DEF Passed
  <2> QED
    BY <2>2, <2>4, OthersPass
<1>4. ASSUME NEW a \in Agents, Judge(a)
      PROVE  \A b \in Agents : Passed(b)'
  <2>1. PICK c :
          \/ Deny(a, c) /\ UNCHANGED asking
          \/ ~Forbidden(c) /\ Allow(a, c) /\ UNCHANGED asking
          \/ /\ ~Forbidden(c) /\ UNCHANGED verdict
             /\ asking' = [asking EXCEPT ![a] = [calls |-> {c}, try |-> 1]]
    BY <1>4 DEF Judge
  <2>2. UNCHANGED <<history, node>>
    BY <1>4 DEF Judge
  <2>3. \A x \in verdict'[a].allow \cup asking'[a].calls :
          x \in verdict[a].allow \cup asking[a].calls \/ ~Forbidden(x)
    BY <1>0, <2>1 DEF Deny, Allow, AgentTypes
  <2>4. Passed(a)'
    BY <2>2, <2>3, NotForbiddenIsClean DEF Passed, Batch
  <2>5. \A b \in Agents \ {a} : verdict'[b] = verdict[b] /\ asking'[b] = asking[b]
    BY <1>0, <2>1 DEF Deny, Allow, AgentTypes
  <2> QED
    BY <2>2, <2>4, <2>5, OthersPass
<1>5. ASSUME NEW a \in Agents, ClassifierAnswers(a)
      PROVE  \A b \in Agents : Passed(b)'
  <2>1. PICK c \in asking[a].calls :
          \/ (Allow(a, c) \/ Deny(a, c)) /\ asking' = [asking EXCEPT ![a] = Nobody]
          \/ Unreadable(a, c)
    BY <1>5 DEF ClassifierAnswers
  <2>2. UNCHANGED <<history, node>>
    BY <1>5 DEF ClassifierAnswers
  <2>3. /\ verdict'[a].allow \cup asking'[a].calls \subseteq verdict[a].allow \cup asking[a].calls
        /\ \A b \in Agents \ {a} : verdict'[b] = verdict[b] /\ asking'[b] = asking[b]
    <3>1. CASE (Allow(a, c) \/ Deny(a, c)) /\ asking' = [asking EXCEPT ![a] = Nobody]
      BY <1>0, <3>1 DEF Allow, Deny, Nobody, AgentTypes
    <3>2. CASE Unreadable(a, c)
      BY <1>0, <3>2 DEF Unreadable, Deny, Nobody, AgentTypes
    <3> QED
      BY <2>1, <3>1, <3>2
  <2>4. Passed(a)'
    BY <2>2, <2>3 DEF Passed, Batch
  <2> QED
    BY <2>2, <2>3, <2>4, OthersPass
<1>6. ASSUME NEW a \in Agents, GateDecides(a)
      PROVE  \A b \in Agents : Passed(b)'
  <2>1. /\ node[a] = "gate" /\ Judged(a) = Batch(a) /\ IsFiniteSet(Batch(a))
        /\ verdict' = [verdict EXCEPT ![a] = NoVerdict] /\ asking' = asking
    BY <1>6 DEF GateDecides, At, ThreadInv, AtBatch
  <2>2. verdict'[a].allow = {} /\ \A b \in Agents \ {a} : verdict'[b] = verdict[b]
    BY <1>0, <2>1 DEF AgentTypes, NoVerdict
  <2>3. CASE verdict[a].deny = {}
    <3>1. node' = [node EXCEPT ![a] = "tools"] /\ history' = history
      BY <1>6, <2>3 DEF GateDecides
    <3>2. \A c \in Batch(a)' : Clean(c)
      BY <2>1, <2>3, <3>1 DEF Judged, Batch, Passed
    <3>3. Passed(a)'
      BY <2>1, <2>2, <3>1, <3>2 DEF Passed
    <3> QED
      BY <1>0, <2>1, <2>2, <3>1, <3>3, OthersPass DEF AgentTypes
  <2>4. CASE verdict[a].deny # {}
    <3>1. /\ node' = [node EXCEPT ![a] = "agent"]
          /\ history' = [history EXCEPT ![a] = @ \o Denials(a)]
      BY <1>6, <2>4 DEF GateDecides, Denials
    <3>2. /\ Denials(a) \in Seq(Message)
          /\ \A i \in 1..Len(Denials(a)) : Denials(a)[i].res = "denied"
      BY <2>1, DenialsGiven
    <3>3. /\ history'[a] = history[a] \o Denials(a) /\ history[a] \in Seq(Message)
          /\ node'[a] = "agent"
      BY <1>0, <3>1 DEF AgentTypes
    <3>4. \A i \in 1..Len(history'[a]) : history'[a][i].res # "denied" =>
            i \in 1..Len(history[a]) /\ history'[a][i] = history[a][i]
      BY <3>2, <3>3, Appended
    <3>5. Passed(a)'
      BY <2>1, <2>2, <3>3, <3>4 DEF Passed
    <3> QED
      BY <1>0, <2>1, <2>2, <3>1, <3>5, OthersPass DEF AgentTypes
  <2> QED
    BY <2>3, <2>4
<1>7. ASSUME NEW a \in Agents, RunTools(a)
      PROVE  \A b \in Agents : Passed(b)'
  <2>1. PICK answers \in Seq(Message) :
          /\ history' = [history EXCEPT ![a] = @ \o answers]
          /\ node' = [node EXCEPT ![a] = IF TookEffect(answers) THEN "end" ELSE "agent"]
          /\ \A i \in 1..Len(answers) :
               Tool(answers[i]) /\ \E c \in Batch(a) : answers[i].of = <<c>>
    BY <1>7, ToolsAnswer
  <2>0. \A i \in 1..Len(answers) : \E c \in Batch(a) : answers[i].of[1] = c
    BY <2>1
  <2>2. node[a] = "tools" /\ verdict' = verdict /\ asking' = asking
    BY <1>7 DEF RunTools, At
  <2>3. history'[a] = history[a] \o answers /\ history[a] \in Seq(Message) /\ node'[a] # "tools"
    BY <1>0, <2>1 DEF AgentTypes
  <2>4. \A i \in 1..Len(history'[a]) :
          \/ i \in 1..Len(history[a]) /\ history'[a][i] = history[a][i]
          \/ Clean(history'[a][i].of[1])
    BY <2>0, <2>1, <2>2, <2>3, Appended DEF Passed
  <2>5. Passed(a)'
    BY <2>2, <2>3, <2>4 DEF Passed
  <2> QED
    BY <1>0, <2>1, <2>2, <2>5, OthersPass DEF AgentTypes
<1>8. CASE Crash
  BY <1>8 DEF Crash, Passed, Batch, NoVerdict, Nobody
<1>9. CASE Quiet
  BY <1>9 DEF Quiet, Passed, Batch
<1> QED
  BY <1>1, <1>2, <1>3, <1>4, <1>5, <1>6, <1>7, <1>8, <1>9, QuietSteps DEF Next, Agent

\* No one-line command with a forbidden segment is ever at the tools or has
\* ever run, whatever the model asks for in whichever batch, whatever the
\* classifier answers and however often a run fails, is killed and resumed
\* (graph.py permission_gate, permissions.py forbidden_reason).
THEOREM NothingForbiddenRuns == Spec => []GateHolds
<1>1. Init => \A a \in Agents : Passed(a)
  BY DEF Init, Passed, NoVerdict, Nobody
<1>2. ThreadInv /\ (\A a \in Agents : Passed(a)) /\ [Next]_vars => (\A a \in Agents : Passed(a))'
  BY GateStays
<1>3. (\A a \in Agents : Passed(a)) => GateHolds
  BY DEF Passed, GateHolds
<1> QED
  BY <1>1, <1>2, <1>3, ThreadsHold, PTL DEF Spec

\* A thread that was invoked once with a brief has its end behind the answer
\* of a terminal tool that took effect; a thread that was not has no message,
\* and a thread that runs was.
Ended(a) ==
  /\ begun[a] = 0 => history[a] = <<>>
  /\ a \in running => begun[a] > 0
  /\ begun[a] = 1 =>
       \A i \in 1..Len(history[a]) : Tool(history[a][i]) /\ history[a][i].res = "settled" =>
         /\ node[a] = "end"
         /\ \A j \in i + 1..Len(history[a]) : Tool(history[a][j])

LEMMA OthersEnded ==
  ASSUME NEW b \in Agents, Ended(b),
         history'[b] = history[b], node'[b] = node[b], begun'[b] = begun[b],
         b \in running' => b \in running
  PROVE  Ended(b)'
BY DEF Ended

\* While a thread goes on none of its answers is one that settled it.
LEMMA GoingOn ==
  ASSUME NEW a \in Agents, Ended(a), node[a] # "end", begun[a] = 1
  PROVE  \A i \in 1..Len(history[a]) : ~(Tool(history[a][i]) /\ history[a][i].res = "settled")
BY DEF Ended

\* What a running thread is given that holds no answer which settled it.
LEMMA EndedByMore ==
  ASSUME NEW a \in Agents, Ended(a), a \in running, node[a] # "end",
         history[a] \in Seq(Message), NEW more \in Seq(Message),
         history'[a] = history[a] \o more, begun'[a] = begun[a],
         \A i \in 1..Len(more) : ~(Tool(more[i]) /\ more[i].res = "settled")
  PROVE  Ended(a)'
<1>1. ASSUME begun[a] = 1
      PROVE  \A i \in 1..Len(history'[a]) :
               ~(Tool(history'[a][i]) /\ history'[a][i].res = "settled")
  BY <1>1, GoingOn, Appended
<1>2. begun[a] > 0 /\ begun'[a] # 0
  BY DEF Ended
<1> QED
  BY <1>1, <1>2 DEF Ended

LEMMA EndStays ==
  ASSUME ThreadInv, \A a \in Agents : Ended(a), [Next]_vars
  PROVE  \A a \in Agents : Ended(a)'
<1> USE DEF thread, gate
<1>0. AgentTypes
  BY DEF ThreadInv
<1>1. ASSUME NEW a \in Agents, Begin(a)
      PROVE  \A b \in Agents : Ended(b)'
  <2>1. /\ history'[a] = history[a] \o LeadIn /\ history[a] \in Seq(Message)
        /\ begun[a] \in Nat /\ begun'[a] = begun[a] + 1
    BY <1>0, <1>1 DEF Begin, AgentTypes
  <2>2. ASSUME begun[a] = 0
        PROVE  Ended(a)'
    <3>1. Len(history[a]) = 0 /\ begun'[a] = 1
      BY <2>1, <2>2 DEF Ended
    <3>2. \A i \in 1..Len(history'[a]) : ~Tool(history'[a][i])
      <4> TAKE i \in 1..Len(history'[a])
      <4>1. i \in 1..Len(history[a] \o LeadIn)
        BY <2>1
      <4>2. i - Len(history[a]) \in 1..Len(LeadIn) /\ history'[a][i] = LeadIn[i - Len(history[a])]
        BY <2>1, <3>1, <4>1, LeadInSaid, Appended
      <4> QED
        BY <4>2, LeadInSaid
    <3> QED
      BY <3>1, <3>2 DEF Ended
  <2>3. ASSUME begun[a] # 0
        PROVE  Ended(a)'
    <3>1. begun'[a] # 0 /\ begun'[a] # 1 /\ begun'[a] > 0
      BY <2>1, <2>3
    <3> QED
      BY <3>1 DEF Ended
  <2>4. \A b \in Agents \ {a} : Ended(b)'
    BY <1>0, <1>1, OthersEnded DEF Begin, Slot, AgentTypes
  <2> QED
    BY <2>2, <2>3, <2>4
<1>2. ASSUME NEW a \in Agents, Resume(a)
      PROVE  \A b \in Agents : Ended(b)'
  <2>1. begun[a] > 0 /\ running' = running \cup {a} /\ UNCHANGED thread
    BY <1>2 DEF Resume, Slot
  <2> QED
    BY <2>1 DEF Ended
<1>3. ASSUME NEW a \in Agents, ModelAnswers(a)
      PROVE  \A b \in Agents : Ended(b)'
  <2>1. PICK said \in Seq(Message) :
          /\ history' = [history EXCEPT ![a] = @ \o said]
          /\ \A i \in 1..Len(said) : ~Tool(said[i])
    BY <1>3, SaidIsNoAnswer
  <2>2. /\ a \in running /\ node[a] # "end" /\ running' = running /\ begun' = begun
        /\ \A b \in Agents \ {a} : node'[b] = node[b]
    BY <1>0, <1>3 DEF ModelAnswers, At, AgentTypes
  <2>3. /\ history'[a] = history[a] \o said /\ history[a] \in Seq(Message)
        /\ \A b \in Agents \ {a} : history'[b] = history[b]
    BY <1>0, <2>1 DEF AgentTypes
  <2>4. Ended(a)'
    BY <2>1, <2>2, <2>3, EndedByMore
  <2> QED
    BY <2>2, <2>3, <2>4, OthersEnded
<1>4. ASSUME NEW a \in Agents, GateDecides(a)
      PROVE  \A b \in Agents : Ended(b)'
  <2>1. /\ node[a] = "gate" /\ a \in running /\ IsFiniteSet(Batch(a))
        /\ running' = running /\ begun' = begun
        /\ \A b \in Agents \ {a} : node'[b] = node[b] /\ history'[b] = history[b]
    BY <1>0, <1>4 DEF GateDecides, At, ThreadInv, AtBatch, AgentTypes
  <2>2. CASE history'[a] = history[a]
    BY <2>1, <2>2, GoingOn DEF Ended
  <2>3. CASE history'[a] = history[a] \o Denials(a)
    <3>1. /\ Denials(a) \in Seq(Message)
          /\ \A i \in 1..Len(Denials(a)) : Denials(a)[i].res = "denied"
      BY <2>1, DenialsGiven
    <3>2. history[a] \in Seq(Message)
      BY <1>0 DEF AgentTypes
    <3> QED
      BY <2>1, <2>3, <3>1, <3>2, EndedByMore, OthersEnded
  <2>4. history'[a] = history[a] \/ history'[a] = history[a] \o Denials(a)
    BY <1>0, <1>4 DEF GateDecides, Denials, AgentTypes
  <2> QED
    BY <2>1, <2>2, <2>3, <2>4, OthersEnded
<1>5. ASSUME NEW a \in Agents, RunTools(a)
      PROVE  \A b \in Agents : Ended(b)'
  <2>1. PICK answers \in Seq(Message) :
          /\ history' = [history EXCEPT ![a] = @ \o answers]
          /\ node' = [node EXCEPT ![a] = IF TookEffect(answers) THEN "end" ELSE "agent"]
          /\ \A i \in 1..Len(answers) : Tool(answers[i])
    BY <1>5, ToolsAnswer
  <2>2. node[a] = "tools" /\ a \in running /\ running' = running /\ begun' = begun
    BY <1>5 DEF RunTools, At
  <2>3. /\ history'[a] = history[a] \o answers /\ history[a] \in Seq(Message)
        /\ node'[a] = (IF TookEffect(answers) THEN "end" ELSE "agent")
        /\ \A b \in Agents \ {a} : history'[b] = history[b] /\ node'[b] = node[b]
    BY <1>0, <2>1 DEF AgentTypes
  <2>4. CASE TookEffect(answers)
    <3>1. ASSUME begun[a] = 1, NEW i \in 1..Len(history'[a]), NEW j \in i + 1..Len(history'[a]),
                 Tool(history'[a][i]), history'[a][i].res = "settled"
          PROVE  Tool(history'[a][j])
      <4>1. i - Len(history[a]) \in 1..Len(answers)
        BY <2>2, <2>3, <3>1, GoingOn, Appended
      <4>2. j \in 1..Len(history'[a]) /\ j - Len(history[a]) \in 1..Len(answers)
        BY <2>3, <3>1, <4>1
      <4> QED
        BY <2>1, <2>3, <4>2
    <3>2. begun'[a] > 0 /\ begun'[a] # 0 /\ node'[a] = "end"
      BY <1>0, <2>2, <2>3, <2>4 DEF Ended, AgentTypes
    <3>3. Ended(a)'
      BY <2>2, <3>1, <3>2 DEF Ended
    <3> QED
      BY <2>2, <2>3, <3>3, OthersEnded
  <2>5. CASE ~TookEffect(answers)
    <3>1. \A i \in 1..Len(answers) : answers[i].res # "settled"
      BY <2>5 DEF TookEffect
    <3>2. Ended(a)'
      BY <2>2, <2>3, <3>1, EndedByMore
    <3> QED
      BY <2>2, <2>3, <3>2, OthersEnded
  <2> QED
    BY <2>4, <2>5
<1>6. ASSUME UNCHANGED thread, \A a \in Agents : a \in running' => a \in running
      PROVE  \A b \in Agents : Ended(b)'
  BY <1>6 DEF Ended
<1>7. ASSUME NEW a \in Agents, RunEnds(a) \/ RunFails(a) \/ CallModel(a) \/ Judge(a)
                                 \/ Ask(a) \/ ClassifierAnswers(a)
      PROVE  UNCHANGED thread /\ running' \subseteq running
  BY <1>7 DEF RunEnds, RunFails, CallModel, Judge, Ask, ClassifierAnswers, Leave
<1>8. ASSUME NEW c \in Callers \ Agents, Other(c)
      PROVE  UNCHANGED thread /\ \A a \in Agents : a \in running' => a \in running
  BY <1>8 DEF Other, OtherStarts, OtherCalls, OtherGoesOn, Slot, Leave
<1>9. ASSUME Models \/ Crash \/ UNCHANGED vars
      PROVE  UNCHANGED thread /\ running' \subseteq running
  BY <1>9 DEF Models, Crash, vars
<1> QED
  BY <1>1, <1>2, <1>3, <1>4, <1>5, <1>6, <1>7, <1>8, <1>9 DEF Next, Agent

\* A terminal tool that took effect ends its thread: no turn of the model and
\* no other message follows, whatever else was in its batch and whatever
\* failures, crashes and resumed runs come after (graph.py
\* _terminal_took_effect).
THEOREM SettledThreadsStaySettled == Spec => []SettledIsLast
<1>1. Init => \A a \in Agents : Ended(a)
  BY DEF Init, Ended
<1>2. ThreadInv /\ (\A a \in Agents : Ended(a)) /\ [Next]_vars => (\A a \in Agents : Ended(a))'
  BY EndStays
<1>3. (\A a \in Agents : Ended(a)) => SettledIsLast
  BY DEF Ended, SettledIsLast
<1> QED
  BY <1>1, <1>2, <1>3, ThreadsHold, PTL DEF Spec

----------------------------------------------------------------------------
(* The nudges.                                                             *)

\* How often a sequence of messages holds one: Said, of any sequence.
Count(h, m) == Cardinality({i \in 1..Len(h) : h[i] = m})

LEMMA CountIsFinite ==
  ASSUME NEW h \in Seq(Message), NEW m
  PROVE  IsFiniteSet({i \in 1..Len(h) : h[i] = m}) /\ Count(h, m) \in Nat
<1>1. IsFiniteSet(1..Len(h))
  BY FS_Interval
<1>2. IsFiniteSet({i \in 1..Len(h) : h[i] = m})
  BY <1>1, FS_Subset
<1> QED
  BY <1>2, FS_CardinalityType DEF Count

\* Messages that are not the one counted do not count.
LEMMA CountNone ==
  ASSUME NEW h \in Seq(Message), NEW more \in Seq(Message), NEW m,
         \A i \in 1..Len(more) : more[i] # m
  PROVE  Count(h \o more, m) = Count(h, m)
<1> DEFINE all == h \o more  n == Len(h)  k == Len(more)
<1>1. /\ n \in Nat /\ k \in Nat /\ Len(all) = n + k
      /\ \A i \in 1..n : all[i] = h[i]
      /\ \A i \in n + 1..n + k : all[i] = more[i - n]
  OBVIOUS
<1>2. \A i \in n + 1..n + k : i - n \in 1..Len(more)
  BY <1>1
<1> HIDE DEF all, n, k
<1>3. \A i \in n + 1..n + k : all[i] # m
  BY <1>1, <1>2
<1>4. {i \in 1..Len(all) : all[i] = m} = {i \in 1..n : h[i] = m}
  BY <1>1, <1>3
<1> QED
  BY <1>4 DEF Count, all, n

\* One message more.
LEMMA CountOne ==
  ASSUME NEW h \in Seq(Message), NEW x \in Message, NEW m
  PROVE  /\ h \o <<x>> \in Seq(Message)
         /\ Count(h \o <<x>>, m) = Count(h, m) + (IF x = m THEN 1 ELSE 0)
<1> DEFINE S == {i \in 1..Len(h) : h[i] = m}
           T == {i \in 1..Len(h \o <<x>>) : (h \o <<x>>)[i] = m}
<1>0. Cardinality(S) \in Nat
  BY CountIsFinite DEF Count
<1>1. h \o <<x>> \in Seq(Message)
  OBVIOUS
<1>2. CASE x = m
  <2>1. T = S \cup {Len(h) + 1}
    BY <1>2
  <2>2. Len(h) + 1 \notin S /\ IsFiniteSet(S)
    <3>1. Len(h) \in Nat /\ Len(h) + 1 \notin 1..Len(h)
      OBVIOUS
    <3> QED
      BY <3>1, CountIsFinite
  <2> HIDE DEF S, T
  <2>3. Cardinality(T) = Cardinality(S) + 1
    BY <2>1, <2>2, FS_AddElement
  <2> QED
    BY <1>1, <1>2, <2>3 DEF Count, S, T
<1>3. CASE x # m
  <2>1. T = S
    BY <1>3
  <2> HIDE DEF S, T
  <2>2. Cardinality(T) = Cardinality(S) + 0
    BY <1>0, <2>1
  <2> QED
    BY <1>1, <1>3, <2>2 DEF Count, S, T
<1> QED
  BY <1>2, <1>3

\* One message more, or none.
If(b, x) == IF b THEN <<x>> ELSE <<>>

LEMMA CountIf ==
  ASSUME NEW h \in Seq(Message), NEW x \in Message, NEW b \in BOOLEAN
  PROVE  /\ If(b, x) \in Seq(Message) /\ h \o If(b, x) \in Seq(Message)
         /\ \A m : Count(h \o If(b, x), m) = Count(h, m) + (IF b /\ x = m THEN 1 ELSE 0)
<1>1. CASE b
  <2>1. If(b, x) = <<x>> /\ <<x>> \in Seq(Message)
    BY <1>1 DEF If
  <2>2. /\ h \o <<x>> \in Seq(Message)
        /\ \A m : Count(h \o <<x>>, m) = Count(h, m) + (IF x = m THEN 1 ELSE 0)
    BY CountOne
  <2> QED
    BY <1>1, <2>1, <2>2
<1>2. CASE ~b
  <2>1. If(b, x) = <<>> /\ <<>> \in Seq(Message)
    BY <1>2 DEF If
  <2>2. h \o <<>> = h /\ \A m : Count(h, m) \in Nat
    BY ConcatEmptySeq, CountIsFinite
  <2> QED
    BY <1>2, <2>1, <2>2
<1> QED
  BY <1>1, <1>2

LEMMA CountAtOnce ==
  ASSUME NEW h \in Seq(Message), NEW p \in Seq(Message), NEW q \in Seq(Message),
         NEW x \in Message, NEW m
  PROVE  Count(h \o (p \o q \o <<x>>), m) = Count((h \o p) \o q, m) + (IF x = m THEN 1 ELSE 0)
<1>1. p \o q \in Seq(Message) /\ (h \o p) \o q \in Seq(Message) /\ <<x>> \in Seq(Message)
  OBVIOUS
<1>2. (h \o p) \o q = h \o (p \o q)
  BY ConcatAssociative
<1>3. (h \o (p \o q)) \o <<x>> = h \o ((p \o q) \o <<x>>)
  BY <1>1, ConcatAssociative
<1>4. Count(((h \o p) \o q) \o <<x>>, m) = Count((h \o p) \o q, m) + (IF x = m THEN 1 ELSE 0)
  <2> DEFINE first == (h \o p) \o q
  <2>1. first \in Seq(Message)
    BY <1>1
  <2> HIDE DEF first
  <2>2. Count(first \o <<x>>, m) = Count(first, m) + (IF x = m THEN 1 ELSE 0)
    BY <2>1, CountOne
  <2> QED
    BY <2>2 DEF first
<1>5. h \o (p \o q \o <<x>>) = ((h \o p) \o q) \o <<x>>
  BY <1>2, <1>3
<1> DEFINE whole == h \o (p \o q \o <<x>>)  parts == ((h \o p) \o q) \o <<x>>
<1>6. Count(whole, m) = Count(parts, m)
  BY <1>5
<1> QED
  BY <1>4, <1>6, Zenon

\* What a turn adds: a nudge counts where it was due, and nothing else does.
LEMMA NudgesCounted ==
  ASSUME NEW turn \in Turns, NEW h \in Seq(Message), NEW x \in BOOLEAN, NEW y \in BOOLEAN
  PROVE  LET all == h \o (If(x, Human("handoff")) \o If(y, Human("completion")) \o <<AI(turn)>>)
         IN  /\ Count(all, Human("handoff"))
                  = Count(h, Human("handoff")) + (IF x THEN 1 ELSE 0)
             /\ Count(all, Human("completion"))
                  = Count(h, Human("completion")) + (IF y THEN 1 ELSE 0)
<1> DEFINE hand == Human("handoff")
           comp == Human("completion")
           ai   == AI(turn)
           all  == h \o (If(x, hand) \o If(y, comp) \o <<ai>>)
           hp   == h \o If(x, hand)
           hpq  == hp \o If(y, comp)
<1>1. hand \in Message /\ comp \in Message /\ ai \in Message
  BY Messages
<1>2. hand # comp /\ hand # ai /\ comp # ai
  BY Messages DEF Human
<1>3. Count(h, hand) \in Nat /\ Count(h, comp) \in Nat
  BY CountIsFinite
<1> HIDE DEF hand, comp, ai
<1>4. /\ If(x, hand) \in Seq(Message) /\ hp \in Seq(Message)
      /\ \A m : Count(hp, m) = Count(h, m) + (IF x /\ hand = m THEN 1 ELSE 0)
  BY <1>1, CountIf
<1>5. \A m : Count(all, m) = Count(hpq, m) + (IF ai = m THEN 1 ELSE 0)
  <2>1. If(y, comp) \in Seq(Message)
    BY <1>1, <1>4, CountIf
  <2> QED
    BY <1>1, <1>4, <2>1, CountAtOnce
<1> HIDE DEF all, hp
<1>6. \A m : Count(hpq, m) = Count(hp, m) + (IF y /\ comp = m THEN 1 ELSE 0)
  BY <1>1, <1>4, CountIf
<1> HIDE DEF hpq
<1>7. Count(all, hand) = Count(h, hand) + (IF x THEN 1 ELSE 0)
  BY <1>2, <1>3, <1>4, <1>5, <1>6
<1>8. Count(all, comp) = Count(h, comp) + (IF y THEN 1 ELSE 0)
  BY <1>2, <1>3, <1>4, <1>5, <1>6
<1> QED
  BY <1>7, <1>8 DEF all, hand, comp, ai

\* On its first brief a thread has the handoff nudge once its turns reach the
\* budget, and the completion nudge only when its flag says so.
Nudged(a) ==
  begun[a] = 1 =>
    /\ Budgeted(a) => Count(history[a], Human("handoff"))
                        = IF turns[a] >= TurnBudget THEN 1 ELSE 0
    /\ Count(history[a], Human("completion")) <= 1
    /\ ~nudged[a] => Count(history[a], Human("completion")) = 0

\* A step that adds no nudge to a thread and takes no turn of it.
LEMMA NoNudge ==
  ASSUME NEW a \in Agents, Nudged(a), history[a] \in Seq(Message),
         NEW more \in Seq(Message), \A i \in 1..Len(more) : Tool(more[i]),
         history'[a] = history[a] \o more,
         kind'[a] = kind[a], turns'[a] = turns[a], nudged'[a] = nudged[a], begun'[a] = begun[a]
  PROVE  Nudged(a)'
<1>1. \A i \in 1..Len(more) : \A x \in {"handoff", "completion"} : more[i] # Human(x)
  BY DEF Tool, Human
<1>2. \A x \in {"handoff", "completion"} :
        Count(history'[a], Human(x)) = Count(history[a], Human(x))
  BY <1>1, CountNone
<1> QED
  BY <1>2 DEF Nudged, Budgeted

LEMMA OthersNudged ==
  ASSUME NEW a \in Agents, Nudged(a),
         history'[a] = history[a], kind'[a] = kind[a], turns'[a] = turns[a],
         nudged'[a] = nudged[a], begun'[a] = begun[a]
  PROVE  Nudged(a)'
BY DEF Nudged, Budgeted

\* A turn that the model answered carries the nudges that were due at it.
LEMMA TurnNudges ==
  ASSUME TurnBudget > 0, ThreadInv, NEW a \in Agents, Ended(a), Nudged(a), ModelAnswers(a)
  PROVE  Nudged(a)'
<1> DEFINE x == Budgeted(a) /\ turns[a] + 1 = TurnBudget
           y == kind[a] = "worker" /\ ~nudged[a] /\ StoppedWithoutTerminal(Conversation(a))
<1>0. AgentTypes
  BY DEF ThreadInv
<1>1. /\ HandoffNudge(a) = If(x, Human("handoff"))
      /\ CompletionNudge(a) = If(y, Human("completion"))
  BY DEF HandoffNudge, CompletionNudge, If
<1>2. x \in BOOLEAN /\ y \in BOOLEAN
  OBVIOUS
<1>3. y => ~nudged[a]
  OBVIOUS
<1>4. x <=> Budgeted(a) /\ turns[a] + 1 = TurnBudget
  OBVIOUS
<1> HIDE DEF x, y
<1>5. CompletionNudge(a) # <<>> <=> y
  BY <1>1 DEF If
<1>6. PICK turn \in Turns :
        /\ history' = [history EXCEPT ![a] =
             @ \o (HandoffNudge(a) \o CompletionNudge(a) \o <<AI(turn)>>)]
        /\ nudged' = [nudged EXCEPT ![a] = nudged[a] \/ CompletionNudge(a) # <<>>]
  BY DEF ModelAnswers
<1>7. UNCHANGED <<kind, begun>> /\ turns'[a] = turns[a] + 1
  BY <1>0 DEF ModelAnswers, AgentTypes
<1>8. nudged'[a] = (nudged[a] \/ y)
  BY <1>0, <1>5, <1>6 DEF AgentTypes
<1>9. /\ history[a] \in Seq(Message)
      /\ history'[a] = history[a] \o
           (If(x, Human("handoff")) \o If(y, Human("completion")) \o <<AI(turn)>>)
  BY <1>0, <1>1, <1>6 DEF AgentTypes
<1>10. /\ Count(history'[a], Human("handoff"))
            = Count(history[a], Human("handoff")) + (IF x THEN 1 ELSE 0)
       /\ Count(history'[a], Human("completion"))
            = Count(history[a], Human("completion")) + (IF y THEN 1 ELSE 0)
  BY <1>2, <1>9, NudgesCounted
<1>11. turns[a] \in Nat /\ TurnBudget \in Nat
  BY <1>0, AgentAssumption DEF AgentTypes
<1>12. ASSUME begun[a] = 1, Budgeted(a)
       PROVE  Count(history'[a], Human("handoff")) = IF turns'[a] >= TurnBudget THEN 1 ELSE 0
  <2>1. Count(history[a], Human("handoff")) = IF turns[a] >= TurnBudget THEN 1 ELSE 0
    BY <1>12 DEF Nudged
  <2> QED
    BY <1>4, <1>7, <1>10, <1>11, <1>12, <2>1
<1>13. ASSUME begun[a] = 1
       PROVE  /\ Count(history'[a], Human("completion")) <= 1
              /\ ~nudged'[a] => Count(history'[a], Human("completion")) = 0
  <2>1. /\ Count(history[a], Human("completion")) \in Nat
        /\ Count(history[a], Human("completion")) <= 1
        /\ ~nudged[a] => Count(history[a], Human("completion")) = 0
    BY <1>9, <1>13, CountIsFinite DEF Nudged
  <2>2. CASE y
    <3>1. nudged'[a] /\ ~nudged[a]
      BY <1>3, <1>8, <2>2, Zenon
    <3>2. Count(history'[a], Human("completion")) = Count(history[a], Human("completion")) + 1
      BY <1>10, <2>2
    <3> QED
      BY <2>1, <3>1, <3>2
  <2>3. CASE ~y
    <3>1. nudged'[a] <=> nudged[a]
      BY <1>8, <2>3, Zenon
    <3>2. Count(history'[a], Human("completion")) = Count(history[a], Human("completion"))
      BY <1>10, <2>1, <2>3
    <3> QED
      BY <2>1, <3>1, <3>2
  <2> QED
    BY <2>2, <2>3
<1> QED
  BY <1>7, <1>12, <1>13 DEF Nudged, Budgeted

LEMMA NudgedStays ==
  ASSUME TurnBudget > 0, ThreadInv, \A a \in Agents : Ended(a) /\ Nudged(a), [Next]_vars
  PROVE  \A a \in Agents : Nudged(a)'
<1> USE DEF thread, gate
<1>0. AgentTypes
  BY DEF ThreadInv
<1>1. ASSUME NEW a \in Agents, Begin(a)
      PROVE  \A b \in Agents : Nudged(b)'
  <2>1. /\ history'[a] = history[a] \o LeadIn /\ history[a] \in Seq(Message)
        /\ begun[a] \in Nat /\ begun'[a] = begun[a] + 1 /\ turns'[a] = 0
        /\ UNCHANGED <<kind, nudged>>
    BY <1>0, <1>1 DEF Begin, AgentTypes
  <2>2. ASSUME begun[a] = 0
        PROVE  Nudged(a)'
    <3>1. history[a] = <<>>
      BY <2>2 DEF Ended
    <3>2. \A x \in {"handoff", "completion"} : \A i \in 1..Len(LeadIn) : LeadIn[i] # Human(x)
      BY DEF LeadIn, System, Human
    <3>3. ASSUME NEW x \in {"handoff", "completion"}
          PROVE  Count(history'[a], Human(x)) = Count(<<>>, Human(x))
      <4>1. Count(history[a] \o LeadIn, Human(x)) = Count(history[a], Human(x))
        BY <2>1, <3>2, LeadInSaid, CountNone
      <4> QED
        BY <2>1, <3>1, <4>1
    <3>4. \A m : Count(<<>>, m) = 0
      <4>1. \A m : {i \in 1..Len(<<>>) : <<>>[i] = m} = {}
        OBVIOUS
      <4> QED
        BY <4>1, FS_EmptySet DEF Count
    <3>5. TurnBudget \in Nat
      BY AgentAssumption
    <3> QED
      BY <2>1, <3>3, <3>4, <3>5 DEF Nudged
  <2>3. ASSUME begun[a] # 0
        PROVE  Nudged(a)'
    BY <2>1, <2>3 DEF Nudged
  <2>4. \A b \in Agents \ {a} : Nudged(b)'
    BY <1>0, <1>1, OthersNudged DEF Begin, AgentTypes
  <2> QED
    BY <2>2, <2>3, <2>4
<1>2. ASSUME NEW a \in Agents, ModelAnswers(a)
      PROVE  \A b \in Agents : Nudged(b)'
  <2>1. Nudged(a)'
    BY <1>2, TurnNudges
  <2>2. \A b \in Agents \ {a} : /\ history'[b] = history[b] /\ kind'[b] = kind[b]
                                /\ turns'[b] = turns[b] /\ nudged'[b] = nudged[b]
                                /\ begun'[b] = begun[b]
    BY <1>0, <1>2 DEF ModelAnswers, AgentTypes
  <2> QED
    BY <2>1, <2>2, OthersNudged
<1>3. ASSUME NEW a \in Agents, GateDecides(a)
      PROVE  \A b \in Agents : Nudged(b)'
  <2>1. node[a] = "gate" /\ IsFiniteSet(Batch(a))
        /\ UNCHANGED <<kind, turns, nudged, begun>>
    BY <1>0, <1>3 DEF GateDecides, At, ThreadInv, AtBatch
  <2>2. \A b \in Agents \ {a} : history'[b] = history[b]
    BY <1>0, <1>3 DEF GateDecides, AgentTypes
  <2>3. history'[a] = history[a] \/ history'[a] = history[a] \o Denials(a)
    BY <1>0, <1>3 DEF GateDecides, Denials, AgentTypes
  <2>4. CASE history'[a] = history[a]
    BY <2>1, <2>2, <2>4, OthersNudged
  <2>5. CASE history'[a] = history[a] \o Denials(a)
    <3>1. history[a] \in Seq(Message)
      BY <1>0 DEF AgentTypes
    <3>2. Nudged(a)'
      BY <2>1, <2>5, <3>1, DenialsGiven, NoNudge
    <3> QED
      BY <2>1, <2>2, <3>2, OthersNudged
  <2> QED
    BY <2>3, <2>4, <2>5
<1>4. ASSUME NEW a \in Agents, RunTools(a)
      PROVE  \A b \in Agents : Nudged(b)'
  <2>1. PICK answers \in Seq(Message) :
          /\ history' = [history EXCEPT ![a] = @ \o answers]
          /\ \A i \in 1..Len(answers) : Tool(answers[i])
    BY <1>4, ToolsAnswer
  <2>2. UNCHANGED <<kind, turns, nudged, begun>>
    BY <1>4 DEF RunTools
  <2>3. /\ history'[a] = history[a] \o answers /\ history[a] \in Seq(Message)
        /\ \A b \in Agents \ {a} : history'[b] = history[b]
    BY <1>0, <2>1 DEF AgentTypes
  <2>4. Nudged(a)'
    BY <2>1, <2>2, <2>3, NoNudge
  <2> QED
    BY <2>2, <2>3, <2>4, OthersNudged
<1>5. ASSUME UNCHANGED <<kind, thread>>
      PROVE  \A b \in Agents : Nudged(b)'
  BY <1>5, OthersNudged
<1>6. ASSUME NEW a \in Agents, Resume(a) \/ RunEnds(a) \/ RunFails(a) \/ CallModel(a) \/ Judge(a)
                                 \/ Ask(a) \/ ClassifierAnswers(a)
      PROVE  UNCHANGED <<kind, thread>>
  BY <1>6 DEF Resume, RunEnds, RunFails, CallModel, Judge, Ask, ClassifierAnswers
<1>7. ASSUME NEW c \in Callers \ Agents, Other(c)
      PROVE  UNCHANGED <<kind, thread>>
  BY <1>7 DEF Other, OtherStarts, OtherCalls, OtherGoesOn
<1>8. ASSUME Models \/ Crash \/ UNCHANGED vars
      PROVE  UNCHANGED <<kind, thread>>
  BY <1>8 DEF Models, Crash, vars
<1> QED
  BY <1>1, <1>2, <1>3, <1>4, <1>5, <1>6, <1>7, <1>8 DEF Next, Agent

\* The handoff nudge is given at the turn of the budget and never again, and the
\* completion nudge at most once, however many turns fail and are resumed
\* (graph.py call_model); a budget of no turns is never met by a turn.
THEOREM EachNudgeOnce == TurnBudget > 0 => (Spec => []NudgedOnce)
<1> SUFFICES ASSUME TurnBudget > 0
             PROVE  Spec => []NudgedOnce
  OBVIOUS
<1> DEFINE I == \A a \in Agents : Ended(a) /\ Nudged(a)
<1>1. Init => I
  BY DEF Init, Ended, Nudged
<1>2. ThreadInv /\ I /\ [Next]_vars => I'
  BY EndStays, NudgedStays
<1>3. I => NudgedOnce
  BY DEF Nudged, NudgedOnce, Said, Count
<1> HIDE DEF I
<1> QED
  BY <1>1, <1>2, <1>3, ThreadsHold, PTL DEF Spec
----------------------------------------------------------------------------
(* Sequences: induction, and where the parts of a concatenation are.       *)

\* Induction over the naturals, of a set of them: the theorems of the library
\* that take a predicate are out of the provers' reach.
LEMMA Least ==
  ASSUME NEW S \in SUBSET Nat, S # {}
  PROVE  \E n \in S : \A m \in S : n <= m
<1> DEFINE T == {1..n : n \in S}
<1>1. IsWellFoundedOn(StrictSubsetOrdering(Nat), FiniteSubsetsOf(Nat))
  BY FS_StrictSubsetOrderingWellFounded
<1>2. T \subseteq FiniteSubsetsOf(Nat)
  BY FS_Interval DEF FiniteSubsetsOf
<1>3. T # {}
  OBVIOUS
<1>4. PICK t \in T : \A u \in T : <<u, t>> \notin StrictSubsetOrdering(Nat)
  <2> HIDE DEF T
  <2> QED
    BY <1>1, <1>2, <1>3, WFMin, Zenon
<1>5. PICK n \in S : t = 1..n
  OBVIOUS
<1>6. ASSUME NEW m \in S, m < n
      PROVE  FALSE
  <2>1. 1..m \subseteq 1..n /\ n \in 1..n /\ n \notin 1..m
    BY <1>6
  <2>2. <<1..m, 1..n>> \in StrictSubsetOrdering(Nat)
    BY <2>1 DEF StrictSubsetOrdering
  <2> QED
    BY <2>2, <1>4, <1>5
<1> QED
  BY <1>6

LEMMA Induction ==
  ASSUME NEW S \in SUBSET Nat, 0 \in S, \A n \in S : n + 1 \in S
  PROVE  S = Nat
<1>1. ASSUME Nat \ S # {}
      PROVE  FALSE
  <2>1. PICK n \in Nat \ S : \A m \in Nat \ S : n <= m
    BY <1>1, Least
  <2>2. n # 0 /\ n - 1 \in S
    BY <2>1
  <2> QED
    BY <2>1, <2>2
<1> QED
  BY <1>1

\* The recursion of FlattenSeq: g[i] concatenates the first i of s.
Joins(g, s, n) == g = [i \in 1..n |-> IF i = 1 THEN s[i] ELSE g[i - 1] \o s[i]]

LEMMA JoinsExist ==
  ASSUME NEW s
  PROVE  \A n \in Nat : \E g : Joins(g, s, n)
<1> DEFINE S == {n \in Nat : \E g : Joins(g, s, n)}
<1>1. 0 \in S
  <2>1. Joins(<<>>, s, 0)
    BY DEF Joins
  <2> QED
    BY <2>1
<1>2. ASSUME NEW n \in S
      PROVE  n + 1 \in S
  <2>1. PICK g : Joins(g, s, n)
    OBVIOUS
  <2> DEFINE f == [i \in 1..n + 1 |-> IF i = n + 1
                     THEN IF i = 1 THEN s[i] ELSE g[n] \o s[i] ELSE g[i]]
  <2>2. \A i \in 1..n + 1 : f[i] = IF i = 1 THEN s[i] ELSE f[i - 1] \o s[i]
    <3>1. CASE n = 0
      BY <3>1
    <3>2. ASSUME n # 0, NEW i \in 1..n + 1
          PROVE f[i] = IF i = 1 THEN s[i] ELSE f[i - 1] \o s[i]
      <4>1. CASE i = n + 1
        BY <4>1, <3>2
      <4>2. CASE i # n + 1
        <5>1. i \in 1..n /\ (i # 1 => i - 1 \in 1..n)
          BY <4>2, <3>2
        <5>2. f[i] = g[i] /\ (i # 1 => f[i - 1] = g[i - 1])
          BY <5>1
        <5>3. g[i] = IF i = 1 THEN s[i] ELSE g[i - 1] \o s[i]
          BY <5>1, <2>1 DEF Joins
        <5> QED
          BY <5>2, <5>3
      <4> QED BY <4>1, <4>2
    <3> QED
      BY <3>1, <3>2
  <2>3. Joins(f, s, n + 1)
    BY <2>2 DEF Joins
  <2> QED
    BY <2>3
<1> HIDE DEF S
<1>3. S = Nat
  BY <1>1, <1>2, Induction DEF S
<1> QED
  BY <1>3 DEF S

LEMMA FlattenJoins ==
  ASSUME NEW M, NEW s \in Seq(Seq(M)), Len(s) # 0
  PROVE \E g : Joins(g, s, Len(s)) /\ FlattenSeq(s) = g[Len(s)]
<1> DEFINE f == CHOOSE g : Joins(g, s, Len(s))
<1>1. Joins(f, s, Len(s))
  <2>1. \E g : Joins(g, s, Len(s))
    <3>1. Len(s) \in Nat
      OBVIOUS
    <3> QED
      BY <3>1, JoinsExist, Zenon
  <2> QED
    BY <2>1, Zenon
<1>2. FlattenSeq(s) = f[Len(s)]
  BY DEF FlattenSeq, Joins
<1> HIDE DEF f
<1> QED
  BY <1>1, <1>2

\* Where the parts of s, n of them, are in their concatenation r.
Places(off, s, n, r) ==
  /\ off \in [0..n -> Nat]
  /\ off[0] = 0 /\ off[n] = Len(r)
  /\ \A i \in 1..n : off[i] = off[i - 1] + Len(s[i])
  /\ \A i, j \in 0..n : i <= j => off[i] <= off[j]
  /\ \A i \in 1..n : \A x \in 1..Len(s[i]) : r[off[i - 1] + x] = s[i][x]
  /\ \A p \in 1..Len(r) : \E i \in 1..n : p \in off[i - 1] + 1..off[i]

LEMMA FlattenPlaces ==
  ASSUME NEW M, NEW s \in Seq(Seq(M)), NEW n, n = Len(s), n # 0,
         NEW r, r = FlattenSeq(s)
  PROVE  r \in Seq(M) /\ \E off : Places(off, s, n, r)
<1>1. PICK g : Joins(g, s, n) /\ r = g[n]
  BY FlattenJoins
<1>2. n \in Nat \ {0} /\ \A i \in 1..n : s[i] \in Seq(M)
  OBVIOUS
<1>3. /\ g[1] = s[1]
      /\ \A i \in 1..n : i # 1 => g[i] = g[i - 1] \o s[i]
  <2>1. g = [i \in 1..n |-> IF i = 1 THEN s[i] ELSE g[i - 1] \o s[i]]
    BY <1>1 DEF Joins
  <2>2. \A i \in 1..n : g[i] = IF i = 1 THEN s[i] ELSE g[i - 1] \o s[i]
    BY <2>1, Zenon
  <2>3. 1 \in 1..n
    BY <1>2
  <2> QED
    BY <2>2, <2>3, Zenon
<1>4. \A i \in 1..n : g[i] \in Seq(M)
  <2> DEFINE S == {i \in Nat : i \in 1..n => g[i] \in Seq(M)}
  <2>1. 0 \in S
    OBVIOUS
  <2>2. ASSUME NEW i \in S
        PROVE  i + 1 \in S
    <3>1. CASE i = 0
      BY <3>1, <1>2, <1>3
    <3>2. CASE i \in 1..n /\ i + 1 \in 1..n
      <4>1. g[i] \in Seq(M) /\ s[i + 1] \in Seq(M)
        BY <3>2, <1>2
      <4>2. i + 1 # 1 /\ (i + 1) - 1 = i
        BY <3>2, <1>2
      <4>3. g[i + 1] = g[(i + 1) - 1] \o s[i + 1]
        BY <4>2, <3>2, <1>3, Zenon
      <4>4. g[i + 1] = g[i] \o s[i + 1]
        BY <4>2, <4>3
      <4> HIDE DEF S
      <4>5. g[i + 1] \in Seq(M)
        BY <4>1, <4>4
      <4> QED
        BY <4>5 DEF S
    <3>3. CASE i + 1 \notin 1..n
      BY <3>3
    <3> QED
      BY <3>1, <3>2, <3>3, <1>2
  <2> HIDE DEF S
  <2>3. S = Nat
    BY <2>1, <2>2, Induction DEF S
  <2> QED
    BY <2>3 DEF S
<1> DEFINE off == [i \in 0..n |-> IF i = 0 THEN 0 ELSE Len(g[i])]
<1>5. off \in [0..n -> Nat] /\ off[0] = 0 /\ off[n] = Len(g[n])
  BY <1>2, <1>4
<1>6. ASSUME NEW i \in 1..n
      PROVE  /\ off[i] = off[i - 1] + Len(s[i])
             /\ \A x \in 1..Len(s[i]) : g[i][off[i - 1] + x] = s[i][x]
             /\ \A p \in 1..off[i - 1] : g[i][p] = g[i - 1][p]
  <2>1. CASE i = 1
    BY <2>1, <1>2, <1>3, <1>4
  <2>2. CASE i # 1
    <3>1. i - 1 \in 1..n /\ i - 1 # 0
      BY <2>2, <1>2
    <3>2. g[i - 1] \in Seq(M) /\ s[i] \in Seq(M) /\ g[i] = g[i - 1] \o s[i]
      BY <2>2, <3>1, <1>2, <1>3, <1>4
    <3>3. off[i - 1] = Len(g[i - 1]) /\ off[i] = Len(g[i])
      BY <3>1, <1>2
    <3> HIDE DEF off
    <3> DEFINE t == g[i - 1] u == s[i]
    <3>4. t \in Seq(M) /\ u \in Seq(M) /\ g[i] = t \o u
      BY <3>2
    <3> HIDE DEF t, u
    <3>5. /\ Len(t \o u) = Len(t) + Len(u)
          /\ \A x \in 1..Len(u) : (t \o u)[Len(t) + x] = u[x]
          /\ \A p \in 1..Len(t) : (t \o u)[p] = t[p]
      BY <3>4
    <3> QED
      BY <3>3, <3>4, <3>5 DEF t, u
  <2> QED
    BY <2>1, <2>2
<1> HIDE DEF off
<1>7. \A i, j \in 0..n : i <= j =>
        off[i] <= off[j] /\ (i # 0 => \A p \in 1..off[i] : g[j][p] = g[i][p])
  <2> SUFFICES ASSUME NEW i \in 0..n
               PROVE  \A j \in 0..n : i <= j =>
                 off[i] <= off[j] /\ (i # 0 => \A p \in 1..off[i] : g[j][p] = g[i][p])
    OBVIOUS
  <2> DEFINE S == {k \in Nat : i + k <= n =>
                    /\ off[i] <= off[i + k]
                    /\ i # 0 => \A p \in 1..off[i] : g[i + k][p] = g[i][p]}
  <2>1. 0 \in S
    BY <1>5
  <2>2. ASSUME NEW k \in S
        PROVE  k + 1 \in S
    <3> SUFFICES ASSUME i + (k + 1) <= n
                 PROVE  /\ off[i] <= off[i + (k + 1)]
                        /\ i # 0 => \A p \in 1..off[i] : g[i + (k + 1)][p] = g[i][p]
      OBVIOUS
    <3> DEFINE j == i + k + 1
    <3>1. j \in 1..n /\ j - 1 = i + k /\ j - 1 \in 0..n /\ i + (k + 1) = j
      <4>1. n \in Nat /\ i \in Nat /\ k \in Nat /\ i + (k + 1) <= n
        BY <1>2
      <4> HIDE DEF S
      <4> QED
        BY <4>1
    <3> HIDE DEF j
    <3>0. i + k <= n => /\ off[i] <= off[i + k]
                        /\ i # 0 => \A p \in 1..off[i] : g[i + k][p] = g[i][p]
      OBVIOUS
    <3>2. /\ off[i] <= off[j - 1]
          /\ i # 0 => \A p \in 1..off[i] : g[j - 1][p] = g[i][p]
      BY <3>0, <3>1
    <3>3. off[j] = off[j - 1] + Len(s[j]) /\ Len(s[j]) \in Nat
      BY <3>1, <1>6, <1>2
    <3>4. \A p \in 1..off[j - 1] : g[j][p] = g[j - 1][p]
      BY <3>1, <1>6
    <3>5. off[i] \in Nat /\ off[j - 1] \in Nat
      BY <3>1, <1>5
    <3> HIDE DEF S
    <3> DEFINE a == off[i]  b == off[j - 1]  c == off[j]  d == Len(s[j])
    <3>6. a <= b /\ a \in Nat /\ b \in Nat /\ d \in Nat /\ c = b + d
      BY <3>2, <3>3, <3>5
    <3> HIDE DEF a, b, c, d
    <3>7. a <= c /\ 1..a \subseteq 1..b
      BY <3>6
    <3>8. i # 0 => \A p \in 1..off[i] : g[j][p] = g[i][p]
      BY <3>2, <3>4, <3>7 DEF a, b
    <3> QED
      BY <3>1, <3>7, <3>8 DEF a, c
  <2> HIDE DEF S
  <2>3. S = Nat
    BY <2>1, <2>2, Induction DEF S
  <2>4. ASSUME NEW j \in 0..n, i <= j
        PROVE  off[i] <= off[j] /\ (i # 0 => \A p \in 1..off[i] : g[j][p] = g[i][p])
    <3>1. PICK k \in Nat : j = i + k
      <4>1. j - i \in Nat /\ j = i + (j - i)
        BY <2>4
      <4> QED
        BY <4>1
    <3>2. k \in S /\ i + k <= n
      BY <3>1, <2>3, <1>2
    <3> QED
      BY <3>1, <3>2 DEF S
  <2> QED
    BY <2>4
<1>8. ASSUME NEW i \in 1..n, NEW x \in 1..Len(s[i])
      PROVE  g[n][off[i - 1] + x] = s[i][x]
  <2>0. Len(s[i]) \in Nat /\ i \in 0..n /\ i - 1 \in 0..n
    BY <1>2
  <2> HIDE DEF off
  <2>1. off[i - 1] \in Nat /\ off[i] \in Nat
    BY <2>0, <1>5
  <2>2. off[i - 1] + x \in 1..off[i]
    BY <2>0, <2>1, <1>6
  <2>3. g[n][off[i - 1] + x] = g[i][off[i - 1] + x]
    BY <2>2, <1>7, <1>2
  <2> QED
    BY <2>3, <1>6
<1>9. ASSUME NEW p \in 1..Len(g[n])
      PROVE  \E i \in 1..n : p \in off[i - 1] + 1..off[i]
  <2> DEFINE S == {i \in 0..n : p <= off[i]}
  <2>1. n \in S /\ S \in SUBSET Nat /\ S # {}
    <3>1. n \in 0..n
      BY <1>2
    <3>2. p <= off[n]
      BY <1>5
    <3> QED
      BY <3>1, <3>2
  <2>2. PICK i \in S : \A m \in S : i <= m
    BY <2>1, Least
  <2>3. i # 0
    BY <1>5
  <2>4. i - 1 \in 0..n /\ i - 1 \notin S
    BY <2>2, <2>3, <1>2
  <2>5. off[i - 1] \in Nat /\ off[i] \in Nat
    BY <2>4, <1>5
  <2>6. ~(p <= off[i - 1]) /\ p <= off[i] /\ i \in 1..n
    BY <2>3, <2>4, <1>2
  <2>7. p \in Nat
    BY <1>5
  <2> DEFINE lo == off[i - 1]  hi == off[i]
  <2>8. lo \in Nat /\ hi \in Nat /\ ~(p <= lo) /\ p <= hi
    BY <2>5, <2>6
  <2> HIDE DEF lo, hi, S
  <2>9. p \in lo + 1..hi
    BY <2>7, <2>8
  <2> QED
    BY <2>6, <2>9 DEF lo, hi
<1> HIDE DEF off
<1>10. off[n] = Len(r) /\ r \in Seq(M)
  BY <1>1, <1>2, <1>4, <1>5
<1>11. Places(off, s, n, r)
  BY <1>1, <1>5, <1>6, <1>7, <1>8, <1>9, <1>10 DEF Places
<1> QED
  BY <1>10, <1>11

\* The sequence of a finite set holds every element.
LEMMA SequenceHoldsAll ==
  ASSUME NEW S, IsFiniteSet(S), NEW e \in S
  PROVE  \E i \in 1..Cardinality(S) : SetToSeq(S)[i] = e
<1> DEFINE f == SetToSeq(S) n == Cardinality(S) R == {f[i] : i \in 1..n}
<1>1. n \in Nat /\ ExistsBijection(1..n, S)
  BY FS_CardinalityType
<1>2. PICK g \in Bijection(1..n, S) : TRUE
  BY <1>1 DEF ExistsBijection
<1>3. g \in [1..n -> S] /\ IsInjective(g)
  BY <1>2 DEF Bijection, Injection, IsInjective
<1>4. f \in [1..n -> S] /\ IsInjective(f)
  BY <1>3, Zenon DEF SetToSeq
<1> HIDE DEF f, n
<1>5. R \subseteq S
  BY <1>4
<1>6. f \in Bijection(1..n, R)
  BY <1>4 DEF Bijection, Injection, Surjection, IsInjective
<1>7. ExistsBijection(1..n, R)
  BY <1>6 DEF ExistsBijection
<1>8. IsFiniteSet(R) /\ Cardinality(R) = n
  BY <1>1, <1>7, FS_CountingElements, FS_NatBijection, FS_CardinalityType
<1>9. R = S
  BY <1>5, <1>8, FS_Subset DEF n
<1> QED
  BY <1>9 DEF f, n

----------------------------------------------------------------------------
(* What the repair makes of a history.                                     *)

\* Every tool message answers a call of the message its batch follows.
Asked(h) ==
  \A j \in 1..Len(h) : Tool(h[j]) =>
    \E i \in 1..j - 1 : h[i].kind = "ai" /\ j \in Follow(h, i) /\ h[j].of \in Owed(h[i])

Asker(h, i) == {j \in 1..i : h[j].kind = "ai" /\ i \in Follow(h, j) \cup {j}}

Given(h, i) ==
  IF i = Len(h) \/ h[i + 1].kind # "tool" THEN UNION {Missing(h, j) : j \in Asker(h, i)} ELSE {}

Parts(h) ==
  [i \in 1..Len(h) |-> <<h[i]>> \o SetToSeq({Answer(c, "lost") : c \in Given(h, i)})]

LEMMA RepairFlattens == \A h : Repair(h) = FlattenSeq(Parts(h))
BY DEF Repair, Parts, Given, Asker

LEMMA OneAsker ==
  ASSUME NEW M, NEW h \in Seq(M), NEW j \in 1..Len(h), NEW i \in 1..j, NEW k \in 1..j,
         h[i].kind = "ai", h[k].kind = "ai",
         j \in Follow(h, i) \cup {i}, j \in Follow(h, k) \cup {k}
  PROVE  i = k
<1>1. CASE i < k
  <2>1. j \in Follow(h, i) /\ k \in i + 1..j
    BY <1>1
  <2>2. h[k].kind = "tool"
    BY <2>1 DEF Follow
  <2> QED
    BY <2>2
<1>2. CASE k < i
  <2>1. j \in Follow(h, k) /\ i \in k + 1..j
    BY <1>2
  <2>2. h[i].kind = "tool"
    BY <2>1 DEF Follow
  <2> QED
    BY <2>2
<1> QED
  BY <1>1, <1>2

\* The messages of tools that follow the one at i end at m.
EndsAt(h, i, m) ==
  /\ Follow(h, i) = i + 1..m
  /\ \A k \in i + 1..m : h[k].kind = "tool"
  /\ m = Len(h) \/ h[m + 1].kind # "tool"

LEMMA BlockEnds ==
  ASSUME NEW M, NEW h \in Seq(M), NEW i \in 1..Len(h)
  PROVE  \E m \in i..Len(h) : EndsAt(h, i, m)
<1> DEFINE n == Len(h) S == {k \in i..n : k = n \/ h[k + 1].kind # "tool"}
<1>1. n \in Nat /\ n \in S /\ S \in SUBSET Nat
  OBVIOUS
<1>2. PICK m \in S : \A k \in S : m <= k
  BY <1>1, Least
<1>3. m \in i..n /\ (m = n \/ h[m + 1].kind # "tool")
  OBVIOUS
<1>4. ASSUME NEW k \in i + 1..m
      PROVE  h[k].kind = "tool"
  <2>1. k - 1 \in i..n /\ k - 1 # n /\ ~(m <= k - 1) /\ (k - 1) + 1 = k
    BY <1>3
  <2>2. k - 1 \notin S
    BY <2>1, <1>2
  <2> QED
    BY <2>1, <2>2
<1>5. Follow(h, i) = i + 1..m
  <2>1. ASSUME NEW j \in Follow(h, i)
        PROVE  j \in i + 1..m
    <3>1. j \in i + 1..n /\ \A k \in i + 1..j : h[k].kind = "tool"
      BY DEF Follow
    <3>2. CASE m < j
      <4>1. m + 1 \in i + 1..j /\ m # n
        BY <3>1, <3>2, <1>3
      <4> QED
        BY <4>1, <3>1, <1>3
    <3> QED
      BY <3>1, <3>2, <1>3
  <2>2. ASSUME NEW j \in i + 1..m
        PROVE  j \in Follow(h, i)
    <3>1. j \in i + 1..n /\ \A k \in i + 1..j : k \in i + 1..m
      BY <1>3
    <3> QED
      BY <3>1, <1>4 DEF Follow
  <2> QED
    BY <2>1, <2>2
<1> QED
  BY <1>3, <1>4, <1>5 DEF EndsAt

LEMMA GivenIsMissing ==
  ASSUME NEW M, NEW h \in Seq(M), NEW l \in 1..Len(h)
  PROVE  /\ Asker(h, l) = {} => Given(h, l) = {}
         /\ \A i \in Asker(h, l) :
              Given(h, l) = IF l = Len(h) \/ h[l + 1].kind # "tool" THEN Missing(h, i) ELSE {}
<1>1. ASSUME NEW i \in Asker(h, l)
      PROVE  Asker(h, l) = {i}
  BY OneAsker DEF Asker
<1> QED
  BY <1>1 DEF Given

LEMMA GivenIsFinite ==
  ASSUME NEW M, NEW h \in Seq(M), NEW l \in 1..Len(h),
         \A i \in 1..Len(h) : h[i].kind = "ai" => IsFiniteSet(h[i].calls)
  PROVE  IsFiniteSet(Given(h, l))
<1>1. ASSUME NEW i \in Asker(h, l)
      PROVE  IsFiniteSet(Missing(h, i))
  <2>1. IsFiniteSet(h[i].calls)
    BY DEF Asker
  <2>2. IsFiniteSet({<<c>> : c \in h[i].calls})
    <3> DEFINE f == [c \in h[i].calls |-> <<c>>]
    <3>1. f \in Surjection(h[i].calls, {<<c>> : c \in h[i].calls})
      BY DEF Surjection
    <3> QED
      BY <2>1, <3>1, FS_Surjection
  <2>3. IsFiniteSet(IF h[i].bad = "named" THEN {<<>>} ELSE {})
    BY FS_EmptySet, FS_Singleton
  <2>4. IsFiniteSet(Owed(h[i]))
    BY <2>2, <2>3, FS_Union DEF Owed
  <2> QED
    BY <2>4, FS_Subset DEF Missing
<1> QED
  BY <1>1, GivenIsMissing, FS_EmptySet

\* A part: a message, and an answer lost to each of the calls of G.
PartIs(p, m, G) ==
  /\ Len(p) >= 1 /\ p[1] = m
  /\ \A x \in 2..Len(p) : \E c \in G : p[x] = Answer(c, "lost")
  /\ \A c \in G : \E x \in 2..Len(p) : p[x] = Answer(c, "lost")
  /\ G = {} => Len(p) = 1

\* Every part is a message of the history and the answers it is given.
LEMMA PartsHold ==
  ASSUME NEW M, NEW h \in Seq(M),
         \A i \in 1..Len(h) : h[i].kind = "ai" => IsFiniteSet(h[i].calls)
  PROVE  \A l \in 1..Len(h) :
           /\ Parts(h)[l] \in Seq(M \cup {Answer(c, "lost") : c \in Given(h, l)})
           /\ PartIs(Parts(h)[l], h[l], Given(h, l))
<1> SUFFICES ASSUME NEW l \in 1..Len(h)
             PROVE  /\ Parts(h)[l] \in Seq(M \cup {Answer(c, "lost") : c \in Given(h, l)})
                    /\ PartIs(Parts(h)[l], h[l], Given(h, l))
  OBVIOUS
<1> DEFINE G == Given(h, l) S == {Answer(c, "lost") : c \in G}
           n == Cardinality(S) t == SetToSeq(S) p == Parts(h)[l]
<1>1. IsFiniteSet(S)
  <2> DEFINE f == [c \in G |-> Answer(c, "lost")]
  <2>1. f \in Surjection(G, S)
    BY DEF Surjection
  <2> QED
    BY <2>1, GivenIsFinite, FS_Surjection
<1>2. p = <<h[l]>> \o t
  BY DEF Parts
<1>3. \A e \in S : \E c \in G : e = Answer(c, "lost")
  OBVIOUS
<1>4. \A c \in G : Answer(c, "lost") \in S
  OBVIOUS
<1>5. G = {} => S = {}
  OBVIOUS
<1> HIDE DEF S, G
<1>6. t \in [1..n -> S] /\ n \in Nat
  BY <1>1, SequenceOfSet
<1>7. \A e \in S : \E x \in 1..n : t[x] = e
  BY <1>1, SequenceHoldsAll
<1>8. S = {} => n = 0
  BY FS_EmptySet
<1> HIDE DEF t, n, p
<1>9. t \in Seq(S) /\ Len(t) = n
  BY <1>6
<1>10. p \in Seq(M \cup S) /\ Len(p) = n + 1 /\ p[1] = h[l] /\ \A x \in 1..n : p[x + 1] = t[x]
  BY <1>2, <1>9, <1>6
<1>11. ASSUME NEW x \in 2..Len(p)
       PROVE  \E c \in G : p[x] = Answer(c, "lost")
  <2>1. x - 1 \in 1..n /\ x = (x - 1) + 1
    BY <1>10, <1>6
  <2>2. p[x] = t[x - 1] /\ t[x - 1] \in S
    BY <2>1, <1>10, <1>6
  <2> QED
    BY <2>2, <1>3
<1>12. ASSUME NEW c \in G
       PROVE  \E x \in 2..Len(p) : p[x] = Answer(c, "lost")
  <2>1. PICK x \in 1..n : t[x] = Answer(c, "lost")
    BY <1>4, <1>7
  <2>2. x + 1 \in 2..Len(p) /\ p[x + 1] = t[x]
    BY <1>6, <1>10
  <2> QED
    BY <2>1, <2>2
<1>13. G = {} => Len(p) = 1
  BY <1>5, <1>6, <1>8, <1>10
<1>14. PartIs(p, h[l], G)
  BY <1>6, <1>10, <1>11, <1>12, <1>13 DEF PartIs
<1> QED
  BY <1>10, <1>14 DEF S, G, p

\* Where a history's messages are in its repaired form r: parts, their places.
Repaired(h, off, r) ==
  /\ r = Repair(h) /\ Places(off, Parts(h), Len(h), r)
  /\ \A l \in 1..Len(h) :
       /\ off[l - 1] \in Nat /\ off[l] \in Nat /\ off[l - 1] + 1 <= off[l]
       /\ r[off[l - 1] + 1] = h[l]
       /\ \A q \in off[l - 1] + 2..off[l] : \E c \in Given(h, l) : r[q] = Answer(c, "lost")
       /\ \A c \in Given(h, l) :
            \E q \in off[l - 1] + 2..off[l] : r[q] = Answer(c, "lost")
       /\ Given(h, l) = {} => off[l] = off[l - 1] + 1

LEMMA RepairPlaces ==
  ASSUME NEW M, NEW h \in Seq(M), Len(h) # 0,
         \A i \in 1..Len(h) : h[i].kind = "ai" => IsFiniteSet(h[i].calls)
  PROVE  /\ Repair(h) \in Seq(M \cup {Answer(c, "lost") :
                                c \in UNION {Given(h, l) : l \in 1..Len(h)}})
         /\ \E off : Repaired(h, off, Repair(h))
<1> DEFINE n == Len(h) s == Parts(h)
           N == M \cup {Answer(c, "lost") : c \in UNION {Given(h, l) : l \in 1..Len(h)}}
<1>0. \A l \in 1..n : PartIs(s[l], h[l], Given(h, l))
  BY PartsHold
<1>1. ASSUME NEW l \in 1..n
      PROVE  s[l] \in Seq(N)
  <2> DEFINE L == M \cup {Answer(c, "lost") : c \in Given(h, l)}
  <2>1. s[l] \in Seq(L)
    BY PartsHold
  <2>2. L \subseteq N
    OBVIOUS
  <2> HIDE DEF L, N, s
  <2> QED
    BY <2>1, <2>2
<1>2. n \in Nat /\ s = [l \in 1..n |-> s[l]]
  BY DEF Parts
<1> DEFINE r == Repair(h)
<1> HIDE DEF N
<1>3. s \in Seq(Seq(N)) /\ Len(s) = n
  <2> HIDE DEF s
  <2>1. s \in [1..n -> Seq(N)]
    BY <1>1, <1>2
  <2> QED
    BY <1>2, <2>1
<1>4. r \in Seq(N) /\ \E off : Places(off, s, n, r)
  BY <1>3, FlattenPlaces, RepairFlattens
<1>5. PICK off : Places(off, s, n, r)
  BY <1>4
<1>6. /\ off \in [0..n -> Nat]
      /\ \A i \in 1..n : off[i] = off[i - 1] + Len(s[i])
      /\ \A i \in 1..n : \A x \in 1..Len(s[i]) : r[off[i - 1] + x] = s[i][x]
  BY <1>5 DEF Places
<1> HIDE DEF r, s
<1>7. ASSUME NEW l \in 1..n
      PROVE  /\ off[l - 1] \in Nat /\ off[l] \in Nat /\ off[l - 1] + 1 <= off[l]
             /\ r[off[l - 1] + 1] = h[l]
             /\ \A q \in off[l - 1] + 2..off[l] : \E c \in Given(h, l) : r[q] = Answer(c, "lost")
             /\ \A c \in Given(h, l) :
                  \E q \in off[l - 1] + 2..off[l] : r[q] = Answer(c, "lost")
             /\ Given(h, l) = {} => off[l] = off[l - 1] + 1
  <2>1. l \in 0..n /\ l - 1 \in 0..n
    BY <1>2
  <2>2. off[l - 1] \in Nat /\ off[l] \in Nat
    BY <2>1, <1>6
  <2>3. s[l] \in Seq(N)
    BY <1>1
  <2>4. Len(s[l]) \in Nat
    BY <2>3
  <2>5. /\ Len(s[l]) >= 1 /\ s[l][1] = h[l]
        /\ \A x \in 2..Len(s[l]) : \E c \in Given(h, l) : s[l][x] = Answer(c, "lost")
        /\ \A c \in Given(h, l) : \E x \in 2..Len(s[l]) : s[l][x] = Answer(c, "lost")
        /\ Given(h, l) = {} => Len(s[l]) = 1
    BY <1>0 DEF PartIs
  <2>6. off[l] = off[l - 1] + Len(s[l]) /\ \A x \in 1..Len(s[l]) : r[off[l - 1] + x] = s[l][x]
    BY <1>6
  <2>7. off[l - 1] + 1 <= off[l] /\ r[off[l - 1] + 1] = h[l]
    <3> DEFINE lo == off[l - 1]  hi == off[l]  k == Len(s[l])
    <3>1. lo \in Nat /\ k \in Nat /\ k >= 1 /\ hi = lo + k
      BY <2>2, <2>4, <2>5, <2>6
    <3>2. 1 \in 1..Len(s[l]) => r[lo + 1] = s[l][1]
      BY <2>6
    <3> HIDE DEF lo, hi, k
    <3>3. lo + 1 <= hi /\ 1 \in 1..k
      BY <3>1
    <3> QED
      BY <3>2, <3>3, <2>5 DEF lo, hi, k
  <2>8. ASSUME NEW q \in off[l - 1] + 2..off[l]
        PROVE  \E c \in Given(h, l) : r[q] = Answer(c, "lost")
    <3>1. PICK x \in 2..Len(s[l]) : q = off[l - 1] + x
      <4> DEFINE lo == off[l - 1]  hi == off[l]  k == Len(s[l])
      <4>1. lo \in Nat /\ k \in Nat /\ hi = lo + k /\ q \in lo + 2..hi
        BY <2>2, <2>4, <2>6
      <4> HIDE DEF lo, hi, k
      <4>2. q - lo \in 2..k /\ q = lo + (q - lo)
        BY <4>1
      <4> QED
        BY <4>2 DEF lo, k
    <3>2. x \in 1..Len(s[l])
      BY <3>1, <2>4
    <3>3. r[q] = s[l][x]
      BY <3>1, <3>2, <2>6
    <3> QED
      BY <3>1, <3>3, <2>5
  <2>9. ASSUME NEW c \in Given(h, l)
        PROVE  \E q \in off[l - 1] + 2..off[l] : r[q] = Answer(c, "lost")
    <3>1. PICK x \in 2..Len(s[l]) : s[l][x] = Answer(c, "lost")
      BY <2>5
    <3>2. off[l - 1] + x \in off[l - 1] + 2..off[l] /\ r[off[l - 1] + x] = Answer(c, "lost")
      BY <3>1, <2>2, <2>4, <2>6
    <3> QED
      BY <3>2
  <2>10. Given(h, l) = {} => off[l] = off[l - 1] + 1
    BY <2>5, <2>6
  <2> QED
    BY <2>2, <2>7, <2>8, <2>9, <2>10
<1>8. Repaired(h, off, r)
  BY <1>5, <1>7 DEF Repaired, r, s
<1> QED
  BY <1>4, <1>8 DEF r, N

\* The messages of a repaired history: those of the history, where they were
\* put, and the answers the repair adds.
LEMMA RepairedMessages ==
  ASSUME NEW M, NEW h \in Seq(M), NEW off, NEW N, NEW r \in Seq(N), Repaired(h, off, r),
         NEW q \in 1..Len(r)
  PROVE  \E l \in 1..Len(h) :
           /\ q \in off[l - 1] + 1..off[l]
           /\ \/ q = off[l - 1] + 1 /\ r[q] = h[l]
              \/ q \in off[l - 1] + 2..off[l] /\ \E c \in Given(h, l) : r[q] = Answer(c, "lost")
<1>1. PICK l \in 1..Len(h) : q \in off[l - 1] + 1..off[l]
  BY DEF Repaired, Places
<1>2. off[l - 1] \in Nat /\ off[l] \in Nat
  BY DEF Repaired
<1>3. CASE q = off[l - 1] + 1
  BY <1>1, <1>3 DEF Repaired
<1>4. CASE q # off[l - 1] + 1
  <2>1. q \in off[l - 1] + 2..off[l]
    <3> DEFINE lo == off[l - 1] hi == off[l]
    <3>1. lo \in Nat /\ hi \in Nat /\ q \in lo + 1..hi /\ q # lo + 1
      BY <1>1, <1>2, <1>4
    <3> HIDE DEF lo, hi
    <3>2. q \in lo + 2..hi
      BY <3>1
    <3> QED
      BY <3>2 DEF lo, hi
  <2> QED
    BY <1>1, <2>1 DEF Repaired
<1> QED
  BY <1>3, <1>4

\* The messages of the batch of i stand in its block: those placed between the
\* message itself and the end of the part of m, its last.
LEMMA BlockPlaces ==
  ASSUME NEW M, NEW h \in Seq(M), NEW off, NEW r, Repaired(h, off, r),
         NEW i \in 1..Len(h), NEW m \in i..Len(h), NEW k \in i..m,
         NEW q \in off[k - 1] + 1..off[k], k = i => q # off[i - 1] + 1
  PROVE  /\ off[i - 1] \in Nat /\ off[i - 1] + 1 < q
         /\ q \in off[i - 1] + 2..off[m]
<1> DEFINE n == Len(h)
<1>1. /\ k - 1 \in 0..n /\ k \in 0..n /\ m \in 0..n /\ i - 1 \in 0..n /\ i \in 0..n
      /\ k <= m /\ (k # i => i <= k - 1)
  OBVIOUS
<1>2. /\ off \in [0..n -> Nat] /\ \A j, l \in 0..n : j <= l => off[j] <= off[l]
      /\ off[i - 1] + 1 <= off[i]
  BY DEF Repaired, Places
<1> DEFINE lo == off[i - 1] hi == off[m] b == off[k - 1] e == off[k] a == off[i]
<1>3. /\ lo \in Nat /\ hi \in Nat /\ b \in Nat /\ e \in Nat /\ a \in Nat
      /\ q \in b + 1..e /\ e <= hi /\ lo + 1 <= a
      /\ k # i => a <= b
      /\ k = i => b = lo /\ q # lo + 1
  BY <1>1, <1>2
<1> HIDE DEF lo, hi, b, e, a
<1>4. lo + 1 < q /\ q \in lo + 2..hi
  BY <1>3
<1> QED
  BY <1>3, <1>4 DEF lo, hi

\* And nothing else stands there.
LEMMA BlockHolds ==
  ASSUME NEW M, NEW h \in Seq(M), NEW off, NEW r, Repaired(h, off, r),
         NEW i \in 1..Len(h), NEW m \in i..Len(h), NEW k \in 1..Len(h),
         NEW q \in off[k - 1] + 1..off[k], q \in off[i - 1] + 2..off[m]
  PROVE  k \in i..m /\ (q = off[k - 1] + 1 => k \in i + 1..m)
<1> DEFINE n == Len(h)
<1>1. k - 1 \in 0..n /\ k \in 0..n /\ m \in 0..n /\ i - 1 \in 0..n
  OBVIOUS
<1>2. off \in [0..n -> Nat] /\ \A j, l \in 0..n : j <= l => off[j] <= off[l]
  BY DEF Repaired, Places
<1> DEFINE lo == off[i - 1] hi == off[m] b == off[k - 1] e == off[k]
<1>3. /\ lo \in Nat /\ hi \in Nat /\ b \in Nat /\ e \in Nat
      /\ q \in b + 1..e /\ q \in lo + 2..hi
      /\ m <= k - 1 => hi <= b
      /\ k <= i - 1 => e <= lo
      /\ k = i => b = lo
  BY <1>1, <1>2
<1> HIDE DEF lo, hi, b, e
<1>4. k \in i..m /\ (q = b + 1 => k \in i + 1..m)
  BY <1>3
<1> QED
  BY <1>4 DEF b

\* The batch of the message at i, in the repaired history.
LEMMA RepairedBatch ==
  ASSUME NEW M, NEW h \in Seq(M), NEW off, NEW N, NEW r \in Seq(N), Repaired(h, off, r),
         NEW i \in 1..Len(h), h[i].kind = "ai",
         NEW m \in i..Len(h), EndsAt(h, i, m)
  PROVE  /\ Follow(r, off[i - 1] + 1) = off[i - 1] + 2..off[m]
         /\ off[i - 1] \in Nat /\ off[m] \in Nat /\ Len(r) \in Nat /\ off[m] <= Len(r)
<1> DEFINE n == Len(h)
<1>0. /\ \A k \in i + 1..m : h[k].kind = "tool"
      /\ m = n \/ h[m + 1].kind # "tool"
  BY DEF EndsAt
<1>1. n \in Nat /\ Len(r) \in Nat
  OBVIOUS
<1>2. /\ off \in [0..n -> Nat] /\ off[n] = Len(r)
      /\ \A k, l \in 0..n : k <= l => off[k] <= off[l]
  BY DEF Repaired, Places
<1>3. off[m] \in Nat /\ off[m] <= Len(r) /\ off[i - 1] \in Nat
  <2>1. m \in 0..n /\ n \in 0..n /\ m <= n /\ i - 1 \in 0..n
    BY <1>1
  <2> HIDE DEF n
  <2> QED
    BY <2>1, <1>2
<1> DEFINE lo == off[i - 1] hi == off[m] e == Len(r)
<1>4. lo \in Nat /\ hi \in Nat /\ e \in Nat /\ hi <= e
  BY <1>1, <1>3
<1> HIDE DEF lo, hi, e
<1>5. ASSUME NEW q \in lo + 2..hi
      PROVE  r[q].kind = "tool"
  <2>1. q \in 1..e
    BY <1>4
  <2>2. PICK l \in 1..n :
          /\ q \in off[l - 1] + 1..off[l]
          /\ \/ q = off[l - 1] + 1 /\ r[q] = h[l]
             \/ \E c \in Given(h, l) : r[q] = Answer(c, "lost")
    BY <2>1, RepairedMessages DEF e
  <2>3. q = off[l - 1] + 1 => l \in i + 1..m
    BY <2>2, BlockHolds DEF lo, hi
  <2>4. CASE q = off[l - 1] + 1 /\ r[q] = h[l]
    BY <2>3, <2>4, <1>0
  <2>5. CASE \E c \in Given(h, l) : r[q] = Answer(c, "lost")
    BY <2>5 DEF Answer
  <2> QED
    BY <2>2, <2>4, <2>5
<1>6. ASSUME NEW q \in Follow(r, lo + 1)
      PROVE  q \in lo + 2..hi
  <2>1. /\ q \in (lo + 1) + 1..e
        /\ \A k \in (lo + 1) + 1..q : r[k].kind = "tool"
    BY DEF Follow, e
  <2>2. CASE hi < q
    <3>1. m # n /\ m + 1 \in 1..n /\ (m + 1) - 1 = m
      <4>1. m = n => hi = e
        BY <1>2 DEF hi, e
      <4>2. ~(hi = e)
        BY <2>1, <2>2, <1>4
      <4>3. m \in 1..n
        BY <1>1
      <4> HIDE DEF n
      <4> QED
        BY <4>1, <4>2, <4>3, <1>1
    <3>2. r[hi + 1] = h[m + 1]
      BY <3>1 DEF Repaired, hi
    <3>3. lo + 1 <= hi
      <4>1. i \in 0..n /\ m \in 0..n /\ i <= m
        BY <1>1
      <4>2. lo + 1 <= off[i] /\ off[i] \in Nat
        BY DEF Repaired, lo
      <4>3. off[i] <= hi
        BY <4>1, <1>2 DEF hi
      <4> DEFINE a == off[i]
      <4>4. lo + 1 <= a /\ a \in Nat /\ a <= hi
        BY <4>2, <4>3
      <4> HIDE DEF a
      <4> QED
        BY <4>4, <1>4
    <3>4. hi + 1 \in (lo + 1) + 1..q
      BY <2>1, <2>2, <3>3, <1>4
    <3> QED
      BY <1>0, <2>1, <3>1, <3>2, <3>4
  <2>3. CASE ~(hi < q)
    <3>1. q \in (lo + 1) + 1..e
      BY <2>1
    <3> QED
      BY <3>1, <2>3, <1>4
  <2> QED
    BY <2>2, <2>3
<1>7. ASSUME NEW q \in lo + 2..hi
      PROVE  q \in Follow(r, lo + 1)
  <2>1. q \in (lo + 1) + 1..e
    BY <1>4
  <2>2. \A k \in (lo + 1) + 1..q : k \in lo + 2..hi
    BY <1>4
  <2> QED
    BY <2>1, <2>2, <1>5 DEF Follow, e
<1>8. Follow(r, lo + 1) = lo + 2..hi
  BY <1>6, <1>7
<1> QED
  BY <1>4, <1>8 DEF lo, hi, e

\* The answers of a history are to calls of the message they follow.
LEMMA AnswersOwed ==
  ASSUME NEW M, NEW h \in Seq(M), Asked(h), NEW i \in 1..Len(h), h[i].kind = "ai",
         NEW j \in Follow(h, i)
  PROVE  h[j].of \in Owed(h[i])
<1>1. j \in 1..Len(h) /\ i \in 1..j /\ Tool(h[j])
  BY DEF Follow, Tool
<1>2. PICK k \in 1..j - 1 : h[k].kind = "ai" /\ j \in Follow(h, k) /\ h[j].of \in Owed(h[k])
  BY <1>1 DEF Asked
<1>3. k \in 1..j
  BY <1>1
<1>4. i = k
  BY <1>1, <1>2, <1>3, OneAsker
<1> QED
  BY <1>2, <1>4

\* What the repair adds in the block of i is what its calls are still owed.
LEMMA GivenInBlock ==
  ASSUME NEW M, NEW h \in Seq(M), NEW i \in 1..Len(h), h[i].kind = "ai",
         NEW m \in i..Len(h), EndsAt(h, i, m)
  PROVE  /\ \A k \in i..m : Given(h, k) \subseteq Missing(h, i)
         /\ Given(h, m) = Missing(h, i)
<1>1. ASSUME NEW k \in i..m
      PROVE  k \in 1..Len(h) /\ i \in Asker(h, k)
  <2>1. k \in 1..Len(h) /\ i \in 1..k /\ k \in Follow(h, i) \cup {i}
    BY DEF EndsAt
  <2> QED
    BY <2>1 DEF Asker
<1>2. \A k \in i..m :
        Given(h, k) = IF k = Len(h) \/ h[k + 1].kind # "tool" THEN Missing(h, i) ELSE {}
  BY <1>1, GivenIsMissing
<1>3. m \in i..m
  OBVIOUS
<1> QED
  BY <1>2, <1>3 DEF EndsAt

\* Every call of a repaired history is answered right after it.
LEMMA RepairAnswers ==
  ASSUME NEW M, NEW h \in Seq(M), Asked(h), NEW off, NEW N, NEW r \in Seq(N),
         Repaired(h, off, r), NEW i \in 1..Len(h), h[i].kind = "ai"
  PROVE  Answers(r, off[i - 1] + 1) = Owed(h[i])
<1> DEFINE b == off[i - 1] + 1
<1>1. PICK m \in i..Len(h) : EndsAt(h, i, m)
  BY BlockEnds
<1>2. /\ Follow(r, b) = off[i - 1] + 2..off[m]
      /\ off[i - 1] \in Nat /\ off[m] \in Nat /\ Len(r) \in Nat /\ off[m] <= Len(r)
  BY <1>1, RepairedBatch
<1>3. /\ \A k \in i..m : Given(h, k) \subseteq Missing(h, i)
      /\ Given(h, m) = Missing(h, i)
  BY <1>1, GivenInBlock
<1>4. ASSUME NEW q \in Follow(r, b)
      PROVE  r[q].of \in Owed(h[i])
  <2>1. q \in 1..Len(r) /\ q # b /\ q \in off[i - 1] + 2..off[m]
    <3> DEFINE lo == off[i - 1] hi == off[m] e == Len(r)
    <3>1. lo \in Nat /\ hi \in Nat /\ e \in Nat /\ hi <= e /\ q \in lo + 2..hi
      BY <1>2
    <3> HIDE DEF lo, hi, e
    <3>2. q \in 1..e /\ q # lo + 1
      BY <3>1
    <3> QED
      BY <3>1, <3>2 DEF lo, hi, e
  <2>2. PICK k \in 1..Len(h) :
          /\ q \in off[k - 1] + 1..off[k]
          /\ \/ q = off[k - 1] + 1 /\ r[q] = h[k]
             \/ \E c \in Given(h, k) : r[q] = Answer(c, "lost")
    BY <2>1, RepairedMessages
  <2>3. k \in i..m
    BY <2>1, <2>2, BlockHolds
  <2>4. CASE q = off[k - 1] + 1 /\ r[q] = h[k]
    <3>1. k # i
      BY <2>1, <2>4
    <3>2. k \in Follow(h, i)
      BY <3>1, <2>3, <1>1 DEF EndsAt
    <3> QED
      BY <2>4, <3>2, AnswersOwed
  <2>5. CASE \E c \in Given(h, k) : r[q] = Answer(c, "lost")
    <3>1. PICK c \in Given(h, k) : r[q] = Answer(c, "lost")
      BY <2>5
    <3>2. r[q].of = c
      BY <3>1 DEF Answer
    <3> QED
      BY <3>1, <3>2, <2>3, <1>3 DEF Missing
  <2> QED
    BY <2>2, <2>4, <2>5
<1>5. ASSUME NEW c \in Owed(h[i])
      PROVE  \E q \in Follow(r, b) : r[q].of = c
  <2>1. CASE c \in Answers(h, i)
    <3>1. PICK k \in i + 1..m : h[k].of = c
      BY <2>1, <1>1 DEF Answers, EndsAt
    <3>2. k \in i..m /\ k \in 1..Len(h) /\ k # i
      OBVIOUS
    <3>3. /\ off[k - 1] + 1 \in off[k - 1] + 1..off[k] /\ r[off[k - 1] + 1] = h[k]
      BY <3>2 DEF Repaired
    <3>4. off[k - 1] + 1 \in off[i - 1] + 2..off[m]
      BY <3>2, <3>3, BlockPlaces
    <3> QED
      BY <3>1, <3>3, <3>4, <1>2
  <2>2. CASE c \notin Answers(h, i)
    <3>1. c \in Given(h, m) /\ m \in i..m /\ m \in 1..Len(h)
      BY <2>2, <1>3 DEF Missing
    <3>2. PICK q \in off[m - 1] + 2..off[m] : r[q] = Answer(c, "lost")
      BY <3>1 DEF Repaired
    <3>3. q \in off[m - 1] + 1..off[m] /\ (m = i => q # off[i - 1] + 1)
      <4> DEFINE lo == off[m - 1] hi == off[m]
      <4>1. lo \in Nat /\ hi \in Nat /\ q \in lo + 2..hi
        BY <3>1, <3>2 DEF Repaired
      <4> HIDE DEF lo, hi
      <4>2. q \in lo + 1..hi /\ q # lo + 1
        BY <4>1
      <4> QED
        BY <4>2 DEF lo, hi
    <3>4. q \in off[i - 1] + 2..off[m]
      BY <3>1, <3>3, BlockPlaces
    <3>5. r[q].of = c
      BY <3>2 DEF Answer
    <3> QED
      BY <3>4, <3>5, <1>2
  <2> QED
    BY <2>1, <2>2
<1> QED
  BY <1>4, <1>5 DEF Answers

\* No tool message of a repaired history stands without its call.
LEMMA RepairedTools ==
  ASSUME NEW M, NEW h \in Seq(M), Asked(h), NEW off, NEW N, NEW r \in Seq(N),
         Repaired(h, off, r), NEW q \in 1..Len(r), Tool(r[q])
  PROVE  \E b \in 1..q - 1 : r[b].kind = "ai" /\ q \in Follow(r, b)
<1>1. PICK k \in 1..Len(h) :
        /\ q \in off[k - 1] + 1..off[k]
        /\ \/ q = off[k - 1] + 1 /\ r[q] = h[k]
           \/ /\ q \in off[k - 1] + 2..off[k]
              /\ \E c \in Given(h, k) : r[q] = Answer(c, "lost")
  BY RepairedMessages
<1>2. \E i \in 1..k : /\ h[i].kind = "ai" /\ k \in Follow(h, i) \cup {i}
                      /\ k = i => q # off[i - 1] + 1
  <2>1. CASE q = off[k - 1] + 1 /\ r[q] = h[k]
    <3>1. PICK i \in 1..k - 1 : h[i].kind = "ai" /\ k \in Follow(h, i)
      BY <2>1 DEF Asked
    <3>2. i \in 1..k /\ i # k
      OBVIOUS
    <3> QED
      BY <3>1, <3>2
  <2>2. CASE q \in off[k - 1] + 2..off[k] /\ \E c \in Given(h, k) : r[q] = Answer(c, "lost")
    <3>1. Asker(h, k) # {}
      BY <2>2, GivenIsMissing
    <3>2. PICK i \in Asker(h, k) : TRUE
      BY <3>1
    <3>3. q # off[k - 1] + 1
      <4> DEFINE lo == off[k - 1] hi == off[k]
      <4>1. lo \in Nat /\ hi \in Nat /\ q \in lo + 2..hi
        BY <2>2 DEF Repaired
      <4> HIDE DEF lo, hi
      <4>2. q # lo + 1
        BY <4>1
      <4> QED
        BY <4>2 DEF lo
    <3> QED
      BY <3>2, <3>3 DEF Asker
  <2> QED
    BY <1>1, <2>1, <2>2
<1>3. PICK i \in 1..k : /\ h[i].kind = "ai" /\ k \in Follow(h, i) \cup {i}
                        /\ k = i => q # off[i - 1] + 1
  BY <1>2
<1>4. i \in 1..Len(h)
  OBVIOUS
<1>5. PICK m \in i..Len(h) : EndsAt(h, i, m)
  BY <1>4, BlockEnds
<1>6. k \in i..m
  BY <1>3, <1>5 DEF EndsAt
<1>7. off[i - 1] \in Nat /\ off[i - 1] + 1 < q /\ q \in off[i - 1] + 2..off[m]
  BY <1>1, <1>3, <1>4, <1>6, BlockPlaces
<1>8. Follow(r, off[i - 1] + 1) = off[i - 1] + 2..off[m]
  <2>1. h[i].kind = "ai"
    BY <1>3
  <2> QED
    BY <2>1, <1>4, <1>5, RepairedBatch
<1>9. r[off[i - 1] + 1] = h[i]
  BY <1>4 DEF Repaired
<1>10. off[i - 1] + 1 \in 1..q - 1
  <2> DEFINE lo == off[i - 1]
  <2>1. lo \in Nat /\ lo + 1 < q /\ q \in Nat
    BY <1>7
  <2> HIDE DEF lo
  <2>2. lo + 1 \in 1..q - 1
    BY <2>1
  <2> QED
    BY <2>2 DEF lo
<1> QED
  BY <1>3, <1>7, <1>8, <1>9, <1>10

\* What a provider makes of a repaired history: it takes it, and it begins as
\* the history did.
LEMMA RepairAccepted ==
  ASSUME NEW M, NEW h \in Seq(M), Len(h) >= 2, Asked(h),
         \A i \in 1..Len(h) : h[i].kind = "ai" => IsFiniteSet(h[i].calls),
         h[1].kind # "ai"
  PROVE  /\ Accepted(Repair(h))
         /\ Repair(h) \in Seq(M \cup {Answer(c, "lost") :
                                c \in UNION {Given(h, l) : l \in 1..Len(h)}})
         /\ Len(Repair(h)) >= 2 /\ Repair(h)[1] = h[1] /\ Repair(h)[2] = h[2]
<1> DEFINE N == M \cup {Answer(c, "lost") : c \in UNION {Given(h, l) : l \in 1..Len(h)}}
           r == Repair(h)
<1>1. Len(h) # 0
  OBVIOUS
<1>2. r \in Seq(N) /\ \E off : Repaired(h, off, r)
  BY <1>1, RepairPlaces
<1>3. PICK off : Repaired(h, off, r)
  BY <1>2
<1> HIDE DEF N, r
<1>4. ASSUME NEW q \in 1..Len(r), r[q].kind = "ai"
      PROVE  Answers(r, q) = Owed(r[q])
  <2>1. PICK k \in 1..Len(h) :
          \/ q = off[k - 1] + 1 /\ r[q] = h[k]
          \/ \E c \in Given(h, k) : r[q] = Answer(c, "lost")
    BY <1>2, <1>3, RepairedMessages
  <2>2. q = off[k - 1] + 1 /\ r[q] = h[k]
    <3>1. ASSUME NEW c, r[q] = Answer(c, "lost")
          PROVE  r[q].kind = "tool"
      BY <3>1 DEF Answer
    <3> QED
      BY <2>1, <3>1, <1>4
  <2> QED
    BY <2>2, <1>2, <1>3, <1>4, RepairAnswers
<1>5. Accepted(r)
  BY <1>2, <1>3, <1>4, RepairedTools DEF Accepted
<1>6. off[0] = 0 /\ off[1] = 1
  <2>0. 1 \in 1..Len(h) /\ 1 - 1 = 0
    OBVIOUS
  <2>1. Asker(h, 1) = {}
    BY DEF Asker
  <2>2. Given(h, 1) = {}
    BY <2>1, GivenIsMissing, <1>1
  <2>3. off[0] = 0
    BY <1>3 DEF Repaired, Places
  <2>4. Given(h, 1) = {} => off[1] = off[1 - 1] + 1
    BY <2>0, <1>3 DEF Repaired
  <2> QED
    BY <2>0, <2>2, <2>3, <2>4
<1>7. 1 \in 1..Len(h) /\ 2 \in 1..Len(h)
  OBVIOUS
<1>8. /\ r[off[0] + 1] = h[1] /\ r[off[1] + 1] = h[2]
      /\ off[2] \in Nat /\ off[1] + 1 <= off[2]
  BY <1>3, <1>7 DEF Repaired
<1>9. off[2] <= Len(r)
  <2> DEFINE n == Len(h)
  <2>1. off[n] = Len(r) /\ \A i, j \in 0..n : i <= j => off[i] <= off[j]
    BY <1>3 DEF Repaired, Places
  <2>2. n \in Nat /\ 2 <= n
    OBVIOUS
  <2> HIDE DEF n
  <2>3. 2 \in 0..n /\ n \in 0..n
    BY <2>2
  <2> QED
    BY <2>1, <2>2, <2>3
<1>10. Len(r) \in Nat
  BY <1>2
<1> QED
  BY <1>2, <1>5, <1>6, <1>8, <1>9, <1>10 DEF r, N

----------------------------------------------------------------------------
(* What is left of an accepted history when it is cut or added to.         *)

\* v is u without its first d messages.
LEMMA AnswersShifted ==
  ASSUME NEW M, NEW u \in Seq(M), NEW v \in Seq(M), NEW d \in Nat, Len(u) = Len(v) + d,
         \A i \in 1..Len(v) : v[i] = u[i + d], NEW i \in 1..Len(v)
  PROVE  /\ Answers(v, i) = Answers(u, i + d)
         /\ \A j \in 1..Len(v) : j \in Follow(v, i) <=> j + d \in Follow(u, i + d)
<1> DEFINE n == Len(v)
<1>1. n \in Nat /\ Len(u) = n + d
  OBVIOUS
<1> HIDE DEF n
<1>2. ASSUME NEW j \in 1..n
      PROVE  j \in Follow(v, i) <=> j + d \in Follow(u, i + d)
  <2>1. ASSUME j \in Follow(v, i)
        PROVE  j + d \in Follow(u, i + d)
    <3>1. j \in i + 1..n /\ \A k \in i + 1..j : v[k].kind = "tool"
      BY <2>1 DEF Follow, n
    <3>2. ASSUME NEW k \in (i + d) + 1..j + d
          PROVE  u[k].kind = "tool"
      <4>1. k - d \in i + 1..j /\ k - d \in 1..n /\ (k - d) + d = k
        BY <3>1, <1>1
      <4>2. u[k] = v[k - d]
        BY <4>1 DEF n
      <4> QED
        BY <3>1, <4>1, <4>2
    <3>3. j + d \in (i + d) + 1..n + d
      BY <3>1, <1>1
    <3> QED
      BY <3>2, <3>3, <1>1 DEF Follow
  <2>2. ASSUME j + d \in Follow(u, i + d)
        PROVE  j \in Follow(v, i)
    <3>1. j + d \in (i + d) + 1..n + d /\ \A k \in (i + d) + 1..j + d : u[k].kind = "tool"
      BY <2>2, <1>1 DEF Follow
    <3>2. ASSUME NEW k \in i + 1..j
          PROVE  v[k].kind = "tool"
      <4>1. k + d \in (i + d) + 1..j + d /\ k \in 1..n
        BY <1>1
      <4>2. v[k] = u[k + d]
        BY <4>1 DEF n
      <4> QED
        BY <3>1, <4>1, <4>2
    <3>3. j \in i + 1..n
      BY <3>1, <1>1
    <3> QED
      BY <3>2, <3>3 DEF Follow, n
  <2> QED
    BY <2>1, <2>2
<1>3. ASSUME NEW j \in Follow(v, i)
      PROVE  \E k \in Follow(u, i + d) : u[k].of = v[j].of
  <2>1. j \in 1..n
    BY DEF Follow, n
  <2> QED
    BY <2>1, <1>2 DEF n
<1>4. ASSUME NEW k \in Follow(u, i + d)
      PROVE  \E j \in Follow(v, i) : u[k].of = v[j].of
  <2>1. k \in (i + d) + 1..n + d
    BY <1>1 DEF Follow
  <2>2. k - d \in 1..n /\ (k - d) + d = k
    BY <2>1, <1>1
  <2>3. k - d \in Follow(v, i)
    BY <2>2, <1>2
  <2> QED
    BY <2>2, <2>3 DEF n
<1>5. Answers(v, i) = Answers(u, i + d)
  <2>1. Answers(v, i) \subseteq Answers(u, i + d)
    <3>1. ASSUME NEW x \in Answers(v, i)
          PROVE  x \in Answers(u, i + d)
      <4>1. PICK j \in Follow(v, i) : x = v[j].of
        BY DEF Answers
      <4>2. PICK k \in Follow(u, i + d) : u[k].of = x
        BY <4>1, <1>3
      <4> QED
        BY <4>2 DEF Answers
    <3> QED
      BY <3>1
  <2>2. Answers(u, i + d) \subseteq Answers(v, i)
    BY <1>4 DEF Answers
  <2> QED
    BY <2>1, <2>2
<1> QED
  BY <1>2, <1>5 DEF n

\* v is what u begins with, and no answer follows it.
LEMMA AnswersBefore ==
  ASSUME NEW M, NEW u \in Seq(M), NEW v \in Seq(M), Len(v) <= Len(u),
         \A i \in 1..Len(v) : v[i] = u[i],
         Len(v) = Len(u) \/ ~Tool(u[Len(v) + 1]), NEW i \in 1..Len(v)
  PROVE  Follow(u, i) = Follow(v, i) /\ Answers(u, i) = Answers(v, i)
<1> DEFINE n == Len(v)
<1>1. n \in Nat /\ Len(u) \in Nat
  OBVIOUS
<1>2. ASSUME NEW j \in Follow(u, i)
      PROVE  j \in 1..n /\ j \in Follow(v, i)
  <2>1. j \in i + 1..Len(u) /\ \A k \in i + 1..j : u[k].kind = "tool"
    BY DEF Follow
  <2>2. j <= n
    <3>1. n < j => n + 1 \in i + 1..j
      BY <2>1, <1>1
    <3> QED
      BY <2>1, <3>1, <1>1 DEF Tool
  <2>3. \A k \in i + 1..j : v[k] = u[k]
    BY <2>2, <2>1
  <2> QED
    BY <2>1, <2>2, <2>3 DEF Follow
<1>3. ASSUME NEW j \in Follow(v, i)
      PROVE  j \in 1..n /\ j \in Follow(u, i)
  <2>1. j \in i + 1..n /\ \A k \in i + 1..j : v[k].kind = "tool"
    BY DEF Follow
  <2>2. \A k \in i + 1..j : u[k] = v[k]
    BY <2>1
  <2>3. j \in i + 1..Len(u)
    BY <2>1, <1>1
  <2> QED
    BY <2>1, <2>2, <2>3 DEF Follow
<1>4. Follow(u, i) = Follow(v, i)
  BY <1>2, <1>3
<1>5. \A j \in Follow(v, i) : u[j].of = v[j].of
  BY <1>3
<1>6. Answers(u, i) = Answers(v, i)
  BY <1>4, <1>5 DEF Answers
<1> QED
  BY <1>4, <1>6

LEMMA AcceptedSuffix ==
  ASSUME NEW M, NEW h \in Seq(M), Accepted(h), NEW f \in 1..Len(h), ~Tool(h[f])
  PROVE  Accepted(SubSeq(h, f, Len(h)))
<1> DEFINE v == SubSeq(h, f, Len(h)) d == f - 1
<1>1. /\ v \in Seq(M) /\ d \in Nat /\ Len(h) = Len(v) + d
      /\ \A i \in 1..Len(v) : v[i] = h[i + d]
      /\ Len(v) \in Nat /\ Len(v) >= 1 /\ d + 1 = f
  OBVIOUS
<1> HIDE DEF v, d
<1>2. \A i \in 1..Len(v) : i + d \in 1..Len(h)
  BY <1>1
<1>3. ASSUME NEW i \in 1..Len(v), v[i].kind = "ai"
      PROVE  Answers(v, i) = Owed(v[i])
  <2>1. Answers(v, i) = Answers(h, i + d)
    BY <1>1, AnswersShifted
  <2>2. v[i] = h[i + d] /\ i + d \in 1..Len(h)
    BY <1>1, <1>2
  <2> QED
    BY <2>1, <2>2, <1>3 DEF Accepted
<1>4. ASSUME NEW j \in 1..Len(v), Tool(v[j])
      PROVE  \E i \in 1..j - 1 : v[i].kind = "ai" /\ j \in Follow(v, i)
  <2>1. PICK k \in 1..(j + d) - 1 : h[k].kind = "ai" /\ j + d \in Follow(h, k)
    BY <1>1, <1>2, <1>4 DEF Accepted
  <2>2. \A l \in k + 1..j + d : h[l].kind = "tool"
    BY <2>1 DEF Follow
  <2>3. ~(f \in k + 1..j + d)
    BY <2>2 DEF Tool
  <2> DEFINE n == Len(v)
  <2>31. n \in Nat /\ d \in Nat /\ j \in 1..n /\ k \in Nat /\ k <= (j + d) - 1 /\ d < k
    <3>1. n \in Nat /\ d \in Nat /\ j \in 1..n /\ d + 1 = f
      BY <1>1
    <3> HIDE DEF n
    <3>2. k \in 1..(j + d) - 1
      OBVIOUS
    <3> QED
      BY <3>1, <3>2, <2>3
  <2> HIDE DEF n
  <2>32. k - d \in 1..j - 1 /\ k - d \in 1..n /\ (k - d) + d = k
    BY <2>31
  <2>4. k - d \in 1..j - 1 /\ k - d \in 1..Len(v) /\ (k - d) + d = k
    BY <2>32 DEF n
  <2>5. v[k - d] = h[k]
    BY <2>4, <1>1
  <2>6. j \in Follow(v, k - d)
    BY <2>1, <2>4, <1>1, AnswersShifted
  <2> QED
    BY <2>1, <2>4, <2>5, <2>6
<1>5. Accepted(v)
  BY <1>3, <1>4 DEF Accepted
<1> QED
  BY <1>5 DEF v

LEMMA AcceptedConcat ==
  ASSUME NEW M, NEW s \in Seq(M), NEW t \in Seq(M), Accepted(s), Accepted(t),
         t = <<>> \/ ~Tool(t[1])
  PROVE  Accepted(s \o t)
<1> DEFINE u == s \o t d == Len(s)
<1>1. /\ u \in Seq(M) /\ d \in Nat /\ Len(t) \in Nat /\ Len(u) = Len(t) + d
      /\ \A i \in 1..Len(s) : s[i] = u[i]
      /\ \A i \in 1..Len(t) : t[i] = u[i + d]
  OBVIOUS
<1>2. Len(s) = Len(u) \/ ~Tool(u[Len(s) + 1])
  BY <1>1
<1> HIDE DEF u, d
<1>3. ASSUME NEW i \in 1..Len(u), u[i].kind = "ai"
      PROVE  Answers(u, i) = Owed(u[i])
  <2>1. CASE i \in 1..Len(s)
    <3>1. Answers(u, i) = Answers(s, i)
      BY <2>1, <1>1, <1>2, AnswersBefore DEF d
    <3> QED
      BY <2>1, <3>1, <1>1, <1>3 DEF Accepted
  <2>2. CASE i \notin 1..Len(s)
    <3>1. i - d \in 1..Len(t) /\ (i - d) + d = i
      BY <2>2, <1>1 DEF d
    <3>2. Answers(t, i - d) = Answers(u, (i - d) + d)
      BY <3>1, <1>1, AnswersShifted
    <3>3. t[i - d] = u[i]
      BY <3>1, <1>1
    <3> QED
      BY <3>1, <3>2, <3>3, <1>3 DEF Accepted
  <2> QED
    BY <2>1, <2>2
<1>4. ASSUME NEW j \in 1..Len(u), Tool(u[j])
      PROVE  \E i \in 1..j - 1 : u[i].kind = "ai" /\ j \in Follow(u, i)
  <2>1. CASE j \in 1..Len(s)
    <3>1. PICK i \in 1..j - 1 : s[i].kind = "ai" /\ j \in Follow(s, i)
      BY <2>1, <1>1, <1>4 DEF Accepted
    <3>2. i \in 1..Len(s)
      BY <2>1, <1>1 DEF d
    <3>3. Follow(u, i) = Follow(s, i)
      <4>1. Len(s) <= Len(u)
        BY <1>1 DEF d
      <4> QED
        BY <3>2, <4>1, <1>1, <1>2, AnswersBefore
    <3> QED
      BY <3>1, <3>2, <3>3, <1>1
  <2>2. CASE j \notin 1..Len(s)
    <3>1. j - d \in 1..Len(t) /\ (j - d) + d = j
      BY <2>2, <1>1 DEF d
    <3>2. t[j - d] = u[j]
      BY <3>1, <1>1
    <3>3. PICK i \in 1..(j - d) - 1 : t[i].kind = "ai" /\ j - d \in Follow(t, i)
      BY <3>1, <3>2, <1>4 DEF Accepted
    <3>4. i \in 1..Len(t) /\ i + d \in 1..j - 1
      BY <3>1, <1>1
    <3>5. (j - d) + d \in Follow(u, i + d)
      BY <3>1, <3>3, <3>4, <1>1, AnswersShifted
    <3> QED
      BY <3>1, <3>3, <3>4, <3>5, <1>1
  <2> QED
    BY <2>1, <2>2
<1>5. Accepted(u)
  BY <1>3, <1>4 DEF Accepted
<1> QED
  BY <1>5 DEF u

\* A history with its lead-in, as a provider takes it.
Usable(h) ==
  /\ Accepted(h)
  /\ Len(h) >= 2 /\ h[1] = System /\ h[2] = Human("brief")

LEMMA LeadStays ==
  ASSUME NEW M, NEW s \in Seq(M), NEW t \in Seq(M), Len(s) >= 2
  PROVE  s \o t \in Seq(M) /\ Len(s \o t) >= 2 /\ (s \o t)[1] = s[1] /\ (s \o t)[2] = s[2]
OBVIOUS

\* What bound_history keeps is usable: it cuts on no answer.
LEMMA BoundUsable ==
  ASSUME NEW M, NEW h \in Seq(M), Usable(h), NEW size \in Nat
  PROVE  Bound(h, size) \in Seq(M) /\ Usable(Bound(h, size))
<1> DEFINE n == Len(h)
           L == {i \in 1..n : i <= 2 /\ \A j \in 1..i : h[j].kind \in {"system", "human"}}
           lead == Cardinality(L)
           first == IF size > lead THEN n - (size - lead) + 1 ELSE n
           kept == {i \in first..n : \E j \in first..i : h[j].kind # "tool"}
           keeps == Cardinality(kept)
           t == SubSeq(h, n - keeps + 1, n)
           s == SubSeq(h, 1, lead)
<1>1. n \in Nat /\ n >= 2 /\ h[1] = System /\ h[2] = Human("brief") /\ Accepted(h)
  BY DEF Usable
<1>2. Bound(h, size) = IF n <= size THEN h ELSE s \o t
  BY DEF Bound
<1>3. lead = 2
  <2>1. h[1].kind = "system" /\ h[2].kind = "human"
    BY <1>1 DEF System, Human
  <2>2. L = 1..2
    BY <1>1, <2>1
  <2> HIDE DEF L
  <2>3. Cardinality(1..2) = 2
    <3>1. 1 \in Int /\ 2 \in Int /\ ~(1 > 2) /\ 2 - 1 + 1 = 2
      OBVIOUS
    <3> QED
      BY <3>1, FS_Interval
  <2> QED
    BY <2>2, <2>3
<1> HIDE DEF lead
<1> SUFFICES ASSUME ~(n <= size)
             PROVE  s \o t \in Seq(M) /\ Usable(s \o t)
  BY <1>2
<1>4. first \in 1..n
  BY <1>1, <1>3
<1> HIDE DEF first
<1>5. \/ kept = {}
      \/ \E f \in 1..n : kept = f..n /\ h[f].kind # "tool"
  <2>1. CASE \A i \in first..n : h[i].kind = "tool"
    BY <2>1, <1>4
  <2>2. CASE ~ \A i \in first..n : h[i].kind = "tool"
    <3> DEFINE F == {i \in first..n : h[i].kind # "tool"}
    <3>1. F \in SUBSET Nat /\ F # {}
      BY <2>2, <1>4
    <3>2. PICK f \in F : \A i \in F : f <= i
      BY <3>1, Least
    <3>3. f \in first..n /\ h[f].kind # "tool"
      OBVIOUS
    <3>4. ASSUME NEW i \in kept
          PROVE  i \in f..n
      <4>1. PICK j \in first..i : h[j].kind # "tool"
        OBVIOUS
      <4>2. j \in F /\ i \in first..n
        BY <4>1, <1>4
      <4> QED
        BY <4>1, <4>2, <3>2, <3>3, <1>4
    <3>5. ASSUME NEW i \in f..n
          PROVE  i \in kept
      <4>1. i \in first..n /\ f \in first..i
        BY <3>3, <1>4
      <4> QED
        BY <4>1, <3>3
    <3>6. kept = f..n
      BY <3>4, <3>5
    <3> QED
      BY <3>3, <3>6, <1>4
  <2> QED
    BY <2>1, <2>2
<1> HIDE DEF kept
<1>6. t \in Seq(M) /\ Accepted(t) /\ (t = <<>> \/ ~Tool(t[1]))
  <2>1. CASE kept = {}
    <3>1. keeps = 0
      BY <2>1, FS_EmptySet
    <3> HIDE DEF keeps
    <3>2. t = <<>>
      BY <3>1, <1>1
    <3> HIDE DEF t
    <3>3. t \in Seq(M) /\ Len(t) = 0
      BY <3>2
    <3>4. Accepted(t)
      BY <3>3 DEF Accepted
    <3> QED
      BY <3>2, <3>3, <3>4
  <2>2. CASE kept # {}
    <3>1. PICK f \in 1..n : kept = f..n /\ h[f].kind # "tool"
      BY <2>2, <1>5
    <3>2. Cardinality(f..n) = n - f + 1
      <4>1. f \in Int /\ n \in Int /\ ~(f > n)
        BY <1>1
      <4> QED
        BY <4>1, FS_Interval
    <3>3. keeps = n - f + 1
      BY <3>1, <3>2
    <3> HIDE DEF keeps
    <3>4. n - keeps + 1 = f
      BY <3>3, <1>1
    <3>5. t = SubSeq(h, f, n)
      BY <3>4
    <3>6. Accepted(SubSeq(h, f, n))
      BY <3>1, <1>1, AcceptedSuffix DEF Tool
    <3>7. SubSeq(h, f, n) \in Seq(M) /\ SubSeq(h, f, n)[1] = h[f]
      BY <1>1
    <3> QED
      BY <3>1, <3>5, <3>6, <3>7 DEF Tool
  <2> QED
    BY <2>1, <2>2
<1>7. /\ s \in Seq(M) /\ Len(s) = 2 /\ s[1] = System /\ s[2] = Human("brief")
  BY <1>1, <1>3
<1> HIDE DEF s, t
<1>8. Accepted(s)
  <2>1. \A i \in 1..Len(s) : s[i].kind # "ai" /\ ~Tool(s[i])
    <3>1. \A i \in 1..Len(s) : s[i] = System \/ s[i] = Human("brief")
      BY <1>7
    <3>2. /\ System.kind # "ai" /\ ~Tool(System)
          /\ Human("brief").kind # "ai" /\ ~Tool(Human("brief"))
      BY DEF System, Human, Tool
    <3> QED
      BY <3>1, <3>2
  <2> QED
    BY <2>1 DEF Accepted
<1>9. Accepted(s \o t)
  BY <1>6, <1>7, <1>8, AcceptedConcat
<1>10. /\ s \o t \in Seq(M) /\ Len(s \o t) >= 2
       /\ (s \o t)[1] = System /\ (s \o t)[2] = Human("brief")
  <2>0. s \in Seq(M) /\ t \in Seq(M) /\ Len(s) >= 2
    BY <1>6, <1>7
  <2> QED
    BY <2>0, <1>7, LeadStays
<1> QED
  BY <1>9, <1>10 DEF Usable

\* A nudge leaves a history usable.
LEMMA NudgedUsable ==
  ASSUME NEW M, NEW h \in Seq(M), Usable(h), NEW x, Human(x) \in M,
         NEW t, t \in {<<>>, <<Human(x)>>}
  PROVE  h \o t \in Seq(M) /\ Usable(h \o t)
<1>1. t \in Seq(M) /\ (t = <<>> \/ ~Tool(t[1]))
  <2>1. CASE t = <<>>
    BY <2>1
  <2>2. CASE t = <<Human(x)>>
    BY <2>2 DEF Human, Tool
  <2> QED
    BY <2>1, <2>2
<1>2. Accepted(t)
  <2>1. \A i \in 1..Len(t) : t[i].kind # "ai" /\ ~Tool(t[i])
    BY DEF Human, Tool
  <2> QED
    BY <2>1 DEF Accepted
<1>3. Accepted(h \o t)
  BY <1>1, <1>2, AcceptedConcat DEF Usable
<1> QED
  BY <1>1, <1>3 DEF Usable

----------------------------------------------------------------------------
(* What a thread's requests are made of.                                   *)

LEMMA FollowGrows ==
  ASSUME NEW M, NEW h \in Seq(M), NEW t \in Seq(M), NEW i \in 1..Len(h), NEW j \in Follow(h, i)
  PROVE  j \in Follow(h \o t, i)
<1>1. j \in i + 1..Len(h) /\ \A k \in i + 1..j : h[k].kind = "tool"
  BY DEF Follow
<1>2. \A k \in i + 1..j : (h \o t)[k] = h[k]
  BY <1>1
<1>3. j \in i + 1..Len(h \o t)
  BY <1>1
<1> QED
  BY <1>1, <1>2, <1>3 DEF Follow

\* Every tool message of h \o t but those of t has its call.
LEMMA AskedBefore ==
  ASSUME NEW M, NEW h \in Seq(M), NEW t \in Seq(M), Asked(h),
         NEW j \in 1..Len(h), Tool((h \o t)[j])
  PROVE  \E i \in 1..j - 1 :
           /\ (h \o t)[i].kind = "ai" /\ j \in Follow(h \o t, i)
           /\ (h \o t)[j].of \in Owed((h \o t)[i])
<1>1. (h \o t)[j] = h[j]
  OBVIOUS
<1>2. PICK i \in 1..j - 1 : h[i].kind = "ai" /\ j \in Follow(h, i) /\ h[j].of \in Owed(h[i])
  BY <1>1 DEF Asked
<1>3. i \in 1..Len(h) /\ (h \o t)[i] = h[i]
  OBVIOUS
<1>4. j \in Follow(h \o t, i)
  BY <1>2, <1>3, FollowGrows
<1> QED
  BY <1>1, <1>2, <1>3, <1>4

LEMMA AskedAfterSaying ==
  ASSUME NEW M, NEW h \in Seq(M), NEW t \in Seq(M), Asked(h),
         \A i \in 1..Len(t) : ~Tool(t[i])
  PROVE  Asked(h \o t)
<1>1. ASSUME NEW j \in 1..Len(h \o t), Tool((h \o t)[j])
      PROVE  j \in 1..Len(h)
  <2>1. j \notin 1..Len(h) => j - Len(h) \in 1..Len(t) /\ (h \o t)[j] = t[j - Len(h)]
    OBVIOUS
  <2> QED
    BY <2>1, <1>1
<1> QED
  BY <1>1, AskedBefore DEF Asked

LEMMA AskedAfterAnswering ==
  ASSUME NEW M, NEW h \in Seq(M), NEW t \in Seq(M), Asked(h),
         Len(h) > 0, Last(h).kind = "ai",
         \A i \in 1..Len(t) : Tool(t[i]) /\ \E c \in Last(h).calls : t[i].of = <<c>>
  PROVE  Asked(h \o t)
<1> DEFINE u == h \o t n == Len(h)
<1>1. /\ n \in Nat /\ n > 0 /\ Len(t) \in Nat /\ u \in Seq(M) /\ Len(u) = n + Len(t)
      /\ u[n] = Last(h)
      /\ \A j \in 1..Len(u) : j \notin 1..n => j - n \in 1..Len(t) /\ u[j] = t[j - n]
  BY DEF Last
<1>2. \A j \in 1..n : Tool(u[j]) => \E i \in 1..j - 1 :
        u[i].kind = "ai" /\ j \in Follow(u, i) /\ u[j].of \in Owed(u[i])
  BY AskedBefore
<1> HIDE DEF u, n
<1>3. ASSUME NEW j \in 1..Len(u), j \notin 1..n
      PROVE  n \in 1..j - 1 /\ j \in Follow(u, n) /\ u[j].of \in Owed(u[n])
  <2>1. j \in n + 1..Len(u)
    BY <1>1, <1>3
  <2>2. ASSUME NEW k \in n + 1..j
        PROVE  u[k].kind = "tool"
    <3>1. k \in 1..Len(u) /\ k \notin 1..n
      BY <2>1, <1>1
    <3>2. k - n \in 1..Len(t) /\ u[k] = t[k - n]
      BY <3>1, <1>1
    <3> QED
      BY <3>2 DEF Tool
  <2>3. j \in Follow(u, n)
    BY <2>1, <2>2 DEF Follow
  <2>4. j - n \in 1..Len(t) /\ u[j] = t[j - n]
    BY <1>1, <1>3
  <2>5. PICK c \in Last(h).calls : u[j].of = <<c>>
    BY <2>4
  <2>6. u[j].of \in Owed(u[n])
    BY <2>5, <1>1 DEF Owed
  <2> QED
    BY <2>1, <2>3, <2>6, <1>1
<1>4. Asked(u)
  BY <1>1, <1>2, <1>3 DEF Asked
<1> QED
  BY <1>4 DEF u

\* A thread's answers have their calls, it begins with its lead-in once it was
\* given a brief, and before that it calls no model.
Grown(a) ==
  /\ Asked(history[a])
  /\ begun[a] > 0 =>
       Len(history[a]) >= 2 /\ history[a][1] = System /\ history[a][2] = Human("brief")
  /\ begun[a] = 0 => step[a] = "idle"

\* What a thread of a brief is given more.
LEMMA GrownByMore ==
  ASSUME NEW a \in Agents, Grown(a), begun[a] > 0, begun'[a] > 0,
         history[a] \in Seq(Message), NEW more \in Seq(Message),
         history'[a] = history[a] \o more, Asked(history[a] \o more)
  PROVE  Grown(a)'
<1>1. Len(history[a]) >= 2 /\ history[a][1] = System /\ history[a][2] = Human("brief")
  BY DEF Grown
<1>2. /\ Len(history'[a]) >= 2
      /\ history'[a][1] = history[a][1] /\ history'[a][2] = history[a][2]
  BY <1>1, LeadStays
<1>3. ~(begun'[a] = 0)
  OBVIOUS
<1> QED
  BY <1>1, <1>2, <1>3 DEF Grown

LEMMA OthersGrown ==
  ASSUME NEW a \in Agents, Grown(a), history'[a] = history[a], begun'[a] = begun[a],
         begun[a] = 0 => step'[a] = step[a] \/ step'[a] = "idle"
  PROVE  Grown(a)'
BY DEF Grown

LEMMA IdleStays ==
  ASSUME RoutingInv, \A b \in Agents : Ended(b) /\ Grown(b), [Next]_vars,
         NEW a \in Agents, begun[a] = 0
  PROVE  step'[a] = "idle"
<1>1. /\ a \in Callers /\ step[a] = "idle" /\ a \notin running
      /\ step \in [Callers -> {"idle", "direct", "returned", "raised"} \cup Working]
  BY AgentConstants DEF Ended, Grown, RoutingInv, RoutingTypeOK
<1>2. ASSUME NEW b \in Agents, Agent(b)
      PROVE  step'[a] = "idle"
  <2>1. CASE CallModel(b) \/ Ask(b)
    <3>1. /\ b \in running /\ b # a
          /\ \E s \in {"trying", "direct"} : step' = [step EXCEPT ![b] = s]
      BY <1>1, <2>1 DEF CallModel, Ask, At, Invoke, InvokeDirect
    <3> QED
      BY <1>1, <3>1
  <2>2. CASE RunFails(b) \/ ModelAnswers(b) \/ ClassifierAnswers(b)
    <3>1. step' = [step EXCEPT ![b] = "idle"]
      BY <2>2 DEF RunFails, ModelAnswers, ClassifierAnswers, Taken
    <3> QED
      BY <1>1, <3>1
  <2>3. CASE Begin(b) \/ Resume(b) \/ RunEnds(b) \/ Judge(b) \/ GateDecides(b) \/ RunTools(b)
    BY <1>1, <2>3 DEF Begin, Resume, RunEnds, Judge, GateDecides, RunTools, routing
  <2> QED
    BY <1>2, <2>1, <2>2, <2>3 DEF Agent
<1>3. ASSUME NEW c \in Callers \ Agents, Other(c)
      PROVE  step'[a] = "idle"
  BY <1>1, <1>3 DEF Other, OtherStarts, OtherCalls, OtherGoesOn, Invoke, Taken, routing
<1>4. ASSUME NEW c \in Callers, Route(c)
      PROVE  step'[a] = "idle"
  BY <1>1, <1>4 DEF Route, Exhausted, TryProvider, Acquire, Answered, Fails, DirectEnds
<1>5. ASSUME Timers \/ UNCHANGED vars
      PROVE  step'[a] = "idle"
  BY <1>1, <1>5 DEF Timers, CooldownEnds, DegradedEnds, vars, routing
<1>6. CASE Crash
  BY <1>1, <1>6 DEF Crash, RoutingLost
<1> QED
  BY <1>2, <1>3, <1>4, <1>5, <1>6 DEF Next, Models

LEMMA GrownStays ==
  ASSUME RoutingInv, ThreadInv, \A a \in Agents : Ended(a) /\ Grown(a), [Next]_vars
  PROVE  \A a \in Agents : Grown(a)'
<1> USE DEF thread, gate
<1>0. AgentTypes
  BY DEF ThreadInv
<1>00. \A a \in Agents : begun[a] = 0 => step'[a] = step[a] \/ step'[a] = "idle"
  BY IdleStays
<1>1. ASSUME NEW a \in Agents, Begin(a)
      PROVE  \A b \in Agents : Grown(b)'
  <2>1. /\ history'[a] = history[a] \o LeadIn /\ history[a] \in Seq(Message)
        /\ begun[a] \in Nat /\ begun'[a] = begun[a] + 1
    BY <1>0, <1>1 DEF Begin, AgentTypes
  <2>2. Asked(history[a] \o LeadIn)
    BY <2>1, LeadInSaid, AskedAfterSaying DEF Grown
  <2>4. \A b \in Agents \ {a} : Grown(b)'
    BY <1>0, <1>1, <1>00, OthersGrown DEF Begin, AgentTypes
  <2>3. CASE begun[a] = 0
    <3>1. history[a] \o LeadIn = LeadIn
      BY <2>3, LeadInSaid, ConcatEmptySeq DEF Ended
    <3>2. LeadIn[1] = System /\ LeadIn[2] = Human("brief") /\ Len(LeadIn) = 2
      BY DEF LeadIn
    <3> QED
      BY <2>1, <2>2, <2>3, <3>1, <3>2, <2>4 DEF Grown
  <2>5. CASE begun[a] # 0
    <3>1. begun[a] > 0 /\ begun'[a] > 0
      BY <2>1, <2>5
    <3>2. Grown(a)'
      BY <2>1, <2>2, <3>1, LeadInSaid, GrownByMore
    <3> QED
      BY <2>4, <3>2
  <2> QED
    BY <2>3, <2>5
<1>2. ASSUME NEW a \in Agents, ModelAnswers(a)
      PROVE  \A b \in Agents : Grown(b)'
  <2>1. PICK said \in Seq(Message) :
          /\ history' = [history EXCEPT ![a] = @ \o said]
          /\ \A i \in 1..Len(said) : ~Tool(said[i])
    BY <1>2, SaidIsNoAnswer
  <2>2. a \in running /\ begun' = begun
    BY <1>2 DEF ModelAnswers, At
  <2>3. /\ history'[a] = history[a] \o said /\ history[a] \in Seq(Message)
        /\ \A b \in Agents \ {a} : history'[b] = history[b]
    BY <1>0, <2>1 DEF AgentTypes
  <2>4. Asked(history[a] \o said)
    BY <2>1, <2>3, AskedAfterSaying DEF Grown
  <2>5. Grown(a)'
    BY <2>2, <2>3, <2>4, GrownByMore DEF Ended
  <2> QED
    BY <2>2, <2>3, <2>5, <1>00, OthersGrown
<1>3. ASSUME NEW a \in Agents, NEW more \in Seq(Message), node[a] \in {"gate", "tools"},
             a \in running, begun' = begun, history'[a] = history[a] \o more,
             \A b \in Agents \ {a} : history'[b] = history[b],
             \A i \in 1..Len(more) : Tool(more[i]) /\ \E c \in Batch(a) : more[i].of = <<c>>
      PROVE  \A b \in Agents : Grown(b)'
  <2>1. PICK t \in Turns : Last(history[a]) = AI(t)
    BY <1>3 DEF ThreadInv, AtBatch
  <2>2. Last(history[a]).kind = "ai" /\ history[a] \in Seq(Message) /\ begun[a] > 0
    BY <1>0, <1>3, <2>1, Messages DEF AgentTypes, Ended
  <2>3. Len(history[a]) > 0
    BY <2>2 DEF Grown
  <2>4. Asked(history[a] \o more)
    BY <1>3, <2>2, <2>3, AskedAfterAnswering DEF Grown, Batch
  <2>5. Grown(a)'
    BY <1>3, <2>2, <2>4, GrownByMore
  <2> QED
    BY <1>3, <2>5, <1>00, OthersGrown
<1>4. ASSUME NEW a \in Agents, GateDecides(a)
      PROVE  \A b \in Agents : Grown(b)'
  <2>1. /\ node[a] = "gate" /\ a \in running /\ IsFiniteSet(Batch(a)) /\ begun' = begun
        /\ \A b \in Agents \ {a} : history'[b] = history[b]
    BY <1>0, <1>4 DEF GateDecides, At, ThreadInv, AtBatch, AgentTypes
  <2>2. history'[a] = history[a] \/ history'[a] = history[a] \o Denials(a)
    BY <1>0, <1>4 DEF GateDecides, Denials, AgentTypes
  <2>3. CASE history'[a] = history[a]
    BY <2>1, <2>3, <1>00, OthersGrown
  <2>4. CASE history'[a] = history[a] \o Denials(a)
    <3>1. /\ Denials(a) \in Seq(Message)
          /\ \A i \in 1..Len(Denials(a)) :
               Tool(Denials(a)[i]) /\ \E c \in Batch(a) : Denials(a)[i].of = <<c>>
      BY <2>1, DenialsGiven
    <3> QED
      BY <2>1, <2>4, <3>1, <1>3
  <2> QED
    BY <2>2, <2>3, <2>4
<1>5. ASSUME NEW a \in Agents, RunTools(a)
      PROVE  \A b \in Agents : Grown(b)'
  <2>1. PICK answers \in Seq(Message) :
          /\ history' = [history EXCEPT ![a] = @ \o answers]
          /\ \A i \in 1..Len(answers) :
               Tool(answers[i]) /\ \E c \in Batch(a) : answers[i].of = <<c>>
    BY <1>5, ToolsAnswer
  <2>2. node[a] = "tools" /\ a \in running /\ begun' = begun
    BY <1>5 DEF RunTools, At
  <2>3. /\ history'[a] = history[a] \o answers
        /\ \A b \in Agents \ {a} : history'[b] = history[b]
    BY <1>0, <2>1 DEF AgentTypes
  <2> QED
    BY <2>1, <2>2, <2>3, <1>3
<1>6. ASSUME UNCHANGED thread
      PROVE  \A b \in Agents : Grown(b)'
  BY <1>6, <1>00, OthersGrown
<1>7. ASSUME NEW a \in Agents, Resume(a) \/ RunEnds(a) \/ RunFails(a) \/ CallModel(a) \/ Judge(a)
                                 \/ Ask(a) \/ ClassifierAnswers(a)
      PROVE  UNCHANGED thread
  BY <1>7 DEF Resume, RunEnds, RunFails, CallModel, Judge, Ask, ClassifierAnswers
<1>8. ASSUME NEW c \in Callers \ Agents, Other(c)
      PROVE  UNCHANGED thread
  BY <1>8 DEF Other, OtherStarts, OtherCalls, OtherGoesOn
<1>9. ASSUME Models \/ Crash \/ UNCHANGED vars
      PROVE  UNCHANGED thread
  BY <1>9 DEF Models, Crash, vars
<1> QED
  BY <1>1, <1>2, <1>4, <1>5, <1>6, <1>7, <1>8, <1>9 DEF Next, Agent

\* The request of a thread at its model is one a provider takes.
LEMMA RequestUsable ==
  ASSUME RoutingInv, ThreadInv, NEW a \in Agents, Grown(a), step[a] \in {"sent", "direct"}
  PROVE  Usable(Request(a))
<1> DEFINE h == history[a]
           M == Message \cup {Answer(c, "lost") : c \in UNION {Given(h, l) : l \in 1..Len(h)}}
<1>1. h \in Seq(Message) /\ begun[a] > 0
  <2>1. h \in Seq(Message) /\ begun[a] \in Nat
    BY DEF ThreadInv, AgentTypes
  <2> QED
    BY <2>1 DEF Grown
<1>2. Asked(h) /\ Len(h) >= 2 /\ h[1] = System /\ h[2] = Human("brief")
  BY <1>1 DEF Grown
<1>3. ASSUME NEW i \in 1..Len(h), h[i].kind = "ai"
      PROVE  IsFiniteSet(h[i].calls)
  <2>1. h[i] \in Message
    BY <1>1
  <2>2. PICK t \in Turns : h[i] = AI(t)
    BY <1>3, <2>1 DEF Message, System, Human
  <2> QED
    BY <2>2, Messages, AgentConstants
<1>4. h[1].kind # "ai"
  BY <1>2 DEF System
<1> HIDE DEF h
<1>5. /\ Accepted(Repair(h)) /\ Repair(h) \in Seq(M)
      /\ Len(Repair(h)) >= 2 /\ Repair(h)[1] = h[1] /\ Repair(h)[2] = h[2]
  BY <1>1, <1>2, <1>3, <1>4, RepairAccepted
<1>6. Human("handoff") \in M /\ Human("completion") \in M
  BY Messages
<1> HIDE DEF M
<1>7. Usable(Repair(h))
  BY <1>2, <1>5 DEF Usable
<1>8. Outer \in Nat /\ (step[a] = "sent" => Window[Provider(a)] \in Nat)
  <2>1. a \in Callers /\ Outer \in Nat /\ Window \in [Providers -> Nat]
    BY AgentAssumption
  <2>2. role[a] \in Roles /\ (step[a] = "sent" => at[a] \in 1..Len(Chain[role[a]]))
    BY <2>1 DEF RoutingInv, RoutingTypeOK, Placed
  <2>3. step[a] = "sent" => Provider(a) \in Providers
    BY <2>2, RoutingConstants DEF Provider
  <2> QED
    BY <2>1, <2>3
<1>9. Bound(Repair(h), Outer) \in Seq(M) /\ Usable(Bound(Repair(h), Outer))
  BY <1>5, <1>7, <1>8, BoundUsable
<1>10. Conversation(a) \in Seq(M) /\ Usable(Conversation(a))
  BY <1>6, <1>9, Nudges, NudgedUsable DEF Conversation, h
<1>11. /\ Conversation(a) \o CompletionNudge(a) \in Seq(M)
       /\ Usable(Conversation(a) \o CompletionNudge(a))
  BY <1>6, <1>10, Nudges, NudgedUsable
<1> QED
  BY <1>8, <1>11, BoundUsable DEF Request

\* Every request answers each call that carries an id right after it, a malformed
\* one included, holds no answer without its call, and has the brief in it, whatever
\* the thread has been through: runs killed between a batch and its answers, denials,
\* briefs added to an unfinished thread, and any bound on the size of a request
\* (graph.py _repair_dangling_tool_calls, context.py bound_history).
THEOREM RequestsAreAccepted == Spec => []RequestsSound
<1> DEFINE I == \A a \in Agents : Ended(a) /\ Grown(a)
<1>1. Init => I
  <2>1. Asked(<<>>)
    BY DEF Asked
  <2> QED
    BY <2>1, AgentConstants DEF Init, RoutingInit, Ended, Grown
<1>2. RoutingInv /\ ThreadInv /\ I /\ [Next]_vars => I'
  BY EndStays, GrownStays
<1>3. RoutingInv /\ ThreadInv /\ I => RequestsSound
  BY RequestUsable DEF RequestsSound, Usable
<1> HIDE DEF I
<1> QED
  BY <1>1, <1>2, <1>3, RoutingHolds, ThreadsHold, PTL DEF Spec

\* A history that is accepted as it is comes back unchanged from the repair,
\* as its comment promises (graph.py _repair_dangling_tool_calls): a second
\* repair adds nothing to the first.
THEOREM RepairIsIdempotent ==
  ASSUME NEW M, NEW h \in Seq(M), Accepted(h),
         \A i \in 1..Len(h) : h[i].kind = "ai" => IsFiniteSet(h[i].calls)
  PROVE  Repair(h) = h
<1> DEFINE n == Len(h) r == Repair(h)
<1>1. CASE n = 0
  <2>1. Parts(h) = <<>> /\ h = <<>>
    BY <1>1 DEF Parts
  <2> QED
    BY <2>1, RepairFlattens DEF FlattenSeq
<1>2. CASE n # 0
  <2>1. \A l \in 1..n : Given(h, l) = {}
    <3>1. \A l \in 1..n : \A i \in Asker(h, l) : Missing(h, i) = {}
      BY DEF Asker, Accepted, Missing
    <3> QED
      BY <3>1, GivenIsMissing
  <2> DEFINE N == M \cup {Answer(c, "lost") : c \in UNION {Given(h, l) : l \in 1..n}}
  <2>2. r \in Seq(N) /\ \E off : Repaired(h, off, r)
    BY <1>2, RepairPlaces
  <2>3. PICK off : Repaired(h, off, r)
    BY <2>2
  <2> HIDE DEF N, r
  <2>4. /\ n \in Nat /\ off[0] = 0 /\ off[n] = Len(r) /\ Len(r) \in Nat
        /\ \A l \in 1..n : off[l] = off[l - 1] + 1 /\ r[off[l - 1] + 1] = h[l]
    BY <2>1, <2>2, <2>3 DEF Repaired, Places
  <2> HIDE DEF n
  <2>5. \A l \in Nat : l \in 0..n => off[l] = l
    <3> DEFINE S == {l \in Nat : l \in 0..n => off[l] = l}
    <3>1. 0 \in S
      BY <2>4
    <3>2. ASSUME NEW l \in S
          PROVE  l + 1 \in S
      <4>1. l + 1 \in 0..n => l + 1 \in 1..n /\ l \in 0..n /\ (l + 1) - 1 = l
        BY <2>4
      <4> QED
        BY <4>1, <2>4
    <3> HIDE DEF S
    <3>3. S = Nat
      BY <3>1, <3>2, Induction DEF S
    <3> QED
      BY <3>3 DEF S
  <2>6. Len(r) = n
    BY <2>4, <2>5
  <2>7. ASSUME NEW l \in 1..n
        PROVE  r[l] = h[l]
    <3>1. l - 1 \in 0..n /\ l - 1 \in Nat /\ (l - 1) + 1 = l
      BY <2>4
    <3>2. off[l - 1] = l - 1
      BY <3>1, <2>5
    <3> QED
      BY <3>1, <3>2, <2>4
  <2>8. h \in Seq(N)
    BY DEF N
  <2> QED
    BY <2>2, <2>6, <2>7, <2>8, SeqEqual DEF n, r
<1> QED
  BY <1>1, <1>2
=============================================================================
