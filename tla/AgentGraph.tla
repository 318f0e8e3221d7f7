----------------------------- MODULE AgentGraph -----------------------------
(***************************************************************************)
(* The agent loop (graph.py): agent -> permission_gate -> tools -> agent,  *)
(* checkpointed after every step, with the requests it builds from the     *)
(* checkpointed messages (context.py), the gate's verdicts (permissions.py *)
(* and classifier.py) and the calls of models it makes through Routing.    *)
(* A caller that is not in Agents is another agent's thread, of which only *)
(* the calls of models matter here.                                        *)
(***************************************************************************)
EXTENDS Routing, Permissions, SequencesExt

CONSTANTS
  Agents,             \* agents whose loop is modelled
  Kinds,              \* what they may be: "worker", "session" or "reflection"
  Worker, Classifier, \* the two roles an agent calls
  Turns,              \* what a model may answer: its calls, and a malformed one or none
  Outer, Window,      \* the outer bound on a request, and provider -> its own
  TurnBudget,         \* the turn of the handoff nudge of workers and reflections
  MaxAgents, FallbackMaxAgents,
  MaxTurns,           \* bound: turns of one thread
  MaxTroubles         \* bound: crashes, and invocations of a thread anew

ASSUME AgentAssumption ==
  /\ Agents \subseteq Callers
  /\ Kinds \subseteq {"worker", "session", "reflection"}
  /\ Outer \in Nat /\ Window \in [Providers -> Nat]
  /\ Worker \in Roles /\ Classifier \in Roles
  /\ Turns \subseteq [calls : SUBSET ToolCall, bad : {"none", "named", "nameless"}]
  /\ \A t \in Turns : IsFiniteSet(t.calls)
  /\ TurnBudget \in Nat /\ MaxTurns \in Nat /\ MaxTroubles \in Nat
  /\ MaxAgents \in Nat /\ FallbackMaxAgents \in Nat

VARIABLES
  kind,      \* agent -> which of the Kinds built its graph
  running,   \* callers whose thread holds an agent slot
  node,      \* agent -> the node its thread runs next
  history,   \* agent -> its checkpointed messages
  turns,     \* agent -> turn_count
  nudged,    \* agent -> completion_nudged
  verdict,   \* agent -> the calls of the batch judged so far, allowed or denied
  asking,    \* agent -> the call the classifier is asked about, and which try it is
  begun,     \* agent -> how often its thread was invoked with a brief
  troubles

thread == <<node, history, turns, nudged, begun>>
gate   == <<verdict, asking>>
vars   == <<routing, kind, running, thread, gate, troubles>>

NoVerdict == [allow |-> {}, deny |-> {}]
Nobody    == [calls |-> {}, try |-> 0]

Init ==
  /\ RoutingInit
  /\ kind \in [Agents -> Kinds]
  /\ running = {}
  /\ node = [a \in Agents |-> "agent"]
  /\ history = [a \in Agents |-> <<>>]
  /\ turns = [a \in Agents |-> 0]
  /\ nudged = [a \in Agents |-> FALSE]
  /\ verdict = [a \in Agents |-> NoVerdict] /\ asking = [a \in Agents |-> Nobody]
  /\ begun = [a \in Agents |-> 0]
  /\ troubles = 0

----------------------------------------------------------------------------
(* Messages, and the request a call of the model is made of.               *)

System       == [kind |-> "system"]
Human(says)  == [kind |-> "human", says |-> says]
AI(turn)     == [kind |-> "ai", calls |-> turn.calls, bad |-> turn.bad]
Answer(c, r) == [kind |-> "tool", of |-> c, res |-> r]

LeadIn == <<System, Human("brief")>>

\* What can be answered: the calls, and a malformed one that carries an id.
Owed(m) == {<<c>> : c \in m.calls} \cup (IF m.bad = "named" THEN {<<>>} ELSE {})

\* The tool messages that directly follow the message at i.
Follow(h, i) == {j \in i + 1..Len(h) : \A k \in i + 1..j : h[k].kind = "tool"}

Answers(h, i) == {h[j].of : j \in Follow(h, i)}

\* Mutant: the repair sees the calls that parsed only.
MissingValid(h, i) == {<<c>> : c \in h[i].calls} \ Answers(h, i)

Missing(h, i) == Owed(h[i]) \ Answers(h, i)

\* _repair_dangling_tool_calls: every unanswered call is answered in place,
\* after the answers that are there, but for a malformed one without an id.
Repair(h) ==
  LET asker(i) == {j \in 1..i : h[j].kind = "ai" /\ i \in Follow(h, j) \cup {j}}
      ends(i)  == i = Len(h) \/ h[i + 1].kind # "tool"
      added(i) == IF ends(i) THEN UNION {Missing(h, j) : j \in asker(i)} ELSE {}
  IN FlattenSeq([i \in 1..Len(h) |->
       <<h[i]>> \o SetToSeq({Answer(c, "lost") : c \in added(i)})])

\* bound_history: the lead-in, and the longest suffix that fits and does not
\* begin on a tool message.  A message has size one.
Bound(h, size) ==
  LET lead  == Cardinality({i \in 1..Len(h) : i <= 2 /\
                 \A j \in 1..i : h[j].kind \in {"system", "human"}})
      first == IF size > lead THEN Len(h) - (size - lead) + 1 ELSE Len(h)
      kept  == {i \in first..Len(h) : \E j \in first..i : h[j].kind # "tool"}
  IN IF Len(h) <= size THEN h
     ELSE SubSeq(h, 1, lead) \o SubSeq(h, Len(h) - Cardinality(kept) + 1, Len(h))

TerminalCalled(h) ==
  \E i \in 1..Len(h) : h[i].kind = "ai" /\ \E c \in h[i].calls : c.tool = "terminal"

StoppedWithoutTerminal(h) ==
  Last(h).kind = "ai" /\ Last(h).calls = {} /\ ~TerminalCalled(h)

Budgeted(a) == kind[a] \in {"worker", "reflection"}

HandoffNudge(a) ==
  IF Budgeted(a) /\ turns[a] + 1 = TurnBudget THEN <<Human("handoff")>> ELSE <<>>

Conversation(a) == Bound(Repair(history[a]), Outer) \o HandoffNudge(a)

CompletionNudge(a) ==
  IF kind[a] = "worker" /\ ~nudged[a] /\ StoppedWithoutTerminal(Conversation(a))
    THEN <<Human("completion")>> ELSE <<>>

\* call_model's request, cut to the window of the provider it goes to, if a chain
\* picked one.
Request(a) ==
  LET said == Conversation(a) \o CompletionNudge(a)
  IN IF step[a] = "direct" THEN said ELSE Bound(said, Window[Provider(a)])

----------------------------------------------------------------------------
(* Runs.                                                                   *)

AgentLimit == IF PrimaryDegraded(Worker) THEN FallbackMaxAgents ELSE MaxAgents

Slot(c) ==
  /\ c \notin running /\ Cardinality(running) < AgentLimit
  /\ running' = running \cup {c}

\* A new thread, or a reflection invoked on the thread it has.
Begin(a) ==
  /\ Slot(a)
  /\ \/ begun[a] = 0 /\ UNCHANGED troubles
     \/ /\ begun[a] > 0 /\ kind[a] = "reflection"
        /\ troubles < MaxTroubles /\ troubles' = troubles + 1
  /\ begun' = [begun EXCEPT ![a] = @ + 1]
  /\ history' = [history EXCEPT ![a] = @ \o LeadIn]
  /\ turns' = [turns EXCEPT ![a] = 0]
  /\ node' = [node EXCEPT ![a] = "agent"]
  /\ UNCHANGED <<routing, kind, nudged, gate>>

\* graph.invoke(None): on from the checkpoint's next node.
Resume(a) ==
  /\ Slot(a)
  /\ begun[a] > 0 /\ kind[a] # "reflection" /\ node[a] # "end"
  /\ UNCHANGED <<routing, kind, thread, gate, troubles>>

Leave(c) == running' = running \ {c}

RunEnds(a) ==
  /\ a \in running /\ node[a] = "end"
  /\ Leave(a)
  /\ UNCHANGED <<routing, kind, thread, gate, troubles>>

At(a, n) == a \in running /\ node[a] = n

\* Mutant: the turn is counted and nudged for before the model answers.
CountedBefore(a) ==
  /\ At(a, "agent") /\ step[a] = "raised"
  /\ Taken(a) /\ Leave(a)
  /\ turns' = [turns EXCEPT ![a] = @ + 1]
  /\ UNCHANGED <<kind, node, history, nudged, begun, gate, troubles>>

\* The exception of a call leaves the graph, the checkpoint stays.
RunFails(a) ==
  /\ a \in running /\ step[a] = "raised"
  /\ Taken(a)
  /\ Leave(a)
  /\ verdict' = [verdict EXCEPT ![a] = NoVerdict]
  /\ asking' = [asking EXCEPT ![a] = Nobody]
  /\ UNCHANGED <<kind, thread, troubles>>

----------------------------------------------------------------------------
(* The nodes.                                                              *)

CallModel(a) ==
  /\ At(a, "agent") /\ turns[a] < MaxTurns
  /\ IF kind[a] = "reflection" THEN InvokeDirect(a) ELSE Invoke(a, Worker)
  /\ UNCHANGED <<kind, running, thread, gate, troubles>>

\* after_agent.
AfterAgent(a, h, n) ==
  IF Last(h).calls # {} THEN "gate"
  ELSE IF kind[a] # "worker" \/ n \/ TerminalCalled(h) THEN "end"
  ELSE "agent"

\* call_model's update: the nudges it sent and the answer, in one checkpoint.
ModelAnswers(a) ==
  /\ At(a, "agent") /\ step[a] = "returned"
  /\ Taken(a)
  /\ \E turn \in Turns :
       LET said == HandoffNudge(a) \o CompletionNudge(a) \o <<AI(turn)>>
           n    == nudged[a] \/ CompletionNudge(a) # <<>>
       IN /\ history' = [history EXCEPT ![a] = @ \o said]
          /\ nudged' = [nudged EXCEPT ![a] = n]
          /\ node' = [node EXCEPT ![a] = AfterAgent(a, history[a] \o said, n)]
  /\ turns' = [turns EXCEPT ![a] = @ + 1]
  /\ UNCHANGED <<kind, running, begun, gate, troubles>>

Batch(a) == Last(history[a]).calls

Judged(a) == verdict[a].allow \cup verdict[a].deny

Allow(a, c) == verdict' = [verdict EXCEPT ![a] = [allow |-> @.allow \cup {c}, deny |-> @.deny]]
Deny(a, c)  == verdict' = [verdict EXCEPT ![a] = [allow |-> @.allow, deny |-> @.deny \cup {c}]]

\* The gate's own verdict on a call, or the question for the classifier; a
\* graph built without a classifier allows what is not forbidden.
Judge(a) ==
  /\ At(a, "gate") /\ asking[a] = Nobody
  /\ Judged(a) # Batch(a)
  /\ LET c == CHOOSE x \in Batch(a) \ Judged(a) : TRUE IN
       \/ /\ Forbidden(c)
          /\ Deny(a, c) /\ UNCHANGED asking
       \/ /\ ~Forbidden(c) /\ (StaticallySafe(c) \/ kind[a] # "worker")
          /\ Allow(a, c) /\ UNCHANGED asking
       \/ /\ ~Forbidden(c) /\ ~StaticallySafe(c) /\ kind[a] = "worker"
          /\ asking' = [asking EXCEPT ![a] = [calls |-> {c}, try |-> 1]]
          /\ UNCHANGED verdict
  /\ UNCHANGED <<routing, kind, running, thread, troubles>>

\* Two tries of the classifier, then one of the worker's own chain.
Ask(a) ==
  /\ At(a, "gate") /\ asking[a] # Nobody
  /\ Invoke(a, IF asking[a].try <= 2 THEN Classifier ELSE Worker)
  /\ UNCHANGED <<kind, running, thread, gate, troubles>>

\* Mutant: an unreadable answer is asked for again and again.
AskForever(a, c) ==
  /\ asking' = [asking EXCEPT ![a] = [calls |-> {c}, try |-> @.try + 1]]
  /\ UNCHANGED verdict

\* Nothing readable: another try, and after the last one a denial.
Unreadable(a, c) ==
  \/ /\ asking[a].try < 3
     /\ asking' = [asking EXCEPT ![a] = [calls |-> {c}, try |-> @.try + 1]]
     /\ UNCHANGED verdict
  \/ /\ asking[a].try = 3
     /\ Deny(a, c) /\ asking' = [asking EXCEPT ![a] = Nobody]

\* parse_verdict: a verdict, or nothing readable.
ClassifierAnswers(a) ==
  /\ At(a, "gate") /\ step[a] = "returned"
  /\ Taken(a)
  /\ \E c \in asking[a].calls :
       \/ (Allow(a, c) \/ Deny(a, c)) /\ asking' = [asking EXCEPT ![a] = Nobody]
       \/ Unreadable(a, c)
  /\ UNCHANGED <<kind, running, thread, troubles>>

\* The orders the calls of a batch may have had.
Orders(S) ==
  {s \in [1..Cardinality(S) -> S] : \A i, j \in 1..Cardinality(S) : s[i] = s[j] => i = j}

\* One denied call denies its batch: the answers say so, and the agent goes on.
GateDecides(a) ==
  /\ At(a, "gate") /\ asking[a] = Nobody /\ Judged(a) = Batch(a)
  /\ verdict' = [verdict EXCEPT ![a] = NoVerdict]
  /\ IF verdict[a].deny = {}
       THEN node' = [node EXCEPT ![a] = "tools"] /\ UNCHANGED history
       ELSE /\ node' = [node EXCEPT ![a] = "agent"]
            /\ history' = [history EXCEPT ![a] =
                 @ \o SetToSeq({Answer(<<c>>, "denied") : c \in Batch(a)})]
  /\ UNCHANGED <<routing, kind, running, turns, nudged, begun, asking, troubles>>

\* A terminal tool may refuse or fail; so may any tool, which is an answer too.
Results(c) == IF c.tool = "terminal" THEN {"settled", "error"} ELSE {"done"}

\* Mutant: only the batch's last answer is looked at.
LastTookEffect(answers) == Last(answers).res = "settled"

\* _terminal_took_effect, of the answers just given.
TookEffect(answers) == \E i \in DOMAIN answers : answers[i].res = "settled"

RunTools(a) ==
  /\ At(a, "tools")
  /\ \E s \in Orders(Batch(a)) :
       \E r \in [DOMAIN s -> {"settled", "error", "done"}] :
         LET answers == [i \in DOMAIN s |-> Answer(<<s[i]>>, r[i])]
         IN /\ \A i \in DOMAIN s : r[i] \in Results(s[i])
            /\ history' = [history EXCEPT ![a] = @ \o answers]
            /\ node' = [node EXCEPT ![a] = IF TookEffect(answers) THEN "end" ELSE "agent"]
  /\ UNCHANGED <<routing, kind, running, turns, nudged, begun, gate, troubles>>

----------------------------------------------------------------------------
(* Other agents' calls, the process, and the specification.                *)

OtherStarts(c) == Slot(c) /\ UNCHANGED <<routing, kind, thread, gate, troubles>>

OtherCalls(c) ==
  /\ c \in running
  /\ Invoke(c, Worker)
  /\ UNCHANGED <<kind, running, thread, gate, troubles>>

OtherGoesOn(c) ==
  /\ Taken(c)
  /\ \/ UNCHANGED running
     \/ Leave(c)
  /\ UNCHANGED <<kind, thread, gate, troubles>>

Other(c) == OtherStarts(c) \/ OtherCalls(c) \/ OtherGoesOn(c)

Crash ==
  /\ troubles < MaxTroubles /\ troubles' = troubles + 1
  /\ RoutingLost
  /\ running' = {}
  /\ verdict' = [a \in Agents |-> NoVerdict] /\ asking' = [a \in Agents |-> Nobody]
  /\ UNCHANGED <<kind, thread>>

Models ==
  /\ (\E c \in Callers : Route(c)) \/ Timers
  /\ UNCHANGED <<kind, running, thread, gate, troubles>>

Agent(a) ==
  \/ Begin(a) \/ Resume(a) \/ RunEnds(a) \/ RunFails(a)
  \/ CallModel(a) \/ ModelAnswers(a)
  \/ Judge(a) \/ Ask(a) \/ ClassifierAnswers(a) \/ GateDecides(a)
  \/ RunTools(a)

Next ==
  \/ \E a \in Agents : Agent(a)
  \/ \E c \in Callers \ Agents : Other(c)
  \/ Models
  \/ Crash

Spec == Init /\ [][Next]_vars

----------------------------------------------------------------------------
(* Properties.                                                             *)

Message ==
  {System} \cup {Human(x) : x \in {"brief", "handoff", "completion"}}
  \cup {AI(t) : t \in Turns}
  \cup [kind : {"tool"}, of : {<<c>> : c \in UNION {t.calls : t \in Turns}},
        res : {"denied", "done", "settled", "error"}]

\* The types of the variables.
TypeOK ==
  /\ RoutingTypeOK
  /\ kind \in [Agents -> Kinds] /\ running \subseteq Callers
  /\ node \in [Agents -> {"agent", "gate", "tools", "end"}]
  /\ history \in [Agents -> Seq(Message)]
  /\ turns \in [Agents -> Nat] /\ nudged \in [Agents -> BOOLEAN]
  /\ verdict \in [Agents -> [allow : SUBSET ToolCall, deny : SUBSET ToolCall]]
  /\ asking \in [Agents -> [calls : SUBSET ToolCall, try : 0..3]]
  /\ begun \in [Agents -> Nat] /\ troubles \in 0..MaxTroubles

Tool(m) == m.kind = "tool"

\* What a provider accepts: every call of an assistant message that has an id,
\* a malformed one included, is answered by the tool messages right after it,
\* and no tool message stands without the call it answers.
Accepted(h) ==
  /\ \A i \in 1..Len(h) : h[i].kind = "ai" => Answers(h, i) = Owed(h[i])
  /\ \A j \in 1..Len(h) : Tool(h[j]) =>
       \E i \in 1..j - 1 : h[i].kind = "ai" /\ j \in Follow(h, i)

\* Whatever a thread has been through (a run killed between an answer and its
\* tools, a malformed call, a denial, a brief added to an unfinished thread),
\* the request made of it, by a chain or past it, answers every call that can
\* be answered and still holds the brief (graph.py _repair_dangling_tool_calls
\* and context.py bound_history; a rejected request is rejected again on every
\* retry, and the ticket is parked).
RequestsSound ==
  \A a \in Agents : node[a] = "agent" /\ step[a] \in {"sent", "direct"} =>
    Accepted(Request(a)) /\ Request(a)[2] = Human("brief")

\* A command the lexer splits as the shell does: on one line.
OneLine(c) == c.tool = "shell_exec" /\ c.lexed /\ \A i \in 1..Len(c.segs) : ~c.segs[i].newline

Clean(c) == OneLine(c) => \A i \in 1..Len(c.segs) : ~SegmentForbidden(c.segs[i])

\* "Compound commands are split, so `cd x && git update-ref ...` is caught too"
\* (permissions.py:467): of the commands on one line, none that moves refs or
\* changes the board by its own verb is at the tools or ever ran, wherever in
\* the line and beside whichever other calls it stood, whatever the classifier
\* answered and however often the run was killed and resumed (graph.py
\* permission_gate).  Nothing is said of several lines, of commands the lexer
\* refuses, or of what a wrapper runs: the layer does not see those.
GateHolds ==
  \A a \in Agents :
    /\ node[a] = "tools" => \A c \in Batch(a) : Clean(c)
    /\ \A i \in 1..Len(history[a]) :
         Tool(history[a][i]) /\ history[a][i].res # "denied" => Clean(history[a][i].of[1])

Said(a, says) == Cardinality({i \in 1..Len(history[a]) : history[a][i] = Human(says)})

\* The handoff nudge is given exactly once when the budget is reached, though
\* the count is saved only with a turn that succeeded and the turn may fail
\* and be resumed any number of times; the completion nudge at most once
\* (graph.py call_model).
NudgedOnce ==
  \A a \in Agents : begun[a] = 1 =>
    /\ Budgeted(a) => Said(a, "handoff") = IF turns[a] >= TurnBudget THEN 1 ELSE 0
    /\ Said(a, "completion") <= 1

\* A terminal tool that took effect ends the thread: no turn of the model ever
\* follows it, after a restart either, whatever was called beside it (graph.py
\* _terminal_took_effect; a second turn let an agent refuse its ticket again
\* and again).
SettledIsLast ==
  \A a \in Agents : begun[a] = 1 =>
    \A i \in 1..Len(history[a]) : Tool(history[a][i]) /\ history[a][i].res = "settled" =>
      /\ node[a] = "end"
      /\ \A j \in i + 1..Len(history[a]) : Tool(history[a][j])
=============================================================================
