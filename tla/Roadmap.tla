------------------------------ MODULE Roadmap ------------------------------
(***************************************************************************)
(* Which ticket of the board is worked next (dispatcher.py): roadmap order *)
(* by project, epic and story, and the tickets that are out of the         *)
(* running, parents of open tickets, blocked ones and held projects.       *)
(* An issue's id is the path of its numbers: the first is its project's,   *)
(* the first two its epic's, and all but the last its parent's.            *)
(***************************************************************************)
EXTENDS Naturals, Sequences

CONSTANTS
  Issues,     \* the board's issues, projects and epics among them
  Tickets,    \* those that are work items
  Priority,   \* issue -> its priority, or Untriaged
  Untriaged,
  Blockers,   \* ticket -> the tickets it depends on
  Held,       \* projects on dispatch hold
  Harness     \* projects whose tickets change the harness itself

ASSUME RoadmapAssumption ==
  /\ Tickets \subseteq Issues
  /\ Priority \in [Issues -> 0..4 \cup {Untriaged}]
  /\ Blockers \in [Tickets -> SUBSET Tickets]

Project(i) == <<i[1]>>
Epic(i)    == IF Len(i) >= 2 THEN SubSeq(i, 1, 2) ELSE Project(i)
Parent(i)  == SubSeq(i, 1, Len(i) - 1)

\* An order's missing priority sorts behind every real one, an unlisted issue's too.
Ordered(i) == IF i \in Issues /\ Priority[i] # Untriaged THEN Priority[i] ELSE 9

\* Tuples of numbers compare like Python's: the first difference decides, and
\* a prefix comes first.
Before(s, u) ==
  \E k \in 1..Len(u) :
    /\ \A j \in 1..k - 1 : j <= Len(s) /\ s[j] = u[j]
    /\ k > Len(s) \/ s[k] < u[k]

Priorities(i) == <<Ordered(Project(i)), Ordered(Epic(i)), Ordered(i)>>

\* _order: project's, epic's and own priority, then the epic's id and its own.
Earlier(i, j) ==
  \/ Before(Priorities(i), Priorities(j))
  \/ /\ Priorities(i) = Priorities(j)
     /\ \/ Before(Epic(i), Epic(j))
        \/ Epic(i) = Epic(j) /\ Before(i, j)

IsFirst(i, pool) == i \in pool /\ \A j \in pool \ {i} : Earlier(i, j)

\* _parents_with_open_children.
Parents(open) == {Parent(i) : i \in {j \in open : Len(j) > 1}}

\* blocked_ids: an open blocker.
Blocked(open) == {t \in Tickets : Blockers[t] \cap open # {}}

\* The tickets that may be worked at all, parked ones aside.
Actionable(open) ==
  {t \in Tickets : /\ t \notin Parents(open) \cup Blocked(open)
                   /\ Project(t) \notin Held}

\* _fronts_from: the earliest actionable ticket of a project, out of a pool.
IsFront(t, pool, open) ==
  IsFirst(t, {u \in pool : Project(u) = Project(t) /\ u \notin Parents(open)})

\* _priority and _outranks: a ticket nobody triaged never preempts.
Rank(t) == IF Priority[t] = Untriaged THEN 99 ELSE Priority[t]
Outranks(challenger, incumbent) == Rank(challenger) < Rank(incumbent)
=============================================================================
