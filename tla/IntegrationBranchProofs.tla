---------------------- MODULE IntegrationBranchProofs ----------------------
(***************************************************************************)
(* Type correctness of the integration branch's machine; while no agent    *)
(* moves the branch itself, that its merges are the gated merge and every  *)
(* tree is cut from accepted work, for every number of agents, judgements  *)
(* beside them and crashes anywhere; and, for one running agent that may   *)
(* move the branch, that a move is undone and no ticket gets another's     *)
(* work, but for edits staged in the project directory.                    *)
(***************************************************************************)
EXTENDS IntegrationBranch, FiniteSetTheorems, TLAPS

USE ConstantsAssumption

\* The base commit and what a commit or a merge makes of commits are commits.
LEMMA BaseIsCommit == BaseCommit \in Commit
BY DEF BaseCommit, Commit

LEMMA CommitTreeType ==
  ASSUME TypeOK, NEW t \in Tickets, NEW files \in SUBSET Edits, CommitTree(t, files)
  PROVE  /\ branch' \in [Tickets -> Commit]
         /\ made' \in [Tickets -> 0..MaxCommits]
<1> DEFINE node == [by |-> t, n |-> made[t] + 1, merge |-> FALSE]
           new == [hist |-> branch[t].hist \cup {node}, files |-> files]
<1>1. node \in Nodes
  BY DEF TypeOK, CommitTree, Nodes
<1>2. branch[t] \in Commit
  BY DEF TypeOK
<1>3. new \in Commit
  BY <1>1, <1>2 DEF Commit
<1>4. branch' = [branch EXCEPT ![t] = new]
  BY DEF CommitTree
<1>5. branch' \in [Tickets -> Commit]
  BY <1>3, <1>4 DEF TypeOK
<1>6. made' \in [Tickets -> 0..MaxCommits]
  BY DEF CommitTree, TypeOK
<1> QED BY <1>5, <1>6

LEMMA MergedType ==
  ASSUME TypeOK, NEW t \in Tickets
  PROVE  Merged(t) \in Commit
<1> DEFINE node == [by |-> t, n |-> made[t], merge |-> TRUE]
           new == [hist |-> master.hist \cup branch[t].hist \cup {node},
                   files |-> master.files \cup branch[t].files]
<1>1. node \in Nodes
  BY DEF TypeOK, Nodes
<1>2. branch[t] \in Commit /\ master \in Commit
  BY DEF TypeOK
<1>3. new \in Commit
  BY <1>1, <1>2 DEF Commit
<1>4. Merged(t) = IF Ancestor(branch[t], master) THEN master ELSE new
  BY DEF Merged
<1> QED BY <1>2, <1>3, <1>4

LEMMA WorksType ==
  ASSUME NEW t \in Tickets, NEW c \in Commit
  PROVE  Works(t, c) \subseteq {x \in Nodes : ~x.merge}
BY DEF Works, Commit

LEMMA AfterCheckType ==
  ASSUME TypeOK, NEW t \in Tickets, AfterCheck(t)
  PROVE  /\ at' \in [Tickets -> Steps]
         /\ thread' \in [Tickets -> BOOLEAN]
         /\ held' \subseteq Tickets
<1>1. outcome[t] \in {"none", "closed", "left"}
  BY DEF TypeOK
<1>2. CASE outcome[t] = "none"
  BY <1>2 DEF AfterCheck, Go, TypeOK, Steps
<1>3. CASE outcome[t] = "closed"
  BY <1>3 DEF AfterCheck, Go, TypeOK, Steps
<1>4. CASE outcome[t] = "left"
  BY <1>4 DEF AfterCheck, Leave, Go, TypeOK, Steps
<1> QED BY <1>1, <1>2, <1>3, <1>4

LEMMA InitType == Init => TypeOK
BY BaseIsCommit DEF Init, TypeOK, Steps

\* A tip is only put back to a recorded marker; with it the types are inductive.
SeenRecorded == \A t \in Tickets : at[t] = "restore" => seen[t] # NoTip
TypeInv == TypeOK /\ SeenRecorded

\* The pickup and the check of the tip keep the types.
LEMMA PickupType ==
  ASSUME TypeInv, NEW t \in Tickets,
         \/ PickUp(t) \/ PrepareTree(t) \/ DiscardStrayEdits(t)
         \/ ReadMarker(t) \/ CompareTip(t) \/ RestoreTip(t)
  PROVE  TypeOK'
<1> USE DEF TypeInv
<1>1. CASE PickUp(t)
  BY <1>1 DEF PickUp, TypeOK, Go, Steps, repo, work, judged
<1>2. CASE PrepareTree(t)
  <2>1. master \in Commit /\ master.files \subseteq Edits
    BY DEF TypeOK, Commit
  <2>2. branch' \in [Tickets -> Commit]
    BY <1>2, <2>1 DEF PrepareTree, ResetForAttempt, TypeOK
  <2>3. tree' \in [Tickets -> SUBSET Edits]
    BY <1>2, <2>1 DEF PrepareTree, ResetForAttempt, TypeOK
  <2>4. marker' \in Commit \cup {NoTip}
    BY <1>2 DEF PrepareTree, SeedMarker, TypeOK
  <2> QED BY <1>2, <2>2, <2>3, <2>4 DEF PrepareTree, TypeOK, Go, Steps, judged
<1>3. CASE DiscardStrayEdits(t)
  BY <1>3 DEF DiscardStrayEdits, Staged, TypeOK, Go, Steps, work, judged
<1>4. CASE ReadMarker(t)
  BY <1>4 DEF ReadMarker, TypeOK, Go, Steps, repo, work, judged
<1>5. CASE CompareTip(t)
  <2>1. CASE Moved(t)
    BY <1>5, <2>1 DEF CompareTip, TypeOK, Go, Steps, repo, work, judged
  <2>2. CASE ~Moved(t)
    BY <1>5, <2>2, AfterCheckType DEF CompareTip, TypeOK, repo, work, judged
  <2> QED BY <2>1, <2>2
<1>6. CASE RestoreTip(t)
  <2>1. seen[t] \in Commit
    BY <1>6 DEF TypeOK, SeenRecorded, RestoreTip
  <2> QED BY <1>6, <2>1, AfterCheckType DEF RestoreTip, TypeOK, work, judged
<1> QED BY <1>1, <1>2, <1>3, <1>4, <1>5, <1>6

\* The run, what it leaves behind and its commit keep the types.
LEMMA RunType ==
  ASSUME TypeInv, NEW t \in Tickets,
         \/ AgentEdits(t) \/ AgentCommits(t) \/ AgentMovesBranch(t)
         \/ RunEnds(t) \/ AbsorbStrayEdits(t) \/ CommitAll(t) \/ Close(t)
  PROVE  TypeOK'
<1> USE DEF TypeInv
<1>1. CASE AgentEdits(t)
  <2>1. PICK k \in Kinds :
          LET e == [by |-> t, kind |-> k]
          IN  \/ k # "staged" /\ tree' = [tree EXCEPT ![t] = @ \cup {e}] /\ UNCHANGED strays
              \/ strays' = strays \cup {e} /\ UNCHANGED tree
    BY <1>1 DEF AgentEdits
  <2>2. [by |-> t, kind |-> k] \in Edits
    BY DEF Edits
  <2>3. tree' \in [Tickets -> SUBSET Edits] /\ strays' \subseteq Edits
    BY <2>1, <2>2 DEF TypeOK
  <2> QED BY <1>1, <2>3 DEF AgentEdits, TypeOK, judged
<1>2. CASE AgentCommits(t)
  <2>1. tree[t] \in SUBSET Edits /\ CommitTree(t, tree[t])
    BY <1>2 DEF TypeOK, AgentCommits
  <2>2. branch' \in [Tickets -> Commit] /\ made' \in [Tickets -> 0..MaxCommits]
    BY <2>1, CommitTreeType
  <2> QED BY <1>2, <2>2 DEF AgentCommits, TypeOK, repo, judged
<1>3. CASE AgentMovesBranch(t)
  BY <1>3 DEF AgentMovesBranch, TypeOK, work, judged
<1>4. CASE RunEnds(t)
  BY <1>4 DEF RunEnds, TypeOK, Go, Steps, repo, work, judged
<1>5. CASE AbsorbStrayEdits(t)
  <2>1. tree' \in [Tickets -> SUBSET Edits]
    BY <1>5 DEF AbsorbStrayEdits, TypeOK
  <2>2. /\ at' \in [Tickets -> Steps]
        /\ outcome' \in [Tickets -> {"none", "closed", "left"}]
    BY <1>5 DEF AbsorbStrayEdits, TypeOK, Go, Steps
  <2> QED BY <1>5, <2>1, <2>2 DEF AbsorbStrayEdits, Staged, TypeOK, judged
<1>6. CASE CommitAll(t)
  <2>1. branch' \in [Tickets -> Commit] /\ made' \in [Tickets -> 0..MaxCommits]
    <3>1. CASE tree[t] = branch[t].files
      BY <1>6, <3>1 DEF CommitAll, TypeOK
    <3>2. CASE tree[t] # branch[t].files
      <4>1. tree[t] \in SUBSET Edits /\ CommitTree(t, tree[t])
        BY <1>6, <3>2 DEF TypeOK, CommitAll
      <4> QED BY <4>1, CommitTreeType
    <3> QED BY <3>1, <3>2
  <2> QED BY <1>6, <2>1 DEF CommitAll, TypeOK, Go, Steps, repo, judged
<1>7. CASE Close(t)
  BY <1>7 DEF Close, TypeOK, Go, Steps, repo, work, judged
<1> QED BY <1>1, <1>2, <1>3, <1>4, <1>5, <1>6, <1>7

\* The verdict and the merge keep the types.
LEMMA LandingType ==
  ASSUME TypeInv, NEW t \in Tickets,
         \/ Pass(t) \/ Fail(t) \/ JudgeRaises(t)
         \/ TakeLock(t) \/ Merge(t) \/ MergeConflicts(t) \/ RecordTip(t)
  PROVE  TypeOK'
<1> USE DEF TypeInv
<1>1. CASE Pass(t)
  <2>1. Works(t, branch[t]) \subseteq Nodes
    BY WorksType DEF TypeOK
  <2> QED BY <1>1, <2>1 DEF Pass, TypeOK, Go, Steps, repo, work
<1>2. CASE Fail(t)
  BY <1>2 DEF Fail, Rework, Leave, Go, TypeOK, Steps, repo, work, judged
<1>3. CASE JudgeRaises(t)
  BY <1>3 DEF JudgeRaises, Leave, Go, TypeOK, Steps, repo, work, judged
<1>4. CASE TakeLock(t)
  BY <1>4 DEF TakeLock, TypeOK, Go, Steps, work, judged
<1>5. CASE Merge(t)
  <2>1. Merged(t) \in Commit
    BY MergedType
  <2>2. landed' \in [Tickets -> SUBSET Nodes]
    BY <1>5, <2>1, WorksType DEF Merge, TypeOK
  <2> QED BY <1>5, <2>1, <2>2 DEF Merge, TypeOK, Go, Steps, work
<1>6. CASE MergeConflicts(t)
  BY <1>6 DEF MergeConflicts, Rework, Leave, Go, TypeOK, Steps, repo, work, judged
<1>7. CASE RecordTip(t)
  BY <1>7 DEF RecordTip, Leave, Go, TypeOK, Steps, work, judged
<1> QED BY <1>1, <1>2, <1>3, <1>4, <1>5, <1>6, <1>7

LEMMA CrashType == TypeInv /\ Crash => TypeOK'
<1> SUFFICES ASSUME TypeInv, Crash PROVE TypeOK'
  OBVIOUS
<1>1. \A t \in Tickets : Found(t) \in Steps
  BY DEF Found, Steps
<1>2. at' \in [Tickets -> Steps]
  BY <1>1 DEF Crash
<1>3. marker' \in Commit \cup {NoTip}
  BY DEF Crash, TypeInv, TypeOK
<1> QED BY <1>2, <1>3 DEF Crash, TypeInv, TypeOK, work, judged

\* Only the comparison sends a ticket to the restore, with the marker it read.
LEMMA SeenRecordedKept == TypeInv /\ [Next]_vars => SeenRecorded'
<1> SUFFICES ASSUME TypeInv, [Next]_vars, NEW u \in Tickets, at'[u] = "restore"
             PROVE  seen'[u] # NoTip
  BY DEF SeenRecorded
<1> USE DEF TypeInv, SeenRecorded
<1>1. CASE UNCHANGED vars
  BY <1>1 DEF vars
<1>2. CASE Crash
  BY <1>2 DEF Crash, Found
<1>3. ASSUME NEW t \in Tickets, Agent(t)
      PROVE  seen'[u] # NoTip
  BY <1>3 DEF Agent, AgentEdits, AgentCommits, AgentMovesBranch
<1>4. ASSUME NEW t \in Tickets, Harness(t)
      PROVE  seen'[u] # NoTip
  <2>1. CASE PickUp(t) \/ PrepareTree(t) \/ DiscardStrayEdits(t) \/ ReadMarker(t)
    BY <2>1 DEF PickUp, PrepareTree, DiscardStrayEdits, ReadMarker, Go, TypeOK
  <2>2. CASE CompareTip(t)
    <3>1. CASE Moved(t)
      BY <2>2, <3>1 DEF CompareTip, Moved, Go, TypeOK
    <3>2. CASE ~Moved(t)
      BY <2>2, <3>2 DEF CompareTip, AfterCheck, Leave, Go, TypeOK
    <3> QED BY <3>1, <3>2
  <2>3. CASE RestoreTip(t)
    BY <2>3 DEF RestoreTip, AfterCheck, Leave, Go, TypeOK
  <2>4. CASE RunEnds(t) \/ AbsorbStrayEdits(t) \/ CommitAll(t) \/ Close(t)
    BY <2>4 DEF RunEnds, AbsorbStrayEdits, CommitAll, Close, Go, TypeOK
  <2>5. CASE Pass(t) \/ Fail(t) \/ JudgeRaises(t) \/ TakeLock(t)
    BY <2>5 DEF Pass, Fail, JudgeRaises, TakeLock, Rework, Leave, Go, TypeOK
  <2>6. CASE Merge(t) \/ MergeConflicts(t) \/ RecordTip(t)
    BY <2>6 DEF Merge, MergeConflicts, RecordTip, Rework, Leave, Go, TypeOK
  <2> QED BY <1>4, <2>1, <2>2, <2>3, <2>4, <2>5, <2>6 DEF Harness
<1> QED BY <1>1, <1>2, <1>3, <1>4 DEF Next

LEMMA TypeInvKept == TypeInv /\ [Next]_vars => TypeInv'
<1> SUFFICES ASSUME TypeInv, [Next]_vars PROVE TypeInv'
  OBVIOUS
<1>1. SeenRecorded'
  BY SeenRecordedKept
<1>2. TypeOK'
  <2>1. CASE UNCHANGED vars
    BY <2>1 DEF vars, TypeInv, TypeOK
  <2>2. CASE Crash
    BY <2>2, CrashType
  <2>3. ASSUME NEW t \in Tickets, Harness(t) \/ Agent(t)
        PROVE  TypeOK'
    BY <2>3, PickupType, RunType, LandingType DEF Harness, Agent
  <2> QED BY <2>1, <2>2, <2>3 DEF Next
<1> QED BY <1>1, <1>2 DEF TypeInv

LEMMA AlwaysTyped == Spec => []TypeInv
<1>1. Init => TypeInv
  BY InitType DEF Init, TypeInv, SeenRecorded
<1> QED BY <1>1, TypeInvKept, PTL DEF Spec

\* Every variable keeps its type, whatever the bounds, the number of agents,
\* the moves of the branch and the crashes.
THEOREM IntegrationTypeCorrect == Spec => []TypeOK
<1>1. TypeInv => TypeOK
  BY DEF TypeInv
<1> QED BY <1>1, AlwaysTyped, PTL

----------------------------------------------------------------------------
(* The gated merge, while no agent moves the branch itself.                *)

\* The commits of work a commit descends from were put on the branch.
Accepted(c, l) == \A u \in Tickets : Works(u, c) \subseteq l[u]

GateInv ==
  /\ TypeInv
  /\ Accepted(master, landed)
  /\ marker # NoTip => Accepted(marker, landed)
  /\ \A t \in Tickets : seen[t] # NoTip => Accepted(seen[t], landed)
  /\ BaseAccepted
  /\ \A t \in Tickets : landed[t] \subseteq approved[t]
  /\ \A t \in Tickets :
       at[t] \in {"lock", "merge"} => Works(t, branch[t]) \subseteq approved[t]

\* A merge commit is nobody's work.
LEMMA MergedWorks ==
  ASSUME TypeOK, NEW t \in Tickets, NEW u \in Tickets
  PROVE  Works(u, Merged(t)) \subseteq Works(u, master) \cup Works(u, branch[t])
<1>1. CASE Ancestor(branch[t], master)
  BY <1>1 DEF Merged
<1>2. CASE ~Ancestor(branch[t], master)
  BY <1>2 DEF Merged, Works
<1> QED BY <1>1, <1>2

\* A new commit of a ticket adds to that ticket's work only.
LEMMA CommitTreeWorks ==
  ASSUME TypeOK, NEW t \in Tickets, NEW files, CommitTree(t, files)
  PROVE  /\ \A u \in Tickets : \A v \in Tickets \ {u} :
              Works(v, branch'[u]) = Works(v, branch[u])
         /\ \A u \in Tickets \ {t} : branch'[u] = branch[u]
BY DEF CommitTree, Works, TypeOK

LEMMA GateInit == Init => GateInv
<1> SUFFICES ASSUME Init PROVE GateInv
  OBVIOUS
<1>1. TypeInv
  BY InitType DEF Init, TypeInv, SeenRecorded
<1>2. \A u \in Tickets : Works(u, BaseCommit) = {}
  BY DEF Works, BaseCommit
<1> QED BY <1>1, <1>2 DEF Init, GateInv, Accepted, BaseAccepted

\* Steps that leave every commit, approval and landing where it is.
LEMMA QuietStep ==
  ASSUME GateInv, TypeInv',
         UNCHANGED <<master, marker, branch, judged>>,
         \A t \in Tickets : seen'[t] \in {seen[t], marker},
         \A t \in Tickets : at'[t] \in {"lock", "merge"} => at[t] \in {"lock", "merge"}
  PROVE  GateInv'
BY DEF GateInv, Accepted, BaseAccepted, judged

LEMMA PickupGated ==
  ASSUME GateInv, TypeInv', NEW t \in Tickets,
         \/ PickUp(t) \/ PrepareTree(t) \/ DiscardStrayEdits(t)
         \/ ReadMarker(t) \/ CompareTip(t) \/ RestoreTip(t)
  PROVE  GateInv'
<1>0. TypeOK /\ TypeInv
  BY DEF GateInv, TypeInv
<1>1. CASE PickUp(t)
  <2>1. \A u \in Tickets : at'[u] \in {"lock", "merge"} => at[u] \in {"lock", "merge"}
    BY <1>0, <1>1 DEF PickUp, Go, TypeOK
  <2> QED BY <1>1, <2>1, QuietStep DEF PickUp, repo, work
<1>2. CASE PrepareTree(t)
  <2>1. \A u \in Tickets : at'[u] \in {"lock", "merge"} => at[u] \in {"lock", "merge"} /\ u # t
    BY <1>0, <1>2 DEF PrepareTree, Go, TypeOK
  <2>2. \A u \in Tickets : branch'[u] = branch[u] \/ (u = t /\ branch'[u] = master)
    <3>1. CASE thread[t]
      BY <1>2, <3>1 DEF PrepareTree
    <3>2. CASE ~thread[t]
      <4>1. branch' = [branch EXCEPT ![t] = master]
        BY <1>2, <3>2 DEF PrepareTree, ResetForAttempt
      <4> QED BY <1>0, <4>1 DEF TypeOK
    <3> QED BY <3>1, <3>2
  <2>3. BaseAccepted'
    BY <1>2, <2>2 DEF GateInv, Accepted, BaseAccepted, PrepareTree, judged
  <2>4. marker' \in {marker, master}
    BY <1>2 DEF PrepareTree, SeedMarker
  <2>5. UNCHANGED <<master, seen, judged>>
    BY <1>2 DEF PrepareTree
  <2>6. \A u \in Tickets :
          at'[u] \in {"lock", "merge"} => Works(u, branch'[u]) \subseteq approved'[u]
    BY <2>1, <2>2, <2>5 DEF GateInv, judged
  <2> QED BY <2>3, <2>4, <2>5, <2>6 DEF GateInv, Accepted, judged
<1>3. CASE DiscardStrayEdits(t)
  <2>1. \A u \in Tickets : at'[u] \in {"lock", "merge"} => at[u] \in {"lock", "merge"}
    BY <1>0, <1>3 DEF DiscardStrayEdits, Go, TypeOK
  <2> QED BY <1>3, <2>1, QuietStep DEF DiscardStrayEdits, work
<1>4. CASE ReadMarker(t)
  <2>1. \A u \in Tickets : at'[u] \in {"lock", "merge"} => at[u] \in {"lock", "merge"}
    BY <1>0, <1>4 DEF ReadMarker, Go, TypeOK
  <2>2. \A u \in Tickets : seen'[u] \in {seen[u], marker}
    BY <1>0, <1>4 DEF ReadMarker, TypeOK
  <2> QED BY <1>4, <2>1, <2>2, QuietStep DEF ReadMarker, repo, work
<1>5. CASE CompareTip(t)
  <2>1. \A u \in Tickets : at'[u] \in {"lock", "merge"} => at[u] \in {"lock", "merge"}
    BY <1>0, <1>5 DEF CompareTip, AfterCheck, Leave, Go, TypeOK
  <2> QED BY <1>5, <2>1, QuietStep DEF CompareTip, repo, work
<1>6. CASE RestoreTip(t)
  <2>1. \A u \in Tickets : at'[u] \in {"lock", "merge"} => at[u] \in {"lock", "merge"}
    BY <1>0, <1>6 DEF RestoreTip, AfterCheck, Leave, Go, TypeOK
  <2>2. seen[t] # NoTip /\ master' = seen[t]
    BY <1>0, <1>6 DEF RestoreTip, TypeInv, SeenRecorded
  <2>3. UNCHANGED <<marker, seen, branch, judged>>
    BY <1>6 DEF RestoreTip, work
  <2> QED BY <2>1, <2>2, <2>3 DEF GateInv, Accepted, BaseAccepted, judged
<1> QED BY <1>1, <1>2, <1>3, <1>4, <1>5, <1>6

LEMMA RunGated ==
  ASSUME Moves = "never", GateInv, TypeInv', NEW t \in Tickets,
         \/ AgentEdits(t) \/ AgentCommits(t) \/ AgentMovesBranch(t)
         \/ RunEnds(t) \/ AbsorbStrayEdits(t) \/ CommitAll(t) \/ Close(t)
  PROVE  GateInv'
<1>0. TypeOK
  BY DEF GateInv, TypeInv
<1>1. CASE AgentEdits(t)
  BY <1>1, QuietStep DEF AgentEdits
<1>2. CASE AgentMovesBranch(t)
  BY <1>2 DEF AgentMovesBranch
<1>3. CASE RunEnds(t) \/ AbsorbStrayEdits(t) \/ Close(t)
  <2>1. \A u \in Tickets : at'[u] \in {"lock", "merge"} => at[u] \in {"lock", "merge"}
    BY <1>0, <1>3 DEF RunEnds, AbsorbStrayEdits, Close, Go, TypeOK
  <2>2. UNCHANGED <<master, marker, branch, judged, seen>>
    BY <1>3 DEF RunEnds, AbsorbStrayEdits, Close, repo, work
  <2> QED BY <2>1, <2>2, QuietStep
<1>4. ASSUME at[t] \in {"run", "commit"}, at'[t] \notin {"lock", "merge"},
             \A u \in Tickets \ {t} : at'[u] = at[u],
             UNCHANGED <<repo, judged, seen>>, CommitTree(t, tree[t])
      PROVE  GateInv'
  <2>1. UNCHANGED <<master, marker, approved, landed, seen>>
    BY <1>4 DEF repo, judged
  <2>2. BaseAccepted'
    BY <1>0, <1>4, <2>1, CommitTreeWorks DEF GateInv, BaseAccepted
  <2>3. \A u \in Tickets \ {t} : branch'[u] = branch[u]
    BY <1>0, <1>4, CommitTreeWorks
  <2>4. \A u \in Tickets :
          at'[u] \in {"lock", "merge"} => Works(u, branch'[u]) \subseteq approved'[u]
    BY <1>4, <2>1, <2>3 DEF GateInv
  <2> QED BY <2>1, <2>2, <2>4 DEF GateInv, Accepted
<1>5. CASE AgentCommits(t)
  BY <1>4, <1>5 DEF AgentCommits
<1>6. CASE CommitAll(t)
  <2>1. at[t] = "commit" /\ at'[t] = "close"
        /\ \A u \in Tickets \ {t} : at'[u] = at[u]
    BY <1>0, <1>6 DEF CommitAll, Go, TypeOK
  <2>2. CASE CommitTree(t, tree[t])
    BY <1>4, <1>6, <2>1, <2>2 DEF CommitAll
  <2>3. CASE UNCHANGED branch
    BY <1>6, <2>1, <2>3, QuietStep DEF CommitAll, repo
  <2> QED BY <1>6, <2>2, <2>3 DEF CommitAll
<1> QED BY <1>1, <1>2, <1>3, <1>5, <1>6

LEMMA LandingGated ==
  ASSUME GateInv, TypeInv', NEW t \in Tickets,
         \/ Pass(t) \/ Fail(t) \/ JudgeRaises(t)
         \/ TakeLock(t) \/ Merge(t) \/ MergeConflicts(t) \/ RecordTip(t)
  PROVE  GateInv'
<1>0. TypeOK
  BY DEF GateInv, TypeInv
<1>1. CASE Pass(t)
  <2>1. \A u \in Tickets : approved'[u] =
          IF u = t THEN approved[u] \cup Works(u, branch[u]) ELSE approved[u]
    BY <1>0, <1>1 DEF Pass, TypeOK
  <2>2. \A u \in Tickets : u # t => at'[u] = at[u]
    BY <1>0, <1>1 DEF Pass, Go, TypeOK
  <2>3. UNCHANGED <<master, marker, branch, landed, seen>>
    BY <1>1 DEF Pass, repo, work
  <2> QED BY <2>1, <2>2, <2>3 DEF GateInv, Accepted, BaseAccepted
<1>2. CASE Fail(t) \/ JudgeRaises(t) \/ TakeLock(t) \/ MergeConflicts(t)
  <2>1. \A u \in Tickets : at'[u] \in {"lock", "merge"} => at[u] \in {"lock", "merge"}
    BY <1>0, <1>2 DEF Fail, JudgeRaises, TakeLock, MergeConflicts, Rework, Leave, Go, TypeOK
  <2>2. UNCHANGED <<master, marker, branch, judged, seen>>
    BY <1>2 DEF Fail, JudgeRaises, TakeLock, MergeConflicts, repo, work
  <2> QED BY <2>1, <2>2, QuietStep
<1>3. CASE Merge(t)
  <2>1. \A u \in Tickets : landed'[u] = landed[u] \cup Works(u, Merged(t))
    BY <1>3 DEF Merge
  <2>2. \A u \in Tickets : Works(u, Merged(t)) \subseteq approved[u]
    BY <1>0, <1>3, MergedWorks DEF GateInv, Accepted, BaseAccepted, Merge
  <2>3. \A u \in Tickets : at'[u] \in {"lock", "merge"} => at[u] \in {"lock", "merge"}
    BY <1>0, <1>3 DEF Merge, Go, TypeOK
  <2>4. UNCHANGED <<marker, branch, approved, seen>> /\ master' = Merged(t)
    BY <1>3 DEF Merge, work
  <2> QED BY <2>1, <2>2, <2>3, <2>4 DEF GateInv, Accepted, BaseAccepted
<1>4. CASE RecordTip(t)
  <2>1. \A u \in Tickets : at'[u] \in {"lock", "merge"} => at[u] \in {"lock", "merge"}
    BY <1>0, <1>4 DEF RecordTip, Leave, Go, TypeOK
  <2>2. UNCHANGED <<master, branch, judged, seen>> /\ marker' = master
    BY <1>4 DEF RecordTip, work
  <2> QED BY <2>1, <2>2 DEF GateInv, Accepted, BaseAccepted, judged
<1> QED BY <1>1, <1>2, <1>3, <1>4

LEMMA CrashGated == GateInv /\ TypeInv' /\ Crash => GateInv'
<1> SUFFICES ASSUME GateInv, TypeInv', Crash PROVE GateInv'
  OBVIOUS
<1>1. \A u \in Tickets : at'[u] \notin {"lock", "merge"}
  BY DEF Crash, Found
<1>2. UNCHANGED <<master, branch, judged, seen>> /\ marker' \in {marker, NoTip}
  BY DEF Crash, work
<1> QED BY <1>1, <1>2 DEF GateInv, Accepted, BaseAccepted, judged

LEMMA GateInvKept == Moves = "never" /\ GateInv /\ [Next]_vars => GateInv'
<1> SUFFICES ASSUME Moves = "never", GateInv, [Next]_vars PROVE GateInv'
  OBVIOUS
<1>1. TypeInv'
  BY TypeInvKept DEF GateInv
<1>2. CASE UNCHANGED vars
  BY <1>1, <1>2, QuietStep DEF vars, judged
<1>3. CASE Crash
  BY <1>1, <1>3, CrashGated
<1>4. ASSUME NEW t \in Tickets, Harness(t) \/ Agent(t)
      PROVE  GateInv'
  BY <1>1, <1>4, PickupGated, RunGated, LandingGated DEF Harness, Agent
<1> QED BY <1>2, <1>3, <1>4 DEF Next

LEMMA AlwaysGated ==
  ASSUME Moves = "never"
  PROVE  Spec => []GateInv
<1>1. GateInv /\ [Next]_vars => GateInv'
  BY GateInvKept
<1> QED BY <1>1, GateInit, PTL DEF Spec

\* While no agent moves the branch, every tree is cut from accepted work, however
\* many agents run, whoever judges beside them and whatever is killed.
THEOREM TreesCutFromAcceptedWork ==
  ASSUME Moves = "never"
  PROVE  Spec => []BaseAccepted
<1>1. GateInv => BaseAccepted
  BY DEF GateInv
<1> QED BY <1>1, AlwaysGated, PTL

LEMMA StartIsGated == Init => Gate!Init
BY DEF Init, Gate!Init

\* A merge whose branch was approved, onto a branch of accepted work, is the gated
\* merge of that ticket's work; no other step approves or lands.
LEMMA StepIsGated ==
  ASSUME TypeOK, BaseAccepted, [Next]_vars,
         \A t \in Tickets : landed[t] \subseteq approved[t],
         \A t \in Tickets : at[t] = "merge" =>
           Works(t, branch[t]) \subseteq approved[t] /\ Accepted(master, landed)
  PROVE  [Gate!Next]_<<approved, landed, {}>>
<1>1. CASE UNCHANGED vars
  BY <1>1 DEF vars
<1>2. CASE Crash
  BY <1>2 DEF Crash, judged
<1>3. ASSUME NEW t \in Tickets, Pass(t)
      PROVE  Gate!Next
  <2>1. Works(t, branch[t]) \in SUBSET {x \in Nodes : ~x.merge}
    BY WorksType DEF TypeOK
  <2>2. Gate!Approve(t, Works(t, branch[t]))
    BY <1>3 DEF Pass, Gate!Approve
  <2> QED BY <2>1, <2>2 DEF Gate!Next
<1>4. ASSUME NEW t \in Tickets, Merge(t)
      PROVE  Gate!Next
  <2> DEFINE new == Works(t, Merged(t))
  <2>1. new \in SUBSET {x \in Nodes : ~x.merge}
    BY WorksType, MergedType
  <2>2. new \subseteq approved[t]
    BY <1>4, MergedWorks DEF Accepted, Merge
  <2>3. \A u \in Tickets : u # t => landed[u] \cup Works(u, Merged(t)) = landed[u]
    BY <1>4, MergedWorks DEF Accepted, BaseAccepted, Merge
  <2>4. landed' = [landed EXCEPT ![t] = @ \cup new]
    BY <1>4, <2>3 DEF Merge, TypeOK
  <2>5. Gate!Land(t, new)
    BY <1>4, <2>2, <2>4 DEF Merge, Gate!Land
  <2> QED BY <2>1, <2>5 DEF Gate!Next
<1>5. ASSUME NEW t \in Tickets, Harness(t) \/ Agent(t), ~Pass(t), ~Merge(t)
      PROVE  UNCHANGED <<approved, landed>>
  <2>1. CASE PickUp(t) \/ PrepareTree(t) \/ DiscardStrayEdits(t) \/ ReadMarker(t)
    BY <2>1 DEF PickUp, PrepareTree, DiscardStrayEdits, ReadMarker, judged
  <2>2. CASE CompareTip(t) \/ RestoreTip(t) \/ RunEnds(t) \/ AbsorbStrayEdits(t)
    BY <2>2 DEF CompareTip, RestoreTip, RunEnds, AbsorbStrayEdits, judged
  <2>3. CASE CommitAll(t) \/ Close(t) \/ Fail(t) \/ JudgeRaises(t)
    BY <2>3 DEF CommitAll, Close, Fail, JudgeRaises, judged
  <2>4. CASE TakeLock(t) \/ MergeConflicts(t) \/ RecordTip(t)
    BY <2>4 DEF TakeLock, MergeConflicts, RecordTip, judged
  <2>5. CASE Agent(t)
    BY <2>5 DEF Agent, AgentEdits, AgentCommits, AgentMovesBranch, judged
  <2> QED BY <1>5, <2>1, <2>2, <2>3, <2>4, <2>5 DEF Harness
<1> QED BY <1>1, <1>2, <1>3, <1>4, <1>5 DEF Next

\* While no agent moves the branch, the steps of the merge under the lock and the
\* check that runs beside them implement the gated merge.
THEOREM MergesAreGated ==
  ASSUME Moves = "never"
  PROVE  Spec => MergeIsGated
<1>1. ASSUME GateInv, [Next]_vars
      PROVE  [Gate!Next]_<<approved, landed, {}>>
  BY <1>1, StepIsGated DEF GateInv, TypeInv
<1> QED BY <1>1, StartIsGated, AlwaysGated, PTL DEF Spec, MergeIsGated, Gate!Spec

----------------------------------------------------------------------------
(* One running agent, and nobody judging beside it.                        *)

OneAgent == MaxAgents <= 1 /\ ~Outside /\ Moves # "any"

Idle   == {"open", "closed", "landed"}
Under  == {"lock", "merge", "record"}
HasTip == marker # NoTip

\* One ticket is in hand at a time, and no landing runs beside it.
OneHandled ==
  /\ IsFiniteSet(held)
  /\ \A t, u \in held : t = u
  /\ \A t \in held : at[t] \notin Idle
  /\ \A t \in Tickets : at[t] \notin Idle \cup Under => t \in held
  /\ held # {} => Landing \subseteq held

\* The recorded tip is behind the branch, and is the tip the check compares with.
TipBehind ==
  /\ HasTip => Ancestor(marker, master)
  /\ \A t \in held :
       /\ at[t] # "prepare" => HasTip
       /\ at[t] \in {"compare", "restore"} => seen[t] = marker
       /\ at[t] \in {"judge", "lock", "merge"} => master = marker

TipInv == TypeInv /\ OneHandled /\ TipBehind

LEMMA TipInit == Init => TipInv
<1> SUFFICES ASSUME Init PROVE TipInv
  OBVIOUS
<1>1. TypeInv
  BY InitType DEF Init, TypeInv, SeenRecorded
<1>2. IsFiniteSet(held)
  BY FS_EmptySet DEF Init
<1>3. Ancestor(BaseCommit, BaseCommit)
  BY DEF Ancestor
<1>4. HasTip => Ancestor(marker, master)
  BY <1>3 DEF Init, HasTip
<1> QED
  BY <1>1, <1>2, <1>4 DEF Init, TipInv, OneHandled, TipBehind, Idle, Under

\* Steps that keep the ticket in the hands it is in, or take it under the lock.
LEMMA HandledStep ==
  ASSUME OneHandled, TypeOK, NEW t \in Tickets, held' = held,
         \A u \in Tickets \ {t} : at'[u] = at[u],
         at'[t] \notin Idle,
         at'[t] \in Under => at[t] \in Under \/ t \in held \/ held = {},
         at'[t] \notin Under => t \in held
  PROVE  OneHandled'
BY DEF OneHandled, Landing, TypeOK, Idle, Under

LEMMA LeaveStep ==
  ASSUME OneHandled, TypeOK, NEW t \in Tickets, held' = held \ {t},
         \A u \in Tickets \ {t} : at'[u] = at[u],
         at'[t] \in Idle
  PROVE  OneHandled'
<1>1. IsFiniteSet(held')
  BY FS_RemoveElement DEF OneHandled
<1> QED BY <1>1 DEF OneHandled, Landing, TypeOK, Idle, Under

\* While a ticket is in hand every other one rests.
LEMMA OthersRest ==
  ASSUME OneHandled, NEW t \in held
  PROVE  /\ \A u \in Tickets \ {t} : at[u] \in Idle /\ u \notin held
         /\ held = {t}
BY DEF OneHandled, Landing, Idle, Under

\* A ticket under the lock is the one in hand, or nothing is.
LEMMA UnderAlone ==
  ASSUME OneHandled, NEW t \in Tickets, at[t] \in Under
  PROVE  held \subseteq {t}
BY DEF OneHandled, Landing, Under

LEMMA PickUpHandled ==
  ASSUME OneAgent, OneHandled, TypeOK, NEW t \in Tickets, PickUp(t)
  PROVE  OneHandled' /\ held = {} /\ held' = {t}
<1>1. Cardinality(held) \in Nat /\ Cardinality(held) < 1
  BY FS_CardinalityType DEF OneAgent, OneHandled, PickUp
<1>2. held = {}
  BY <1>1, FS_EmptySet DEF OneHandled
<1>3. held' = {t}
  BY <1>2 DEF PickUp
<1>4. \A u \in Tickets : at'[u] = IF u = t THEN "prepare" ELSE at[u]
  BY DEF PickUp, Go, TypeOK
<1>5. Landing = {}
  BY <1>2 DEF OneAgent, PickUp
<1>6. IsFiniteSet(held')
  BY <1>3, FS_Singleton
<1> QED BY <1>2, <1>3, <1>4, <1>5, <1>6 DEF OneHandled, Landing, Idle, Under

\* What the check of the tip leads to.
LEMMA AfterCheckSteps ==
  ASSUME TypeOK, NEW t \in Tickets, AfterCheck(t)
  PROVE  /\ \A u \in Tickets \ {t} : at'[u] = at[u]
         /\ \/ at'[t] \in {"run", "judge"} /\ held' = held
            \/ at'[t] = "open" /\ held' = held \ {t}
<1>1. outcome[t] \in {"none", "closed", "left"}
  BY DEF TypeOK
<1> QED BY <1>1 DEF AfterCheck, Leave, Go, TypeOK

\* No more than one ticket is in hand, whatever is killed.
LEMMA OneHandledKept ==
  ASSUME OneAgent, TypeInv, OneHandled, [Next]_vars
  PROVE  OneHandled'
<1>0. TypeOK
  BY DEF TypeInv
<1>1. CASE UNCHANGED vars
  BY <1>1 DEF vars, OneHandled, Landing
<1>2. CASE Crash
  <2>1. held' = {} /\ IsFiniteSet(held')
    BY <1>2, FS_EmptySet DEF Crash
  <2>2. \A u \in Tickets : at'[u] \in Idle
    BY <1>2 DEF Crash, Found, Idle
  <2> QED BY <2>1, <2>2 DEF OneHandled
<1>3. ASSUME NEW t \in Tickets, Agent(t)
      PROVE  OneHandled'
  BY <1>3 DEF Agent, AgentEdits, AgentCommits, AgentMovesBranch, OneHandled, Landing
<1>4. ASSUME NEW t \in Tickets, Harness(t)
      PROVE  OneHandled'
  <2>1. CASE PickUp(t)
    BY <1>0, <2>1, PickUpHandled
  <2>2. CASE PrepareTree(t) \/ DiscardStrayEdits(t) \/ ReadMarker(t)
    <3>1. at[t] \notin Idle \cup Under /\ at'[t] \notin Idle \cup Under /\ held' = held
      BY <1>0, <2>2 DEF PrepareTree, DiscardStrayEdits, ReadMarker, Go, TypeOK, Idle, Under
    <3>2. \A u \in Tickets \ {t} : at'[u] = at[u]
      BY <1>0, <2>2 DEF PrepareTree, DiscardStrayEdits, ReadMarker, Go, TypeOK
    <3> QED BY <1>0, <3>1, <3>2, HandledStep DEF OneHandled
  <2>3. CASE RunEnds(t) \/ AbsorbStrayEdits(t) \/ CommitAll(t) \/ Close(t)
    <3>1. at[t] \notin Idle \cup Under /\ at'[t] \notin Idle \cup Under /\ held' = held
      BY <1>0, <2>3 DEF RunEnds, AbsorbStrayEdits, CommitAll, Close, Go, TypeOK, Idle, Under
    <3>2. \A u \in Tickets \ {t} : at'[u] = at[u]
      BY <1>0, <2>3 DEF RunEnds, AbsorbStrayEdits, CommitAll, Close, Go, TypeOK
    <3> QED BY <1>0, <3>1, <3>2, HandledStep DEF OneHandled
  <2>4. CASE CompareTip(t) \/ RestoreTip(t)
    <3>1. t \in held
      BY <2>4 DEF OneHandled, CompareTip, RestoreTip, Idle, Under
    <3>2. CASE CompareTip(t) /\ Moved(t)
      <4>1. at'[t] = "restore" /\ held' = held /\ \A u \in Tickets \ {t} : at'[u] = at[u]
        BY <1>0, <3>2 DEF CompareTip, Go, TypeOK
      <4> QED BY <1>0, <3>1, <4>1, HandledStep DEF Idle, Under
    <3>3. CASE AfterCheck(t)
      <4>1. CASE held' = held /\ at'[t] \in {"run", "judge"}
        BY <1>0, <3>1, <3>3, <4>1, AfterCheckSteps, HandledStep DEF Idle, Under
      <4>2. CASE held' = held \ {t} /\ at'[t] = "open"
        BY <1>0, <3>3, <4>2, AfterCheckSteps, LeaveStep DEF Idle
      <4> QED BY <1>0, <3>3, <4>1, <4>2, AfterCheckSteps
    <3> QED BY <2>4, <3>2, <3>3 DEF CompareTip, RestoreTip
  <2>5. CASE Pass(t) \/ TakeLock(t) \/ Merge(t)
    <3>1. at'[t] \in Under /\ held' = held /\ \A u \in Tickets \ {t} : at'[u] = at[u]
      BY <1>0, <2>5 DEF Pass, TakeLock, Merge, Go, TypeOK, Under
    <3>2. at[t] \in Under \/ t \in held \/ held = {}
      BY <2>5 DEF OneAgent, OneHandled, Pass, MayJudge, TakeLock, Merge, Idle, Under
    <3> QED BY <1>0, <3>1, <3>2, HandledStep DEF Idle, Under
  <2>6. CASE Fail(t) \/ JudgeRaises(t) \/ MergeConflicts(t) \/ RecordTip(t)
    <3>1. at'[t] \in Idle /\ held' = held \ {t} /\ \A u \in Tickets \ {t} : at'[u] = at[u]
      BY <1>0, <2>6 DEF Fail, JudgeRaises, MergeConflicts, RecordTip, Rework, Leave, Go, TypeOK,
         Idle
    <3> QED BY <1>0, <3>1, LeaveStep
  <2> QED BY <1>4, <2>1, <2>2, <2>3, <2>4, <2>5, <2>6 DEF Harness
<1> QED BY <1>1, <1>2, <1>3, <1>4 DEF Next

\* Steps that move neither the branch nor the recorded tip, and bring no ticket
\* in hand nearer to the verdict.
LEMMA TipQuiet ==
  ASSUME TipInv, UNCHANGED <<master, seen>>,
         marker' = marker \/ (marker' = NoTip /\ held' = {}),
         \A u \in held' : at'[u] # "prepare" => u \in held /\ at[u] # "prepare",
         \A u \in held' : at'[u] \in {"compare", "restore"} => at[u] \in {"compare", "restore"},
         \A u \in held' : at'[u] \in {"judge", "lock", "merge"}
                            => at[u] \in {"judge", "lock", "merge"},
         held' \subseteq Tickets
  PROVE  TipBehind'
BY DEF TipInv, TipBehind, HasTip

LEMMA PickupTip ==
  ASSUME OneAgent, TipInv, NEW t \in Tickets,
         \/ PickUp(t) \/ PrepareTree(t) \/ DiscardStrayEdits(t)
         \/ ReadMarker(t) \/ CompareTip(t) \/ RestoreTip(t)
  PROVE  TipBehind'
<1>0. TypeOK /\ OneHandled /\ held \subseteq Tickets
  BY DEF TipInv, TypeInv, TypeOK
<1>1. CASE PickUp(t)
  <2>1. held' = {t} /\ held = {}
    BY <1>0, <1>1, PickUpHandled
  <2>2. \A u \in Tickets : at'[u] = IF u = t THEN "prepare" ELSE at[u]
    BY <1>0, <1>1 DEF PickUp, Go, TypeOK
  <2> QED BY <1>1, <2>1, <2>2, TipQuiet DEF PickUp, repo, work
<1>2. ASSUME ~PickUp(t)
      PROVE  /\ t \in held /\ held = {t}
             /\ \A u \in Tickets \ {t} : at[u] \in Idle
  <2>1. t \in held
    BY <1>0, <1>2 DEF OneHandled, PrepareTree, DiscardStrayEdits, ReadMarker, CompareTip,
       RestoreTip, Idle, Under
  <2> QED BY <1>0, <2>1, OthersRest
<1>3. CASE PrepareTree(t)
  <2>1. held' = held /\ UNCHANGED <<master, seen>> /\ marker' # NoTip
        /\ marker' \in {marker, master} /\ (HasTip => marker' = marker)
    BY <1>0, <1>3, TipAssumption DEF PrepareTree, SeedMarker, TypeOK, HasTip
  <2>2. \A u \in Tickets : at'[u] = IF u = t THEN "discard" ELSE at[u]
    BY <1>0, <1>3 DEF PrepareTree, Go, TypeOK
  <2> QED
    BY <1>0, <1>2, <1>3, <2>1, <2>2 DEF TipInv, TipBehind, HasTip, Ancestor, PrepareTree, PickUp
<1>4. CASE DiscardStrayEdits(t)
  <2>1. \A u \in Tickets : at'[u] = IF u = t THEN "check" ELSE at[u]
    BY <1>0, <1>4 DEF DiscardStrayEdits, Go, TypeOK
  <2> QED BY <1>0, <1>4, <2>1, TipQuiet DEF DiscardStrayEdits, work
<1>5. CASE ReadMarker(t)
  <2>1. \A u \in Tickets : at'[u] = IF u = t THEN "compare" ELSE at[u]
    BY <1>0, <1>5 DEF ReadMarker, Go, TypeOK
  <2>2. seen'[t] = marker
    BY <1>0, <1>5 DEF ReadMarker, TypeOK
  <2>3. UNCHANGED <<master, marker, branch, held>>
    BY <1>5 DEF ReadMarker, repo, work
  <2> QED
    BY <1>0, <1>2, <1>5, <2>1, <2>2, <2>3
       DEF TipInv, TipBehind, HasTip, ReadMarker, PickUp, Ancestor
<1>6. CASE CompareTip(t)
  <2>0. /\ t \in held /\ held = {t} /\ at[t] = "compare"
    BY <1>2, <1>6 DEF CompareTip, PickUp
  <2>1. seen[t] = marker /\ HasTip /\ Ancestor(marker, master)
    BY <2>0 DEF TipInv, TipBehind
  <2>2. UNCHANGED <<master, marker, branch, seen>>
    BY <1>6 DEF CompareTip, repo, work
  <2>3. CASE Moved(t)
    <3>1. \A u \in Tickets : at'[u] = IF u = t THEN "restore" ELSE at[u]
      BY <1>0, <1>6, <2>3 DEF CompareTip, Go, TypeOK
    <3> QED BY <1>0, <1>6, <2>0, <2>2, <2>3, <3>1, TipQuiet DEF CompareTip
  <2>4. CASE ~Moved(t)
    <3>1. master = marker
      BY <2>1, <2>4 DEF Moved, HasTip
    <3>2. /\ \A u \in Tickets \ {t} : at'[u] = at[u]
          /\ at'[t] \in {"run", "judge", "open"}
          /\ held' \subseteq held
      BY <1>0, <1>6, <2>4, AfterCheckSteps DEF CompareTip
    <3> QED
      BY <2>0, <2>1, <2>2, <3>1, <3>2 DEF TipBehind, HasTip
  <2> QED BY <2>3, <2>4
<1>7. CASE RestoreTip(t)
  <2>0. /\ t \in held /\ held = {t} /\ at[t] = "restore"
        /\ \A u \in Tickets \ {t} : at[u] \in Idle
    BY <1>2, <1>7 DEF RestoreTip, PickUp
  <2>1. seen[t] = marker /\ HasTip
    BY <2>0 DEF TipInv, TipBehind
  <2>2. master' = marker /\ UNCHANGED <<marker, branch, seen>>
    BY <1>7, <2>1 DEF RestoreTip, work
  <2>3. /\ \A u \in Tickets \ {t} : at'[u] = at[u]
        /\ at'[t] \in {"run", "judge", "open"}
        /\ held' \subseteq held
    BY <1>0, <1>7, AfterCheckSteps DEF RestoreTip
  <2> QED
    BY <2>0, <2>1, <2>2, <2>3 DEF TipBehind, HasTip, Ancestor
<1> QED BY <1>1, <1>3, <1>4, <1>5, <1>6, <1>7

LEMMA RunTip ==
  ASSUME OneAgent, TipInv, NEW t \in Tickets,
         \/ AgentEdits(t) \/ AgentCommits(t) \/ AgentMovesBranch(t)
         \/ RunEnds(t) \/ AbsorbStrayEdits(t) \/ CommitAll(t) \/ Close(t)
  PROVE  TipBehind'
<1>0. TypeOK /\ OneHandled /\ held \subseteq Tickets
  BY DEF TipInv, TypeInv, TypeOK
<1>1. at[t] \in {"run", "absorb", "commit", "close"} /\ t \in held
  BY <1>0 DEF OneHandled, AgentEdits, AgentCommits, AgentMovesBranch, RunEnds,
     AbsorbStrayEdits, CommitAll, Close, Idle, Under
<1>2. CASE AgentMovesBranch(t)
  <2>1. Ancestor(master, master')
    BY <1>2 DEF OneAgent, AgentMovesBranch
  <2>2. at[t] = "run" /\ held = {t}
    BY <1>0, <1>1, <1>2, OthersRest DEF AgentMovesBranch
  <2>3. UNCHANGED <<marker, branch, at, held, seen>>
    BY <1>2 DEF AgentMovesBranch, work
  <2> QED
    BY <2>1, <2>2, <2>3 DEF TipInv, TipBehind, HasTip, Ancestor
<1>3. CASE ~AgentMovesBranch(t)
  <2>1. UNCHANGED <<master, marker, seen, held>>
    BY <1>3 DEF AgentEdits, AgentCommits, RunEnds, AbsorbStrayEdits, CommitAll, Close, repo
  <2>2. \A u \in Tickets \ {t} : at'[u] = at[u] /\ branch'[u] = branch[u]
    BY <1>0, <1>3 DEF AgentEdits, AgentCommits, RunEnds, AbsorbStrayEdits, CommitAll, Close,
       CommitTree, Go, TypeOK, work, repo
  <2>3. at'[t] \in {"run", "check", "absorb", "commit", "close"}
    BY <1>0, <1>1, <1>3 DEF AgentEdits, AgentCommits, RunEnds, AbsorbStrayEdits, CommitAll,
       Close, Go, TypeOK
  <2> QED BY <1>0, <1>1, <2>1, <2>2, <2>3, TipQuiet
<1> QED BY <1>2, <1>3

LEMMA LandingTip ==
  ASSUME OneAgent, TipInv, NEW t \in Tickets,
         \/ Pass(t) \/ Fail(t) \/ JudgeRaises(t)
         \/ TakeLock(t) \/ Merge(t) \/ MergeConflicts(t) \/ RecordTip(t)
  PROVE  TipBehind'
<1>0. TypeOK /\ OneHandled /\ held \subseteq Tickets
  BY DEF TipInv, TypeInv, TypeOK
<1>1. CASE Pass(t) \/ TakeLock(t)
  <2>1. UNCHANGED <<master, marker, seen, held, branch>>
    BY <1>1 DEF Pass, TakeLock, repo, work
  <2>2. \A u \in Tickets \ {t} : at'[u] = at[u]
    BY <1>0, <1>1 DEF Pass, TakeLock, Go, TypeOK
  <2>3. at'[t] \in {"lock", "merge"}
    BY <1>0, <1>1 DEF Pass, TakeLock, Go, TypeOK
  <2>4. t \in held => at[t] \in {"judge", "lock", "merge"}
    BY <1>0, <1>1 DEF Pass, MayJudge, TakeLock, OneHandled, Idle
  <2> QED BY <1>0, <2>1, <2>2, <2>3, <2>4, TipQuiet
<1>2. CASE Fail(t) \/ JudgeRaises(t) \/ MergeConflicts(t)
  <2>1. UNCHANGED <<master, marker, seen, branch>> /\ held' \subseteq held
    BY <1>2 DEF Fail, JudgeRaises, MergeConflicts, Rework, Leave, repo, work
  <2>2. \A u \in Tickets : at'[u] = at[u] \/ (at'[u] \in {"open", "closed"} /\ u \notin held')
    BY <1>0, <1>2 DEF Fail, JudgeRaises, MergeConflicts, Rework, Leave, Go, TypeOK
  <2> QED BY <1>0, <2>1, <2>2, TipQuiet
<1>3. CASE Merge(t)
  <2>1. held \subseteq {t} /\ held' = held
    BY <1>0, <1>3, UnderAlone DEF Merge, Under
  <2>2. \A u \in Tickets : at'[u] = IF u = t THEN "record" ELSE at[u]
    BY <1>0, <1>3 DEF Merge, Go, TypeOK
  <2>3. UNCHANGED <<marker, seen, branch>> /\ master' = Merged(t)
    BY <1>3 DEF Merge, work
  <2>4. Ancestor(master, Merged(t)) /\ Ancestor(branch[t], Merged(t))
    BY DEF Merged, Ancestor
  <2> QED
    BY <1>3, <2>1, <2>2, <2>3, <2>4 DEF TipInv, TipBehind, HasTip, Ancestor, Merge
<1>4. CASE RecordTip(t)
  <2>1. held' = {}
    BY <1>0, <1>4, UnderAlone DEF RecordTip, Leave, Under
  <2>3. UNCHANGED <<master, branch>> /\ marker' = master /\ at[t] = "record"
    BY <1>4 DEF RecordTip, work
  <2> QED
    BY <2>1, <2>3 DEF TipBehind, Ancestor
<1> QED BY <1>1, <1>2, <1>3, <1>4

LEMMA TipInvKept == OneAgent /\ TipInv /\ [Next]_vars => TipInv'
<1> SUFFICES ASSUME OneAgent, TipInv, [Next]_vars PROVE TipInv'
  OBVIOUS
<1>1. TypeInv' /\ OneHandled'
  BY TypeInvKept, OneHandledKept DEF TipInv
<1>2. TipBehind'
  <2>1. CASE UNCHANGED vars
    BY <2>1 DEF vars, TipInv, TipBehind, HasTip
  <2>2. CASE Crash
    <3>1. \A u \in Tickets : at'[u] \in {"record", "landed"} => at'[u] = at[u]
      BY <2>2 DEF Crash, Found
    <3>2. UNCHANGED <<master, seen, branch>> /\ held' = {} /\ marker' \in {marker, NoTip}
      BY <2>2 DEF Crash, work
    <3> QED BY <3>1, <3>2, TipQuiet
  <2>3. ASSUME NEW t \in Tickets, Harness(t) \/ Agent(t)
        PROVE  TipBehind'
    BY <2>3, PickupTip, RunTip, LandingTip DEF Harness, Agent
  <2> QED BY <2>1, <2>2, <2>3 DEF Next
<1> QED BY <1>1, <1>2 DEF TipInv

LEMMA AlwaysTip ==
  ASSUME OneAgent
  PROVE  Spec => []TipInv
<1>1. TipInv /\ [Next]_vars => TipInv'
  BY TipInvKept
<1> QED BY <1>1, TipInit, PTL DEF Spec

\* With one running agent and nobody judging beside it, a branch the agent moved
\* ahead is back at the recorded tip before its ticket is judged in its slot, for
\* any number of moves and crashes.
THEOREM MovesAreUndone ==
  ASSUME OneAgent
  PROVE  Spec => []MoveUndone
<1>1. TipInv => MoveUndone
  BY DEF TipInv, TypeInv, TypeOK, TipBehind, MoveUndone
<1> QED BY <1>1, AlwaysTip, PTL

----------------------------------------------------------------------------
(* One running agent and one trouble: a move of the branch or a crash.     *)

OneTrouble == OneAgent /\ (Moves = "never" \/ MaxTroubles <= 1)

\* A commit that holds landed work alone, and one that adds a ticket's own to it.
Clean(c) ==
  /\ Accepted(c, landed)
  /\ \A e \in c.files : e.kind # "staged" => landed[e.by] # {}

Mine(t, c) ==
  /\ \A u \in Tickets \ {t} : Works(u, c) \subseteq landed[u]
  /\ \A e \in c.files : e.by # t /\ e.kind # "staged" => landed[e.by] # {}

\* From the run to the check that puts a moved branch back.
Away == {"run", "absorb", "commit", "close", "check", "compare", "restore"}

MovedBy(t) == at[t] \in Away /\ troubles = MaxTroubles /\ Mine(t, master)

BranchesClean ==
  /\ HasTip => Clean(marker)
  /\ Clean(master) \/ \E t \in held : MovedBy(t)
  /\ \A t \in Tickets : Mine(t, branch[t])
  /\ \A t \in Tickets : \A e \in branch[t].files :
       e.by = t /\ e.kind # "staged" => landed[t] # {} \/ Works(t, branch[t]) # {}

TreesClean ==
  /\ \A t \in Tickets : \A e \in tree[t] : e.by # t /\ e.kind # "staged" => landed[e.by] # {}
  /\ \A t \in held : at[t] \notin {"prepare", "discard"} =>
       \A e \in strays : e.by = t \/ e.kind = "staged"

VerdictsCover ==
  /\ \A t \in Tickets : landed[t] \subseteq approved[t]
  /\ \A t \in Tickets :
       at[t] \in {"lock", "merge"} => Works(t, branch[t]) \subseteq approved[t]

CleanInv == TipInv /\ BranchesClean /\ TreesClean /\ VerdictsCover

LEMMA CleanInit == Init => CleanInv
<1> SUFFICES ASSUME Init PROVE CleanInv
  OBVIOUS
<1>1. \A u \in Tickets : Works(u, BaseCommit) = {}
  BY DEF Works, BaseCommit
<1>2. BaseCommit.files = {}
  BY DEF BaseCommit
<1>3. Clean(BaseCommit) /\ \A t \in Tickets : Mine(t, BaseCommit)
  BY <1>1, <1>2 DEF Clean, Mine, Accepted
<1>4. BranchesClean
  BY <1>2, <1>3 DEF Init, BranchesClean, HasTip
<1> QED BY <1>1, <1>4, TipInit DEF Init, CleanInv, TreesClean, VerdictsCover

\* A branch is only moved away under the hand of the ticket whose agent moved it.
LEMMA MasterClean ==
  ASSUME CleanInv, NEW t \in Tickets, at[t] \notin Away,
         at[t] \in Idle => held = {}
  PROVE  Clean(master)
<1>1. CASE t \in held
  BY <1>1, OthersRest DEF CleanInv, TipInv, BranchesClean, MovedBy
<1>2. CASE t \notin held
  <2>1. at[t] \in Idle \cup Under
    BY <1>2 DEF CleanInv, TipInv, OneHandled
  <2>2. held \subseteq {t} \/ held = {}
    BY <2>1, UnderAlone DEF CleanInv, TipInv
  <2> QED BY <1>2, <2>2 DEF CleanInv, BranchesClean
<1> QED BY <1>1, <1>2

\* Steps that leave every commit, approval and landing where it is, and a moved
\* branch in the hand that moved it.
LEMMA CleanQuiet ==
  ASSUME CleanInv, TipInv', UNCHANGED <<master, branch, judged>>,
         marker' \in {marker, NoTip},
         Clean(master) \/ \E t \in held' : at'[t] \in Away /\ troubles' = troubles /\ MovedBy(t),
         \A t \in Tickets : at'[t] \in {"lock", "merge"} => at[t] \in {"lock", "merge"},
         TreesClean'
  PROVE  CleanInv'
BY DEF CleanInv, BranchesClean, VerdictsCover, MovedBy, Clean, Mine, Accepted, HasTip, judged

\* Steps that bring nothing new into a worktree or the project directory.
LEMMA TreesQuiet ==
  ASSUME TreesClean, TypeOK, TypeOK', strays' \subseteq strays,
         \A t \in Tickets : tree'[t] \subseteq tree[t],
         \A t \in Tickets : landed[t] \subseteq landed'[t],
         \A t \in held' : at'[t] \notin {"prepare", "discard"}
                        => strays' = Staged \/ (t \in held /\ at[t] \notin {"prepare", "discard"})
  PROVE  TreesClean'
<1>1. ASSUME NEW t \in Tickets, NEW e \in tree'[t], e.by # t, e.kind # "staged"
      PROVE  landed'[e.by] # {}
  <2>1. e \in tree[t] /\ e \in Edits
    BY <1>1 DEF TypeOK
  <2>2. e.by \in Tickets
    BY <2>1 DEF Edits
  <2> QED BY <1>1, <2>1, <2>2 DEF TreesClean
<1>2. \A t \in held' : at'[t] \notin {"prepare", "discard"} =>
        \A e \in strays' : e.by = t \/ e.kind = "staged"
  BY DEF TreesClean, Staged
<1> QED BY <1>1, <1>2 DEF TreesClean

LEMMA PickupClean ==
  ASSUME OneTrouble, CleanInv, TipInv', NEW t \in Tickets,
         \/ PickUp(t) \/ PrepareTree(t) \/ DiscardStrayEdits(t)
         \/ ReadMarker(t) \/ CompareTip(t) \/ RestoreTip(t)
  PROVE  CleanInv'
<1>0. /\ TypeOK /\ TypeOK' /\ OneHandled /\ TipInv /\ TreesClean
      /\ OneAgent
  BY DEF CleanInv, TipInv, TypeInv, OneTrouble
<1>1. CASE PickUp(t)
  <2>1. held = {} /\ held' = {t}
    BY <1>0, <1>1, PickUpHandled
  <2>2. \A u \in Tickets : at'[u] = IF u = t THEN "prepare" ELSE at[u]
    BY <1>0, <1>1 DEF PickUp, Go, TypeOK
  <2>3. Clean(master)
    BY <2>1 DEF CleanInv, BranchesClean
  <2>4. UNCHANGED <<master, marker, strays, tree, branch, landed, judged>>
    BY <1>1 DEF PickUp, repo, work, judged
  <2>5. TreesClean'
    BY <1>0, <2>1, <2>2, <2>4, TreesQuiet
  <2> QED BY <2>2, <2>3, <2>4, <2>5, CleanQuiet
<1>2. ASSUME ~PickUp(t)
      PROVE  t \in held /\ held = {t}
  <2>1. t \in held
    BY <1>0, <1>2 DEF OneHandled, PrepareTree, DiscardStrayEdits, ReadMarker, CompareTip,
       RestoreTip, Idle, Under
  <2> QED BY <1>0, <2>1, OthersRest
<1>3. CASE PrepareTree(t)
  <2>1. at[t] = "prepare" /\ \A u \in Tickets : at'[u] = IF u = t THEN "discard" ELSE at[u]
    BY <1>0, <1>3 DEF PrepareTree, Go, TypeOK
  <2>2. Clean(master)
    BY <2>1, MasterClean DEF Away, Idle
  <2>3. UNCHANGED <<master, strays, held, approved, landed>> /\ marker' \in {marker, master}
    BY <1>3 DEF PrepareTree, SeedMarker, judged
  <2>4. /\ \A u \in Tickets : branch'[u] = branch[u] \/ branch'[u] = master
        /\ \A u \in Tickets : tree'[u] = tree[u] \/ tree'[u] = master.files
        /\ \A u \in Tickets \ {t} : branch'[u] = branch[u]
    BY <1>0, <1>3 DEF PrepareTree, ResetForAttempt, TypeOK
  <2>5. BranchesClean'
    BY <2>2, <2>3, <2>4 DEF CleanInv, BranchesClean, Clean, Mine, Accepted, HasTip
  <2>6. \A u \in Tickets : \A e \in tree'[u] :
          e.by # u /\ e.kind # "staged" => landed'[e.by] # {}
    BY <2>2, <2>3, <2>4 DEF CleanInv, TreesClean, Clean
  <2>7. \A u \in held' : at'[u] \in {"prepare", "discard"}
    BY <1>0, <1>2, <1>3, <2>1, <2>3 DEF PickUp
  <2>8. VerdictsCover'
    BY <2>1, <2>3, <2>4 DEF CleanInv, VerdictsCover
  <2> QED BY <2>5, <2>6, <2>7, <2>8 DEF CleanInv, TreesClean
<1>4. CASE DiscardStrayEdits(t)
  <2>1. at[t] = "discard" /\ \A u \in Tickets : at'[u] = IF u = t THEN "check" ELSE at[u]
    BY <1>0, <1>4 DEF DiscardStrayEdits, Go, TypeOK
  <2>2. Clean(master)
    BY <2>1, MasterClean DEF Away, Idle
  <2>3. UNCHANGED <<master, marker, tree, branch, landed, judged>> /\ strays' = Staged
    BY <1>4 DEF DiscardStrayEdits, work, judged
  <2>4. TreesClean'
    BY <1>0, <2>3, TreesQuiet DEF Staged
  <2> QED BY <2>1, <2>2, <2>3, <2>4, CleanQuiet
<1>5. CASE ReadMarker(t)
  <2>1. at[t] = "check" /\ \A u \in Tickets : at'[u] = IF u = t THEN "compare" ELSE at[u]
    BY <1>0, <1>5 DEF ReadMarker, Go, TypeOK
  <2>2. UNCHANGED <<master, marker, tree, strays, branch, landed, judged, held, troubles>>
    BY <1>5 DEF ReadMarker, repo, work, judged
  <2>3. TreesClean'
    BY <1>0, <2>1, <2>2, TreesQuiet DEF TypeOK
  <2>4. Clean(master) \/ \E u \in held' : at'[u] \in Away /\ troubles' = troubles /\ MovedBy(u)
    BY <1>0, <2>1, <2>2 DEF CleanInv, BranchesClean, MovedBy, Away, TypeOK
  <2> QED BY <2>1, <2>2, <2>3, <2>4, CleanQuiet
<1>6. CASE CompareTip(t)
  <2>0. at[t] = "compare" /\ t \in held
    BY <1>2, <1>6 DEF CompareTip, PickUp
  <2>1. UNCHANGED <<master, marker, tree, strays, branch, landed, judged, troubles>>
    BY <1>6 DEF CompareTip, repo, work, judged
  <2>2. CASE Moved(t)
    <3>1. held' = held /\ \A u \in Tickets : at'[u] = IF u = t THEN "restore" ELSE at[u]
      BY <1>0, <1>6, <2>2 DEF CompareTip, Go, TypeOK
    <3>2. TreesClean'
      BY <1>0, <2>0, <2>1, <3>1, TreesQuiet DEF TypeOK
    <3>3. Clean(master) \/ \E u \in held' : at'[u] \in Away /\ troubles' = troubles /\ MovedBy(u)
      BY <1>0, <2>1, <3>1 DEF CleanInv, BranchesClean, MovedBy, Away, TypeOK
    <3> QED BY <2>1, <3>1, <3>2, <3>3, CleanQuiet
  <2>3. CASE ~Moved(t)
    <3>1. seen[t] = marker /\ HasTip /\ Ancestor(marker, master)
      BY <1>0, <2>0 DEF TipInv, TipBehind
    <3>2. master = marker
      BY <2>3, <3>1 DEF Moved, HasTip
    <3>3. Clean(master)
      BY <3>1, <3>2 DEF CleanInv, BranchesClean
    <3>4. /\ \A u \in Tickets \ {t} : at'[u] = at[u]
          /\ at'[t] \in {"run", "judge", "open"}
          /\ held' \subseteq held
      BY <1>0, <1>6, <2>3, AfterCheckSteps DEF CompareTip
    <3>5. TreesClean'
      BY <1>0, <1>2, <1>6, <2>0, <2>1, <3>4, TreesQuiet DEF TypeOK
    <3> QED BY <2>1, <3>3, <3>4, <3>5, CleanQuiet
  <2> QED BY <2>2, <2>3
<1>7. CASE RestoreTip(t)
  <2>0. at[t] = "restore" /\ t \in held
    BY <1>2, <1>7 DEF RestoreTip, PickUp
  <2>1. seen[t] = marker /\ HasTip
    BY <1>0, <2>0 DEF TipInv, TipBehind
  <2>2. /\ master' = marker /\ strays' \subseteq strays
        /\ UNCHANGED <<marker, tree, branch, landed, approved>>
    BY <1>7, <2>1 DEF RestoreTip, work, judged
  <2>3. /\ \A u \in Tickets \ {t} : at'[u] = at[u]
        /\ at'[t] \in {"run", "judge", "open"}
        /\ held' \subseteq held
    BY <1>0, <1>7, AfterCheckSteps DEF RestoreTip
  <2>4. TreesClean'
    BY <1>0, <2>0, <2>2, <2>3, TreesQuiet DEF TypeOK
  <2>5. BranchesClean'
    BY <2>1, <2>2 DEF CleanInv, BranchesClean, Clean, Mine, Accepted, HasTip
  <2>6. VerdictsCover'
    BY <2>2, <2>3 DEF CleanInv, VerdictsCover
  <2> QED BY <2>4, <2>5, <2>6 DEF CleanInv
<1> QED BY <1>1, <1>3, <1>4, <1>5, <1>6, <1>7

\* A ticket's new commit adds to that ticket's own work, and to no other's.
LEMMA CommitTreeClean ==
  ASSUME CleanInv, NEW t \in Tickets, CommitTree(t, tree[t])
  PROVE  /\ \A u \in Tickets \ {t} : branch'[u] = branch[u]
         /\ \A u \in Tickets \ {t} : Works(u, branch'[t]) \subseteq landed[u]
         /\ \A e \in branch'[t].files : e.by # t /\ e.kind # "staged" => landed[e.by] # {}
         /\ Works(t, branch'[t]) # {}
<1> DEFINE node == [by |-> t, n |-> made[t] + 1, merge |-> FALSE]
<1>1. TypeOK
  BY DEF CleanInv, TipInv, TypeInv
<1>2. branch'[t] = [hist |-> branch[t].hist \cup {node}, files |-> tree[t]]
  BY <1>1 DEF CommitTree, TypeOK
<1>3. \A u \in Tickets \ {t} : branch'[u] = branch[u]
  BY <1>1 DEF CommitTree, TypeOK
<1>4. \A u \in Tickets \ {t} : Works(u, branch'[t]) \subseteq Works(u, branch[t])
  BY <1>2 DEF Works
<1>5. node \in Works(t, branch'[t])
  BY <1>2 DEF Works
<1>6. \A u \in Tickets \ {t} : Works(u, branch'[t]) \subseteq landed[u]
  BY <1>4 DEF CleanInv, BranchesClean, Mine
<1>7. \A e \in branch'[t].files : e.by # t /\ e.kind # "staged" => landed[e.by] # {}
  BY <1>2 DEF CleanInv, TreesClean
<1> QED BY <1>3, <1>5, <1>6, <1>7

LEMMA RunClean ==
  ASSUME OneTrouble, CleanInv, TipInv', NEW t \in Tickets,
         \/ AgentEdits(t) \/ AgentCommits(t) \/ AgentMovesBranch(t)
         \/ RunEnds(t) \/ AbsorbStrayEdits(t) \/ CommitAll(t) \/ Close(t)
  PROVE  CleanInv'
<1>0. TypeOK /\ TypeOK' /\ OneHandled /\ TipInv /\ TreesClean
  BY DEF CleanInv, TipInv, TypeInv
<1>1. at[t] \in {"run", "absorb", "commit", "close"} /\ t \in held /\ held = {t}
  <2>1. at[t] \in {"run", "absorb", "commit", "close"} /\ t \in held
    BY <1>0 DEF OneHandled, AgentEdits, AgentCommits, AgentMovesBranch, RunEnds,
       AbsorbStrayEdits, CommitAll, Close, Idle, Under
  <2> QED BY <1>0, <2>1, OthersRest
<1>2. \A e \in strays : e.by = t \/ e.kind = "staged"
  BY <1>1 DEF CleanInv, TreesClean
<1>3. CASE AgentMovesBranch(t)
  <2>1. MaxTroubles <= 1 /\ troubles' = MaxTroubles
    BY <1>0, <1>3 DEF OneTrouble, AgentMovesBranch, TypeOK
  <2>2. /\ master' = branch[t] /\ at[t] = "run"
        /\ UNCHANGED <<marker, branch, tree, strays, at, held, approved, landed>>
    BY <1>3 DEF AgentMovesBranch, work, judged
  <2>3. Mine(t, master)'
    BY <2>2 DEF CleanInv, BranchesClean, Mine
  <2>4. MovedBy(t)'
    BY <2>1, <2>2, <2>3 DEF MovedBy, Away
  <2>5. \E u \in held' : MovedBy(u)'
    BY <1>1, <2>2, <2>4
  <2>6. BranchesClean'
    BY <2>2, <2>5 DEF CleanInv, BranchesClean, Clean, Mine, Accepted, HasTip
  <2> QED BY <2>2, <2>6 DEF CleanInv, TreesClean, VerdictsCover
<1>4. CASE ~AgentMovesBranch(t)
  <2>1. UNCHANGED <<master, marker, held, troubles, judged, approved, landed>>
    BY <1>4 DEF AgentEdits, AgentCommits, RunEnds, AbsorbStrayEdits, CommitAll, Close, repo,
       judged
  <2>2. at'[t] \in {"run", "check", "absorb", "commit", "close"}
    BY <1>0, <1>1, <1>4 DEF AgentEdits, AgentCommits, RunEnds, AbsorbStrayEdits, CommitAll,
       Close, Go, TypeOK
  <2>3. \A u \in Tickets \ {t} : at'[u] = at[u]
    BY <1>0, <1>4 DEF AgentEdits, AgentCommits, RunEnds, AbsorbStrayEdits, CommitAll, Close,
       Go, TypeOK
  <2>4. \/ Clean(master)
        \/ \E u \in held' : at'[u] \in Away /\ troubles' = troubles /\ MovedBy(u)
    BY <1>1, <2>1, <2>2 DEF CleanInv, BranchesClean, Away
  <2>6. CASE AgentEdits(t)
    <3>1. PICK k \in Kinds :
            LET e == [by |-> t, kind |-> k]
            IN  \/ k # "staged" /\ tree' = [tree EXCEPT ![t] = @ \cup {e}] /\ UNCHANGED strays
                \/ strays' = strays \cup {e} /\ UNCHANGED tree
      BY <2>6 DEF AgentEdits
    <3>2. \A u \in Tickets : \A e \in tree'[u] : e \in tree[u] \/ e.by = u
      BY <1>0, <3>1 DEF TypeOK
    <3>3. \A e \in strays' : e.by = t \/ e.kind = "staged"
      BY <1>2, <3>1
    <3>4. TreesClean'
      BY <1>1, <2>1, <3>2, <3>3 DEF CleanInv, TreesClean
    <3> QED BY <2>1, <2>2, <2>3, <2>4, <2>6, <3>4, CleanQuiet DEF AgentEdits
  <2>7. CASE AbsorbStrayEdits(t)
    <3>1. \A u \in Tickets : \A e \in tree'[u] : e \in tree[u] \/ e.by = u \/ e.kind = "staged"
      BY <1>0, <1>2, <2>7 DEF AbsorbStrayEdits, TypeOK
    <3>2. strays' = Staged /\ UNCHANGED branch
      BY <2>7 DEF AbsorbStrayEdits
    <3>3. TreesClean'
      BY <2>1, <3>1, <3>2 DEF CleanInv, TreesClean, Staged
    <3> QED BY <2>1, <2>2, <2>3, <2>4, <3>2, <3>3, CleanQuiet
  <2>8. CASE UNCHANGED <<branch, tree, strays>>
    <3>1. TreesClean'
      BY <1>0, <1>1, <2>1, <2>8, TreesQuiet
    <3> QED BY <2>1, <2>2, <2>3, <2>4, <2>8, <3>1, CleanQuiet
  <2>9. CASE UNCHANGED <<tree, strays>> /\ CommitTree(t, tree[t])
    <3>1. TreesClean'
      BY <1>0, <1>1, <2>1, <2>9, TreesQuiet
    <3>2. BranchesClean'
      <4>1. HasTip' => Clean(marker)'
        BY <2>1 DEF CleanInv, BranchesClean, HasTip, Clean, Accepted
      <4>2. Clean(master)' \/ \E u \in held' : MovedBy(u)'
        BY <2>1, <2>4 DEF Clean, Accepted, MovedBy, Mine
      <4>3. \A u \in Tickets : Mine(u, branch[u])'
        BY <2>1, <2>9, CommitTreeClean DEF CleanInv, BranchesClean, Mine
      <4>4. \A u \in Tickets : \A e \in branch'[u].files :
              e.by = u /\ e.kind # "staged" => landed'[u] # {} \/ Works(u, branch'[u]) # {}
        BY <2>1, <2>9, CommitTreeClean DEF CleanInv, BranchesClean
      <4> QED BY <4>1, <4>2, <4>3, <4>4 DEF BranchesClean
    <3>3. VerdictsCover'
      BY <2>1, <2>2, <2>3, <2>9, CommitTreeClean DEF CleanInv, VerdictsCover
    <3> QED BY <3>1, <3>2, <3>3 DEF CleanInv
  <2>10. CASE RunEnds(t) \/ Close(t)
    BY <2>8, <2>10 DEF RunEnds, Close, repo, work
  <2>11. CASE AgentCommits(t) \/ CommitAll(t)
    BY <2>8, <2>9, <2>11 DEF AgentCommits, CommitAll, repo
  <2> QED BY <1>4, <2>6, <2>7, <2>10, <2>11
<1> QED BY <1>3, <1>4

LEMMA LandingClean ==
  ASSUME OneTrouble, CleanInv, TipInv', NEW t \in Tickets,
         \/ Pass(t) \/ Fail(t) \/ JudgeRaises(t)
         \/ TakeLock(t) \/ Merge(t) \/ MergeConflicts(t) \/ RecordTip(t)
  PROVE  CleanInv'
<1>0. /\ TypeOK /\ TypeOK' /\ OneHandled /\ TipInv /\ TreesClean
      /\ ~Outside
  BY DEF CleanInv, TipInv, TypeInv, OneTrouble, OneAgent
<1>1. at[t] \in {"judge", "closed", "lock", "merge", "record"}
      /\ (at[t] \in Idle => held = {})
  BY <1>0 DEF Pass, Fail, MayJudge, JudgeRaises, TakeLock, Merge, MergeConflicts, RecordTip, Idle
<1>2. Clean(master)
  BY <1>1, MasterClean DEF Away
<1>3. CASE Pass(t)
  <2>1. /\ UNCHANGED <<master, marker, branch, tree, strays, landed, held>>
        /\ \A u \in Tickets \ {t} : at'[u] = at[u]
        /\ at'[t] = "lock"
    BY <1>0, <1>3 DEF Pass, Go, TypeOK, repo, work
  <2>2. \A u \in Tickets : approved'[u] =
          IF u = t THEN approved[u] \cup Works(u, branch[u]) ELSE approved[u]
    BY <1>0, <1>3 DEF Pass, TypeOK
  <2>3. TreesClean'
    BY <1>0, <1>1, <2>1, TreesQuiet DEF TypeOK, Idle
  <2>4. BranchesClean'
    BY <1>2, <2>1 DEF CleanInv, BranchesClean, Clean, Mine, Accepted, HasTip
  <2>5. VerdictsCover'
    BY <2>1, <2>2 DEF CleanInv, VerdictsCover
  <2> QED BY <2>3, <2>4, <2>5 DEF CleanInv
<1>4. CASE Fail(t) \/ JudgeRaises(t) \/ MergeConflicts(t) \/ TakeLock(t)
  <2>1. UNCHANGED <<master, marker, branch, tree, landed, judged>> /\ held' \subseteq held
        /\ strays' \subseteq strays
    BY <1>4 DEF Fail, JudgeRaises, MergeConflicts, TakeLock, Rework, Leave, repo, work, judged
  <2>2. \A u \in Tickets : \/ at'[u] = at[u]
                           \/ at'[u] \in {"open", "closed"} /\ u \notin held'
                           \/ at'[u] = "merge" /\ at[u] = "lock"
    BY <1>0, <1>4 DEF Fail, JudgeRaises, MergeConflicts, TakeLock, Rework, Leave, Go, TypeOK
  <2>3. TreesClean'
    BY <1>0, <2>1, <2>2, TreesQuiet DEF TypeOK
  <2> QED BY <1>2, <2>1, <2>2, <2>3, CleanQuiet
<1>5. CASE Merge(t)
  <2>0. /\ \A u \in Tickets : at'[u] = IF u = t THEN "record" ELSE at[u]
        /\ UNCHANGED <<marker, branch, tree, strays, approved, held>>
        /\ master' = Merged(t) /\ at[t] = "merge"
    BY <1>0, <1>5 DEF Merge, Go, TypeOK, work
  <2>1. \A u \in Tickets : landed'[u] = landed[u] \cup Works(u, Merged(t))
    BY <1>5 DEF Merge
  <2>2. \A u \in Tickets : landed[u] \subseteq landed'[u]
    BY <2>1
  <2>3. TreesClean'
    BY <1>0, <2>0, <2>2, TreesQuiet DEF TypeOK
  <2>4. Works(t, branch[t]) \subseteq landed'[t]
    <3>1. branch[t].hist \subseteq Merged(t).hist
      BY DEF Merged, Ancestor
    <3> QED BY <2>1, <3>1 DEF Works
  <2>5. Merged(t).files \subseteq master.files \cup branch[t].files
    BY DEF Merged
  <2>6. \A e \in Edits : landed[e.by] # {} => landed'[e.by] # {}
    BY <2>2 DEF Edits
  <2>7. /\ master.files \subseteq Edits
        /\ \A u \in Tickets : branch[u].files \subseteq Edits
        /\ HasTip => marker.files \subseteq Edits
    BY <1>0 DEF TypeOK, Commit, HasTip
  <2>8. \A u \in Tickets : \A e \in branch[u].files :
          e.by # u /\ e.kind # "staged" => landed'[e.by] # {}
    BY <2>6, <2>7 DEF CleanInv, BranchesClean, Mine
  <2>9. \A e \in branch[t].files : e.kind # "staged" => landed'[e.by] # {}
    BY <2>2, <2>4, <2>8 DEF CleanInv, BranchesClean
  <2>10. Clean(master)'
    <3>1. \A e \in master.files : e.kind # "staged" => landed'[e.by] # {}
      BY <1>2, <2>6, <2>7 DEF Clean
    <3> QED BY <2>0, <2>1, <2>5, <2>9, <3>1 DEF Clean, Accepted
  <2>11. HasTip' => Clean(marker)'
    BY <2>0, <2>2, <2>6, <2>7 DEF CleanInv, BranchesClean, HasTip, Clean, Accepted
  <2>12. \A u \in Tickets : Mine(u, branch[u])'
    BY <2>0, <2>2, <2>8 DEF CleanInv, BranchesClean, Mine
  <2>13. BranchesClean'
    BY <2>0, <2>2, <2>10, <2>11, <2>12 DEF CleanInv, BranchesClean
  <2>14. \A u \in Tickets : Works(u, Merged(t)) \subseteq approved[u]
    BY <1>0, <1>2, <2>0, MergedWorks
       DEF CleanInv, BranchesClean, VerdictsCover, Clean, Accepted, Mine
  <2>15. VerdictsCover'
    BY <2>0, <2>1, <2>14 DEF CleanInv, VerdictsCover
  <2> QED BY <2>3, <2>13, <2>15 DEF CleanInv
<1>6. CASE RecordTip(t)
  <2>1. /\ \A u \in Tickets : at'[u] = IF u = t THEN "landed" ELSE at[u]
        /\ UNCHANGED <<master, branch, tree, strays, approved, landed>>
        /\ marker' = master /\ held' = held \ {t}
    BY <1>0, <1>6 DEF RecordTip, Leave, Go, TypeOK, work, judged
  <2>2. TreesClean'
    BY <1>0, <2>1, TreesQuiet DEF TypeOK
  <2>3. BranchesClean'
    BY <1>2, <2>1 DEF CleanInv, BranchesClean, Clean, Mine, Accepted, HasTip
  <2>4. VerdictsCover'
    BY <2>1 DEF CleanInv, VerdictsCover
  <2> QED BY <2>2, <2>3, <2>4 DEF CleanInv
<1> QED BY <1>3, <1>4, <1>5, <1>6

LEMMA CleanInvKept == OneTrouble /\ CleanInv /\ [Next]_vars => CleanInv'
<1> SUFFICES ASSUME OneTrouble, CleanInv, [Next]_vars PROVE CleanInv'
  OBVIOUS
<1>1. TipInv'
  BY TipInvKept DEF OneTrouble, CleanInv
<1>2. CASE UNCHANGED vars
  BY <1>1, <1>2 DEF vars, CleanInv, BranchesClean, TreesClean, VerdictsCover, MovedBy, Clean,
     Mine, Accepted, HasTip
<1>3. CASE Crash
  <2>1. /\ UNCHANGED <<master, branch, tree, strays, landed, judged>>
        /\ held' = {} /\ marker' \in {marker, NoTip} /\ troubles < MaxTroubles
    BY <1>3 DEF Crash, work, judged
  <2>2. \A u \in Tickets : at'[u] \notin {"lock", "merge"}
    BY <1>3 DEF Crash, Found
  <2>3. Clean(master)
    BY <2>1 DEF CleanInv, BranchesClean, MovedBy, TipInv, TypeInv, TypeOK
  <2>4. TreesClean'
    BY <2>1 DEF CleanInv, TreesClean
  <2> QED BY <1>1, <2>1, <2>2, <2>3, <2>4, CleanQuiet
<1>4. ASSUME NEW t \in Tickets, Harness(t) \/ Agent(t)
      PROVE  CleanInv'
  BY <1>1, <1>4, PickupClean, RunClean, LandingClean DEF Harness, Agent
<1> QED BY <1>2, <1>3, <1>4 DEF Next

LEMMA AlwaysClean ==
  ASSUME OneTrouble
  PROVE  Spec => []CleanInv
<1>1. CleanInv /\ [Next]_vars => CleanInv'
  BY CleanInvKept
<1> QED BY <1>1, CleanInit, PTL DEF Spec

\* With one running agent and one trouble, or an agent that never moves the branch
\* and any number of crashes, neither the strays nor a killed run's leftovers put
\* another ticket's unlanded edits on a ticket's branch or into its worktree; only
\* an edit staged in the project directory survives the discard and may.
THEOREM TicketsHoldOwnWork ==
  ASSUME OneTrouble
  PROVE  Spec => []OwnWork
<1>1. CleanInv => OwnWork
  BY DEF CleanInv, BranchesClean, TreesClean, Mine, OwnWork
<1> QED BY <1>1, AlwaysClean, PTL

\* In the same setting every tree is cut from accepted work, although the agent
\* may move the branch to work of its own before a verdict.
THEOREM TreesStayAccepted ==
  ASSUME OneTrouble
  PROVE  Spec => []BaseAccepted
<1>1. CleanInv => BaseAccepted
  BY DEF CleanInv, BranchesClean, Mine, BaseAccepted
<1> QED BY <1>1, AlwaysClean, PTL

\* And the merges are the gated merge: work the agent moved the branch to is landed
\* by its own verdict or not at all.
THEOREM MovesNeverLand ==
  ASSUME OneTrouble
  PROVE  Spec => MergeIsGated
<1>1. ASSUME CleanInv, [Next]_vars
      PROVE  [Gate!Next]_<<approved, landed, {}>>
  <2>1. \A t \in Tickets : at[t] = "merge" => Accepted(master, landed)
    BY <1>1, MasterClean DEF Away, Idle, Clean
  <2> QED BY <1>1, <2>1, StepIsGated
          DEF CleanInv, TipInv, TypeInv, BranchesClean, VerdictsCover, Mine, BaseAccepted
<1> QED BY <1>1, StartIsGated, AlwaysClean, PTL DEF Spec, MergeIsGated, Gate!Spec
=============================================================================
