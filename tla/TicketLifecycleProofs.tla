----------------------- MODULE TicketLifecycleProofs -----------------------
(***************************************************************************)
(* Type correctness of TicketLifecycle for every set of tickets and seats  *)
(* and every value of the limits.                                          *)
(***************************************************************************)
EXTENDS TicketLifecycle, TLAPS

-----------------------------------------------------------------------------
\* Type correctness needs to know that the processes at work have a ticket, and
\* that an edited tree has a commit left.
AgentHeld == \A s \in Seats : agent[s].pc # "idle" => agent[s].ticket \in Tickets
CheckHeld == \A v \in Verifiers : check[v].pc # "idle" => check[v].ticket \in Tickets
CheckRuns == \A s \in Seats :
               check[s].pc # "idle" => agent[s].pc \in {"verifying", "landing"}
EditFits  == \A t \in Tickets : dirty[t] => made[t] < MaxCommits

TypeInv == TypeOK /\ AgentHeld /\ CheckHeld /\ CheckRuns /\ EditFits

-----------------------------------------------------------------------------
LEMMA InitType == Init => TypeInv
<1> SUFFICES ASSUME Init PROVE TypeInv OBVIOUS
<1> USE LifecycleAssumption DEF Init
<1>1. BoardOK BY DEF BoardOK
<1>2. GitOK BY DEF GitOK
<1>3. StoreOK BY DEF StoreOK, NoVerdict
<1>4. AgentOK BY DEF AgentOK, AgentPhase, NoAgent
<1>5. CheckOK BY DEF CheckOK, CheckPhase, NoCheck
<1>6. HistoryOK BY DEF HistoryOK
<1>7. AgentHeld /\ CheckHeld /\ CheckRuns /\ EditFits
  BY DEF AgentHeld, CheckHeld, CheckRuns, EditFits, NoAgent, NoCheck, Verifiers
<1> QED BY <1>1, <1>2, <1>3, <1>4, <1>5, <1>6, <1>7 DEF TypeInv, TypeOK

LEMMA HeldTicket ==
  ASSUME TypeInv, NEW s \in Seats, agent[s].pc # "idle"
  PROVE  agent[s].ticket \in Tickets
BY DEF TypeInv, AgentHeld

LEMMA CheckedTicket ==
  ASSUME TypeInv, NEW v \in Verifiers, check[v].pc # "idle"
  PROVE  check[v].ticket \in Tickets
BY DEF TypeInv, CheckHeld

\* The commit the next git commit makes.
LEMMA NewCommit ==
  ASSUME TypeInv, NEW t \in Tickets, made[t] < MaxCommits, NEW who \in {"agent", "harness"}
  PROVE  [n |-> made[t] + 1, by |-> who] \in Commit
BY LifecycleAssumption DEF TypeInv, TypeOK, GitOK, Commit

\* The judged diff and the accepted work are sets of commits.
LEMMA JudgedDiffType ==
  ASSUME TypeInv, NEW t \in Tickets, NEW recorded \in SUBSET Commit
  PROVE  JudgedDiff(t, recorded) \in SUBSET Commit
BY DEF TypeInv, TypeOK, GitOK, JudgedDiff

LEMMA AcceptedWorkType ==
  ASSUME TypeInv, NEW t \in Tickets
  PROVE  AcceptedWork(t) \in SUBSET Commit
BY DEF TypeInv, TypeOK, GitOK, BoardOK, StoreOK, AcceptedWork

\* A thread that only moves on keeps its type.
LEMMA MoveOn ==
  ASSUME AgentOK, NEW s \in Seats, NEW pc \in AgentPhase,
         agent' = [agent EXCEPT ![s].pc = pc], failures' \in [Tickets -> Nat]
  PROVE  AgentOK'
BY DEF AgentOK

LEMMA MoveOnWith ==
  ASSUME AgentOK, NEW s \in Seats, NEW pc \in AgentPhase, NEW sha \in SUBSET Commit,
         agent' = [agent EXCEPT ![s].pc = pc, ![s].sha = sha], failures' = failures
  PROVE  AgentOK'
BY DEF AgentOK

\* Nor does a check that moves on with another count or diff.
LEMMA CheckWithCount ==
  ASSUME CheckOK, NEW v \in Verifiers, NEW pc \in CheckPhase, NEW n \in Nat,
         check' = [check EXCEPT ![v].pc = pc, ![v].reworks = n]
  PROVE  CheckOK'
BY DEF CheckOK

LEMMA CheckWithDiff ==
  ASSUME CheckOK, NEW v \in Verifiers, NEW pc \in CheckPhase, NEW diff \in SUBSET Commit,
         check' = [check EXCEPT ![v].pc = pc, ![v].diff = diff]
  PROVE  CheckOK'
BY DEF CheckOK

LEMMA DispatchType ==
  ASSUME TypeInv, NEW t \in Tickets, NEW s \in Seats,
         AssignFront(t, s) \/ AssignTicket(t, s) \/ StartAgent(s, t)
  PROVE  TypeInv'
<1> USE LifecycleAssumption DEF TypeInv, TypeOK
<1>1. CASE AssignFront(t, s) \/ AssignTicket(t, s)
  <2> USE <1>1 DEF AssignFront, AssignTicket
  <2>1. BoardOK' BY DEF BoardOK
  <2>2. HistoryOK' BY DEF HistoryOK
  <2> QED BY <2>1, <2>2
       DEF GitOK, StoreOK, AgentOK, CheckOK, AgentHeld, CheckHeld, EditFits, git, store, CheckRuns
<1>2. CASE StartAgent(s, t)
  <2> USE <1>2 DEF StartAgent
  <2>1. BoardOK' BY DEF BoardOK
  <2>2. AgentOK' BY DEF AgentOK, AgentPhase, NoAgent
  <2>3. AgentHeld' BY DEF AgentHeld, AgentOK, NoAgent
  <2>4. agent[s].pc = "idle" BY DEF Startable, Busy
  <2>5. check[s].pc = "idle" BY <2>4 DEF CheckRuns
  <2>6. CheckRuns' BY <2>5 DEF CheckRuns, AgentOK
  <2> QED BY <2>1, <2>2, <2>3, <2>6
       DEF GitOK, StoreOK, CheckOK, HistoryOK, CheckHeld, EditFits, git, store
<1> QED BY <1>1, <1>2

LEMMA WorkType ==
  ASSUME TypeInv, NEW s \in Seats, Work(s)
  PROVE  TypeInv'
<1> USE LifecycleAssumption DEF TypeInv, TypeOK
<1>1. CASE PrepareTree(s)
  <2> USE <1>1 DEF PrepareTree, Step
  <2>1. GitOK' BY DEF GitOK
  <2>2. AgentOK' BY DEF AgentOK, AgentPhase
  <2>3. AgentHeld' BY DEF AgentHeld, AgentOK
  <2>4. EditFits' BY DEF EditFits, GitOK
  <2>5. CheckRuns' BY DEF CheckRuns, AgentOK, CheckOK, Verifiers
  <2> QED BY <2>1, <2>2, <2>3, <2>4, <2>5
       DEF BoardOK, StoreOK, CheckOK, HistoryOK, CheckHeld, board, store
<1>2. CASE BeginRun(s)
  <2> USE <1>2 DEF BeginRun
  <2>1. StoreOK' BY DEF StoreOK
  <2>2. AgentOK' BY DEF AgentOK, AgentPhase, GitOK
  <2>3. AgentHeld' BY DEF AgentHeld, AgentOK
  <2>4. CheckRuns' BY DEF CheckRuns, AgentOK, CheckOK, Verifiers
  <2> QED BY <2>1, <2>2, <2>3, <2>4
       DEF BoardOK, GitOK, CheckOK, HistoryOK, CheckHeld, EditFits, board, git
<1>3. CASE AgentEdits(s)
  <2> USE <1>3 DEF AgentEdits
  <2>1. GitOK' BY DEF GitOK
  <2>2. EditFits' BY DEF EditFits, GitOK
  <2> QED BY <2>1, <2>2
       DEF BoardOK, StoreOK, AgentOK, CheckOK, HistoryOK, AgentHeld, CheckHeld,
           board, store, CheckRuns
<1>4. CASE AgentCommitsItself(s)
  <2> USE <1>4 DEF AgentCommitsItself, CommitTree
  <2>0. [n |-> made[agent[s].ticket] + 1, by |-> "agent"] \in Commit
    BY HeldTicket, NewCommit
  <2>1. GitOK' BY <2>0, HeldTicket DEF GitOK
  <2>2. EditFits' BY DEF EditFits, GitOK
  <2> QED BY <2>1, <2>2
       DEF BoardOK, StoreOK, AgentOK, CheckOK, HistoryOK, AgentHeld, CheckHeld,
           board, store, CheckRuns
<1>5. CASE CompleteTicket(s)
  <2> USE <1>5 DEF CompleteTicket, EndRun, Step
  <2>1. BoardOK' BY DEF BoardOK, AgentOK
  <2>2. StoreOK' BY DEF StoreOK
  <2>3. AgentOK' BY DEF AgentOK, AgentPhase
  <2>4. AgentHeld' BY DEF AgentHeld, AgentOK
  <2>5. CheckRuns' BY DEF CheckRuns, AgentOK, CheckOK, Verifiers
  <2> QED BY <2>1, <2>2, <2>3, <2>4, <2>5
       DEF GitOK, CheckOK, HistoryOK, CheckHeld, EditFits, git
<1>6. CASE RefuseTicket(s)
  <2> USE <1>6 DEF RefuseTicket, EndRun, Step
  <2>1. BoardOK' BY DEF BoardOK, AgentOK
  <2>2. StoreOK' BY DEF StoreOK
  <2>3. AgentOK' BY DEF AgentOK, AgentPhase
  <2>4. AgentHeld' BY DEF AgentHeld, AgentOK
  <2>5. CheckRuns' BY DEF CheckRuns, AgentOK, CheckOK, Verifiers
  <2> QED BY <2>1, <2>2, <2>3, <2>4, <2>5
       DEF GitOK, CheckOK, HistoryOK, CheckHeld, EditFits, git
<1>7. CASE DeclineTicket(s)
  <2> USE <1>7 DEF DeclineTicket, EndRun, Step
  <2>1. BoardOK' BY DEF BoardOK, AgentOK
  <2>2. StoreOK' BY DEF StoreOK
  <2>3. AgentOK' BY DEF AgentOK, AgentPhase
  <2>4. AgentHeld' BY DEF AgentHeld, AgentOK
  <2>5. CheckRuns' BY DEF CheckRuns, AgentOK, CheckOK, Verifiers
  <2> QED BY <2>1, <2>2, <2>3, <2>4, <2>5
       DEF GitOK, CheckOK, HistoryOK, CheckHeld, EditFits, git
<1>8. CASE StopSilently(s)
  <2> USE <1>8 DEF StopSilently, EndRun, Step
  <2>1. StoreOK' BY DEF StoreOK
  <2>2. AgentOK' BY DEF AgentOK, AgentPhase
  <2>3. AgentHeld' BY DEF AgentHeld, AgentOK
  <2>4. CheckRuns' BY DEF CheckRuns, AgentOK, CheckOK, Verifiers
  <2> QED BY <2>1, <2>2, <2>3, <2>4
       DEF BoardOK, GitOK, CheckOK, HistoryOK, CheckHeld, EditFits, board, git
<1>9. CASE RunFails(s)
  <2> USE <1>9 DEF RunFails, CountFailure
  <2>1. BoardOK' BY DEF BoardOK, AgentOK
  <2>2. AgentOK'
    <3>1. failures' \in [Tickets -> Nat] BY HeldTicket DEF AgentOK
    <3> QED BY <3>1, MoveOn DEF AgentPhase
  <2>3. AgentHeld' BY DEF AgentHeld, AgentOK
  <2>4. CheckRuns' BY DEF CheckRuns, AgentOK, CheckOK, Verifiers
  <2> QED BY <2>1, <2>2, <2>3, <2>4
       DEF GitOK, StoreOK, CheckOK, HistoryOK, CheckHeld, EditFits, git, store
<1>10. CASE DecideOutcome(s)
  <2> USE <1>10 DEF DecideOutcome
  <2>1. BoardOK' BY DEF BoardOK, AgentOK
  <2>2. AgentOK'
    <3>1. \/ agent' = [agent EXCEPT ![s].pc = "commit"]
          \/ agent' = [agent EXCEPT ![s].pc = "done"]
      OBVIOUS
    <3>2. failures' \in [Tickets -> Nat] BY DEF AgentOK
    <3> QED BY <3>1, <3>2, MoveOn DEF AgentPhase
  <2>3. AgentHeld' BY DEF AgentHeld, AgentOK
  <2>4. CheckRuns' BY DEF CheckRuns, AgentOK, CheckOK, Verifiers
  <2> QED BY <2>1, <2>2, <2>3, <2>4
       DEF GitOK, StoreOK, CheckOK, HistoryOK, CheckHeld, EditFits, git, store
<1>11. CASE CommitWork(s)
  <2> USE <1>11 DEF CommitWork, CommitTree
  <2>a. agent[s].ticket \in Tickets BY HeldTicket
  <2>0. dirty[agent[s].ticket]
           => /\ made[agent[s].ticket] < MaxCommits
              /\ [n |-> made[agent[s].ticket] + 1, by |-> "harness"] \in Commit
    BY <2>a, NewCommit DEF EditFits
  <2>1. GitOK'
    <3>1. CASE dirty[agent[s].ticket] /\ CommitTree(agent[s].ticket, "harness")
      BY <3>1, <2>0, <2>a DEF GitOK
    <3>2. CASE UNCHANGED <<branch, dirty, made>> BY <3>2 DEF GitOK
    <3> QED BY <3>1, <3>2
  <2>2. AgentOK'
    <3>1. "record" \in AgentPhase /\ failures' = failures BY DEF AgentPhase
    <3>2. CASE /\ dirty[agent[s].ticket]
               /\ agent' = [agent EXCEPT ![s].pc = "record",
                    ![s].sha = {[n |-> made[agent[s].ticket] + 1, by |-> "harness"]}]
      <4>1. {[n |-> made[agent[s].ticket] + 1, by |-> "harness"]} \in SUBSET Commit
        BY <2>0, <3>2
      <4> QED BY <3>1, <3>2, <4>1, MoveOnWith
    <3>3. CASE agent' = [agent EXCEPT ![s].pc = "record",
                    ![s].sha = branch[agent[s].ticket] \ agent[s].base]
      <4>1. branch[agent[s].ticket] \ agent[s].base \in SUBSET Commit
        BY <2>a DEF GitOK
      <4> QED BY <3>1, <3>3, <4>1, MoveOnWith
    <3> QED BY <3>2, <3>3
  <2>3. AgentHeld' BY DEF AgentHeld, AgentOK
  <2>4. EditFits' BY DEF EditFits, GitOK
  <2>5. CheckRuns' BY DEF CheckRuns, AgentOK, CheckOK, Verifiers
  <2> QED BY <2>1, <2>2, <2>3, <2>4, <2>5
       DEF BoardOK, StoreOK, CheckOK, HistoryOK, CheckHeld, board, store
<1>12. CASE RecordWork(s)
  <2> USE <1>12 DEF RecordWork, Step
  <2>1. BoardOK'
    <3>1. agent[s].sha \in SUBSET Commit BY DEF AgentOK
    <3>2. work' \in [Tickets -> SUBSET Commit] BY <3>1 DEF BoardOK
    <3> QED BY <3>2 DEF BoardOK
  <2>2. AgentOK' BY DEF AgentOK, AgentPhase
  <2>3. CheckOK' BY DEF CheckOK, CheckPhase, NoCheck, Verifiers, AgentHeld, AgentOK
  <2>4. AgentHeld' BY DEF AgentHeld, AgentOK
  <2>5. CheckHeld' BY DEF CheckHeld, CheckOK, NoCheck, Verifiers, AgentHeld, AgentOK
  <2>6. CheckRuns' BY DEF CheckRuns, AgentOK, CheckOK, Verifiers, NoCheck
  <2> QED BY <2>1, <2>2, <2>3, <2>4, <2>5, <2>6
       DEF GitOK, StoreOK, HistoryOK, EditFits, git, store
<1>13. CASE CloseTicket(s)
  <2> USE <1>13 DEF CloseTicket
  <2>1. BoardOK' BY DEF BoardOK, AgentOK
  <2>2. AgentOK'
    <3>1. failures' \in [Tickets -> Nat] BY DEF AgentOK
    <3>2. \/ agent' = [agent EXCEPT ![s].pc = "verifying"]
          \/ agent' = [agent EXCEPT ![s].pc = "done"]
      OBVIOUS
    <3> QED BY <3>1, <3>2, MoveOn DEF AgentPhase
  <2>3. AgentHeld' BY DEF AgentHeld, AgentOK
  <2>4. CheckRuns' BY DEF CheckRuns, AgentOK, CheckOK, Verifiers
  <2>5. HistoryOK' BY DEF HistoryOK, Fault
  <2> QED BY <2>1, <2>2, <2>3, <2>4, <2>5
       DEF GitOK, StoreOK, CheckOK, CheckHeld, EditFits, git, store
<1>14. CASE ReleaseSlot(s)
  <2> USE <1>14 DEF ReleaseSlot
  <2>1. AgentOK' BY DEF AgentOK, AgentPhase, NoAgent
  <2>2. AgentHeld' BY DEF AgentHeld, AgentOK, NoAgent
  <2>3. CheckRuns' BY DEF CheckRuns, AgentOK, CheckOK, Verifiers, NoAgent
  <2> QED BY <2>1, <2>2, <2>3
       DEF BoardOK, GitOK, StoreOK, CheckOK, HistoryOK, CheckHeld, EditFits, board, git, store
<1> QED BY <1>1, <1>2, <1>3, <1>4, <1>5, <1>6, <1>7, <1>8, <1>9, <1>10, <1>11, <1>12,
           <1>13, <1>14 DEF Work

LEMMA VerifyType ==
  ASSUME TypeInv, NEW v \in Verifiers, Verify(v)
  PROVE  TypeInv'
<1> USE LifecycleAssumption DEF TypeInv, TypeOK
<1>1. CASE \E t \in Tickets : ShowTicket(v, t)
  <2>0. PICK t \in Tickets : ShowTicket(v, t) BY <1>1
  <2> USE <2>0 DEF ShowTicket
  <2>1. CheckOK' BY DEF CheckOK, CheckPhase, BoardOK
  <2>2. CheckHeld' BY DEF CheckHeld, CheckOK, Verifiers
  <2>3. CheckRuns' BY DEF CheckRuns, AgentOK, CheckOK, Verifiers
  <2> QED BY <2>1, <2>2, <2>3
       DEF BoardOK, GitOK, StoreOK, AgentOK, HistoryOK, AgentHeld, EditFits, board, git, store
<1>2. CASE ReadDiff(v)
  <2> USE <1>2 DEF ReadDiff
  <2>0. JudgedDiff(check[v].ticket, check[v].work) \in SUBSET Commit
    BY CheckedTicket, JudgedDiffType DEF CheckOK
  <2>1. CheckOK'
    <3> DEFINE diff == JudgedDiff(check[v].ticket, check[v].work)
    <3>1. check' = [check EXCEPT ![v].pc = "judged", ![v].diff = diff] OBVIOUS
    <3>2. diff \in SUBSET Commit BY <2>0
    <3> HIDE DEF diff
    <3> QED BY <3>1, <3>2, CheckWithDiff DEF CheckPhase
  <2>2. CheckHeld' BY DEF CheckHeld, CheckOK
  <2>3. CheckRuns' BY DEF CheckRuns, AgentOK, CheckOK, Verifiers
  <2> QED BY <2>1, <2>2, <2>3
       DEF BoardOK, GitOK, StoreOK, AgentOK, HistoryOK, AgentHeld, EditFits, board, git, store
<1>3. CASE \E result \in {"pass", "fail"} : RecordVerdict(v, result)
  <2>0. PICK result \in {"pass", "fail"} : RecordVerdict(v, result) BY <1>3
  <2> USE <2>0 DEF RecordVerdict
  <2>1. StoreOK' BY DEF StoreOK, CheckOK, CheckHeld
  <2>2. CheckOK' BY DEF CheckOK, CheckPhase
  <2>3. HistoryOK' BY DEF HistoryOK, CheckOK, CheckHeld
  <2>4. CheckHeld' BY DEF CheckHeld, CheckOK
  <2>5. CheckRuns' BY DEF CheckRuns, AgentOK, CheckOK, Verifiers
  <2> QED BY <2>1, <2>2, <2>3, <2>4, <2>5
       DEF BoardOK, GitOK, AgentOK, AgentHeld, EditFits, board, git
<1>4. CASE ParkTicket(v)
  <2> USE <1>4 DEF ParkTicket, Return
  <2>1. BoardOK' BY DEF BoardOK, CheckOK
  <2>2. AgentOK' BY DEF AgentOK, AgentPhase, Verifiers
  <2>3. CheckOK' BY DEF CheckOK, CheckPhase, NoCheck, Verifiers
  <2>4. AgentHeld' BY DEF AgentHeld, AgentOK, Verifiers, CheckRuns
  <2>5. CheckHeld' BY DEF CheckHeld, CheckOK, NoCheck, Verifiers
  <2>6. CheckRuns' BY DEF CheckRuns, AgentOK, CheckOK, Verifiers, NoCheck
  <2> QED BY <2>1, <2>2, <2>3, <2>4, <2>5, <2>6
       DEF GitOK, StoreOK, HistoryOK, EditFits, git, store
<1>5. CASE LandTicket(v)
  <2> USE <1>5 DEF LandTicket, Return
  <2>1. GitOK' BY DEF GitOK
  <2>2. AgentOK' BY DEF AgentOK, AgentPhase, Verifiers
  <2>3. CheckOK' BY DEF CheckOK, CheckPhase, NoCheck, Verifiers, GitOK
  <2>4. AgentHeld' BY DEF AgentHeld, AgentOK, Verifiers, CheckRuns
  <2>5. CheckHeld' BY DEF CheckHeld, CheckOK, NoCheck, Verifiers
  <2>6. CheckRuns' BY DEF CheckRuns, AgentOK, CheckOK, Verifiers, NoCheck
  <2> QED BY <2>1, <2>2, <2>3, <2>4, <2>5, <2>6
       DEF BoardOK, StoreOK, HistoryOK, EditFits, board, store
<1>6. CASE LandFails(v)
  <2> USE <1>6 DEF LandFails
  <2>0. reworks[check[v].ticket] + 1 \in Nat BY CheckedTicket DEF BoardOK
  <2>1. PICK pc \in {"redo", "park"} :
          check' = [check EXCEPT ![v].pc = pc, ![v].reworks = reworks[check[v].ticket] + 1]
    OBVIOUS
  <2>a. CheckOK' BY <2>0, <2>1, CheckWithCount DEF CheckPhase
  <2>2. CheckHeld' BY <2>1 DEF CheckHeld, CheckOK
  <2>3. CheckRuns' BY DEF CheckRuns, AgentOK, CheckOK, Verifiers
  <2> QED BY <2>a, <2>2, <2>3
       DEF BoardOK, GitOK, StoreOK, AgentOK, HistoryOK, AgentHeld, EditFits, board, git, store
<1>7. CASE ClearClaim(v)
  <2> USE <1>7 DEF ClearClaim, Resume
  <2>1. BoardOK'
    <3>0. PICK stays \in SUBSET {"completion_summary", "work_commit", "human_decision", "human"} :
            LET t == check[v].ticket IN
            /\ summary' = [summary EXCEPT ![t] = @ /\ "completion_summary" \in stays]
            /\ work'    = [work    EXCEPT ![t] = IF "work_commit" \in stays THEN @ ELSE {}]
            /\ decided' = [decided EXCEPT ![t] = @ /\ "human_decision" \in stays]
            /\ flagged' = [flagged EXCEPT ![t] = @ /\ "human" \in stays]
      OBVIOUS
    <3>1. /\ summary' \in [Tickets -> BOOLEAN] /\ decided' \in [Tickets -> BOOLEAN]
          /\ flagged' \in [Tickets -> BOOLEAN]
      BY <3>0 DEF BoardOK
    <3>2. work' \in [Tickets -> SUBSET Commit] BY <3>0 DEF BoardOK
    <3>3. reworks' \in [Tickets -> Nat] BY DEF BoardOK, CheckOK
    <3> QED BY <3>1, <3>2, <3>3 DEF BoardOK
  <2>2. CheckOK' BY DEF CheckOK, CheckPhase
  <2>3. CheckHeld' BY DEF CheckHeld, CheckOK
  <2>4. CheckRuns' BY DEF CheckRuns, AgentOK, CheckOK, Verifiers
  <2>5. HistoryOK' BY DEF HistoryOK, Fault
  <2> QED BY <2>1, <2>2, <2>3, <2>4, <2>5
       DEF GitOK, StoreOK, AgentOK, AgentHeld, EditFits, git, store
<1>8. CASE ReopenTicket(v)
  <2> USE <1>8 DEF ReopenTicket, Resume
  <2>1. BoardOK' BY DEF BoardOK, CheckOK
  <2>2. CheckOK' BY DEF CheckOK, CheckPhase
  <2>3. HistoryOK' BY DEF HistoryOK, CheckOK, CheckHeld
  <2>4. CheckHeld' BY DEF CheckHeld, CheckOK
  <2>5. CheckRuns' BY DEF CheckRuns, AgentOK, CheckOK, Verifiers
  <2> QED BY <2>1, <2>2, <2>3, <2>4, <2>5
       DEF GitOK, StoreOK, AgentOK, AgentHeld, EditFits, git, store
<1>9. CASE ResetThread(v)
  <2> USE <1>9 DEF ResetThread, Return
  <2>1. StoreOK' BY DEF StoreOK, CheckOK, CheckHeld
  <2>2. AgentOK' BY DEF AgentOK, AgentPhase, Verifiers
  <2>3. CheckOK' BY DEF CheckOK, CheckPhase, NoCheck, Verifiers
  <2>4. AgentHeld' BY DEF AgentHeld, AgentOK, Verifiers, CheckRuns
  <2>5. CheckHeld' BY DEF CheckHeld, CheckOK, NoCheck, Verifiers
  <2>6. CheckRuns' BY DEF CheckRuns, AgentOK, CheckOK, Verifiers, NoCheck
  <2> QED BY <2>1, <2>2, <2>3, <2>4, <2>5, <2>6
       DEF BoardOK, GitOK, HistoryOK, EditFits, board, git
<1> QED BY <1>1, <1>2, <1>3, <1>4, <1>5, <1>6, <1>7, <1>8, <1>9 DEF Verify

LEMMA VerifyNothingType ==
  ASSUME TypeInv, NEW s \in Seats, VerifyNothing(s)
  PROVE  TypeInv'
<1> USE LifecycleAssumption DEF TypeInv, TypeOK
<1>1. CASE VerifyNothing(s)
  <2> USE <1>1 DEF VerifyNothing, Return
  <2>1. AgentOK' BY DEF AgentOK, AgentPhase
  <2>2. CheckOK' BY DEF CheckOK, CheckPhase, NoCheck, Verifiers
  <2>3. AgentHeld' BY DEF AgentHeld, AgentOK
  <2>4. CheckHeld' BY DEF CheckHeld, CheckOK, NoCheck, Verifiers
  <2>5. CheckRuns' BY DEF CheckRuns, AgentOK, CheckOK, Verifiers, NoCheck
  <2> QED BY <2>1, <2>2, <2>3, <2>4, <2>5
       DEF BoardOK, GitOK, StoreOK, HistoryOK, EditFits, board, git, store
<1> QED BY <1>1

LEMMA HumanType ==
  ASSUME TypeInv, NEW t \in Tickets, HumanResponds(t) \/ HumanAccepts(t)
  PROVE  TypeInv'
<1> USE LifecycleAssumption DEF TypeInv, TypeOK
<1>1. CASE HumanResponds(t)
  <2> USE <1>1 DEF HumanResponds, Answer
  <2>1. BoardOK' BY DEF BoardOK
  <2> QED BY <2>1
       DEF GitOK, StoreOK, AgentOK, CheckOK, HistoryOK, AgentHeld, CheckHeld,
           EditFits, git, store, CheckRuns
<1>2. CASE HumanAccepts(t)
  <2> USE <1>2 DEF HumanAccepts, Answer
  <2>1. BoardOK' BY DEF BoardOK
  <2>2. GitOK' BY AcceptedWorkType DEF GitOK
  <2>3. HistoryOK' BY AcceptedWorkType DEF HistoryOK
  <2>4. EditFits' BY DEF EditFits, GitOK
  <2> QED BY <2>1, <2>2, <2>3, <2>4
       DEF StoreOK, AgentOK, CheckOK, AgentHeld, CheckHeld, store, CheckRuns
<1> QED BY <1>1, <1>2

LEMMA FaultType ==
  ASSUME TypeInv, Faults
  PROVE  TypeInv'
<1> USE LifecycleAssumption DEF TypeInv, TypeOK
<1>1. CASE \E v \in Verifiers : CheckRaises(v)
  <2>0. PICK v \in Verifiers : CheckRaises(v) BY <1>1
  <2>a. check[v].ticket \in Tickets BY <2>0, CheckedTicket DEF CheckRaises
  <2>b. v \in Seats => agent[v].pc \in {"verifying", "landing"}
    BY <2>0 DEF CheckRaises, CheckRuns
  <2> USE <2>0 DEF CheckRaises, Return, Resume, CountFailure, Fault
  <2>1. BoardOK' BY <2>a DEF BoardOK
  <2>2. AgentOK'
    <3>1. failures' \in [Tickets -> Nat] BY <2>a DEF AgentOK
    <3>2. \/ UNCHANGED agent
          \/ v \in Seats /\ \E pc \in {"over", "closing", "done", "failed"} :
                              agent' = [agent EXCEPT ![v].pc = pc]
      BY DEF Verifiers
    <3>3. CASE UNCHANGED agent BY <3>1, <3>3 DEF AgentOK
    <3>4. ASSUME v \in Seats, NEW pc \in {"over", "closing", "done", "failed"},
                 agent' = [agent EXCEPT ![v].pc = pc]
          PROVE  AgentOK'
      <4>1. pc \in AgentPhase BY DEF AgentPhase
      <4> QED BY <3>1, <3>4, <4>1, MoveOn
    <3> QED BY <3>2, <3>3, <3>4
  <2>c. \/ check' = [check EXCEPT ![v] = NoCheck]
        \/ check' = [check EXCEPT ![v].pc = "park"] /\ UNCHANGED agent
    OBVIOUS
  <2>3. CheckOK' BY <2>c DEF CheckOK, CheckPhase, NoCheck
  <2>4. HistoryOK' BY DEF HistoryOK
  <2>5. AgentHeld'
    <3> SUFFICES ASSUME NEW s \in Seats, agent[s].pc # "idle"
                 PROVE  agent'[s].ticket = agent[s].ticket
      BY <2>b, Zenon DEF AgentHeld, AgentOK, Verifiers
    <3> QED BY DEF AgentOK, Verifiers
  <2>6. CheckHeld' BY <2>c DEF CheckHeld, CheckOK, NoCheck
  <2>7. CheckRuns'
    <3>1. CASE check' = [check EXCEPT ![v].pc = "park"] /\ UNCHANGED agent
      BY <3>1 DEF CheckRuns, CheckOK, Verifiers
    <3>2. CASE check' = [check EXCEPT ![v] = NoCheck]
      <4>1. \A s \in Seats \ {v} : agent'[s] = agent[s]
        BY DEF AgentOK, Verifiers
      <4> QED BY <3>2, <4>1 DEF CheckRuns, CheckOK, NoCheck, Verifiers
    <3> QED BY <2>c, <3>1, <3>2
  <2> QED BY <2>1, <2>2, <2>3, <2>4, <2>5, <2>6, <2>7
       DEF GitOK, StoreOK, EditFits, git, store
<1>2. CASE DispatcherCrash
  <2> USE <1>2 DEF DispatcherCrash, Fault
  <2>1. AgentOK' BY DEF AgentOK, AgentPhase, NoAgent
  <2>2. CheckOK' BY DEF CheckOK, CheckPhase, NoCheck, Verifiers
  <2>3. HistoryOK' BY DEF HistoryOK, CheckOK, CheckHeld
  <2>4. AgentHeld' BY DEF AgentHeld, AgentOK, NoAgent
  <2>5. CheckHeld' BY DEF CheckHeld, CheckOK, NoCheck, Verifiers
  <2>6. CheckRuns' BY DEF CheckRuns, AgentOK, CheckOK, Verifiers, NoAgent, NoCheck
  <2> QED BY <2>1, <2>2, <2>3, <2>4, <2>5, <2>6
       DEF BoardOK, GitOK, StoreOK, EditFits, board, git, store
<1>3. CASE SchedulerCrash
  <2> USE <1>3 DEF SchedulerCrash, Fault
  <2>1. CheckOK' BY DEF CheckOK, CheckPhase, NoCheck, Verifiers
  <2>2. HistoryOK' BY DEF HistoryOK
  <2>3. CheckHeld' BY DEF CheckHeld, CheckOK, NoCheck, Verifiers
  <2>4. CheckRuns' BY DEF CheckRuns, AgentOK, CheckOK, Verifiers, NoCheck
  <2> QED BY <2>1, <2>2, <2>3, <2>4
       DEF BoardOK, GitOK, StoreOK, AgentOK, AgentHeld, EditFits, board, git, store
<1> QED BY <1>1, <1>2, <1>3 DEF Faults

\* Every step keeps the type invariant.
LEMMA NextType == TypeInv /\ [Next]_vars => TypeInv'
<1> SUFFICES ASSUME TypeInv, [Next]_vars PROVE TypeInv' OBVIOUS
<1>1. CASE Dispatch \/ Triage BY <1>1, DispatchType DEF Dispatch, Triage
<1>2. CASE \E s \in Seats : Work(s) \/ VerifyNothing(s)
  BY <1>2, WorkType, VerifyNothingType
<1>3. CASE \E v \in Verifiers : Verify(v) BY <1>3, VerifyType
<1>4. CASE Human BY <1>4, HumanType DEF Human
<1>5. CASE Faults BY <1>5, FaultType
<1>6. CASE UNCHANGED vars
  BY <1>6 DEF vars, board, git, store, TypeInv, TypeOK, BoardOK, GitOK, StoreOK,
              AgentOK, CheckOK, HistoryOK, AgentHeld, CheckHeld, CheckRuns, EditFits
<1> QED BY <1>1, <1>2, <1>3, <1>4, <1>5, <1>6 DEF Next

\* Every variable keeps its type, whatever the tickets, the seats and the
\* limits: no crash or failing call leaves a half-written slot or verification.
THEOREM TypeCorrect == Spec => []TypeOK
<1>1. TypeInv => TypeOK BY DEF TypeInv
<1> QED BY InitType, NextType, <1>1, PTL DEF Spec

=============================================================================
