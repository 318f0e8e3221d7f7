---------------------- MODULE SelfModificationProofs ----------------------
(***************************************************************************)
(* Proofs about SelfModification, for every value of its constants: types, *)
(* and along one inductive invariant the safety properties of its runs.    *)
(***************************************************************************)
EXTENDS SelfModification, FiniteSetTheorems, WellFoundedInduction, TLAPS

\* The oldest of a listing that is not empty is in it and precedes the rest.
LEMMA OldestIsIn ==
  ASSUME NEW S, S \subseteq Ids, S # {}
  PROVE  Oldest(S) \in S /\ \A q \in S : Oldest(S) <= q
<1>1. S \subseteq Nat
  BY SelfModAssumption DEF Ids
<1>2. PICK p \in S : \A q \in S : ~ (<<q, p>> \in OpToRel(<, Nat))
  BY <1>1, NatLessThanWellFounded, WFMin
<1>3. \A q \in S : p <= q
  <2>1. SUFFICES ASSUME NEW q \in S, q < p PROVE FALSE
    BY <1>1
  <2>2. <<q, p>> \in OpToRel(<, Nat)
    BY <1>1, <2>1 DEF OpToRel
  <2> QED
    BY <1>2, <2>2
<1> QED
  BY <1>3 DEF Oldest

LEMMA OldestOfStatus ==
  ASSUME NEW stage, ByStatus(stage) # {}
  PROVE  /\ Oldest(ByStatus(stage)) \in Ids
         /\ status[Oldest(ByStatus(stage))] = stage
<1>1. ByStatus(stage) \subseteq Ids
  BY DEF ByStatus
<1>2. Oldest(ByStatus(stage)) \in ByStatus(stage)
  BY <1>1, OldestIsIn
<1> QED
  BY <1>2 DEF ByStatus

-----------------------------------------------------------------------------
\* Type correctness. The loop at work has a proposal, and a verdict waiting to
\* be acted on has one too.

InCycle == loop.pc # "idle" => loop.id \in Ids

Acting == reviewer.recorded => reviewer.queue # {}

TypeInv == TypeOK /\ InCycle /\ Acting

LEMMA InitType == Init => TypeInv
BY SelfModAssumption
   DEF Init, TypeInv, TypeOK, RowsOK, AgentOK, PipelineOK, InCycle, Acting, Stages,
       IdleSession, IdleLoop, Ids, Edits

LEMMA NextType == TypeInv /\ [Next]_vars => TypeInv'
<1> SUFFICES ASSUME TypeInv, [Next]_vars PROVE TypeInv'
  OBVIOUS
<1> USE SelfModAssumption
    DEF TypeInv, TypeOK, RowsOK, AgentOK, PipelineOK, InCycle, Acting, Stages, Ids, Edits,
        rows, board, agent, tree, IdleSession, IdleLoop
<1>1. ASSUME NEW t \in Tickets, StartSession(t) PROVE TypeInv'
  <2>1. ByStatus("pending") \in SUBSET Ids
    BY DEF ByStatus
  <2> DEFINE begun == [pc |-> IF thread[t] = "ended" THEN "ended" ELSE "running",
                       before |-> ByStatus("pending"), id |-> 0]
  <2>4. begun \in [pc : {"idle", "running", "ended", "attribute"},
                  before : SUBSET Ids, id : 0..MaxProposals]
    BY <2>1
  <2>5. session' = [session EXCEPT ![t] = begun]
    BY <1>1 DEF StartSession
  <2> HIDE DEF begun
  <2>2. session' \in [Tickets -> [pc : {"idle", "running", "ended", "attribute"},
                                 before : SUBSET Ids, id : 0..MaxProposals]]
    BY <2>4, <2>5
  <2>3. thread' \in [Tickets -> {"none", "live", "ended"}]
    BY <1>1 DEF StartSession
  <2> QED
    BY <1>1, <2>2, <2>3 DEF StartSession
<1>2. ASSUME NEW t \in Tickets, SyncCheckout(t) PROVE TypeInv'
  BY <1>2 DEF SyncCheckout
<1>3. ASSUME NEW t \in Tickets, WriteCheckout(t) PROVE TypeInv'
  <2>1. CASE /\ made < MaxEdits /\ made' = made + 1
              /\ checkout' = [checkout EXCEPT !.edits = @ \cup {made + 1}]
    <3>1. made + 1 \in Edits /\ made' \in 0..MaxEdits
      BY <2>1
    <3>2. checkout' \in [base : SUBSET Edits, edits : SUBSET Edits]
      BY <2>1, <3>1
    <3> QED
      BY <1>3, <3>1, <3>2 DEF WriteCheckout
  <2>2. CASE checkout' = [checkout EXCEPT !.edits = {}] /\ UNCHANGED made
    BY <1>3, <2>2 DEF WriteCheckout
  <2> QED
    BY <1>3, <2>1, <2>2 DEF WriteCheckout
<1>4. ASSUME NEW t \in Tickets, Propose(t) PROVE TypeInv'
  BY <1>4 DEF Propose
<1>5. ASSUME NEW t \in Tickets, EndSession(t) PROVE TypeInv'
  BY <1>5 DEF EndSession
<1>6. ASSUME NEW t \in Tickets, FindRaised(t) PROVE TypeInv'
  <2> DEFINE raised == ByStatus("pending") \ session[t].before
  <2>1. raised \subseteq Ids
    BY DEF ByStatus
  <2> HIDE DEF raised
  <2>2. raised # {} => Oldest(raised) \in 0..MaxProposals
    <3>1. SUFFICES ASSUME raised # {} PROVE Oldest(raised) \in Ids
      OBVIOUS
    <3>2. Oldest(raised) \in raised
      BY <2>1, <3>1, OldestIsIn
    <3> QED
      BY <2>1, <3>2
  <2>4. session' = [session EXCEPT ![t] = IF raised = {} THEN IdleSession
                      ELSE [@ EXCEPT !.pc = "attribute", !.id = Oldest(raised)]]
    BY <1>6 DEF FindRaised, raised
  <2>3. session' \in [Tickets -> [pc : {"idle", "running", "ended", "attribute"},
                                 before : SUBSET Ids, id : 0..MaxProposals]]
    <3>1. CASE raised = {}
      BY <2>4, <3>1
    <3>2. CASE raised # {}
      <4>1. [session[t] EXCEPT !.pc = "attribute", !.id = Oldest(raised)]
              \in [pc : {"idle", "running", "ended", "attribute"},
                   before : SUBSET Ids, id : 0..MaxProposals]
        <5>1. session[t] \in [pc : {"idle", "running", "ended", "attribute"},
                             before : SUBSET Ids, id : 0..MaxProposals]
          OBVIOUS
        <5>2. Oldest(raised) \in 0..MaxProposals
          BY <2>2, <3>2
        <5> QED
          BY <5>1, <5>2
      <4>2. session' = [session EXCEPT ![t] =
                          [session[t] EXCEPT !.pc = "attribute", !.id = Oldest(raised)]]
        BY <2>4, <3>2
      <4> QED
        BY <4>1, <4>2
    <3> QED
      BY <3>1, <3>2
  <2> QED
    BY <1>6, <2>3 DEF FindRaised
<1>7. ASSUME NEW t \in Tickets, Attribute(t) PROVE TypeInv'
  <2>1. session' \in [Tickets -> [pc : {"idle", "running", "ended", "attribute"},
                                 before : SUBSET Ids, id : 0..MaxProposals]]
    BY <1>7 DEF Attribute
  <2>2. owner' \in [Ids -> Tickets \cup {NoTicket}]
    BY <1>7 DEF Attribute
  <2> QED
    BY <1>7, <2>1, <2>2 DEF Attribute
<1>8. CASE SandboxPending
  <2>1. Oldest(ByStatus("pending")) \in Ids
    BY <1>8, OldestOfStatus DEF SandboxPending
  <2> QED
    BY <1>8, <2>1 DEF SandboxPending
<1>9. ASSUME NEW outcome \in {"clean", "unclean"}, RecordSandboxResult(outcome)
      PROVE  TypeInv'
  BY <1>9 DEF RecordSandboxResult
<1>10. CASE DeployApproved
  <2>1. Oldest(ByStatus("approved")) \in Ids
    BY <1>10, OldestOfStatus DEF DeployApproved
  <2> QED
    BY <1>10, <2>1 DEF DeployApproved
<1>11. CASE ApplyDiff
  BY <1>11 DEF ApplyDiff
<1>12. ASSUME NEW ok \in BOOLEAN, FinalTest(ok) PROVE TypeInv'
  BY <1>12 DEF FinalTest
<1>13. CASE CommitChange
  BY <1>13 DEF CommitChange
<1>14. ASSUME NEW ok \in BOOLEAN, RebuildServices(ok) PROVE TypeInv'
  <2>1. session' \in [Tickets -> [pc : {"idle", "running", "ended", "attribute"},
                                 before : SUBSET Ids, id : 0..MaxProposals]]
    BY <1>14 DEF RebuildServices
  <2> QED
    BY <1>14, <2>1 DEF RebuildServices
<1>15. CASE MarkDeployed
  BY <1>15 DEF MarkDeployed
<1>16. ASSUME NEW ok \in BOOLEAN, ReportDeployment(ok) PROVE TypeInv'
  BY <1>16 DEF ReportDeployment
<1>17. CASE StartReview
  <2>1. ByStatus("sandboxed") \subseteq Ids
    BY DEF ByStatus
  <2> QED
    BY <1>17, <2>1 DEF StartReview
<1>18. ASSUME NEW word \in {"allow", "deny"}, RecordReview(word) PROVE TypeInv'
  BY <1>18 DEF RecordReview
<1>19. CASE ActOnReview
  <2>1. Oldest(reviewer.queue) \in Ids
    BY <1>19, OldestIsIn DEF ActOnReview
  <2>2. seen' \subseteq Ids /\ status' \in [Ids -> Stages]
    BY <1>19, <2>1 DEF ActOnReview
  <2>3. flagged' \in [Tickets -> BOOLEAN]
    BY <1>19, Zenon DEF ActOnReview
  <2>4. reviewer' \in [queue : SUBSET Ids, recorded : BOOLEAN] /\ ~reviewer'.recorded
    BY <1>19 DEF ActOnReview
  <2> QED
    BY <1>19, <2>2, <2>3, <2>4 DEF ActOnReview
<1>20. ASSUME NEW p \in Ids, Approve(p) PROVE TypeInv'
  BY <1>20 DEF Approve
<1>21. ASSUME NEW p \in Ids, Reject(p) PROVE TypeInv'
  BY <1>21 DEF Reject
<1>22. ASSUME NEW p \in Ids, Ages(p) PROVE TypeInv'
  BY <1>22 DEF Ages
<1>23. CASE LoopFails
  BY <1>23 DEF LoopFails, Fault
<1>24. CASE ReviewerFails
  BY <1>24 DEF ReviewerFails, Fault
<1>25. ASSUME NEW t \in Tickets, SessionFails(t) PROVE TypeInv'
  BY <1>25 DEF SessionFails, Fault
<1>26. CASE UNCHANGED vars
  BY <1>26 DEF vars
<1> HIDE DEF TypeInv
<1> QED
  BY <1>1, <1>2, <1>3, <1>4, <1>5, <1>6, <1>7, <1>8, <1>9, <1>10, <1>11, <1>12, <1>13,
     <1>14, <1>15, <1>16, <1>17, <1>18, <1>19, <1>20, <1>21, <1>22, <1>23, <1>24, <1>25,
     <1>26
  DEF Next, Session, RunOneCycle, Review, Faults

\* Every variable keeps its type in every behaviour.
THEOREM SelfModTypeCorrect == Spec => []TypeOK
<1>1. Spec => []TypeInv
  BY InitType, NextType, PTL DEF Spec
<1> QED
  BY <1>1, PTL DEF TypeInv

-----------------------------------------------------------------------------
\* The safety invariant.

\* Between the choice of a proposal and the end of its rebuild.
Deploying == loop.pc \in {"chosen", "applied", "tested", "committed", "built"}

\* What a dashboard has shown is past its review, and a row in the sandbox has
\* not been there before.
Unseen ==
  /\ \A p \in Ids : status[p] \in {"absent", "pending", "sandboxed", "reviewed"} => p \notin seen
  /\ loop.pc = "sandbox" => status[loop.id] = "pending"

\* Only the reviewer moves what it has listed.
Queued ==
  \A p \in reviewer.queue :
    \/ status[p] = "sandboxed"
    \/ reviewer.recorded /\ p = Oldest(reviewer.queue) /\ status[p] = "reviewed"

Answered ==
  /\ \A p \in seen : verdict[p] = "allow"
  /\ yes \subseteq seen
  /\ \A p \in Ids : status[p] = "approved" => p \in yes

ReviewInv == Unseen /\ Queued /\ Answered

DeployEarned == Deploying => loop.id \in yes /\ result[loop.id] = "clean"

LandedEarned == \A p \in Landed : p \in yes /\ result[p] = "clean"

EarnInv == DeployEarned /\ LandedEarned

\* What each step of a deployment has put where.
DeployTree ==
  /\ loop.pc = "chosen" => uncommitted = {}
  /\ loop.pc \in {"applied", "tested"} => uncommitted = diff[loop.id]
  /\ loop.pc \in {"committed", "built"} => loop.id \in Landed

Restored == faults = 0 /\ loop.pc \notin {"applied", "tested"} => uncommitted = {}

Proposed == \A p \in Ids : status[p] # "absent" => diff[p] # {}

DeployedLanded == \A p \in Ids : status[p] = "deployed" => p \in Landed

TreeInv == DeployTree /\ Restored /\ Proposed /\ DeployedLanded /\ CommitIsDiff

\* Time only makes room: what was under the cap at the choice still is.
Room == Deploying => Cardinality(recent) < MaxDeploys

CapInv == Room /\ DeployCap

SafeInv == TypeInv /\ ReviewInv /\ EarnInv /\ TreeInv /\ CapInv

LEMMA RecentFinite == TypeOK => IsFiniteSet(recent) /\ Cardinality(recent) \in Nat
<1>1. IsFiniteSet(Ids)
  BY SelfModAssumption, FS_Interval DEF Ids
<1> QED
  BY <1>1, FS_Subset, FS_CardinalityType DEF TypeOK, PipelineOK

LEMMA InitSafe == Init => SafeInv
<1> SUFFICES ASSUME Init PROVE SafeInv
  OBVIOUS
<1>1. TypeInv
  BY InitType
<1>2. ReviewInv /\ EarnInv /\ TreeInv
  BY DEF Init, ReviewInv, Unseen, Queued, Answered, EarnInv, DeployEarned, LandedEarned,
         Deploying, TreeInv, DeployTree, Restored, Proposed, DeployedLanded, CommitIsDiff,
         Landed, IdleLoop
<1>3. CapInv
  BY SelfModAssumption, FS_EmptySet DEF Init, CapInv, Room, DeployCap, Deploying, IdleLoop
<1> QED
  BY <1>1, <1>2, <1>3 DEF SafeInv

\* What the invariant speaks of; a session's own steps leave it alone.
pipeline == <<status, diff, result, verdict, uncommitted, commit, loop, reviewer, recent,
              seen, yes, faults>>

LEMMA NextSafe == SafeInv /\ [Next]_vars => SafeInv'
<1> SUFFICES ASSUME SafeInv, [Next]_vars PROVE SafeInv'
  OBVIOUS
<1>t. TypeInv'
  BY NextType DEF SafeInv
<1> USE DEF SafeInv
<1>1. ASSUME UNCHANGED pipeline PROVE SafeInv'
  <2>1. ReviewInv'
    BY <1>1 DEF pipeline, ReviewInv, Unseen, Queued, Answered
  <2>2. EarnInv'
    BY <1>1 DEF pipeline, EarnInv, DeployEarned, LandedEarned, Deploying, Landed
  <2>3. TreeInv'
    BY <1>1 DEF pipeline, TreeInv, DeployTree, Restored, Proposed, DeployedLanded,
       CommitIsDiff, Landed
  <2>4. CapInv'
    BY <1>1 DEF pipeline, CapInv, Room, DeployCap, Deploying
  <2> QED
    BY <1>t, <2>1, <2>2, <2>3, <2>4
<1>2. ASSUME NEW t \in Tickets, Propose(t) PROVE SafeInv'
  <2>0. /\ Oldest(ByStatus("absent")) \in Ids
        /\ status[Oldest(ByStatus("absent"))] = "absent"
    BY <1>2, OldestOfStatus DEF Propose, MayPropose
  <2>1. ReviewInv'
    BY <1>2, <2>0 DEF Propose, ReviewInv, Unseen, Queued, Answered
  <2>2. EarnInv'
    BY <1>2 DEF Propose, EarnInv, DeployEarned, LandedEarned, Deploying, tree, Landed
  <2>3. TreeInv'
    BY <1>2, <2>0 DEF Propose, TreeInv, DeployTree, Restored, Proposed,
       DeployedLanded, CommitIsDiff, EarnInv, DeployEarned, LandedEarned, Deploying,
       ReviewInv, Unseen, Answered, TypeInv, TypeOK, RowsOK, tree, Landed
  <2>4. CapInv'
    BY <1>2 DEF Propose, CapInv, Room, DeployCap, Deploying
  <2> QED
    BY <1>t, <2>1, <2>2, <2>3, <2>4
<1>3. ASSUME SandboxPending PROVE SafeInv'
  <2>0. /\ Oldest(ByStatus("pending")) \in Ids
        /\ status[Oldest(ByStatus("pending"))] = "pending"
    BY <1>3, OldestOfStatus DEF SandboxPending
  <2>1. ReviewInv'
    BY <1>3, <2>0 DEF SandboxPending, ReviewInv, Unseen, Queued, Answered, rows
  <2>2. EarnInv'
    BY <1>3 DEF SandboxPending, EarnInv, DeployEarned, LandedEarned, Deploying, rows,
       tree, Landed
  <2>3. TreeInv'
    BY <1>3 DEF SandboxPending, TreeInv, DeployTree, Restored, Proposed,
       DeployedLanded, CommitIsDiff, rows, tree, Landed
  <2>4. CapInv'
    BY <1>3 DEF SandboxPending, CapInv, Room, DeployCap, Deploying
  <2> QED
    BY <1>t, <2>1, <2>2, <2>3, <2>4
<1>4. ASSUME NEW outcome \in {"clean", "unclean"}, RecordSandboxResult(outcome)
      PROVE  SafeInv'
  <2>1. ReviewInv'
    BY <1>4 DEF RecordSandboxResult, IdleLoop, ReviewInv, Unseen, Queued, Answered
  <2>2. EarnInv'
    BY <1>4 DEF RecordSandboxResult, IdleLoop, EarnInv, DeployEarned, LandedEarned,
       Deploying, ReviewInv, Unseen, Answered, tree, Landed
  <2>3. TreeInv'
    BY <1>4 DEF RecordSandboxResult, IdleLoop, TreeInv, DeployTree, Restored,
       Proposed, DeployedLanded, CommitIsDiff, ReviewInv, Unseen, tree, Landed
  <2>4. CapInv'
    BY <1>4 DEF RecordSandboxResult, IdleLoop, CapInv, Room, DeployCap, Deploying
  <2> QED
    BY <1>t, <2>1, <2>2, <2>3, <2>4
<1>5. ASSUME DeployApproved PROVE SafeInv'
  <2>0. /\ Oldest(ByStatus("approved")) \in Ids
        /\ status[Oldest(ByStatus("approved"))] = "approved"
    BY <1>5, OldestOfStatus DEF DeployApproved
  <2>1. ReviewInv'
    BY <1>5 DEF DeployApproved, ReviewInv, Unseen, Queued, Answered, rows
  <2>2. EarnInv'
    BY <1>5, <2>0 DEF DeployApproved, HasCleanSandboxResult, EarnInv, DeployEarned,
       LandedEarned, Deploying, Answered, ReviewInv, rows, tree, Landed
  <2>3. TreeInv'
    BY <1>5 DEF DeployApproved, CleanTree, TreeInv, DeployTree, Restored, Proposed,
       DeployedLanded, CommitIsDiff, rows, tree, Landed
  <2>4. CapInv'
    BY <1>5 DEF DeployApproved, UnderCap, CapInv, Room, DeployCap, Deploying
  <2> QED
    BY <1>t, <2>1, <2>2, <2>3, <2>4
<1>6. ASSUME ApplyDiff PROVE SafeInv'
  <2>1. ReviewInv'
    BY <1>6 DEF ApplyDiff, ReviewInv, Unseen, Queued, Answered, TypeInv, TypeOK,
       PipelineOK, rows
  <2>2. EarnInv'
    BY <1>6 DEF ApplyDiff, EarnInv, DeployEarned, LandedEarned, Deploying, TypeInv,
       TypeOK, PipelineOK, rows, Landed
  <2>3. TreeInv'
    BY <1>6 DEF ApplyDiff, TreeInv, DeployTree, Restored, Proposed, DeployedLanded,
       CommitIsDiff, TypeInv, TypeOK, PipelineOK, rows, board, agent, Landed
  <2>4. CapInv'
    BY <1>6 DEF ApplyDiff, CapInv, Room, DeployCap, Deploying
  <2> QED
    BY <1>t, <2>1, <2>2, <2>3, <2>4
<1>7. ASSUME NEW ok \in BOOLEAN, FinalTest(ok) PROVE SafeInv'
  <2>1. ReviewInv'
    BY <1>7 DEF FinalTest, ReviewInv, Unseen, Queued, Answered, rows
  <2>2. EarnInv'
    BY <1>7 DEF FinalTest, EarnInv, DeployEarned, LandedEarned, Deploying, rows, Landed
  <2>3. TreeInv'
    BY <1>7 DEF FinalTest, TreeInv, DeployTree, Restored, Proposed, DeployedLanded,
       CommitIsDiff, rows, Landed
  <2>4. CapInv'
    BY <1>7 DEF FinalTest, CapInv, Room, DeployCap, Deploying
  <2> QED
    BY <1>t, <2>1, <2>2, <2>3, <2>4
<1>8. ASSUME CommitChange PROVE SafeInv'
  <2>0. loop.id \in Ids /\ status[loop.id] # "absent"
    BY <1>8 DEF CommitChange, EarnInv, DeployEarned, Deploying, ReviewInv, Unseen, Answered,
       TypeInv, InCycle
  <2>1. ReviewInv'
    BY <1>8 DEF CommitChange, ReviewInv, Unseen, Queued, Answered, rows
  <2>2. EarnInv'
    BY <1>8 DEF CommitChange, EarnInv, DeployEarned, LandedEarned, Deploying, rows, Landed
  <2>3. TreeInv'
    BY <1>8, <2>0 DEF CommitChange, TreeInv, DeployTree, Restored, Proposed,
       DeployedLanded, CommitIsDiff, TypeInv, TypeOK, PipelineOK, rows, Landed
  <2>4. CapInv'
    BY <1>8 DEF CommitChange, CapInv, Room, DeployCap, Deploying
  <2> QED
    BY <1>t, <2>1, <2>2, <2>3, <2>4
<1>9. ASSUME NEW ok \in BOOLEAN, RebuildServices(ok) PROVE SafeInv'
  <2>1. ReviewInv'
    BY <1>9 DEF RebuildServices, ReviewInv, Unseen, Queued, Answered, rows
  <2>2. EarnInv'
    BY <1>9 DEF RebuildServices, EarnInv, DeployEarned, LandedEarned, Deploying, rows,
       tree, Landed
  <2>3. TreeInv'
    BY <1>9 DEF RebuildServices, TreeInv, DeployTree, Restored, Proposed,
       DeployedLanded, CommitIsDiff, rows, tree, Landed
  <2>4. CapInv'
    BY <1>9 DEF RebuildServices, CapInv, Room, DeployCap, Deploying
  <2> QED
    BY <1>t, <2>1, <2>2, <2>3, <2>4
<1>10. ASSUME MarkDeployed PROVE SafeInv'
  <2>1. ReviewInv'
    BY <1>10 DEF MarkDeployed, EarnInv, DeployEarned, Deploying, ReviewInv, Unseen,
       Queued, Answered, TypeInv, TypeOK, RowsOK
  <2>2. EarnInv'
    BY <1>10 DEF MarkDeployed, EarnInv, DeployEarned, LandedEarned, Deploying, tree, Landed
  <2>3. TreeInv'
    BY <1>10 DEF MarkDeployed, TreeInv, DeployTree, Restored, Proposed,
       DeployedLanded, CommitIsDiff, tree, Landed
  <2>4. CapInv'
    <3>1. /\ IsFiniteSet(recent) /\ Cardinality(recent) \in Nat
          /\ Cardinality(recent) < MaxDeploys
      BY <1>10, RecentFinite DEF MarkDeployed, CapInv, Room, Deploying, TypeInv
    <3>2. Cardinality(recent') \in Nat /\ Cardinality(recent') <= Cardinality(recent) + 1
      BY <1>10, <3>1, FS_AddElement DEF MarkDeployed
    <3> QED
      BY <1>10, <3>1, <3>2, SelfModAssumption DEF MarkDeployed, CapInv, Room,
         DeployCap, Deploying
  <2> QED
    BY <1>t, <2>1, <2>2, <2>3, <2>4
<1>11. ASSUME NEW ok \in BOOLEAN, ReportDeployment(ok) PROVE SafeInv'
  <2>1. ReviewInv'
    BY <1>11 DEF ReportDeployment, IdleLoop, ReviewInv, Unseen, Queued, Answered, rows
  <2>2. EarnInv'
    BY <1>11 DEF ReportDeployment, IdleLoop, EarnInv, DeployEarned, LandedEarned,
       Deploying, rows, tree, Landed
  <2>3. TreeInv'
    BY <1>11 DEF ReportDeployment, IdleLoop, TreeInv, DeployTree, Restored, Proposed,
       DeployedLanded, CommitIsDiff, rows, tree, Landed
  <2>4. CapInv'
    BY <1>11 DEF ReportDeployment, IdleLoop, CapInv, Room, DeployCap, Deploying
  <2> QED
    BY <1>t, <2>1, <2>2, <2>3, <2>4
<1>12. ASSUME StartReview PROVE SafeInv'
  <2>1. ReviewInv'
    BY <1>12 DEF StartReview, ByStatus, ReviewInv, Unseen, Queued, Answered, rows
  <2>2. EarnInv'
    BY <1>12 DEF StartReview, EarnInv, DeployEarned, LandedEarned, Deploying, rows,
       tree, Landed
  <2>3. TreeInv'
    BY <1>12 DEF StartReview, TreeInv, DeployTree, Restored, Proposed, DeployedLanded,
       CommitIsDiff, rows, tree, Landed
  <2>4. CapInv'
    BY <1>12 DEF StartReview, CapInv, Room, DeployCap, Deploying
  <2> QED
    BY <1>t, <2>1, <2>2, <2>3, <2>4
<1>13. ASSUME NEW word \in {"allow", "deny"}, RecordReview(word) PROVE SafeInv'
  <2>0. Oldest(reviewer.queue) \in reviewer.queue /\ reviewer.queue \subseteq Ids
    BY <1>13, OldestIsIn DEF RecordReview, TypeInv, TypeOK, PipelineOK
  <2>1. ReviewInv'
    BY <1>13, <2>0 DEF RecordReview, ReviewInv, Unseen, Queued, Answered
  <2>2. EarnInv'
    BY <1>13 DEF RecordReview, EarnInv, DeployEarned, LandedEarned, Deploying, tree, Landed
  <2>3. TreeInv'
    BY <1>13, <2>0 DEF RecordReview, TreeInv, DeployTree, Restored, Proposed,
       DeployedLanded, CommitIsDiff, ReviewInv, Queued, tree, Landed
  <2>4. CapInv'
    BY <1>13 DEF RecordReview, CapInv, Room, DeployCap, Deploying
  <2> QED
    BY <1>t, <2>1, <2>2, <2>3, <2>4
<1>14. ASSUME ActOnReview PROVE SafeInv'
  <2>0. Oldest(reviewer.queue) \in reviewer.queue /\ reviewer.queue \subseteq Ids
    BY <1>14, OldestIsIn DEF ActOnReview, TypeInv, TypeOK, PipelineOK, Acting
  <2>1. ReviewInv'
    BY <1>14, <2>0 DEF ActOnReview, ReviewInv, Unseen, Queued, Answered, TypeInv,
       TypeOK, RowsOK
  <2>2. EarnInv'
    BY <1>14 DEF ActOnReview, EarnInv, DeployEarned, LandedEarned, Deploying, tree, Landed
  <2>3. TreeInv'
    BY <1>14, <2>0 DEF ActOnReview, TreeInv, DeployTree, Restored, Proposed,
       DeployedLanded, CommitIsDiff, ReviewInv, Queued, tree, Landed
  <2>4. CapInv'
    BY <1>14 DEF ActOnReview, CapInv, Room, DeployCap, Deploying
  <2> QED
    BY <1>t, <2>1, <2>2, <2>3, <2>4
<1>15. ASSUME NEW p \in Ids, Approve(p) PROVE SafeInv'
  <2>1. ReviewInv'
    BY <1>15 DEF Approve, ReviewInv, Unseen, Queued, Answered
  <2>2. EarnInv'
    BY <1>15 DEF Approve, EarnInv, DeployEarned, LandedEarned, Deploying, tree, Landed
  <2>3. TreeInv'
    BY <1>15 DEF Approve, TreeInv, DeployTree, Restored, Proposed, DeployedLanded,
       CommitIsDiff, ReviewInv, Unseen, tree, Landed
  <2>4. CapInv'
    BY <1>15 DEF Approve, CapInv, Room, DeployCap, Deploying
  <2> QED
    BY <1>t, <2>1, <2>2, <2>3, <2>4
<1>16. ASSUME NEW p \in Ids, Reject(p) PROVE SafeInv'
  <2>1. ReviewInv'
    BY <1>16 DEF Reject, ReviewInv, Unseen, Queued, Answered
  <2>2. EarnInv'
    BY <1>16 DEF Reject, EarnInv, DeployEarned, LandedEarned, Deploying, tree, Landed
  <2>3. TreeInv'
    BY <1>16 DEF Reject, TreeInv, DeployTree, Restored, Proposed, DeployedLanded,
       CommitIsDiff, ReviewInv, Unseen, tree, Landed
  <2>4. CapInv'
    BY <1>16 DEF Reject, CapInv, Room, DeployCap, Deploying
  <2> QED
    BY <1>t, <2>1, <2>2, <2>3, <2>4
<1>17. ASSUME NEW p \in Ids, Ages(p) PROVE SafeInv'
  <2>1. ReviewInv'
    BY <1>17 DEF Ages, ReviewInv, Unseen, Queued, Answered, rows
  <2>2. EarnInv'
    BY <1>17 DEF Ages, EarnInv, DeployEarned, LandedEarned, Deploying, rows, tree, Landed
  <2>3. TreeInv'
    BY <1>17 DEF Ages, TreeInv, DeployTree, Restored, Proposed, DeployedLanded,
       CommitIsDiff, rows, tree, Landed
  <2>4. CapInv'
    <3>1. /\ IsFiniteSet(recent) /\ Cardinality(recent) \in Nat
      BY RecentFinite DEF TypeInv
    <3>2. IsFiniteSet(recent') /\ Cardinality(recent') = Cardinality(recent) - 1
      BY <1>17, <3>1, FS_RemoveElement DEF Ages
    <3>3. Cardinality(recent') \in Nat
      BY <3>2, FS_CardinalityType
    <3> QED
      BY <1>17, <3>1, <3>2, <3>3, SelfModAssumption DEF Ages, CapInv, Room,
         DeployCap, Deploying
  <2> QED
    BY <1>t, <2>1, <2>2, <2>3, <2>4
<1>18. ASSUME LoopFails PROVE SafeInv'
  <2>1. ReviewInv'
    BY <1>18 DEF LoopFails, Fault, IdleLoop, ReviewInv, Unseen, Queued, Answered, rows
  <2>2. EarnInv'
    BY <1>18 DEF LoopFails, Fault, IdleLoop, EarnInv, DeployEarned, LandedEarned,
       Deploying, rows, tree, Landed
  <2>3. TreeInv'
    BY <1>18 DEF LoopFails, Fault, IdleLoop, TreeInv, DeployTree, Restored, Proposed,
       DeployedLanded, CommitIsDiff, TypeInv, TypeOK, rows, tree, Landed
  <2>4. CapInv'
    BY <1>18 DEF LoopFails, Fault, IdleLoop, CapInv, Room, DeployCap, Deploying
  <2> QED
    BY <1>t, <2>1, <2>2, <2>3, <2>4
<1>19. ASSUME ReviewerFails PROVE SafeInv'
  <2>1. ReviewInv'
    BY <1>19 DEF ReviewerFails, Fault, ReviewInv, Unseen, Queued, Answered, rows
  <2>2. EarnInv'
    BY <1>19 DEF ReviewerFails, Fault, EarnInv, DeployEarned, LandedEarned, Deploying,
       rows, tree, Landed
  <2>3. TreeInv'
    BY <1>19 DEF ReviewerFails, Fault, TreeInv, DeployTree, Restored, Proposed,
       DeployedLanded, CommitIsDiff, TypeInv, TypeOK, rows, tree, Landed
  <2>4. CapInv'
    BY <1>19 DEF ReviewerFails, Fault, CapInv, Room, DeployCap, Deploying
  <2> QED
    BY <1>t, <2>1, <2>2, <2>3, <2>4
<1>20. ASSUME NEW t \in Tickets, SessionFails(t) PROVE SafeInv'
  <2>1. ReviewInv'
    BY <1>20 DEF SessionFails, Fault, ReviewInv, Unseen, Queued, Answered, rows
  <2>2. EarnInv'
    BY <1>20 DEF SessionFails, Fault, EarnInv, DeployEarned, LandedEarned, Deploying,
       rows, tree, Landed
  <2>3. TreeInv'
    BY <1>20 DEF SessionFails, Fault, TreeInv, DeployTree, Restored, Proposed,
       DeployedLanded, CommitIsDiff, TypeInv, TypeOK, rows, tree, Landed
  <2>4. CapInv'
    BY <1>20 DEF SessionFails, Fault, CapInv, Room, DeployCap, Deploying
  <2> QED
    BY <1>t, <2>1, <2>2, <2>3, <2>4
<1> HIDE DEF SafeInv
<1>21. ASSUME NEW t \in Tickets, StartSession(t) PROVE UNCHANGED pipeline
  BY <1>21 DEF StartSession, pipeline, rows, tree
<1>22. ASSUME NEW t \in Tickets, SyncCheckout(t) PROVE UNCHANGED pipeline
  BY <1>22 DEF SyncCheckout, pipeline, rows, tree
<1>23. ASSUME NEW t \in Tickets, WriteCheckout(t) PROVE UNCHANGED pipeline
  BY <1>23 DEF WriteCheckout, pipeline, rows, tree
<1>24. ASSUME NEW t \in Tickets, EndSession(t) PROVE UNCHANGED pipeline
  BY <1>24 DEF EndSession, pipeline, rows, tree
<1>25. ASSUME NEW t \in Tickets, FindRaised(t) PROVE UNCHANGED pipeline
  BY <1>25 DEF FindRaised, pipeline, rows, tree
<1>26. ASSUME NEW t \in Tickets, Attribute(t) PROVE UNCHANGED pipeline
  BY <1>26 DEF Attribute, pipeline, tree
<1>27. CASE UNCHANGED vars
  BY <1>1, <1>27 DEF vars, pipeline, rows, tree
<1> QED
  BY <1>1, <1>2, <1>3, <1>4, <1>5, <1>6, <1>7, <1>8, <1>9, <1>10, <1>11, <1>12,
     <1>13, <1>14, <1>15, <1>16, <1>17, <1>18, <1>19, <1>20, <1>21, <1>22, <1>23,
     <1>24, <1>25, <1>26, <1>27
  DEF Next, Session, RunOneCycle, Review, Faults

LEMMA AlwaysSafe == Spec => []SafeInv
BY InitSafe, NextSafe, PTL DEF Spec

\* What was committed to the real tree ran clean, was allowed by the reviewer
\* and was said yes to by a person, whatever crashes and late answers come.
THEOREM OnlyEarnedChangesLand == Spec => []Earned
<1>1. SafeInv => Earned
  BY DEF SafeInv, EarnInv, LandedEarned, ReviewInv, Answered, Earned
<1> QED
  BY <1>1, AlwaysSafe, PTL

\* A proposal's commit holds that proposal's diff, also after a crash that left
\* another one's edits in the tree.
THEOREM CommitsAreDiffs == Spec => []CommitIsDiff
<1>1. SafeInv => CommitIsDiff
  BY DEF SafeInv, TreeInv
<1> QED
  BY <1>1, AlwaysSafe, PTL

\* Without a crash every cycle leaves the real tree clean.
THEOREM TreeIsRestored == Spec => []TreeRestored
<1>1. SafeInv => TreeRestored
  BY DEF SafeInv, TreeInv, Restored, TreeRestored
<1> QED
  BY <1>1, AlwaysSafe, PTL

\* The loop deploys no more in a day than its cap.
THEOREM DeploymentsAreCapped == Spec => []DeployCap
<1>1. SafeInv => DeployCap
  BY DEF SafeInv, CapInv
<1> QED
  BY <1>1, AlwaysSafe, PTL

\* A ticket is closed only for a committed change that carries it.
THEOREM ClosesOnlyDeployed == Spec => ClosedWasDeployed
<1> DEFINE Closing == \A t \in Tickets :
                        closed'[t] /\ ~closed[t] => \E p \in Landed : owner[p] = t
<1>1. SafeInv /\ [Next]_vars => Closing
  <2> SUFFICES ASSUME SafeInv, [Next]_vars, NEW t \in Tickets, closed'[t], ~closed[t]
               PROVE  \E p \in Landed : owner[p] = t
    OBVIOUS
  <2>1. PICK ok \in BOOLEAN : ReportDeployment(ok)
    BY DEF Next, Session, RunOneCycle, Review, Faults, vars, rows, board, agent, tree,
           StartSession, SyncCheckout, WriteCheckout, Propose, EndSession, FindRaised,
           Attribute, SandboxPending, RecordSandboxResult, DeployApproved, ApplyDiff,
           FinalTest, CommitChange, RebuildServices, MarkDeployed, StartReview,
           RecordReview, ActOnReview, Approve, Reject, Ages, LoopFails, ReviewerFails,
           SessionFails
  <2>2. status[loop.id] = "deployed" /\ owner[loop.id] = t
    BY <2>1 DEF ReportDeployment
  <2>3. loop.id \in Landed
    BY <2>1, <2>2 DEF ReportDeployment, SafeInv, TypeInv, InCycle, TreeInv, DeployedLanded
  <2> QED
    BY <2>2, <2>3
<1>2. SafeInv /\ [Next]_vars => [Closing]_vars
  BY <1>1
<1> QED
  BY <1>2, AlwaysSafe, PTL DEF Spec, ClosedWasDeployed

-----------------------------------------------------------------------------
\* Attribution. The rows say whose a proposal is by what was pending before and
\* after a session, which is right while one session runs at a time.

OneSession ==
  \A s, t \in Tickets : session[s].pc # "idle" /\ session[t].pc # "idle" => s = t

\* What became pending since a session began, it raised.
RaisedHere ==
  \A t \in Tickets : session[t].pc # "idle" =>
    \A p \in Ids : status[p] = "pending" /\ p \notin session[t].before => raiser[p] = t

Attributing ==
  \A t \in Tickets : session[t].pc = "attribute" => raiser[session[t].id] = t

Unraised == \A p \in Ids : status[p] = "absent" => raiser[p] = NoTicket

OwnerRaised == \A p \in Ids : owner[p] # NoTicket => owner[p] = raiser[p]

OwnInv ==
  OneSession /\ RaisedHere /\ Attributing /\ Unraised /\ OwnerRaised /\ ClosedByOwnChange

LEMMA InitOwn == Init => OwnInv
BY DEF Init, OwnInv, OneSession, RaisedHere, Attributing, Unraised, OwnerRaised,
       ClosedByOwnChange, IdleSession

\* What has landed was proposed: its row is not a free one.
LEMMA LandedNotAbsent == SafeInv => \A p \in Landed : status[p] # "absent"
BY DEF SafeInv, EarnInv, LandedEarned, ReviewInv, Unseen, Answered, Landed

LEMMA NextOwn ==
  ASSUME MaxAgents = 1, SafeInv, OwnInv, [Next]_vars
  PROVE  OwnInv'
<1> USE SelfModAssumption
    DEF OwnInv, OneSession, RaisedHere, Attributing, Unraised, OwnerRaised,
        ClosedByOwnChange, IdleSession, rows, board, agent, tree
<1>0. TypeOK
  BY DEF SafeInv, TypeInv
<1>1. ASSUME NEW t \in Tickets, StartSession(t) PROVE OwnInv'
  <2>1. InSession = {}
    <3>1. IsFiniteSet(InSession)
      BY FS_Subset DEF InSession
    <3>2. Cardinality(InSession) = 0
      BY <1>1, <3>1, FS_CardinalityType DEF StartSession
    <3> QED
      BY <3>1, <3>2, FS_EmptySet
  <2> DEFINE begun == [pc |-> IF thread[t] = "ended" THEN "ended" ELSE "running",
                       before |-> ByStatus("pending"), id |-> 0]
  <2>2. \A s \in Tickets : session[s].pc = "idle"
    BY <2>1 DEF InSession
  <2>3. /\ session' = [session EXCEPT ![t] = begun]
        /\ UNCHANGED <<status, raiser, owner, closed, commit>>
    BY <1>1 DEF StartSession
  <2>4. /\ begun.pc # "attribute"
        /\ \A p \in Ids : status[p] = "pending" => p \in begun.before
    BY DEF ByStatus
  <2> HIDE DEF begun
  <2> QED
    BY <1>0, <2>2, <2>3, <2>4 DEF TypeOK, AgentOK, Landed
<1>2. ASSUME NEW t \in Tickets, SyncCheckout(t) PROVE OwnInv'
  BY <1>2 DEF SyncCheckout, Landed
<1>3. ASSUME NEW t \in Tickets, WriteCheckout(t) PROVE OwnInv'
  BY <1>3 DEF WriteCheckout, Landed
<1>4. ASSUME NEW t \in Tickets, Propose(t) PROVE OwnInv'
  <2> DEFINE new == Oldest(ByStatus("absent"))
  <2>1. new \in Ids /\ status[new] = "absent"
    BY <1>4, OldestOfStatus DEF Propose, MayPropose
  <2>2. /\ status' = [status EXCEPT ![new] = "pending"]
        /\ raiser' = [raiser EXCEPT ![new] = t]
        /\ session[t].pc = "running"
        /\ UNCHANGED <<session, owner, closed, commit>>
    BY <1>4 DEF Propose
  <2>3. \A p \in Landed : p # new /\ raiser'[p] = raiser[p]
    BY <1>0, <2>1, <2>2, LandedNotAbsent DEF TypeOK, RowsOK, Landed
  <2> HIDE DEF new
  <2>4. OneSession' /\ RaisedHere'
    BY <1>0, <2>1, <2>2 DEF TypeOK, RowsOK
  <2>5. Attributing' /\ Unraised' /\ OwnerRaised'
    BY <1>0, <2>1, <2>2 DEF TypeOK, RowsOK
  <2>6. ClosedByOwnChange'
    BY <2>2, <2>3 DEF Landed
  <2> QED
    BY <2>4, <2>5, <2>6
<1>5. ASSUME NEW t \in Tickets, EndSession(t) PROVE OwnInv'
  BY <1>0, <1>5 DEF EndSession, TypeOK, AgentOK, Landed
<1>6. ASSUME NEW t \in Tickets, FindRaised(t) PROVE OwnInv'
  <2> DEFINE raised == ByStatus("pending") \ session[t].before
  <2>1. raised # {} => Oldest(raised) \in raised
    <3>1. raised \subseteq Ids
      BY DEF ByStatus
    <3> QED
      BY <3>1, OldestIsIn
  <2>2. \A p \in raised : raiser[p] = t
    BY <1>6 DEF FindRaised, ByStatus
  <2>3. /\ session[t].pc = "ended"
        /\ session' = [session EXCEPT ![t] = IF raised = {} THEN IdleSession
                         ELSE [@ EXCEPT !.pc = "attribute", !.id = Oldest(raised)]]
        /\ UNCHANGED <<status, raiser, owner, closed, commit>>
    BY <1>6 DEF FindRaised
  <2> HIDE DEF raised
  <2> QED
    BY <1>0, <2>1, <2>2, <2>3 DEF TypeOK, AgentOK, Landed
<1>7. ASSUME NEW t \in Tickets, Attribute(t) PROVE OwnInv'
  BY <1>0, <1>7 DEF Attribute, TypeOK, AgentOK, RowsOK, Landed
<1>8. CASE SandboxPending
  BY <1>8 DEF SandboxPending, Landed
<1>9. ASSUME NEW outcome \in {"clean", "unclean"}, RecordSandboxResult(outcome)
      PROVE  OwnInv'
  BY <1>0, <1>9 DEF RecordSandboxResult, TypeOK, RowsOK, Landed
<1>10. CASE DeployApproved
  BY <1>10 DEF DeployApproved, Landed
<1>11. CASE ApplyDiff
  BY <1>11 DEF ApplyDiff, Landed
<1>12. ASSUME NEW ok \in BOOLEAN, FinalTest(ok) PROVE OwnInv'
  BY <1>12 DEF FinalTest, Landed
<1>13. CASE CommitChange
  <2>1. Landed \subseteq Landed'
    BY <1>0, <1>13 DEF CommitChange, SafeInv, TreeInv, DeployTree, CommitIsDiff, Landed,
       TypeOK, PipelineOK
  <2> QED
    BY <1>13, <2>1 DEF CommitChange
<1>14. ASSUME NEW ok \in BOOLEAN, RebuildServices(ok) PROVE OwnInv'
  BY <1>14 DEF RebuildServices, Landed
<1>15. CASE MarkDeployed
  BY <1>0, <1>15 DEF MarkDeployed, TypeOK, RowsOK, Landed
<1>16. ASSUME NEW ok \in BOOLEAN, ReportDeployment(ok) PROVE OwnInv'
  <2>1. status[loop.id] = "deployed" => loop.id \in Landed
    BY <1>16 DEF ReportDeployment, SafeInv, TypeInv, InCycle, TreeInv, DeployedLanded
  <2>2. \A t \in Tickets : closed'[t] =>
          closed[t] \/ (status[loop.id] = "deployed" /\ owner[loop.id] = t)
    BY <1>16 DEF ReportDeployment
  <2>3. ClosedByOwnChange'
    BY <1>16, <2>1, <2>2 DEF ReportDeployment, Landed
  <2> QED
    BY <1>16, <2>3 DEF ReportDeployment
<1>17. CASE StartReview
  BY <1>17 DEF StartReview, Landed
<1>18. ASSUME NEW word \in {"allow", "deny"}, RecordReview(word) PROVE OwnInv'
  BY <1>0, <1>18 DEF RecordReview, TypeOK, RowsOK, Landed
<1>19. CASE ActOnReview
  BY <1>0, <1>19 DEF ActOnReview, TypeOK, RowsOK, Landed
<1>20. ASSUME NEW p \in Ids, Approve(p) PROVE OwnInv'
  BY <1>0, <1>20 DEF Approve, TypeOK, RowsOK, Landed
<1>21. ASSUME NEW p \in Ids, Reject(p) PROVE OwnInv'
  BY <1>0, <1>21 DEF Reject, TypeOK, RowsOK, Landed
<1>22. ASSUME NEW p \in Ids, Ages(p) PROVE OwnInv'
  BY <1>22 DEF Ages, Landed
<1>23. CASE LoopFails
  BY <1>23 DEF LoopFails, Landed
<1>24. CASE ReviewerFails
  BY <1>24 DEF ReviewerFails, Landed
<1>25. ASSUME NEW t \in Tickets, SessionFails(t) PROVE OwnInv'
  BY <1>0, <1>25 DEF SessionFails, TypeOK, AgentOK, Landed
<1>26. CASE UNCHANGED vars
  BY <1>26 DEF vars, Landed
<1> HIDE DEF OwnInv
<1> QED
  BY <1>1, <1>2, <1>3, <1>4, <1>5, <1>6, <1>7, <1>8, <1>9, <1>10, <1>11, <1>12, <1>13,
     <1>14, <1>15, <1>16, <1>17, <1>18, <1>19, <1>20, <1>21, <1>22, <1>23, <1>24, <1>25,
     <1>26
  DEF Next, Session, RunOneCycle, Review, Faults

\* With one running agent, the default, a ticket is closed by a change its own
\* session proposed. (With two it is not: run wrongticket.)
THEOREM OneAgentClosesItsOwn ==
  ASSUME MaxAgents = 1
  PROVE  Spec => []ClosedByOwnChange
<1>1. SafeInv /\ OwnInv /\ [Next]_vars => OwnInv'
  BY NextOwn
<1>2. OwnInv => ClosedByOwnChange
  BY DEF OwnInv
<1> QED
  BY <1>1, <1>2, InitOwn, AlwaysSafe, PTL DEF Spec

=============================================================================
