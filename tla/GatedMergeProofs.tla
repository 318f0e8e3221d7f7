-------------------------- MODULE GatedMergeProofs --------------------------
(***************************************************************************)
(* Why TicketLifecycle's gated merge is safe, for every set of tickets and *)
(* seats and every value of the limits.                                    *)
(*                                                                         *)
(* Everything rests on one fact: while a thread works on a ticket that was *)
(* not re-seated under it, the ticket's seat is the thread's (OwnSeat), so *)
(* no second thread moves the branch under a verdict.  GatedConfig names   *)
(* what the code relies on for the rest.                                   *)
(***************************************************************************)
EXTENDS TicketLifecycleProofs

\* The verifier runs in the closing thread only, agents leave git commit to the
\* harness, criteria are more than checks.
GatedConfig ==
  /\ ~SchedulerVerifies /\ ~AgentCommits
  /\ \A t \in Tickets : Kind[t] # "checks"


Active == {"claimed", "prepared", "working", "commit", "record", "landing",
           "closing", "verifying"}

\* A thread at work has its ticket's seat, unless the ticket was re-seated.
OwnSeat ==
  \A s \in Seats : agent[s].pc \in Active =>
    agent[s].ticket \in reseated \/ seat[agent[s].ticket] = s

\* Only the harness commits.
HarnessOnly == \A t \in Tickets : \A c \in branch[t] : c.by = "harness"

\* A seat's verification or landing is of the ticket its thread holds.
CheckOwned ==
  /\ check[Scheduler].pc = "idle"
  /\ \A s \in Seats : check[s].pc # "idle" =>
       /\ check[s].ticket = agent[s].ticket
       /\ agent[s].pc \in {"verifying", "landing"}
       /\ agent[s].pc = "landing" => /\ Kind[agent[s].ticket] = "none"
                                     /\ check[s].pc \notin {"shown", "judged"}

\* What a verdict is about covers the branch it will land.
DiffCovers ==
  \A s \in Seats : LET t == check[s].ticket IN t \notin reseated =>
    /\ check[s].pc = "judged" => branch[t] \subseteq check[s].diff
    /\ check[s].pc = "land" /\ Kind[t] # "none" => branch[t] \subseteq approved[t]

\* The count a check works with is the ticket's, and pays for each requeue.
CheckBudget(s) ==
  LET t == check[s].ticket IN
  /\ check[s].pc \in {"shown", "judged"} => check[s].reworks = reworks[t]
  /\ check[s].pc = "redo" => check[s].reworks = reworks[t] + 1 /\ reworks[t] + 1 <= MaxReworks
  /\ check[s].pc = "reopen" => requeues[t] + 1 <= reworks[t]

Budget ==
  /\ \A t \in Tickets \ reseated : requeues[t] <= reworks[t] /\ reworks[t] <= MaxReworks
  /\ \A s \in Seats : check[s].ticket \notin reseated => CheckBudget(s)

SafeInv ==
  /\ TypeInv
  /\ OwnSeat
  /\ HarnessOnly
  /\ CheckOwned
  /\ DiffCovers
  /\ Budget
  /\ LandedWasReviewed
  /\ FreshTree

-----------------------------------------------------------------------------
\* How a step of one thread leaves the slots: the others alone, and its own on
\* the ticket it had.
ThreadMoves(s) ==
  /\ \A r \in Seats \ {s} : agent'[r] = agent[r]
  /\ agent[s].pc \notin {"idle", "verifying", "landing"}
  /\ agent'[s].pc \in Active =>
       /\ agent'[s].ticket = agent[s].ticket
       /\ agent[s].pc \in Active \/ seat[agent[s].ticket] = s
  /\ agent'[s].pc = "prepared" => PrepareTree(s) \/ agent'[s] = agent[s]

LEMMA ThreadStep ==
  ASSUME TypeInv, NEW s \in Seats, Work(s)
  PROVE  ThreadMoves(s)
<1> USE DEF ThreadMoves, Active, AgentOK
<1>0. AgentOK BY DEF TypeInv, TypeOK
<1>1. CASE PrepareTree(s) BY <1>0, <1>1 DEF PrepareTree, Step
<1>2. CASE BeginRun(s) BY <1>0, <1>2 DEF BeginRun
<1>3. CASE AgentEdits(s) BY <1>0, <1>3 DEF AgentEdits
<1>4. CASE AgentCommitsItself(s) BY <1>0, <1>4 DEF AgentCommitsItself, CommitTree
<1>5. CASE CompleteTicket(s) BY <1>0, <1>5 DEF CompleteTicket, EndRun, Step
<1>6. CASE RefuseTicket(s) BY <1>0, <1>6 DEF RefuseTicket, EndRun, Step
<1>7. CASE DeclineTicket(s) BY <1>0, <1>7 DEF DeclineTicket, EndRun, Step
<1>8. CASE StopSilently(s) BY <1>0, <1>8 DEF StopSilently, EndRun, Step
<1>9. CASE RunFails(s) BY <1>0, <1>9 DEF RunFails
<1>10. CASE DecideOutcome(s) BY <1>0, <1>10 DEF DecideOutcome
<1>11. CASE CommitWork(s) BY <1>0, <1>11 DEF CommitWork, CommitTree
<1>12. CASE RecordWork(s) BY <1>0, <1>12 DEF RecordWork, Step
<1>13. CASE CloseTicket(s) BY <1>0, <1>13 DEF CloseTicket
<1>14. CASE ReleaseSlot(s) BY <1>0, <1>14 DEF ReleaseSlot, NoAgent
<1> QED BY <1>1, <1>2, <1>3, <1>4, <1>5, <1>6, <1>7, <1>8, <1>9, <1>10, <1>11, <1>12,
           <1>13, <1>14 DEF Work

\* How a step of one check leaves the checks and the slots.
CheckMoves(v) ==
  /\ \A u \in Verifiers \ {v} : check'[u] = check[u]
  /\ \A r \in Seats \ {v} : agent'[r] = agent[r]
  /\ check'[v].pc # "idle" => UNCHANGED agent
  /\ v \in Seats => /\ agent[v].pc \in {"verifying", "landing"}
                    /\ agent'[v].ticket = agent[v].ticket
                    /\ agent'[v].pc # "prepared"
  /\ UNCHANGED seat

LEMMA CheckStep ==
  ASSUME TypeInv, NEW v \in Verifiers, Verify(v) \/ CheckRaises(v)
  PROVE  CheckMoves(v)
<1> USE LifecycleAssumption DEF CheckMoves, AgentOK, CheckOK, CheckRuns, Verifiers, NoCheck, board
<1>0. AgentOK /\ CheckOK /\ CheckRuns BY DEF TypeInv, TypeOK
<1>1. CASE \E t \in Tickets : ShowTicket(v, t) BY <1>0, <1>1 DEF ShowTicket
<1>2. CASE ReadDiff(v) BY <1>0, <1>2 DEF ReadDiff
<1>3. CASE \E result \in {"pass", "fail"} : RecordVerdict(v, result) BY <1>0, <1>3 DEF RecordVerdict
<1>4. CASE ParkTicket(v) BY <1>0, <1>4 DEF ParkTicket, Return
<1>5. CASE LandTicket(v) BY <1>0, <1>5 DEF LandTicket, Return
<1>6. CASE LandFails(v) BY <1>0, <1>6 DEF LandFails
<1>7. CASE ClearClaim(v) BY <1>0, <1>7 DEF ClearClaim, Resume
<1>8. CASE ReopenTicket(v) BY <1>0, <1>8 DEF ReopenTicket, Resume
<1>9. CASE ResetThread(v) BY <1>0, <1>9 DEF ResetThread, Return
<1>10. CASE CheckRaises(v)
  <2> USE <1>0, <1>10 DEF CheckRaises, Return, Resume
  <2>1. \A u \in Verifiers \ {v} : check'[u] = check[u] OBVIOUS
  <2>2. /\ \A r \in Seats \ {v} : agent'[r] = agent[r]
        /\ v \in Seats => agent'[v].ticket = agent[v].ticket
        /\ v \in Seats => agent'[v].pc # "prepared"
    OBVIOUS
  <2>3. check'[v].pc # "idle" => UNCHANGED agent OBVIOUS
  <2>4. v \in Seats => agent[v].pc \in {"verifying", "landing"} OBVIOUS
  <2> QED BY <2>1, <2>2, <2>3, <2>4
<1> QED BY <1>1, <1>2, <1>3, <1>4, <1>5, <1>6, <1>7, <1>8, <1>9, <1>10 DEF Verify

\* A check that goes on was just begun, or is further with the ticket it had.
CheckAdvances(v) ==
  /\ check[v].pc # "idle"
  /\ check'[v].ticket = check[v].ticket
  /\ check'[v].pc # "shown"
  /\ check'[v].pc = "judged" => check[v].pc = "shown" /\ ReadDiff(v)
  /\ check'[v].pc = "land"   => RecordVerdict(v, "pass")
  /\ check'[v].pc = "redo"   => RecordVerdict(v, "fail") \/ LandFails(v)
  /\ check'[v].pc = "reopen" => ClearClaim(v)

LEMMA CheckProgress ==
  ASSUME TypeInv, NEW v \in Verifiers, Verify(v) \/ CheckRaises(v), check'[v].pc # "idle"
  PROVE  (\E t \in Tickets : ShowTicket(v, t)) \/ CheckAdvances(v)
<1> USE DEF CheckAdvances, CheckOK, NoCheck
<1>0. CheckOK BY DEF TypeInv, TypeOK
<1>1. CASE ReadDiff(v) BY <1>0, <1>1 DEF ReadDiff
<1>2. CASE \E result \in {"pass", "fail"} : RecordVerdict(v, result)
  <2>0. PICK result \in {"pass", "fail"} : RecordVerdict(v, result) BY <1>2
  <2>1. /\ check[v].pc = "judged" /\ check'[v].ticket = check[v].ticket
        /\ check'[v].pc \in {"land", "redo", "park"}
        /\ check'[v].pc = "land" <=> result = "pass"
    BY <1>0, <2>0 DEF RecordVerdict
  <2>2. check'[v].pc = "land" => RecordVerdict(v, "pass") BY <2>0, <2>1
  <2>3. check'[v].pc = "redo" => RecordVerdict(v, "fail") BY <2>0, <2>1
  <2> QED BY <2>1, <2>2, <2>3
<1>3. CASE ParkTicket(v) BY <1>0, <1>3 DEF ParkTicket, Return
<1>4. CASE LandTicket(v) BY <1>0, <1>4 DEF LandTicket, Return
<1>5. CASE LandFails(v)
  <2>1. /\ check[v].pc = "land" /\ check'[v].ticket = check[v].ticket
        /\ check'[v].pc \in {"redo", "park"}
    BY <1>0, <1>5 DEF LandFails
  <2> QED BY <1>5, <2>1
<1>6. CASE ClearClaim(v)
  <2>1. check[v].pc = "redo" /\ check' = [check EXCEPT ![v].pc = "reopen"]
    BY <1>6 DEF ClearClaim, Resume
  <2> QED BY <1>0, <1>6, <2>1
<1>7. CASE ReopenTicket(v) BY <1>0, <1>7 DEF ReopenTicket, Resume
<1>8. CASE ResetThread(v) BY <1>0, <1>8 DEF ResetThread, Return
<1>9. CASE CheckRaises(v)
  <2>1. \/ check' = [check EXCEPT ![v] = NoCheck]
        \/ check' = [check EXCEPT ![v].pc = "park"] /\ check[v].pc # "idle"
    BY <1>9 DEF CheckRaises, Return, Resume
  <2>2. /\ check'[v].pc = "park" /\ check'[v].ticket = check[v].ticket
        /\ check[v].pc # "idle"
    BY <1>0, <2>1
  <2> QED BY <2>2
<1> QED BY <1>1, <1>2, <1>3, <1>4, <1>5, <1>6, <1>7, <1>8, <1>9 DEF Verify

-----------------------------------------------------------------------------
\* What a crash leaves: no thread, and no check but the scheduler's.
LEMMA CrashStep ==
  ASSUME TypeInv, DispatcherCrash \/ SchedulerCrash
  PROVE  /\ UNCHANGED <<board, git, store, approved, requeues>>
         /\ \A s \in Seats : agent'[s] = agent[s] \/ agent'[s] = NoAgent
         /\ \A s \in Seats : \/ agent'[s] = agent[s] /\ check'[s] = check[s]
                            \/ check'[s] = NoCheck
         /\ check'[Scheduler] = check[Scheduler] \/ check'[Scheduler] = NoCheck
<1> USE LifecycleAssumption DEF TypeInv, TypeOK, AgentOK, CheckOK, Verifiers
<1>1. CASE DispatcherCrash BY <1>1 DEF DispatcherCrash
<1>2. CASE SchedulerCrash BY <1>2 DEF SchedulerCrash
<1> QED BY <1>1, <1>2

-----------------------------------------------------------------------------
\* Who writes what.

MovesTree(s) == PrepareTree(s) \/ AgentEdits(s) \/ AgentCommitsItself(s) \/ CommitWork(s)
Merges ==
  \/ \E v \in Verifiers : LandTicket(v)
  \/ \E t \in Tickets : HumanAccepts(t)
Approves ==
  \/ \E v \in Verifiers, result \in {"pass", "fail"} : RecordVerdict(v, result)
  \/ \E t \in Tickets : HumanAccepts(t)

Frame ==
  /\ UNCHANGED <<branch, dirty>> \/ \E s \in Seats : MovesTree(s)
  /\ UNCHANGED landed \/ Merges
  /\ UNCHANGED approved \/ Approves
  /\ UNCHANGED <<reworks, requeues>> \/ \E v \in Verifiers : ClearClaim(v) \/ ReopenTicket(v)
  /\ UNCHANGED reseated \/ \E t \in Tickets, s \in Seats : AssignTicket(t, s)
  /\ reseated \subseteq reseated'

LEMMA FrameNext == [Next]_vars => Frame
<1> SUFFICES ASSUME [Next]_vars PROVE Frame OBVIOUS
<1> USE DEF Frame, board, git, store
<1>1. CASE Dispatch BY <1>1 DEF Dispatch, AssignFront, StartAgent
<1>t. CASE Triage BY <1>t DEF Triage, AssignTicket
<1>2. ASSUME NEW s \in Seats, Work(s) PROVE Frame
  <2>1. CASE MovesTree(s)
    BY <2>1 DEF MovesTree, PrepareTree, AgentEdits, AgentCommitsItself, CommitWork
  <2>2. CASE BeginRun(s) \/ CompleteTicket(s) \/ RefuseTicket(s) \/ DeclineTicket(s)
    BY <2>2 DEF BeginRun, CompleteTicket, RefuseTicket, DeclineTicket
  <2>3. CASE StopSilently(s) \/ RunFails(s) \/ DecideOutcome(s)
    BY <2>3 DEF StopSilently, RunFails, DecideOutcome
  <2>4. CASE RecordWork(s) \/ CloseTicket(s) \/ ReleaseSlot(s)
    BY <2>4 DEF RecordWork, CloseTicket, ReleaseSlot
  <2> QED BY <1>2, <2>1, <2>2, <2>3, <2>4 DEF Work, MovesTree
<1>3. ASSUME NEW s \in Seats, VerifyNothing(s) PROVE Frame BY <1>3 DEF VerifyNothing
<1>4. ASSUME NEW v \in Verifiers, Verify(v) PROVE Frame
  <2>1. CASE LandTicket(v) BY <2>1 DEF LandTicket, Merges
  <2>2. CASE \E result \in {"pass", "fail"} : RecordVerdict(v, result)
    BY <2>2 DEF RecordVerdict, Approves
  <2>3. CASE ClearClaim(v) \/ ReopenTicket(v) BY <2>3 DEF ClearClaim, ReopenTicket
  <2>4. CASE \/ \E t \in Tickets : ShowTicket(v, t)
             \/ ReadDiff(v) \/ ParkTicket(v) \/ LandFails(v) \/ ResetThread(v)
    BY <2>4 DEF ShowTicket, ReadDiff, ParkTicket, LandFails, ResetThread
  <2> QED BY <1>4, <2>1, <2>2, <2>3, <2>4 DEF Verify
<1>5. CASE Human BY <1>5 DEF Human, HumanResponds, HumanAccepts, Merges, Approves
<1>6. CASE Faults BY <1>6 DEF Faults, CheckRaises, DispatcherCrash, SchedulerCrash
<1>7. CASE UNCHANGED vars BY <1>7 DEF vars
<1> QED BY <1>1, <1>t, <1>2, <1>3, <1>4, <1>5, <1>6, <1>7 DEF Next

-----------------------------------------------------------------------------
\* Whose ticket it is.

\* Two threads at work on one ticket are one thread.
LEMMA Exclusive ==
  ASSUME OwnSeat, NEW r \in Seats, NEW s \in Seats,
         agent[r].pc \in Active, agent[s].pc \in Active,
         agent[r].ticket = agent[s].ticket, agent[s].ticket \notin reseated
  PROVE  r = s
BY DEF OwnSeat

LEMMA OwnSeatNext ==
  ASSUME TypeInv, OwnSeat, [Next]_vars
  PROVE  OwnSeat'
<1> SUFFICES ASSUME NEW r \in Seats, agent'[r].pc \in Active, agent'[r].ticket \notin reseated'
             PROVE  seat'[agent'[r].ticket] = r
  BY DEF OwnSeat, Active
<1> USE LifecycleAssumption DEF OwnSeat
<1>0. agent[r].pc \in Active => agent[r].ticket \in Tickets
  BY DEF TypeInv, AgentHeld, Active
<1>a. agent'[r].ticket \notin reseated BY FrameNext DEF Frame
<1>1. ASSUME NEW t \in Tickets, NEW s \in Seats, AssignFront(t, s) \/ AssignTicket(t, s)
      PROVE  seat'[agent'[r].ticket] = r
  <2>1. agent'[r] = agent[r] /\ seat' = [seat EXCEPT ![t] = s]
    BY <1>1 DEF AssignFront, AssignTicket
  <2>2. agent[r].ticket = t => seat[t] = r BY <1>a, <2>1
  <2>3. agent[r].ticket = t => s = r
    BY <1>1, <2>1, <2>2 DEF AssignFront, AssignTicket, TakenFromThread
  <2> QED BY <1>0, <1>a, <2>1, <2>3 DEF TypeInv, TypeOK, BoardOK
<1>2. ASSUME NEW t \in Tickets, NEW s \in Seats, StartAgent(s, t) PROVE seat'[agent'[r].ticket] = r
  BY <1>2, <1>a DEF StartAgent, NoAgent, TypeInv, TypeOK, AgentOK
<1>3. ASSUME NEW s \in Seats, DeclineTicket(s) PROVE seat'[agent'[r].ticket] = r
  <2>1. agent[s].pc = "working" BY <1>3 DEF DeclineTicket, EndRun, Step
  <2>2. r # s BY <1>3 DEF DeclineTicket, EndRun, Step, Active, TypeInv, TypeOK, AgentOK
  <2>3. agent'[r] = agent[r] BY <1>3, <2>2 DEF DeclineTicket, EndRun, Step, TypeInv, TypeOK, AgentOK
  <2>4. agent[r].ticket # agent[s].ticket BY <1>a, <2>1, <2>2, <2>3 DEF Active
  <2> QED BY <1>3, <2>3, <2>4 DEF DeclineTicket, TypeInv, TypeOK, BoardOK
<1>4. ASSUME NEW s \in Seats, Work(s), ~DeclineTicket(s) PROVE seat'[agent'[r].ticket] = r
  <2>1. UNCHANGED seat
    BY <1>4 DEF Work, board, PrepareTree, BeginRun, AgentEdits, AgentCommitsItself,
       CompleteTicket, RefuseTicket, StopSilently, RunFails, DecideOutcome, CommitWork,
       RecordWork, CloseTicket, ReleaseSlot
  <2>2. ThreadMoves(s) BY <1>4, ThreadStep
  <2> QED BY <1>a, <2>1, <2>2 DEF ThreadMoves
<1>5. ASSUME NEW s \in Seats, VerifyNothing(s) PROVE seat'[agent'[r].ticket] = r
  BY <1>5, <1>a DEF VerifyNothing, Return, board, TypeInv, TypeOK, AgentOK, Active
<1>6. ASSUME NEW v \in Verifiers, Verify(v) \/ CheckRaises(v) PROVE seat'[agent'[r].ticket] = r
  <2>1. CheckMoves(v) BY <1>6, CheckStep
  <2> QED BY <1>a, <2>1 DEF CheckMoves, Active
<1>7. CASE Human
  BY <1>7, <1>a DEF Human, HumanResponds, HumanAccepts, Answer
<1>8. CASE DispatcherCrash \/ SchedulerCrash
  <2>1. agent'[r] = agent[r] \/ agent'[r] = NoAgent BY <1>8, CrashStep
  <2>2. agent'[r] = agent[r] BY <2>1 DEF NoAgent, Active
  <2>3. UNCHANGED seat BY <1>8 DEF DispatcherCrash, SchedulerCrash, board
  <2> QED BY <1>a, <2>2, <2>3
<1>9. CASE UNCHANGED vars BY <1>9, <1>a DEF vars, board
<1> QED BY <1>1, <1>2, <1>3, <1>4, <1>5, <1>6, <1>7, <1>8, <1>9 DEF Next, Dispatch, Triage, Faults

-----------------------------------------------------------------------------
\* One conjunct of the invariant after the other.

LEMMA HarnessOnlyNext ==
  ASSUME TypeInv, HarnessOnly, ~AgentCommits, [Next]_vars
  PROVE  HarnessOnly'
<1> USE DEF HarnessOnly
<1>1. CASE UNCHANGED <<branch, dirty>> BY <1>1
<1>2. ASSUME NEW s \in Seats, MovesTree(s) PROVE HarnessOnly'
  BY <1>2 DEF MovesTree, PrepareTree, AgentEdits, AgentCommitsItself, CommitWork,
              CommitTree, TypeInv, TypeOK, GitOK
<1> QED BY <1>1, <1>2, FrameNext DEF Frame

LEMMA CheckOwnedNext ==
  ASSUME TypeInv, CheckOwned, GatedConfig, [Next]_vars
  PROVE  CheckOwned'
<1> USE LifecycleAssumption DEF CheckOwned
<1>0. TypeOK /\ CheckOK /\ AgentOK /\ AgentHeld BY DEF TypeInv, TypeOK
<1>1. CASE Dispatch BY <1>1, <1>0 DEF Dispatch, AssignFront, StartAgent, Startable, Busy, AgentOK
<1>t. CASE Triage BY <1>t, <1>0 DEF Triage, AssignTicket
<1>2. ASSUME NEW s \in Seats, Work(s) PROVE CheckOwned'
  <2>1. ThreadMoves(s) BY <1>2, ThreadStep
  <2>2. check[s].pc = "idle" BY <2>1 DEF ThreadMoves
  <2>3. CASE RecordWork(s)
    <3>1. CASE Kind[agent[s].ticket] = "criteria"
      BY <2>1, <2>2, <2>3, <3>1, <1>0 DEF ThreadMoves, RecordWork
    <3>2. CASE Kind[agent[s].ticket] = "none"
      <4>1. /\ agent'[s].pc = "landing" /\ agent'[s].ticket = agent[s].ticket
            /\ check'[s].ticket = agent[s].ticket /\ check'[s].pc = "land"
            /\ \A v \in Verifiers \ {s} : check'[v] = check[v]
        BY <2>3, <3>2, <1>0 DEF RecordWork, Step, NoCheck, AgentOK, CheckOK, Verifiers
      <4> QED BY <2>1, <4>1, <3>2 DEF ThreadMoves, Verifiers
    <3> QED BY <3>1, <3>2, <1>0, <2>3 DEF GatedConfig, AgentHeld, RecordWork, Step
  <2>4. CASE ~RecordWork(s)
    <3>1. UNCHANGED check
      BY <1>2, <2>4 DEF Work, PrepareTree, BeginRun, AgentEdits, AgentCommitsItself,
         CompleteTicket, RefuseTicket, DeclineTicket, StopSilently, RunFails,
         DecideOutcome, CommitWork, CloseTicket, ReleaseSlot
    <3> QED BY <2>1, <2>2, <3>1 DEF ThreadMoves
  <2> QED BY <2>3, <2>4
<1>3. ASSUME NEW s \in Seats, VerifyNothing(s) PROVE CheckOwned'
  BY <1>3, <1>0 DEF VerifyNothing, Return, NoCheck, CheckOK, AgentOK, Verifiers
<1>4. ASSUME NEW v \in Verifiers, Verify(v) \/ CheckRaises(v) PROVE CheckOwned'
  <2>1. CheckMoves(v) BY <1>4, CheckStep
  <2>2. v \in Seats
    BY <1>4 DEF Verifiers, GatedConfig, Verify, ShowTicket, ReadDiff, RecordVerdict,
       ParkTicket, LandTicket, LandFails, ClearClaim, ReopenTicket, ResetThread, CheckRaises
  <2>3. check'[v].pc # "idle" =>
          /\ check'[v].ticket = agent[v].ticket
          /\ agent[v].pc = "landing" => /\ Kind[agent[v].ticket] = "none"
                                        /\ check'[v].pc \notin {"shown", "judged"}
    <3> SUFFICES ASSUME check'[v].pc # "idle"
                 PROVE  /\ check'[v].ticket = agent[v].ticket
                        /\ agent[v].pc = "landing" => /\ Kind[agent[v].ticket] = "none"
                                                      /\ check'[v].pc \notin {"shown", "judged"}
      OBVIOUS
    <3>1. ASSUME NEW t \in Tickets, ShowTicket(v, t)
          PROVE  check'[v].ticket = agent[v].ticket /\ agent[v].pc = "verifying"
      BY <3>1, <2>2, <1>0 DEF ShowTicket, CheckOK, Verifiers
    <3>2. CASE CheckAdvances(v) BY <3>2, <2>2 DEF CheckAdvances
    <3> QED BY <1>4, <3>1, <3>2, CheckProgress
  <2> QED BY <2>1, <2>2, <2>3 DEF CheckMoves, Verifiers
<1>5. CASE Human BY <1>5 DEF Human, HumanResponds, HumanAccepts
<1>6. CASE DispatcherCrash \/ SchedulerCrash
  <2>1. \A s \in Seats : \/ agent'[s] = agent[s] /\ check'[s] = check[s]
                         \/ check'[s].pc = "idle"
    BY <1>6, CrashStep DEF NoCheck
  <2>2. check'[Scheduler].pc = "idle" BY <1>6, CrashStep DEF NoCheck
  <2> QED BY <2>1, <2>2
<1>7. CASE UNCHANGED vars BY <1>7 DEF vars
<1> QED BY <1>1, <1>t, <1>2, <1>3, <1>4, <1>5, <1>6, <1>7 DEF Next, Faults

\* A slot is prepared by its thread, and stays so until the run begins.
LEMMA PreparedNext ==
  ASSUME TypeInv, [Next]_vars, NEW s \in Seats, agent'[s].pc = "prepared"
  PROVE  agent'[s] = agent[s] \/ PrepareTree(s)
<1>0. AgentOK BY DEF TypeInv, TypeOK
<1>1. CASE Dispatch
  <2>1. ASSUME NEW t \in Tickets, NEW r \in Seats, AssignFront(t, r) PROVE agent'[s] = agent[s]
    BY <2>1 DEF AssignFront
  <2>2. ASSUME NEW t \in Tickets, NEW r \in Seats, StartAgent(r, t) PROVE agent'[s] = agent[s]
    BY <1>0, <2>2 DEF StartAgent, NoAgent, AgentOK
  <2> QED BY <1>1, <2>1, <2>2 DEF Dispatch
<1>t. CASE Triage BY <1>0, <1>t DEF Triage, AssignTicket
<1>2. ASSUME NEW r \in Seats, Work(r) PROVE agent'[s] = agent[s] \/ PrepareTree(s)
  BY <1>2, ThreadStep DEF ThreadMoves
<1>3. ASSUME NEW r \in Seats, VerifyNothing(r) PROVE agent'[s] = agent[s]
  BY <1>0, <1>3, LifecycleAssumption DEF VerifyNothing, Return, AgentOK
<1>4. ASSUME NEW v \in Verifiers, Verify(v) \/ CheckRaises(v) PROVE agent'[s] = agent[s]
  BY <1>4, CheckStep DEF CheckMoves
<1>5. CASE Human BY <1>5 DEF Human, HumanResponds, HumanAccepts
<1>6. CASE DispatcherCrash \/ SchedulerCrash BY <1>6, CrashStep DEF NoAgent
<1>7. CASE UNCHANGED vars BY <1>7 DEF vars
<1> QED BY <1>1, <1>t, <1>2, <1>3, <1>4, <1>5, <1>6, <1>7 DEF Next, Faults

\* Only requeue_for_rework drops a thread.
LEMMA ThreadDropped ==
  ASSUME TypeInv, [Next]_vars, NEW t \in Tickets, thread'[t] = "none"
  PROVE  \/ thread[t] = "none"
         \/ \E v \in Verifiers : ResetThread(v) /\ check[v].ticket = t
<1> DEFINE Goal == \/ thread[t] = "none"
                   \/ \E v \in Verifiers : ResetThread(v) /\ check[v].ticket = t
<1> SUFFICES Goal OBVIOUS
<1>0. StoreOK BY DEF TypeInv, TypeOK
<1> USE <1>0 DEF StoreOK, store
<1>1. CASE Dispatch BY <1>1 DEF Dispatch, AssignFront, StartAgent
<1>t. CASE Triage BY <1>t DEF Triage, AssignTicket
<1>2. ASSUME NEW s \in Seats, Work(s) PROVE thread[t] = "none"
  <2>1. CASE BeginRun(s) BY <2>1 DEF BeginRun
  <2>2. CASE EndRun(s) BY <2>2 DEF EndRun
  <2>3. CASE UNCHANGED thread BY <2>3
  <2> QED BY <1>2, <2>1, <2>2, <2>3 DEF Work, PrepareTree, AgentEdits, AgentCommitsItself,
        CompleteTicket, RefuseTicket, DeclineTicket, StopSilently, RunFails, DecideOutcome,
        CommitWork, RecordWork, CloseTicket, ReleaseSlot
<1>3. ASSUME NEW s \in Seats, VerifyNothing(s) PROVE Goal BY <1>3 DEF VerifyNothing
<1>4. ASSUME NEW v \in Verifiers, Verify(v) PROVE Goal
  <2>1. CASE ResetThread(v) BY <2>1 DEF ResetThread
  <2>2. CASE UNCHANGED thread BY <2>2
  <2> QED BY <1>4, <2>1, <2>2 DEF Verify, ShowTicket, ReadDiff, RecordVerdict,
        ParkTicket, LandTicket, LandFails, ClearClaim, ReopenTicket
<1>5. CASE Human BY <1>5 DEF Human, HumanResponds, HumanAccepts
<1>6. CASE Faults BY <1>6 DEF Faults, CheckRaises, DispatcherCrash, SchedulerCrash
<1>7. CASE UNCHANGED vars BY <1>7 DEF vars
<1> QED BY <1>1, <1>t, <1>2, <1>3, <1>4, <1>5, <1>6, <1>7 DEF Next

\* Nothing landed is taken back, and no approval is withdrawn.
LEMMA GateGrows ==
  ASSUME TypeInv, [Next]_vars, NEW t \in Tickets
  PROVE  landed[t] \subseteq landed'[t] /\ approved[t] \subseteq approved'[t]
<1> USE DEF TypeInv, TypeOK, GitOK, HistoryOK
<1>1. landed[t] \subseteq landed'[t]
  <2>1. ASSUME NEW v \in Verifiers, LandTicket(v) PROVE landed[t] \subseteq landed'[t]
    BY <2>1 DEF LandTicket
  <2>2. ASSUME NEW u \in Tickets, HumanAccepts(u) PROVE landed[t] \subseteq landed'[t]
    BY <2>2 DEF HumanAccepts
  <2> QED BY <2>1, <2>2, FrameNext DEF Frame, Merges
<1>2. approved[t] \subseteq approved'[t]
  <2>1. ASSUME NEW v \in Verifiers, NEW result \in {"pass", "fail"}, RecordVerdict(v, result)
        PROVE  approved[t] \subseteq approved'[t]
    BY <2>1 DEF RecordVerdict
  <2>2. ASSUME NEW u \in Tickets, HumanAccepts(u) PROVE approved[t] \subseteq approved'[t]
    BY <2>2 DEF HumanAccepts
  <2> QED BY <2>1, <2>2, FrameNext DEF Frame, Approves
<1> QED BY <1>1, <1>2

LEMMA FreshTreeNext ==
  ASSUME TypeInv, OwnSeat, CheckOwned, FreshTree, [Next]_vars
  PROVE  FreshTree'
<1> SUFFICES ASSUME NEW s \in Seats, agent'[s].pc = "prepared",
                    thread'[agent'[s].ticket] = "none", agent'[s].ticket \notin reseated'
             PROVE  /\ branch'[agent'[s].ticket] \subseteq landed'[agent'[s].ticket]
                    /\ ~dirty'[agent'[s].ticket]
  BY DEF FreshTree
<1>a. agent'[s].ticket \notin reseated BY FrameNext DEF Frame
<1>1. CASE PrepareTree(s)
  <2>1. agent[s].ticket \in Tickets BY <1>1, HeldTicket DEF PrepareTree, Step
  <2>2. agent'[s].ticket = agent[s].ticket
    BY <1>1 DEF PrepareTree, Step, TypeInv, TypeOK, AgentOK
  <2> QED BY <1>1, <2>1, <2>2 DEF PrepareTree, store, TypeInv, TypeOK, GitOK
<1>2. CASE agent'[s] = agent[s]
  <2> DEFINE t == agent[s].ticket
  <2>0. t \in Tickets BY <1>2, HeldTicket
  <2>1. ~\E v \in Verifiers : ResetThread(v) /\ check[v].ticket = t
    <3> SUFFICES ASSUME NEW v \in Verifiers, ResetThread(v), check[v].ticket = t PROVE FALSE
      OBVIOUS
    <3>1. /\ v \in Seats /\ agent[v].ticket = t
          /\ agent[v].pc \in {"verifying", "landing"}
      BY DEF CheckOwned, ResetThread, Verifiers
    <3> QED BY <3>1, <1>2, <1>a, Exclusive DEF Active
  <2>2. thread[t] = "none" BY <1>2, <2>0, <2>1, ThreadDropped
  <2>3. branch[t] \subseteq landed[t] /\ ~dirty[t] BY <1>2, <1>a, <2>2 DEF FreshTree
  <2>4. branch'[t] = branch[t] /\ dirty'[t] = dirty[t]
    <3>1. CASE UNCHANGED <<branch, dirty>> BY <3>1
    <3>2. ASSUME NEW r \in Seats, MovesTree(r)
          PROVE  branch'[t] = branch[t] /\ dirty'[t] = dirty[t]
      <4>1. agent[r].pc \in Active \ {"prepared"}
        BY <3>2 DEF MovesTree, PrepareTree, Step, AgentEdits, AgentCommitsItself, CommitWork, Active
      <4>2. agent[r].ticket # t BY <4>1, <1>2, <1>a, Exclusive DEF Active
      <4> QED BY <3>2, <4>2, <2>0 DEF MovesTree, PrepareTree, AgentEdits, AgentCommitsItself,
            CommitWork, CommitTree, TypeInv, TypeOK, GitOK
    <3> QED BY <3>1, <3>2, FrameNext DEF Frame
  <2>5. landed[t] \subseteq landed'[t] BY <2>0, GateGrows
  <2> QED BY <1>2, <2>3, <2>4, <2>5
<1> QED BY <1>1, <1>2, PreparedNext

\* A seat's check is moved by its own thread only.
OwnCheck(s) ==
  \/ check'[s] = check[s]
  \/ check'[s].pc = "idle"
  \/ RecordWork(s)
  \/ Verify(s) \/ CheckRaises(s)

LEMMA OwnCheckNext ==
  ASSUME TypeInv, [Next]_vars, NEW s \in Seats
  PROVE  OwnCheck(s)
<1> USE DEF OwnCheck
<1>0. CheckOK BY DEF TypeInv, TypeOK
<1>1. CASE Dispatch BY <1>1 DEF Dispatch, AssignFront, StartAgent
<1>t. CASE Triage BY <1>t DEF Triage, AssignTicket
<1>2. ASSUME NEW r \in Seats, Work(r) PROVE OwnCheck(s)
  <2>1. CASE RecordWork(r) BY <2>1, <1>0, LifecycleAssumption DEF RecordWork, CheckOK, Verifiers
  <2>2. CASE UNCHANGED check BY <2>2
  <2> QED BY <1>2, <2>1, <2>2 DEF Work, PrepareTree, BeginRun, AgentEdits, AgentCommitsItself,
        CompleteTicket, RefuseTicket, DeclineTicket, StopSilently, RunFails, DecideOutcome,
        CommitWork, CloseTicket, ReleaseSlot
<1>3. ASSUME NEW r \in Seats, VerifyNothing(r) PROVE OwnCheck(s)
  BY <1>3, <1>0 DEF VerifyNothing, Return, NoCheck, CheckOK, Verifiers
<1>4. ASSUME NEW v \in Verifiers, Verify(v) \/ CheckRaises(v) PROVE OwnCheck(s)
  BY <1>4, CheckStep DEF CheckMoves, Verifiers
<1>5. CASE Human BY <1>5 DEF Human, HumanResponds, HumanAccepts
<1>6. CASE DispatcherCrash \/ SchedulerCrash BY <1>6, CrashStep DEF NoCheck
<1>7. CASE UNCHANGED vars BY <1>7 DEF vars
<1> QED BY <1>1, <1>t, <1>2, <1>3, <1>4, <1>5, <1>6, <1>7 DEF Next, Faults

\* Another thread's step leaves the branch of a ticket being checked alone.
LEMMA BranchHeld ==
  ASSUME TypeInv, OwnSeat, CheckOwned, [Next]_vars, NEW s \in Seats, check[s].pc # "idle",
         check[s].ticket \notin reseated
  PROVE  branch'[check[s].ticket] = branch[check[s].ticket]
<1> DEFINE t == check[s].ticket
<1>1. t = agent[s].ticket /\ agent[s].pc \in {"verifying", "landing"} BY DEF CheckOwned
<1>2. t \in Tickets BY CheckedTicket DEF Verifiers
<1>3. CASE UNCHANGED <<branch, dirty>> BY <1>3
<1>4. ASSUME NEW r \in Seats, MovesTree(r) PROVE branch'[t] = branch[t]
  <2>1. agent[r].pc \in Active \ {"verifying", "landing"}
    BY <1>4 DEF MovesTree, PrepareTree, Step, AgentEdits, AgentCommitsItself, CommitWork, Active
  <2>2. agent[r].ticket # t BY <2>1, <1>1, Exclusive DEF Active
  <2> QED BY <1>4, <2>2, <1>2 DEF MovesTree, PrepareTree, AgentEdits, AgentCommitsItself,
        CommitWork, CommitTree, TypeInv, TypeOK, GitOK
<1> QED BY <1>3, <1>4, FrameNext DEF Frame

LEMMA DiffCoversNext ==
  ASSUME TypeInv, TypeInv', OwnSeat, HarnessOnly, CheckOwned, CheckOwned', DiffCovers,
         GatedConfig, [Next]_vars
  PROVE  DiffCovers'
<1> SUFFICES ASSUME NEW s \in Seats, check'[s].pc \in {"judged", "land"},
                    check'[s].ticket \notin reseated'
             PROVE  LET t == check'[s].ticket IN
                    /\ check'[s].pc = "judged" => branch'[t] \subseteq check'[s].diff
                    /\ check'[s].pc = "land" /\ Kind[t] # "none"
                         => branch'[t] \subseteq approved'[t]
  BY DEF DiffCovers
<1> DEFINE t == check'[s].ticket
<1>0. CheckOK /\ HistoryOK /\ GitOK BY DEF TypeInv, TypeOK
<1>a. t \notin reseated BY FrameNext DEF Frame
<1>1. CASE check'[s] = check[s]
  <2>1. branch'[t] = branch[t] BY <1>1, <1>a, BranchHeld
  <2>2. t \in Tickets BY <1>1, CheckedTicket DEF Verifiers
  <2>3. approved[t] \subseteq approved'[t] BY <2>2, GateGrows
  <2> QED BY <1>1, <1>a, <2>1, <2>3 DEF DiffCovers
<1>2. CASE RecordWork(s)
  <2>1. /\ Kind[agent[s].ticket] # "criteria" /\ t = agent[s].ticket /\ check'[s].pc = "land"
    <3>1. check[s].pc = "idle" BY <1>2 DEF CheckOwned, RecordWork, Step
    <3> QED BY <1>0, <1>2, <3>1 DEF RecordWork, NoCheck, CheckOK, Verifiers
  <2>2. t \in Tickets BY <1>2, <2>1, HeldTicket DEF RecordWork, Step
  <2> QED BY <2>1, <2>2, LifecycleAssumption DEF GatedConfig
<1>3. CASE Verify(s) \/ CheckRaises(s)
  <2>1. CheckAdvances(s)
    <3>1. \A u \in Tickets : ~ShowTicket(s, u)
      BY <1>0 DEF ShowTicket, CheckOK, Verifiers
    <3> QED BY <1>3, <3>1, CheckProgress DEF Verifiers
  <2>2. branch'[t] = branch[t] /\ t = check[s].ticket BY <1>a, <2>1, BranchHeld DEF CheckAdvances
  <2>3. t \in Tickets BY <2>1, CheckedTicket DEF CheckAdvances, Verifiers
  <2>4. CASE check'[s].pc = "judged"
    <3>1. ReadDiff(s) BY <2>1, <2>4 DEF CheckAdvances
    <3>2. check'[s].diff = JudgedDiff(t, check[s].work)
      BY <1>0, <2>2, <3>1 DEF ReadDiff, CheckOK, Verifiers
    <3>3. branch[t] \subseteq JudgedDiff(t, check[s].work)
      BY <2>3 DEF JudgedDiff, HarnessOnly
    <3> QED BY <2>2, <2>4, <3>2, <3>3
  <2>5. CASE check'[s].pc = "land"
    <3>1. RecordVerdict(s, "pass") BY <2>1, <2>5 DEF CheckAdvances
    <3>2. check[s].pc = "judged" /\ check[s].diff \subseteq approved'[t]
      BY <1>0, <2>2, <2>3, <3>1 DEF RecordVerdict, HistoryOK
    <3>3. branch[t] \subseteq check[s].diff BY <1>a, <2>2, <3>2 DEF DiffCovers
    <3> QED BY <2>2, <2>5, <3>2, <3>3
  <2> QED BY <2>4, <2>5
<1> QED BY <1>1, <1>2, <1>3, OwnCheckNext DEF OwnCheck

LEMMA LandedNext ==
  ASSUME TypeInv, CheckOwned, DiffCovers, LandedWasReviewed, [Next]_vars
  PROVE  LandedWasReviewed'
<1> SUFFICES ASSUME NEW t \in Tickets \ reseated', Kind[t] # "none"
             PROVE  landed'[t] \subseteq approved'[t]
  BY DEF LandedWasReviewed
<1>a. t \notin reseated BY FrameNext DEF Frame
<1>0. GitOK /\ HistoryOK BY DEF TypeInv, TypeOK
<1>1. landed[t] \subseteq approved'[t] BY <1>a, GateGrows DEF LandedWasReviewed
<1>2. CASE UNCHANGED landed BY <1>1, <1>2
<1>3. ASSUME NEW v \in Verifiers, LandTicket(v) PROVE landed'[t] \subseteq approved'[t]
  <2>1. v \in Seats BY <1>3 DEF LandTicket, CheckOwned, Verifiers
  <2>2. check[v].ticket = t => branch[t] \subseteq approved[t]
    BY <1>3, <1>a, <2>1 DEF LandTicket, DiffCovers
  <2> QED BY <1>0, <1>1, <1>3, <2>2 DEF LandTicket, GitOK
<1>4. ASSUME NEW u \in Tickets, HumanAccepts(u) PROVE landed'[t] \subseteq approved'[t]
  <2>1. CASE UNCHANGED landed BY <1>1, <2>1
  <2>2. CASE /\ landed'   = [landed   EXCEPT ![u] = @ \cup AcceptedWork(u)]
             /\ approved' = [approved EXCEPT ![u] = @ \cup AcceptedWork(u)]
    BY <1>0, <1>1, <2>2 DEF GitOK, HistoryOK
  <2> QED BY <1>4, <2>1, <2>2 DEF HumanAccepts
<1> QED BY <1>2, <1>3, <1>4, FrameNext DEF Frame, Merges

\* Another process's step leaves the counts of a ticket being checked alone.
LEMMA CountsHeld ==
  ASSUME TypeInv, OwnSeat, CheckOwned, [Next]_vars, NEW s \in Seats, check[s].pc # "idle",
         check[s].ticket \notin reseated, ~ClearClaim(s), ~ReopenTicket(s)
  PROVE  /\ reworks'[check[s].ticket] = reworks[check[s].ticket]
         /\ requeues'[check[s].ticket] = requeues[check[s].ticket]
<1> DEFINE t == check[s].ticket
<1>1. t \in Tickets BY CheckedTicket DEF Verifiers
<1>2. CASE UNCHANGED <<reworks, requeues>> BY <1>2
<1>3. ASSUME NEW v \in Verifiers, ClearClaim(v) \/ ReopenTicket(v)
      PROVE  reworks'[t] = reworks[t] /\ requeues'[t] = requeues[t]
  <2>1. check[v].pc # "idle" BY <1>3 DEF ClearClaim, ReopenTicket
  <2>2. v \in Seats BY <2>1 DEF CheckOwned, Verifiers
  <2>3. check[v].ticket # t BY <1>3, <2>1, <2>2, Exclusive DEF CheckOwned, Active
  <2> QED BY <1>1, <1>3, <2>3 DEF ClearClaim, ReopenTicket, TypeInv, TypeOK, BoardOK, HistoryOK
<1> QED BY <1>2, <1>3, FrameNext DEF Frame

LEMMA CheckBudgetNext ==
  ASSUME TypeInv, OwnSeat, CheckOwned, Budget, [Next]_vars, NEW s \in Seats,
         check'[s].ticket \notin reseated'
  PROVE  CheckBudget(s)'
<1>0. CheckOK /\ BoardOK /\ HistoryOK /\ MaxReworks \in Nat /\ s \in Verifiers
  BY LifecycleAssumption DEF TypeInv, TypeOK, Verifiers
<1>a. check'[s].ticket \notin reseated BY FrameNext DEF Frame
<1>b. check'[s].ticket = check[s].ticket => CheckBudget(s) BY <1>a DEF Budget
<1>1. CASE check'[s].pc \notin {"shown", "judged", "redo", "reopen"} BY <1>1 DEF CheckBudget
<1>2. CASE check'[s] = check[s] /\ check[s].pc # "idle" /\ ~ClearClaim(s) /\ ~ReopenTicket(s)
  BY <1>0, <1>a, <1>b, <1>2, CountsHeld DEF CheckBudget
<1>3. ASSUME NEW t \in Tickets, ShowTicket(s, t) PROVE CheckBudget(s)'
  BY <1>0, <1>3 DEF ShowTicket, CheckBudget, CheckOK, board
<1>4. CASE ReadDiff(s) BY <1>0, <1>b, <1>4 DEF ReadDiff, CheckBudget, CheckOK, board
<1>5. CASE RecordVerdict(s, "fail")
  <2>1. /\ check[s].reworks = reworks[check[s].ticket]
        /\ check[s].reworks \in Nat
    BY <1>0, <1>b, <1>5 DEF RecordVerdict, CheckBudget, CheckOK
  <2>2. /\ check'[s].ticket = check[s].ticket
        /\ check'[s].pc = IF check[s].reworks + 1 <= MaxReworks THEN "redo" ELSE "park"
        /\ check'[s].reworks = check[s].reworks + 1
        /\ reworks' = reworks
    BY <1>0, <1>5 DEF RecordVerdict, CheckOK, board
  <2> QED BY <2>1, <2>2 DEF CheckBudget
<1>6. CASE LandFails(s)
  <2>1. /\ check'[s].ticket = check[s].ticket
        /\ \/ check'[s].pc = "park"
           \/ check'[s].pc = "redo" /\ reworks[check[s].ticket] + 1 <= MaxReworks
        /\ check'[s].reworks = reworks[check[s].ticket] + 1
        /\ reworks' = reworks
    BY <1>0, <1>6 DEF LandFails, CheckOK, board
  <2> QED BY <2>1 DEF CheckBudget
<1>7. CASE ClearClaim(s)
  <2>0. check[s].ticket \in Tickets BY <1>0, <1>7, CheckedTicket DEF ClearClaim
  <2>1. /\ check'[s].ticket = check[s].ticket /\ check'[s].pc = "reopen"
        /\ reworks'[check[s].ticket] = check[s].reworks
        /\ requeues' = requeues
    BY <1>0, <1>7, <2>0 DEF ClearClaim, Resume, CheckOK, BoardOK
  <2>2. check[s].reworks = reworks[check[s].ticket] + 1
    BY <1>0, <1>b, <1>7, <2>1 DEF ClearClaim, CheckBudget
  <2>3. requeues[check[s].ticket] <= reworks[check[s].ticket] BY <1>a, <2>0, <2>1 DEF Budget
  <2> QED BY <1>0, <2>0, <2>1, <2>2, <2>3 DEF CheckBudget, BoardOK, HistoryOK
<1>8. CASE ReopenTicket(s)
  BY <1>0, <1>b, <1>8 DEF ReopenTicket, Resume, CheckBudget, CheckOK
<1>9. CASE RecordWork(s)
  BY <1>0, <1>9 DEF RecordWork, Step, CheckBudget, CheckOK, CheckOwned, NoCheck
<1>10. ASSUME Verify(s) \/ CheckRaises(s), check'[s].pc \in {"shown", "judged", "redo", "reopen"}
       PROVE  CheckBudget(s)'
  BY <1>0, <1>3, <1>4, <1>5, <1>6, <1>7, <1>10, CheckProgress DEF CheckAdvances
<1> QED BY <1>1, <1>2, <1>7, <1>8, <1>9, <1>10, OwnCheckNext DEF OwnCheck

LEMMA BudgetNext ==
  ASSUME TypeInv, OwnSeat, CheckOwned, Budget, [Next]_vars
  PROVE  Budget'
<1>1. \A s \in Seats : check'[s].ticket \notin reseated' => CheckBudget(s)' BY CheckBudgetNext
<1>2. ASSUME NEW t \in Tickets \ reseated'
      PROVE  requeues'[t] <= reworks'[t] /\ reworks'[t] <= MaxReworks
  <2>0. BoardOK /\ HistoryOK BY DEF TypeInv, TypeOK
  <2>a. t \notin reseated BY FrameNext DEF Frame
  <2>1. requeues[t] <= reworks[t] /\ reworks[t] <= MaxReworks BY <2>a DEF Budget
  <2>2. CASE UNCHANGED <<reworks, requeues>> BY <2>1, <2>2
  <2>3. ASSUME NEW v \in Verifiers, ClearClaim(v) \/ ReopenTicket(v)
        PROVE  requeues'[t] <= reworks'[t] /\ reworks'[t] <= MaxReworks
    <3>1. v \in Seats BY <2>3 DEF ClearClaim, ReopenTicket, CheckOwned, Verifiers
    <3>2. CASE ClearClaim(v) /\ check[v].ticket = t
      <4>1. check[v].reworks = reworks[t] + 1 /\ reworks[t] + 1 <= MaxReworks
        BY <2>a, <3>1, <3>2 DEF ClearClaim, Budget, CheckBudget
      <4>2. reworks'[t] = check[v].reworks /\ requeues' = requeues
        BY <2>0, <3>2 DEF ClearClaim, BoardOK
      <4> QED BY <2>0, <2>1, <4>1, <4>2 DEF BoardOK, HistoryOK
    <3>3. CASE ReopenTicket(v) /\ check[v].ticket = t
      <4>1. requeues[t] + 1 <= reworks[t] BY <2>a, <3>1, <3>3 DEF ReopenTicket, Budget, CheckBudget
      <4>2. requeues'[t] = requeues[t] + 1 /\ reworks' = reworks
        BY <2>0, <3>3 DEF ReopenTicket, HistoryOK
      <4> QED BY <2>1, <4>1, <4>2
    <3>4. CASE check[v].ticket # t
      BY <2>0, <2>1, <2>3, <3>4 DEF ClearClaim, ReopenTicket, BoardOK, HistoryOK
    <3> QED BY <2>3, <3>2, <3>3, <3>4
  <2> QED BY <2>2, <2>3, FrameNext DEF Frame
<1> QED BY <1>1, <1>2 DEF Budget, CheckBudget

-----------------------------------------------------------------------------
\* The inductive invariant.

LEMMA InitSafe == GatedConfig /\ Init => SafeInv
<1> SUFFICES ASSUME GatedConfig, Init PROVE SafeInv OBVIOUS
<1>1. TypeInv BY InitType
<1>2. OwnSeat BY DEF Init, OwnSeat, NoAgent, Active
<1>3. HarnessOnly BY DEF Init, HarnessOnly
<1>4. CheckOwned BY DEF Init, CheckOwned, NoCheck, Verifiers
<1>5. DiffCovers BY DEF Init, DiffCovers, NoCheck, Verifiers
<1>6. Budget BY LifecycleAssumption DEF Init, Budget, CheckBudget, NoCheck, Verifiers
<1>7. LandedWasReviewed BY DEF Init, LandedWasReviewed
<1>8. FreshTree BY DEF Init, FreshTree, NoAgent
<1> QED BY <1>1, <1>2, <1>3, <1>4, <1>5, <1>6, <1>7, <1>8 DEF SafeInv

LEMMA NextSafe == GatedConfig /\ SafeInv /\ [Next]_vars => SafeInv'
<1> SUFFICES ASSUME GatedConfig, SafeInv, [Next]_vars PROVE SafeInv' OBVIOUS
<1> USE DEF SafeInv
<1>1. TypeInv' BY NextType
<1>2. OwnSeat' BY OwnSeatNext
<1>3. HarnessOnly' BY HarnessOnlyNext DEF GatedConfig
<1>4. CheckOwned' BY CheckOwnedNext
<1>5. DiffCovers' BY <1>1, <1>4, DiffCoversNext
<1>6. Budget' BY BudgetNext
<1>7. LandedWasReviewed' BY LandedNext
<1>8. FreshTree' BY FreshTreeNext
<1> QED BY <1>1, <1>2, <1>3, <1>4, <1>5, <1>6, <1>7, <1>8

LEMMA AlwaysSafe == GatedConfig => (Spec => []SafeInv)
<1> SUFFICES ASSUME GatedConfig PROVE Spec => []SafeInv OBVIOUS
<1>1. Init => SafeInv BY InitSafe
<1>2. SafeInv /\ [Next]_vars => SafeInv' BY NextSafe
<1> QED BY <1>1, <1>2, PTL DEF Spec

\* The gated merge: nothing that is judged is on the integration branch that no
\* verdict and no person approved (verifier.py 718-721), as long as the verdict
\* is the closing thread's own.
THEOREM OnlyReviewedWorkLands == GatedConfig => (Spec => []LandedWasReviewed)
<1>1. SafeInv => LandedWasReviewed BY DEF SafeInv
<1> QED BY <1>1, AlwaysSafe, PTL

\* A ticket is sent back to an agent at most MAX_VERIFIER_REWORKS times
\* (verifier.py 32-38), however often the dispatcher dies in between.
THEOREM ReworkIsFinite == GatedConfig => (Spec => []ReworkBudget)
<1>1. SafeInv => ReworkBudget
  BY LifecycleAssumption DEF SafeInv, Budget, ReworkBudget, TypeInv, TypeOK, BoardOK, HistoryOK
<1> QED BY <1>1, AlwaysSafe, PTL

\* A fresh attempt never starts on what an earlier one left
\* (dispatcher.py 664-670).
THEOREM FreshAttemptsStartClean == GatedConfig => (Spec => []FreshTree)
<1>1. SafeInv => FreshTree BY DEF SafeInv
<1> QED BY <1>1, AlwaysSafe, PTL

\* Two threads work in one ticket's tree only if assign_ticket gave the ticket
\* to a second seat while a thread had it (dispatcher.py 334-335, product_owner.py
\* 169-174): no crash, decline, rework or verifier beside the dispatcher does it.
THEOREM OneWorkerPerTree == Spec => []OneWorker
<1>1. TypeInv /\ OwnSeat /\ [Next]_vars => TypeInv' /\ OwnSeat' BY NextType, OwnSeatNext
<1>2. Init => TypeInv /\ OwnSeat BY InitType DEF Init, OwnSeat, NoAgent, Active
<1>3. OwnSeat => OneWorker BY DEF OwnSeat, OneWorker, InTree, Active
<1> QED BY <1>1, <1>2, <1>3, PTL DEF Spec

-----------------------------------------------------------------------------
\* The refinement: each step is one of the abstract gate's, or a stutter.

\* What the gate says nothing about.
exempt == reseated \cup {t \in Tickets : Kind[t] = "none"}

LEMMA StepIsGated ==
  ASSUME SafeInv, [Next]_vars
  PROVE  [Gate!Next]_<<approved, landed, exempt>>
<1> USE DEF Gate!Next, Gate!Approve, Gate!Land, Gate!Accept, exempt
<1>0. GitOK /\ HistoryOK /\ CheckOK /\ CheckHeld /\ TypeInv
  BY DEF SafeInv, TypeInv, TypeOK
<1>1. ASSUME NEW v \in Verifiers, NEW result \in {"pass", "fail"}, RecordVerdict(v, result)
      PROVE  Gate!Next
  <2> DEFINE t == check[v].ticket
             commits == IF result = "pass" THEN check[v].diff ELSE {}
  <2>1. t \in Tickets /\ commits \in SUBSET Commit
    BY <1>0, <1>1 DEF RecordVerdict, CheckOK, CheckHeld
  <2>2. UNCHANGED <<landed, reseated>> BY <1>1 DEF RecordVerdict, git
  <2>3. approved' = [approved EXCEPT ![t] = @ \cup commits]
    BY <1>0, <1>1, <2>1 DEF RecordVerdict, HistoryOK
  <2> HIDE DEF t, commits
  <2> QED BY <2>1, <2>2, <2>3
<1>2. ASSUME NEW v \in Verifiers, LandTicket(v) PROVE Gate!Next
  <2> DEFINE t == check[v].ticket
  <2>1. t \in Tickets /\ branch[t] \in SUBSET Commit
    BY <1>0, <1>2 DEF LandTicket, CheckHeld, GitOK
  <2>2. t \in exempt \/ branch[t] \subseteq approved[t]
    <3>1. v \in Seats BY <1>2 DEF LandTicket, SafeInv, CheckOwned, Verifiers
    <3> QED BY <1>2, <2>1, <3>1 DEF LandTicket, SafeInv, DiffCovers
  <2>3. landed' = [landed EXCEPT ![t] = @ \cup branch[t]] /\ UNCHANGED <<approved, reseated>>
    BY <1>2 DEF LandTicket
  <2> QED BY <2>1, <2>2, <2>3
<1>3. ASSUME NEW t \in Tickets, HumanAccepts(t) PROVE [Gate!Next]_<<approved, landed, exempt>>
  <2>0. UNCHANGED reseated BY <1>3 DEF HumanAccepts
  <2>1. AcceptedWork(t) \in SUBSET Commit BY <1>0, AcceptedWorkType
  <2>2. CASE UNCHANGED <<approved, landed, exempt>> BY <2>2
  <2>3. CASE /\ landed'   = [landed   EXCEPT ![t] = @ \cup AcceptedWork(t)]
             /\ approved' = [approved EXCEPT ![t] = @ \cup AcceptedWork(t)]
    BY <2>0, <2>1, <2>3
  <2> QED BY <1>3, <2>0, <2>2, <2>3 DEF HumanAccepts
<1>4. ASSUME NEW t \in Tickets, NEW s \in Seats, AssignTicket(t, s)
      PROVE  [Gate!Next]_<<approved, landed, exempt>>
  BY <1>4 DEF AssignTicket, git, Gate!Reseat
<1> QED BY <1>1, <1>2, <1>3, <1>4, FrameNext DEF Frame, Merges, Approves

\* Whatever the dispatcher, the verifier and the people do, the integration
\* branch sees the gated merge and nothing else (dispatcher.py 624-626).
THEOREM ImplementsGatedMerge == GatedConfig => (Spec => MergeIsGated)
<1> SUFFICES ASSUME GatedConfig PROVE Spec => Gate!Spec BY DEF MergeIsGated
<1>1. Init => Gate!Init BY DEF Init, Gate!Init, exempt
<1>2. SafeInv /\ [Next]_vars => [Gate!Next]_<<approved, landed, exempt>> BY StepIsGated
<1> QED BY <1>1, <1>2, AlwaysSafe, PTL DEF Spec, Gate!Spec, exempt

=============================================================================
