--------------------------- MODULE VerdictProofs ---------------------------
(***************************************************************************)
(* Why no judged work is left lying: a verdict is acted on by the thread   *)
(* that asked for it before anybody else can touch the ticket, so a closed *)
(* ticket nobody was asked about is one whose work has landed, and what    *)
(* waits for it starts from a tip that has it.                             *)
(***************************************************************************)
EXTENDS GatedMergeProofs, FiniteSetTheorems

\* Nothing has crashed, no call has raised, and no ticket in work has changed
\* seats: all of this is about runs that stay so.
Quiet == faults = 0 /\ reseated = {}

\* A thread whose next steps are about a ticket that is still its own.
Keeps(s) ==
  \/ agent[s].pc \in Active
  \/ agent[s].pc = "ended" /\ seat[agent[s].ticket] = s

\* A thread that gave its ticket back is not given it again.
LeftDeclined ==
  \A s \in Seats : agent[s].pc = "ended" =>
    seat[agent[s].ticket] = s \/ s \in declined[agent[s].ticket]

\* The harness is the only one to commit, and it commits once a run.
SinceBase ==
  \A s \in Seats :
    agent[s].pc \in {"working", "ended", "commit"} /\ Keeps(s)
      => agent[s].base = branch[agent[s].ticket]

\* A ticket in work, or sent back, is not closed, unless a person closed it.
Working(s) ==
  \/ Keeps(s) /\ agent[s].pc # "verifying" /\ (agent[s].pc = "landing" => check[s].pc = "land")
  \/ check[s].pc = "reset"
WorkOpen ==
  \A s \in Seats : Working(s) =>
    status[agent[s].ticket] # "closed" \/ decided[agent[s].ticket]

\* A ticket being judged is closed until it is sent back.
JudgedClosed ==
  \A s \in Seats : agent[s].pc = "verifying" =>
    /\ check[s].pc # "reset" => status[agent[s].ticket] = "closed"
    /\ check[s].pc # "idle" => Kind[agent[s].ticket] # "none"

\* A check goes by the work on record until it takes it off.
GoesBy(s, t) ==
  /\ check[s].pc \in {"shown", "judged"} => check[s].work = work[t]
  /\ check[s].pc = "land" /\ agent[s].pc = "verifying"
       => verdict[t] = [result |-> "pass", work |-> work[t]]
  /\ check[s].pc \in {"reopen", "reset"} => work[t] = {}
WorkShown == \A s \in Seats : GoesBy(s, agent[s].ticket)

\* New work is not what was judged before.
Numbered(t, commits) == \A c \in commits : c.n <= made[t]
NewWorkIsNew ==
  /\ \A t \in Tickets : Numbered(t, work[t] \cup verdict[t].work)
  /\ \A s \in Seats : agent[s].pc = "record" => LET t == agent[s].ticket IN
       /\ Numbered(t, agent[s].sha)
       /\ agent[s].sha # {} => agent[s].sha # verdict[t].work

\* Only what is judged has a verdict.
VerdictOfJudged ==
  \A t \in Tickets :
    verdict[t].result = "none" \/ Kind[t] = "none" => verdict[t] = NoVerdict

\* What is not judged is closed with what landed.
LandedBeforeClose ==
  /\ \A s \in Seats : LET t == agent[s].ticket IN
       agent[s].pc = "closing" /\ Kind[t] = "none" => branch[t] \subseteq landed[t]
  /\ \A t \in Tickets :
       /\ Kind[t] = "none" /\ status[t] = "closed" /\ ~decided[t] /\ ~flagged[t] /\ work[t] # {}
       => branch[t] \subseteq landed[t]

\* A verdict that stands has been acted on, or a person has been asked, or the
\* check that gave it is about to act on it.
LandedAsJudged(t) ==
  status[t] = "closed" /\ verdict[t] = [result |-> "pass", work |-> work[t]]
    /\ branch[t] \subseteq landed[t]
ActingOn(s, t) ==
  /\ agent[s].ticket = t /\ agent[s].pc = "verifying"
  /\ check[s].pc \in {"land", "redo", "park"}
Spent(t) ==
  decided[t] \/ flagged[t] \/ LandedAsJudged(t) \/ \E s \in Seats : ActingOn(s, t)
VerdictSpent ==
  \A t \in Tickets :
    /\ verdict[t].result # "none"
    /\ (verdict[t].work = work[t] /\ work[t] # {}) \/ reworks[t] = 0
    => Spent(t)

\* A closed ticket that no thread is judging has been judged.
RestsJudged ==
  \A t \in Tickets :
    /\ Kind[t] # "none" /\ status[t] = "closed" /\ ~decided[t] /\ ~flagged[t] /\ work[t] # {}
    /\ \A s \in Seats : ~(agent[s].ticket = t /\ agent[s].pc = "verifying")
    => LandedAsJudged(t)

\* Where the threads and the checks are with their tickets, and with it what
\* becomes of the verdicts.
HeldInv == SafeInv /\ LeftDeclined /\ SinceBase /\ WorkOpen /\ JudgedClosed
ActedInv ==
  /\ HeldInv /\ WorkShown /\ NewWorkIsNew /\ VerdictOfJudged
  /\ LandedBeforeClose /\ VerdictSpent /\ RestsJudged

\* One thread at a time, and its ticket's blockers stay closed.
Alone == \A r, s \in Seats : agent[r].pc # "idle" /\ agent[s].pc # "idle" => r = s
BlockersClosed ==
  \A s \in Seats : agent[s].pc \in {"claimed", "prepared"} =>
    \A b \in Blockers[agent[s].ticket] : b # agent[s].ticket /\ status[b] = "closed"

-----------------------------------------------------------------------------
\* A quiet run was quiet before, and none of its steps is a fault's.
LEMMA QuietBefore ==
  ASSUME TypeInv, [Next]_vars, Quiet'
  PROVE  /\ Quiet
         /\ ~DispatcherCrash /\ ~SchedulerCrash /\ \A v \in Verifiers : ~CheckRaises(v)
<1>0. faults \in Nat /\ faults' = 0 BY LifecycleAssumption DEF TypeInv, TypeOK, HistoryOK, Quiet
<1>1. ~Fault BY <1>0 DEF Fault
<1>2. ~DispatcherCrash /\ ~SchedulerCrash /\ \A v \in Verifiers : ~CheckRaises(v)
  BY <1>1 DEF DispatcherCrash, SchedulerCrash, CheckRaises
<1>3. UNCHANGED faults
  <2> USE <1>1 DEF vars
  <2>1. ASSUME NEW s \in Seats, Work(s) PROVE UNCHANGED faults
    BY <2>1 DEF Work, PrepareTree, BeginRun, AgentEdits, AgentCommitsItself, CompleteTicket,
       RefuseTicket, DeclineTicket, StopSilently, RunFails, DecideOutcome, CommitWork,
       RecordWork, CloseTicket, ReleaseSlot
  <2>2. ASSUME NEW v \in Verifiers, Verify(v) PROVE UNCHANGED faults
    BY <2>2 DEF Verify, ShowTicket, ReadDiff, RecordVerdict, ParkTicket, LandTicket, LandFails,
       ClearClaim, ReopenTicket, ResetThread
  <2>3. CASE Human BY <2>3 DEF Human, HumanResponds, HumanAccepts
  <2>4. ASSUME NEW s \in Seats, VerifyNothing(s) PROVE UNCHANGED faults
    BY <2>4 DEF VerifyNothing
  <2>5. ASSUME NEW u \in Tickets, NEW s \in Seats,
               StartAgent(s, u) \/ AssignFront(u, s) \/ AssignTicket(u, s)
        PROVE  UNCHANGED faults
    BY <2>5 DEF StartAgent, AssignFront, AssignTicket
  <2>6. CASE UNCHANGED vars BY <2>6
  <2> QED BY <1>2, <2>1, <2>2, <2>3, <2>4, <2>5, <2>6 DEF Next, Dispatch, Triage, Faults
<1>4. reseated = {} BY FrameNext DEF Frame, Quiet
<1> QED BY <1>0, <1>2, <1>3, <1>4 DEF Quiet

\* In a quiet run a ticket sent back loses all of its claim.
LEMMA ClearedAll ==
  ASSUME TypeInv, NEW v \in Verifiers, ClearClaim(v), Quiet'
  PROVE  LET t == check[v].ticket IN
         /\ work'    = [work    EXCEPT ![t] = {}]
         /\ decided' = [decided EXCEPT ![t] = FALSE]
         /\ flagged' = [flagged EXCEPT ![t] = FALSE]
<1> DEFINE t == check[v].ticket
<1>0. faults \in Nat /\ faults' = 0 BY LifecycleAssumption DEF TypeInv, TypeOK, HistoryOK, Quiet
<1>1. ~Fault BY <1>0 DEF Fault
<1>2. PICK stays \in SUBSET {"completion_summary", "work_commit", "human_decision", "human"} :
        /\ work'    = [work    EXCEPT ![t] = IF "work_commit" \in stays THEN @ ELSE {}]
        /\ decided' = [decided EXCEPT ![t] = @ /\ "human_decision" \in stays]
        /\ flagged' = [flagged EXCEPT ![t] = @ /\ "human" \in stays]
        /\ stays = {}
  BY <1>1 DEF ClearClaim
<1> QED BY <1>2 DEF TypeInv, TypeOK, BoardOK

-----------------------------------------------------------------------------
\* A step of the thread, or of its check.
Own(s) == Work(s) \/ VerifyNothing(s) \/ Verify(s) \/ CheckRaises(s)

\* What a ticket keeps when nobody it belongs to moves: a person may answer, and
\* what is not the ticket's own thread may ask for one.
Untouched(t) ==
  /\ branch'[t] = branch[t] /\ made'[t] = made[t]
  /\ work'[t] = work[t] /\ verdict'[t] = verdict[t] /\ reworks'[t] = reworks[t]
  /\ decided[t] => decided'[t]
  /\ flagged[t] => flagged'[t] \/ decided'[t]
  /\ status[t] = "closed" => status'[t] = "closed"
  /\ status'[t] = "closed" => status[t] = "closed" \/ decided'[t]
  /\ landed[t] \subseteq landed'[t]

LEMMA Untouched0 ==
  ASSUME TypeInv, NEW t \in Tickets, UNCHANGED <<board, git, store>>
  PROVE  Untouched(t)
BY DEF Untouched, board, git, store

LEMMA WorkUntouched ==
  ASSUME TypeInv, NEW t \in Tickets, NEW s \in Seats, Work(s),
         agent[s].ticket = t => ~Keeps(s)
  PROVE  Untouched(t)
<1> USE DEF Untouched, board, git, store
<1>0. BoardOK /\ GitOK /\ StoreOK BY DEF TypeInv, TypeOK
<1>1. CASE agent[s].ticket # t
  <2> USE <1>0, <1>1 DEF BoardOK, GitOK, StoreOK
  <2>1. CASE PrepareTree(s) BY <2>1 DEF PrepareTree
  <2>2. CASE BeginRun(s) BY <2>2 DEF BeginRun
  <2>3. CASE AgentEdits(s) BY <2>3 DEF AgentEdits
  <2>4. CASE AgentCommitsItself(s) BY <2>4 DEF AgentCommitsItself, CommitTree
  <2>5. CASE CompleteTicket(s) BY <2>5 DEF CompleteTicket
  <2>6. CASE RefuseTicket(s) BY <2>6 DEF RefuseTicket
  <2>7. CASE DeclineTicket(s) BY <2>7 DEF DeclineTicket
  <2>8. CASE StopSilently(s) BY <2>8 DEF StopSilently
  <2>9. CASE RunFails(s) BY <2>9 DEF RunFails, CountFailure
  <2>10. CASE DecideOutcome(s) BY <2>10 DEF DecideOutcome
  <2>11. CASE CommitWork(s) BY <2>11 DEF CommitWork, CommitTree
  <2>12. CASE RecordWork(s) BY <2>12 DEF RecordWork
  <2>13. CASE CloseTicket(s) BY <2>13 DEF CloseTicket
  <2>14. CASE ReleaseSlot(s) BY <2>14 DEF ReleaseSlot
  <2> QED BY <2>1, <2>2, <2>3, <2>4, <2>5, <2>6, <2>7, <2>8, <2>9, <2>10, <2>11, <2>12,
             <2>13, <2>14 DEF Work
<1>2. CASE agent[s].ticket = t
  <2>1. agent[s].pc \notin Active BY <1>2 DEF Keeps
  <2>2. RunFails(s) \/ DecideOutcome(s) \/ ReleaseSlot(s)
    BY <2>1 DEF Work, Active, PrepareTree, BeginRun, AgentEdits, AgentCommitsItself,
       CompleteTicket, RefuseTicket, DeclineTicket, StopSilently, EndRun, Step, CommitWork,
       RecordWork, CloseTicket
  <2>3. CASE RunFails(s) BY <1>0, <2>3 DEF RunFails, CountFailure, BoardOK
  <2>4. CASE DecideOutcome(s) BY <1>0, <2>4 DEF DecideOutcome, BoardOK
  <2>5. CASE ReleaseSlot(s) BY <2>5 DEF ReleaseSlot
  <2> QED BY <2>2, <2>3, <2>4, <2>5
<1> QED BY <1>1, <1>2

LEMMA CheckUntouched ==
  ASSUME TypeInv, CheckOwned, NEW t \in Tickets, NEW v \in Verifiers,
         Verify(v) \/ CheckRaises(v), check[v].ticket # t \/ check[v].pc = "idle"
  PROVE  Untouched(t)
<1> USE DEF Untouched, board, git, store
<1>0. BoardOK /\ GitOK /\ StoreOK BY DEF TypeInv, TypeOK
<1>1. CASE \E u \in Tickets : ShowTicket(v, u) BY <1>1 DEF ShowTicket
<1>2. CASE check[v].pc # "idle"
  <2> USE <1>0, <1>2 DEF BoardOK, GitOK, StoreOK
  <2>1. CASE ReadDiff(v) BY <2>1 DEF ReadDiff
  <2>2. CASE \E result \in {"pass", "fail"} : RecordVerdict(v, result) BY <2>2 DEF RecordVerdict
  <2>3. CASE ParkTicket(v) BY <2>3 DEF ParkTicket
  <2>4. CASE LandTicket(v) BY <2>4 DEF LandTicket
  <2>5. CASE LandFails(v) BY <2>5 DEF LandFails
  <2>6. CASE ClearClaim(v) BY <2>6 DEF ClearClaim
  <2>7. CASE ReopenTicket(v) BY <2>7 DEF ReopenTicket
  <2>8. CASE ResetThread(v) BY <2>8 DEF ResetThread
  <2>9. CASE CheckRaises(v) BY <2>9 DEF CheckRaises, CountFailure
  <2> QED BY <1>1, <2>1, <2>2, <2>3, <2>4, <2>5, <2>6, <2>7, <2>8, <2>9 DEF Verify
<1> QED
  BY <1>1, <1>2 DEF Verify, ReadDiff, RecordVerdict, ParkTicket, LandTicket, LandFails,
     ClearClaim, ReopenTicket, ResetThread, CheckRaises

LEMMA HumanUntouched ==
  ASSUME TypeInv, NEW t \in Tickets, Human
  PROVE  Untouched(t)
<1> USE DEF Untouched, board, git, store
<1>0. BoardOK /\ GitOK /\ StoreOK BY DEF TypeInv, TypeOK
<1>1. PICK u \in Tickets : HumanResponds(u) \/ HumanAccepts(u) BY DEF Human
<1>2. PICK again \in BOOLEAN : Answer(u, again) BY <1>1 DEF HumanResponds, HumanAccepts
<1>3. UNCHANGED <<reworks, work, branch, made, verdict>>
  BY <1>1 DEF HumanResponds, HumanAccepts
<1>4. landed[t] \subseteq landed'[t]
  BY <1>0, <1>1 DEF HumanResponds, HumanAccepts, GitOK
<1>5. /\ decided[t] => decided'[t]
      /\ flagged[t] => flagged'[t] \/ decided'[t]
      /\ status[t] = "closed" => status'[t] = "closed"
      /\ status'[t] = "closed" => status[t] = "closed" \/ decided'[t]
  BY <1>0, <1>2 DEF Answer, BoardOK
<1> QED BY <1>3, <1>4, <1>5

\* Only its own thread, or that thread's check, touches a ticket.
LEMMA OthersUntouched ==
  ASSUME TypeInv, CheckOwned, [Next]_vars, NEW t \in Tickets,
         \A s \in Seats : Keeps(s) /\ agent[s].ticket = t => ~Own(s)
  PROVE  Untouched(t)
<1>0. BoardOK /\ GitOK /\ StoreOK BY DEF TypeInv, TypeOK
<1>1. CASE Dispatch
  BY <1>0, <1>1 DEF Dispatch, AssignFront, StartAgent, Startable, Untouched, BoardOK, git, store
<1>t. CASE Triage BY <1>t DEF Triage, AssignTicket, Untouched, git, store
<1>2. ASSUME NEW s \in Seats, Work(s) PROVE Untouched(t) BY <1>2, WorkUntouched DEF Own
<1>3. ASSUME NEW s \in Seats, VerifyNothing(s) PROVE Untouched(t)
  BY <1>3, Untouched0 DEF VerifyNothing
<1>4. ASSUME NEW v \in Verifiers, Verify(v) \/ CheckRaises(v) PROVE Untouched(t)
  <2>1. check[v].ticket # t \/ check[v].pc = "idle"
    BY <1>4 DEF CheckOwned, Verifiers, Own, Keeps, Active
  <2> QED BY <1>4, <2>1, CheckUntouched
<1>5. CASE Human BY <1>5, HumanUntouched
<1>6. CASE DispatcherCrash \/ SchedulerCrash BY <1>6, CrashStep, Untouched0
<1>7. CASE UNCHANGED vars BY <1>7, Untouched0 DEF vars
<1> QED BY <1>1, <1>t, <1>2, <1>3, <1>4, <1>5, <1>6, <1>7 DEF Next, Faults

\* Seats are given to unseated tickets, or to tickets no thread has, and given
\* back by the thread at work.
LEMMA SeatMoves ==
  ASSUME TypeInv, [Next]_vars, Quiet', NEW t \in Tickets
  PROVE  /\ declined[t] \subseteq declined'[t]
         /\ \/ seat'[t] = seat[t]
            \/ \A s \in Seats : agent[s].ticket # t
            \/ seat[t] = NoSeat /\ seat'[t] \in Seats \ declined[t]
            \/ seat'[t] = NoSeat /\ \E s \in Seats : DeclineTicket(s) /\ agent[s].ticket = t
<1> DEFINE Moved == \/ seat'[t] = seat[t]
                    \/ \A s \in Seats : agent[s].ticket # t
                    \/ seat[t] = NoSeat /\ seat'[t] \in Seats \ declined[t]
                    \/ seat'[t] = NoSeat /\ \E s \in Seats : DeclineTicket(s) /\ agent[s].ticket = t
<1> SUFFICES declined[t] \subseteq declined'[t] /\ Moved OBVIOUS
<1>0. BoardOK BY DEF TypeInv, TypeOK
<1>1. ASSUME NEW u \in Tickets, NEW s \in Seats, AssignFront(u, s)
      PROVE  declined[t] \subseteq declined'[t] /\ Moved
  BY <1>0, <1>1 DEF AssignFront, BoardOK
<1>t. ASSUME NEW u \in Tickets, NEW s \in Seats, AssignTicket(u, s)
      PROVE  declined[t] \subseteq declined'[t] /\ Moved
  <2>1. UNCHANGED declined /\ seat' = [seat EXCEPT ![u] = s] /\ ~TakenFromThread(u, s)
    BY <1>t DEF AssignTicket, Quiet
  <2> QED BY <1>0, <2>1 DEF TakenFromThread, BoardOK
<1>2. ASSUME NEW s \in Seats, DeclineTicket(s)
      PROVE  declined[t] \subseteq declined'[t] /\ Moved
  BY <1>0, <1>2 DEF DeclineTicket, BoardOK
<1>3. CASE UNCHANGED <<seat, declined>> BY <1>3
<1>4. \/ UNCHANGED <<seat, declined>>
      \/ \E u \in Tickets, s \in Seats : AssignFront(u, s) \/ AssignTicket(u, s)
      \/ \E s \in Seats : DeclineTicket(s)
  <2> USE DEF board, vars
  <2>1. ASSUME NEW s \in Seats, Work(s) PROVE UNCHANGED <<seat, declined>> \/ DeclineTicket(s)
    BY <2>1 DEF Work, PrepareTree, BeginRun, AgentEdits, AgentCommitsItself,
       CompleteTicket, RefuseTicket, StopSilently, RunFails, DecideOutcome, CommitWork,
       RecordWork, CloseTicket, ReleaseSlot
  <2>2. ASSUME NEW v \in Verifiers, Verify(v) \/ CheckRaises(v) PROVE UNCHANGED <<seat, declined>>
    BY <2>2 DEF Verify, ShowTicket, ReadDiff, RecordVerdict, ParkTicket, LandTicket, LandFails,
       ClearClaim, ReopenTicket, ResetThread, CheckRaises
  <2>3. CASE Human BY <2>3 DEF Human, HumanResponds, HumanAccepts
  <2>4. CASE DispatcherCrash \/ SchedulerCrash BY <2>4 DEF DispatcherCrash, SchedulerCrash
  <2>5. ASSUME NEW s \in Seats, VerifyNothing(s) PROVE UNCHANGED <<seat, declined>>
    BY <2>5 DEF VerifyNothing
  <2>6. ASSUME NEW u \in Tickets, NEW s \in Seats, StartAgent(s, u)
        PROVE  UNCHANGED <<seat, declined>>
    BY <2>6 DEF StartAgent
  <2>7. CASE UNCHANGED vars BY <2>7
  <2> QED BY <2>1, <2>2, <2>3, <2>4, <2>5, <2>6, <2>7 DEF Next, Dispatch, Triage, Faults
<1> QED BY <1>1, <1>t, <1>2, <1>3, <1>4

LEMMA KeepsSeat ==
  ASSUME OwnSeat, Quiet, NEW s \in Seats, Keeps(s)
  PROVE  seat[agent[s].ticket] = s
BY DEF OwnSeat, Keeps, Quiet

\* A thread that does not move is started, dropped by a crash, or left alone.
LEMMA OthersLeft ==
  ASSUME TypeInv, CheckOwned, [Next]_vars, NEW s \in Seats, ~Own(s)
  PROVE  \/ agent'[s] = agent[s] /\ check'[s] = check[s]
         \/ /\ check'[s] = check[s] /\ check[s].pc = "idle"
            /\ \E t \in Tickets : StartAgent(s, t)
         \/ DispatcherCrash /\ agent'[s] = NoAgent /\ check'[s] = NoCheck
<1> USE LifecycleAssumption DEF Verifiers
<1>0. AgentOK /\ CheckOK /\ CheckRuns BY DEF TypeInv, TypeOK
<1>1. ASSUME NEW t \in Tickets, NEW r \in Seats, AssignFront(t, r) \/ AssignTicket(t, r)
      PROVE  agent'[s] = agent[s] /\ check'[s] = check[s]
  BY <1>1 DEF AssignFront, AssignTicket
<1>2. ASSUME NEW t \in Tickets, NEW r \in Seats, StartAgent(r, t)
      PROVE  \/ agent'[s] = agent[s] /\ check'[s] = check[s]
             \/ /\ check'[s] = check[s] /\ check[s].pc = "idle" /\ StartAgent(s, t)
  <2>1. check' = check /\ (r # s => agent'[s] = agent[s]) BY <1>0, <1>2 DEF StartAgent, AgentOK
  <2>2. agent[r].pc = "idle" BY <1>2 DEF StartAgent, Startable, Busy
  <2>3. check[r].pc = "idle" BY <1>0, <2>2 DEF CheckRuns
  <2> QED BY <1>2, <2>1, <2>3
<1>3. ASSUME NEW r \in Seats \ {s}, Work(r) PROVE agent'[s] = agent[s] /\ check'[s] = check[s]
  <2>1. agent'[s] = agent[s] BY <1>3, ThreadStep DEF ThreadMoves
  <2>2. check' = check \/ RecordWork(r)
    BY <1>3 DEF Work, PrepareTree, BeginRun, AgentEdits, AgentCommitsItself, CompleteTicket,
       RefuseTicket, DeclineTicket, StopSilently, RunFails, DecideOutcome, CommitWork,
       CloseTicket, ReleaseSlot
  <2>3. CASE RecordWork(r) BY <1>0, <2>1, <2>3 DEF RecordWork, CheckOK
  <2> QED BY <2>1, <2>2, <2>3
<1>4. ASSUME NEW r \in Seats \ {s}, VerifyNothing(r)
      PROVE  agent'[s] = agent[s] /\ check'[s] = check[s]
  BY <1>0, <1>4 DEF VerifyNothing, Return, AgentOK, CheckOK
<1>5. ASSUME NEW v \in Verifiers \ {s}, Verify(v) \/ CheckRaises(v)
      PROVE  agent'[s] = agent[s] /\ check'[s] = check[s]
  <2>1. CheckMoves(v) BY <1>5, CheckStep
  <2> QED BY <1>5, <2>1 DEF CheckMoves
<1>6. CASE Human BY <1>6 DEF Human, HumanResponds, HumanAccepts
<1>7. CASE DispatcherCrash BY <1>7 DEF DispatcherCrash
<1>8. CASE SchedulerCrash BY <1>0, <1>8 DEF SchedulerCrash, CheckOK
<1>9. CASE UNCHANGED vars BY <1>9 DEF vars
<1> QED BY <1>1, <1>2, <1>3, <1>4, <1>5, <1>6, <1>7, <1>8, <1>9 DEF Next, Dispatch, Triage, Faults,
           Own

\* A ticket whose thread still keeps it and did not move is as it was.
LEMMA KeptUntouched ==
  ASSUME TypeInv, OwnSeat, CheckOwned, LeftDeclined, Quiet, Quiet', [Next]_vars,
         NEW s \in Seats, ~Own(s), agent'[s] = agent[s], Keeps(s)'
  PROVE  Keeps(s) /\ agent[s].ticket \in Tickets /\ Untouched(agent[s].ticket)
<1> DEFINE t == agent[s].ticket
<1>1. t \in Tickets BY DEF TypeInv, AgentHeld, Keeps, Active
<1>2. Keeps(s)
  <2>1. CASE agent[s].pc \in Active BY <2>1 DEF Keeps
  <2>2. CASE agent[s].pc = "ended" /\ seat'[t] = s
    <3>1. seat[t] = s \/ s \in declined[t] BY <2>2 DEF LeftDeclined
    <3>2. seat[t] = s BY <1>1, <2>2, <3>1, SeatMoves, LifecycleAssumption
    <3> QED BY <2>2, <3>2 DEF Keeps
  <2> QED BY <2>1, <2>2 DEF Keeps
<1>3. ASSUME NEW r \in Seats, Keeps(r), agent[r].ticket = t PROVE ~Own(r)
  BY <1>2, <1>3, KeepsSeat
<1> QED BY <1>1, <1>2, <1>3, OthersUntouched

\* A check's step leaves its thread where it is, or ends what it was doing.
LEMMA CheckThread ==
  ASSUME TypeInv, NEW s \in Seats, Verify(s) \/ CheckRaises(s) \/ VerifyNothing(s)
  PROVE  /\ agent[s].pc \in {"verifying", "landing"}
         /\ agent'[s].ticket = agent[s].ticket
         /\ \/ agent'[s].pc = agent[s].pc
            \/ check'[s] = NoCheck /\ agent'[s].pc \in {"over", "done", "failed"}
            \/ /\ check'[s] = NoCheck /\ agent'[s].pc = "closing"
               /\ agent[s].pc = "landing" /\ LandTicket(s)
<1> USE LifecycleAssumption DEF AgentOK, CheckOK, Verifiers
<1>0. AgentOK /\ CheckOK /\ CheckRuns BY DEF TypeInv, TypeOK
<1>1. CASE \E t \in Tickets : ShowTicket(s, t) BY <1>0, <1>1 DEF ShowTicket
<1>2. CASE ReadDiff(s) BY <1>0, <1>2 DEF ReadDiff, CheckRuns
<1>3. CASE \E result \in {"pass", "fail"} : RecordVerdict(s, result)
  BY <1>0, <1>3 DEF RecordVerdict, CheckRuns
<1>4. CASE ParkTicket(s)
  <2>1. agent[s].pc \in {"verifying", "landing"} BY <1>0, <1>4 DEF ParkTicket, CheckRuns
  <2>2. Return(s, FALSE) BY <1>4 DEF ParkTicket
  <2> QED BY <1>0, <2>1, <2>2 DEF Return
<1>5. CASE LandTicket(s)
  <2>1. agent[s].pc \in {"verifying", "landing"} BY <1>0, <1>5 DEF LandTicket, CheckRuns
  <2>2. Return(s, TRUE) BY <1>5 DEF LandTicket
  <2>3. agent'[s] = [agent[s] EXCEPT !.pc = IF @ # "landing" THEN "over" ELSE "closing"]
    BY <1>0, <2>2 DEF Return
  <2>4. check'[s] = NoCheck BY <1>0, <2>2 DEF Return
  <2> QED BY <1>0, <1>5, <2>1, <2>3, <2>4
<1>6. CASE LandFails(s) BY <1>0, <1>6 DEF LandFails, CheckRuns
<1>7. CASE ClearClaim(s) BY <1>0, <1>7 DEF ClearClaim, Resume, CheckRuns
<1>8. CASE ReopenTicket(s) BY <1>0, <1>8 DEF ReopenTicket, Resume, CheckRuns
<1>9. CASE ResetThread(s) BY <1>0, <1>9 DEF ResetThread, Return, CheckRuns
<1>10. CASE CheckRaises(s)
  <2>1. agent[s].pc \in {"verifying", "landing"} BY <1>0, <1>10 DEF CheckRaises, CheckRuns
  <2> QED BY <1>0, <1>10, <2>1 DEF CheckRaises, Return, Resume
<1>11. CASE VerifyNothing(s) BY <1>0, <1>11 DEF VerifyNothing, Return
<1> QED BY <1>1, <1>2, <1>3, <1>4, <1>5, <1>6, <1>7, <1>8, <1>9, <1>10, <1>11 DEF Verify

LEMMA JustStarted ==
  ASSUME TypeInv, NEW s \in Seats, NEW t \in Tickets, StartAgent(s, t)
  PROVE  /\ agent'[s].pc = "claimed" /\ agent'[s].ticket = t
         /\ status'[t] = "in_progress" /\ CanClose(t) /\ status[t] # "closed"
BY DEF StartAgent, Startable, NoAgent, TypeInv, TypeOK, AgentOK, BoardOK

LEMMA LeftDeclinedNext ==
  ASSUME TypeInv, OwnSeat, CheckOwned, LeftDeclined, Quiet, Quiet', [Next]_vars
  PROVE  LeftDeclined'
<1> SUFFICES ASSUME NEW s \in Seats, agent'[s].pc = "ended"
             PROVE  seat'[agent'[s].ticket] = s \/ s \in declined'[agent'[s].ticket]
  BY DEF LeftDeclined
<1> DEFINE t == agent[s].ticket
<1>0. AgentOK /\ BoardOK BY DEF TypeInv, TypeOK
<1>1. CASE agent'[s] = agent[s]
  <2>1. t \in Tickets /\ (seat[t] = s \/ s \in declined[t])
    BY <1>1 DEF LeftDeclined, TypeInv, AgentHeld
  <2>2. ASSUME NEW r \in Seats, DeclineTicket(r), agent[r].ticket = t, seat[t] = s PROVE FALSE
    <3>1. agent[r].pc = "working" /\ agent'[r].pc = "ended"
      BY <1>0, <2>2 DEF DeclineTicket, EndRun, Step, AgentOK
    <3>2. r = s BY <2>2, <3>1 DEF OwnSeat, Active, Quiet
    <3> QED BY <1>1, <3>1, <3>2
  <2> QED BY <1>1, <2>1, <2>2, SeatMoves, LifecycleAssumption
<1>2. CASE Work(s) /\ agent'[s] # agent[s]
  <2>1. BeginRun(s) \/ CompleteTicket(s) \/ RefuseTicket(s) \/ StopSilently(s) \/ DeclineTicket(s)
    BY <1>0, <1>2 DEF Work, PrepareTree, Step, AgentEdits, AgentCommitsItself, RunFails,
       DecideOutcome, CommitWork, RecordWork, CloseTicket, ReleaseSlot, NoAgent, AgentOK
  <2>2. t \in Tickets /\ seat[t] = s
    BY <2>1 DEF BeginRun, CompleteTicket, RefuseTicket, StopSilently, DeclineTicket, EndRun,
       Step, OwnSeat, Active, TypeInv, AgentHeld, Quiet
  <2>3. agent'[s].ticket = t
    BY <1>0, <2>1 DEF BeginRun, CompleteTicket, RefuseTicket, StopSilently, DeclineTicket, EndRun,
       Step, AgentOK
  <2>4. CASE DeclineTicket(s) BY <1>0, <2>2, <2>3, <2>4 DEF DeclineTicket, BoardOK
  <2> QED BY <2>1, <2>2, <2>3, <2>4 DEF BeginRun, CompleteTicket, RefuseTicket, StopSilently, board
<1>3. CASE Verify(s) \/ CheckRaises(s) \/ VerifyNothing(s) BY <1>3, CheckThread
<1>4. CASE ~Own(s)
  BY <1>1, <1>4, OthersLeft, JustStarted DEF NoAgent
<1> QED BY <1>1, <1>2, <1>3, <1>4 DEF Own

LEMMA SinceBaseNext ==
  ASSUME TypeInv, OwnSeat, CheckOwned, LeftDeclined, SinceBase, ~AgentCommits,
         Quiet, Quiet', [Next]_vars
  PROVE  SinceBase'
<1> SUFFICES ASSUME NEW s \in Seats, agent'[s].pc \in {"working", "ended", "commit"}, Keeps(s)'
             PROVE  agent'[s].base = branch'[agent'[s].ticket]
  BY DEF SinceBase
<1>0. AgentOK /\ GitOK /\ BoardOK BY DEF TypeInv, TypeOK
<1>1. CASE ~Own(s)
  <2>1. agent'[s] = agent[s] BY <1>1, OthersLeft, JustStarted DEF NoAgent
  <2>2. Keeps(s) /\ Untouched(agent[s].ticket) BY <1>1, <2>1, KeptUntouched
  <2> QED BY <2>1, <2>2 DEF SinceBase, Untouched
<1>2. CASE Work(s)
  <2> USE <1>0 DEF AgentOK
  <2>1. CASE BeginRun(s) BY <2>1 DEF BeginRun, git
  <2>2. CASE AgentEdits(s) BY <2>2 DEF AgentEdits, SinceBase, Keeps, Active
  <2>3. CASE EndRun(s) /\ UNCHANGED branch
    BY <2>3 DEF EndRun, Step, SinceBase, Keeps, Active
  <2>4. CASE DecideOutcome(s)
    <3>1. agent'[s].pc = "commit" /\ seat[agent[s].ticket] = s
      BY <2>4 DEF DecideOutcome
    <3> QED BY <2>4, <3>1 DEF DecideOutcome, SinceBase, Keeps, git
  <2>5. CompleteTicket(s) \/ RefuseTicket(s) \/ DeclineTicket(s) \/ StopSilently(s)
          => EndRun(s) /\ UNCHANGED branch
    BY DEF CompleteTicket, RefuseTicket, DeclineTicket, StopSilently, git
  <2> QED
    BY <1>2, <2>1, <2>2, <2>3, <2>4, <2>5 DEF Work, PrepareTree, Step, AgentCommitsItself,
       RunFails, CommitWork, RecordWork, CloseTicket, ReleaseSlot, NoAgent
<1>3. CASE Verify(s) \/ CheckRaises(s) \/ VerifyNothing(s) BY <1>3, CheckThread
<1> QED BY <1>1, <1>2, <1>3 DEF Own

\* A thread at work has no check, until it lands what is not judged.
LEMMA WorkCheck ==
  ASSUME TypeInv, NEW s \in Seats, Work(s)
  PROVE  check[s].pc = "idle" /\ check'[s].pc \in {"idle", "land"}
<1>1. check[s].pc = "idle" BY ThreadStep DEF ThreadMoves, TypeInv, CheckRuns
<1>2. check' = check \/ RecordWork(s)
  BY DEF Work, PrepareTree, BeginRun, AgentEdits, AgentCommitsItself, CompleteTicket,
     RefuseTicket, DeclineTicket, StopSilently, RunFails, DecideOutcome, CommitWork,
     CloseTicket, ReleaseSlot
<1>3. CASE RecordWork(s)
  BY <1>1, <1>3, LifecycleAssumption DEF RecordWork, NoCheck, TypeInv, TypeOK, CheckOK, Verifiers
<1> QED BY <1>1, <1>2, <1>3

\* A thread that goes on working was working, on a ticket whose status it leaves
\* or opens.
LEMMA WorkStaysOpen ==
  ASSUME TypeInv, TypeInv', NEW s \in Seats, Work(s), Working(s)'
  PROVE  /\ agent'[s].ticket = agent[s].ticket
         /\ Working(s)
         /\ UNCHANGED <<status, decided>> \/ status'[agent[s].ticket] # "closed"
<1> DEFINE t == agent[s].ticket
<1>0. AgentOK /\ BoardOK /\ CheckOK /\ CheckRuns BY DEF TypeInv, TypeOK
<1> USE <1>0 DEF Working, Keeps, Active, AgentOK
<1>1. check[s].pc = "idle" /\ t \in Tickets
  BY WorkCheck, ThreadStep DEF ThreadMoves, TypeInv, AgentHeld
<1>2. check'[s].pc # "reset" BY WorkCheck
<1>3. Keeps(s)' /\ agent'[s].pc # "verifying" BY <1>2
<1>4. CASE PrepareTree(s) BY <1>4 DEF PrepareTree, Step, board
<1>5. CASE BeginRun(s) BY <1>5 DEF BeginRun, board
<1>6. CASE AgentEdits(s) BY <1>6 DEF AgentEdits, board
<1>7. CASE AgentCommitsItself(s) BY <1>7 DEF AgentCommitsItself, board
<1>8. CASE CompleteTicket(s) BY <1>8 DEF CompleteTicket, EndRun, Step
<1>9. CASE RefuseTicket(s) BY <1>9 DEF RefuseTicket, EndRun, Step
<1>10. CASE DeclineTicket(s) BY <1>1, <1>10 DEF DeclineTicket, EndRun, Step, BoardOK
<1>11. CASE StopSilently(s) BY <1>11 DEF StopSilently, EndRun, Step, board
<1>12. CASE RunFails(s) BY <1>3, <1>12 DEF RunFails
<1>13. CASE DecideOutcome(s)
  <2>1. agent'[s].pc \in {"commit", "done"} BY <1>13 DEF DecideOutcome
  <2>2. seat[t] = s BY <1>3, <1>13, <2>1 DEF DecideOutcome
  <2> QED BY <1>13, <2>2 DEF DecideOutcome
<1>14. CASE CommitWork(s)
  <2>1. agent'[s].ticket = t BY <1>14 DEF CommitWork
  <2> QED BY <1>14, <2>1 DEF CommitWork, board
<1>15. CASE RecordWork(s) BY <1>15 DEF RecordWork, Step
<1>16. CASE CloseTicket(s)
  <2>1. agent'[s].pc \in {"verifying", "done"} BY <1>16 DEF CloseTicket
  <2> QED BY <1>3, <2>1
<1>17. CASE ReleaseSlot(s) BY <1>3, <1>17 DEF ReleaseSlot, NoAgent
<1> QED BY <1>4, <1>5, <1>6, <1>7, <1>8, <1>9, <1>10, <1>11, <1>12, <1>13, <1>14, <1>15,
           <1>16, <1>17 DEF Work

\* Where a check can be after a step of it.
LEMMA CheckGoesOn ==
  ASSUME TypeInv, CheckOwned, NEW s \in Seats, Verify(s) \/ CheckRaises(s) \/ VerifyNothing(s),
         check'[s].pc # "idle"
  PROVE  /\ agent'[s].pc = agent[s].pc
         /\ check[s].pc = "idle" => ShowTicket(s, agent[s].ticket)
         /\ check'[s].pc = "reset" => ReopenTicket(s)
         /\ check'[s].pc = "land" => RecordVerdict(s, "pass") /\ agent[s].pc = "verifying"
<1> USE LifecycleAssumption DEF Verifiers
<1>0. CheckOK BY DEF TypeInv, TypeOK
<1>1. agent'[s].pc = agent[s].pc BY CheckThread DEF NoCheck
<1>2. ~VerifyNothing(s) BY <1>0 DEF VerifyNothing, Return, NoCheck, CheckOK
<1>3. (\E t \in Tickets : ShowTicket(s, t)) \/ CheckAdvances(s) BY <1>2, CheckProgress
<1>4. ASSUME NEW t \in Tickets, ShowTicket(s, t)
      PROVE  t = agent[s].ticket /\ check'[s].pc = "shown"
  BY <1>0, <1>4 DEF ShowTicket, CheckOK
<1>5. check[s].pc = "idle" => ShowTicket(s, agent[s].ticket) BY <1>3, <1>4 DEF CheckAdvances
<1>6. check'[s].pc = "land" => RecordVerdict(s, "pass") /\ agent[s].pc = "verifying"
  BY <1>3, <1>4 DEF CheckAdvances, RecordVerdict, CheckOwned
<1>7. ASSUME check'[s].pc = "reset" PROVE ReopenTicket(s)
  <2> USE <1>0, <1>7 DEF CheckOK
  <2>1. ~\E t \in Tickets : ShowTicket(s, t) BY <1>4
  <2>2. ~ReadDiff(s) BY DEF ReadDiff
  <2>3. ~\E result \in {"pass", "fail"} : RecordVerdict(s, result) BY DEF RecordVerdict
  <2>4. ~ParkTicket(s) /\ ~LandTicket(s) /\ ~ResetThread(s)
    BY DEF ParkTicket, LandTicket, ResetThread, Return, NoCheck
  <2>5. LandFails(s) => check'[s].pc \in {"redo", "park"} BY <1>0 DEF LandFails
  <2>6. ~ClearClaim(s) BY DEF ClearClaim, Resume
  <2>7. ~CheckRaises(s)
    <3>1. CheckRaises(s) => \/ check'[s] = NoCheck
                            \/ check' = [check EXCEPT ![s].pc = "park"]
      BY DEF CheckRaises, Return, Resume
    <3> QED BY <3>1 DEF NoCheck
  <2> QED BY <1>2, <2>1, <2>2, <2>3, <2>4, <2>5, <2>6, <2>7 DEF Verify
<1> QED BY <1>1, <1>5, <1>6, <1>7

LEMMA WorkOpenNext ==
  ASSUME TypeInv, TypeInv', OwnSeat, CheckOwned, LeftDeclined, WorkOpen, Quiet, Quiet',
         [Next]_vars
  PROVE  WorkOpen'
<1> SUFFICES ASSUME NEW s \in Seats, Working(s)'
             PROVE  status'[agent'[s].ticket] # "closed" \/ decided'[agent'[s].ticket]
  BY DEF WorkOpen
<1> DEFINE t == agent[s].ticket
<1>0. AgentOK /\ BoardOK /\ CheckOK BY DEF TypeInv, TypeOK
<1>1. CASE ~Own(s)
  <2>0. Keeps(s)' BY DEF Working, Keeps, Active, TypeInv, CheckRuns
  <2>1. CASE agent'[s] = agent[s] /\ check'[s] = check[s]
    <3>1. Keeps(s) /\ Untouched(t) BY <1>1, <2>0, <2>1, KeptUntouched
    <3>2. Working(s) BY <2>1, <3>1 DEF Working
    <3> QED BY <2>1, <3>1, <3>2 DEF WorkOpen, Untouched
  <2>2. ASSUME NEW u \in Tickets, StartAgent(s, u)
        PROVE  status'[agent'[s].ticket] # "closed"
    BY <2>2, JustStarted
  <2>3. CASE agent'[s] = NoAgent BY <2>0, <2>3 DEF Keeps, Active, NoAgent
  <2> QED BY <1>1, <2>1, <2>2, <2>3, OthersLeft
<1>2. CASE Work(s) BY <1>2, WorkStaysOpen DEF WorkOpen
<1>3. CASE Verify(s) \/ CheckRaises(s) \/ VerifyNothing(s)
  <2>1. CASE LandTicket(s) /\ agent'[s].pc = "closing"
    <3>1. Working(s) BY <1>3, <2>1, CheckThread DEF Working, Keeps, Active, LandTicket
    <3> QED BY <1>3, <2>1, <3>1, CheckThread DEF WorkOpen, LandTicket, board
  <2>2. CASE check'[s].pc = "reset"
    <3>1. ReopenTicket(s) BY <1>3, <2>2, CheckGoesOn
    <3>2. t \in Tickets /\ check[s].ticket = t
      BY <3>1 DEF ReopenTicket, CheckOwned, TypeInv, CheckHeld, Verifiers
    <3> QED BY <1>0, <3>1, <3>2 DEF ReopenTicket, Resume, BoardOK
  <2>3. CASE agent'[s].pc = "landing" /\ check'[s].pc = "land"
    BY <1>3, <2>3, CheckGoesOn
  <2> QED BY <1>3, <2>1, <2>2, <2>3, CheckThread DEF Working, Keeps, Active
<1> QED BY <1>1, <1>2, <1>3 DEF Own

LEMMA JudgedClosedNext ==
  ASSUME TypeInv, OwnSeat, CheckOwned, LeftDeclined, JudgedClosed, Quiet, Quiet',
         [Next]_vars
  PROVE  JudgedClosed'
<1> SUFFICES ASSUME NEW s \in Seats, agent'[s].pc = "verifying"
             PROVE  LET t == agent'[s].ticket IN
                    /\ check'[s].pc # "reset" => status'[t] = "closed"
                    /\ check'[s].pc # "idle" => Kind[t] # "none"
  BY DEF JudgedClosed
<1> DEFINE t == agent[s].ticket
<1>0. AgentOK /\ BoardOK /\ CheckOK /\ CheckRuns BY DEF TypeInv, TypeOK
<1>1. CASE ~Own(s)
  <2>1. agent'[s] = agent[s] /\ check'[s] = check[s]
    BY <1>1, OthersLeft, JustStarted DEF NoAgent
  <2>2. Untouched(t) BY <1>1, <2>1, KeptUntouched DEF Keeps, Active
  <2> QED BY <2>1, <2>2 DEF JudgedClosed, Untouched
<1>2. CASE Work(s)
  <2>0. agent[s].pc # "verifying" BY <1>2, ThreadStep DEF ThreadMoves
  <2>1. CloseTicket(s)
    <3> USE <1>0, <2>0 DEF AgentOK
    <3>1. ~PrepareTree(s) /\ ~BeginRun(s) /\ ~AgentEdits(s) /\ ~AgentCommitsItself(s)
      BY DEF PrepareTree, Step, BeginRun, AgentEdits, AgentCommitsItself
    <3>2. ~CompleteTicket(s) /\ ~RefuseTicket(s) /\ ~DeclineTicket(s) /\ ~StopSilently(s)
      BY DEF CompleteTicket, RefuseTicket, DeclineTicket, StopSilently, EndRun, Step
    <3>3. ~RunFails(s) /\ ~DecideOutcome(s) /\ ~RecordWork(s) /\ ~ReleaseSlot(s)
      BY DEF RunFails, DecideOutcome, RecordWork, Step, ReleaseSlot, NoAgent
    <3>4. ~CommitWork(s) BY DEF CommitWork
    <3> QED BY <1>2, <3>1, <3>2, <3>3, <3>4 DEF Work
  <2>2. t \in Tickets /\ check[s].pc = "idle" /\ agent'[s].ticket = t /\ UNCHANGED check
    BY <1>0, <2>1 DEF CloseTicket, CheckRuns, TypeInv, AgentHeld, AgentOK
  <2>3. status'[t] = "closed" BY <1>0, <2>1, <2>2 DEF CloseTicket, BoardOK, AgentOK
  <2> QED BY <2>2, <2>3
<1>3. CASE Verify(s) \/ CheckRaises(s) \/ VerifyNothing(s)
  <2>1. agent[s].pc = "verifying" /\ agent'[s].ticket = t BY <1>3, CheckThread
  <2>2. CASE ShowTicket(s, t)
    <3>1. UNCHANGED status /\ check[s].pc = "idle" /\ Kind[t] # "none"
      BY <2>2 DEF ShowTicket, AwaitingVerdict, board
    <3> QED BY <2>1, <3>1 DEF JudgedClosed
  <2>3. CASE ReopenTicket(s)
    <3>1. check'[s].pc = "reset" /\ check[s].pc # "idle"
      BY <1>0, <2>3 DEF ReopenTicket, Resume, CheckOK, Verifiers
    <3> QED BY <2>1, <3>1 DEF JudgedClosed
  <2>4. CASE ~ReopenTicket(s) /\ ~ShowTicket(s, t)
    <3>1. UNCHANGED status
      BY <1>3, <2>4 DEF Verify, ShowTicket, ReadDiff, RecordVerdict, ParkTicket,
         LandTicket, LandFails, ClearClaim, ResetThread, CheckRaises, VerifyNothing, board
    <3>2. \A u \in Tickets : ~ShowTicket(s, u)
      BY <2>4, LifecycleAssumption DEF ShowTicket
    <3>3. check[s].pc = "idle" => check'[s].pc = "idle" BY <1>3, <2>4, CheckGoesOn
    <3>4. check[s].pc = "reset" => agent'[s].pc # "verifying"
      <4>1. check[s].pc = "reset" => ResetThread(s) \/ CheckRaises(s)
        BY <1>3, <2>4, <3>2 DEF Verify, ReadDiff, RecordVerdict, ParkTicket, LandTicket,
           LandFails, ClearClaim, VerifyNothing
      <4>2. ASSUME check[s].pc = "reset", ResetThread(s) \/ CheckRaises(s) PROVE Return(s, FALSE)
        BY <4>2 DEF ResetThread, CheckRaises
      <4>3. Return(s, FALSE) => agent'[s].pc \in {"over", "done"}
        BY <1>0, LifecycleAssumption DEF Return, AgentOK
      <4> QED BY <4>1, <4>2, <4>3
    <3> QED BY <2>1, <3>1, <3>3, <3>4 DEF JudgedClosed
  <2> QED BY <2>2, <2>3, <2>4
<1> QED BY <1>1, <1>2, <1>3 DEF Own

LEMMA HeldNext ==
  ASSUME GatedConfig, HeldInv, Quiet, Quiet', [Next]_vars
  PROVE  HeldInv'
<1> USE DEF HeldInv, GatedConfig
<1>1. SafeInv' BY NextSafe
<1>2. TypeInv /\ TypeInv' /\ OwnSeat /\ CheckOwned BY <1>1 DEF SafeInv
<1>3. LeftDeclined' BY <1>2, LeftDeclinedNext
<1>4. SinceBase' BY <1>2, SinceBaseNext
<1>5. WorkOpen' BY <1>2, WorkOpenNext
<1>6. JudgedClosed' BY <1>2, JudgedClosedNext
<1> QED BY <1>1, <1>3, <1>4, <1>5, <1>6

LEMMA HeldFacts ==
  ASSUME GatedConfig, HeldInv
  PROVE  /\ TypeInv /\ OwnSeat /\ CheckOwned /\ LeftDeclined
         /\ BoardOK /\ GitOK /\ StoreOK /\ AgentOK /\ CheckOK
BY DEF HeldInv, SafeInv, GatedConfig, TypeInv, TypeOK

\* A thread that keeps its ticket and has no check is at work on it.
LEMMA AtWork ==
  ASSUME GatedConfig, HeldInv, NEW s \in Seats, Work(s), Keeps(s)
  PROVE  /\ agent[s].ticket \in Tickets
         /\ status[agent[s].ticket] # "closed" \/ decided[agent[s].ticket]
<1>1. Working(s) BY ThreadStep, HeldFacts DEF ThreadMoves, Working
<1> QED BY <1>1, HeldFacts DEF HeldInv, WorkOpen, TypeInv, AgentHeld, Keeps, Active

-----------------------------------------------------------------------------
\* Who writes the work on record and the verdict.
LEMMA RecordFrame ==
  ASSUME [Next]_vars
  PROVE  /\ \/ UNCHANGED work
            \/ \E s \in Seats : RecordWork(s)
            \/ \E v \in Verifiers : ClearClaim(v)
         /\ \/ UNCHANGED verdict
            \/ \E v \in Verifiers, result \in {"pass", "fail"} : RecordVerdict(v, result)
<1> DEFINE Works == \/ UNCHANGED work
                    \/ \E s \in Seats : RecordWork(s)
                    \/ \E v \in Verifiers : ClearClaim(v)
           Gives == \E v \in Verifiers, result \in {"pass", "fail"} : RecordVerdict(v, result)
<1> USE DEF board, store, vars
<1>1. ASSUME NEW s \in Seats, Work(s) PROVE Works /\ UNCHANGED verdict
  <2>1. UNCHANGED work \/ RecordWork(s)
    BY <1>1 DEF Work, PrepareTree, BeginRun, AgentEdits, AgentCommitsItself,
       CompleteTicket, RefuseTicket, DeclineTicket, StopSilently, RunFails, DecideOutcome,
       CommitWork, CloseTicket, ReleaseSlot
  <2>2. UNCHANGED verdict
    BY <1>1 DEF Work, PrepareTree, BeginRun, AgentEdits, AgentCommitsItself,
       CompleteTicket, RefuseTicket, DeclineTicket, StopSilently, RunFails, DecideOutcome,
       CommitWork, RecordWork, CloseTicket, ReleaseSlot
  <2> QED BY <2>1, <2>2
<1>2. ASSUME NEW v \in Verifiers, Verify(v) \/ CheckRaises(v)
      PROVE  Works /\ (UNCHANGED verdict \/ Gives)
  <2>1. UNCHANGED work \/ ClearClaim(v)
    BY <1>2 DEF Verify, ShowTicket, ReadDiff, RecordVerdict, ParkTicket, LandTicket, LandFails,
       ReopenTicket, ResetThread, CheckRaises
  <2>2. UNCHANGED verdict \/ Gives
    BY <1>2 DEF Verify, ShowTicket, ReadDiff, ParkTicket, LandTicket, LandFails,
       ClearClaim, ReopenTicket, ResetThread, CheckRaises
  <2> QED BY <2>1, <2>2
<1>3. CASE Human BY <1>3 DEF Human, HumanResponds, HumanAccepts
<1>4. CASE DispatcherCrash \/ SchedulerCrash BY <1>4 DEF DispatcherCrash, SchedulerCrash
<1>5. ASSUME NEW s \in Seats, VerifyNothing(s) PROVE UNCHANGED <<work, verdict>>
  BY <1>5 DEF VerifyNothing
<1>6. ASSUME NEW u \in Tickets, NEW s \in Seats,
             StartAgent(s, u) \/ AssignFront(u, s) \/ AssignTicket(u, s)
      PROVE  UNCHANGED <<work, verdict>>
  BY <1>6 DEF StartAgent, AssignFront, AssignTicket
<1>7. CASE UNCHANGED vars BY <1>7
<1> QED BY <1>1, <1>2, <1>3, <1>4, <1>5, <1>6, <1>7 DEF Next, Dispatch, Triage, Faults

LEMMA MadeGrows ==
  ASSUME TypeInv, [Next]_vars, NEW t \in Tickets
  PROVE  made[t] \in Nat /\ made'[t] \in Nat /\ made[t] <= made'[t]
<1>0. GitOK /\ MaxCommits \in Nat BY LifecycleAssumption DEF TypeInv, TypeOK
<1>1. UNCHANGED made \/ \E s \in Seats : CommitWork(s) \/ AgentCommitsItself(s)
  <2> USE DEF git, vars
  <2>1. ASSUME NEW s \in Seats, Work(s)
        PROVE  UNCHANGED made \/ CommitWork(s) \/ AgentCommitsItself(s)
    BY <2>1 DEF Work, PrepareTree, BeginRun, AgentEdits, CompleteTicket, RefuseTicket,
       DeclineTicket, StopSilently, RunFails, DecideOutcome, RecordWork, CloseTicket, ReleaseSlot
  <2>2. ASSUME NEW v \in Verifiers, Verify(v) \/ CheckRaises(v) PROVE UNCHANGED made
    BY <2>2 DEF Verify, ShowTicket, ReadDiff, RecordVerdict, ParkTicket, LandTicket, LandFails,
       ClearClaim, ReopenTicket, ResetThread, CheckRaises
  <2>3. CASE Human BY <2>3 DEF Human, HumanResponds, HumanAccepts
  <2>4. CASE DispatcherCrash \/ SchedulerCrash BY <2>4 DEF DispatcherCrash, SchedulerCrash
  <2>5. ASSUME NEW s \in Seats, VerifyNothing(s) PROVE UNCHANGED made
    BY <2>5 DEF VerifyNothing
  <2>6. ASSUME NEW u \in Tickets, NEW s \in Seats,
             StartAgent(s, u) \/ AssignFront(u, s) \/ AssignTicket(u, s)
        PROVE  UNCHANGED made
    BY <2>6 DEF StartAgent, AssignFront, AssignTicket
  <2>7. CASE UNCHANGED vars BY <2>7
  <2> QED BY <2>1, <2>2, <2>3, <2>4, <2>5, <2>6, <2>7 DEF Next, Dispatch, Triage, Faults
<1>2. CASE UNCHANGED made BY <1>0, <1>2 DEF GitOK
<1>3. ASSUME NEW s \in Seats, CommitWork(s) \/ AgentCommitsItself(s), ~UNCHANGED made
      PROVE  made[t] \in Nat /\ made'[t] \in Nat /\ made[t] <= made'[t]
  <2> DEFINE u == agent[s].ticket
  <2>1. CommitTree(u, "agent") \/ CommitTree(u, "harness")
    BY <1>3 DEF CommitWork, AgentCommitsItself
  <2>2. made' = [made EXCEPT ![u] = made[u] + 1] BY <2>1 DEF CommitTree
  <2> HIDE DEF u
  <2> QED BY <1>0, <2>2 DEF GitOK
<1> QED BY <1>1, <1>2, <1>3

LEMMA WorkShownNext ==
  ASSUME GatedConfig, HeldInv, WorkShown, Quiet, Quiet', [Next]_vars
  PROVE  WorkShown'
<1> SUFFICES ASSUME NEW s \in Seats PROVE GoesBy(s, agent[s].ticket)'
  BY DEF WorkShown
<1>0. CASE check'[s].pc = "idle" BY <1>0 DEF GoesBy
<1> SUFFICES ASSUME check'[s].pc # "idle" PROVE GoesBy(s, agent[s].ticket)'
  BY <1>0
<1> USE HeldFacts
<1>1. CASE ~Own(s)
  <2>1. agent'[s] = agent[s] /\ check'[s] = check[s]
    BY <1>1, OthersLeft DEF NoCheck
  <2>2. Keeps(s)' BY <2>1 DEF Keeps, Active, CheckOwned
  <2>3. Untouched(agent[s].ticket) BY <1>1, <2>1, <2>2, KeptUntouched
  <2> QED BY <2>1, <2>3 DEF WorkShown, GoesBy, Untouched
<1>2. CASE Work(s)
  <2>1. check'[s].pc = "land" /\ check[s].pc = "idle" BY <1>2, WorkCheck
  <2>2. RecordWork(s)
    BY <1>2, <2>1 DEF Work, PrepareTree, BeginRun, AgentEdits, AgentCommitsItself,
       CompleteTicket, RefuseTicket, DeclineTicket, StopSilently, RunFails, DecideOutcome,
       CommitWork, CloseTicket, ReleaseSlot
  <2>3. agent'[s].pc # "verifying" BY <2>2 DEF RecordWork, Step, AgentOK
  <2> QED BY <2>1, <2>3 DEF GoesBy
<1>3. CASE Verify(s) \/ CheckRaises(s) \/ VerifyNothing(s)
  <2> DEFINE t == agent[s].ticket
  <2> USE DEF Verifiers, CheckOK
  <2>0. agent'[s].ticket = t /\ ~VerifyNothing(s)
    BY <1>3, CheckThread DEF VerifyNothing, Return, NoCheck
  <2>1. CASE ShowTicket(s, t) BY <2>0, <2>1 DEF ShowTicket, board, GoesBy
  <2>2. CASE check[s].pc # "idle"
    <3>1. check[s].ticket = t /\ t \in Tickets BY <2>2 DEF CheckOwned, TypeInv, CheckHeld
    <3>2. CheckAdvances(s)
      BY <1>3, <2>0, <2>2, CheckProgress DEF ShowTicket
    <3>3. CASE ReadDiff(s) BY <2>0, <3>3 DEF ReadDiff, board, WorkShown, GoesBy
    <3>4. CASE RecordVerdict(s, "pass")
      BY <2>0, <3>1, <3>4 DEF RecordVerdict, StoreOK, board, WorkShown, GoesBy
    <3>5. CASE ClearClaim(s)
      <4>1. check'[s].pc = "reopen" BY <3>5 DEF ClearClaim, Resume
      <4>2. work'[t] = {} BY <3>1, <3>5, ClearedAll DEF BoardOK
      <4> QED BY <2>0, <4>1, <4>2 DEF GoesBy
    <3>6. CASE check'[s].pc = "reset"
      <4>1. ReopenTicket(s) BY <1>3, <3>6, CheckGoesOn
      <4> QED BY <2>0, <3>6, <4>1 DEF ReopenTicket, WorkShown, GoesBy
    <3> QED BY <1>3, <3>2, <3>3, <3>4, <3>5, <3>6, CheckGoesOn DEF CheckAdvances, GoesBy
  <2> QED BY <1>3, <2>1, <2>2, CheckGoesOn
<1> QED BY <1>1, <1>2, <1>3 DEF Own

LEMMA NewWorkNext ==
  ASSUME GatedConfig, HeldInv, WorkShown, NewWorkIsNew, Quiet, Quiet', [Next]_vars
  PROVE  NewWorkIsNew'
<1> USE HeldFacts
<1>0. /\ \A u \in Tickets : made[u] \in Nat /\ made'[u] \in Nat /\ made[u] <= made'[u]
      /\ \A c \in Commit : c.n \in Nat
  BY MadeGrows, LifecycleAssumption DEF Commit
<1>1. ASSUME NEW t \in Tickets PROVE Numbered(t, work[t] \cup verdict[t].work)'
  <2>1. ASSUME NEW c \in work[t] \cup verdict[t].work PROVE c.n <= made'[t]
    <3>1. c.n <= made[t] /\ c \in Commit BY <2>1 DEF NewWorkIsNew, Numbered, BoardOK, StoreOK
    <3> QED BY <1>0, <3>1
  <2>2. ASSUME NEW c \in work'[t] PROVE c.n <= made'[t]
    <3>1. CASE c \in work[t] BY <2>1, <3>1
    <3>2. ASSUME NEW s \in Seats, RecordWork(s), c \notin work[t] PROVE c.n <= made'[t]
      <4>1. agent[s].pc = "record" /\ c \in agent[s].sha /\ t = agent[s].ticket
        BY <2>2, <3>2 DEF RecordWork, Step, BoardOK
      <4>2. c.n <= made[t] BY <4>1 DEF NewWorkIsNew, Numbered
      <4> QED BY <3>2, <4>2 DEF RecordWork, git
    <3>3. ASSUME NEW v \in Verifiers, ClearClaim(v), c \notin work[t] PROVE FALSE
      BY <2>2, <3>3, ClearedAll DEF BoardOK
    <3> QED BY <2>2, <3>1, <3>2, <3>3, RecordFrame
  <2>3. ASSUME NEW c \in verdict'[t].work PROVE c.n <= made'[t]
    <3>1. CASE c \in verdict[t].work BY <2>1, <3>1
    <3>2. ASSUME NEW v \in Verifiers, NEW result \in {"pass", "fail"}, RecordVerdict(v, result),
                 c \notin verdict[t].work
          PROVE  c.n <= made'[t]
      <4>1. check[v].pc = "judged" /\ c \in check[v].work /\ t = check[v].ticket
        BY <2>3, <3>2 DEF RecordVerdict, StoreOK
      <4>2. v \in Seats /\ t = agent[v].ticket BY <4>1 DEF CheckOwned, Verifiers
      <4>3. check[v].work = work[t] BY <4>1, <4>2 DEF WorkShown, GoesBy
      <4> QED BY <2>1, <4>1, <4>3
    <3> QED BY <2>3, <3>1, <3>2, RecordFrame
  <2> QED BY <2>2, <2>3 DEF Numbered
<1>2. ASSUME NEW s \in Seats, agent'[s].pc = "record"
      PROVE  LET t == agent'[s].ticket IN
             /\ \A c \in agent'[s].sha : c.n <= made'[t]
             /\ agent'[s].sha # {} => agent'[s].sha # verdict'[t].work
  <2> DEFINE t == agent[s].ticket
  <2>1. CASE ~Own(s)
    <3>1. agent'[s] = agent[s] BY <1>2, <2>1, OthersLeft, JustStarted DEF NoAgent
    <3>2. Untouched(t) BY <1>2, <2>1, <3>1, KeptUntouched DEF Keeps, Active
    <3> QED BY <1>2, <3>1, <3>2 DEF NewWorkIsNew, Numbered, Untouched
  <2>2. CASE Work(s)
    <3>1. CommitWork(s)
      <4> USE <1>2 DEF AgentOK
      <4>1. ~PrepareTree(s) /\ ~BeginRun(s) BY DEF PrepareTree, Step, BeginRun
      <4>2. ~AgentEdits(s) /\ ~AgentCommitsItself(s) BY DEF AgentEdits, AgentCommitsItself
      <4>3. ~CompleteTicket(s) /\ ~RefuseTicket(s) /\ ~DeclineTicket(s) /\ ~StopSilently(s)
        BY DEF CompleteTicket, RefuseTicket, DeclineTicket, StopSilently, EndRun, Step
      <4>4. ~RunFails(s) /\ ~DecideOutcome(s) /\ ~RecordWork(s) /\ ~ReleaseSlot(s)
        BY DEF RunFails, DecideOutcome, RecordWork, Step, ReleaseSlot, NoAgent
      <4>5. ~CloseTicket(s) BY DEF CloseTicket
      <4> QED BY <2>2, <4>1, <4>2, <4>3, <4>4, <4>5 DEF Work
    <3>2. /\ t \in Tickets /\ agent'[s].ticket = t /\ UNCHANGED verdict
          /\ agent[s].pc = "commit" /\ s \in Seats
      BY <3>1 DEF CommitWork, AgentOK, store, TypeInv, AgentHeld
    <3>3. CASE dirty[t] /\ CommitTree(t, "harness")
                /\ agent'[s].sha = {[n |-> made[t] + 1, by |-> "harness"]}
      <4>1. made'[t] = made[t] + 1 BY <3>2, <3>3 DEF CommitTree, GitOK
      <4>2. \A c \in agent'[s].sha : c.n <= made'[t] BY <1>0, <3>2, <3>3, <4>1
      <4>3. \A c \in verdict[t].work : c.n <= made[t] BY <3>2 DEF NewWorkIsNew, Numbered
      <4>4. [n |-> made[t] + 1, by |-> "harness"] \notin verdict[t].work
        BY <1>0, <3>2, <4>3
      <4> QED BY <3>2, <3>3, <4>2, <4>4
    <3>4. CASE agent'[s].sha = branch[t] \ agent[s].base
      <4>1. agent[s].base = branch[t] BY <3>2 DEF HeldInv, SinceBase, Keeps, Active
      <4> QED BY <3>2, <3>4, <4>1
    <3> QED BY <3>1, <3>2, <3>3, <3>4 DEF CommitWork, AgentOK
  <2>3. CASE Verify(s) \/ CheckRaises(s) \/ VerifyNothing(s) BY <1>2, <2>3, CheckThread
  <2> QED BY <2>1, <2>2, <2>3 DEF Own
<1> QED BY <1>1, <1>2 DEF NewWorkIsNew, Numbered

LEMMA VerdictOfJudgedNext ==
  ASSUME GatedConfig, HeldInv, VerdictOfJudged, Quiet, Quiet', [Next]_vars
  PROVE  VerdictOfJudged'
<1> USE HeldFacts
<1>1. CASE UNCHANGED verdict BY <1>1 DEF VerdictOfJudged, NoVerdict
<1>2. ASSUME NEW v \in Verifiers, NEW result \in {"pass", "fail"}, RecordVerdict(v, result)
      PROVE  VerdictOfJudged'
  <2> DEFINE t == check[v].ticket
  <2>1. v \in Seats /\ t = agent[v].ticket /\ agent[v].pc = "verifying" /\ check[v].pc = "judged"
    BY <1>2 DEF RecordVerdict, CheckOwned, Verifiers
  <2>2. Kind[t] # "none" BY <2>1 DEF HeldInv, JudgedClosed
  <2>3. verdict' = [verdict EXCEPT ![t] = [result |-> result, work |-> check[v].work]]
    BY <1>2 DEF RecordVerdict
  <2> HIDE DEF t
  <2> QED BY <2>2, <2>3 DEF VerdictOfJudged, StoreOK, NoVerdict
<1> QED BY <1>1, <1>2, RecordFrame

\* What the steps of its own thread may not do to a ticket that stays closed and
\* that nobody is asked about.
LEMMA OwnWorkOpen ==
  ASSUME GatedConfig, HeldInv, NEW s \in Seats, Keeps(s), Work(s), ~decided'[agent[s].ticket],
         status'[agent[s].ticket] = "closed"
  PROVE  CloseTicket(s) /\ agent'[s].pc = "verifying" /\ agent'[s].ticket = agent[s].ticket
<1> DEFINE t == agent[s].ticket
<1> USE HeldFacts DEF AgentOK, board
<1>1. t \in Tickets /\ (status[t] # "closed" \/ decided[t]) BY AtWork
<1>2. UNCHANGED decided
  BY DEF Work, PrepareTree, BeginRun, AgentEdits, AgentCommitsItself, CompleteTicket,
     RefuseTicket, DeclineTicket, StopSilently, RunFails, DecideOutcome, CommitWork,
     RecordWork, CloseTicket, ReleaseSlot
<1>3. UNCHANGED status \/ DeclineTicket(s) \/ CloseTicket(s)
  BY DEF Work, PrepareTree, BeginRun, AgentEdits, AgentCommitsItself, CompleteTicket,
     RefuseTicket, StopSilently, RunFails, DecideOutcome, CommitWork, RecordWork, ReleaseSlot
<1>4. ~DeclineTicket(s) BY <1>1 DEF DeclineTicket, BoardOK
<1>5. CloseTicket(s) /\ ~UNCHANGED status BY <1>1, <1>2, <1>3, <1>4
<1> QED BY <1>5 DEF CloseTicket

LEMMA LandedBeforeCloseNext ==
  ASSUME GatedConfig, HeldInv, LandedBeforeClose, Quiet, Quiet', [Next]_vars
  PROVE  LandedBeforeClose'
<1> USE HeldFacts
<1>1. ASSUME NEW s \in Seats, agent'[s].pc = "closing", Kind[agent'[s].ticket] = "none"
      PROVE  branch'[agent'[s].ticket] \subseteq landed'[agent'[s].ticket]
  <2> DEFINE t == agent[s].ticket
  <2>1. CASE ~Own(s)
    <3>1. agent'[s] = agent[s] BY <1>1, <2>1, OthersLeft, JustStarted DEF NoAgent
    <3>2. Untouched(t) BY <1>1, <2>1, <3>1, KeptUntouched DEF Keeps, Active
    <3> QED BY <1>1, <3>1, <3>2 DEF LandedBeforeClose, Untouched
  <2>2. CASE Work(s)
    <3> USE <1>1 DEF AgentOK
    <3>1. ~PrepareTree(s) /\ ~BeginRun(s) BY DEF PrepareTree, Step, BeginRun
    <3>2. ~AgentEdits(s) /\ ~AgentCommitsItself(s) BY DEF AgentEdits, AgentCommitsItself
    <3>3. ~CompleteTicket(s) /\ ~RefuseTicket(s) /\ ~DeclineTicket(s) /\ ~StopSilently(s)
      BY DEF CompleteTicket, RefuseTicket, DeclineTicket, StopSilently, EndRun, Step
    <3>4. ~RunFails(s) /\ ~DecideOutcome(s) /\ ~RecordWork(s) /\ ~ReleaseSlot(s)
      BY DEF RunFails, DecideOutcome, RecordWork, Step, ReleaseSlot, NoAgent
    <3>5. ~CloseTicket(s) BY DEF CloseTicket
    <3>6. ~CommitWork(s) BY DEF CommitWork
    <3> QED BY <2>2, <3>1, <3>2, <3>3, <3>4, <3>5, <3>6 DEF Work
  <2>3. CASE Verify(s) \/ CheckRaises(s) \/ VerifyNothing(s)
    <3>1. agent'[s].ticket = t /\ LandTicket(s) BY <1>1, <2>3, CheckThread
    <3>2. check[s].ticket = t /\ t \in Tickets
      BY <3>1 DEF LandTicket, CheckOwned, TypeInv, CheckHeld, Verifiers
    <3> QED BY <3>1, <3>2 DEF LandTicket, GitOK
  <2> QED BY <2>1, <2>2, <2>3 DEF Own
<1>2. ASSUME NEW t \in Tickets, Kind[t] = "none", status'[t] = "closed", ~decided'[t],
             ~flagged'[t], work'[t] # {}
      PROVE  branch'[t] \subseteq landed'[t]
  <2>1. CASE Untouched(t) BY <1>2, <2>1 DEF Untouched, LandedBeforeClose
  <2>2. ASSUME NEW s \in Seats, Keeps(s), agent[s].ticket = t, Work(s)
        PROVE  branch'[t] \subseteq landed'[t]
    <3>1. CloseTicket(s) BY <1>2, <2>2, OwnWorkOpen
    <3>2. agent[s].pc = "closing" /\ UNCHANGED git BY <3>1 DEF CloseTicket
    <3> QED BY <1>2, <2>2, <3>2 DEF LandedBeforeClose, git
  <2>3. ASSUME NEW s \in Seats, Keeps(s), agent[s].ticket = t,
               Verify(s) \/ CheckRaises(s) \/ VerifyNothing(s)
        PROVE  branch'[t] \subseteq landed'[t]
    <3>1. check[s].pc # "idle" => check[s].ticket = t BY <2>3 DEF CheckOwned
    <3>2. CASE LandTicket(s) BY <1>2, <3>1, <3>2 DEF LandTicket, GitOK
    <3>3. CASE ClearClaim(s)
      <4>1. check[s].ticket = t BY <3>1, <3>3 DEF ClearClaim
      <4> QED BY <1>2, <3>3, <4>1, ClearedAll DEF BoardOK, Verifiers
    <3>4. CASE ReopenTicket(s) BY <1>2, <3>1, <3>4 DEF ReopenTicket, BoardOK
    <3>5. CASE UNCHANGED <<git, status, decided, work>> /\ (flagged[t] => flagged'[t])
      BY <1>2, <3>5 DEF LandedBeforeClose, git
    <3>6. \/ LandTicket(s) \/ ClearClaim(s) \/ ReopenTicket(s)
          \/ UNCHANGED <<git, status, decided, work>> /\ (flagged[t] => flagged'[t])
      <4>1. CASE CheckRaises(s) BY <4>1 DEF CheckRaises, CountFailure, BoardOK, board
      <4>2. CASE ParkTicket(s) BY <4>2 DEF ParkTicket, BoardOK, board
      <4> QED BY <2>3, <4>1, <4>2 DEF Verify, ShowTicket, ReadDiff, RecordVerdict, LandFails,
                 ResetThread, VerifyNothing, board
    <3> QED BY <3>2, <3>3, <3>4, <3>5, <3>6
  <2> QED BY <2>1, <2>2, <2>3, OthersUntouched DEF Own
<1> QED BY <1>1, <1>2 DEF LandedBeforeClose

-----------------------------------------------------------------------------
\* The ticket's own thread, or its check, moves; or it is untouched and its
\* thread as it was.
LEMMA TouchedOrNot ==
  ASSUME GatedConfig, HeldInv, [Next]_vars, Quiet, Quiet', NEW t \in Tickets
  PROVE  \/ \E s \in Seats : /\ Keeps(s) /\ agent[s].ticket = t
                            /\ (Work(s) \/ Verify(s) \/ VerifyNothing(s))
         \/ /\ Untouched(t)
            /\ \A s \in Seats : agent[s].ticket = t /\ agent[s].pc = "verifying"
                 => agent'[s] = agent[s] /\ check'[s] = check[s]
<1> USE HeldFacts
<1>1. SUFFICES ASSUME \A s \in Seats : Keeps(s) /\ agent[s].ticket = t => ~Own(s)
               PROVE  /\ Untouched(t)
                      /\ \A s \in Seats : agent[s].ticket = t /\ agent[s].pc = "verifying"
                           => agent'[s] = agent[s] /\ check'[s] = check[s]
  BY QuietBefore DEF Own, Verifiers
<1>2. Untouched(t) BY <1>1, OthersUntouched
<1>3. ASSUME NEW s \in Seats, agent[s].ticket = t, agent[s].pc = "verifying"
      PROVE  agent'[s] = agent[s] /\ check'[s] = check[s]
  <2>1. ~Own(s) BY <1>1, <1>3 DEF Keeps, Active
  <2>2. ASSUME NEW u \in Tickets, StartAgent(s, u) PROVE FALSE
    <3>1. agent[s].pc = "idle" BY <2>2 DEF StartAgent, Startable, Busy
    <3> QED BY <1>3, <3>1
  <2> QED BY <2>1, <2>2, OthersLeft, QuietBefore
<1> QED BY <1>2, <1>3

\* While its thread is at work a judged ticket is open, parked or decided, and a
\* verdict it still has is spent.
LEMMA OwnWorkSpent ==
  ASSUME GatedConfig, HeldInv, Quiet, NEW t \in Tickets, NEW s \in Seats, Spent(t), Keeps(s),
          agent[s].ticket = t, Work(s)
  PROVE  decided'[t] \/ flagged'[t]
<1> USE HeldFacts
<1>1. status[t] # "closed" \/ decided[t] BY AtWork
<1>2. ASSUME NEW r \in Seats, ActingOn(r, t) PROVE FALSE
  <2>1. Keeps(r) BY <1>2 DEF ActingOn, Keeps, Active
  <2>2. r = s BY <1>2, <2>1, KeepsSeat DEF ActingOn
  <2> QED BY <1>2, <2>2, ThreadStep DEF ActingOn, ThreadMoves
<1>3. decided[t] \/ flagged[t] BY <1>1, <1>2 DEF Spent, LandedAsJudged
<1>4. UNCHANGED decided /\ (flagged[t] => flagged'[t])
  BY DEF Work, PrepareTree, BeginRun, AgentEdits, AgentCommitsItself, CompleteTicket,
     RefuseTicket, DeclineTicket, StopSilently, RunFails, CountFailure, DecideOutcome, CommitWork,
     RecordWork, CloseTicket, ReleaseSlot, BoardOK, board
<1> QED BY <1>3, <1>4

LEMMA JudgingThread ==
  ASSUME GatedConfig, HeldInv, NEW s \in Seats, Verify(s) \/ VerifyNothing(s),
         Kind[agent[s].ticket] # "none"
  PROVE  agent[s].pc = "verifying" /\ agent'[s].ticket = agent[s].ticket
<1> USE HeldFacts DEF Verifiers
<1>1. CASE check[s].pc # "idle" BY <1>1, CheckThread DEF CheckOwned
<1>2. CASE check[s].pc = "idle"
  <2>1. VerifyNothing(s) \/ \E u \in Tickets : ShowTicket(s, u)
    BY <1>2 DEF Verify, ReadDiff, RecordVerdict, ParkTicket, LandTicket, LandFails,
       ClearClaim, ReopenTicket, ResetThread
  <2>2. agent[s].pc = "verifying"
    BY <2>1, LifecycleAssumption DEF VerifyNothing, ShowTicket
  <2> QED BY <2>2, CheckThread
<1> QED BY <1>1, <1>2

\* What a check's step leaves of a ticket that keeps its work and its verdict.
LEMMA CheckKeepsSpent ==
  ASSUME GatedConfig, HeldInv, Quiet, WorkShown, NEW t \in Tickets, NEW s \in Seats,
         Keeps(s), agent[s].ticket = t, Kind[t] # "none", Verify(s) \/ VerifyNothing(s),
         ~(\E result \in {"pass", "fail"} : RecordVerdict(s, result)),
         ~ClearClaim(s), ~ReopenTicket(s), Spent(t)
  PROVE  Spent(t)'
<1> USE HeldFacts DEF Verifiers
<1>1. agent[s].pc = "verifying" /\ agent'[s].ticket = t
  BY JudgingThread
<1>2. check[s].pc # "idle" => check[s].ticket = t BY DEF CheckOwned
<1>3. /\ UNCHANGED <<status, decided, branch, verdict, work>>
      /\ flagged[t] => flagged'[t]
      /\ landed[t] \subseteq landed'[t]
  <2> USE DEF board, git, store
  <2>1. CASE ParkTicket(s) BY <2>1 DEF ParkTicket, BoardOK
  <2>2. CASE LandTicket(s) BY <2>2 DEF LandTicket, GitOK
  <2> QED BY <2>1, <2>2 DEF Verify, ShowTicket, ReadDiff, LandFails, ResetThread, VerifyNothing
<1>4. CASE decided[t] \/ flagged[t] \/ LandedAsJudged(t)
  BY <1>3, <1>4 DEF Spent, LandedAsJudged
<1>5. ASSUME NEW r \in Seats, ActingOn(r, t) PROVE Spent(t)'
  <2>1. r = s BY <1>5, KeepsSeat DEF ActingOn, Keeps, Active
  <2>2. check[s].pc \in {"land", "redo", "park"} BY <1>5, <2>1 DEF ActingOn
  <2>3. LandTicket(s) \/ LandFails(s) \/ ParkTicket(s)
    BY <2>2 DEF Verify, ShowTicket, ReadDiff, ResetThread, VerifyNothing, ClearClaim, RecordVerdict
  <2>4. CASE ParkTicket(s)
    <3>1. flagged'[t] BY <1>2, <2>2, <2>4 DEF ParkTicket, BoardOK
    <3> QED BY <3>1 DEF Spent
  <2>5. CASE LandTicket(s)
    <3>1. branch[t] \subseteq landed'[t] BY <1>2, <2>2, <2>5 DEF LandTicket, GitOK
    <3>2. /\ status[t] = "closed"
          /\ verdict[t] = [result |-> "pass", work |-> work[t]]
      BY <1>1, <2>5 DEF LandTicket, HeldInv, JudgedClosed, WorkShown, GoesBy
    <3>3. LandedAsJudged(t)' BY <1>3, <3>1, <3>2 DEF LandedAsJudged
    <3> QED BY <3>3 DEF Spent
  <2>6. CASE LandFails(s)
    <3>1. check'[s].pc \in {"redo", "park"} /\ UNCHANGED agent
      BY <2>6 DEF LandFails, CheckOK
    <3>2. ActingOn(s, t)' BY <1>1, <3>1 DEF ActingOn
    <3> QED BY <3>2 DEF Spent
  <2> QED BY <2>3, <2>4, <2>5, <2>6
<1> QED BY <1>4, <1>5 DEF Spent

LEMMA VerdictSpentNext ==
  ASSUME GatedConfig, HeldInv, WorkShown, NewWorkIsNew, VerdictOfJudged, VerdictOfJudged',
         VerdictSpent, Quiet, Quiet', [Next]_vars
  PROVE  VerdictSpent'
<1> SUFFICES ASSUME NEW t \in Tickets, verdict'[t].result # "none",
                    (verdict'[t].work = work'[t] /\ work'[t] # {}) \/ reworks'[t] = 0
             PROVE  Spent(t)'
  BY DEF VerdictSpent
<1> USE HeldFacts DEF Verifiers
<1>0. Kind[t] # "none" BY DEF VerdictOfJudged, NoVerdict
<1>1. CASE /\ Untouched(t)
           /\ \A s \in Seats : agent[s].ticket = t /\ agent[s].pc = "verifying"
                => agent'[s] = agent[s] /\ check'[s] = check[s]
  <2>1. Spent(t) BY <1>0, <1>1 DEF VerdictSpent, Untouched
  <2>2. CASE decided[t] \/ flagged[t] \/ LandedAsJudged(t)
    BY <1>1, <2>2 DEF Untouched, Spent, LandedAsJudged
  <2>3. ASSUME NEW s \in Seats, ActingOn(s, t) PROVE ActingOn(s, t)'
    BY <1>1, <2>3 DEF ActingOn
  <2> QED BY <2>1, <2>2, <2>3 DEF Spent
<1>2. ASSUME NEW s \in Seats, Keeps(s), agent[s].ticket = t, Work(s) PROVE Spent(t)'
  <2>1. verdict' = verdict /\ reworks' = reworks
    BY <1>2 DEF Work, PrepareTree, BeginRun, AgentEdits, AgentCommitsItself, CompleteTicket,
       RefuseTicket, DeclineTicket, StopSilently, RunFails, DecideOutcome, CommitWork,
       RecordWork, CloseTicket, ReleaseSlot, board, store
  <2>2. work' = work \/ RecordWork(s)
    BY <1>2 DEF Work, PrepareTree, BeginRun, AgentEdits, AgentCommitsItself, CompleteTicket,
       RefuseTicket, DeclineTicket, StopSilently, RunFails, DecideOutcome, CommitWork,
       CloseTicket, ReleaseSlot, board
  <2>3. work'[t] = work[t] \/ reworks[t] = 0
    <3>1. CASE RecordWork(s) /\ work'[t] # work[t]
      <4>1. agent[s].pc = "record" /\ work'[t] = agent[s].sha /\ agent[s].sha # {}
        BY <1>2, <3>1 DEF RecordWork, Step, BoardOK
      <4>2. work'[t] # verdict[t].work BY <1>2, <4>1 DEF NewWorkIsNew
      <4> QED BY <2>1, <4>2
    <3> QED BY <2>2, <3>1
  <2>4. Spent(t) BY <1>0, <2>1, <2>3 DEF VerdictSpent
  <2> QED BY <1>2, <2>4, OwnWorkSpent DEF Spent
<1>3. ASSUME NEW s \in Seats, Keeps(s), agent[s].ticket = t, Verify(s) \/ VerifyNothing(s)
      PROVE  Spent(t)'
  <2>1. check[s].pc # "idle" => check[s].ticket = t BY <1>3 DEF CheckOwned
  <2>2. agent[s].pc = "verifying"
    BY <1>0, <1>3, JudgingThread
  <2>3. ASSUME NEW result \in {"pass", "fail"}, RecordVerdict(s, result) PROVE Spent(t)'
    <3>1. check'[s].pc \in {"land", "redo", "park"} /\ UNCHANGED agent
      BY <2>3 DEF RecordVerdict, CheckOK
    <3>2. ActingOn(s, t)' BY <1>3, <2>2, <3>1 DEF ActingOn
    <3> QED BY <3>2 DEF Spent
  <2>4. ASSUME ClearClaim(s) PROVE FALSE
    <3>0. check[s].ticket = t /\ check[s].pc = "redo" BY <2>1, <2>4 DEF ClearClaim
    <3>1. work'[t] = {} BY <2>4, <3>0, ClearedAll DEF BoardOK
    <3>2. reworks'[t] = check[s].reworks BY <2>4, <3>0 DEF ClearClaim, BoardOK
    <3>3. check[s].reworks = reworks[t] + 1
      BY <3>0 DEF HeldInv, SafeInv, Budget, CheckBudget, Quiet
    <3> QED BY <3>1, <3>2, <3>3 DEF BoardOK
  <2>5. ASSUME ReopenTicket(s) PROVE FALSE
    <3>1. work[t] = {} /\ UNCHANGED <<work, reworks>> /\ check[s].pc = "reopen"
      BY <1>3, <2>5 DEF ReopenTicket, WorkShown, GoesBy
    <3>2. requeues[t] + 1 <= reworks[t] /\ requeues[t] \in Nat
      BY <2>1, <3>1 DEF HeldInv, SafeInv, Budget, CheckBudget, Quiet,
         TypeInv, TypeOK, HistoryOK
    <3> QED BY <3>1, <3>2 DEF BoardOK
  <2>6. CASE /\ ~\E result \in {"pass", "fail"} : RecordVerdict(s, result)
             /\ ~ClearClaim(s) /\ ~ReopenTicket(s)
    <3>1. UNCHANGED <<work, verdict, reworks>>
      BY <1>3, <2>6 DEF Verify, ShowTicket, ReadDiff, ParkTicket, LandTicket, LandFails,
         ResetThread, VerifyNothing, board, store
    <3>2. Spent(t) BY <1>0, <3>1 DEF VerdictSpent
    <3> QED BY <1>0, <1>3, <2>6, <3>2, CheckKeepsSpent
  <2> QED BY <2>3, <2>4, <2>5, <2>6
<1> QED BY <1>1, <1>2, <1>3, TouchedOrNot

LEMMA RestsJudgedNext ==
  ASSUME GatedConfig, HeldInv, WorkShown, VerdictSpent, RestsJudged, Quiet, Quiet', [Next]_vars
  PROVE  RestsJudged'
<1> SUFFICES ASSUME NEW t \in Tickets, Kind[t] # "none", status'[t] = "closed",
                    ~decided'[t], ~flagged'[t], work'[t] # {},
                    \A s \in Seats : ~(agent'[s].ticket = t /\ agent'[s].pc = "verifying")
             PROVE  LandedAsJudged(t)'
  BY DEF RestsJudged
<1> USE HeldFacts DEF Verifiers
<1>1. CASE /\ Untouched(t)
           /\ \A s \in Seats : agent[s].ticket = t /\ agent[s].pc = "verifying"
                => agent'[s] = agent[s] /\ check'[s] = check[s]
  <2>1. LandedAsJudged(t) BY <1>1 DEF RestsJudged, Untouched
  <2> QED BY <1>1, <2>1 DEF LandedAsJudged, Untouched
<1>2. ASSUME NEW s \in Seats, Keeps(s), agent[s].ticket = t, Work(s) PROVE FALSE
  BY <1>2, OwnWorkOpen
<1>3. ASSUME NEW s \in Seats, Keeps(s), agent[s].ticket = t, Verify(s) \/ VerifyNothing(s)
      PROVE  LandedAsJudged(t)'
  <2>1. check[s].pc # "idle" => check[s].ticket = t BY <1>3 DEF CheckOwned
  <2>2. agent[s].pc = "verifying" /\ check'[s].pc = "idle"
    BY <1>3, JudgingThread, CheckThread DEF NoCheck
  <2>3. CASE LandTicket(s)
    <3>1. branch[t] \subseteq landed'[t] BY <2>1, <2>3 DEF LandTicket, GitOK
    <3>2. /\ status[t] = "closed" /\ verdict[t] = [result |-> "pass", work |-> work[t]]
      BY <1>3, <2>2, <2>3 DEF LandTicket, HeldInv, JudgedClosed, WorkShown, GoesBy
    <3> QED BY <2>3, <3>1, <3>2 DEF LandTicket, LandedAsJudged, board, store
  <2>4. ASSUME ParkTicket(s) PROVE FALSE BY <2>1, <2>4 DEF ParkTicket, BoardOK
  <2>5. ASSUME ResetThread(s) PROVE FALSE
    <3>1. status[t] # "closed" \/ decided[t]
      BY <1>3, <2>5 DEF ResetThread, HeldInv, WorkOpen, Working
    <3> QED BY <2>5, <3>1 DEF ResetThread, board
  <2>6. CASE VerifyNothing(s)
    <3>1. UNCHANGED <<status, decided, flagged, work, verdict, branch, landed, reworks>>
      BY <2>6 DEF VerifyNothing, board, store, git
    <3>2. ~AwaitingVerdict(t) /\ check[s].pc = "idle" BY <1>3, <2>6 DEF VerifyNothing
    <3>3. /\ verdict[t].result # "none"
          /\ verdict[t].work = work[t] \/ reworks[t] = 0
      BY <3>1, <3>2 DEF AwaitingVerdict
    <3>4. Spent(t) BY <3>1, <3>3 DEF VerdictSpent
    <3>5. ASSUME NEW r \in Seats, ActingOn(r, t) PROVE FALSE
      <4>1. r = s BY <1>3, <3>5, KeepsSeat DEF ActingOn, Keeps, Active
      <4> QED BY <3>2, <3>5, <4>1 DEF ActingOn
    <3> QED BY <3>1, <3>4, <3>5 DEF Spent, LandedAsJudged
  <2>7. LandTicket(s) \/ ParkTicket(s) \/ ResetThread(s) \/ VerifyNothing(s)
    <3>1. LandFails(s) => check'[s].pc \in {"redo", "park"} BY DEF LandFails, CheckOK
    <3>2. ~\E u \in Tickets : ShowTicket(s, u) BY <2>2 DEF ShowTicket, CheckOK
    <3>3. ~ReadDiff(s) /\ ~LandFails(s) BY <2>2, <3>1 DEF ReadDiff, CheckOK
    <3>4. ~\E result \in {"pass", "fail"} : RecordVerdict(s, result)
      BY <2>2 DEF RecordVerdict, CheckOK
    <3>5. ~ClearClaim(s) /\ ~ReopenTicket(s)
      BY <2>2 DEF ClearClaim, ReopenTicket, Resume, CheckOK
    <3> QED BY <1>3, <3>2, <3>3, <3>4, <3>5 DEF Verify
  <2> QED BY <2>3, <2>4, <2>5, <2>6, <2>7
<1> QED BY <1>1, <1>2, <1>3, TouchedOrNot

-----------------------------------------------------------------------------
LEMMA InitActed == GatedConfig /\ Init => ActedInv
<1> SUFFICES ASSUME GatedConfig, Init PROVE ActedInv OBVIOUS
<1>1. SafeInv BY InitSafe
<1>2. LeftDeclined /\ SinceBase /\ WorkOpen /\ JudgedClosed
  BY DEF Init, LeftDeclined, SinceBase, WorkOpen, JudgedClosed, Working, Keeps, Active,
     NoAgent, NoCheck, Verifiers
<1>3. WorkShown BY DEF Init, WorkShown, GoesBy, NoCheck, Verifiers
<1>4. NewWorkIsNew BY DEF Init, NewWorkIsNew, Numbered, NoVerdict, NoAgent
<1>5. VerdictOfJudged BY DEF Init, VerdictOfJudged
<1>6. LandedBeforeClose BY DEF Init, LandedBeforeClose, NoAgent
<1>7. VerdictSpent BY DEF Init, VerdictSpent, NoVerdict
<1>8. RestsJudged BY DEF Init, RestsJudged
<1> QED BY <1>1, <1>2, <1>3, <1>4, <1>5, <1>6, <1>7, <1>8 DEF ActedInv, HeldInv

QuietlyActed == SafeInv /\ (Quiet => ActedInv)

LEMMA NextActed == GatedConfig /\ QuietlyActed /\ [Next]_vars => QuietlyActed'
<1> SUFFICES ASSUME GatedConfig, QuietlyActed, [Next]_vars PROVE QuietlyActed' OBVIOUS
<1>1. SafeInv' BY NextSafe DEF QuietlyActed
<1>2. ASSUME Quiet' PROVE ActedInv'
  <2>1. Quiet BY <1>2, QuietBefore DEF QuietlyActed, SafeInv
  <2> USE <1>2, <2>1 DEF QuietlyActed, ActedInv
  <2>2. HeldInv' BY HeldNext
  <2>3. WorkShown' BY WorkShownNext
  <2>4. NewWorkIsNew' BY NewWorkNext
  <2>5. VerdictOfJudged' BY VerdictOfJudgedNext
  <2>6. LandedBeforeClose' BY LandedBeforeCloseNext
  <2>7. VerdictSpent' BY <2>5, VerdictSpentNext
  <2>8. RestsJudged' BY RestsJudgedNext
  <2> QED BY <2>2, <2>3, <2>4, <2>5, <2>6, <2>7, <2>8
<1> QED BY <1>1, <1>2 DEF QuietlyActed

LEMMA AlwaysActed == GatedConfig => (Spec => []QuietlyActed)
<1> SUFFICES ASSUME GatedConfig PROVE Spec => []QuietlyActed OBVIOUS
<1>1. Init => QuietlyActed BY InitActed DEF QuietlyActed, ActedInv, HeldInv
<1>2. QuietlyActed /\ [Next]_vars => QuietlyActed' BY NextActed
<1> QED BY <1>1, <1>2, PTL DEF Spec

\* Until something crashes or raises, or a ticket in work changes seats, a judged
\* ticket with work on record rests closed only on a pass of that work, with its
\* branch landed (verifier.py 718-730: "a fail must be actioned", "a pass is what
\* lands the work"), however many agents, reworks, refusals, conflicts and
\* people's answers there were.
THEOREM VerdictsAreActedOn == GatedConfig => (Spec => []VerdictActedOn)
<1>1. QuietlyActed => VerdictActedOn
  <2> SUFFICES ASSUME QuietlyActed, Quiet, NEW t \in Tickets, Kind[t] # "none", Resting(t),
                      work[t] # {}
               PROVE  LandedAsJudged(t)
    BY DEF VerdictActedOn, LandedAsJudged, Quiet
  <2> QED BY DEF QuietlyActed, ActedInv, RestsJudged, Resting
<1> QED BY <1>1, AlwaysActed, PTL

-----------------------------------------------------------------------------
\* One agent at a time.
LEMMA BusyBefore ==
  ASSUME TypeInv, [Next]_vars, NEW s \in Seats, agent'[s].pc # "idle", agent[s].pc = "idle"
  PROVE  \E t \in Tickets : StartAgent(s, t)
<1>0. AgentOK BY DEF TypeInv, TypeOK
<1>1. ASSUME NEW r \in Seats, NEW t \in Tickets, StartAgent(r, t) PROVE r = s
  BY <1>0, <1>1 DEF StartAgent, AgentOK
<1>2. ASSUME NEW r \in Seats, Work(r) PROVE FALSE BY <1>2, ThreadStep DEF ThreadMoves
<1>3. ASSUME NEW r \in Seats, VerifyNothing(r) PROVE FALSE
  BY <1>0, <1>3 DEF VerifyNothing, Return, AgentOK
<1>4. ASSUME NEW v \in Verifiers, Verify(v) \/ CheckRaises(v) PROVE FALSE
  BY <1>4, CheckStep DEF CheckMoves
<1>5. CASE Human BY <1>5 DEF Human, HumanResponds, HumanAccepts
<1>6. CASE DispatcherCrash \/ SchedulerCrash BY <1>6, CrashStep DEF NoAgent
<1>7. CASE UNCHANGED vars BY <1>7 DEF vars
<1>8. ASSUME NEW r \in Seats, NEW t \in Tickets, AssignFront(t, r) \/ AssignTicket(t, r) PROVE FALSE
  BY <1>8 DEF AssignFront, AssignTicket
<1> QED BY <1>1, <1>2, <1>3, <1>4, <1>5, <1>6, <1>7, <1>8 DEF Next, Dispatch, Triage, Faults

LEMMA AloneNext ==
  ASSUME TypeInv, Alone, MaxAgents <= 1, [Next]_vars
  PROVE  Alone'
<1> SUFFICES ASSUME NEW r \in Seats, NEW s \in Seats, agent'[r].pc # "idle",
                    agent'[s].pc # "idle", r # s
             PROVE  FALSE
  BY DEF Alone
<1>0. AgentOK BY DEF TypeInv, TypeOK
<1>1. ASSUME NEW q \in Seats, NEW t \in Tickets, StartAgent(q, t)
      PROVE  \A p \in Seats \ {q} : agent'[p].pc = "idle"
  <2>1. Busy \subseteq Seats /\ Cardinality(Busy) < MaxAgents BY <1>1 DEF Busy, StartAgent
  <2>2. IsFiniteSet(Busy) BY <2>1, FS_Subset, LifecycleAssumption
  <2>3. Cardinality(Busy) = 0 BY <2>1, <2>2, FS_CardinalityType, LifecycleAssumption
  <2>4. Busy = {} BY <2>2, <2>3, FS_EmptySet
  <2> QED BY <1>0, <1>1, <2>4 DEF Busy, StartAgent, AgentOK
<1>2. agent[r].pc # "idle" /\ agent[s].pc # "idle" BY <1>1, BusyBefore
<1> QED BY <1>2 DEF Alone

LEMMA BlockersClosedNext ==
  ASSUME GatedConfig, HeldInv, Alone, BlockersClosed, Quiet, Quiet', [Next]_vars
  PROVE  BlockersClosed'
<1> SUFFICES ASSUME NEW s \in Seats, agent'[s].pc \in {"claimed", "prepared"},
                    NEW b \in Blockers[agent'[s].ticket]
             PROVE  b # agent'[s].ticket /\ status'[b] = "closed"
  BY DEF BlockersClosed
<1> USE HeldFacts
<1> DEFINE t == agent'[s].ticket
<1>1. ASSUME NEW u \in Tickets, StartAgent(s, u) PROVE b # t /\ status'[b] = "closed"
  <2>1. t = u /\ CanClose(u) /\ status[u] # "closed" BY <1>1, JustStarted
  <2>2. status[b] = "closed" /\ b # u BY <2>1 DEF CanClose
  <2>3. b \in Tickets BY <1>1, <2>1, LifecycleAssumption
  <2> QED BY <1>1, <2>1, <2>2, <2>3 DEF StartAgent, BoardOK
<1>2. CASE agent[s].pc \in {"claimed", "prepared"} /\ agent[s].ticket = t
  <2>1. b # t /\ status[b] = "closed" BY <1>2 DEF BlockersClosed
  <2>2. b \in Tickets BY <1>2, LifecycleAssumption DEF TypeInv, AgentHeld
  <2>3. ASSUME NEW r \in Seats, Keeps(r), agent[r].ticket = b PROVE FALSE
    <3>1. r = s BY <1>2, <2>3 DEF Alone, Keeps, Active
    <3> QED BY <1>2, <2>1, <2>3, <3>1
  <2>4. Untouched(b) BY <2>2, <2>3, OthersUntouched
  <2> QED BY <2>1, <2>4 DEF Untouched
<1>3. \/ \E u \in Tickets : StartAgent(s, u)
      \/ agent[s].pc \in {"claimed", "prepared"} /\ agent[s].ticket = t
  <2>1. CASE ~Own(s) BY <2>1, OthersLeft DEF NoAgent
  <2>2. CASE Work(s)
    <3> USE <2>2 DEF AgentOK
    <3>1. CASE PrepareTree(s) BY <3>1 DEF PrepareTree, Step
    <3>2. ~BeginRun(s) /\ ~AgentEdits(s) /\ ~AgentCommitsItself(s)
      BY DEF BeginRun, AgentEdits, AgentCommitsItself
    <3>3. ~CompleteTicket(s) /\ ~RefuseTicket(s) /\ ~DeclineTicket(s) /\ ~StopSilently(s)
      BY DEF CompleteTicket, RefuseTicket, DeclineTicket, StopSilently, EndRun, Step
    <3>4. ~RunFails(s) /\ ~DecideOutcome(s) /\ ~RecordWork(s) /\ ~ReleaseSlot(s)
      BY DEF RunFails, DecideOutcome, RecordWork, Step, ReleaseSlot, NoAgent
    <3>5. ~CloseTicket(s) /\ ~CommitWork(s) BY DEF CloseTicket, CommitWork
    <3> QED BY <3>1, <3>2, <3>3, <3>4, <3>5 DEF Work
  <2>3. CASE Verify(s) \/ CheckRaises(s) \/ VerifyNothing(s) BY <2>3, CheckThread
  <2> QED BY <2>1, <2>2, <2>3 DEF Own
<1> QED BY <1>1, <1>2, <1>3

AloneInv == QuietlyActed /\ Alone /\ (Quiet => BlockersClosed)

\* Where one agent works at a time, nothing crashes or raises and nobody moves a
\* ticket that is in work, a fresh attempt is cut from a tip that has the work
\* its ticket waited for (dispatcher.py 1061-1066: the close holds the slot
\* through verify_now).
THEOREM BlockersLandFirst ==
  GatedConfig /\ MaxAgents <= 1 => (Spec => [](Quiet => BlockersLanded))
<1> SUFFICES ASSUME GatedConfig, MaxAgents <= 1
             PROVE  Spec => [](Quiet => BlockersLanded)
  OBVIOUS
<1>1. Init => AloneInv
  <2>1. Init => Alone /\ BlockersClosed BY DEF Init, Alone, BlockersClosed, NoAgent
  <2> QED BY <2>1, InitActed DEF AloneInv, QuietlyActed, ActedInv, HeldInv
<1>2. AloneInv /\ [Next]_vars => AloneInv'
  <2> SUFFICES ASSUME AloneInv, [Next]_vars PROVE AloneInv' OBVIOUS
  <2>0. TypeInv BY DEF AloneInv, QuietlyActed, SafeInv
  <2>1. QuietlyActed' BY NextActed DEF AloneInv
  <2>2. Alone' BY <2>0, AloneNext DEF AloneInv
  <2>3. ASSUME Quiet' PROVE BlockersClosed'
    <3>1. Quiet BY <2>0, <2>3, QuietBefore
    <3> QED BY <2>3, <3>1, BlockersClosedNext DEF AloneInv, QuietlyActed, ActedInv
  <2> QED BY <2>1, <2>2, <2>3 DEF AloneInv
<1>3. AloneInv => (Quiet => BlockersLanded)
  <2> SUFFICES ASSUME AloneInv, Quiet, NEW s \in Seats, agent[s].pc = "prepared",
                      NEW b \in Blockers[agent[s].ticket],
                      work[b] # {}, ~flagged[b], ~decided[b]
               PROVE  branch[b] \subseteq landed[b]
    BY DEF BlockersLanded
  <2>0. TypeInv /\ ActedInv BY DEF AloneInv, QuietlyActed, SafeInv
  <2>1. status[b] = "closed" BY DEF AloneInv, BlockersClosed
  <2>2. b \in Tickets BY <2>0, LifecycleAssumption DEF TypeInv, AgentHeld
  <2>3. CASE Kind[b] = "none" BY <2>0, <2>1, <2>2, <2>3 DEF ActedInv, LandedBeforeClose
  <2>4. CASE Kind[b] # "none"
    <3>1. ASSUME NEW r \in Seats, agent[r].pc = "verifying" PROVE FALSE
      BY <3>1 DEF AloneInv, Alone
    <3>2. LandedAsJudged(b) BY <2>0, <2>1, <2>2, <2>4, <3>1 DEF ActedInv, RestsJudged
    <3> QED BY <3>2 DEF LandedAsJudged
  <2> QED BY <2>3, <2>4
<1> QED BY <1>1, <1>2, <1>3, PTL DEF Spec

=============================================================================
