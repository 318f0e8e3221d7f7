-------------------------- MODULE TicketLifecycle --------------------------
(***************************************************************************)
(* One project's tickets from dispatch to the integration branch: the      *)
(* dispatcher's agent threads (dispatcher.py, worker.py), the verifier run *)
(* inside a thread on close and by the scheduler (verifier.py), the board  *)
(* (beads.py), the ticket's git tree (workspaces.py), the checkpointed     *)
(* agent thread and the stored verdict (Postgres), and the person who      *)
(* answers parked tickets.                                                 *)
(*                                                                         *)
(* A commit is [n, by]: the n-th commit made for its ticket, by the agent  *)
(* itself or by the harness (whose commits `git log --all` finds by their  *)
(* "<ticket>:" subject).  A branch is the set of commits it holds beyond   *)
(* the integration tip it was last reset to.                               *)
(***************************************************************************)
EXTENDS Naturals, FiniteSets

CONSTANTS
  Tickets, Seats,
  Scheduler,         \* the scheduler's verifier process
  NoTicket, NoSeat,
  Kind,              \* how a ticket is judged: "criteria", "checks" or "none"
  Blockers,          \* ticket -> the tickets that must be closed before it
  MaxAgents, MaxReworks, MaxFailures,          \* the code's own limits
  MaxCommits, MaxFaults,                       \* bounds of the instance
  SchedulerVerifies, \* the scheduler verifies beside the dispatcher
  AgentCommits       \* agents may run git commit themselves

ASSUME LifecycleAssumption ==
  /\ Scheduler \notin Seats /\ NoSeat \notin Seats /\ NoTicket \notin Tickets
  /\ IsFiniteSet(Seats)
  /\ Kind \in [Tickets -> {"criteria", "checks", "none"}]
  /\ Blockers \in [Tickets -> SUBSET Tickets]
  /\ MaxAgents \in Nat /\ MaxReworks \in Nat /\ MaxFailures \in Nat
  /\ MaxCommits \in Nat /\ MaxFaults \in Nat
  /\ SchedulerVerifies \in BOOLEAN /\ AgentCommits \in BOOLEAN

VARIABLES
  \* the board: status, metadata and the human label of each issue
  status, seat, flagged, decided, reworks, summary, work, declined,
  \* git: the ticket's tree and what the integration branch has of it
  branch, dirty, made, landed,
  \* Postgres: the checkpointed thread and the last verdict
  thread, verdict,
  \* the dispatcher's memory: one slot per seat, failures per ticket
  agent, failures,
  \* a verification or a landing under way, per process that runs one
  check,
  \* history: what somebody approved, how often a ticket was sent back, which
  \* tickets changed seats under a thread that had them, and the faults so far
  \* (crashes, and calls that raised)
  approved, requeues, reseated, faults

board == <<status, seat, flagged, decided, reworks, summary, work, declined>>
git   == <<branch, dirty, made, landed>>
store == <<thread, verdict>>
vars  == <<board, git, store, agent, failures, check, approved, requeues, reseated, faults>>

Verifiers == Seats \cup {Scheduler}
Commit    == [n : 1..MaxCommits, by : {"agent", "harness"}]
NoVerdict == [result |-> "none", work |-> {}]

AgentPhase == {"idle", "claimed", "prepared", "working", "ended", "commit",
               "record", "landing", "closing", "verifying", "over", "done", "failed"}
CheckPhase == {"idle", "shown", "judged", "land", "park", "redo", "reopen", "reset"}

NoAgent == [pc |-> "idle", ticket |-> NoTicket, base |-> {}, sha |-> {}]
NoCheck == [pc |-> "idle", ticket |-> NoTicket, work |-> {}, reworks |-> 0, diff |-> {}]

BoardOK ==
  /\ status   \in [Tickets -> {"open", "in_progress", "closed"}]
  /\ seat     \in [Tickets -> Seats \cup {NoSeat}]
  /\ flagged  \in [Tickets -> BOOLEAN]
  /\ decided  \in [Tickets -> BOOLEAN]
  /\ reworks  \in [Tickets -> Nat]
  /\ summary  \in [Tickets -> BOOLEAN]
  /\ work     \in [Tickets -> SUBSET Commit]
  /\ declined \in [Tickets -> SUBSET Seats]

GitOK ==
  /\ branch \in [Tickets -> SUBSET Commit]
  /\ dirty  \in [Tickets -> BOOLEAN]
  /\ made   \in [Tickets -> 0..MaxCommits]
  /\ landed \in [Tickets -> SUBSET Commit]

StoreOK ==
  /\ thread  \in [Tickets -> {"none", "live", "ended"}]
  /\ verdict \in [Tickets -> [result : {"none", "pass", "fail"}, work : SUBSET Commit]]

AgentOK ==
  /\ agent \in [Seats -> [pc : AgentPhase, ticket : Tickets \cup {NoTicket},
                          base : SUBSET Commit, sha : SUBSET Commit]]
  /\ failures \in [Tickets -> Nat]

CheckOK ==
  check \in [Verifiers -> [pc : CheckPhase, ticket : Tickets \cup {NoTicket},
                           work : SUBSET Commit, reworks : Nat, diff : SUBSET Commit]]

HistoryOK ==
  /\ approved \in [Tickets -> SUBSET Commit]
  /\ requeues \in [Tickets -> Nat]
  /\ reseated \in SUBSET Tickets
  /\ faults   \in 0..MaxFaults

TypeOK == BoardOK /\ GitOK /\ StoreOK /\ AgentOK /\ CheckOK /\ HistoryOK

Init ==
  /\ status   = [t \in Tickets |-> "open"]
  /\ seat     = [t \in Tickets |-> NoSeat]
  /\ flagged  = [t \in Tickets |-> FALSE]
  /\ decided  = [t \in Tickets |-> FALSE]
  /\ reworks  = [t \in Tickets |-> 0]
  /\ summary  = [t \in Tickets |-> FALSE]
  /\ work     = [t \in Tickets |-> {}]
  /\ declined = [t \in Tickets |-> {}]
  /\ branch   = [t \in Tickets |-> {}]
  /\ dirty    = [t \in Tickets |-> FALSE]
  /\ made     = [t \in Tickets |-> 0]
  /\ landed   = [t \in Tickets |-> {}]
  /\ thread   = [t \in Tickets |-> "none"]
  /\ verdict  = [t \in Tickets |-> NoVerdict]
  /\ agent    = [s \in Seats |-> NoAgent]
  /\ failures = [t \in Tickets |-> 0]
  /\ check    = [v \in Verifiers |-> NoCheck]
  /\ approved = [t \in Tickets |-> {}]
  /\ requeues = [t \in Tickets |-> 0]
  /\ reseated = {}
  /\ faults   = 0

-----------------------------------------------------------------------------
\* What the code reads before it acts.

CanClose(t) == \A b \in Blockers[t] : status[b] = "closed"

\* Mutant: a verification does not hold the slot.
BusyWorking == {s \in Seats : agent[s].pc \notin {"idle", "verifying"}}

Busy == {s \in Seats : agent[s].pc # "idle"}

\* A ticket of the pool (bd's in_progress list or its ready list) that the
\* selector may hand to the seat it is assigned to.
Startable(t, pool) ==
  /\ status[t] = pool
  /\ CanClose(t)
  /\ ~flagged[t]
  /\ seat[t] \in Seats \ Busy

\* The verifier would judge this ticket now.
AwaitingVerdict(t) ==
  /\ ~decided[t]
  /\ Kind[t] # "none"
  /\ status[t] = "closed"
  /\ \/ verdict[t].result = "none"
     \/ /\ verdict[t].work # work[t]
        /\ verdict[t].work # {} \/ reworks[t] # 0

\* Mutant: only the recorded commit is judged.
JudgedRecorded(t, recorded) == recorded

\* The diff put before the verifier: the harness's commits for the ticket that
\* any ref still holds, and only without one the recorded work_commit.
JudgedDiff(t, recorded) ==
  LET harness == {c \in branch[t] \cup landed[t] : c.by = "harness"}
  IN  IF harness # {} THEN harness ELSE recorded

\* Something raises, or a process dies.
Fault == faults < MaxFaults /\ faults' = faults + 1

-----------------------------------------------------------------------------
\* The dispatcher's tick: seat a ticket, or start one.

\* The front of the unassigned tickets gets a seat that has not declined it:
\* assign_front, or a product-owner session that does as it is told.
AssignFront(t, s) ==
  /\ status[t] # "closed" /\ seat[t] = NoSeat /\ s \notin declined[t]
  /\ seat' = [seat EXCEPT ![t] = s]
  /\ UNCHANGED <<status, flagged, decided, reworks, summary, work, declined, git,
                 store, agent, failures, check, approved, requeues, reseated, faults>>

\* A thread has the ticket, and it is neither unseated nor this seat's already.
TakenFromThread(t, s) ==
  /\ \E r \in Seats : agent[r].ticket = t
  /\ seat[t] # s
  /\ seat[t] # NoSeat \/ s \in declined[t]

\* assign_ticket, the tool of the product-owner's sessions (the dispatcher's
\* and the scheduler's escalation triage): it looks at the seat, never at the
\* ticket.
AssignTicket(t, s) ==
  /\ seat' = [seat EXCEPT ![t] = s]
  /\ reseated' = IF TakenFromThread(t, s) THEN reseated \cup {t} ELSE reseated
  /\ UNCHANGED <<status, flagged, decided, reworks, summary, work, declined, git,
                 store, agent, failures, check, approved, requeues, faults>>

\* next_assigned_ticket, then start_agent: reserve the slot and claim.
StartAgent(s, t) ==
  /\ seat[t] = s
  /\ \/ Startable(t, "in_progress")
     \/ /\ Startable(t, "open")
        /\ ~\E u \in Tickets : Startable(u, "in_progress")
  /\ Cardinality(Busy) < MaxAgents
  /\ status' = [status EXCEPT ![t] = "in_progress"]
  /\ agent'  = [agent EXCEPT ![s] = [NoAgent EXCEPT !.pc = "claimed", !.ticket = t]]
  /\ UNCHANGED <<seat, flagged, decided, reworks, summary, work, declined,
                 git, store, failures, check, approved, requeues, reseated, faults>>

-----------------------------------------------------------------------------
\* The agent thread, one step per point where another process may run.

Step(s, from, to) ==
  /\ agent[s].pc = from
  /\ agent' = [agent EXCEPT ![s].pc = to]

\* Mutant: the reset leaves uncommitted leftovers (no git clean).
PrepareTreeUnclean(s) ==
  LET t == agent[s].ticket IN
  /\ Step(s, "claimed", "prepared")
  /\ branch' = [branch EXCEPT ![t] = IF thread[t] = "none" THEN {} ELSE @]
  /\ UNCHANGED <<board, dirty, made, landed, store, failures, check, approved,
                 requeues, reseated, faults>>

\* _prepare_tree: a fresh attempt starts on the integration tip, a resumed
\* thread keeps the tree it was edited in.
PrepareTree(s) ==
  LET t == agent[s].ticket IN
  /\ Step(s, "claimed", "prepared")
  /\ IF thread[t] = "none"
       THEN /\ branch' = [branch EXCEPT ![t] = {}]
            /\ dirty'  = [dirty  EXCEPT ![t] = FALSE]
       ELSE UNCHANGED <<branch, dirty>>
  /\ UNCHANGED <<board, made, landed, store, failures, check, approved, requeues, reseated, faults>>

\* work_one_ticket notes where the tree stands, then starts or resumes the
\* thread; one that already reached its end returns at once.
BeginRun(s) ==
  LET t == agent[s].ticket IN
  /\ agent[s].pc = "prepared"
  /\ agent' = [agent EXCEPT ![s].base = branch[t],
                            ![s].pc = IF thread[t] = "ended" THEN "ended" ELSE "working"]
  /\ thread' = [thread EXCEPT ![t] = IF @ = "none" THEN "live" ELSE @]
  /\ UNCHANGED <<board, git, verdict, failures, check, approved, requeues, reseated, faults>>

AgentEdits(s) ==
  LET t == agent[s].ticket IN
  /\ agent[s].pc = "working"
  /\ ~dirty[t] /\ made[t] < MaxCommits
  /\ dirty' = [dirty EXCEPT ![t] = TRUE]
  /\ UNCHANGED <<board, branch, made, landed, store, agent, failures,
                 check, approved, requeues, reseated, faults>>

\* git commit -a in the ticket's tree, by whoever runs it.
CommitTree(t, who) ==
  /\ made'   = [made   EXCEPT ![t] = @ + 1]
  /\ branch' = [branch EXCEPT ![t] = @ \cup {[n |-> made[t] + 1, by |-> who]}]
  /\ dirty'  = [dirty  EXCEPT ![t] = FALSE]

AgentCommitsItself(s) ==
  LET t == agent[s].ticket IN
  /\ AgentCommits
  /\ agent[s].pc = "working" /\ dirty[t] /\ made[t] < MaxCommits
  /\ CommitTree(t, "agent")
  /\ UNCHANGED <<board, landed, store, agent, failures, check,
                 approved, requeues, reseated, faults>>

\* The run's last turn: a terminal tool took effect, or the agent just stopped.
EndRun(s) ==
  /\ Step(s, "working", "ended")
  /\ thread' = [thread EXCEPT ![agent[s].ticket] = "ended"]

CompleteTicket(s) ==
  /\ EndRun(s)
  /\ summary' = [summary EXCEPT ![agent[s].ticket] = TRUE]
  /\ UNCHANGED <<status, seat, flagged, decided, reworks, work, declined, git,
                 verdict, failures, check, approved, requeues, reseated, faults>>

RefuseTicket(s) ==
  /\ EndRun(s)
  /\ flagged' = [flagged EXCEPT ![agent[s].ticket] = TRUE]
  /\ UNCHANGED <<status, seat, decided, reworks, summary, work, declined, git,
                 verdict, failures, check, approved, requeues, reseated, faults>>

\* Mutant: the run goes on after the ticket went back to the pool.
DeclineAndGoOn(s) ==
  LET t == agent[s].ticket IN
  /\ agent[s].pc = "working"
  /\ seat'     = [seat     EXCEPT ![t] = NoSeat]
  /\ status'   = [status   EXCEPT ![t] = "open"]
  /\ declined' = [declined EXCEPT ![t] = @ \cup ({seat[t]} \cap Seats)]
  /\ UNCHANGED <<flagged, decided, reworks, summary, work, git, store, agent,
                 failures, check, approved, requeues, reseated, faults>>

\* release_to_pool for the seat the ticket is assigned to.
DeclineTicket(s) ==
  LET t == agent[s].ticket IN
  /\ EndRun(s)
  /\ seat'     = [seat     EXCEPT ![t] = NoSeat]
  /\ status'   = [status   EXCEPT ![t] = "open"]
  /\ declined' = [declined EXCEPT ![t] = @ \cup ({seat[t]} \cap Seats)]
  /\ UNCHANGED <<flagged, decided, reworks, summary, work, git, verdict,
                 failures, check, approved, requeues, reseated, faults>>

StopSilently(s) ==
  /\ EndRun(s)
  /\ UNCHANGED <<board, git, verdict, failures, check, approved, requeues, reseated, faults>>

\* Mutant: a failing ticket is never parked.
CountFailureOnly(t) ==
  /\ failures' = [failures EXCEPT ![t] = IF @ < MaxFailures THEN @ + 1 ELSE @]
  /\ UNCHANGED flagged

\* _record_outcome of a run that raised: counted (a count past the limit is
\* the limit), and parked once it keeps happening.
CountFailure(t) ==
  /\ failures' = [failures EXCEPT ![t] = IF @ < MaxFailures THEN @ + 1 ELSE @]
  /\ flagged'  = [flagged EXCEPT ![t] = @ \/ failures[t] + 1 >= MaxFailures]

RunFails(s) ==
  /\ agent[s].pc \in {"claimed", "prepared", "working", "ended", "closing"}
  /\ agent' = [agent EXCEPT ![s].pc = "failed"]
  /\ CountFailure(agent[s].ticket)
  /\ UNCHANGED <<status, seat, decided, reworks, summary, work, declined, git,
                 store, check, approved, requeues, reseated, faults>>

\* The ticket is shown again and the run's outcome decided from it. A run with
\* no completion claim is parked.
DecideOutcome(s) ==
  LET t    == agent[s].ticket
      left == flagged[t] \/ seat[t] # s
  IN
  /\ agent[s].pc = "ended"
  /\ agent' = [agent EXCEPT ![s].pc = IF ~left /\ summary[t] THEN "commit" ELSE "done"]
  /\ flagged' = [flagged EXCEPT ![t] = @ \/ (~left /\ ~summary[t])]
  /\ UNCHANGED <<status, seat, decided, reworks, summary, work, declined, git,
                 store, failures, check, approved, requeues, reseated, faults>>

\* commit_all_for_ticket. When it made no commit (a clean tree, or a git commit
\* that failed), what was committed since the run began counts as the work.
CommitWork(s) ==
  LET t == agent[s].ticket IN
  /\ agent[s].pc = "commit"
  /\ \/ /\ dirty[t]
        /\ CommitTree(t, "harness")
        /\ agent' = [agent EXCEPT ![s].pc = "record",
                       ![s].sha = {[n |-> made[t] + 1, by |-> "harness"]}]
     \/ /\ UNCHANGED <<branch, dirty, made>>
        /\ agent' = [agent EXCEPT ![s].pc = "record",
                       ![s].sha = branch[t] \ agent[s].base]
  /\ UNCHANGED <<board, landed, store, failures, check, approved,
                 requeues, reseated, faults>>

\* set_metadata work_commit, then on to the landing a ticket without criteria
\* gets here, or straight to the close. The recording may fail: it is caught.
RecordWork(s) ==
  LET t     == agent[s].ticket
      lands == Kind[t] # "criteria"
  IN
  /\ Step(s, "record", IF lands THEN "landing" ELSE "closing")
  /\ \/ work' = [work EXCEPT ![t] = IF agent[s].sha # {} THEN agent[s].sha ELSE @]
     \/ UNCHANGED work
  /\ check' = IF lands
                THEN [check EXCEPT ![s] = [NoCheck EXCEPT !.pc = "land", !.ticket = t]]
                ELSE check
  /\ UNCHANGED <<status, seat, flagged, decided, reworks, summary, declined, git,
                 store, failures, approved, requeues, reseated, faults>>

\* bd close, which ends the count of failures. It refuses while a blocker is
\* open (the ticket stays in progress and is resumed later) or while a subtask
\* is (the ticket is parked). Any other error of bd's counts as a blocker.
CloseTicket(s) ==
  LET t == agent[s].ticket IN
  /\ agent[s].pc = "closing"
  /\ \/ /\ CanClose(t)
        /\ status' = [status EXCEPT ![t] = "closed"]
        /\ agent'  = [agent EXCEPT ![s].pc = "verifying"]
        /\ failures' = [failures EXCEPT ![t] = 0]
        /\ UNCHANGED <<flagged, faults>>
     \/ /\ Fault \/ (~CanClose(t) /\ UNCHANGED faults)
        /\ agent' = [agent EXCEPT ![s].pc = "done"]
        /\ UNCHANGED <<status, flagged, failures>>
     \/ /\ flagged' = [flagged EXCEPT ![t] = TRUE]
        /\ agent' = [agent EXCEPT ![s].pc = "done"]
        /\ UNCHANGED <<status, failures, faults>>
  /\ UNCHANGED <<seat, decided, reworks, summary, work, declined, git, store,
                 check, approved, requeues, reseated>>

\* Mutant: no finally.
ReleaseSlotUnlessFailed(s) ==
  /\ agent[s].pc \in {"done", "over"}
  /\ agent' = [agent EXCEPT ![s] = NoAgent]
  /\ failures' = [failures EXCEPT ![agent[s].ticket] = 0]
  /\ UNCHANGED <<board, git, store, check, approved, requeues, reseated, faults>>

\* The outcome of a run that neither closed nor failed (_record_outcome), then,
\* whatever happened, the thread's finally: the slot is given back.
ReleaseSlot(s) ==
  /\ agent[s].pc \in {"done", "over", "failed"}
  /\ agent' = [agent EXCEPT ![s] = NoAgent]
  /\ failures' = [failures EXCEPT ![agent[s].ticket] =
                    IF agent[s].pc = "done" THEN 0 ELSE @]
  /\ UNCHANGED <<board, git, store, check, approved, requeues, reseated, faults>>

-----------------------------------------------------------------------------
\* verify_ticket, run by a seat's thread when it closed its ticket and by the
\* scheduler's job; nothing keeps two processes off the same ticket.

\* The verification (or the worker's landing) of process v is over.
Return(v, merged) ==
  /\ check' = [check EXCEPT ![v] = NoCheck]
  /\ agent' = IF v = Scheduler THEN agent
              ELSE [agent EXCEPT ![v].pc = IF @ # "landing" THEN "over"
                                           ELSE IF merged THEN "closing" ELSE "done"]

Resume(v, pc) ==
  /\ check' = [check EXCEPT ![v].pc = pc]
  /\ UNCHANGED agent

ShowTicket(v, t) ==
  /\ check[v].pc = "idle"
  /\ \/ v # Scheduler /\ agent[v].pc = "verifying" /\ agent[v].ticket = t
     \/ v = Scheduler /\ SchedulerVerifies /\ Kind[t] = "criteria" /\ seat[t] # NoSeat
  /\ AwaitingVerdict(t)
  /\ check' = [check EXCEPT ![v] = [pc |-> "shown", ticket |-> t, work |-> work[t],
                                    reworks |-> reworks[t], diff |-> {}]]
  /\ UNCHANGED <<board, git, store, agent, failures, approved, requeues, reseated, faults>>

\* Not a candidate: verify_now has nothing to do.
VerifyNothing(s) ==
  /\ agent[s].pc = "verifying"
  /\ check[s].pc = "idle" /\ ~AwaitingVerdict(agent[s].ticket)
  /\ Return(s, FALSE)
  /\ UNCHANGED <<board, git, store, failures, approved, requeues, reseated, faults>>

ReadDiff(v) ==
  LET t == check[v].ticket IN
  /\ check[v].pc = "shown"
  /\ check' = [check EXCEPT ![v].pc = "judged",
                            ![v].diff = JudgedDiff(t, check[v].work)]
  /\ UNCHANGED <<board, git, store, agent, failures, approved, requeues, reseated, faults>>

\* Mutant: the model's word is stored without checking that it is a verdict.
RecordAnyAnswer(v, result) ==
  LET t == check[v].ticket IN
  /\ check[v].pc = "judged"
  /\ verdict' = [verdict EXCEPT ![t] = [result |-> IF result = "fail" THEN "unsure" ELSE result,
                                        work |-> check[v].work]]
  /\ Return(v, FALSE)
  /\ UNCHANGED <<board, git, thread, failures, approved, requeues, reseated, faults>>

\* Mutant: the branch is landed whatever the verdict says.
RecordVerdictLandsAll(v, result) ==
  LET t == check[v].ticket IN
  /\ check[v].pc = "judged"
  /\ verdict' = [verdict EXCEPT ![t] = [result |-> result, work |-> check[v].work]]
  /\ approved' = [approved EXCEPT ![t] =
                    IF result = "pass" THEN @ \cup check[v].diff ELSE @]
  /\ check' = [check EXCEPT ![v].pc = "land"]
  /\ UNCHANGED <<board, git, thread, agent, failures, requeues, reseated, faults>>

\* The verdict is stored for the commit shown, then acted on: a pass lands the
\* branch, a fail requeues until the budget the SHOWN ticket had is gone.
RecordVerdict(v, result) ==
  LET t == check[v].ticket IN
  /\ check[v].pc = "judged"
  /\ verdict' = [verdict EXCEPT ![t] = [result |-> result, work |-> check[v].work]]
  /\ approved' = [approved EXCEPT ![t] =
                    IF result = "pass" THEN @ \cup check[v].diff ELSE @]
  /\ check' = [check EXCEPT
       ![v].pc = IF result = "pass" THEN "land"
                 ELSE IF check[v].reworks + 1 <= MaxReworks THEN "redo" ELSE "park",
       ![v].reworks = @ + 1]
  /\ UNCHANGED <<board, git, thread, agent, failures, requeues, reseated, faults>>

ParkTicket(v) ==
  /\ check[v].pc = "park"
  /\ flagged' = [flagged EXCEPT ![check[v].ticket] = TRUE]
  /\ Return(v, FALSE)
  /\ UNCHANGED <<status, seat, decided, reworks, summary, work, declined, git,
                 store, failures, approved, requeues, reseated, faults>>

LandTicket(v) ==
  LET t == check[v].ticket IN
  /\ check[v].pc = "land"
  /\ landed' = [landed EXCEPT ![t] = @ \cup branch[t]]
  /\ Return(v, TRUE)
  /\ UNCHANGED <<board, branch, dirty, made, store, failures, approved, requeues, reseated, faults>>

\* Mutant: a merge that fails is only logged.
LandFailureLogged(v) ==
  /\ check[v].pc = "land" /\ ~(branch[check[v].ticket] \subseteq landed[check[v].ticket])
  /\ Return(v, FALSE)
  /\ UNCHANGED <<board, git, store, failures, approved, requeues, reseated, faults>>

\* The merge fails. A conflict (the tip moved, or strays lay in the checkout)
\* goes back to an agent while the ticket's own count allows it; anything else
\* is parked.
LandFails(v) ==
  LET t == check[v].ticket IN
  /\ check[v].pc = "land"
  /\ ~(branch[t] \subseteq landed[t])
  /\ \E conflict \in BOOLEAN :
       check' = [check EXCEPT
         ![v].pc = IF conflict /\ reworks[t] + 1 <= MaxReworks THEN "redo" ELSE "park",
         ![v].reworks = reworks[t] + 1]
  /\ UNCHANGED <<board, git, store, agent, failures, approved, requeues, reseated, faults>>

\* Mutant: the attempt is not written back to the ticket.
ClearClaimUncounted(v) ==
  LET t == check[v].ticket IN
  /\ check[v].pc = "redo"
  /\ summary' = [summary EXCEPT ![t] = FALSE]
  /\ work'    = [work    EXCEPT ![t] = {}]
  /\ decided' = [decided EXCEPT ![t] = FALSE]
  /\ flagged' = [flagged EXCEPT ![t] = FALSE]
  /\ Resume(v, "reopen")
  /\ UNCHANGED <<status, seat, reworks, declined, git, store, failures, approved,
                 requeues, reseated, faults>>

\* requeue_for_rework: the count, then the claim, the work and the decision,
\* then the label. What cannot be taken off is logged and stays on.
ClearClaim(v) ==
  LET t == check[v].ticket IN
  /\ check[v].pc = "redo"
  /\ reworks' = [reworks EXCEPT ![t] = check[v].reworks]
  /\ \E stays \in SUBSET {"completion_summary", "work_commit", "human_decision", "human"} :
       /\ summary' = [summary EXCEPT ![t] = @ /\ "completion_summary" \in stays]
       /\ work'    = [work    EXCEPT ![t] = IF "work_commit" \in stays THEN @ ELSE {}]
       /\ decided' = [decided EXCEPT ![t] = @ /\ "human_decision" \in stays]
       /\ flagged' = [flagged EXCEPT ![t] = @ /\ "human" \in stays]
       /\ IF stays = {} THEN UNCHANGED faults ELSE Fault
  /\ Resume(v, "reopen")
  /\ UNCHANGED <<status, seat, declined, git, store, failures, approved, requeues, reseated>>

ReopenTicket(v) ==
  LET t == check[v].ticket IN
  /\ check[v].pc = "reopen"
  /\ status'   = [status   EXCEPT ![t] = "open"]
  /\ requeues' = [requeues EXCEPT ![t] = @ + 1]
  /\ Resume(v, "reset")
  /\ UNCHANGED <<seat, flagged, decided, reworks, summary, work, declined, git,
                 store, failures, approved, reseated, faults>>

ResetThread(v) ==
  /\ check[v].pc = "reset"
  /\ thread' = [thread EXCEPT ![check[v].ticket] = "none"]
  /\ Return(v, FALSE)
  /\ UNCHANGED <<board, git, verdict, failures, approved, requeues, reseated, faults>>

-----------------------------------------------------------------------------
\* A person answers a parked ticket.

\* Drop the label, record the decision, close: bd may refuse the close.
Answer(t, parkedAgain) ==
  /\ flagged[t]
  /\ flagged' = [flagged EXCEPT ![t] = parkedAgain]
  /\ decided' = [decided EXCEPT ![t] = TRUE]
  /\ status'  = [status  EXCEPT ![t] = IF CanClose(t) THEN "closed" ELSE @]

HumanResponds(t) ==
  /\ Answer(t, FALSE)
  /\ UNCHANGED <<seat, reworks, summary, work, declined, git, store, agent,
                 failures, check, approved, requeues, reseated, faults>>

\* The work a person accepts: the branch, else a commit on record.
AcceptedWork(t) ==
  IF ~(branch[t] \subseteq landed[t]) THEN branch[t]
  ELSE IF ~(work[t] \subseteq landed[t]) THEN work[t]
  ELSE verdict[t].work

\* accept_and_merge: answer, then merge what is being accepted.
HumanAccepts(t) ==
  /\ status[t] = "closed" \/ CanClose(t)
  /\ \/ /\ Answer(t, FALSE)
        /\ landed'   = [landed   EXCEPT ![t] = @ \cup AcceptedWork(t)]
        /\ approved' = [approved EXCEPT ![t] = @ \cup AcceptedWork(t)]
     \/ /\ Answer(t, TRUE)
        /\ ~(AcceptedWork(t) \subseteq landed[t])
        /\ UNCHANGED <<landed, approved>>
  /\ UNCHANGED <<seat, reworks, summary, work, declined, branch, dirty, made,
                 store, agent, failures, check, requeues, reseated, faults>>

-----------------------------------------------------------------------------
\* Raised calls and crashes.

\* A call of a verification or a landing raises. _reset_thread goes on without
\* it; land parks the ticket when its requeue after a conflict raised; the rest
\* ends a verification (verify_ticket or verify_now logs it) and fails the run
\* of a worker that was landing.
CheckRaises(v) ==
  LET t       == check[v].ticket
      worker  == v # Scheduler /\ agent[v].pc = "landing"
      caught  == /\ check[v].pc \in {"redo", "reopen"}
                 /\ worker \/ verdict[t].result = "pass"
      ends(pc) == /\ check' = [check EXCEPT ![v] = NoCheck]
                  /\ agent' = IF v = Scheduler THEN agent ELSE [agent EXCEPT ![v].pc = pc]
  IN
  /\ Fault
  /\ check[v].pc # "idle"
  /\ \/ check[v].pc = "reset" /\ Return(v, FALSE) /\ UNCHANGED <<flagged, failures>>
     \/ caught /\ Resume(v, "park") /\ UNCHANGED <<flagged, failures>>
     \/ /\ ~caught /\ check[v].pc # "reset"
        /\ IF worker THEN ends("failed") /\ CountFailure(t)
                     ELSE ends("over") /\ UNCHANGED <<flagged, failures>>
  /\ UNCHANGED <<status, seat, decided, reworks, summary, work, declined, git,
                 store, approved, requeues, reseated>>

\* The dispatcher's process dies: its slots, its threads and its failure
\* counts are gone; the board, the trees and the threads' checkpoints are not.
DispatcherCrash ==
  /\ Fault
  /\ agent'    = [s \in Seats |-> NoAgent]
  /\ failures' = [t \in Tickets |-> 0]
  /\ check'    = [v \in Verifiers |-> IF v = Scheduler THEN check[v] ELSE NoCheck]
  /\ UNCHANGED <<board, git, store, approved, requeues, reseated>>

SchedulerCrash ==
  /\ Fault
  /\ check[Scheduler].pc # "idle"
  /\ check' = [check EXCEPT ![Scheduler] = NoCheck]
  /\ UNCHANGED <<board, git, store, agent, failures, approved, requeues, reseated>>

-----------------------------------------------------------------------------
Dispatch == \E t \in Tickets, s \in Seats : AssignFront(t, s) \/ StartAgent(s, t)

Triage == \E t \in Tickets, s \in Seats : AssignTicket(t, s)

Work(s) ==
  \/ PrepareTree(s) \/ BeginRun(s)
  \/ AgentEdits(s) \/ AgentCommitsItself(s)
  \/ CompleteTicket(s) \/ RefuseTicket(s) \/ DeclineTicket(s) \/ StopSilently(s)
  \/ RunFails(s) \/ DecideOutcome(s)
  \/ CommitWork(s) \/ RecordWork(s) \/ CloseTicket(s) \/ ReleaseSlot(s)

Verify(v) ==
  \/ \E t \in Tickets : ShowTicket(v, t)
  \/ ReadDiff(v)
  \/ \E result \in {"pass", "fail"} : RecordVerdict(v, result)
  \/ ParkTicket(v) \/ LandTicket(v) \/ LandFails(v)
  \/ ClearClaim(v) \/ ReopenTicket(v) \/ ResetThread(v)

Human == \E t \in Tickets : HumanResponds(t) \/ HumanAccepts(t)

Faults == (\E v \in Verifiers : CheckRaises(v)) \/ DispatcherCrash \/ SchedulerCrash

Next ==
  \/ Dispatch \/ Triage
  \/ \E s \in Seats : Work(s) \/ VerifyNothing(s)
  \/ \E v \in Verifiers : Verify(v)
  \/ Human
  \/ Faults

Spec == Init /\ [][Next]_vars

\* The dispatcher ticks forever, an agent thread is never stopped (there is no
\* timeout, by design) and the scheduler's job comes round; nobody promises
\* that a person answers, or that a session re-seats anything.
Fairness ==
  /\ WF_vars(Dispatch)
  /\ \A s \in Seats : WF_vars(Work(s) \/ VerifyNothing(s) \/ Verify(s))
  /\ WF_vars(Verify(Scheduler))

FairSpec == Spec /\ Fairness

-----------------------------------------------------------------------------
\* Properties.

\* The gated merge (verifier.py 718-721, worker.py 415-420): what is on the
\* integration branch of a ticket that is judged at all was in the diff of a
\* verdict that passed, or a person accepted it. Here and below, a ticket that
\* assign_ticket gave to a second seat while a thread had it is on its own:
\* two threads may then work in its tree and judge it.
LandedWasReviewed ==
  \A t \in Tickets \ reseated : Kind[t] # "none" => landed[t] \subseteq approved[t]

\* "The loop has to be finite" (verifier.py 32-38): a ticket goes back to an
\* agent at most MAX_VERIFIER_REWORKS times, whatever crashes in between.
ReworkBudget == \A t \in Tickets \ reseated : requeues[t] <= MaxReworks

\* _prepare_tree (dispatcher.py 664-670): a fresh attempt starts on the
\* integration tip, with nothing left of the attempt before it.
FreshTree ==
  \A s \in Seats : LET t == agent[s].ticket IN
    agent[s].pc = "prepared" /\ thread[t] = "none" /\ t \notin reseated
      => branch[t] \subseteq landed[t] /\ ~dirty[t]

\* One thread at a time works in a ticket's tree ("same-ticket restarts are
\* prevented by busy_seats/start_agent", dispatcher.py 334-335): it takes a
\* re-seat under a working thread, and nothing else, to put two there. A
\* crash, a decline and the ticket's next seat, a rework or a resumed thread
\* never do.
InTree == {"prepared", "working", "commit", "record", "landing"}
OneWorker ==
  \A r, s \in Seats :
    r # s /\ agent[r].pc \in InTree /\ agent[s].pc \in InTree
      => agent[r].ticket # agent[s].ticket \/ agent[s].ticket \in reseated

\* Closed by its agent, and no process is still busy with it.
Resting(t) ==
  /\ status[t] = "closed" /\ ~decided[t] /\ ~flagged[t]
  /\ \A v \in Verifiers : check[v].ticket # t
  /\ \A s \in Seats : agent[s].ticket # t

\* "A fail must be actioned, not just recorded" (verifier.py 728-730): no
\* closed ticket rests on a failed verdict without having been parked.
FailActedOn == \A t \in Tickets : Resting(t) => verdict[t].result # "fail"

\* The part of it that holds: unless something crashed or raised, or a ticket
\* in work was re-seated, a judged ticket with work on record rests on nothing
\* but a pass of that very work, with its branch landed ("a pass is what lands
\* the work", 718).
VerdictActedOn ==
  \A t \in Tickets :
    faults = 0 /\ reseated = {} /\ Kind[t] # "none" /\ Resting(t) /\ work[t] # {}
    => /\ verdict[t] = [result |-> "pass", work |-> work[t]]
       /\ branch[t] \subseteq landed[t]

\* "An internal close holds its slot through verify_now" (dispatcher.py
\* 1061-1066), so a fresh tree is never cut from a tip without the work its
\* ticket depends on: a blocker closed by its agent, with its work on record
\* and nobody asked about it, has landed.
BlockersLanded ==
  \A s \in Seats : LET t == agent[s].ticket IN
    agent[s].pc = "prepared" /\ thread[t] = "none"
      => \A b \in Blockers[t] :
           work[b] # {} /\ ~flagged[b] /\ ~decided[b] => branch[b] \subseteq landed[b]

\* Every step does to the integration branch what the gated merge allows, or
\* nothing (verifier.land is its only writer, dispatcher.py 624-626).
Gate == INSTANCE GatedMerge WITH
  Commits <- Commit, exempt <- reseated \cup {t \in Tickets : Kind[t] = "none"}
MergeIsGated == Gate!Spec

\* No ticket is left to itself: again and again it is with a person, closed
\* with nothing left to judge, waiting for a blocker, or declined by every
\* seat there is (the product-owner has to hire). Crashes, failing runs
\* (dispatcher.py 79-88) and verifications that raise (802-804) included.
Settled(t) ==
  \/ flagged[t] \/ ~CanClose(t) \/ declined[t] = Seats
  \/ status[t] = "closed" /\ ~AwaitingVerdict(t)
Settles == \A t \in Tickets : ~Settled(t) ~> Settled(t)

\* _agent_thread (dispatcher.py 681-683): whatever happens, the capacity slot
\* is released.
SlotReleased == \A s \in Seats : agent[s].pc # "idle" ~> agent[s].pc = "idle"

=============================================================================
