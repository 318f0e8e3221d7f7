---------------------------- MODULE ExternalSeats ----------------------------
(***************************************************************************)
(* Sessions outside the harness that take tickets from the same board as   *)
(* the dispatcher's agents (external.py, and the dispatcher's side of it   *)
(* in dispatcher.py).  Every call of a session is a sequence of separate   *)
(* updates of the board, of git and of the database.  Calls overlap, those *)
(* of one seat too, for a session may ask again while its last call runs   *)
(* on; and the dispatcher's loop, its agents, its verifications and the    *)
(* product-owner act between their steps.  Nothing keeps any of them       *)
(* apart.  What a tree or a branch holds is not told apart here, only that *)
(* something is pushed and that something is merged.                       *)
(***************************************************************************)
EXTENDS Roadmap, FiniteSets

CONSTANTS
  External,     \* external seats
  Internal,     \* the dispatcher's own seats
  Nobody,
  NoTicket,
  Slots,        \* bound: calls the API serves at once
  Judged,       \* tickets with criteria or checks, which a verdict lands
  SeatOf,       \* ticket -> the internal seat it is assigned at first, or Nobody
  MaxMoves,     \* bound: calls, assignments, starts, declines and faults
  MaxRework,    \* times a verdict sends a ticket back
  MaxFaults     \* bound: crashes, updates that raise, runs and agents' merges that fail

ASSUME SeatsAssumption ==
  /\ External \cap Internal = {} /\ Nobody \notin External \cup Internal
  /\ NoTicket \notin Tickets
  /\ Judged \subseteq Tickets /\ SeatOf \in [Tickets -> Internal \cup {Nobody}]
  /\ Slots \in Nat /\ MaxMoves \in Nat /\ MaxRework \in Nat /\ MaxFaults \in Nat

VARIABLES
  status,      \* ticket -> "open", "in_progress" or "closed"
  seat,        \* ticket -> its assigned_seat
  holder,      \* ticket -> its assignee in bd
  previous,    \* ticket -> external_previous_seat
  lease,       \* ticket -> "none", "valid" or "lapsed"
  parked,      \* tickets flagged for a human
  declined,    \* tickets a seat has declined (declined_by)
  pushed,      \* tickets with a branch external/<id>
  landed,      \* tickets something of which is merged
  passed,      \* judged tickets a verdict approved
  rework,      \* ticket -> rework_count
  pending,     \* tickets with a submission that is not marked verified
  at,          \* call -> the step it is at, "idle" when there is none
  by,          \* call -> the seat that makes it
  on,          \* call -> the ticket it is about
  read,        \* call -> the tickets it has read, and a seat for each
  main,        \* the step of the dispatcher's loop
  sweeping,    \* the claims the sweep has read as lapsed: [t, s, back, cut]
  tick,        \* what the poll chose: [t, s, start]
  verifying,   \* ticket -> the step of its submission's verification
  runs,        \* internal seat -> the ticket its agent works
  stage,       \* internal seat -> "free", "work", "judge"
  moves,       \* what has been done of MaxMoves
  faults       \* and of MaxFaults

board    == <<status, seat, holder, previous, lease, parked, declined>>
git      == <<pushed, landed>>
verdicts == <<passed, rework, pending, verifying>>
calls    == <<at, by, on, read>>
loop     == <<main, sweeping, tick>>
agents   == <<runs, stage>>
bounds   == <<moves, faults>>
vars == <<board, git, verdicts, calls, loop, agents, bounds>>

Seats   == External \cup Internal
Calls   == 1..Slots
NoPoll  == [t |-> NoTicket, s |-> Nobody, start |-> FALSE]

Init ==
  /\ status = [t \in Tickets |-> "open"]
  /\ seat = SeatOf
  /\ holder = [t \in Tickets |-> Nobody] /\ previous = [t \in Tickets |-> Nobody]
  /\ lease = [t \in Tickets |-> "none"]
  /\ parked = {} /\ declined = {}
  /\ pushed = {} /\ landed = {} /\ passed = {} /\ pending = {}
  /\ rework = [t \in Tickets |-> 0]
  /\ at = [c \in Calls |-> "idle"] /\ by = [c \in Calls |-> Nobody]
  /\ on = [c \in Calls |-> NoTicket] /\ read = [c \in Calls |-> {}]
  /\ main = "sweep" /\ sweeping = {} /\ tick = NoPoll
  /\ verifying = [t \in Tickets |-> "none"]
  /\ runs = [s \in Internal |-> NoTicket] /\ stage = [s \in Internal |-> "free"]
  /\ moves = 0 /\ faults = 0

Open  == {t \in Tickets : status[t] # "closed"}
Ready == {t \in Tickets : status[t] = "open" /\ t \notin Blocked(Open)}
Going == {t \in Tickets : status[t] = "in_progress"}

Set(f, x, v) == [f EXCEPT ![x] = v]
Step(c, s)   == at' = Set(at, c, s)
Move         == moves < MaxMoves /\ moves' = moves + 1
Moved        == Move /\ UNCHANGED faults
Fault        == Move /\ faults < MaxFaults /\ faults' = faults + 1

\* A session calls; whose token it holds is who it is.  The first slot is as
\* good as another.
Called(c, e) ==
  /\ at[c] = "idle" /\ \A d \in Calls : d < c => at[d] # "idle"
  /\ Moved
  /\ by' = Set(by, c, e)

\* A call answers, well or with an error.
Return(c) ==
  /\ Step(c, "idle")
  /\ by' = Set(by, c, Nobody)
  /\ on' = Set(on, c, NoTicket)
  /\ read' = Set(read, c, {})

----------------------------------------------------------------------------
(* request_ticket.                                                         *)

Own(e) == {t \in Going : seat[t] = e /\ t \notin parked}

\* The seat's own rework, or else what dispatch itself would consider, with
\* their seats as they are when they are read.
Reworked(e) == {t \in Ready \ (parked \cup Parents(Open)) : seat[t] = e}

Fresh ==
  {t \in (Ready \cap Actionable(Open)) \ parked :
     seat[t] \notin External /\ Project(t) \notin Harness}

Candidates(e) == {[t |-> t, seat |-> seat[t]] : t \in Reworked(e) \cup Fresh}

\* A seat that has a ticket in progress gets it again.
Request(c, e) ==
  /\ Called(c, e)
  /\ IF Own(e) # {}
       THEN \E t \in Own(e) : on' = Set(on, c, t) /\ Step(c, "lease") /\ UNCHANGED read
       ELSE read' = Set(read, c, Candidates(e)) /\ Step(c, "choose") /\ UNCHANGED on
  /\ UNCHANGED <<board, git, verdicts, loop, agents>>

Mine(c) == {r \in read[c] : r.seat = by[c]}
Chosen(c, r) ==
  LET pool == IF Mine(c) # {} THEN Mine(c) ELSE read[c]
  IN r \in pool /\ IsFirst(r.t, {x.t : x \in pool})

NoneReady(c) ==
  /\ at[c] = "choose" /\ read[c] = {}
  /\ Return(c)
  /\ UNCHANGED <<board, git, verdicts, loop, agents, bounds>>

\* _claim re-seats the ticket, as it was read, before it claims it.
Reseat(c) ==
  /\ at[c] = "choose"
  /\ \E r \in read[c] :
       /\ Chosen(c, r)
       /\ on' = Set(on, c, r.t)
       /\ seat' = Set(seat, r.t, by[c])
       /\ previous' = IF r.seat \in {Nobody, by[c]} THEN previous ELSE Set(previous, r.t, r.seat)
  /\ Step(c, "claim")
  /\ UNCHANGED <<status, holder, lease, parked, declined, git, verdicts, by, read, loop,
                 agents, bounds>>

\* bd update --claim takes an open ticket nobody has, and is idempotent for
\* the seat that has the ticket.
Claim(c) ==
  /\ at[c] = "claim"
  /\ \/ /\ status[on[c]] = "open" /\ holder[on[c]] = Nobody
        /\ status' = Set(status, on[c], "in_progress")
        /\ holder' = Set(holder, on[c], by[c])
        /\ Step(c, "lease")
     \/ /\ holder[on[c]] = by[c]
        /\ Step(c, "lease") /\ UNCHANGED <<status, holder>>
     \/ /\ ~(status[on[c]] = "open" /\ holder[on[c]] = Nobody)
        /\ Step(c, "undo") /\ UNCHANGED <<status, holder>>
  /\ UNCHANGED <<seat, previous, lease, parked, declined, git, verdicts, by, on, read, loop,
                 agents, bounds>>

\* The claim is lost: the seat that was read goes back, and the next is tried.
NextCandidate(c) ==
  /\ read' = Set(read, c, {r \in read[c] : r.t # on[c]})
  /\ Step(c, "choose")

UndoReseat(c) ==
  /\ at[c] = "undo"
  /\ \E r \in read[c] : r.t = on[c] /\ seat' = Set(seat, r.t, r.seat)
  /\ previous' = Set(previous, on[c], Nobody)
  /\ NextCandidate(c)
  /\ UNCHANGED <<status, holder, lease, parked, declined, git, verdicts, by, on, loop, agents,
                 bounds>>

\* _extend_lease, of a request and of a heartbeat.
ExtendLease(c) ==
  /\ at[c] = "lease"
  /\ lease' = Set(lease, on[c], "valid")
  /\ Return(c)
  /\ UNCHANGED <<status, seat, holder, previous, parked, declined, git, verdicts, loop,
                 agents, bounds>>

Requests(c) ==
  NoneReady(c) \/ Reseat(c) \/ Claim(c) \/ UndoReseat(c) \/ ExtendLease(c)

----------------------------------------------------------------------------
(* The session's other calls, and what it does to the repository itself.   *)

\* _own and the status are all that is asked of a ticket.
Working(e, t) == seat[t] = e /\ status[t] = "in_progress"

Heartbeat(c, e, t) ==
  /\ Called(c, e) /\ Working(e, t)
  /\ on' = Set(on, c, t)
  /\ Step(c, "lease")
  /\ UNCHANGED <<board, git, verdicts, read, loop, agents>>

\* git push to external/<id>, which needs no claim.
Push(t) ==
  /\ t \notin pushed /\ pushed' = pushed \cup {t}
  /\ UNCHANGED <<board, landed, verdicts, calls, loop, agents, bounds>>

\* submit_ticket's checks; the worktree is then reset to the pushed tip.
Submit(c, e, t) ==
  /\ Called(c, e) /\ Working(e, t) /\ t \in pushed
  /\ on' = Set(on, c, t)
  /\ Step(c, "unlease")
  /\ UNCHANGED <<board, git, verdicts, read, loop, agents>>

\* Mutant: every submission is merged at once.
UnleaseToLand(c) ==
  /\ at[c] = "unlease"
  /\ lease' = Set(lease, on[c], "none")
  /\ Step(c, "land")
  /\ UNCHANGED <<status, seat, holder, previous, parked, declined, git, verdicts, by, on,
                 read, loop, agents, bounds>>

Unlease(c) ==
  /\ at[c] = "unlease"
  /\ lease' = Set(lease, on[c], "none")
  /\ Step(c, IF on[c] \in Judged THEN "close" ELSE "land")
  /\ UNCHANGED <<status, seat, holder, previous, parked, declined, git, verdicts, by, on,
                 read, loop, agents, bounds>>

Land(t) == landed' = landed \cup {t}

\* A ticket that is never judged is merged by the submit itself; when that
\* fails the ticket is parked and the call answers.
LandUnjudged(c) ==
  /\ at[c] = "land"
  /\ \/ Land(on[c]) /\ Step(c, "close") /\ UNCHANGED <<parked, by, on, read>>
     \/ parked' = parked \cup {on[c]} /\ Return(c) /\ UNCHANGED landed
  /\ UNCHANGED <<status, seat, holder, previous, lease, declined, pushed, verdicts, loop,
                 agents, bounds>>

\* bd lets only the assignee close a claimed ticket.
CloseSubmitted(c) ==
  /\ at[c] = "close"
  /\ IF holder[on[c]] \in {by[c], Nobody}
       THEN /\ status' = Set(status, on[c], "closed")
            /\ Step(c, "insert") /\ UNCHANGED <<by, on, read>>
       ELSE Return(c) /\ UNCHANGED status
  /\ UNCHANGED <<seat, holder, previous, lease, parked, declined, git, verdicts, loop, agents,
                 bounds>>

InsertSubmission(c) ==
  /\ at[c] = "insert"
  /\ pending' = pending \cup {on[c]}
  /\ Return(c)
  /\ UNCHANGED <<board, git, passed, rework, verifying, loop, agents, bounds>>

Submits(c) == Unlease(c) \/ LandUnjudged(c) \/ CloseSubmitted(c) \/ InsertSubmission(c)

\* _release deletes the pushed branch, notes its tip and only then updates the
\* board, for the seat that was read and if it is still the assignee.
CutBranch(t) == pushed' = pushed \ {t}

HandBack(t, s, back) ==
  IF holder[t] = s
    THEN /\ status' = Set(status, t, "open")
         /\ holder' = Set(holder, t, Nobody)
         /\ seat' = Set(seat, t, back)
         /\ previous' = Set(previous, t, Nobody)
         /\ lease' = Set(lease, t, "none")
    ELSE UNCHANGED <<status, holder, seat, previous, lease>>

\* release_ticket asks for the seat only, so a submitted ticket can be given
\* back too.
GiveBack(c, e, t) ==
  /\ Called(c, e) /\ seat[t] = e
  /\ on' = Set(on, c, t)
  /\ read' = Set(read, c, {[t |-> t, seat |-> previous[t]]})
  /\ CutBranch(t)
  /\ Step(c, "release")
  /\ UNCHANGED <<board, landed, verdicts, loop, agents>>

ReleaseOwn(c) ==
  /\ at[c] = "release"
  /\ \E r \in read[c] : HandBack(on[c], by[c], r.seat)
  /\ Return(c)
  /\ UNCHANGED <<parked, declined, git, verdicts, loop, agents, bounds>>

\* An update of a call raises.  A request goes on with its next ticket, its
\* re-seat done or not; any other call ends in an error.
Raises(c) ==
  /\ at[c] # "idle" /\ Fault
  /\ \/ /\ at[c] \in {"claim", "undo"} /\ NextCandidate(c) /\ UNCHANGED <<by, on>>
     \/ at[c] \notin {"choose", "claim", "undo"} /\ Return(c)
  /\ UNCHANGED <<board, git, verdicts, loop, agents>>

\* A lease nobody extends runs out, whether its session is gone or only slow.
LeaseLapses(t) ==
  /\ lease[t] = "valid"
  /\ lease' = Set(lease, t, "lapsed")
  /\ UNCHANGED <<status, seat, holder, previous, parked, declined, git, verdicts, calls, loop,
                 agents, bounds>>

Session(c) ==
  \/ \E e \in External :
       \/ Request(c, e)
       \/ \E t \in Tickets : Heartbeat(c, e, t) \/ Submit(c, e, t) \/ GiveBack(c, e, t)
  \/ Requests(c) \/ Submits(c) \/ ReleaseOwn(c) \/ Raises(c)

----------------------------------------------------------------------------
(* The dispatcher's loop: the sweep, the submissions, the poll.            *)

LapsedAmong(pool) ==
  {[t |-> t, s |-> seat[t], back |-> previous[t], cut |-> FALSE] :
     t \in {u \in pool \ parked : seat[u] \in External /\ lease[u] = "lapsed"}}

\* Mutant: the ready tickets are swept, and no claimed one is among them.
SweepReady ==
  /\ main = "sweep"
  /\ sweeping' = LapsedAmong(Ready)
  /\ main' = "release"
  /\ UNCHANGED <<board, git, verdicts, calls, tick, agents, bounds>>

\* sweep_expired judges the leases in one list it has read.
Sweep ==
  /\ main = "sweep"
  /\ sweeping' = LapsedAmong(Going)
  /\ main' = "release"
  /\ UNCHANGED <<board, git, verdicts, calls, tick, agents, bounds>>

\* The tickets are released one after another; one that raises is left.
CutSwept(r) ==
  /\ main = "release" /\ \A x \in sweeping : ~x.cut
  /\ CutBranch(r.t)
  /\ sweeping' = (sweeping \ {r}) \cup {[r EXCEPT !.cut = TRUE]}
  /\ UNCHANGED <<board, landed, verdicts, calls, main, tick, agents, bounds>>

ReleaseSwept(r) ==
  /\ main = "release" /\ r.cut
  /\ \/ HandBack(r.t, r.s, r.back) /\ UNCHANGED bounds
     \/ Fault /\ UNCHANGED <<status, holder, seat, previous, lease>>
  /\ sweeping' = sweeping \ {r}
  /\ UNCHANGED <<parked, declined, git, verdicts, calls, main, tick, agents>>

\* A thread for each pending submission that has none; the poll waits for all.
StartVerifying ==
  /\ main = "release" /\ sweeping = {}
  /\ verifying' = [t \in Tickets |-> IF t \in pending /\ verifying[t] = "none" THEN "show"
                                     ELSE verifying[t]]
  /\ main' = IF pending = {} THEN "tick" ELSE "sweep"
  /\ UNCHANGED <<board, git, passed, rework, pending, calls, sweeping, tick, agents, bounds>>

\* run_forever polls all the same when the housekeeping raises.
HousekeepingRaises ==
  /\ main \in {"sweep", "release"} /\ Fault
  /\ sweeping' = {} /\ main' = "tick"
  /\ UNCHANGED <<board, git, verdicts, calls, tick, agents>>

Idle(s) == stage[s] = "free"

\* next_assigned_ticket: orphans first, then ready tickets, of free seats that
\* are not external ones.
Assignable(pool) ==
  {t \in (pool \cap Actionable(Open)) \ parked :
     seat[t] \in Internal /\ Idle(seat[t])}

Assigned(t) ==
  IF Assignable(Going) # {} THEN IsFirst(t, Assignable(Going))
  ELSE IsFirst(t, Assignable(Ready))

\* next_unassigned_ticket, the front of its project.
Unassigned(t) ==
  /\ seat[t] = Nobody /\ t \in (Ready \cap Actionable(Open)) \ parked
  /\ IsFront(t, (Ready \cup Going) \ parked, Open)
  /\ \A s \in Internal : runs[s] \in Tickets => Project(runs[s]) # Project(t)

\* A poll: an assigned ticket unless an unassigned one outranks it, or a front
\* for which the product-owner or the project's one seat is found.
Poll(t, s) ==
  /\ Idle(s)
  /\ \/ /\ seat[t] = s /\ Assigned(t)
        /\ \A u \in Tickets : Unassigned(u) => ~Outranks(u, t)
     \/ /\ Unassigned(t)
        /\ \A u \in Tickets : Assigned(u) => Outranks(t, u)

\* The poll reads the board, and finds something or not: a hold, a missing
\* toolchain and the cap on agents stop what could start.
ReadBoard ==
  /\ main = "tick"
  /\ \/ main' = "sweep" /\ UNCHANGED tick
     \/ /\ \E t \in Tickets, s \in Internal :
             Poll(t, s) /\ tick' = [t |-> t, s |-> s, start |-> seat[t] = s]
        /\ main' = "act"
  /\ UNCHANGED <<board, git, verdicts, calls, sweeping, agents, bounds>>

\* beads.claim: a claim, a claim it has already, or another's taken by force,
\* which leaves the status as it is.  A claim that bd refuses starts nothing.
ForcedClaim(t, s) ==
  \/ /\ status[t] = "open" /\ holder[t] = Nobody
     /\ status' = Set(status, t, "in_progress") /\ holder' = Set(holder, t, s)
  \/ /\ holder[t] = s /\ status' \in {status, Set(status, t, "in_progress")}
     /\ UNCHANGED holder
  \/ holder[t] \notin {s, Nobody} /\ holder' = Set(holder, t, s) /\ UNCHANGED status

NotStarted == UNCHANGED <<status, holder, agents, bounds>>

StartAgent(t, s) ==
  \/ Moved /\ ForcedClaim(t, s) /\ runs' = Set(runs, s, t) /\ stage' = Set(stage, s, "work")
  \/ NotStarted

\* assign_front changes the seat only; a later poll starts the ticket.
ActOnPoll ==
  /\ main = "act" /\ main' = "sweep"
  /\ IF tick.start THEN StartAgent(tick.t, tick.s) /\ UNCHANGED seat
     ELSE seat' = Set(seat, tick.t, tick.s) /\ NotStarted
  /\ tick' = NoPoll
  /\ UNCHANGED <<previous, lease, parked, declined, git, verdicts, calls, sweeping>>

\* assign_ticket of a product-owner session, which asks nothing of the ticket.
Triage(t, s) ==
  /\ Moved
  /\ seat' = Set(seat, t, s)
  /\ UNCHANGED <<status, holder, previous, lease, parked, declined, git, verdicts, calls,
                 loop, agents>>

Loop ==
  \/ Sweep \/ StartVerifying \/ HousekeepingRaises \/ ReadBoard \/ ActOnPoll
  \/ \E r \in sweeping : CutSwept(r) \/ ReleaseSwept(r)

----------------------------------------------------------------------------
(* Verdicts, on submissions and on the agents' own work.                   *)

\* Mutant: one requeue too many.
SendBackAgain(t) ==
  IF rework[t] <= MaxRework
    THEN /\ rework' = Set(rework, t, rework[t] + 1)
         /\ status' = Set(status, t, "open")
         /\ holder' = Set(holder, t, Nobody)
         /\ parked' = parked \ {t}
    ELSE /\ parked' = parked \cup {t}
         /\ UNCHANGED <<rework, status, holder>>

\* Mutant: the ticket is reopened and its claim stays.
SendBackClaimed(t) ==
  IF rework[t] < MaxRework
    THEN /\ rework' = Set(rework, t, rework[t] + 1)
         /\ status' = Set(status, t, "open")
         /\ parked' = parked \ {t}
         /\ UNCHANGED holder
    ELSE /\ parked' = parked \cup {t}
         /\ UNCHANGED <<rework, status, holder>>

\* A fail requeues the ticket for the seat it has, within the rework budget.
SendBack(t) ==
  IF rework[t] < MaxRework
    THEN /\ rework' = Set(rework, t, rework[t] + 1)
         /\ status' = Set(status, t, "open")
         /\ holder' = Set(holder, t, Nobody)
         /\ parked' = parked \ {t}
    ELSE /\ parked' = parked \cup {t}
         /\ UNCHANGED <<rework, status, holder>>

\* A pass lands the ticket, or parks it when the merge fails.
Verdict(t) ==
  \/ /\ passed' = passed \cup {t}
     /\ \/ Land(t) /\ UNCHANGED <<parked, bounds>>
        \/ Fault /\ parked' = parked \cup {t} /\ UNCHANGED landed
     /\ UNCHANGED <<rework, status, holder>>
  \/ SendBack(t) /\ UNCHANGED <<landed, passed, bounds>>

NoVerdict == UNCHANGED <<passed, landed, parked, rework, status, holder>>

\* A verdict that stands for what is under judgement, or may.
Answered(t) == t \in passed \cup parked \/ rework[t] > 0

\* verify_now looks at the ticket first, and judges it for minutes.
ShowSubmission(t) ==
  /\ verifying[t] = "show"
  /\ \/ /\ status[t] = "closed" /\ t \in Judged
        /\ verifying' = Set(verifying, t, "judge")
     \/ /\ status[t] # "closed" \/ t \notin Judged \/ Answered(t)
        /\ verifying' = Set(verifying, t, "mark")
  /\ UNCHANGED <<board, git, passed, rework, pending, calls, loop, agents, bounds>>

\* Whatever it came to, an error included, the submission is marked then.
JudgeSubmission(t) ==
  /\ verifying[t] = "judge"
  /\ Verdict(t) \/ (NoVerdict /\ Fault)
  /\ verifying' = Set(verifying, t, "mark")
  /\ UNCHANGED <<seat, previous, lease, declined, pushed, pending, calls, loop, agents>>

\* Mutant: only what was judged is marked.
MarkJudged(t) ==
  /\ verifying[t] = "mark"
  /\ pending' = IF Answered(t) THEN pending \ {t} ELSE pending
  /\ verifying' = Set(verifying, t, "none")
  /\ UNCHANGED <<board, git, passed, rework, calls, loop, agents, bounds>>

\* mark_verified marks the ticket's row, whichever submission it now holds; a
\* database that is away leaves it to the next housekeeping.
MarkVerified(t) ==
  /\ verifying[t] = "mark"
  /\ \/ pending' = pending \ {t} /\ UNCHANGED bounds
     \/ Fault /\ UNCHANGED pending
  /\ verifying' = Set(verifying, t, "none")
  /\ UNCHANGED <<board, git, passed, rework, calls, loop, agents>>

Verifies(t) == ShowSubmission(t) \/ JudgeSubmission(t) \/ MarkVerified(t)

\* The run is over, with the ticket as it is.
SlotFreed(s) == stage' = Set(stage, s, "free") /\ runs' = Set(runs, s, NoTicket)

\* The agent completes the ticket.  What is not judged lands first, or parks
\* the ticket; beads.close acts as whoever is the assignee, and bd may refuse.
Complete(s) ==
  /\ stage[s] = "work"
  /\ \/ /\ IF runs[s] \in Judged THEN UNCHANGED landed ELSE Land(runs[s])
        /\ \/ /\ status' = Set(status, runs[s], "closed")
              /\ stage' = Set(stage, s, "judge") /\ UNCHANGED <<runs, bounds>>
           \/ Fault /\ SlotFreed(s) /\ UNCHANGED status
        /\ UNCHANGED parked
     \/ Fault /\ parked' = parked \cup {runs[s]} /\ SlotFreed(s) /\ UNCHANGED <<landed, status>>
  /\ UNCHANGED <<seat, holder, previous, lease, declined, pushed, verdicts, calls, loop>>

\* release_to_pool reopens the ticket and leaves its assignee.
Decline(s) ==
  /\ stage[s] = "work"
  /\ status' = Set(status, runs[s], "open")
  /\ seat' = Set(seat, runs[s], Nobody)
  /\ declined' = declined \cup {runs[s]}
  /\ Moved
  /\ SlotFreed(s)
  /\ UNCHANGED <<holder, previous, lease, parked, git, verdicts, calls, loop>>

\* The run fails and its ticket waits as an orphan.
RunFails(s) ==
  /\ stage[s] = "work" /\ Fault
  /\ SlotFreed(s)
  /\ UNCHANGED <<board, git, verdicts, calls, loop>>

\* verify_now, in the agent's slot.
VerifyOwn(s) ==
  /\ stage[s] = "judge"
  /\ \/ runs[s] \in Judged /\ status[runs[s]] = "closed" /\ Verdict(runs[s])
     \/ NoVerdict /\ UNCHANGED bounds
  /\ SlotFreed(s)
  /\ UNCHANGED <<seat, previous, lease, declined, pushed, pending, verifying, calls, loop>>

Agent(s) == Complete(s) \/ Decline(s) \/ RunFails(s) \/ VerifyOwn(s)

\* The API dies, and with it every call; the sessions do not.
ApiCrash ==
  /\ Fault
  /\ at' = [c \in Calls |-> "idle"] /\ by' = [c \in Calls |-> Nobody]
  /\ on' = [c \in Calls |-> NoTicket] /\ read' = [c \in Calls |-> {}]
  /\ UNCHANGED <<board, git, verdicts, loop, agents>>

DispatcherCrash ==
  /\ Fault
  /\ main' = "sweep" /\ sweeping' = {} /\ tick' = NoPoll
  /\ verifying' = [t \in Tickets |-> "none"]
  /\ runs' = [s \in Internal |-> NoTicket] /\ stage' = [s \in Internal |-> "free"]
  /\ UNCHANGED <<board, git, passed, rework, pending, calls>>

Next ==
  \/ \E c \in Calls : Session(c)
  \/ \E t \in Tickets : Push(t) \/ LeaseLapses(t) \/ Verifies(t)
  \/ \E t \in Tickets, s \in Internal : Triage(t, s)
  \/ Loop
  \/ \E s \in Internal : Agent(s)
  \/ ApiCrash \/ DispatcherCrash

\* The dispatcher's loop goes round as long as it runs, and so does every
\* thread that verifies a submission.  No session and no agent need go on.
Fairness ==
  /\ WF_vars(Loop)
  /\ \A t \in Tickets : WF_vars(Verifies(t))

Spec == Init /\ [][Next]_vars /\ Fairness

----------------------------------------------------------------------------
(* Properties.                                                             *)

TicketSeat == Seats \cup {Nobody}

\* The types of the variables.
TypeOK ==
  /\ status \in [Tickets -> {"open", "in_progress", "closed"}]
  /\ seat \in [Tickets -> TicketSeat] /\ holder \in [Tickets -> TicketSeat]
  /\ previous \in [Tickets -> TicketSeat]
  /\ lease \in [Tickets -> {"none", "valid", "lapsed"}]
  /\ parked \subseteq Tickets /\ declined \subseteq Tickets
  /\ pushed \subseteq Tickets /\ landed \subseteq Tickets
  /\ passed \subseteq Tickets /\ pending \subseteq Tickets
  /\ rework \in [Tickets -> 0..MaxRework]
  /\ verifying \in [Tickets -> {"none", "show", "judge", "mark"}]
  /\ at \in [Calls -> {"idle", "choose", "claim", "undo", "lease", "unlease", "land",
                       "close", "insert", "release"}]
  /\ by \in [Calls -> External \cup {Nobody}] /\ on \in [Calls -> Tickets \cup {NoTicket}]
  /\ read \in [Calls -> SUBSET [t : Tickets, seat : TicketSeat]]
  /\ main \in {"sweep", "release", "tick", "act"}
  /\ sweeping \subseteq [t : Tickets, s : External, back : TicketSeat, cut : BOOLEAN]
  /\ tick \in [t : Tickets, s : Internal, start : BOOLEAN] \cup {NoPoll}
  /\ runs \in [Internal -> Tickets \cup {NoTicket}]
  /\ stage \in [Internal -> {"free", "work", "judge"}]
  /\ moves \in 0..MaxMoves /\ faults \in 0..MaxFaults

\* A ticket back in the pool can be claimed by the seat it is now assigned to,
\* unless a seat has declined it, and one in progress is somebody's to give
\* back: "an `open` ticket that keeps its old assignee can never be claimed"
\* (beads.py:366-368, reopen), and the hand-back of external.py:239 acts for
\* an assignee only.  So it is through every interleaving of claims, forced
\* claims, undone re-seats, sweeps, stale verdicts and closes.
ClaimFollowsStatus ==
  \A t \in Tickets :
    /\ status[t] = "open" /\ t \notin declined => holder[t] = Nobody
    /\ status[t] = "in_progress" => holder[t] # Nobody

\* Of a judged ticket nothing is merged before a verdict has approved it, and a
\* ticket that is never judged is merged before it is closed: "A ticket with no
\* criteria is never judged, so nothing else would land it" (external.py:455-456).
\* So it is when a submit dies between its close and its pending, when a
\* submitted ticket is given back, and when two calls submit the same ticket.
LandsByItsRule ==
  \A t \in Tickets :
    IF t \in Judged THEN t \in landed => t \in passed
    ELSE status[t] = "closed" => t \in landed

\* "A lease stops an abandoned session from holding a ticket forever"
\* (external.py:22): a ticket that a seat has claimed under a lease that lapsed
\* does not stay so, though the sweep acts on what it read, a release may raise
\* and the dispatcher may die between the two (external.py sweep_expired).
AbandonedReleased ==
  \A t \in Tickets :
    LET Abandoned == /\ t \in Going \ parked /\ lease[t] = "lapsed"
                     /\ seat[t] \in External /\ holder[t] = seat[t]
    IN Abandoned ~> ~Abandoned

\* A submission does not hold the dispatcher up for good: while one is pending
\* run_forever starts nothing new, and every one is marked in the end, whether
\* its ticket was judged, had been given back, or its verification raised or
\* died (dispatcher.py _verify_external).
SubmissionsMarked ==
  \A t \in Tickets : t \in pending ~> t \notin pending
=============================================================================
