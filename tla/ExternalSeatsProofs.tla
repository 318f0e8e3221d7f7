------------------------- MODULE ExternalSeatsProofs -------------------------
(***************************************************************************)
(* Proofs about ExternalSeats, for any tickets, seats, calls and bounds.   *)
(*                                                                         *)
(* TypeInv is inductive.  ClaimInv, what an update of the board keeps      *)
(* together, is inductive with it, and so is LandInv, which adds what a    *)
(* call that is about to merge or to close knows of its ticket.            *)
(***************************************************************************)
EXTENDS ExternalSeats, TLAPS

USE SeatsAssumption, RoadmapAssumption

\* TypeOK by the tuples of variables the actions speak of, with who a call is of and
\* what it is about, what the poll has chosen and what an agent works on.
BoardTypes ==
  /\ status \in [Tickets -> {"open", "in_progress", "closed"}]
  /\ seat \in [Tickets -> TicketSeat] /\ holder \in [Tickets -> TicketSeat]
  /\ previous \in [Tickets -> TicketSeat]
  /\ lease \in [Tickets -> {"none", "valid", "lapsed"}]
  /\ parked \subseteq Tickets /\ declined \subseteq Tickets

GitTypes == pushed \subseteq Tickets /\ landed \subseteq Tickets

VerdictTypes ==
  /\ passed \subseteq Tickets /\ rework \in [Tickets -> 0..MaxRework]
  /\ pending \subseteq Tickets
  /\ verifying \in [Tickets -> {"none", "show", "judge", "mark"}]

CallTypes ==
  /\ at \in [Calls -> {"idle", "choose", "claim", "undo", "lease", "unlease", "land",
                       "close", "insert", "release"}]
  /\ by \in [Calls -> External \cup {Nobody}] /\ on \in [Calls -> Tickets \cup {NoTicket}]
  /\ read \in [Calls -> SUBSET [t : Tickets, seat : TicketSeat]]
  /\ \A c \in Calls : at[c] # "idle" => by[c] \in External
  /\ \A c \in Calls : at[c] \notin {"idle", "choose"} => on[c] \in Tickets

LoopTypes ==
  /\ main \in {"sweep", "release", "tick", "act"}
  /\ sweeping \subseteq [t : Tickets, s : External, back : TicketSeat, cut : BOOLEAN]
  /\ tick \in [t : Tickets, s : Internal, start : BOOLEAN] \cup {NoPoll}
  /\ main = "act" => tick.t \in Tickets /\ tick.s \in Internal

AgentTypes ==
  /\ runs \in [Internal -> Tickets \cup {NoTicket}]
  /\ stage \in [Internal -> {"free", "work", "judge"}]
  /\ \A s \in Internal : stage[s] # "free" => runs[s] \in Tickets

BoundTypes == moves \in 0..MaxMoves /\ faults \in 0..MaxFaults

TypeInv ==
  /\ BoardTypes /\ GitTypes /\ VerdictTypes /\ CallTypes /\ LoopTypes /\ AgentTypes
  /\ BoundTypes

\* What a step leaves alone keeps its type.
LEMMA SameTypes ==
  /\ BoardTypes /\ UNCHANGED board => BoardTypes'
  /\ GitTypes /\ UNCHANGED git => GitTypes'
  /\ VerdictTypes /\ UNCHANGED verdicts => VerdictTypes'
  /\ CallTypes /\ UNCHANGED calls => CallTypes'
  /\ LoopTypes /\ UNCHANGED loop => LoopTypes'
  /\ AgentTypes /\ UNCHANGED agents => AgentTypes'
  /\ BoundTypes /\ (Moved \/ Fault \/ UNCHANGED bounds) => BoundTypes'
<1>1. BoardTypes /\ UNCHANGED board => BoardTypes'
  BY DEF BoardTypes, board
<1>2. GitTypes /\ UNCHANGED git => GitTypes'
  BY DEF GitTypes, git
<1>3. VerdictTypes /\ UNCHANGED verdicts => VerdictTypes'
  BY DEF VerdictTypes, verdicts
<1>4. CallTypes /\ UNCHANGED calls => CallTypes'
  BY DEF CallTypes, calls
<1>5. LoopTypes /\ UNCHANGED loop => LoopTypes'
  BY DEF LoopTypes, loop
<1>6. AgentTypes /\ UNCHANGED agents => AgentTypes'
  BY DEF AgentTypes, agents
<1>7. BoundTypes /\ (Moved \/ Fault \/ UNCHANGED bounds) => BoundTypes'
  BY DEF BoundTypes, bounds, Moved, Move, Fault
<1> QED BY <1>1, <1>2, <1>3, <1>4, <1>5, <1>6, <1>7

\* The seats a ticket may have.
LEMMA SeatKinds ==
  /\ Nobody \in TicketSeat /\ External \subseteq TicketSeat /\ Internal \subseteq TicketSeat
  /\ Nobody \notin External /\ Nobody \notin Internal
BY DEF TicketSeat, Seats

\* The steps the calls and the verdicts share: a step of a call on its ticket, an
\* answer, a release, a verdict.
LEMMA StepTypes ==
  ASSUME CallTypes, NEW c \in Calls, at[c] \notin {"idle", "choose"}, UNCHANGED <<by, on, read>>,
         NEW s \in {"claim", "undo", "lease", "unlease", "land", "close", "insert"}, Step(c, s)
  PROVE  CallTypes'
BY DEF CallTypes, Step, Set

LEMMA ReturnTypes ==
  ASSUME CallTypes, NEW c \in Calls, Return(c)
  PROVE  CallTypes'
BY DEF CallTypes, Return, Step, Set

LEMMA NextTypes ==
  ASSUME CallTypes, NEW c \in Calls, at[c] # "idle", NextCandidate(c), UNCHANGED <<by, on>>
  PROVE  CallTypes'
BY DEF CallTypes, NextCandidate, Step, Set

LEMMA HandBackTypes ==
  ASSUME BoardTypes, NEW t \in Tickets, NEW s \in External, NEW back \in TicketSeat,
         HandBack(t, s, back), UNCHANGED <<parked, declined>>
  PROVE  BoardTypes'
<1>1. CASE holder[t] = s
  BY <1>1, SeatKinds DEF BoardTypes, HandBack, Set
<1>2. CASE holder[t] # s
  BY <1>2 DEF BoardTypes, HandBack
<1> QED BY <1>1, <1>2

LEMMA SendBackTypes ==
  ASSUME BoardTypes, VerdictTypes, NEW t \in Tickets, SendBack(t),
         UNCHANGED <<seat, previous, lease, declined>>
  PROVE  BoardTypes' /\ rework' \in [Tickets -> 0..MaxRework]
<1>1. CASE rework[t] < MaxRework
  <2>1. rework[t] \in 0..MaxRework
    BY DEF VerdictTypes
  <2>2. rework' = Set(rework, t, rework[t] + 1) /\ rework[t] + 1 \in 0..MaxRework
    BY <1>1, <2>1 DEF SendBack
  <2>3. rework' \in [Tickets -> 0..MaxRework]
    BY <2>2 DEF VerdictTypes, Set
  <2>4. BoardTypes'
    BY <1>1, SeatKinds DEF BoardTypes, SendBack, Set
  <2> QED BY <2>3, <2>4
<1>2. CASE ~(rework[t] < MaxRework)
  BY <1>2 DEF BoardTypes, VerdictTypes, SendBack
<1> QED BY <1>1, <1>2

LEMMA VerdictStepTypes ==
  ASSUME TypeInv, NEW t \in Tickets, Verdict(t) \/ NoVerdict,
         UNCHANGED <<seat, previous, lease, declined, pushed>>
  PROVE  /\ BoardTypes' /\ GitTypes'
         /\ passed' \subseteq Tickets /\ rework' \in [Tickets -> 0..MaxRework]
<1> USE DEF TypeInv
<1>1. CASE /\ passed' = passed \cup {t}
           /\ (Land(t) /\ UNCHANGED <<parked, bounds>>)
              \/ (Fault /\ parked' = parked \cup {t} /\ UNCHANGED landed)
           /\ UNCHANGED <<rework, status, holder>>
  BY <1>1 DEF BoardTypes, GitTypes, VerdictTypes, Land
<1>2. CASE SendBack(t) /\ UNCHANGED <<landed, passed, bounds>>
  BY <1>2, SendBackTypes DEF GitTypes, VerdictTypes
<1>3. CASE NoVerdict
  BY <1>3 DEF BoardTypes, GitTypes, VerdictTypes, NoVerdict
<1> QED BY <1>1, <1>2, <1>3 DEF Verdict

\* A verdict or none leaves the bounds in theirs.
LEMMA VerdictBounds ==
  ASSUME NEW t \in Tickets, Verdict(t)
  PROVE  Fault \/ UNCHANGED bounds
BY DEF Verdict

\* A step of a session's call, on one of its tickets, keeps the types.
LEMMA SessionTypes ==
  ASSUME TypeInv, NEW c \in Calls, Session(c)
  PROVE  TypeInv'
<1> USE DEF TypeInv
<1>1. ASSUME NEW e \in External, Request(c, e)
      PROVE  TypeInv'
  <2>1. CASE Own(e) # {}
    <3>1. CallTypes'
      BY <1>1, <2>1 DEF Request, Called, CallTypes, Own, Going, Step, Set
    <3> QED BY <1>1, <3>1, SameTypes DEF Request, Called
  <2>2. CASE Own(e) = {}
    <3>1. Candidates(e) \subseteq [t : Tickets, seat : TicketSeat]
      BY DEF Candidates, Reworked, Fresh, Ready, BoardTypes
    <3>2. CallTypes'
      BY <1>1, <2>2, <3>1 DEF Request, Called, CallTypes, Step, Set
    <3> QED BY <1>1, <3>2, SameTypes DEF Request, Called
  <2> QED BY <2>1, <2>2
<1>2. ASSUME NEW e \in External, NEW t \in Tickets,
             Heartbeat(c, e, t) \/ Submit(c, e, t) \/ GiveBack(c, e, t)
      PROVE  TypeInv'
  <2>1. CASE Heartbeat(c, e, t)
    <3>1. CallTypes'
      BY <2>1 DEF Heartbeat, Called, CallTypes, Step, Set
    <3> QED BY <2>1, <3>1, SameTypes DEF Heartbeat, Called
  <2>2. CASE Submit(c, e, t)
    <3>1. CallTypes'
      BY <2>2 DEF Submit, Called, CallTypes, Step, Set
    <3> QED BY <2>2, <3>1, SameTypes DEF Submit, Called
  <2>3. CASE GiveBack(c, e, t)
    <3>1. [t |-> t, seat |-> previous[t]] \in [t : Tickets, seat : TicketSeat]
      BY DEF BoardTypes
    <3>2. CallTypes'
      BY <2>3, <3>1 DEF GiveBack, Called, CallTypes, Step, Set
    <3>3. GitTypes'
      BY <2>3 DEF GiveBack, CutBranch, GitTypes
    <3> QED BY <2>3, <3>2, <3>3, SameTypes DEF GiveBack, Called
  <2> QED BY <1>2, <2>1, <2>2, <2>3
<1>3. CASE NoneReady(c)
  BY <1>3, ReturnTypes, SameTypes DEF NoneReady
<1>4. CASE Reseat(c)
  <2>1. PICK r \in read[c] :
          /\ on' = Set(on, c, r.t) /\ seat' = Set(seat, r.t, by[c])
          /\ previous' = IF r.seat \in {Nobody, by[c]} THEN previous
                         ELSE Set(previous, r.t, r.seat)
    BY <1>4 DEF Reseat
  <2>2. r.t \in Tickets /\ r.seat \in TicketSeat /\ by[c] \in TicketSeat
    BY <1>4, <2>1, SeatKinds DEF Reseat, CallTypes
  <2>3. BoardTypes'
    BY <1>4, <2>1, <2>2 DEF Reseat, BoardTypes, Set
  <2>4. CallTypes'
    BY <1>4, <2>1, <2>2 DEF Reseat, CallTypes, Step, Set
  <2> QED BY <1>4, <2>3, <2>4, SameTypes DEF Reseat
<1>5. CASE Claim(c)
  <2>1. CallTypes'
    BY <1>5, StepTypes DEF Claim
  <2>2. on[c] \in Tickets /\ by[c] \in TicketSeat
    BY <1>5, SeatKinds DEF Claim, CallTypes
  <2>3. BoardTypes'
    BY <1>5, <2>2 DEF Claim, BoardTypes, Set
  <2> QED BY <1>5, <2>1, <2>3, SameTypes DEF Claim
<1>6. CASE UndoReseat(c)
  <2>1. PICK r \in read[c] : r.t = on[c] /\ seat' = Set(seat, r.t, r.seat)
    BY <1>6 DEF UndoReseat
  <2>2. r.t \in Tickets /\ r.seat \in TicketSeat
    BY <2>1 DEF CallTypes
  <2>3. BoardTypes'
    BY <1>6, <2>1, <2>2, SeatKinds DEF UndoReseat, BoardTypes, Set
  <2>4. CallTypes'
    BY <1>6, NextTypes DEF UndoReseat
  <2> QED BY <1>6, <2>3, <2>4, SameTypes DEF UndoReseat
<1>7. CASE ExtendLease(c)
  <2>1. on[c] \in Tickets
    BY <1>7 DEF ExtendLease, CallTypes
  <2>2. BoardTypes'
    BY <1>7, <2>1 DEF ExtendLease, BoardTypes, Set
  <2> QED BY <1>7, <2>2, ReturnTypes, SameTypes DEF ExtendLease
<1>8. CASE Unlease(c)
  <2>1. on[c] \in Tickets
    BY <1>8 DEF Unlease, CallTypes
  <2>2. BoardTypes'
    BY <1>8, <2>1 DEF Unlease, BoardTypes, Set
  <2>3. CallTypes'
    BY <1>8, StepTypes DEF Unlease
  <2> QED BY <1>8, <2>2, <2>3, SameTypes DEF Unlease
<1>9. CASE LandUnjudged(c)
  <2>1. on[c] \in Tickets
    BY <1>9 DEF LandUnjudged, CallTypes
  <2>2. BoardTypes' /\ GitTypes'
    BY <1>9, <2>1 DEF LandUnjudged, Land, BoardTypes, GitTypes
  <2>3. CallTypes'
    BY <1>9, StepTypes, ReturnTypes DEF LandUnjudged
  <2> QED BY <1>9, <2>2, <2>3, SameTypes DEF LandUnjudged
<1>10. CASE CloseSubmitted(c)
  <2>1. on[c] \in Tickets
    BY <1>10 DEF CloseSubmitted, CallTypes
  <2>2. BoardTypes'
    BY <1>10, <2>1 DEF CloseSubmitted, BoardTypes, Set
  <2>3. CallTypes'
    BY <1>10, StepTypes, ReturnTypes DEF CloseSubmitted
  <2> QED BY <1>10, <2>2, <2>3, SameTypes DEF CloseSubmitted
<1>11. CASE InsertSubmission(c)
  <2>1. VerdictTypes'
    BY <1>11 DEF InsertSubmission, VerdictTypes, CallTypes
  <2> QED BY <1>11, <2>1, ReturnTypes, SameTypes DEF InsertSubmission
<1>12. CASE ReleaseOwn(c)
  <2>1. PICK r \in read[c] : HandBack(on[c], by[c], r.seat)
    BY <1>12 DEF ReleaseOwn
  <2>2. on[c] \in Tickets /\ by[c] \in External /\ r.seat \in TicketSeat
    BY <1>12, <2>1 DEF ReleaseOwn, CallTypes
  <2>3. BoardTypes'
    BY <1>12, <2>1, <2>2, HandBackTypes DEF ReleaseOwn
  <2> QED BY <1>12, <2>3, ReturnTypes, SameTypes DEF ReleaseOwn
<1>13. CASE Raises(c)
  <2>1. CallTypes'
    BY <1>13, NextTypes, ReturnTypes DEF Raises
  <2> QED BY <1>13, <2>1, SameTypes DEF Raises
<1> QED BY <1>1, <1>2, <1>3, <1>4, <1>5, <1>6, <1>7, <1>8, <1>9, <1>10, <1>11, <1>12, <1>13
  DEF Session, Requests, Submits

\* So does a step of the dispatcher's loop.
LEMMA LoopStepTypes ==
  ASSUME TypeInv, Loop
  PROVE  TypeInv'
<1> USE DEF TypeInv
<1>1. CASE Sweep
  <2>1. sweeping' \subseteq [t : Tickets, s : External, back : TicketSeat, cut : BOOLEAN]
    <3>1. ASSUME NEW t \in Going, seat[t] \in External
          PROVE  [t |-> t, s |-> seat[t], back |-> previous[t], cut |-> FALSE]
                   \in [t : Tickets, s : External, back : TicketSeat, cut : BOOLEAN]
      BY <3>1 DEF Going, BoardTypes
    <3>2. ASSUME NEW r \in LapsedAmong(Going)
          PROVE  r \in [t : Tickets, s : External, back : TicketSeat, cut : BOOLEAN]
      <4>1. PICK t \in {u \in Going \ parked : seat[u] \in External /\ lease[u] = "lapsed"} :
              r = [t |-> t, s |-> seat[t], back |-> previous[t], cut |-> FALSE]
        BY <3>2 DEF LapsedAmong
      <4> QED BY <3>1, <4>1
    <3> QED BY <1>1, <3>2 DEF Sweep
  <2>2. LoopTypes'
    BY <1>1, <2>1 DEF Sweep, LoopTypes
  <2> QED BY <1>1, <2>2, SameTypes DEF Sweep
<1>2. ASSUME NEW r \in sweeping, CutSwept(r)
      PROVE  TypeInv'
  <2>1. [r EXCEPT !.cut = TRUE] \in [t : Tickets, s : External, back : TicketSeat, cut : BOOLEAN]
    BY DEF LoopTypes
  <2>2. LoopTypes'
    BY <1>2, <2>1 DEF CutSwept, LoopTypes
  <2>3. GitTypes'
    BY <1>2 DEF CutSwept, CutBranch, GitTypes
  <2> QED BY <1>2, <2>2, <2>3, SameTypes DEF CutSwept
<1>3. ASSUME NEW r \in sweeping, ReleaseSwept(r)
      PROVE  TypeInv'
  <2>1. r.t \in Tickets /\ r.s \in External /\ r.back \in TicketSeat
    BY DEF LoopTypes
  <2>2. BoardTypes'
    BY <1>3, <2>1, HandBackTypes DEF ReleaseSwept, BoardTypes
  <2>3. LoopTypes'
    BY <1>3 DEF ReleaseSwept, LoopTypes
  <2> QED BY <1>3, <2>2, <2>3, SameTypes DEF ReleaseSwept
<1>4. CASE StartVerifying
  <2>1. VerdictTypes'
    BY <1>4 DEF StartVerifying, VerdictTypes
  <2>2. LoopTypes'
    BY <1>4 DEF StartVerifying, LoopTypes
  <2> QED BY <1>4, <2>1, <2>2, SameTypes DEF StartVerifying
<1>5. CASE HousekeepingRaises
  <2>1. LoopTypes'
    BY <1>5 DEF HousekeepingRaises, LoopTypes
  <2> QED BY <1>5, <2>1, SameTypes DEF HousekeepingRaises
<1>6. CASE ReadBoard
  <2>1. LoopTypes'
    <3>1. CASE main' = "sweep" /\ UNCHANGED tick
      BY <1>6, <3>1 DEF ReadBoard, LoopTypes
    <3>2. CASE main' = "act"
      <4>1. PICK t \in Tickets, s \in Internal : tick' = [t |-> t, s |-> s, start |-> seat[t] = s]
        BY <1>6, <3>2 DEF ReadBoard
      <4>2. (seat[t] = s) \in BOOLEAN
        OBVIOUS
      <4> QED BY <1>6, <3>2, <4>1, <4>2 DEF ReadBoard, LoopTypes
    <3> QED BY <1>6, <3>1, <3>2 DEF ReadBoard
  <2> QED BY <1>6, <2>1, SameTypes DEF ReadBoard
<1>7. CASE ActOnPoll
  <2>1. tick.t \in Tickets /\ tick.s \in Internal /\ tick.s \in TicketSeat
    BY <1>7, SeatKinds DEF ActOnPoll, LoopTypes
  <2>2. LoopTypes'
    BY <1>7 DEF ActOnPoll, LoopTypes
  <2>3. CASE ~tick.start
    <3>1. BoardTypes'
      BY <1>7, <2>1, <2>3 DEF ActOnPoll, NotStarted, BoardTypes, Set
    <3> QED BY <1>7, <2>2, <2>3, <3>1, SameTypes DEF ActOnPoll, NotStarted
  <2>4. CASE tick.start /\ NotStarted
    <3>1. BoardTypes'
      BY <1>7, <2>4 DEF ActOnPoll, NotStarted, BoardTypes
    <3> QED BY <1>7, <2>2, <2>4, <3>1, SameTypes DEF ActOnPoll, NotStarted
  <2>5. CASE tick.start /\ ~NotStarted
    <3>1. /\ Moved /\ ForcedClaim(tick.t, tick.s) /\ UNCHANGED seat
          /\ runs' = Set(runs, tick.s, tick.t) /\ stage' = Set(stage, tick.s, "work")
      BY <1>7, <2>5 DEF ActOnPoll, StartAgent
    <3>2. status' \in [Tickets -> {"open", "in_progress", "closed"}]
          /\ holder' \in [Tickets -> TicketSeat]
      BY <3>1, <2>1 DEF ForcedClaim, BoardTypes, Set
    <3>3. BoardTypes'
      BY <1>7, <3>1, <3>2 DEF ActOnPoll, BoardTypes
    <3>4. AgentTypes'
      BY <3>1, <2>1 DEF AgentTypes, Set
    <3> QED BY <1>7, <2>2, <3>1, <3>3, <3>4, SameTypes DEF ActOnPoll
  <2> QED BY <2>3, <2>4, <2>5
<1> QED BY <1>1, <1>2, <1>3, <1>4, <1>5, <1>6, <1>7 DEF Loop

\* A run that ends gives its seat back.
LEMMA FreedTypes ==
  ASSUME AgentTypes, NEW s \in Internal, SlotFreed(s)
  PROVE  AgentTypes'
BY DEF AgentTypes, SlotFreed, Set

\* So does a step of an agent.
LEMMA AgentStepTypes ==
  ASSUME TypeInv, NEW s \in Internal, Agent(s)
  PROVE  TypeInv'
<1> USE DEF TypeInv
<1>1. stage[s] # "free" /\ runs[s] \in Tickets
  BY DEF Agent, Complete, Decline, RunFails, VerifyOwn, AgentTypes
<1>2. CASE Complete(s)
  <2>1. BoardTypes'
    BY <1>1, <1>2 DEF Complete, BoardTypes, Set
  <2>2. GitTypes'
    BY <1>1, <1>2 DEF Complete, GitTypes, Land
  <2>3. AgentTypes'
    <3>1. CASE SlotFreed(s)
      BY <3>1, FreedTypes
    <3>2. CASE stage' = Set(stage, s, "judge") /\ UNCHANGED runs
      BY <1>1, <3>2 DEF AgentTypes, Set
    <3> QED BY <1>2, <3>1, <3>2 DEF Complete
  <2>4. Fault \/ UNCHANGED bounds
    BY <1>2 DEF Complete
  <2> QED BY <1>2, <2>1, <2>2, <2>3, <2>4, SameTypes DEF Complete
<1>3. CASE Decline(s)
  <2>1. BoardTypes'
    BY <1>1, <1>3, SeatKinds DEF Decline, BoardTypes, Set
  <2> QED BY <1>3, <2>1, FreedTypes, SameTypes DEF Decline
<1>4. CASE RunFails(s)
  BY <1>4, FreedTypes, SameTypes DEF RunFails
<1>5. CASE VerifyOwn(s)
  <2>1. Verdict(runs[s]) \/ (NoVerdict /\ UNCHANGED bounds)
    BY <1>5 DEF VerifyOwn
  <2>2. /\ BoardTypes' /\ GitTypes' /\ passed' \subseteq Tickets
        /\ rework' \in [Tickets -> 0..MaxRework]
    BY <1>1, <1>5, <2>1, VerdictStepTypes DEF VerifyOwn
  <2>3. VerdictTypes'
    BY <1>5, <2>2 DEF VerifyOwn, VerdictTypes
  <2>4. Fault \/ UNCHANGED bounds
    BY <1>1, <2>1, VerdictBounds
  <2> QED BY <1>5, <2>2, <2>3, <2>4, FreedTypes, SameTypes DEF VerifyOwn
<1> QED BY <1>2, <1>3, <1>4, <1>5 DEF Agent

\* And so does every other step.
LEMMA TypeStep ==
  ASSUME TypeInv, [Next]_vars
  PROVE  TypeInv'
<1> USE DEF TypeInv
<1>1. ASSUME NEW t \in Tickets, Push(t)
      PROVE  TypeInv'
  <2>1. GitTypes'
    BY <1>1 DEF Push, GitTypes
  <2> QED BY <1>1, <2>1, SameTypes DEF Push
<1>2. ASSUME NEW t \in Tickets, LeaseLapses(t)
      PROVE  TypeInv'
  <2>1. BoardTypes'
    BY <1>2 DEF LeaseLapses, BoardTypes, Set
  <2> QED BY <1>2, <2>1, SameTypes DEF LeaseLapses
<1>3. ASSUME NEW t \in Tickets, ShowSubmission(t)
      PROVE  TypeInv'
  <2>1. VerdictTypes'
    BY <1>3 DEF ShowSubmission, VerdictTypes, Set
  <2> QED BY <1>3, <2>1, SameTypes DEF ShowSubmission
<1>4. ASSUME NEW t \in Tickets, JudgeSubmission(t)
      PROVE  TypeInv'
  <2>1. /\ BoardTypes' /\ GitTypes' /\ passed' \subseteq Tickets
        /\ rework' \in [Tickets -> 0..MaxRework]
    BY <1>4, VerdictStepTypes DEF JudgeSubmission
  <2>2. VerdictTypes'
    BY <1>4, <2>1 DEF JudgeSubmission, VerdictTypes, Set
  <2>3. Fault \/ UNCHANGED bounds
    BY <1>4, VerdictBounds DEF JudgeSubmission
  <2> QED BY <1>4, <2>1, <2>2, <2>3, SameTypes DEF JudgeSubmission
<1>5. ASSUME NEW t \in Tickets, MarkVerified(t)
      PROVE  TypeInv'
  <2>1. VerdictTypes'
    BY <1>5 DEF MarkVerified, VerdictTypes, Set
  <2> QED BY <1>5, <2>1, SameTypes DEF MarkVerified
<1>6. ASSUME NEW t \in Tickets, NEW s \in Internal, Triage(t, s)
      PROVE  TypeInv'
  <2>1. BoardTypes'
    BY <1>6, SeatKinds DEF Triage, BoardTypes, Set
  <2> QED BY <1>6, <2>1, SameTypes DEF Triage
<1>7. CASE ApiCrash
  <2>1. CallTypes'
    BY <1>7 DEF ApiCrash, CallTypes
  <2> QED BY <1>7, <2>1, SameTypes DEF ApiCrash
<1>8. CASE DispatcherCrash
  <2>1. LoopTypes'
    BY <1>8 DEF DispatcherCrash, LoopTypes
  <2>2. AgentTypes'
    BY <1>8 DEF DispatcherCrash, AgentTypes
  <2>3. VerdictTypes'
    BY <1>8 DEF DispatcherCrash, VerdictTypes
  <2> QED BY <1>8, <2>1, <2>2, <2>3, SameTypes DEF DispatcherCrash
<1>9. CASE UNCHANGED vars
  BY <1>9, SameTypes DEF vars
<1> QED BY <1>1, <1>2, <1>3, <1>4, <1>5, <1>6, <1>7, <1>8, <1>9, SessionTypes, LoopStepTypes,
     AgentStepTypes DEF Next, Verifies

LEMMA TypesAtFirst ==
  ASSUME Init
  PROVE  TypeInv
BY SeatKinds DEF Init, TypeInv, BoardTypes, GitTypes, VerdictTypes, CallTypes, LoopTypes,
   AgentTypes, BoundTypes

LEMMA TypesHold == Spec => []TypeInv
BY TypesAtFirst, TypeStep, PTL DEF Spec

\* Every variable keeps its type: a call is a seat's and, once it has chosen, about a
\* ticket, and an agent at work has one (external.py; dispatcher.py).
THEOREM SeatsTypeCorrect == Spec => []TypeOK
<1>1. TypeInv => TypeOK
  BY DEF TypeInv, BoardTypes, GitTypes, VerdictTypes, CallTypes, LoopTypes, AgentTypes,
     BoundTypes, TypeOK
<1> QED BY <1>1, TypesHold, PTL

----------------------------------------------------------------------------
\* Whose a ticket is: every update of a status updates the assignee with it, except
\* that of a ticket a seat declines.
ClaimInv == TypeInv /\ ClaimFollowsStatus

\* Of its own ticket; no other ticket's status or assignee changes.
Follows(t) ==
  /\ status[t] = "open" /\ t \notin declined => holder[t] = Nobody
  /\ status[t] = "in_progress" => holder[t] # Nobody

Untouched(t) == status'[t] = status[t] /\ holder'[t] = holder[t]

LEMMA ClaimsKept ==
  ASSUME ClaimInv, declined \subseteq declined',
         \A t \in Tickets : Untouched(t) \/ Follows(t)'
  PROVE  ClaimFollowsStatus'
BY DEF ClaimInv, ClaimFollowsStatus, Follows, Untouched

LEMMA SameClaims ==
  ASSUME ClaimInv, UNCHANGED <<status, holder, declined>>
  PROVE  ClaimFollowsStatus'
BY DEF ClaimInv, ClaimFollowsStatus

\* A ticket handed back, and one sent back by a verdict, is nobody's and open.
LEMMA HandedBack ==
  ASSUME ClaimInv, NEW t \in Tickets, NEW s, NEW back, HandBack(t, s, back),
         UNCHANGED declined
  PROVE  ClaimFollowsStatus'
<1>1. CASE holder[t] = s
  <2>1. \A u \in Tickets : Untouched(u) \/ Follows(u)'
    BY <1>1 DEF HandBack, Set, Follows, Untouched, ClaimInv, TypeInv, BoardTypes
  <2> QED BY <2>1, ClaimsKept
<1>2. CASE holder[t] # s
  BY <1>2, SameClaims DEF HandBack
<1> QED BY <1>1, <1>2

LEMMA Judgement ==
  ASSUME ClaimInv, NEW t \in Tickets, Verdict(t) \/ NoVerdict, UNCHANGED declined
  PROVE  ClaimFollowsStatus'
<1>1. CASE UNCHANGED <<status, holder>>
  BY <1>1, SameClaims
<1>2. CASE SendBack(t)
  <2>1. CASE rework[t] < MaxRework
    <3>1. \A u \in Tickets : Untouched(u) \/ Follows(u)'
      BY <1>2, <2>1 DEF SendBack, Set, Follows, Untouched, ClaimInv, TypeInv, BoardTypes
    <3> QED BY <3>1, ClaimsKept
  <2>2. CASE ~(rework[t] < MaxRework)
    BY <1>2, <2>2, SameClaims DEF SendBack
  <2> QED BY <2>1, <2>2
<1> QED BY <1>1, <1>2 DEF Verdict, NoVerdict

\* A claim, and another's claim taken by force.
LEMMA ForcedStep ==
  ASSUME ClaimInv, NEW t \in Tickets, NEW s \in Internal, ForcedClaim(t, s),
         UNCHANGED declined
  PROVE  ClaimFollowsStatus'
<1> USE SeatKinds DEF ClaimInv, TypeInv, BoardTypes, Follows, Untouched, Set
<1>1. ClaimFollowsStatus => Follows(t)
  BY DEF ClaimFollowsStatus
<1>2. \A u \in Tickets : Untouched(u) \/ Follows(u)'
  BY <1>1 DEF ForcedClaim
<1> QED BY <1>2, ClaimsKept

LEMMA ClaimStep ==
  ASSUME ClaimInv, [Next]_vars
  PROVE  ClaimFollowsStatus'
<1> USE DEF board
<1>1. ASSUME NEW c \in Calls, Session(c)
      PROVE  ClaimFollowsStatus'
  <2>1. CASE Claim(c)
    <3>1. on[c] \in Tickets /\ by[c] \in External
      BY <2>1 DEF Claim, ClaimInv, TypeInv, CallTypes
    <3>2. CASE UNCHANGED <<status, holder>>
      BY <2>1, <3>2, SameClaims DEF Claim
    <3>3. CASE /\ status' = Set(status, on[c], "in_progress")
               /\ holder' = Set(holder, on[c], by[c])
      <4>1. \A u \in Tickets : Untouched(u) \/ Follows(u)'
        BY <3>1, <3>3, SeatKinds
        DEF Set, Follows, Untouched, ClaimInv, TypeInv, BoardTypes
      <4> QED BY <2>1, <3>1, <4>1, ClaimsKept DEF Claim
    <3> QED BY <2>1, <3>2, <3>3 DEF Claim
  <2>2. CASE CloseSubmitted(c)
    <3>1. on[c] \in Tickets
      BY <2>2 DEF CloseSubmitted, ClaimInv, TypeInv, CallTypes
    <3>2. CASE status' = Set(status, on[c], "closed")
      <4>1. \A u \in Tickets : Untouched(u) \/ Follows(u)'
        BY <2>2, <3>1, <3>2
        DEF CloseSubmitted, Set, Follows, Untouched, ClaimInv, TypeInv, BoardTypes
      <4> QED BY <2>2, <3>1, <4>1, ClaimsKept DEF CloseSubmitted
    <3>3. CASE UNCHANGED status
      BY <2>2, <3>3, SameClaims DEF CloseSubmitted
    <3> QED BY <2>2, <3>2, <3>3 DEF CloseSubmitted
  <2>3. CASE ReleaseOwn(c)
    <3>1. on[c] \in Tickets /\ \E r \in read[c] : HandBack(on[c], by[c], r.seat)
      BY <2>3 DEF ReleaseOwn, ClaimInv, TypeInv, CallTypes
    <3> QED BY <2>3, <3>1, HandedBack DEF ReleaseOwn
  <2>4. CASE UNCHANGED <<status, holder, declined>>
    BY <2>4, SameClaims
  <2> QED BY <1>1, <2>1, <2>2, <2>3, <2>4
    DEF Session, Requests, Submits, Request, Heartbeat, Submit, GiveBack, NoneReady, Reseat,
        UndoReseat, ExtendLease, Unlease, LandUnjudged, InsertSubmission, Raises
<1>2. CASE Loop
  <2>1. ASSUME NEW r \in sweeping, ReleaseSwept(r)
        PROVE  ClaimFollowsStatus'
    <3>1. r.t \in Tickets
      BY DEF ClaimInv, TypeInv, LoopTypes
    <3> QED BY <2>1, <3>1, HandedBack, SameClaims DEF ReleaseSwept
  <2>2. CASE ActOnPoll
    <3>1. tick.t \in Tickets /\ tick.s \in Internal
      BY <2>2 DEF ActOnPoll, ClaimInv, TypeInv, LoopTypes
    <3> QED BY <2>2, <3>1, ForcedStep, SameClaims DEF ActOnPoll, StartAgent, NotStarted
  <2>3. CASE UNCHANGED <<status, holder, declined>>
    BY <2>3, SameClaims
  <2> QED BY <1>2, <2>1, <2>2, <2>3
    DEF Loop, Sweep, CutSwept, StartVerifying, HousekeepingRaises, ReadBoard
<1>3. ASSUME NEW s \in Internal, Agent(s)
      PROVE  ClaimFollowsStatus'
  <2>1. runs[s] \in Tickets
    BY <1>3 DEF Agent, Complete, Decline, RunFails, VerifyOwn, ClaimInv, TypeInv, AgentTypes
  <2>2. CASE Complete(s)
    <3>1. CASE status' = Set(status, runs[s], "closed")
      <4>1. \A u \in Tickets : Untouched(u) \/ Follows(u)'
        BY <2>1, <2>2, <3>1
        DEF Complete, Set, Follows, Untouched, ClaimInv, TypeInv, BoardTypes
      <4> QED BY <2>1, <2>2, <4>1, ClaimsKept DEF Complete
    <3>2. CASE UNCHANGED status
      BY <2>2, <3>2, SameClaims DEF Complete
    <3> QED BY <2>2, <3>1, <3>2 DEF Complete
  <2>3. CASE Decline(s)
    <3>1. \A u \in Tickets : Untouched(u) \/ Follows(u)'
      BY <2>1, <2>3 DEF Decline, Set, Follows, Untouched, ClaimInv, TypeInv, BoardTypes
    <3> QED BY <2>1, <2>3, <3>1, ClaimsKept DEF Decline
  <2>4. CASE VerifyOwn(s)
    BY <2>1, <2>4, Judgement DEF VerifyOwn
  <2>5. CASE RunFails(s)
    BY <2>5, SameClaims DEF RunFails
  <2> QED BY <1>3, <2>2, <2>3, <2>4, <2>5 DEF Agent
<1>4. ASSUME NEW t \in Tickets, JudgeSubmission(t)
      PROVE  ClaimFollowsStatus'
  BY <1>4, Judgement DEF JudgeSubmission
<1>5. CASE UNCHANGED <<status, holder, declined>>
  BY <1>5, SameClaims
<1> QED BY <1>1, <1>2, <1>3, <1>4, <1>5
  DEF Next, Push, LeaseLapses, Verifies, ShowSubmission, MarkVerified, Triage, ApiCrash,
      DispatcherCrash, vars

\* A ticket that is open can be claimed, unless it was declined, and one in progress is
\* somebody's: through sessions that race each other, the dispatcher's forced claims, the
\* sweep and stale verdicts, however many (beads.py reopen, claim; external.py _release).
THEOREM SeatsClaimsFollow == Spec => []ClaimFollowsStatus
<1>1. Init => ClaimFollowsStatus
  BY DEF Init, ClaimFollowsStatus
<1>2. TypeInv /\ ClaimFollowsStatus /\ [Next]_vars => ClaimFollowsStatus'
  BY ClaimStep DEF ClaimInv
<1> QED BY <1>1, <1>2, TypesHold, PTL DEF Spec

----------------------------------------------------------------------------
\* What a submit that is about to merge, and one that is about to close, knows.
Merging == \A c \in Calls : at[c] = "land" => on[c] \notin Judged
Closing == \A c \in Calls : at[c] = "close" /\ on[c] \notin Judged => on[c] \in landed

LandInv == LandsByItsRule /\ Merging /\ Closing

\* Nothing lands, no verdict is forgotten and nothing closes; the calls are as they were
\* or end.
LEMMA CallsKept ==
  ASSUME LandInv, landed \subseteq landed',
         \A c \in Calls : /\ at'[c] \in {"land", "close"} => at'[c] = at[c]
                          /\ at'[c] = at[c] /\ at[c] \in {"land", "close"} => on'[c] = on[c]
  PROVE  (Merging /\ Closing)'
BY DEF LandInv, Merging, Closing

LEMMA SameLanded ==
  ASSUME LandInv, UNCHANGED <<landed, passed>>,
         \A t \in Tickets : status'[t] = "closed" => status[t] = "closed"
  PROVE  LandsByItsRule'
BY DEF LandInv, LandsByItsRule

LEMMA VerdictLands ==
  ASSUME LandInv, BoardTypes, NEW t \in Tickets, Verdict(t) \/ NoVerdict
  PROVE  LandsByItsRule' /\ landed \subseteq landed'
<1>1. CASE passed' = passed \cup {t} /\ UNCHANGED status
           /\ (Land(t) \/ UNCHANGED landed)
  BY <1>1 DEF LandInv, LandsByItsRule, Land
<1>2. CASE SendBack(t) /\ UNCHANGED <<landed, passed>>
  BY <1>2, SameLanded DEF SendBack, Set, BoardTypes
<1>3. CASE NoVerdict
  BY <1>3, SameLanded DEF NoVerdict
<1> QED BY <1>1, <1>2, <1>3 DEF Verdict

\* A step of a call that is not about to merge or to close then.
LEMMA OtherStep ==
  ASSUME TypeInv, LandInv, NEW c \in Calls, at'[c] \notin {"land", "close"},
         \A d \in Calls \ {c} : at'[d] = at[d] /\ on'[d] = on[d],
         UNCHANGED <<landed, passed>>,
         \A t \in Tickets : status'[t] = "closed" => status[t] = "closed"
  PROVE  LandInv'
BY CallsKept, SameLanded DEF LandInv

LEMMA SessionLands ==
  ASSUME TypeInv, LandInv, NEW c \in Calls, Session(c)
  PROVE  LandInv'
<1> USE DEF TypeInv, Step, Set
<1>1. ASSUME NEW e \in External, Request(c, e)
      PROVE  LandInv'
  BY <1>1, OtherStep DEF Request, CallTypes, git, board, verdicts
<1>2. ASSUME NEW e \in External, NEW t \in Tickets,
             Heartbeat(c, e, t) \/ Submit(c, e, t) \/ GiveBack(c, e, t)
      PROVE  LandInv'
  BY <1>2, OtherStep DEF Heartbeat, Submit, GiveBack, CallTypes, git, board, verdicts
<1>3. CASE Reseat(c) \/ UndoReseat(c)
  BY <1>3, OtherStep DEF Reseat, UndoReseat, NextCandidate, CallTypes, git, verdicts
<1>4. CASE Claim(c)
  BY <1>4, OtherStep DEF Claim, BoardTypes, CallTypes, git, verdicts
<1>5. CASE NoneReady(c) \/ ExtendLease(c) \/ InsertSubmission(c)
  BY <1>5, OtherStep
  DEF NoneReady, ExtendLease, InsertSubmission, Return, CallTypes, git, board, verdicts
<1>6. CASE ReleaseOwn(c)
  <2>1. \A t \in Tickets : status'[t] = "closed" => status[t] = "closed"
    BY <1>6 DEF ReleaseOwn, HandBack, BoardTypes
  <2> QED BY <1>6, <2>1, OtherStep DEF ReleaseOwn, Return, CallTypes, git, verdicts
<1>7. CASE Raises(c)
  BY <1>7, OtherStep DEF Raises, NextCandidate, Return, CallTypes, git, board, verdicts
<1>8. CASE Unlease(c)
  <2>1. LandsByItsRule'
    BY <1>8, SameLanded DEF Unlease, git, verdicts
  <2>2. (Merging /\ Closing)'
    BY <1>8 DEF Unlease, CallTypes, LandInv, Merging, Closing, git
  <2> QED BY <2>1, <2>2 DEF LandInv
<1>9. CASE LandUnjudged(c)
  <2>1. on[c] \notin Judged /\ landed \subseteq landed' /\ UNCHANGED <<status, passed>>
    BY <1>9 DEF LandUnjudged, LandInv, Merging, Land, verdicts
  <2>2. LandsByItsRule'
    BY <1>9, <2>1 DEF LandUnjudged, LandInv, LandsByItsRule, Land
  <2>3. (Merging /\ Closing)'
    <3>1. CASE Land(on[c]) /\ at' = [at EXCEPT ![c] = "close"] /\ UNCHANGED on
      BY <3>1 DEF CallTypes, LandInv, Merging, Closing, Land
    <3>2. CASE Return(c)
      BY <2>1, <3>2 DEF Return, CallTypes, LandInv, Merging, Closing
    <3> QED BY <1>9, <3>1, <3>2 DEF LandUnjudged
  <2> QED BY <2>2, <2>3 DEF LandInv
<1>10. CASE CloseSubmitted(c)
  <2>1. on[c] \in Tickets /\ (on[c] \notin Judged => on[c] \in landed)
    BY <1>10 DEF CloseSubmitted, CallTypes, LandInv, Closing
  <2>2. UNCHANGED <<landed, passed>>
        /\ \A t \in Tickets : status'[t] = "closed" => status[t] = "closed" \/ t = on[c]
    BY <1>10 DEF CloseSubmitted, BoardTypes, git, verdicts
  <2>3. LandsByItsRule'
    BY <2>1, <2>2 DEF LandInv, LandsByItsRule
  <2>4. (Merging /\ Closing)'
    BY <1>10, <2>2, CallsKept DEF CloseSubmitted, Return, CallTypes
  <2> QED BY <2>3, <2>4 DEF LandInv
<1> QED BY <1>1, <1>2, <1>3, <1>4, <1>5, <1>6, <1>7, <1>8, <1>9, <1>10
  DEF Session, Requests, Submits

LEMMA LandStep ==
  ASSUME TypeInv, LandInv, [Next]_vars
  PROVE  LandInv'
<1> USE DEF TypeInv
<1>1. ASSUME NEW c \in Calls, Session(c)
      PROVE  LandInv'
  BY <1>1, SessionLands
<1>2. ASSUME NEW t \in Tickets, JudgeSubmission(t)
      PROVE  LandInv'
  BY <1>2, VerdictLands, CallsKept DEF JudgeSubmission, calls, LandInv
<1>3. ASSUME NEW s \in Internal, Agent(s)
      PROVE  LandInv'
  <2>1. runs[s] \in Tickets
    BY <1>3 DEF Agent, Complete, Decline, RunFails, VerifyOwn, AgentTypes
  <2>2. CASE Complete(s)
    <3>1. landed \subseteq landed' /\ UNCHANGED <<passed, calls>>
      BY <2>2 DEF Complete, Land, verdicts
    <3>2. /\ \A t \in Tickets : status'[t] = "closed" => status[t] = "closed" \/ t = runs[s]
          /\ IF runs[s] \in Judged THEN UNCHANGED landed
             ELSE Land(runs[s]) \/ UNCHANGED <<landed, status>>
      BY <2>1, <2>2 DEF Complete, Set, BoardTypes
    <3>3. LandsByItsRule'
      BY <2>1, <3>1, <3>2 DEF LandInv, LandsByItsRule, Land
    <3> QED BY <3>1, <3>3, CallsKept DEF calls, LandInv
  <2>3. CASE VerifyOwn(s)
    BY <2>1, <2>3, VerdictLands, CallsKept DEF VerifyOwn, calls, LandInv
  <2>4. CASE Decline(s) \/ RunFails(s)
    <3>1. UNCHANGED <<landed, passed, calls>>
          /\ \A t \in Tickets : status'[t] = "closed" => status[t] = "closed"
      BY <2>1, <2>4 DEF Decline, RunFails, Set, BoardTypes, git, verdicts, board
    <3> QED BY <3>1, SameLanded, CallsKept DEF calls, LandInv
  <2> QED BY <1>3, <2>2, <2>3, <2>4 DEF Agent
<1>4. CASE Loop
  <2>1. UNCHANGED <<landed, passed, calls>>
    BY <1>4 DEF Loop, Sweep, CutSwept, ReleaseSwept, StartVerifying, HousekeepingRaises,
       ReadBoard, ActOnPoll, git, verdicts
  <2>2. \A t \in Tickets : status'[t] = "closed" => status[t] = "closed"
    BY <1>4 DEF Loop, Sweep, CutSwept, ReleaseSwept, StartVerifying, HousekeepingRaises,
       ReadBoard, ActOnPoll, StartAgent, NotStarted, ForcedClaim, HandBack, Set, BoardTypes, board
  <2> QED BY <2>1, <2>2, SameLanded, CallsKept DEF calls, LandInv
<1>5. CASE UNCHANGED <<landed, passed, status, at, on>>
  BY <1>5, SameLanded, CallsKept DEF LandInv
<1>6. CASE ApiCrash
  BY <1>6, SameLanded, CallsKept DEF ApiCrash, git, verdicts, board, LandInv
<1> QED BY <1>1, <1>2, <1>3, <1>4, <1>5, <1>6
  DEF Next, Push, LeaseLapses, Verifies, ShowSubmission, MarkVerified, Triage, DispatcherCrash,
      vars, git, verdicts, board, calls

\* What is judged is merged after a verdict has approved it, and what is not judged
\* before it is closed, through any number of sessions, calls of one seat, releases of
\* submitted tickets, crashes and verdicts (external.py submit_ticket; worker.py).
THEOREM SeatsLandByRule == Spec => []LandsByItsRule
<1>1. Init => LandInv
  BY DEF Init, LandInv, LandsByItsRule, Merging, Closing
<1>2. TypeInv /\ LandInv /\ [Next]_vars => LandInv'
  BY LandStep
<1>3. LandInv => LandsByItsRule
  BY DEF LandInv
<1> QED BY <1>1, <1>2, <1>3, TypesHold, PTL DEF Spec
=============================================================================
