----------------------------- MODULE Escalations -----------------------------
(***************************************************************************)
(* Tickets parked for a person and the product-owner's session that may    *)
(* answer them first (escalations.py, product_owner.py).  A requeue goes   *)
(* through verifier.requeue_for_rework and so writes the counter of the    *)
(* verifier's own loop; the session acts on a list it read earlier, and    *)
(* each of its answers is a sequence of board updates.  Agents, the        *)
(* verifier, a person and the session act between each other's updates.    *)
(***************************************************************************)
EXTENDS Naturals

CONSTANTS
  Tickets,
  NoTicket,
  MaxReworks,      \* MAX_VERIFIER_REWORKS
  MaxEscalations,  \* MAX_ESCALATION_ATTEMPTS
  MaxFaults        \* bound: sessions that die, and updates of theirs that raise

ASSUME EscalationsAssumption ==
  /\ NoTicket \notin Tickets
  /\ MaxReworks \in Nat /\ MaxEscalations \in Nat /\ MaxFaults \in Nat

VARIABLES
  status,     \* ticket -> "open" or "closed"
  human,      \* tickets with the human label
  owner,      \* tickets with OWNER_KEY
  decided,    \* tickets with a human_decision
  resolved,   \* tickets with RESOLVED_KEY
  verdict,    \* ticket -> the last verdict recorded, "none" at first
  stands,     \* tickets whose verdict is on the work they carry
  rework,     \* ticket -> rework_count
  attempts,   \* ticket -> escalation_attempts
  worked,     \* tickets an agent is working on
  judging,    \* ticket -> the rework_count its judge has read, or none
  answering,  \* ticket -> the next step of a person's call about it, or "no"
  step,       \* the session's step
  on, nth,    \* the ticket it is acting on, and the attempt it read
  listed,     \* what list_escalations told it and it has not acted on
  reworks,    \* ticket -> requeues by the verifier so far
  requeues,   \* ticket -> requeues by the session so far
  faults      \* what has been used of MaxFaults

board   == <<status, human, owner, decided, resolved>>
judged  == <<verdict, stands, judging>>
session == <<step, on, nth, listed>>
counts  == <<rework, attempts, reworks, requeues>>
vars == <<board, judged, counts, worked, answering, session, faults>>

Init ==
  /\ status = [t \in Tickets |-> "open"]
  /\ human = {} /\ owner = {} /\ decided = {} /\ resolved = {}
  /\ verdict = [t \in Tickets |-> "none"] /\ stands = {}
  /\ rework = [t \in Tickets |-> 0] /\ attempts = [t \in Tickets |-> 0]
  /\ judging = [t \in Tickets |-> {}]
  /\ worked = {} /\ answering = [t \in Tickets |-> "no"]
  /\ step = "idle" /\ on = NoTicket /\ nth = 0 /\ listed = {}
  /\ reworks = [t \in Tickets |-> 0] /\ requeues = [t \in Tickets |-> 0]
  /\ faults = 0

----------------------------------------------------------------------------
(* Agents and the verifier.                                                *)

Start(t) ==
  /\ status[t] = "open" /\ t \notin human \cup worked
  /\ worked' = worked \cup {t}
  /\ UNCHANGED <<board, judged, counts, answering, session, faults>>

\* The agent delivers new work, or what it had ...
Complete(t) ==
  /\ t \in worked
  /\ worked' = worked \ {t}
  /\ status' = [status EXCEPT ![t] = "closed"]
  /\ stands' \in {stands, stands \ {t}}
  /\ UNCHANGED <<human, owner, decided, resolved, verdict, judging, counts, answering, session, faults>>

\* ... or refuses, or keeps failing: flag_for_human, and the ticket stays open.
Park(t) ==
  /\ t \in worked
  /\ worked' = worked \ {t}
  /\ human' = human \cup {t}
  /\ UNCHANGED <<status, owner, decided, resolved, judged, counts, answering, session, faults>>

\* awaiting_verdict, of the scheduler's verifier too.
Awaiting(t) == status[t] = "closed" /\ t \notin decided \cup stands

\* verify_ticket reads the ticket and asks a model, for minutes.
Judge(t) ==
  /\ Awaiting(t) /\ judging[t] = {}
  /\ judging' = [judging EXCEPT ![t] = {rework[t]}]
  /\ UNCHANGED <<board, verdict, stands, counts, worked, answering, session, faults>>

\* The verdict is on the work that was read, which may be the ticket's no more.
Recorded(t, v) ==
  /\ judging' = [judging EXCEPT ![t] = {}]
  /\ verdict' = [verdict EXCEPT ![t] = v]

\* requeue_for_rework within the budget, n being the count that was read, or
\* else flag_for_human.  An update of the claim, the decision or the label that
\* fails is passed over; when another one raises the rest is left, and the ticket
\* parked after a conflict.
Rework(t, n) ==
  IF n + 1 <= MaxReworks
    THEN \/ /\ rework' = [rework EXCEPT ![t] = n + 1]
            /\ reworks' = [reworks EXCEPT ![t] = @ + 1]
            /\ status' = [status EXCEPT ![t] = "open"]
            /\ decided' \in {decided, decided \ {t}} /\ human' \in {human, human \ {t}}
            /\ stands' \in {stands \ {t}, stands \cup {t}}
         \/ /\ rework' \in {rework, [rework EXCEPT ![t] = n + 1]}
            /\ decided' \in {decided, decided \ {t}}
            /\ human' \in {human, human \ {t}, human \cup {t}}
            /\ stands' \in {stands \ {t}, stands \cup {t}}
            /\ UNCHANGED <<reworks, status>>
    ELSE /\ human' \in {human, human \cup {t}}
         /\ stands' \in {stands, stands \cup {t}}
         /\ UNCHANGED <<rework, reworks, status, decided>>

\* A fail acts on the count it was shown; a pass whose merge conflicts reads it
\* again (land).
Fail(t) ==
  /\ \/ Recorded(t, "fail") /\ \E n \in judging[t] : Rework(t, n)
     \/ judging[t] # {} /\ Recorded(t, "pass") /\ Rework(t, rework[t])
  /\ UNCHANGED <<owner, resolved, attempts, requeues, worked, answering, session, faults>>

\* A pass lands the work, or parks the ticket when the merge fails otherwise.
Pass(t) ==
  /\ judging[t] # {} /\ Recorded(t, "pass")
  /\ stands' \in {stands, stands \cup {t}}
  /\ human' \in {human, human \cup {t}}
  /\ UNCHANGED <<status, owner, decided, resolved, counts, worked, answering, session,
                 faults>>

\* The judge dies, or raises before it records anything.
Unjudged(t) ==
  /\ judging[t] # {}
  /\ judging' = [judging EXCEPT ![t] = {}]
  /\ UNCHANGED <<board, verdict, stands, counts, worked, answering, session, faults>>

Judges(t) == Judge(t) \/ Fail(t) \/ Pass(t) \/ Unjudged(t)

Works(t) == Start(t) \/ Complete(t) \/ Park(t) \/ Judges(t)

----------------------------------------------------------------------------
(* The steps of an answer, beads.respond_to_human, a person's or not.      *)

DropLabel(t) == human' = human \ {t}

Decide(t) == decided' = decided \cup {t}

CloseAnswered(t) == status' = [status EXCEPT ![t] = "closed"]

PersonAnswers(t) ==
  /\ t \in human /\ answering[t] = "no"
  /\ DropLabel(t)
  /\ answering' = [answering EXCEPT ![t] = "decide"]
  /\ UNCHANGED <<status, owner, decided, resolved, judged, counts, worked, session, faults>>

PersonDecides(t) ==
  /\ answering[t] = "decide"
  /\ Decide(t)
  /\ answering' = [answering EXCEPT ![t] = "close"]
  /\ UNCHANGED <<status, human, owner, resolved, judged, counts, worked, session, faults>>

PersonCloses(t) ==
  /\ answering[t] = "close"
  /\ CloseAnswered(t)
  /\ answering' = [answering EXCEPT ![t] = "no"]
  /\ UNCHANGED <<human, owner, decided, resolved, judged, counts, worked, session, faults>>

\* flag_for_owner labels the ticket before it marks whose it is.
FlagForOwner(t) ==
  /\ status[t] = "open" /\ t \notin owner /\ answering[t] = "no"
  /\ human' = human \cup {t}
  /\ answering' = [answering EXCEPT ![t] = "owner"]
  /\ UNCHANGED <<status, owner, decided, resolved, judged, counts, worked, session, faults>>

MarkOwner(t) ==
  /\ answering[t] = "owner"
  /\ owner' = owner \cup {t}
  /\ answering' = [answering EXCEPT ![t] = "no"]
  /\ UNCHANGED <<status, human, decided, resolved, judged, counts, worked, session, faults>>

Person(t) ==
  \/ PersonAnswers(t) \/ PersonDecides(t) \/ PersonCloses(t)
  \/ FlagForOwner(t) \/ MarkOwner(t)

----------------------------------------------------------------------------
(* The product-owner's session.                                            *)

\* Mutant: a ticket that is parked again is asked about again.
PendingParked ==
  {t \in human \ owner :
     /\ attempts[t] < MaxEscalations
     /\ status[t] = "closed" => verdict[t] = "fail"}

\* Mutant: the budget is not looked at.
PendingUnbudgeted ==
  {t \in human \ (resolved \cup owner) : status[t] = "closed" => verdict[t] = "fail"}

Pending ==
  {t \in human \ (resolved \cup owner) :
     /\ attempts[t] < MaxEscalations
     /\ status[t] = "closed" => verdict[t] = "fail"}

List ==
  /\ step = "idle" /\ Pending # {}
  /\ listed' = Pending
  /\ step' = "act"
  /\ UNCHANGED <<board, judged, counts, worked, answering, on, nth, faults>>

\* One action on each listed ticket, as the brief has it; whether the ticket
\* is still parked is not asked again.
Act(t, s) ==
  /\ step = "act" /\ t \in listed
  /\ listed' = listed \ {t}
  /\ step' = s /\ on' = t
  /\ UNCHANGED <<board, judged, counts, worked, answering, faults>>

Requeue(t) == Act(t, "wind") /\ nth' = attempts[t] + 1
Resolve(t) == Act(t, "drop") /\ UNCHANGED nth

\* A ticket is left as it is, and after the last one the session ends.
Leave(t) ==
  /\ step = "act" /\ t \in listed
  /\ listed' = listed \ {t}
  /\ UNCHANGED <<board, judged, counts, worked, answering, step, on, nth, faults>>

EndSession ==
  /\ step = "act" /\ listed = {}
  /\ step' = "idle" /\ on' = NoTicket /\ nth' = 0
  /\ UNCHANGED <<board, judged, counts, worked, answering, listed, faults>>

\* Mutant: an escalation gives the verifier its whole budget back.
WindAfresh ==
  /\ step = "wind"
  /\ rework' = [rework EXCEPT ![on] = 0]
  /\ requeues' = [requeues EXCEPT ![on] = @ + 1]
  /\ decided' \in {decided, decided \ {on}} /\ stands' \in {stands, stands \ {on}}
  /\ step' = "unlabel"
  /\ UNCHANGED <<status, human, owner, resolved, verdict, judging, attempts, reworks, worked,
                 answering, on, nth, listed, faults>>

\* requeue: requeue_for_rework writes the count and clears claim and decision, as far
\* as those updates succeed ...
Wind ==
  /\ step = "wind"
  /\ rework' = [rework EXCEPT ![on] = nth]
  /\ requeues' = [requeues EXCEPT ![on] = @ + 1]
  /\ decided' \in {decided, decided \ {on}} /\ stands' \in {stands, stands \ {on}}
  /\ step' = "unlabel"
  /\ UNCHANGED <<status, human, owner, resolved, verdict, judging, attempts, reworks, worked,
                 answering, on, nth, listed, faults>>

\* ... drops the label, or not ...
Unlabel ==
  /\ step = "unlabel"
  /\ DropLabel(on) \/ UNCHANGED human
  /\ step' = "reopen"
  /\ UNCHANGED <<status, owner, decided, resolved, judged, counts, worked, answering, on, nth,
                 listed, faults>>

\* ... and reopens;
Reopen ==
  /\ step = "reopen"
  /\ status' = [status EXCEPT ![on] = "open"]
  /\ step' = "count"
  /\ UNCHANGED <<human, owner, decided, resolved, judged, counts, worked, answering, on, nth,
                 listed, faults>>

\* only then is the escalation counted, and the answer it had forgotten, if that
\* succeeds.
Count ==
  /\ step = "count"
  /\ attempts' = [attempts EXCEPT ![on] = nth]
  /\ step' = "clear"
  /\ UNCHANGED <<board, judged, rework, reworks, requeues, worked, answering, on, nth, listed,
                 faults>>

Clear ==
  /\ step = "clear"
  /\ resolved' \in {resolved, resolved \ {on}} /\ decided' \in {decided, decided \ {on}}
  /\ step' = "act" /\ on' = NoTicket
  /\ UNCHANGED <<status, human, owner, judged, counts, worked, answering, nth, listed, faults>>

\* resolve: respond_to_human, and the mark that keeps it out of the queue.
DropParked ==
  /\ step = "drop"
  /\ DropLabel(on)
  /\ step' = "decide"
  /\ UNCHANGED <<status, owner, decided, resolved, judged, counts, worked, answering, on, nth,
                 listed, faults>>

RecordDecision ==
  /\ step = "decide"
  /\ Decide(on)
  /\ step' = "close"
  /\ UNCHANGED <<status, human, owner, resolved, judged, counts, worked, answering, on, nth,
                 listed, faults>>

CloseParked ==
  /\ step = "close"
  /\ CloseAnswered(on)
  /\ step' = "mark"
  /\ UNCHANGED <<human, owner, decided, resolved, judged, counts, worked, answering, on, nth,
                 listed, faults>>

MarkResolved ==
  /\ step = "mark"
  /\ resolved' = resolved \cup {on}
  /\ step' = "act" /\ on' = NoTicket
  /\ UNCHANGED <<status, human, owner, decided, judged, counts, worked, answering, nth, listed,
                 faults>>

Crash ==
  /\ step # "idle" /\ faults < MaxFaults
  /\ faults' = faults + 1
  /\ step' = "idle" /\ on' = NoTicket /\ nth' = 0 /\ listed' = {}
  /\ UNCHANGED <<board, judged, counts, worked, answering>>

\* An update raises: the session is told, and goes on or tries the ticket again.
Raises ==
  /\ step \notin {"idle", "act", "clear"} /\ faults < MaxFaults
  /\ faults' = faults + 1
  /\ step' = "act" /\ on' = NoTicket
  /\ listed' \in {listed, listed \cup {on}}
  /\ UNCHANGED <<board, judged, counts, worked, answering, nth>>

Requeues == Wind \/ Unlabel \/ Reopen \/ Count \/ Clear
Resolves == DropParked \/ RecordDecision \/ CloseParked \/ MarkResolved

Next ==
  \/ \E t \in Tickets : Works(t) \/ Person(t)
  \/ List \/ EndSession
  \/ \E t \in Tickets : Requeue(t) \/ Resolve(t) \/ Leave(t)
  \/ Requeues \/ Resolves
  \/ Raises \/ Crash

Spec == Init /\ [][Next]_vars

----------------------------------------------------------------------------
(* Properties.                                                             *)

Steps == {"idle", "act", "wind", "unlabel", "reopen", "count", "clear", "drop", "decide",
          "close", "mark"}

\* The types of the variables; no counter passes its limit.
TypeOK ==
  /\ status \in [Tickets -> {"open", "closed"}]
  /\ human \subseteq Tickets /\ owner \subseteq Tickets
  /\ decided \subseteq Tickets /\ resolved \subseteq Tickets
  /\ verdict \in [Tickets -> {"none", "pass", "fail"}] /\ stands \subseteq Tickets
  /\ judging \in [Tickets -> SUBSET (0..MaxReworks + MaxEscalations)]
  /\ rework \in [Tickets -> 0..MaxReworks + MaxEscalations]
  /\ attempts \in [Tickets -> 0..MaxEscalations]
  /\ worked \subseteq Tickets
  /\ answering \in [Tickets -> {"no", "decide", "close", "owner"}]
  /\ step \in Steps /\ on \in Tickets \cup {NoTicket} /\ nth \in 0..MaxEscalations
  /\ listed \subseteq Tickets
  /\ reworks \in [Tickets -> Nat] /\ requeues \in [Tickets -> Nat]
  /\ faults \in 0..MaxFaults

\* The rounds one escalation may cost: its own, and those the verifier gets back.
Rounds == IF MaxReworks = 0 THEN 1 ELSE MaxReworks

\* Between them, the verifier and the product-owner send a ticket back only so
\* often, though every escalation overwrites the verifier's count with its own
\* and may wind it back; a session that dies before it has counted its requeue
\* costs one more escalation (escalations.py requeue; verifier.py
\* verify_ticket).
EffortBounded ==
  \A t \in Tickets :
    reworks[t] + requeues[t] <= MaxReworks + (MaxEscalations + faults) * Rounds

\* "The answer is final: the ticket leaves the escalation queue, so a later session
\* does not reconsider it and undo the decision" (product_owner.py:396-398): what
\* the session has resolved is never requeued by one, though an agent that took
\* the ticket up between the updates of the answer may park it again, and nothing
\* but a judgement begun without the decision takes it back.
AnswersAreFinal ==
  [][\A t \in resolved :
       /\ t \in resolved' /\ requeues'[t] = requeues[t]
       /\ t \in decided \ decided' => judging[t] # {}]_vars
=============================================================================
