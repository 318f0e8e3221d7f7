-------------------------- MODULE EscalationsProofs --------------------------
(***************************************************************************)
(* For every number of tickets, every limit and any number of sessions     *)
(* that die: the types, that the verifier and the product-owner end their  *)
(* rounds, and that what the session has answered is final.                *)
(***************************************************************************)
EXTENDS Escalations, TLAPS

USE EscalationsAssumption

\* What the session is at: one of its steps is about a ticket it has listed and
\* dropped from the list; what it listed is within the budget, and stays so,
\* for no one else counts escalations.
Focus ==
  /\ step \in {"idle", "act"} => on = NoTicket
  /\ step \notin {"idle", "act"} => on \in Tickets \ listed
  /\ \A t \in listed : attempts[t] < MaxEscalations
  /\ step \in {"wind", "unlabel", "reopen", "count"} => nth = attempts[on] + 1
  /\ step \notin {"idle", "act", "clear"} => attempts[on] < MaxEscalations

TypeInv == TypeOK /\ Focus

LEMMA TypeStep ==
  ASSUME TypeInv, [Next]_vars
  PROVE  TypeInv'
<1> USE DEF TypeInv, TypeOK, Focus, Steps, board, judged, session, counts
<1>1. ASSUME NEW t \in Tickets, Start(t)
     PROVE  TypeInv'
  BY <1>1 DEF Start
<1>2. ASSUME NEW t \in Tickets, Complete(t)
     PROVE  TypeInv'
  BY <1>2 DEF Complete
<1>3. ASSUME NEW t \in Tickets, Park(t)
     PROVE  TypeInv'
  BY <1>3 DEF Park
<1>4. ASSUME NEW t \in Tickets, Fail(t)
     PROVE  TypeInv'
  <2>1. ASSUME NEW n \in 0..MaxReworks + MaxEscalations, Rework(t, n), \E v \in {"fail", "pass"} :
                 Recorded(t, v), UNCHANGED <<owner, resolved, attempts, requeues, worked,
                                             answering, session, faults>>
        PROVE  TypeInv'
    BY <2>1 DEF Recorded, Rework
  <2> QED BY <1>4, <2>1 DEF Fail
<1>5. ASSUME NEW t \in Tickets, Pass(t)
     PROVE  TypeInv'
  BY <1>5 DEF Pass, Recorded
<1>6. ASSUME NEW t \in Tickets, PersonAnswers(t)
     PROVE  TypeInv'
  BY <1>6 DEF PersonAnswers, DropLabel
<1>7. ASSUME NEW t \in Tickets, PersonDecides(t)
     PROVE  TypeInv'
  BY <1>7 DEF PersonDecides, Decide
<1>8. ASSUME NEW t \in Tickets, PersonCloses(t)
     PROVE  TypeInv'
  BY <1>8 DEF PersonCloses, CloseAnswered
<1>9. ASSUME NEW t \in Tickets, FlagForOwner(t)
     PROVE  TypeInv'
  BY <1>9 DEF FlagForOwner
<1>10. ASSUME NEW t \in Tickets, MarkOwner(t)
     PROVE  TypeInv'
  BY <1>10 DEF MarkOwner
<1>11. ASSUME NEW t \in Tickets, Requeue(t)
     PROVE  TypeInv'
  BY <1>11 DEF Requeue, Act
<1>12. ASSUME NEW t \in Tickets, Resolve(t)
     PROVE  TypeInv'
  BY <1>12 DEF Resolve, Act
<1>13. ASSUME NEW t \in Tickets, Leave(t)
     PROVE  TypeInv'
  BY <1>13 DEF Leave
<1>14. CASE List
  BY <1>14 DEF List, Pending
<1>15. CASE EndSession
  BY <1>15 DEF EndSession
<1>16. CASE Wind
  BY <1>16 DEF Wind
<1>17. CASE Unlabel
  BY <1>17 DEF Unlabel, DropLabel
<1>18. CASE Reopen
  BY <1>18 DEF Reopen
<1>19. CASE Count
  BY <1>19 DEF Count
<1>20. CASE Clear
  BY <1>20 DEF Clear
<1>21. CASE DropParked
  BY <1>21 DEF DropParked, DropLabel
<1>22. CASE RecordDecision
  BY <1>22 DEF RecordDecision, Decide
<1>23. CASE CloseParked
  BY <1>23 DEF CloseParked, CloseAnswered
<1>24. CASE MarkResolved
  BY <1>24 DEF MarkResolved
<1>25. CASE Crash
  BY <1>25 DEF Crash
<1>26. CASE Raises
  BY <1>26 DEF Raises
<1>27. CASE UNCHANGED vars
  BY <1>27 DEF vars
<1>28. ASSUME NEW t \in Tickets, Judge(t)
     PROVE  TypeInv'
  BY <1>28 DEF Judge, Awaiting
<1>29. ASSUME NEW t \in Tickets, Unjudged(t)
     PROVE  TypeInv'
  BY <1>29 DEF Unjudged
<1> QED
  BY <1>1, <1>2, <1>3, <1>4, <1>5, <1>6, <1>7, <1>8, <1>9, <1>10, <1>11, <1>12, <1>13,
     <1>14, <1>15, <1>16, <1>17, <1>18, <1>19, <1>20, <1>21, <1>22, <1>23, <1>24, <1>25,
     <1>26, <1>27, <1>28, <1>29
  DEF Next, Works, Judges, Person, Requeues, Resolves

\* Every variable keeps its type.
THEOREM EscalationsTypeCorrect == Spec => []TypeOK
<1>1. Init => TypeInv
  BY DEF Init, TypeInv, TypeOK, Focus, Steps
<1>2. TypeInv /\ [Next]_vars => TypeInv'
  BY TypeStep
<1>3. TypeInv => TypeOK
  BY DEF TypeInv
<1> QED BY <1>1, <1>2, <1>3, PTL DEF Spec

\* Why the rounds end: what the verifier may still send back on a count it has, the
\* ticket's or the one a judge has read, and the escalations made, the one that is not
\* counted yet included, pay for every round.
Left(n)   == IF n < MaxReworks THEN MaxReworks - n ELSE 0
Counts(t) == judging[t] \cup {rework[t]}
Due(t, n) == reworks[t] + requeues[t] + Left(n)

Made(t) ==
  attempts[t] + (IF on = t /\ step \in {"unlabel", "reopen", "count"} THEN 1 ELSE 0)

Coins(t) == Made(t) + faults

Paid ==
  \A t \in Tickets : \A n \in Counts(t) : Due(t, n) <= MaxReworks + Coins(t) * Rounds

EffortInv == TypeInv /\ Paid

\* A step adds nothing to what is due on a count, or one coin and what it buys.
Fair ==
  \A t \in Tickets : \A m \in Counts(t)' : \E n \in Counts(t) :
    \/ Coins(t)' = Coins(t) /\ Due(t, m)' <= Due(t, n)
    \/ Coins(t)' = Coins(t) + 1 /\ Due(t, m)' <= Due(t, n) + Rounds

LEMMA CountsAreNumbers ==
  ASSUME TypeOK, NEW t \in Tickets
  PROVE  \A n \in Counts(t) : n \in Nat /\ Due(t, n) \in Nat /\ Left(n) \in Nat
BY DEF TypeOK, Counts, Due, Left

LEMMA CoinsAreNumbers ==
  ASSUME TypeOK, NEW t \in Tickets
  PROVE  /\ Coins(t) \in Nat
         /\ Rounds \in Nat /\ Rounds >= 1 /\ Rounds >= MaxReworks
<1>1. Made(t) \in Nat
  BY DEF TypeOK, Made
<1> QED BY <1>1 DEF TypeOK, Coins, Rounds

LEMMA OneMore ==
  ASSUME NEW a \in Nat, NEW m \in Nat
  PROVE  a * m \in Nat /\ (a + 1) * m = a * m + m
OBVIOUS

\* A step that counts nothing, but for an escalation or a fault.
LEMMA NothingSpent ==
  ASSUME TypeInv, UNCHANGED <<reworks, requeues>>,
         \A t \in Tickets : /\ Counts(t)' \subseteq Counts(t)
                            /\ Coins(t)' = Coins(t) \/ Coins(t)' = Coins(t) + 1
  PROVE  Fair
<1> SUFFICES ASSUME NEW t \in Tickets, NEW m \in Counts(t)'
             PROVE  \/ Coins(t)' = Coins(t) /\ Due(t, m)' <= Due(t, m)
                    \/ Coins(t)' = Coins(t) + 1 /\ Due(t, m)' <= Due(t, m) + Rounds
  BY DEF Fair
<1>1. Due(t, m)' = Due(t, m) /\ Due(t, m) \in Nat /\ Rounds \in Nat
  BY CountsAreNumbers, CoinsAreNumbers DEF TypeInv, Due
<1> QED BY <1>1

\* A verdict's rework on a count it has costs a round of what that count leaves.
LEMMA ReworkPaid ==
  ASSUME TypeInv, NEW t \in Tickets, NEW n \in Counts(t), Rework(t, n),
         judging' = [judging EXCEPT ![t] = {}],
         UNCHANGED <<attempts, requeues, session, faults>>
  PROVE  Fair
<1> USE DEF TypeInv, TypeOK, session
<1>1. \A u \in Tickets : Coins(u)' = Coins(u)
  BY DEF Coins, Made
<1>2. ASSUME NEW u \in Tickets, u # t, NEW m \in Counts(u)'
      PROVE  m \in Counts(u) /\ Due(u, m)' = Due(u, m)
  BY <1>2 DEF Rework, Counts, Due
<1>3. n \in Nat /\ rework[t] \in Nat /\ reworks[t] \in Nat /\ requeues[t] \in Nat
  BY CountsAreNumbers
<1>4. ASSUME NEW m \in Counts(t)'
      PROVE  \E k \in Counts(t) : Due(t, m)' <= Due(t, k)
  <2>1. m = rework'[t]
    BY <1>4 DEF Counts
  <2>2. CASE /\ n + 1 <= MaxReworks /\ rework' = [rework EXCEPT ![t] = n + 1]
             /\ reworks' = [reworks EXCEPT ![t] = @ + 1]
    <3>1. Due(t, n + 1)' <= Due(t, n)
      BY <1>3, <2>2 DEF Due, Left
    <3> QED BY <2>1, <2>2, <3>1
  <2>3. CASE n + 1 <= MaxReworks /\ rework' = [rework EXCEPT ![t] = n + 1] /\ UNCHANGED reworks
    <3>1. Due(t, n + 1)' <= Due(t, n)
      BY <1>3, <2>3 DEF Due, Left
    <3> QED BY <2>1, <2>3, <3>1
  <2>4. CASE UNCHANGED <<rework, reworks>>
    <3>1. rework[t] \in Counts(t) /\ Due(t, rework[t])' <= Due(t, rework[t])
      BY <1>3, <2>4 DEF Due, Left, Counts
    <3> QED BY <2>1, <2>4, <3>1
  <2> QED BY <2>2, <2>3, <2>4 DEF Rework
<1>5. ASSUME NEW u \in Tickets, NEW m \in Counts(u)'
      PROVE  \E k \in Counts(u) : Due(u, m)' <= Due(u, k)
  <2>1. CASE u = t
    BY <1>4, <1>5, <2>1
  <2>2. CASE u # t
    <3>1. m \in Counts(u) /\ Due(u, m)' = Due(u, m) /\ Due(u, m) \in Nat
      BY <1>2, <1>5, <2>2, CountsAreNumbers
    <3> QED BY <3>1
  <2> QED BY <2>1, <2>2
<1> QED BY <1>1, <1>5 DEF Fair

\* An escalation's own count is a new one; the coin pays for it and for the round.
LEMMA WindPaid ==
  ASSUME TypeInv, Wind, NEW t \in Tickets, t = on
  PROVE  Fair
<1> USE DEF TypeInv, TypeOK, Focus
<1>1. nth \in Nat /\ nth >= 1
  BY DEF Wind
<1>2. ASSUME NEW u \in Tickets, u # t, NEW m \in Counts(u)'
      PROVE  m \in Counts(u) /\ Due(u, m)' = Due(u, m) /\ Coins(u)' = Coins(u)
  BY <1>2 DEF Wind, Counts, Due, Coins, Made
<1>3. Coins(t)' = Coins(t) + 1
  BY <1>1 DEF Wind, Coins, Made
<1>4. ASSUME NEW m \in Counts(t)'
      PROVE  \E k \in Counts(t) : Due(t, m)' <= Due(t, k) + Rounds
  <2>1. m \in judging[t] \/ m = nth
    BY <1>1, <1>4 DEF Wind, Counts
  <2>2. /\ reworks'[t] = reworks[t] /\ requeues'[t] = requeues[t] + 1
        /\ reworks[t] \in Nat /\ requeues[t] \in Nat
        /\ Rounds \in Nat /\ Rounds >= 1 /\ Rounds >= MaxReworks
    BY <1>1, CoinsAreNumbers DEF Wind
  <2>3. CASE m \in judging[t]
    <3>1. m \in Counts(t) /\ Left(m) \in Nat
      BY <1>1, <2>3, CountsAreNumbers DEF Counts
    <3>2. Due(t, m)' <= Due(t, m) + Rounds
      BY <2>2, <3>1 DEF Due
    <3> QED BY <3>1, <3>2
  <2>4. CASE m = nth
    <3>1. rework[t] \in Counts(t) /\ Left(rework[t]) \in Nat
      BY <1>1, CountsAreNumbers DEF Counts
    <3>2. Left(nth) + 1 <= Rounds
      BY <1>1 DEF Left, Rounds
    <3>3. Left(nth) \in Nat
      BY <1>1 DEF Left
    <3>4. Due(t, m)' <= Due(t, rework[t]) + Rounds
      BY <2>2, <2>4, <3>1, <3>2, <3>3 DEF Due
    <3> QED BY <3>1, <3>4
  <2> QED BY <2>1, <2>3, <2>4
<1>5. ASSUME NEW u \in Tickets, u # t, NEW m \in Counts(u)'
      PROVE  \E k \in Counts(u) : Coins(u)' = Coins(u) /\ Due(u, m)' <= Due(u, k)
  <2>1. m \in Counts(u) /\ Due(u, m)' = Due(u, m) /\ Coins(u)' = Coins(u)
    BY <1>2, <1>5
  <2>2. Due(u, m) \in Nat
    BY <2>1, CountsAreNumbers
  <2> QED BY <2>1, <2>2
<1>6. ASSUME NEW u \in Tickets, NEW m \in Counts(u)'
      PROVE  \E k \in Counts(u) :
               \/ Coins(u)' = Coins(u) /\ Due(u, m)' <= Due(u, k)
               \/ Coins(u)' = Coins(u) + 1 /\ Due(u, m)' <= Due(u, k) + Rounds
  <2>1. CASE u = t
    BY <1>3, <1>4, <1>6, <2>1
  <2>2. CASE u # t
    BY <1>5, <1>6, <2>2
  <2> QED BY <2>1, <2>2
<1> QED BY <1>6 DEF Fair

LEMMA StepIsFair ==
  ASSUME TypeInv, [Next]_vars
  PROVE  Fair
<1> USE DEF board, judged, session, counts
<1>1. ASSUME NEW t \in Tickets, Fail(t)
      PROVE  Fair
  <2>1. \E n \in Counts(t) : Rework(t, n)
    BY <1>1 DEF Fail, Counts
  <2>2. judging' = [judging EXCEPT ![t] = {}] /\ UNCHANGED <<attempts, requeues, session, faults>>
    BY <1>1 DEF Fail, Recorded
  <2> QED BY <2>1, <2>2, ReworkPaid
<1>2. CASE Wind
  BY <1>2, WindPaid DEF Wind, TypeInv, Focus
<1>3. CASE \E t \in Tickets : Judges(t) /\ ~Fail(t)
  <2>1. UNCHANGED <<reworks, requeues, rework, attempts, session, faults>>
    BY <1>3 DEF Judges, Judge, Pass, Unjudged
  <2>2. \A u \in Tickets : Counts(u)' \subseteq Counts(u)
    BY <1>3, <2>1 DEF Judges, Judge, Pass, Unjudged, Recorded, Counts, TypeInv, TypeOK
  <2> QED BY <2>1, <2>2, NothingSpent DEF Coins, Made
<1>4. CASE UNCHANGED <<rework, reworks, requeues, judging>>
           /\ UNCHANGED <<attempts, on, step, faults>>
  BY <1>4, NothingSpent DEF Counts, Coins, Made
<1>5. CASE UNCHANGED <<rework, reworks, requeues, judging, faults>>
           /\ (List \/ EndSession \/ Unlabel \/ Reopen \/ Count \/ Clear \/ Resolves
               \/ \E t \in Tickets : Requeue(t) \/ Resolve(t))
  <2>1. \A u \in Tickets : Coins(u)' = Coins(u) \/ Coins(u)' = Coins(u) + 1
    BY <1>5 DEF List, EndSession, Unlabel, Reopen, Count, Clear, Resolves, DropParked,
       RecordDecision, CloseParked, MarkResolved, Requeue, Resolve, Act, Coins, Made,
       TypeInv, TypeOK, Focus
  <2> QED BY <1>5, <2>1, NothingSpent DEF Counts
<1>6. CASE Raises \/ Crash
  <2>1. \A u \in Tickets : Coins(u)' = Coins(u) \/ Coins(u)' = Coins(u) + 1
    BY <1>6 DEF Raises, Crash, Coins, Made, TypeInv, TypeOK, Focus
  <2>2. UNCHANGED <<rework, reworks, requeues, judging>>
    BY <1>6 DEF Raises, Crash
  <2> QED BY <2>1, <2>2, NothingSpent DEF Counts
<1>7. CASE List \/ EndSession \/ Unlabel \/ Reopen \/ Count \/ Clear \/ Resolves
           \/ \E t \in Tickets : Requeue(t) \/ Resolve(t)
  <2>1. UNCHANGED <<rework, reworks, requeues, judging, faults>>
    BY <1>7 DEF List, EndSession, Unlabel, Reopen, Count, Clear, Resolves, DropParked,
       RecordDecision, CloseParked, MarkResolved, Requeue, Resolve, Act
  <2> QED BY <1>5, <1>7, <2>1
<1>8. CASE \/ \E t \in Tickets : Start(t) \/ Complete(t) \/ Park(t) \/ Person(t) \/ Leave(t)
           \/ UNCHANGED vars
  <2>1. UNCHANGED <<rework, reworks, requeues, judging, attempts, on, step, faults>>
    BY <1>8 DEF Start, Complete, Park, Person, PersonAnswers, PersonDecides, PersonCloses,
       FlagForOwner, MarkOwner, Leave, vars
  <2> QED BY <1>4, <2>1
<1> QED BY <1>1, <1>2, <1>3, <1>6, <1>7, <1>8 DEF Next, Works, Requeues

LEMMA Distribute ==
  ASSUME NEW a \in Nat, NEW b \in Nat, b - a \in Nat, NEW m \in Nat
  PROVE  b * m = a * m + (b - a) * m
OBVIOUS

LEMMA EffortStep ==
  ASSUME EffortInv, [Next]_vars
  PROVE  EffortInv'
<1>1. TypeInv'
  BY TypeStep DEF EffortInv
<1>2. ASSUME NEW t \in Tickets, NEW m \in Counts(t)'
      PROVE  Due(t, m)' <= MaxReworks + Coins(t)' * Rounds
  <2>0. PICK n \in Counts(t) :
          \/ Coins(t)' = Coins(t) /\ Due(t, m)' <= Due(t, n)
          \/ Coins(t)' = Coins(t) + 1 /\ Due(t, m)' <= Due(t, n) + Rounds
    BY <1>2, StepIsFair DEF EffortInv, Fair
  <2>1. /\ Coins(t) \in Nat /\ Due(t, n) \in Nat /\ Rounds \in Nat
        /\ Due(t, n) <= MaxReworks + Coins(t) * Rounds
    BY CoinsAreNumbers, CountsAreNumbers DEF EffortInv, TypeInv, Paid
  <2>2. Due(t, m)' \in Nat
    BY <1>1, <1>2 DEF TypeInv, TypeOK, Counts, Due, Left
  <2>3. /\ Coins(t) * Rounds \in Nat
        /\ (Coins(t) + 1) * Rounds = Coins(t) * Rounds + Rounds
    BY <2>1, OneMore
  <2>4. CASE Coins(t)' = Coins(t) /\ Due(t, m)' <= Due(t, n)
    BY <2>1, <2>2, <2>3, <2>4
  <2>5. CASE Coins(t)' = Coins(t) + 1 /\ Due(t, m)' <= Due(t, n) + Rounds
    <3>1. Coins(t)' * Rounds = Coins(t) * Rounds + Rounds
      BY <2>3, <2>5
    <3> QED BY <2>1, <2>2, <2>3, <2>5, <3>1
  <2> QED BY <2>0, <2>4, <2>5
<1>3. Paid'
  BY <1>2 DEF Paid, Rounds
<1> QED BY <1>1, <1>3 DEF EffortInv

\* The verifier and the product-owner between them send a ticket back only so
\* often, whatever the limits and however many sessions die.
THEOREM RoundsEnd == Spec => []EffortBounded
<1>1. Init => EffortInv
  <2>1. ASSUME Init, NEW t \in Tickets, NEW n \in Counts(t)
        PROVE  Due(t, n) <= MaxReworks + Coins(t) * Rounds
    <3>1. Due(t, n) = MaxReworks /\ Coins(t) = 0
      BY <2>1 DEF Init, Due, Counts, Coins, Made, Left
    <3>2. Rounds \in Nat
      BY DEF Rounds
    <3> QED BY <3>1, <3>2, SMT
  <2> QED BY <2>1 DEF Init, EffortInv, TypeInv, TypeOK, Focus, Steps, Paid
<1>2. EffortInv /\ [Next]_vars => EffortInv'
  BY EffortStep
<1>3. EffortInv => EffortBounded
  <2> SUFFICES ASSUME EffortInv, NEW t \in Tickets
               PROVE  reworks[t] + requeues[t] <= MaxReworks + (MaxEscalations + faults) * Rounds
    BY Zenon DEF EffortBounded
  <2> DEFINE rest == MaxEscalations + faults - Coins(t)
             n == rework[t]
  <2>1. /\ Coins(t) \in Nat /\ Rounds \in Nat /\ faults \in Nat
        /\ reworks[t] \in Nat /\ requeues[t] \in Nat
    BY CoinsAreNumbers DEF EffortInv, TypeInv, TypeOK
  <2>2. rest \in Nat
    BY DEF EffortInv, TypeInv, TypeOK, Focus, Coins, Made
  <2>3. (MaxEscalations + faults) * Rounds = Coins(t) * Rounds + rest * Rounds
    BY <2>1, <2>2, Distribute
  <2>4. Coins(t) * Rounds \in Nat /\ rest * Rounds \in Nat
    BY <2>1, <2>2, OneMore
  <2>5. n \in Counts(t) /\ Left(n) \in Nat
    BY CountsAreNumbers DEF EffortInv, TypeInv, Counts
  <2>6. Due(t, n) <= MaxReworks + Coins(t) * Rounds
    BY <2>5 DEF EffortInv, Paid
  <2>7. Due(t, n) = reworks[t] + requeues[t] + Left(n)
    BY DEF Due
  <2> QED BY <2>1, <2>3, <2>4, <2>5, <2>6, <2>7
<1> QED BY <1>1, <1>2, <1>3, PTL DEF Spec

\* Why an answer is final: what is marked is neither listed nor being acted on.
Final == resolved \cap (listed \cup {on}) = {}

FinalInv == TypeInv /\ Final

\* Nothing the session does touches what is marked.
Kept ==
  \A t \in resolved :
    /\ t \in resolved' /\ requeues'[t] = requeues[t]
    /\ t \in decided \ decided' => judging[t] # {}

LEMMA FinalStep ==
  ASSUME FinalInv, [Next]_vars
  PROVE  Final' /\ Kept
<1> USE DEF FinalInv, TypeInv, TypeOK, Focus, Final, Kept, board, judged, session, counts
<1>1. ASSUME NEW t \in Tickets, Start(t) \/ Complete(t) \/ Park(t)
      PROVE  Final' /\ Kept
  BY <1>1 DEF Start, Complete, Park
<1>2. ASSUME NEW t \in Tickets, Judges(t)
      PROVE  Final' /\ Kept
  <2>1. UNCHANGED <<resolved, listed, on, requeues>> /\ decided \ decided' \subseteq {t}
    BY <1>2 DEF Judges, Judge, Fail, Rework, Pass, Unjudged
  <2>2. t \in decided \ decided' => judging[t] # {}
    BY <1>2 DEF Judges, Judge, Fail, Rework, Pass, Unjudged
  <2> QED BY <2>1, <2>2
<1>3. ASSUME NEW t \in Tickets, Person(t)
      PROVE  Final' /\ Kept
  BY <1>3 DEF Person, PersonAnswers, PersonDecides, PersonCloses, FlagForOwner, MarkOwner, Decide
<1>4. ASSUME NEW t \in Tickets, Requeue(t) \/ Resolve(t) \/ Leave(t)
      PROVE  Final' /\ Kept
  BY <1>4 DEF Requeue, Resolve, Leave, Act
<1>5. CASE List
  BY <1>5 DEF List, Pending
<1>6. CASE EndSession
  BY <1>6 DEF EndSession
<1>7. CASE Wind
  BY <1>7 DEF Wind
<1>8. CASE Clear
  BY <1>8 DEF Clear
<1>9. CASE Unlabel \/ Reopen \/ Count
  BY <1>9 DEF Unlabel, Reopen, Count
<1>10. CASE Resolves
  BY <1>10 DEF Resolves, DropParked, RecordDecision, Decide, CloseParked, MarkResolved
<1>11. CASE Raises \/ Crash
  BY <1>11 DEF Raises, Crash
<1>12. CASE UNCHANGED vars
  BY <1>12 DEF vars
<1> QED BY <1>1, <1>2, <1>3, <1>4, <1>5, <1>6, <1>7, <1>8, <1>9, <1>10, <1>11, <1>12
  DEF Next, Works, Requeues

\* What the session has resolved no session requeues, with any number of tickets and
\* sessions and whoever acts between the updates of the answer, and nothing takes the
\* decision back but a judgement begun without it (escalations.py pending, resolve
\* and requeue).
THEOREM AnswersFinal == Spec => AnswersAreFinal
<1>1. Init => FinalInv
  BY DEF Init, FinalInv, TypeInv, TypeOK, Focus, Steps, Final
<1>2. FinalInv /\ [Next]_vars => FinalInv' /\ Kept
  BY TypeStep, FinalStep DEF FinalInv
<1>3. Kept => [\A t \in resolved :
                    /\ t \in resolved' /\ requeues'[t] = requeues[t]
                    /\ t \in decided \ decided' => judging[t] # {}]_vars
  BY DEF Kept
<1> QED BY <1>1, <1>2, <1>3, PTL DEF Spec, AnswersAreFinal
=============================================================================
