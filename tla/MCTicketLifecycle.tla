------------------------- MODULE MCTicketLifecycle -------------------------
(***************************************************************************)
(* Instances of TicketLifecycle: the kinds of the tickets, and who waits   *)
(* for whom.                                                               *)
(***************************************************************************)
EXTENDS TicketLifecycle, TLC

CONSTANTS t1, t2, s1, s2

OneTicket  == {t1}
TwoTickets == {t1, t2}
OneSeat    == {s1}
TwoSeats   == {s1, s2}

JudgedByCriteria == [t \in Tickets |-> "criteria"]
JudgedByChecks   == [t \in Tickets |-> "checks"]
FirstJudged      == (t1 :> "criteria") @@ (t2 :> "none")

NoBlockers    == [t \in Tickets |-> {}]
SecondBlocked == (t1 :> {}) @@ (t2 :> {t1})

Symmetry == Permutations(Seats)

\* Nothing is claimed of a ticket that was re-seated under a thread, and it
\* stays so: with every ticket in that case the search has nothing to find.
NotAllReseated == reseated # Tickets
=============================================================================
