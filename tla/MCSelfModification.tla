------------------------- MODULE MCSelfModification -------------------------
(***************************************************************************)
(* Instances of SelfModification.                                          *)
(***************************************************************************)
EXTENDS SelfModification

CONSTANTS t1, t2

OneTicket  == {t1}
TwoTickets == {t1, t2}
=============================================================================
