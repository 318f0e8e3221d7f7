--------------------------- MODULE MCEscalations ---------------------------
(* Instances of Escalations for TLC.                                       *)
EXTENDS Escalations

CONSTANTS t1
=============================================================================
