-------------------------- MODULE MCExternalSeats --------------------------
(* Instances of ExternalSeats for TLC.                                     *)
EXTENDS ExternalSeats

CONSTANTS e1, e2, i1

project == <<1>>
epic    == <<1, 1>>
t1      == <<1, 1, 2>>
t2      == <<1, 1, 10>>

Board    == {project, epic, t1, t2}
Stories  == {t1, t2}
Priorits == [i \in Issues |-> IF i = epic THEN Untriaged ELSE 2]
SecondWaits == [t \in Stories |-> IF t = t2 THEN {t1} ELSE {}]
OneJudged   == {t1}
Seated      == [t \in Tickets |-> IF t = t1 THEN i1 ELSE Nobody]
=============================================================================
