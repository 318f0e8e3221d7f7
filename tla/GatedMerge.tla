----------------------------- MODULE GatedMerge -----------------------------
(***************************************************************************)
(* What the harness promises about the integration branch, and nothing of  *)
(* how: work is approved by a verdict or by a person, only approved work   *)
(* is merged, and merged work stays.  Exempt are the tickets nobody        *)
(* judges, and those that got a second seat while a thread had them.       *)
(***************************************************************************)
CONSTANTS Tickets, Commits

VARIABLES approved, landed, exempt

Init ==
  /\ approved = [t \in Tickets |-> {}]
  /\ landed   = [t \in Tickets |-> {}]
  /\ exempt \in SUBSET Tickets

Approve(t, commits) ==
  /\ approved' = [approved EXCEPT ![t] = @ \cup commits]
  /\ UNCHANGED <<landed, exempt>>

Land(t, commits) ==
  /\ t \in exempt \/ commits \subseteq approved[t]
  /\ landed' = [landed EXCEPT ![t] = @ \cup commits]
  /\ UNCHANGED <<approved, exempt>>

\* A person's acceptance approves and lands at once.
Accept(t, commits) ==
  /\ approved' = [approved EXCEPT ![t] = @ \cup commits]
  /\ landed'   = [landed EXCEPT ![t] = @ \cup commits]
  /\ UNCHANGED exempt

Reseat(t) ==
  /\ exempt' = exempt \cup {t}
  /\ UNCHANGED <<approved, landed>>

Next ==
  \E t \in Tickets :
    \/ \E commits \in SUBSET Commits :
         Approve(t, commits) \/ Land(t, commits) \/ Accept(t, commits)
    \/ Reseat(t)

Spec == Init /\ [][Next]_<<approved, landed, exempt>>

=============================================================================
