------------------------ MODULE MCIntegrationBranch ------------------------
(* Instances of IntegrationBranch for TLC.                                 *)
EXTENDS IntegrationBranch, TLC

CONSTANTS t1, t2, t3

TwoTickets == {t1, t2}
Symmetry == Permutations(Tickets)

\* Bound: edits of one agent that lie about, in the project directory or not yet
\* committed in its tree, once what an earlier run left is discarded.
FewEdits ==
  \A t \in Tickets :
    at[t] # "discard" =>
      Cardinality({e \in strays : e.by = t})
        + Cardinality({e \in tree[t] \ branch[t].files : e.by = t}) <= 1
=============================================================================
