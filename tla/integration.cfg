SPECIFICATION Spec
CONSTANTS
  t1 = t1
  t2 = t2
  t3 = t3
  NoOne = NoOne
  NoTip = NoTip
  Tickets <- TwoTickets
  MaxAgents = 1
  MaxPickups = 2
  MaxCommits = 2
  MaxTroubles = 1
  Outside = FALSE
  Moves = "forward"
CONSTRAINT FewEdits
SYMMETRY Symmetry
CHECK_DEADLOCK FALSE
INVARIANT TypeOK
INVARIANT OwnWork
INVARIANT BaseAccepted
INVARIANT MoveUndone
PROPERTY MergeIsGated
