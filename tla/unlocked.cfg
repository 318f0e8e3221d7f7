SPECIFICATION Spec
CONSTANTS
  t1 = t1
  t2 = t2
  t3 = t3
  NoOne = NoOne
  NoTip = NoTip
  Tickets <- TwoTickets
  MaxAgents = 1
  MaxPickups = 1
  MaxCommits = 1
  MaxTroubles = 0
  Outside = TRUE
  Moves = "never"
CHECK_DEADLOCK FALSE
INVARIANT KeepsLanded
