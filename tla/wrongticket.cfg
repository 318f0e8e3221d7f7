SPECIFICATION Spec
CONSTANTS
  t1 = t1
  t2 = t2
  NoTicket = NoTicket
  Tickets <- TwoTickets
  MaxDeploys = 1
  MaxAgents = 2
  MaxProposals = 1
  MaxEdits = 1
  MaxFaults = 0
CHECK_DEADLOCK FALSE
INVARIANT ClosedByOwnChange
