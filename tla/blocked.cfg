SPECIFICATION Spec
CONSTANTS
  t1 = t1
  t2 = t2
  s1 = s1
  s2 = s2
  Scheduler = Scheduler
  NoTicket = NoTicket
  NoSeat = NoSeat
  Tickets <- TwoTickets
  Seats <- TwoSeats
  Kind <- FirstJudged
  Blockers <- SecondBlocked
  MaxAgents = 1
  MaxReworks = 1
  MaxFailures = 1
  MaxCommits = 1
  MaxFaults = 0
  SchedulerVerifies = FALSE
  AgentCommits = FALSE
CHECK_DEADLOCK FALSE
INVARIANT BlockersLanded
SYMMETRY Symmetry
