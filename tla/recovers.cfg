SPECIFICATION FairSpec
CONSTANTS
  t1 = t1
  t2 = t2
  s1 = s1
  s2 = s2
  Scheduler = Scheduler
  NoTicket = NoTicket
  NoSeat = NoSeat
  Tickets <- OneTicket
  Seats <- OneSeat
  Kind <- JudgedByCriteria
  Blockers <- NoBlockers
  MaxAgents = 1
  MaxReworks = 1
  MaxFailures = 2
  MaxCommits = 1
  MaxFaults = 1
  SchedulerVerifies = TRUE
  AgentCommits = TRUE
CHECK_DEADLOCK FALSE
PROPERTY Settles
PROPERTY SlotReleased
