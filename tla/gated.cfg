SPECIFICATION Spec
CONSTANTS
  t1 = t1
  t2 = t2
  s1 = s1
  s2 = s2
  Scheduler = Scheduler
  NoTicket = NoTicket
  NoSeat = NoSeat
  Tickets <- OneTicket
  Seats <- TwoSeats
  Kind <- JudgedByCriteria
  Blockers <- NoBlockers
  MaxAgents = 2
  MaxReworks = 2
  MaxFailures = 2
  MaxCommits = 3
  MaxFaults = 2
  SchedulerVerifies = FALSE
  AgentCommits = FALSE
CONSTRAINT NotAllReseated
SYMMETRY Symmetry
CHECK_DEADLOCK FALSE
INVARIANT TypeOK
INVARIANT LandedWasReviewed
INVARIANT ReworkBudget
INVARIANT FreshTree
INVARIANT OneWorker
INVARIANT VerdictActedOn
PROPERTY MergeIsGated
