SPECIFICATION FairSpec
CONSTANTS
  t1 = t1
  t2 = t2
  NoTicket = NoTicket
  Tickets <- OneTicket
  MaxDeploys = 1
  MaxAgents = 1
  MaxProposals = 2
  MaxEdits = 2
  MaxFaults = 1
CHECK_DEADLOCK FALSE
INVARIANT TypeOK
INVARIANT Earned
INVARIANT CommitIsDiff
INVARIANT TreeRestored
INVARIANT DeployCap
PROPERTY ClosedWasDeployed
PROPERTY PendingSandboxed
