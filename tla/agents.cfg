SPECIFICATION Spec
CONSTANTS
  a1 = a1
  o1 = o1
  main = main
  small = small
  worker = worker
  classifier = classifier
  Callers = {a1, o1}
  Providers = {main, small}
  Roles = {worker, classifier}
  Chain <- Chains
  Permits <- OneEach
  MaxFailures = 2
  Agents = {a1}
  Kinds = {"worker", "session", "reflection"}
  Worker = worker
  Classifier = classifier
  Turns <- SomeTurns
  Outer = 8
  Window <- Sizes
  TurnBudget = 1
  MaxAgents = 2
  FallbackMaxAgents = 1
  MaxTurns = 2
  MaxTroubles = 1
CHECK_DEADLOCK FALSE
INVARIANT TypeOK
INVARIANT PermitsHeld
INVARIANT RequestsSound
 
INVARIANT NudgedOnce
INVARIANT SettledIsLast
