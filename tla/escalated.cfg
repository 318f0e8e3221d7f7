SPECIFICATION Spec
CONSTANTS
  t1 = t1
  NoTicket = NoTicket
  Tickets = {t1}
  MaxReworks = 2
  MaxEscalations = 2
  MaxFaults = 2
CHECK_DEADLOCK FALSE
INVARIANT TypeOK
INVARIANT EffortBounded
 
