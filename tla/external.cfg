SPECIFICATION Spec
CONSTANTS
  e1 = e1
  e2 = e2
  i1 = i1
  Nobody = Nobody
  NoTicket = NoTicket
  Untriaged = Untriaged
  Issues <- Board
  Tickets <- Stories
  Priority <- Priorits
  Blockers <- SecondWaits
  Held = {}
  Harness = {}
  External = {e1, e2}
  Internal = {i1}
  Slots = 2
  Judged <- OneJudged
  SeatOf <- Seated
  MaxMoves = 3
  MaxRework = 1
  MaxFaults = 1
CHECK_DEADLOCK FALSE
INVARIANT TypeOK
 
 
PROPERTY AbandonedReleased
PROPERTY SubmissionsMarked
