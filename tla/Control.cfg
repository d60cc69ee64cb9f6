SPECIFICATION Spec
CONSTANTS
  c1 = c1
  c2 = c2
  c3 = c3
  Clients <- MCClients
  MaxClients = 2
  Backlog = 1
  MaxSends = 1
  Nobody = Nobody
INVARIANTS
  SlotsTrue
PROPERTIES
  IdleEnds
  LogReturns
CHECK_DEADLOCK FALSE
