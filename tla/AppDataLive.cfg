SPECIFICATION FairSpec
CONSTANTS
  p1 = p1
  p2 = p2
  b1 = b1
  b2 = b2
  b3 = b3
  t1 = t1
  t2 = t2
  Plugins = {p1}
  Builds = {b1, b2}
  Tokens = {t1, t2}
  Owner <- OneOwner
  Sequence <- OneSequence
  Revocable = {b1}
  MaxRecords = 1
  MaxFaults = 2
  None = None
  Partial = Partial
PROPERTIES PendingCloses
