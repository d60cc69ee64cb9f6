SPECIFICATION Spec
CONSTANTS
  p1 = p1
  p2 = p2
  b1 = b1
  b2 = b2
  b3 = b3
  t1 = t1
  t2 = t2
  Plugins = {p1, p2}
  Builds = {b1, b2, b3}
  Tokens = {t1, t2}
  Owner <- TwoOwner
  Sequence <- TwoSequence
  Revocable = {b1, b2}
  MaxRecords = 1
  MaxFaults = 3
  None = None
  Partial = Partial
SYMMETRY TokenSymmetry
INVARIANTS JournalRecoverable ClosedIsDurable
PROPERTIES CloseMatchesDisk NoDowngrade OnlyStaleToggleSplits ImplementsInstall
