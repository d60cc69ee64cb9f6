SPECIFICATION Spec
CONSTANTS
  p1 = p1
  p2 = p2
  b1 = b1
  b2 = b2
  Plugins = {p1, p2}
  Official = {p1}
  Builds = {b1, b2}
  MaxRecords = 1
  MaxDeaths = 2
  MaxFaults = 1
  MaxSwitches = 1
  None = None
SYMMETRY BuildSymmetry
INVARIANTS CrashThenSafe  BannedStaysOut
PROPERTIES BlamesCulprit SettledAfterGrace
