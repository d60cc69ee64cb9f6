SPECIFICATION Spec
CONSTANTS
  Values <- MCValues
  Tunes <- MCTunes
  MaxCalls = 3
  MaxFaults = 1
  Absent = Absent
INVARIANTS
  OwnAnswers
  TuneDone
PROPERTIES
  CallEnds
  OrphanEnds
CHECK_DEADLOCK FALSE
