SPECIFICATION Spec
CONSTANTS
  MaxLevel = 2
  MaxMoves = 2
  Off = Off
INVARIANTS
  CacheTrue
PROPERTIES
  BandKept
  StopReleases
  Settles
CHECK_DEADLOCK FALSE
