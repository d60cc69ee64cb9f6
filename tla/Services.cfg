SPECIFICATION Spec
CONSTANTS
  Readers = {"main", "worker"}
  Selector = "main"
  Systems <- MCSystems
  Languages = 2
  MaxChoices = 2
  Intervals <- MCIntervals
  Candidates <- MCCandidates
  Windows <- MCWindows
  Processes = {"app", "daemon"}
  MaxDeaths = 1
  MaxFailures = 1
  MaxCells = 2
  MaxShifts = 2
  MaxReadings = 2
  MaxAsked = 3
  MaxEvents = 1
INVARIANTS
  
  
  ReportExact
  DirReady
  CellsWhole
  LatestServed
CHECK_DEADLOCK FALSE
