SPECIFICATION Spec
CONSTANTS
  Sources = {1}
  MaxMessages = 2
  Intervals <- MCIntervals
  MaxBackgrounds = 2
  MaxScrolls = 1
INVARIANTS
  SpinnerBacked
PROPERTIES
  MainReturns
  QuietOnceSuspended
  ShownFresh
CHECK_DEADLOCK FALSE
