SPECIFICATION Spec
CONSTANTS
  Sources = {1}
  MaxMessages = 1
  Intervals <- MCIntervals
  MaxBackgrounds = 1
  MaxScrolls = 1
PROPERTIES
  TimerResumes
CHECK_DEADLOCK FALSE
