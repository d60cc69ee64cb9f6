\* The battery table over five states of the hardware that come and go at any step.
CONSTANTS
    Missing = Missing
    NoService = NoService
    Devices <- MCDevices
    Garbage <- MCGarbage
    MaxChanges = 3
SPECIFICATION Spec
INVARIANT RefsSafe
PROPERTIES  SocTrue
CHECK_DEADLOCK FALSE
