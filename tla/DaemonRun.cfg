SPECIFICATION Spec
CONSTANTS
  d0 = d0
  d1 = d1
  d2 = d2
  Procs = {d0, d1, d2}
  Earlier = d0
  MaxFaults = 2
  None = None
SYMMETRY LaunchSymmetry
CONSTRAINT UntilDefeat
INVARIANTS OneDaemon RunFileKept SocketKept
PROPERTIES LoneLaunchStarts
