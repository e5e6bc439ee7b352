SPECIFICATION Spec
CONSTANTS
  VMs = {m1, m2, m3}
  InitialSize = 3
  ClusterizationTarget = 2
  MaxMishaps = 1
  MaxRepeats = 0
  None = None
SYMMETRY Symmetry
PROPERTIES GenerationRetried
CHECK_DEADLOCK FALSE
