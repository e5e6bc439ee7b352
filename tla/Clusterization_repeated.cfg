SPECIFICATION Spec
CONSTANTS
  VMs = {m1, m2, m3}
  InitialSize = 3
  ClusterizationTarget = 2
  MaxMishaps = 0
  MaxRepeats = 1
  None = None
SYMMETRY Symmetry
INVARIANTS LastIsLast
CHECK_DEADLOCK FALSE
