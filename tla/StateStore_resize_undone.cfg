SPECIFICATION Spec
CONSTANTS
  Handlers = {h1, h2}
  VMs = {v1}
  Reports = {r1}
  Updates = {}
  Sizes = {5}
  InitialSize = 1
  ClusterizationTarget = 1
  Ops = {"clusterize", "finalize", "report", "resize"}
  Stalls = FALSE
  Free = Free
  Orphaned = Orphaned
  None = None
PROPERTIES OnlyResizeResizes
