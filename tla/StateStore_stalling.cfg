SPECIFICATION FairSpec
CONSTANTS
  Handlers = {h1, h2}
  VMs = {v1}
  Reports = {r1}
  Updates = {}
  Sizes = {5}
  InitialSize = 2
  ClusterizationTarget = 1
  Ops = {"clusterize", "finalize", "resize", "create"}
  Stalls = TRUE
  Free = Free
  Orphaned = Orphaned
  None = None
INVARIANTS NoOverfill
PROPERTIES Answered LeaseComesFree
