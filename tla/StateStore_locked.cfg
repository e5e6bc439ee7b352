SPECIFICATION Spec
CONSTANTS
  Handlers = {h1, h2, h3}
  VMs = {v1}
  Reports = {r1, r2}
  Updates = {u1}
  Sizes = {}
  InitialSize = 1
  ClusterizationTarget = 1
  Ops = {"clusterize", "finalize", "report", "update", "create"}
  Stalls = FALSE
  Free = Free
  Orphaned = Orphaned
  None = None
SYMMETRY Symmetry
INVARIANTS TypeOK FreshInSection ReportsKept UpdatesKept
PROPERTIES ImplementsAtomicStore
