SPECIFICATION Spec
CONSTANTS
  Handlers = {h1, h2, h3}
  VMs = {v1, v2}
  Reports = {}
  Updates = {}
  Sizes = {5}
  InitialSize = 3
  ClusterizationTarget = 2
  Ops = {"clusterize", "finalize", "resize", "create"}
  Stalls = FALSE
  Free = Free
  Orphaned = Orphaned
  None = None
SYMMETRY Symmetry
INVARIANTS SingleClusterizer RegistrationsKept RegistrationInv
PROPERTIES StaysClusterized ImplementsRegistration
