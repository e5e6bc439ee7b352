SPECIFICATION Spec
CONSTANTS
  VMs = {v1, v2}
  Runs = {w1}
  Statuses = {"running"}
  Prompt = TRUE
  MaxFailures = 1
  None = None
PROPERTIES ChainStops
