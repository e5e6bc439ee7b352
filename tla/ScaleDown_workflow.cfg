SPECIFICATION FairSpec
CONSTANTS
  VMs = {v1, v2}
  Runs = {w1}
  Statuses = {"running", "off"}
  Prompt = TRUE
  MaxFailures = 1
  None = None
INVARIANTS TypeOK UnneededAreOutside NoBlindTermination
PROPERTIES ImplementsFleet MembersGetProtected UnneededGo
