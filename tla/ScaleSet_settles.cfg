SPECIFICATION FairSpec
CONSTANTS
  Runs = {w1, w2}
  Resizes = {z1}
  Sizes = {1, 3}
  InitialSize = 2
  Versions = {c1, c2}
  Skus = {s1, s2}
  MaxEvents = 3
  None = None
INVARIANTS TypeOK CreateInv AskedInv
PROPERTIES NoBlindCreation SetsWhatWasAsked CapacityReached ConfigApplied
