SPECIFICATION Spec
CONSTANTS
  Runs = {w1}
  Resizes = {z1}
  Sizes = {3, 4}
  InitialSize = 2
  Versions = {c1}
  Skus = {s1}
  MaxEvents = 2
  None = None
PROPERTIES ScaleUpGrows
