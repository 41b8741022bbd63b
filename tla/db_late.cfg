\* A late point.
SPECIFICATION Spec
CONSTANTS
  a = a
  b = b
  Labels = {a, b}
  Batches <- SmallBatches
  Oversized = {}
  MaxBuffer = 3
  Written = TRUE
  PowerLoss = {}
  MaxBatches = 2
  MaxStops = 0
  MaxFiles = 3
INVARIANTS
  EveryPointReadable
