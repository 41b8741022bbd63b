\* Durability::None, one kill.
SPECIFICATION Spec
CONSTANTS
  a = a
  b = b
  Labels = {a, b}
  Batches <- SmallBatches
  Oversized = {}
  MaxBuffer = 3
  Written = FALSE
  PowerLoss = {}
  MaxBatches = 2
  MaxStops = 1
  MaxFiles = 3
INVARIANTS
  AckedKept
