\* A power loss while a killed process is being recovered.
SPECIFICATION Spec
CONSTANTS
  a = a
  b = b
  Labels = {a, b}
  Batches <- SmallBatches
  Oversized = {}
  MaxBuffer = 3
  Written = TRUE
  PowerLoss = {"ends"}
  MaxBatches = 2
  MaxStops = 2
  MaxFiles = 3
INVARIANTS
  NeverRefused
