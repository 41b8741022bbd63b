\* Three batches of two series, two stops, unsynced ends of files lost.
SPECIFICATION Spec
CONSTANTS
  a = a
  b = b
  Labels = {a, b}
  Batches <- SmallBatches
  Oversized = {}
  MaxBuffer = 3
  Written = TRUE
  PowerLoss = {"ends"}
  MaxBatches = 3
  MaxStops = 2
  MaxFiles = 3
INVARIANTS
  ViewIsHistory
  RangeExact
