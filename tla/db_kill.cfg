\* Three batches of two series, one too large, three stops at any step.
SPECIFICATION Spec
CONSTANTS
  a = a
  b = b
  Labels = {a, b}
  Batches <- AllBatches
  Oversized <- BigBatches
  MaxBuffer = 3
  Written = TRUE
  PowerLoss = {}
  MaxBatches = 3
  MaxStops = 3
  MaxFiles = 4
INVARIANTS
  TypeOK
  ViewIsHistory
  AckedKept
  NeverRefused
  BufferedExact
PROPERTIES
  StoreSpec
