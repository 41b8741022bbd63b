\* Three records, a new segment after each batch, two of three starts killed.
SPECIFICATION Spec
CONSTANTS
  Times = {1, 2, 3}
  SegmentMax = 1
  MaxWrites = 3
  MaxOpens = 3
INVARIANTS
  TypeOK
  OnlyBufferedLost
  FlushedStopKeeps
  RefusedOnlyIfLate
  SavedInOrder
\* The old server is gone and the new one is up or has refused.
CHECK_DEADLOCK FALSE
