\* Two records in up to two segments, two stops, one damaged cell.
SPECIFICATION Spec
CONSTANTS
  MaxCells = 13
  NotText = {20}
  Batches <- SomeBatches
  ZeroTails = {0, 3}
  BadCells = {1, 20}
  MaxRecords = 2
  MaxStops = 2
  MaxSegments = 2
INVARIANTS
  TypeOK
  DeliversWritten
  OpensClean
  TearsRepaired
  ReservesWhatIsThere
\* A log that is refused stays so.
CHECK_DEADLOCK FALSE
