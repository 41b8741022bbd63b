\* One client, three records, two cuts: Wal implements WalLog.
SPECIFICATION Spec
CONSTANTS
  c1 = c1
  c2 = c2
  Clients = {c1}
  FlushThreshold = 2
  SegmentMax = 2
  MaxRecords = 3
  MaxSegment = 3
PROPERTIES
  LogSpec
INVARIANTS
  NoLoss
  CutCovers
