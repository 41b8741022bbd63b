\* Two clients, two records, one per segment, one cut, any close.
SPECIFICATION Spec
CONSTANTS
  c1 = c1
  c2 = c2
  Clients = {c1, c2}
  FlushThreshold = 2
  SegmentMax = 1
  MaxRecords = 2
  MaxSegment = 2
SYMMETRY Symmetry
INVARIANTS
  TypeOK
  NoLoss
  LogInOrder
  AckedOnDisk
  SyncClaim
  OnlyLastUnsynced
  CutCovers
  WaitersCount
  ClosedDurable
