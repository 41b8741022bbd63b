\* Two clients, a record each or the same, no cut and no threshold that is
\* reached: every wait is served without a timer.
SPECIFICATION FairSpec
CONSTANTS
  c1 = c1
  c2 = c2
  Clients = {c1, c2}
  FlushThreshold = 3
  SegmentMax = 1
  MaxRecords = 2
  MaxSegment = 0
PROPERTIES
  WaitServed
