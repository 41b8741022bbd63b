\* One client that also lets go of its wait, two records, a cut and a close.
SPECIFICATION FairSpec
CONSTANTS
  c1 = c1
  c2 = c2
  Clients = {c1}
  FlushThreshold = 2
  SegmentMax = 1
  MaxRecords = 2
  MaxSegment = 3
PROPERTIES
  CutServed
  CloseServed
  AllDurable
