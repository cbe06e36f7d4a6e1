CONSTANTS
  NS = {0}
  SegmentRecords = 10
  Accidents = {"power", "write", "fsync", "cut", "cutsync"}
  MaxAccidents = 2
  BatchSamples = 2
  MaxPush = 3
  MaxStops = 0
SPECIFICATION FairSpec
INVARIANTS ReleasedIsDurable SeqContiguous FailedBatchIsCutBack
PROPERTIES EveryRingDrains
