CONSTANTS
  NS = {0}
  SegmentRecords = 10
  Accidents = {"create"}
  MaxAccidents = 1
  BatchSamples = 2
  MaxPush = 2
  MaxStops = 0
SPECIFICATION FairSpec
PROPERTIES EveryRingDrains
