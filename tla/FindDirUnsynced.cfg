CONSTANTS
  NS = {0}
  SegmentRecords = 100
  Accidents = {"kill"}
  MaxAccidents = 1
  BatchSamples = 2
  MaxPush = 2
  MaxStops = 0
SPECIFICATION Spec
INVARIANTS ReleasedIsDurable
