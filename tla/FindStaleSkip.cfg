CONSTANTS
  NS = {0}
  SegmentRecords = 100
  Accidents = {"power"}
  MaxAccidents = 1
  BatchSamples = 2
  MaxPush = 3
  MaxStops = 1
SPECIFICATION Spec
INVARIANTS ReleasedIsLogged
