CONSTANTS
  NS = {0, 1}
  SegmentRecords = 100
  Accidents = {"kill", "write", "create", "dirsync"}
  MaxAccidents = 2
  BatchSamples = 2
  MaxPush = 2
  MaxStops = 1
SPECIFICATION Spec
INVARIANTS BootCountsUp CleanIsEarned CleanStopIsReported CleanStopIsWhole
PROPERTIES IsRecorder
