SPECIFICATION FairSpec
CONSTANTS
  Children = {storaged, obdd}
  MaxAccidents = 3
INVARIANTS AttachedIsWhole
PROPERTIES UsedIsNeverReset EveryoneAttaches
CHECK_DEADLOCK FALSE
