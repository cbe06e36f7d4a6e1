SPECIFICATION FairSpec
CONSTANTS
  Clients = {1, 2, 3}
  NoClient = 0
  MaxConns = 2
  Deadline = 2
  MaxWait = 2
  AcceptPause = 1
  AcceptsPerStep = 2
  ReqMax = 2
  OutUnits = 2
  Ends <- MCEnds
  MaxSends = 2
  MaxAccidents = 1
INVARIANTS SlotIsBounded ServedInFull OneSlotEach StopIsPrompt
PROPERTIES TimeoutIsEarned EveryConnectionEnds
CHECK_DEADLOCK FALSE
