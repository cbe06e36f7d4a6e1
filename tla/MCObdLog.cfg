SPECIFICATION FairSpec
CONSTANTS
  Pids <- MCPids
  Fast <- MCFast
  Slow <- MCSlow
  FastEvery = 2
  NoDataLimit = 1
  ErrorLimit = 2
  MaxFlight = 1
  Settings = 1
INVARIANTS SyncIsNeverFar AnswerIsOwn EndsWithFooter EventsAlternate
PROPERTIES EveryPidIsAsked SignalEnds
CHECK_DEADLOCK FALSE
