SPECIFICATION Spec
CONSTANTS
  MaxDepth = 3
  Caps = {0, 1, 9, 18, 40}
  Strings <- MCStrings
  Scalars = {1, 4}
  Numbers <- MCNumbers
  MaxCalls = 6
  MaxLine = 64
  MaxFields = 10
  MaxName = 12
  MaxValue = 6
  MaxRequest = 14
  PathMax = 8
  QueryMax = 6
  ValueMax = 4
  MaxWindow = 360
  MaxSamples = 5
  UnixDigits = 3
  AgoDigits = 2
  ReplyMax = 1000
  BodyMax = 2000
  Texts <- MCTexts
  Meant <- MCMeant
  Buffers <- MCBuffers
  Targets <- MCTargets
  Replies <- MCReplies
  Queries <- MCQueries
  Windows <- MCWindows
  Nows = {0, 299, 600, 930}
INVARIANTS WriterIsExact FinishedIsJson LineIsExact VerdictIsFinal PathStaysInside WholeReplyOrError UrlIsAsked SeriesIsAligned NoInternalError
CHECK_DEADLOCK FALSE
