CONSTANTS
  NS = {0, 1}
  Txns = {1, 2}
  MaxLen = 6
SPECIFICATION Spec
INVARIANTS ScanIsCommittedPrefix RecoveryIsIdempotent
CHECK_DEADLOCK FALSE
