\* One circle whose deadline is longer than the life of a new entry.
SPECIFICATION Spec
CONSTANTS
  CircleId = {0}
  LEDGER_THRESHOLD = 2
  LEDGER_EXTEND_TO = 8
  MinTtl = 4
  Deadlines = {6}
  MaxLedger = 10
INVARIANT ExpireRoundIsReachable
CHECK_DEADLOCK FALSE
