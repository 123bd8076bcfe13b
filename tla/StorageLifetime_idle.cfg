\* One circle with the limits scaled down in their order:
\* threshold < life of a new entry < extension.
SPECIFICATION Spec
CONSTANTS
  CircleId = {0}
  LEDGER_THRESHOLD = 2
  LEDGER_EXTEND_TO = 5
  MinTtl = 3
  Deadlines = {0, 3}
  MaxLedger = 8
INVARIANT WritesBuyTime
CHECK_DEADLOCK FALSE
