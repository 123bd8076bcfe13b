\* Every order of dispatches, one read of the chain at a time.
CONSTANTS
  Member = {m1, m2}
  Wallet = {w}
  None = None
  Payer = {w}
  Touched = {m1}
  Request = {r1}
  MaxRound = 1
SPECIFICATION FairSpec
INVARIANTS TypeOK ReadyWasFunded PayoutIsReal FailureCanBeRetried
PROPERTIES PayoutIsKept RoundNeverGoesBack WaitingFollowsPot
CHECK_DEADLOCK FALSE
