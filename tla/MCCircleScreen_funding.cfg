\* One handler and the poll; members pay from their account or from one wallet.
CONSTANTS
  Member = {m1, m2}
  Freighter = {wallet}
  Other = {}
  Claimant = {m1}
  NoClaim = NoClaim
  NoAnswer = NoAnswer
  Flow = {f1}
  Request = {r1}
SPECIFICATION FairSpec
INVARIANT ShownIsPaid
PROPERTIES BusyEnds FullPotIsOffered
CHECK_DEADLOCK FALSE
