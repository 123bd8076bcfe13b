\* A claim that was aborted after its submission is still paid.
CONSTANTS
  Member = {m1, m2}
  Freighter = {}
  Other = {}
  Claimant = {m1, m2}
  NoClaim = NoClaim
  NoAnswer = NoAnswer
  Flow = {f1, f2}
  Request = {r1}
SPECIFICATION Spec
PROPERTY AbortedClaimIsNotPaid
CHECK_DEADLOCK FALSE
