\* Clicks, answers and polls in any order.
CONSTANTS
  Member = {m1, m2}
  Freighter = {}
  Other = {other}
  Claimant = {m1, m2}
  NoClaim = NoClaim
  NoAnswer = NoAnswer
  Flow = {f1, f2}
  Request = {r1}
SPECIFICATION Spec
SYMMETRY Perms
INVARIANTS TypeOK ResultIsReal LiveClaimIsReachable
CHECK_DEADLOCK FALSE
