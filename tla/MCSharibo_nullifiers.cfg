\* The documented bound on the nullifiers a circle stores.
SPECIFICATION Spec
CONSTANTS
  alice = alice
  bob = bob
  contract = contract
  m1 = m1
  m2 = m2
  Address = {contract, alice, bob}
  Contract = contract
  NoAddress = NoAddress
  NoCircle = NoCircle
  Token = {xlm}
  Member = {m1, m2}
  PayoutAddress <- MCPayoutAddress
  Roots <- BothMembers
  Freezable = {}
  KeyLengths = {5}
  Admins = {alice}
  Contributions = {3}
  Sizes = {2}
  Deadlines = {0}
  FeeRates = {0}
  FeeRecipients = {bob}
  Nominees = {}
  InitialBalance = 6
  I128_MAX = 7
  U32_MAX = 10
  MaxCircles = 1
  MaxRound = 3
  MaxLedger = 0
INVARIANT NullifiersAreBounded
CHECK_DEADLOCK FALSE
