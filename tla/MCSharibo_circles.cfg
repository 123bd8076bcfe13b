\* Two circles that share the contract's balance of one token, with and
\* without a fee: isolation of the pots, and the escrow specification.
SPECIFICATION Spec
CONSTANTS
  alice = alice
  bob = bob
  contract = contract
  m1 = m1
  m2 = m2
  Address = {contract, alice, bob}
  Contract = contract
  NoAddress = NoAddress
  NoCircle = NoCircle
  Token = {xlm}
  Member = {m1, m2}
  PayoutAddress <- MCPayoutAddress
  Roots <- BothMembers
  Freezable = {}
  KeyLengths = {5}
  Admins = {alice}
  Contributions = {2}
  Sizes = {1, 2}
  Deadlines = {1}
  FeeRates = {0, 5000}
  FeeRecipients = {bob}
  Nominees = {}
  InitialBalance = 4
  I128_MAX = 7
  U32_MAX = 10
  MaxCircles = 2
  MaxRound = 1
  MaxLedger = 1
INVARIANT Solvency
PROPERTY EscrowSpec
CHECK_DEADLOCK FALSE
