\* One circle over several rounds and ledgers: funding, payout, expiry,
\* cancellation, the handover of the admin role, and an account that may become
\* unable to receive its refund.
SPECIFICATION FairSpec
CONSTANTS
  alice = alice
  bob = bob
  contract = contract
  m1 = m1
  m2 = m2
  Address = {contract, alice, bob}
  Contract = contract
  NoAddress = NoAddress
  NoCircle = NoCircle
  Token = {xlm}
  Member = {m1, m2}
  PayoutAddress <- MCPayoutAddress
  Roots <- OneOrBoth
  Freezable = {alice}
  KeyLengths = {4, 5}
  Admins = {alice}
  Contributions = {0, 3, 4}
  Sizes = {0, 2, 17}
  Deadlines = {0, 2, 500000}
  FeeRates = {2500, 10001}
  FeeRecipients = {bob, contract}
  Nominees = {contract, alice, bob}
  InitialBalance = 6
  I128_MAX = 7
  U32_MAX = 10
  MaxCircles = 1
  MaxRound = 2
  MaxLedger = 4
INVARIANT TypeOK PotIsDeposits PayoutsAreSound NominationIsCurrent NoStrandedPot
PROPERTY FullPotIsKept StuckRoundEnds
CHECK_DEADLOCK FALSE
