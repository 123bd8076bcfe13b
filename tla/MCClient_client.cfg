\* The parts of the client and the app, each on its own.
CONSTANTS
  Account = {a1, a2}
  Caller = {c1, c2}
  MaxRetries = 1
  CONTRACT_CLIENT_CACHE_LIMIT = 2
  MaxConnects = 2
  MaxClears = 1
  MockFunder = {f1, f2}
  MockNullifier = {n1, n2}
  MockSize = 2
  MockCaller = {m1, m2}
  MockMaxCircles = 1
  MockMaxRound = 1
  Byte = 2
  FP_BYTES = 2
  FP_MODULUS = 3
  CircleBytes = 2
  RoundBytes = 1
  IC_LENGTH = 2
  MaxLevels = 2
  Commitment = {0, 1, 2, 3}
  FR_MODULUS = 3
  Base = 3
  Decimals = 2
  FixedDigits = 3
  Doubles = {0, 1, 2, 3, 4, 5, 6, 8, 10, 12, 16, 20, 24, 32}
  DoubleUnit = 4
  MaxWhole = 2
  MAX_I128 = 60
  CircleSizes = {0, 1, 3}
  maxAffordableXlm = 5
  ABSURD_XLM = 7
  PublicKey = {k1, k2, k3}
  MAX_RETRIES = 3
  Passphrase = {testnet, public, standalone}
  KnownPassphrase = {testnet, public}
  HostedPassphrase = {testnet, public}
  DemoAddress = demo
  appNetworkPassphrase = testnet
  WalletAddress = {w1, w2}
  NoNetwork = none
  MaxProbes = 2
  MaxFaults = 2
  RpcCode = {4, 9, 10}
  MaxCauses = 2
  SDK_EVENT_BUFFER_LIMIT = 2
  MaxEvents = 3
  Click = {d1, d2}
  LocaleCode = {en, ar}
  RtlLocale = {ar}
  fallbackLocale = en
  NoLocale = nolocale
  MaxMarkers = 1
  Release = {1, 2}
  Circuit = {1, 2}
  Committed = 1
  MaxCompiles = 2
  MaxKeys = 2
  Template = {t1, t2}
  GuardedDepths = {1, 2}
  OtherDepths = {3}
  configLevels = 1
  MaxEdits = 2
SPECIFICATION Spec
VIEW OwnView
INVARIANT
  ClientsAreShared ReportIsTrue MockRoundsAreSound BytesAreReadBack
  ProofIsMembers AcceptedIsWithinAStroop ReportedFundedExists SignsForItsNetwork
  GreenIsReady ToldIsThrown BundleIsSafe
  HeardIsShown StoredIsReadBack ServedBelongTogether GuardIsComplete
PROPERTY StatusSettles EveryGetEnds
CHECK_DEADLOCK FALSE
