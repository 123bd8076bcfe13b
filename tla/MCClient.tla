------------------------------ MODULE MCClient ------------------------------
\* The parts of the client and the app that share no state, in one run: each
\* behaviour is one of a single part, the others stay as they are first found.
EXTENDS ClientCalls, MockChain, WireFormat, MembershipTree, Amounts, Friendbot, Wallet, OnlineStatus,
        Doctor, HttpGet, Errors, DebugBundle, ScreenView, Browser, Artifacts, ConstraintGuard

VARIABLE part

vars == <<part, clientVars, mockVars, wireVars, treeVars, amountVars, friendbotVars,
          walletVars, onlineVars, doctorVars, getVars, errorVars, logVars, bundleVars,
          screenViewVars, browserVars, artifactVars, guardVars>>

\* One initial state of each part.
AnAccount == CHOOSE a \in Account : TRUE
ClientIdle == ClientInit /\ \A c \in Caller : session[c].account = AnAccount /\ session[c].valid
                                             /\ session[c].kind = call_fund
TreeIdle   == TreeInit /\ leaves = <<>> /\ levels = 0
AmountsIdle == AmountsInit /\ size = 0 /\ raw = [form |-> "garbage", negative |-> FALSE,
                                                 whole |-> <<0>>, frac |-> <<>>]
FriendbotIdle == FriendbotInit /\ exists = {}
WalletIdle == WalletInit /\ walletNetwork.label = appNetworkPassphrase /\ ~ allowed
                /\ walletAccount = (CHOOSE a \in WalletAddress : TRUE)
                /\ options = [optedIn |-> FALSE, available |-> FALSE]
OnlineIdle == OnlineInit /\ ~ link /\ ~ rpc
DoctorIdle == DoctorInit /\ broken = Fault \cap {"curlMissing"} /\ envFile = NoFile /\ ~ doctor.fix
GetIdle == GetInit /\ external = "none" /\ deployed
ErrorsIdle == ErrorsInit /\ failure.thrown = <<[kind |-> "Error", code |-> 0, loose |-> FALSE,
                                               link |-> "cause"]>>
BrowserIdle == BrowserInit /\ storage = "works" /\ release = (CHOOSE r \in Release : TRUE)
                 /\ language = NoLocale
ArtifactsIdle == ArtifactsInit /\ built.wasm = {}
GuardIdle == GuardInit /\ template = (CHOOSE t \in Template : TRUE)
BundleIdle == BundleInit /\ lastError = NoError /\ trusted = {}

\* Nothing tells accounts or callers apart, so that one of the callers may as well have
\* this account, and the call that comes first in some order of the calls.
AnyCaller == CHOOSE c \in Caller : TRUE
CallOrder == SetToSeq(CallKind)
PlaceOf(kind) == CHOOSE i \in DOMAIN CallOrder : CallOrder[i] = kind
OneCallFirst ==
  /\ session[AnyCaller].account = AnAccount
  /\ \A c \in Caller : PlaceOf(session[AnyCaller].kind) <= PlaceOf(session[c].kind)


Idle(others) ==
  /\ MockInit /\ WireInit /\ LogInit /\ ScreenViewInit
  /\ "online" \in others => OnlineIdle
  /\ "client" \in others => ClientIdle
  /\ "friendbot" \in others => FriendbotIdle
  /\ "wallet" \in others => WalletIdle
  /\ "amounts" \in others => AmountsIdle
  /\ "tree" \in others => TreeIdle
  /\ "doctor" \in others => DoctorIdle
  /\ "get" \in others => GetIdle
  /\ "errors" \in others => ErrorsIdle
  /\ "bundle" \in others => BundleIdle
  /\ "browser" \in others => BrowserIdle
  /\ "artifacts" \in others => ArtifactsIdle
  /\ "guard" \in others => GuardIdle

Parts == {"client", "mock", "wire", "tree", "amounts", "friendbot", "wallet", "online",
          "doctor", "get", "errors", "log", "bundle", "view", "browser", "artifacts", "guard"}

Init ==
  \/ part \in {"mock", "wire", "log", "view"} /\ Idle(Parts)
  \/ part = "client"    /\ Idle(Parts \ {part}) /\ ClientInit /\ OneCallFirst
  \/ part = "tree"      /\ Idle(Parts \ {part}) /\ TreeInit
  \/ part = "amounts"   /\ Idle(Parts \ {part}) /\ AmountsInit
  \/ part = "friendbot" /\ Idle(Parts \ {part}) /\ FriendbotInit
  \/ part = "wallet"    /\ Idle(Parts \ {part}) /\ WalletInit
  \/ part = "online"    /\ Idle(Parts \ {part}) /\ OnlineInit
  \/ part = "doctor"    /\ Idle(Parts \ {part}) /\ DoctorInit
  \/ part = "get"       /\ Idle(Parts \ {part}) /\ GetInit
  \/ part = "errors"    /\ Idle(Parts \ {part}) /\ ErrorsInit
  \/ part = "bundle"    /\ Idle(Parts \ {part}) /\ BundleInit
  \/ part = "browser"   /\ Idle(Parts \ {part}) /\ BrowserInit
  \/ part = "artifacts" /\ Idle(Parts \ {part}) /\ ArtifactsInit
  \/ part = "guard"     /\ Idle(Parts \ {part}) /\ GuardInit

Others(p) ==
  /\ UNCHANGED part
  /\ p # "client" => UNCHANGED clientVars
  /\ p # "mock" => UNCHANGED mockVars
  /\ p # "wire" => UNCHANGED wireVars
  /\ p # "tree" => UNCHANGED treeVars
  /\ p # "amounts" => UNCHANGED amountVars
  /\ p # "friendbot" => UNCHANGED friendbotVars
  /\ p # "wallet" => UNCHANGED walletVars
  /\ p # "online" => UNCHANGED onlineVars
  /\ p # "doctor" => UNCHANGED doctorVars
  /\ p # "get" => UNCHANGED getVars
  /\ p # "errors" => UNCHANGED errorVars
  /\ p # "log" => UNCHANGED logVars
  /\ p # "bundle" => UNCHANGED bundleVars
  /\ p # "view" => UNCHANGED screenViewVars
  /\ p # "browser" => UNCHANGED browserVars
  /\ p # "artifacts" => UNCHANGED artifactVars
  /\ p # "guard" => UNCHANGED guardVars

Only(p) == part = p /\ Others(p)

Next ==
  \/ Only("client") /\ ClientNext
  \/ Only("mock") /\ MockNext
  \/ Only("wire") /\ WireNext
  \/ Only("tree") /\ TreeNext
  \/ Only("amounts") /\ AmountsNext
  \/ Only("friendbot") /\ FriendbotNext
  \/ Only("wallet") /\ WalletNext
  \/ Only("online") /\ OnlineNext
  \/ Only("doctor") /\ DoctorNext
  \/ Only("get") /\ GetNext
  \/ Only("errors") /\ ErrorsNext
  \/ Only("log") /\ LogNext
  \/ Only("bundle") /\ BundleNext
  \/ Only("view") /\ ScreenViewNext
  \/ Only("browser") /\ BrowserNext
  \/ Only("artifacts") /\ ArtifactsNext
  \/ Only("guard") /\ GuardNext

\* A probe ends, timers go off and the browser delivers its events.
Fairness ==
  /\ WF_vars(Only("online") /\ Handle)
  /\ WF_vars(Only("online") /\ \E p \in Probe : Interval(p))
  /\ WF_vars(Only("online") /\ GoOffline)
  /\ WF_vars(Only("get") /\ Deadline)

Spec == Init /\ [][Next]_vars /\ Fairness

\* As the others rest, a state is told from others by the state of its part.
OwnView ==
  <<part,
    CASE part = "client" -> clientVars
      [] part = "mock" -> mockVars
      [] part = "wire" -> wireVars
      [] part = "tree" -> treeVars
      [] part = "amounts" -> amountVars
      [] part = "friendbot" -> friendbotVars
      [] part = "wallet" -> walletVars
      [] part = "online" -> onlineVars
      [] part = "doctor" -> doctorVars
      [] part = "get" -> getVars
      [] part = "errors" -> errorVars
      [] part = "log" -> logVars
      [] part = "bundle" -> bundleVars
      [] part = "view" -> screenViewVars
      [] part = "browser" -> browserVars
      [] part = "artifacts" -> artifactVars
      [] part = "guard" -> guardVars>>
=============================================================================
