------------------------------- MODULE Wallet -------------------------------
(***************************************************************************)
(* Who signs for the app, and for which network (app/src/lib/wallet.ts,    *)
(* wallet.freighter.ts, wallet.demoKeypair.ts), and where the link to what *)
(* was sent leads (explorerTxUrl of packages/client/src/contract.ts).  The *)
(* extension is not under the app's control: its user switches network and *)
(* account between any two of its answers.                                 *)
(***************************************************************************)
EXTENDS Naturals, FiniteSets

CONSTANTS
  Passphrase,            \* network passphrases
  KnownPassphrase,       \* Networks.PUBLIC, TESTNET and FUTURENET of the Stellar SDK
  HostedPassphrase,      \* those whose transactions stellar.expert shows
  appNetworkPassphrase,  \* the app's setting
  WalletAddress,         \* accounts of the extension
  DemoAddress,           \* the generated or restored key
  NoNetwork              \* nothing

ASSUME WalletAssumption ==
  /\ HostedPassphrase \subseteq KnownPassphrase /\ KnownPassphrase \subseteq Passphrase
  /\ appNetworkPassphrase \in KnownPassphrase
  /\ NoNetwork \notin Passphrase /\ DemoAddress \notin WalletAddress

VARIABLES
  walletNetwork,  \* the network the extension is on: what it is called, and its passphrase
  walletAccount,  \* the account it is on
  allowed,        \* whether it knows the app
  options,        \* of selectSigner: whether the user opted in; whether the extension answers
  stage,          \* where selectSigner, createFreighterSigner and signTransaction stand
  pubKey,         \* the signer's address; empty before there is one
  checked,        \* the network requireNetwork returned last
  switched,       \* (history) whether the user changed the account of a signer
  signatures      \* (history) the last signature: for which network, by whom, in whose name

walletVars == <<walletNetwork, walletAccount, allowed, options, stage, pubKey, checked,
                switched, signatures>>

\* explorerTxUrl: the network a link leads to; no link where the explorer has none.
EXPLORER_NETWORKS == HostedPassphrase
explorerTxUrl(passphrase) == EXPLORER_NETWORKS \cap {passphrase}

\* What is known of a signature: the link is the one its TxResult carries, for the
\* network the client was connected to.
Signature(network, by, for) ==
  [network |-> network.passphrase, named |-> network.label # NoNetwork, by |-> by, for |-> for,
   link |-> explorerTxUrl(appNetworkPassphrase)]

\* The extension's own networks, and those its user added under names of his own.
Network == [label : {NoNetwork}, passphrase : Passphrase]
             \cup { [label |-> p, passphrase |-> p] : p \in KnownPassphrase }

WalletInit ==
  /\ walletNetwork \in Network /\ walletAccount \in WalletAddress
  /\ allowed \in BOOLEAN
  /\ options \in [optedIn : BOOLEAN, available : BOOLEAN]
  /\ stage = "select" /\ pubKey = {}
  /\ checked = [label |-> NoNetwork, passphrase |-> NoNetwork]
  /\ switched = FALSE /\ signatures = {}

\* A network whose name the app does not know has no passphrase here.
freighterNetworkToPassphrase(network) == network.label

\* Nothing can be said of a network without a name.
checkNetworkMatch(network) ==
  freighterNetworkToPassphrase(network) \in {NoNetwork, appNetworkPassphrase}

\* The user, in the extension.
SwitchNetwork ==
  /\ walletNetwork' \in Network
  /\ UNCHANGED <<walletAccount, allowed, options, stage, pubKey, checked, switched, signatures>>
SwitchAccount ==
  /\ walletAccount' \in WalletAddress
  /\ switched' = (switched \/ pubKey # {})
  /\ UNCHANGED <<walletNetwork, allowed, options, stage, pubKey, checked, signatures>>

\* selectSigner: the demo key unless the user opted in and the extension answers.
selectSigner ==
  /\ stage = "select"
  /\ IF options.optedIn /\ options.available
     THEN stage' = "access" /\ UNCHANGED pubKey
     ELSE stage' = "demo" /\ pubKey' = {DemoAddress}
  /\ UNCHANGED <<walletNetwork, walletAccount, allowed, options, checked, switched, signatures>>

\* isAllowed, then requestAccess, whose answer the code does not look at.
RequestAccess ==
  /\ stage = "access"
  /\ allowed' \in {allowed, TRUE}
  /\ stage' = "network"
  /\ UNCHANGED <<walletNetwork, walletAccount, options, pubKey, checked, switched, signatures>>

\* requireNetwork, when the signer is created and before every signature.
RequireNetwork ==
  /\ stage \in {"network", "signing"}
  /\ IF checkNetworkMatch(walletNetwork)
     THEN /\ checked' = walletNetwork
          /\ stage' = IF stage = "network" THEN "address" ELSE "confirm"
     ELSE /\ stage' = IF stage = "network" THEN "failed" ELSE "ready"
          /\ UNCHANGED checked
  /\ UNCHANGED <<walletNetwork, walletAccount, allowed, options, pubKey, switched, signatures>>

\* getAddress: no address unless the app is allowed.
GetAddress ==
  /\ stage = "address"
  /\ IF allowed THEN pubKey' = {walletAccount} /\ stage' = "ready"
                ELSE stage' = "failed" /\ UNCHANGED pubKey
  /\ UNCHANGED <<walletNetwork, walletAccount, allowed, options, checked, switched, signatures>>

SignTransaction ==
  /\ stage = "ready"
  /\ stage' = "signing"
  /\ UNCHANGED <<walletNetwork, walletAccount, allowed, options, pubKey, checked, switched,
                 signatures>>

\* toShariboSigner: the signer's name is the address it had when it was made.
signerAddress == CHOOSE a \in pubKey : TRUE

\* The call names the network the check returned.
FaultySigned == Signature([checked EXCEPT !.passphrase = walletNetwork.passphrase],
                          walletAccount, signerAddress)
Signed == Signature(checked, walletAccount, signerAddress)

\* The user confirms or refuses.
Confirm ==
  /\ stage = "confirm"
  /\ signatures' \in {signatures, {Signed}}
  /\ stage' = "ready"
  /\ UNCHANGED <<walletNetwork, walletAccount, allowed, options, pubKey, checked, switched>>

\* basicNodeSigner signs for the network the demo signer was made with.
DemoSign ==
  /\ stage = "demo"
  /\ signatures' = {Signature([label |-> appNetworkPassphrase, passphrase |-> appNetworkPassphrase],
                              DemoAddress, signerAddress)}
  /\ UNCHANGED <<walletNetwork, walletAccount, allowed, options, stage, pubKey, checked, switched>>

WalletNext ==
  \/ SwitchNetwork \/ SwitchAccount \/ selectSigner \/ RequestAccess \/ RequireNetwork
  \/ GetAddress \/ SignTransaction \/ Confirm \/ DemoSign

WalletSpec == WalletInit /\ [][WalletNext]_walletVars

----------------------------------------------------------------------------
(* Properties.                                                             *)

\* Whatever the user switches to and when: a signature is good on the app's network
\* only, and on the one its link shows, unless the user gave another network a name of
\* his own; the extension signs only for a user who opted in and let the app in; and
\* a signature is made by the account it is submitted for, unless the user changed
\* accounts after the signer had taken its address.
SignsForItsNetwork ==
  \A s \in signatures :
    /\ s.named => s.network = appNetworkPassphrase /\ s.link \subseteq {s.network}
    /\ s.by # DemoAddress => options.optedIn /\ allowed
    /\ s.by # s.for => switched /\ s.for \in WalletAddress
=============================================================================
