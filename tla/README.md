# Sharibo in TLA+

A verification project for Sharibo: savings circles on Stellar in which every
member of a round pays the same contribution and one member takes the pot,
proving membership in zero knowledge. All paths below are relative to the
repository root (`src/` in `PROJECT.json`).

1. [Inventory](#1-inventory)
2. [Modules](#2-modules)
3. [Correspondence with the code](#3-correspondence-with-the-code)
4. [Runs, bounds and fairness](#4-runs-bounds-and-fairness)
5. [What the code's documentation says and the code does not](#5-divergences)
6. [Proofs](#6-proofs)
7. [Not modelled](#7-not-modelled)
8. [Plan](#8-plan)

## 1. Inventory

| Component | Code | State | Operations |
|---|---|---|---|
| Circle contract | `contracts/sharibo/src/lib.rs`, `storage.rs`, `events.rs` | per circle a `Circle` record (admin, token, root, contribution, size, round, pot, contributors, nullifiers, cancelled, deadline, start ledger, fee) and a `PendingAdmin` entry; the counter `NextCircleId`; the contract's token balance; the TTL of each entry | `create_circle`, `fund`, `claim`, `propose_admin`, `accept_admin`, `expire_round`, `cancel_circle`, nine getters |
| Token | external: a Stellar Asset Contract (SAC) | balances, authorisations | `transfer` |
| Membership circuit | `circuits/membership.template.circom` | none | proves a leaf under a root; outputs the nullifier hash |
| Circuit build | `circuits/scripts`, `scripts/maintenance/clean.mjs`, `app/scripts/sync-circuit.mjs` | the generated source, wasm, proving key, verification key, their hashes, `constraints.json`, the copies the app serves | `gen-circuit`, `compile`, `setup`, `verify-artifacts`, `sync`, `clean`, `check-constraints` |
| Client SDK: calls | `packages/client/src/contract.ts`, `retry.ts`, `decodeError.ts`, `errors.ts`, `events.ts` | cache of contract clients, cache of verification keys, event emitter | `connect`, `createCircle`, `fund`, `claim`, `cancelCircle`, the reads, with retries of simulations |
| Client SDK: values | `tree.ts`, `prove.ts`, `identity.ts`, `validate.ts`, `amount.ts`, `packages/core/src` | shared artifact download | Merkle tree, encodings, checks, amounts |
| App state machine | `app/src/state/circleMachine.ts` | one tagged union: idle, creating, funding, readyToClaim, proving, claiming, claimed, failed | a reducer over some twenty actions |
| App flow | `app/src/screens/CircleScreen.tsx`, `app/src/hooks/useCircleFlow.ts` | React state, a poll timer, an `AbortController` | create, fund, prove and claim, claim again, cancel, 10-second poll |
| App services | `app/src/lib/*`, `app/src/hooks/*`, `app/src/i18n.tsx` | session and local storage, log of SDK events, offline flag, wallet signer | friendbot funding with retries, signing, debug bundle, session, language |
| App components | `app/src/components/*`, `usePoliteLiveRegion.tsx` | live region, focus | what is offered and announced |
| Scripts | `scripts/doctor.ts`, `config.ts`, `http.ts`, `testnet-health.ts`, `e2e.ts`, `smoke.ts` | none | checks and fixes of a machine, configuration, requests, end-to-end drivers |
| Doubles | `app/e2e/mock/client.mock.ts`, `__mocks__/` | circles in memory | the SDK's interface for browser tests |

How they interact. The app drives the SDK; the SDK simulates, signs and
submits transactions; the ledger executes each of them atomically and in one
order; the contract calls the token and the host's pairing check. The app
learns of the outcome from the answer of its own submission and from polling
the getters. Identities and proofs are made on the member's device and tie a
later `claim` to the round that was current when the proof was made.

What is hard, component by component, and what makes it correct:

- **Contract: money.** All circles in a token share one balance, no transfer
  looks at it, and pot, contributor list and balance are three records of the
  same money. Correct means: the balance is the sum of the pots, the pot is
  what its contributors paid, nobody's refund or payout touches another
  circle.
- **Contract: rounds and proofs.** A proof arrives at any time after it was
  made. Correct means: it pays at most once, only the round it was made for,
  only the full pot, only to the address it was made for.
- **Contract: stuck rounds.** Deadline, expiry and cancellation race with
  funding and claiming, and a refund is all or nothing. Correct means: a full
  pot is never expired, a stuck round ends, the way out stays open while
  everybody can be paid.
- **Contract: admin handover.** Nominations outlive the call that made them.
- **Contract: storage.** Entries are archived when nobody touches them.
  Correct means: what must be called later is still live by then.
- **Client: calls.** Calls overlap, simulations are repeated, answers are lost
  after the transaction was sent. Correct means: callers of one account share
  one client, a write is sent once, and what the caller is told is what the
  ledger did.
- **Client: values.** Two writers and two readers of every encoding: JavaScript
  and Rust, JavaScript and the circuit, the user and the client. Correct means:
  read back as written, one encoding per value, an amount exact, or within the
  stroop that a binary fraction costs, or refused.
- **App.** State read before an `await` and used after it, answers out of
  order, aborts that race with a transaction in flight, multi-step flows that
  fail half way, retries of something that already happened, effects of one
  render that overtake those of another. Correct means: what is shown happened,
  every wait ends, nothing that was paid is forgotten.
- **Circuit build.** Some ten scripts write the same files and may be stopped
  anywhere. Correct means: the app serves keys that belong together and the wasm
  they were made with, and the guards speak of the circuit that is there.

The full list, line by line, is `hazards` in `PROJECT.json`.

The commit is a merge that was not finished in places: `accept_admin` and
`cancel_circle` repeat their save with undeclared names (`circle_key`, `key`),
`MAX_CIRCLE_SIZE` is declared twice, some functions of
`packages/client/src/contract.ts` carry the body of another function, and
`useCircleFlow.ts`, `App.tsx` and others each contain two variants. In the
contract the meaning is plain - the repeated save writes the same record under
the same key that `persist_circle` just wrote - and that is what is modelled. In
`contract.ts` a body is modelled by the call it makes (`call_fund`, `get_pot`, ...),
whatever name stands above it. Files that have no single meaning left are in
section 7.

## 2. Modules

| Module | Content |
|---|---|
| `Escrow` | what the contract promises to people who pay in: pools with money of their own |
| `Sharibo` | the contract: every state-changing entry point, ledgers, accounts that cannot receive; refines `Escrow` |
| `ApplyFee` | the fee split of a payout |
| `Totals` | sum of a family of amounts, as a recursive function |
| `StorageLifetime` | TTL, archival and restoration of the contract's entries |
| `CircleScreen` | the app's circle screen: handlers, poll, eligibility check and abort against one circle on the chain |
| `CircleMachine` | the reducer under every order of dispatches, with torn and late reads, next to a circle on the chain |
| `ClientCalls` | a call of the SDK from `connect` to its answer: clients, checks, repeated simulation, one submission, outcome |
| `Errors` | an error on its way from the RPC to the user's words |
| `WireFormat` | bytes of proofs, verification keys and round tags, and what the contract's host reads |
| `MembershipTree` | the tree of commitments against the prover's check and the circuit |
| `Digits` | numbers in a base: powers, shifts, digits and what they write; bytes, decimals and paths are made of it |
| `Amounts` | the contribution a user types, as stroops and back |
| `Friendbot`, `Wallet`, `OnlineStatus` | funding a list of accounts; who signs for which network; the offline banner |
| `DebugBundle`, `Browser` | event log and debug bundle; session, bigint JSON and language across reloads, tabs and releases |
| `ScreenView` | what the circle screen and its components offer, announce and focus |
| `Artifacts`, `ConstraintGuard` | from the circuit to what the app serves; the one generated source and the guard on its size |
| `Doctor`, `HttpGet` | the doctor and the configuration it speaks for; the scripts' request with a deadline |
| `MockChain` | the in-memory chain of the browser tests |
| `MCSharibo`, `MCCircleScreen` | constants and symmetry of the TLC instances |
| `MCClient` | the modules from `ClientCalls` to `MockChain` side by side, for one run |
| `MoneyProofs` | lemmas on sums, exactness of the fee split |
| `ShariboProofs` | types, pots, solvency, refunds |
| `ShariboRoundsProofs` | payouts, nominations, cancellation, full pots; that `Sharibo` implements `Escrow` |
| `StorageLifetimeProofs` | lower and upper bound of an entry's life |
| `CircleScreenProofs` | shown payouts are real, shown members are paid for, an abort reaches the running claim |
| `CircleMachineProofs` | the reducer's invariant and everything that follows from it |
| `ClientProofs` | calls, signer, friendbot, mock chain, artifacts, guard, browser storage, debug bundle, errors, doctor, the screen as it is shown |
| `ValueProofs` | the laws of `Digits`; amounts, encodings, the tree |

`Sharibo` and `StorageLifetime` are two views of the same contract: the first
assumes the entries are live, the second that money and proofs are in order.
An archived entry makes a call fail, which in `Sharibo` is the call not being
made; so every safety property of `Sharibo` also holds with archival. Its
liveness property does not, and section 5 shows the case.

## 3. Correspondence with the code

**Atomicity.** A Soroban transaction either runs to its end or leaves no trace,
and transactions are totally ordered. Each entry point is therefore one action;
`panic_with_error!` and a failing `transfer` are guards, evaluated where the
order of effects does not matter because everything is rolled back. A call that
reverts changes nothing and is not an action.

**State of `Sharibo`.** `circle[id]` is `DataKey::Circle(id)` or `NoCircle`;
`pendingAdmin`, `nextCircleId` the other two keys; `balance[token][address]`
the SAC; `ledger` the sequence number. `contributors` is the code's vector,
`nullifiers` its list as a set (the only test is membership). `schema_version`,
the verification key beyond its number of points, and events are left out.
`payouts` and `nominator` are history variables for the properties.

**Identities and proofs.** A root is the set of members under it. A proof is a
record of the public inputs it verifies for, for some member under the root;
`PayoutAddress` fixes the address each member commits its proofs to.
Anybody may submit any proof of any member for any circle and round with any
recipient, at any time and any number of times (`SomeClaim`). The pairing check
is equality of the four inputs. What this assumes: Groth16 is sound, SHA-256
and Poseidon do not collide, only a member can make its proof.

| Action | Entry point | Note |
|---|---|---|
| `CreateCircle` | `create_circle` | all six rejections; the id is the counter's value |
| `Fund` | `fund` | not expired, pot below target, transfer, checked add |
| `Claim` | `claim` | recipient, full pot, nullifier, round tag, proof; then round, nullifier and pot are written, then fee and net are paid in that order |
| `ProposeAdmin`, `AcceptAdmin` | same | two-step handover; `accept_admin` clears the slot |
| `ExpireRound` | `expire_round` | permissionless; refund loop, next round |
| `CancelCircle` | `cancel_circle` | admin; refund loop, closed for good |
| `CloseLedger`, `ToggleFrozen` | environment | a ledger closes; an account stops or resumes being able to hold the token |

The refund loop is `CanRefund` (every transfer of it would succeed) and
`Refund` (an address gets one contribution per occurrence in the list).
Authorisation (`require_auth`) is the action's `caller` or `from` parameter;
the contract never signs, so `Signer` leaves it out. The transfer of the fee is
skipped when it is zero, as in the code.

In the model the check of the nullifier (`lib.rs:713`) is implied by the check
of the round tag (`lib.rs:720`): a round is left when it is claimed, so its tag
never matches again. The guard is kept because the code has it; no property of
this project could tell that it was removed.

**State of `StorageLifetime`.** `liveUntil[k]` is the last live ledger of each
entry. A new entry gets `MinTtl` ledgers; `ExtendTtl` is the host's rule as
`lib.rs:320-335` states it: nothing happens while `LEDGER_THRESHOLD` or more
ledgers are left. `Restore` is `RestoreFootprintOp`, which anybody may send.

**Atomicity of `CircleScreen`.** JavaScript runs a segment between two awaits
without interruption; an action is such a segment with the continuations that
follow at once, and with the passive effect React runs after the render
(`Render`: the effect of lines 720-746, whose cleanup stops the previous check
from clearing `busy`). A transaction that is awaited takes two actions: the
chain executes it, then the answer arrives. `Throw` is every way an await can
end in `catch`: before the transaction, at its rejection, and after its
execution with the answer lost. A read is taken at one moment and delivered at
another.

| State, action | Code in `CircleScreen.tsx` |
|---|---|
| `circle`, `nullifiers`; `SubmitFund`, `FundAgain`, `SubmitClaim`, `SubmitCancel`, `OtherFunds` | the chain, with the guards and effects of `lib.rs` that a fresh circle without deadline and fee meets |
| `shown` | `pot`, `onChainContributors`, `cancelled`; its round is a history variable, the screen does not keep it |
| `busy`, `round`, `funded`, `pending`, `freighterKey`, `claimResult`, `nullifierClaimed`, `rejection` | the state of the same name |
| `checking` | the mounted instance of `checkEligibility` |
| `flow[i]` | a running handler: what it is, where it stands, the signal of its claim, the members still to fund, the snapshot it read |
| `answer[j]` | a `syncFundingState` of the poll between its read and its answer |
| `FundMember`, `PrepareFund` | `fundMember`, `fundWithFreighter` |
| `DoClaim`, `PrepareClaim`, `ClaimAnswered`, `HasClaimed` | `doClaim`, tests of `signal.aborted` included |
| `ClaimAgain`, `DoCancelCircle`, `StartCircle`, `ResetToLanding` | same names |
| `SyncRead`, `SyncAnswered`; `Poll`, `PollAnswered` | `syncFundingState` at the end of a handler; from the timer |

The SDK functions are taken as the screen's imports and the double in
`app/e2e/mock/client.mock.ts` define them. The prover is external: it may
succeed or throw. `claimAgain` funds the members in list order; the model takes
any order. Two members stand for the five, which the code uses only through
their number. The initial sync, 100 ms after nothing was funded, is a poll.
A submission under way when the screen is left goes on.

**State of `CircleMachine`.** `state` is the discriminated union with every field;
a field its status lacks is `None` or `FALSE`, and `Shape` says which status has
which. One action per action of the reducer (`Start` .. `Reset`, `SyncChain`,
`Resume`), with the guard from its `canX` and early returns. A dispatch the
reducer rejects leaves the state as it is, so it is not a step. Anybody may
dispatch anything at any time; what a dispatch carries was true when it was
learned: a payout is one of `paid`, a snapshot was read. `meta` and `list` are the
two reads of `getCircleStatus`; another ledger may answer the second, and the
answer is delivered at any later time, or without the list. The chain beside
it has the guards of `lib.rs`. `proveTick`, fee estimates, eligibility marks and texts
change fields no transition reads.

**The client's parts.** They share no state, so each is a module of its own, and an
action is a segment between two awaits. What is not under the code's control is
an action as well: the network, the wallet's user, the browser, other scripts.

| Module | State and actions | Code |
|---|---|---|
| `ClientCalls` | a `session` per call with its phase, attempt, events heard and outcome; `promises` of clients and the cache of them, which `clearContractClientCache` empties; `tx` is the ledger's side. `ConnectCached`, `ConnectNew`, `ClientBuilt`, `ClientFails`; `Refuse`; `Attempt`, `Simulated`, `SimulationFails` are `withRetry`; `Send`, `Execute`, `Answer`, `SubmissionFails` are `signAndSend` and what may become of it | `contract.ts`, `retry.ts`, `decodeError.ts` |
| `Errors` | the chain of errors, objects and strings that was thrown, what the SDK makes of it (`DecodeThrown`, `PassOn`, `Local`) and what the screen says (`Tell`); a text is the contract error it names | `decodeError.ts`, `errors.ts`, `CircleScreen.tsx` |
| `WireFormat` | points and their bytes, with byte, field and widths as parameters; `GenerateProof`, `BringBytes`, `ConvertKey`, `BringKey`, `ComputeTag`, each followed by its check and the host's reading | `prove.ts`, `validate.ts`, `identity.ts` |
| `MembershipTree` | `Create` builds the layers, `ProofOf` answers for a leaf; hashing is pairing | both `tree.ts`, `tree.reference.ts`, `membership.template.circom` |
| `Amounts` | what was entered: a decimal, a text with an exponent or a JavaScript number; `expandNumberToDecimalString` goes through the double and `toFixed`, as the code does; `Accept` with its rejections | `amount.ts` |
| `Friendbot` | results in order, the attempt under way; `Created`, `AlreadyFunded`, `Transient`, `Refused`, `Wake` are the answers and the pauses | `friendbot.ts` |
| `Wallet` | the extension's network, account and permission, which the user switches (`SwitchNetwork`, `SwitchAccount`) between any two of `selectSigner`, `RequestAccess`, `RequireNetwork`, `GetAddress`, `SignTransaction`, `Confirm` | `wallet*.ts` |
| `OnlineStatus` | refreshes that overlap (`Interval`, `GoOnline`, `Health`, `Entries`) against link and RPC | `useOnlineStatus.ts`, `testnetHealth.ts` |
| `DebugBundle` | `push` and the bounded log; `copyDebugBundle` up to its await, `Copied` after it; a text is the set of secret patterns it matches | `useSdkEvents.ts`, `debugBundle.ts` |
| `ScreenView` | `Render(view, running)` is a render with its effects: announcement, focus, eligibility check; the handlers are what they set between two renders | `CircleScreen.tsx`, components |
| `Browser` | the two storages; `saveSession`, `loadSession`, `setLocale`, `Reload`, `NewTab`, `StorageChanges` | `session.ts`, `bigintJson.ts`, `i18n.tsx` |
| `Artifacts` | each file as what it holds; `Compile` and `WriteWasm` are the two files circom writes, with `StopCompile` in between; `setup.sh` step by step with `HashFails` and `StopSetup`, looking at the r1cs and never at the wasm; `StartSync` checks, `CopyFile` copies | `compile.sh`, `setup.sh`, `verify-artifacts.mjs`, `sync-circuit.mjs`, `clean.mjs` |
| `ConstraintGuard` | the one generated source; the guard generates and compiles by two programs, others generate and edit between them | `gen-circuit.cjs`, `check-constraints.cjs` |
| `Doctor` | a machine as the set of things wrong with it, `.env` as its lines; `Diagnose`, `runFix`, `Recheck`, `Exit` | `doctor.ts`, `config.ts` |
| `HttpGet` | one request with its timer and listener; `Headers`, `BodyRead`, `Broken`, `Deadline`, `onExternalAbort`; the probe that uses it | `http.ts`, `testnet-health.ts` |
| `MockChain` | the array of circles; each call waits a round trip, `claim` waits again between `claimTag` and `claim` | `client.mock.ts` |

Some facts are properties of the JavaScript and not of a guard. `connect` puts its
promise into the cache before the first `await`, so two callers build two clients
only when the cache was cleared between them. A Soroban contract cannot be re-entered, so `Sharibo` needs no action
between a transfer and what follows it. `simulated` and `sent` are two steps
because the wallet's window may stay open for as long as the user likes.

## 4. Runs, bounds and fairness

| Run | Instance | Checks |
|---|---|---|
| `rounds` | 1 circle, 2 members, 2 accounts, rounds 0..2, ledgers 0..4, valid and invalid parameters of `create_circle`, alice may be frozen and thawed at any time; fair | `TypeOK`, `PotIsDeposits`, `PayoutsAreSound`, `NominationIsCurrent`, `NoStrandedPot`, `FullPotIsKept`, `StuckRoundEnds` |
| `circles` | 2 circles on one token, sizes 1 and 2, fees 0 and 50 %, rounds 0..1 | `Solvency`, and that every behaviour is one of `Escrow` |
| `idle` | 1 circle, threshold 2 < new entry 3 < extension 5, ledgers 0..8 | `WritesBuyTime` |
| `races` | circle screen, 2 members, one outsider, 2 handlers at a time, 1 poll | `TypeOK`, `ResultIsReal`, `LiveClaimIsReachable` |
| `funding` | 2 members and a wallet that pays for either, 1 handler, 1 poll, one member claims; fair | `ShownIsPaid`, `BusyEnds`, `FullPotIsOffered` |
| `dispatch` | the reducer, 2 members, 1 payer, dispatches about one member, 1 read at a time, rounds 0..1; fair | `TypeOK`, `ReadyWasFunded`, `PayoutIsReal`, `FailureCanBeRetried`, `PayoutIsKept`, `RoundNeverGoesBack`, `WaitingFollowsPot` |
| `client` | the sixteen modules of `MCClient`, one at a time; bounds below | the seventeen properties listed below |
| `nullifiers`, `deadline`, `abort`, `vk`, `events` | smallest instance of their module | divergences 1-5 of section 5, each a violation |

`MCClient` gives each behaviour one `part` that moves while the others rest in a
fixed initial state. The parts share no variable, so nothing is lost by this,
and the sum of their states is explored instead of the product. TLC tells states
apart by the state of their part (`OwnView`), for the same reason, and starts the calls of
`ClientCalls` in one order only (`OneCallFirst`), as nothing tells callers apart.

| Part | Property | Bound |
|---|---|---|
| `ClientCalls` | `ClientsAreShared`, `ReportIsTrue` | 2 accounts, 2 callers, 1 retry, 2 clients, 1 clear; a limit of 2, which both accounts stay within |
| `MockChain` | `MockRoundsAreSound` | 1 circle of size 2, 2 funders, 2 nullifiers, 2 calls under way, rounds 0..1 |
| `WireFormat` | `BytesAreReadBack` | bytes of base 2, field elements of 2 bytes, modulus 3, a circle's id of 2 bytes, a round of 1 |
| `MembershipTree` | `ProofIsMembers` | 2 levels, leaves 0..3 of which 3 is no field element |
| `Amounts` | `AcceptedIsWithinAStroop` | base 3, 2 decimals, 2 digits before the point, sizes 0, 1, 3, largest amount 60; `toFixed` with 3 digits; doubles in quarters, with gaps that grow as those of doubles do |
| `Friendbot` | `ReportedFundedExists` | 3 accounts, 3 requests each, any later call for those that failed |
| `Wallet` | `SignsForItsNetwork` | 3 networks (one without a page in the explorer), 2 accounts and the demo key |
| `OnlineStatus` | `StatusSettles` | 2 refreshes at a time |
| `Doctor` | `GreenIsReady` | 2 faults at a time, the shipped `.env` with at most one edit |
| `HttpGet` | `EveryGetEnds` | one request |
| `Errors` | `ToldIsThrown` | contract errors 4, 9, 10 (own class and prose, own class only, prose only), 2 causes |
| `DebugBundle` | `BundleIsSafe` | a log of 2, 3 events, 2 copies at a time |
| `ScreenView` | `HeardIsShown` | one handler besides the eligibility check |
| `Browser` | `StoredIsReadBack` | 2 releases, 2 languages, texts with up to 1 marker |
| `Artifacts` | `ServedBelongTogether` | 2 circuits of which 1 is committed, 2 compilations, 2 keys after the committed one |
| `ConstraintGuard` | `GuardIsComplete` | 2 templates, guarded depths 1 and 2, another depth 3, 2 edits |

*Why the bounds are enough to be interesting.* `rounds` needs a circle that is
funded, paid out, refilled, expired and cancelled: three rounds and a deadline
of two in five ledgers reach every order of those. Both members can prove for
every round, so stale proofs, proofs of the other member and proofs of somebody
who is not under the root (the root `{m1}`) are all submitted. The contribution
of 3 makes a pot of 6 whose fee of 25 % is rounded (1.5 to 1); a contribution
of 4 makes a target of 8 above the scaled `I128_MAX` of 7. Addresses fund more
than once, so one account can hold two shares of a refund. `circles` needs two
pots at the same time in one balance, one of them in its second round.
`idle` keeps the order of the three limits that the real values have
(100 < 4,096 < 500,000); the proofs cover every other choice in that order.
The screen's rounds stop at 1 by themselves: a proof is made for the round
shown, which stays 0. Two handlers run at the same time only when somebody else
has cleared `busy`, and one poll is under way next to them; this is what it
takes for an answer to be overtaken and for a claim to be started twice.
`Claimant` bounds who is picked to claim; in `funding`, whose questions are about
the round before the claim, it is one member. In `dispatch` a read is taken in two
halves and held while the chain moves on through a whole round, so torn and late
answers occur with one request; the proofs cover any number. The moduli of
`client` are the smallest with a value that fits its bytes and is no field
element, the logs and retries the smallest that overflow and are exhausted, and
two callers, refreshes or clicks are what overtaking takes. A stroop of the instance
is a ninth and a double a multiple of a quarter: a third is no double, and numbers do
lose a stroop. With two callers the clients of an account reach the number that one
clear allows and cannot exceed it; the theorem is about any number of callers. Two compilations are one to make a key of and one
to stop.

Bounds that are no parameter of the code (`MaxCircles`, `MaxRound`, `MaxLedger`,
`MaxConnects`, `MaxClears`, `MaxEvents`, `MaxCompiles`, `MaxKeys`, `MaxEdits`, `MaxProbes`, `MaxFaults`, `MaxCauses`,
`MaxMarkers`, `MaxLevels`, `MaxWhole`, `Mock...`, `Request`, `Flow`, `Click`) are marked "bound" where they are
declared. They stop the model, so deadlock checking is off in every
configuration: a cancelled circle in the last ledger has no successor, and the
network does not stop there.

*Fairness* (`FairSpec` of `Sharibo`, run `rounds`). Ledgers keep closing:
`WF(CloseLedger)`, which is the network. `WF(ExpireRound(id))`: the call is
permissionless, costs only a fee, and each contributor of a stuck round gets
its deposit back by it, so once it stays possible somebody makes it. Nothing
else is fair: nobody is obliged to fund, to claim or to cancel. Weak fairness
is enough because only a cancellation or a contributor who becomes unable to
receive can disable an expiry that became possible, and the property allows
for both. A full pot is a legitimate end of waiting: the contract offers no
way to force a claim.

*Fairness* (`FairSpec` of `CircleScreen`, run `funding`). Every await ends, by an
answer or by an error, because the SDK's polling of a transaction and the
browser's requests time out: `WF` of the continuation of each handler. The timer
of the poll fires and its read is answered: `WF` of `Poll` and `PollAnswered`.
Nobody is obliged to click or to pay. `BusyEnds` is stated for the first round of
a circle that is not cancelled, because after that the screen can hang: an old
answer that still shows a full pot starts `checkEligibility` again, the next one
unmounts it before it is done, and then nothing clears `busy` (line 741 asks
`mounted`). In the first round the same happens when answers overtake each
other, and ends when the next full snapshot starts another check.

*Fairness* (`FairSpec` of `CircleMachine`, run `dispatch`). The poll goes on and its
reads are answered: `WF` of `ReadMeta` and `Deliver`. Not of `ReadContributors`, which
may fail: the code syncs without the list then. Nobody has to dispatch anything.

*Fairness* (`MCClient`, run `client`). A probe ends (`Handle`), because the browser
ends its requests; the timer of the offline hook fires (`Interval`); the browser
delivers its event (`GoOffline`); the deadline of `httpGet` is a timer (`Deadline`).
The server is not obliged to answer anything.

*Mutants.* Every property of a passing run has a plausible mistake (the
operators called `Faulty...`, next to the operator they would replace) under
which the same run finds it violated.

<a name="5-divergences"></a>
## 5. What the documentation says and the code does not

Each of the first five is a run of its own that TLC finds violated, and a row of
`findings` in `PROJECT.json` with the lines it quotes.

1. `nullifiers`. A comment in `claim` (`lib.rs:759-764`), ADR 004 and the test
   `test_nullifier_set_is_bounded_by_cycle` say that the nullifiers are cleared
   at cycle boundaries; the code only appends. The test repeats the effects of
   `claim` by hand, with a clearing that `claim` does not have.
2. `deadline`. The check of the deadline against `LEDGER_EXTEND_TO` is meant to keep
   the circle live until `expire_round` can be called. A new entry has more than
   `LEDGER_THRESHOLD` ledgers left, so the extension at creation and at early
   deposits does nothing, and the entry is archived after
   `min_persistent_entry_ttl` (about 5.7 hours by the table in `lib.rs`), long
   before a deadline of up to 29 days. What a write does guarantee is
   `WritesBuyTime`: `LEDGER_THRESHOLD` ledgers. Restoration is permissionless,
   so the money is not lost; the recovery needs a step the code meant to avoid.
3. `abort`. `doClaim` says "Cancel any previous claim that might still be running."
   (`CircleScreen.tsx:1040`). An abort between the test of the signal (line 1107)
   and the answer cancels nothing: the claim is paid, the answer is dropped
   (line 1118), and so is the key of the recipient made at line 1104. The second
   click this takes gets through because handlers and `checkEligibility` clear
   each other's `busy`.
4. `vk`. `verificationKeyToContractFormat` packs the two halves of a G2 coordinate in
   the order of snarkjs' file; `docs/wire-format.md` wants the other order, which
   `encodeG2` uses for proofs. The host reads another point than the file has.
5. `events`. `connect` hands out a cached client with the first caller's event handler; its
   comment and a test say that the newest caller's replaces it.

*Seen while modelling, stated here without a run.*

Contract. `expire_round` says `sequence() > start + deadline` (`lib.rs:1064`), the
code has `>=` (`lib.rs:1329`), for `fund` and `expire_round` alike, so in every
ledger exactly one of the two is refused on account of the deadline. The
documentation of `claim` and `has_claimed` says an identity can claim once per
circle; the nullifier is per round, as ADR 002 wants it.
`compute_recipient_hash` (`lib.rs:1229`) hashes the XDR of the address,
`identity.ts:123` its raw key.

Circuit and its build. The template declares `externalNullifier` twice. `createCircle`
asks for four points of inputs in a key, `docs/wire-format.md` for five.
A refused rotation in `setup.sh` has already replaced both keys: the next run
finds them consistent, takes the fast path and exits 0, and `git checkout` of the
verification key cannot bring the old proving key back. `compile.sh` writes r1cs and
wasm one after the other; stopped in between it leaves the old wasm, and `setup.sh`
looks at the r1cs only and hashes whatever wasm is there. With the rotation
acknowledged all three hashes are good over a wasm and a proving key of different
circuits, although the header of `verify-artifacts.mjs` (lines 4-7) names a wasm
that proves a different statement as what it guards against. `ServedBelongTogether`
speaks of the wasm only if it was the key's circuit's when the key was made. No `.sha256` file is
committed, and the names in `artifact-hashes.json` (`r1cs`, `wasm`, `sym`) are not
those `verify-artifacts` looks up, so it reports `MISSING_HASH` until somebody
has made a key (`circuits/README.md:74` says otherwise). `sync --watch` may copy
a file that changed after the check. `check-constraints` leaves `membership.circom`
at its last depth. `LEVELS` of the environment goes before `gen-circuit`'s argument.

SDK. `expireRound`, `proposeAdmin`, `acceptAdmin` and `getStatus` carry other functions'
bodies; `connectReadOnly` calls a function that is not defined, and
`startArtifactPrefetch` one that throws at once. `getVk` is said to read at most
once per session; overlapping calls read twice. `retry.ts:13-14` says contract
errors are not repeated; a contract error whose diagnostic log holds a number
such as 503 counts as transient and is. That is harmless, as only simulations are repeated.
A failed connection after `clearContractClientCache` forgets the newer client.
`packages/client/README.md:166` says the cache is an LRU capped at 16 clients, and a
test (`contract.test.ts:106-121`) that the seventeenth account evicts the first, for
which another client is built; `CONTRACT_CLIENT_CACHE_LIMIT` (`contract.ts:97`) is
read nowhere, nothing is evicted and nothing bounds the cache. The same page says the
app clears it on a network mismatch and on the landing screen; nothing in the app
calls `clearContractClientCache`. So `ClientsAreShared` is stated for as many accounts as the
documents and the code agree on.
`docs/errors.md:92-96` says `xlmToStroops` rejects a `number` with a `TypeError`; it takes
numbers, and texts with an exponent, by way of `toFixed(20)` and cuts after seven
decimals. The comment in `amount.ts:62-63` says that leaves digits enough, but 0.3 is
0.29999999999999998890 there: 0.3 and "3e-1" are accepted as 2999999 stroops,
"0.3" as 3000000. The app passes the constant 10 and meets none of this. `generateProof` leaves `recipientHash` out.

App. `debugBundle.ts:62` says events come redacted; `toLogged` redacts nothing (the
button passes none). `session.ts` revives a text that looks like a marked
bigint. A network that the wallet's user named himself passes `checkNetworkMatch`.
The links of `lib/explorer.ts` always lead to testnet. `syncFundingState` leaves the
round as it was, so a later full pot of the same circle is shown and cannot be
claimed (lines 1129 and 1180 promise the on-chain state). Leaving asks first
"when a circle is mid-flow" (lines 761-763), but not about deposits
that `claimAgain` made. `checkEligibility` takes circle 0 for none; an unmounted check
can leave the screen busy after the first round. An error is not announced
beside a result, the live region keeps its last text when there is nothing to
say, `ResultCard` lacks two of the screen's conditions, and `Fund` stays offered on
a cancelled circle.

Scripts. The doctor reads the last line of a duplicate key and only the file, the
loader the first line and the process first; the RPC URL is optional for the
doctor and required by the loader; neither passphrase nor `SHARIBO_ENV_FILE`
is looked at. These are the exceptions (`ReadersPart`) of `GreenIsReady`.
The in-memory chain pays two overlapping claims of one pot and answers a second
deposit of one address with an error, which the contract accepts.

## 6. Proofs

All proofs are checked by TLAPS for every value of the constants that satisfies
the named assumptions of the modules (`AddressAssumption`, `BoundAssumption`,
`InputAssumption`, `NoCircleAssumption`; `LifetimeAssumption`;
`PayerAssumption`, `ClaimantAssumption`, `NoClaimAssumption`; `MemberAssumption`,
`MaxRoundAssumption`, `NoneAssumption`; one for each part of the client).

**Money** (`ShariboProofs`). `Solvency` is not inductive: a refund pays by
contributor and the pot is reset, so the step keeps the balance equal to the sum
of pots only if the pot equals contribution times contributors; a fee paid to
the contract itself would leave the pot but not the balance; and a circle created
on an id in use would erase a pot. So the inductive invariant is

    AccountsInv == TypeOK /\ IdsAreFresh /\ FeeLeaves /\ PotIsDeposits /\ Solvency

and each action preserves each conjunct. The sum over circles is handled by
`TotalUpdate` of `MoneyProofs` (changing one summand changes the sum by the
difference); the split of a payout by `ApplyFeeIsExact`, proved from division
with remainder. `TypeOK` contains that balances are natural numbers, which for
the contract's own balance is not a typing fact but a consequence of
`Solvency`. `NoPotIsStranded` follows from the invariant without a further
induction: the balance covers each pot, and the pot covers its refund.

**Rounds** (`ShariboRoundsProofs`). `PayoutsAreSound` is inductive together with
`AccountsInv`: a payout of round r leaves the circle in round r + 1, and only
`Claim` adds payouts, of the round it leaves. `NominationIsCurrent` needs that a
slot is empty as long as there is no circle, and that the only action that
changes the admin empties the slot. The two action properties follow from the
guards of each action and the invariant.

**Refinement** (`ShariboRoundsProofs`). `ContractIsEscrow` shows that every step of
the contract, seen through the mapping at the end of `Sharibo`, is a step of one
pool or a stutter. The mapping drops the contract's balance altogether, so the
step of a refund or payout has to be matched from the wallets' side: a payout
of the whole `pot` is a payout of `stake * Len(deposits)` only by
`PotIsDeposits`; `pot = target` means "all seats taken" only because the stake
is positive (`SameStake`, `FreeSeat`); the split is the abstract fee by
`ApplyFeeIsExact`; and a fee that stayed in the contract would be missing from
the wallets, which `FeeLeaves` excludes. So the induction runs on `AccountsInv`
again, and no further invariant is needed.

**Lifetimes** (`StorageLifetimeProofs`). The inductive invariant bounds each
entry's last live ledger from both sides in terms of the history variables.

**Circle screen** (`CircleScreenProofs`). `ResultIsReal` is not inductive: `doClaim`
copies onto the screen what its transaction did some awaits earlier. The
invariant `ScreenInv` adds that a claim at the await after its execution has its
proof in `nullifiers` (`LandedIsPaid`), that each handler carries what its kind
needs (`Equipped`), and that the round shown, hence the round of every proof, is 0
(`FirstRound`), which is also why the circle's round stays within its type.
`LiveClaimIsReachable` needs only the types: `doClaim` aborts what the ref held
before it takes it, and a handler that ends releases only its own. There is one
lemma per action, with one step per conjunct.
`ShownIsPaid` counts: its invariant `PaidInv` says that the members who paid from
an account of their own and those the wallet paid for, recorded or in a handler
whose answer is still to come, are together no more than the payments of the
pot. The second half is needed because `freighterKey` is written after the answer.

**Reducer** (`CircleMachineProofs`). `MachineInv` joins the types with `Shape` (which
fields a status has), `ReadsAreReal` and `WasReached` (a pot that the machine or a
read under way takes for full was full in that round, and no round is ahead of
the chain), `ReadyWasFunded` and `PayoutIsReal`. `ReadyWasFunded` alone is not inductive: a
failure goes to `failed` and back by `retry`, so what `failed` keeps has to be
as good as what it came from. The two action properties follow step by step.

**Client** (`ClientProofs`). Each part has its invariant.

| Property | Invariant and why it is needed |
|---|---|
| `ClientsAreShared` | `CacheInv` with `AliveInv`: what the cache holds is alive, and an account for which it holds nothing has no more clients alive than there were clears. The second half is needed for the client that is built next, and counts the newer client which a failure after a clear forgets |
| `ReportIsTrue` | `CallsInv`: what was sent, heard and told in each phase; a successful answer is only given for a transaction the ledger has settled, and what `getVk` keeps somebody has read |
| `SignsForItsNetwork` | `WalletInv`: a signer has an address the app was allowed to take, and what waits for the user's confirmation is the network that passed the check, whatever he switched to since |
| `ReportedFundedExists` | `FriendbotInv`: results are of the first accounts in order, accounts never vanish |
| `MockRoundsAreSound` | `MockInv` with `CircleOK`: there are as many claims as rounds that ended, and the nullifier of each is among the used ones, which is what the second half of `claim` tests |
| `ServedBelongTogether` | `ArtifactsInv`: the hashes of a key that is still there were recorded together by the setup that made it, because no key is ever made twice (`HashesInv`, from `SetupInv`); so keys that pass the check belong together, and so does the wasm that was there when the key was made (`Together`), and the copies of a sync are of what passed (`SyncInv`) |
| `GuardIsComplete` | `GuardInv`: as long as nothing has failed, every depth already compared is recorded with the template's size, and the source under the compiler is of the template, whoever generated it last |
| `StoredIsReadBack` | `BrowserInv`: the two storages hold what was written last; `MarkersAreUndone` is the lemma about the JSON |
| `BundleIsSafe` | `BundleInv`: each event of the log is the one before the next; `KeptTail` is the lemma about cutting it |
| `ToldIsThrown` | `ErrorsInv`: what was decoded is what the walk found. With nothing hidden the walk reaches the whole chain (`ReachedIfNotHidden`), and its first find is the first contract error (`DecodeFinds`, by well-founded induction on positions); both ways of putting it into words name its code (`ContractErrorIsTold`) |
| `GreenIsReady` | `DoctorInv`: the checks printed are those of the machine as it is, and fixes come before. `NothingFails` says what a machine without a blocking check is, `GoodEnvLoads` that its `.env` satisfies the loader's rules: there the two readers are compared, key by key |
| `HeardIsShown` | `ScreenViewInv`: what is to be said of the state on the screen has been said or waits for the timer (`SaysWhatIsShown`). The property speaks only of a timer at rest, so it is not inductive; and the effect runs only when one of its dependencies changed, which is enough because what is said depends on nothing else (`SaidOfDependencies`) |

**Values** (`ValueProofs`). The library's induction theorems take an operator and
cannot be used, but induction over numbers can be had in first order: every
set of numbers that is not empty has a least element (`SetInduction` of `MoneyProofs`,
`UpTo`), and a recursive function is the one sequence of values that follows its
rule (`StepsExist`, `StepsUnique`). From these two come the recursion laws of `Digits`
(`PowerSteps`, `ShiftedSteps`, `LeadingSteps`), and from them, for every base, length and
value, `DigitsReadBack` and `NumberReadBack`: n digits and the numbers below b^n are one
to one. The bytes of a field element, the decimals of an amount, the tag of a
round and the capacity of a tree are instances.

| Property | Argument |
|---|---|
| `AcceptedIsWithinAStroop` | for decimals, the number of a text of digits followed by another is the first times a power plus the second (`NumberOfConcat`), so padding the decimals with zeros multiplies by the missing power (`PaddedFraction`, `ZerosMakeZero`); what is shown is the quotient and the remainder by a stroop's power, with zeros at the end cut, which loses nothing (`NothingIsCut`, `WrittenIsReadBack`). For numbers, there is a nearest double (`NearestIsDouble`, from `Least`: a set of naturals has a least member), its last digit is the nearest one (`FixedIsNear`), and cutting the digits after the stroop's takes less than a stroop (`CutFraction`, `NumberIsCut`, `NumberIsNear`) |
| `BytesAreReadBack` | a point's bytes are its coordinates' bytes one after another, so the slices are the coordinates (`JoinedSeqs`, `TwoElements`, `FourElements`) and, conversely, bytes are their slices (`AllTwo`, `AllFour`); the check of the client is what makes the second direction true, because a coordinate plus the modulus fits the bytes as well. Tags of equal bytes have equal parts (`TagsDiffer`). The invariant `WireInv` says that what was received was read from what was sent, after the check |
| `ProofIsMembers` | each layer is the hashes of pairs of the one below (`LayersAreTree`), the check of a path hashes upwards along siblings (`PathIsHashed`), and both meet at the node above the index on every level (`PathMeetsTree`, by induction on levels). That nothing else passes (`OnlyItsLeaf`) and that the root commits to the leaves (`RootCommits`) go downwards, using that hashing is pairing |

*Theorems that no run states.* `ApplyFeeIsExact`, `AccountsAreKept`, `MachineIsSound` (the
inductive invariants and the arithmetic), `IdleEntriesAlwaysArchive` (no call buys
more than `LEDGER_EXTEND_TO` ledgers), `CancelledStaysFinal` and `GetStaysBounded` (the
safety half of `EveryGetEnds`: by `GetInv` a request waits exactly as long as its timer is
set).

`DigitsReadBack` and `NumberReadBack` are the laws of the encodings.

*Only model-checked.* The liveness properties `StuckRoundEnds`, `BusyEnds`,
`FullPotIsOffered`, `WaitingFollowsPot`, `StatusSettles` and that of `EveryGetEnds`, because
liveness under fairness is beyond the prover here; and the violations. Every
invariant and every action property of a passing run is also a theorem.

## 7. Not modelled

- The arithmetic of Groth16, Poseidon and SHA-256: assumed ideal.
- Tokens other than the SAC. The contract's documentation requires members to
  check the token; a token that calls back or lies about transfers is excluded.
- Reverted calls, fees and resource limits of transactions.
- The contract's getters, which change nothing, and its events: each entry point
  publishes one event last, so it appears exactly when the call succeeds.
- Of the circle screen: `loadState` in the races (nothing saves the session it
  restores; `ScreenView` has its renders), who is ineligible and which radio
  button is checked, texts, stages and timings.
- Code that has no single meaning in this commit: `useCircleFlow.ts`, `App.tsx`, the
  app's `config.ts`, `Landing` and `MemberRing` (two variants merged or not
  parsable), `main.tsx`; `sdk.ts` (its `getStatus` returns the number of circles,
  `connect` passes other arguments than the constructor declares); `artifacts.ts` with its
  prefetch (`getDefaultLoader` is not defined, so every download throws);
  `ClaimProgress`, which nothing shows, and the toaster's `failure`, which nothing sets.
- `scripts/e2e.ts` (uses `get`, `execFileAsync`, `claimant` and `merkleProof` without
  defining them) and `scripts/smoke.ts` (its `httpGetJson` is never imported).
- `__mocks__/@sharibo/client.ts`, which returns constants; `retry.ts`' delays and jitter.
- The ceremony scripts, `verify-setup.sh` and `check-poseidon-constants`, which write no
  file the others read.
- Locales' wording, markup and styles.

`components` in `PROJECT.json` says the same part by part.

## 8. Plan

1. *Done:* the contract (`Sharibo`, `Escrow`, `ApplyFee`, `StorageLifetime`), the screen
   (`CircleScreen`), the reducer (`CircleMachine`) and their proofs.
2. *Done:* the client's parts, the app's services and components, the build and the
   scripts (`MCClient`), with proofs of every part but `OnlineStatus`, whose only
   property is liveness.
3. `ShariboEvents`: the events rebuild the circle (`docs/events.md`).
4. Once the merge is finished: the flow hook, the SDK's facade, the artifact
   loader with its shared download, and `e2e.ts` against `ClientCalls`.
