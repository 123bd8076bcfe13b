------------------------------ MODULE Sharibo ------------------------------
(***************************************************************************)
(* The Sharibo contract (contracts/sharibo/src/lib.rs): savings circles    *)
(* that pool one token balance.  Members fund a round, one of them takes   *)
(* the whole pot with a zero-knowledge proof of membership, and a stuck    *)
(* round is refunded by expire_round or cancel_circle.                     *)
(*                                                                         *)
(* A Soroban transaction is atomic: an entry point either runs to its end  *)
(* or leaves no trace.  So each entry point is one action, its early       *)
(* returns (panic_with_error!) and the failures of the token transfers it  *)
(* makes are guards, and the interleaving is that of whole transactions    *)
(* with the closing of ledgers.                                            *)
(***************************************************************************)
EXTENDS Integers, Sequences, FiniteSets, Totals, ApplyFee

CONSTANTS
  Address,         \* accounts and contracts
  Contract,        \* env.current_contract_address()
  NoAddress,       \* an empty PendingAdmin slot
  Token,           \* SAC token contracts
  Member,          \* identities (secret, nullifier) behind the commitments
  PayoutAddress,   \* the recipient each member commits its proofs to
  Roots,           \* Merkle roots: each is the set of members under it
  Freezable,       \* accounts that may become unable to send or receive
  NoCircle,        \* no persistent entry at DataKey::Circle(id)
  Admins, Contributions, Sizes, KeyLengths, Deadlines, FeeRates, FeeRecipients,
                   \* the inputs create_circle is called with
  Nominees,        \* the inputs propose_admin is called with
  InitialBalance,  \* what each account holds of each token at the start
  I128_MAX, U32_MAX,             \* widths of amounts and ledger numbers
  MaxCircles, MaxRound, MaxLedger \* bounds: circle ids, rounds, ledgers

MAX_CIRCLE_SIZE    == 16
PUBLIC_INPUT_COUNT == 4
LEDGER_EXTEND_TO   == 500000

CircleId == 0 .. MaxCircles - 1
Round    == 0 .. MaxRound
\* Whoever signs a transaction; the contract never calls itself.
Signer   == Address \ {Contract}

\* compute_external_nullifier: a hash of (circle_id, round), injective here.
ExternalNullifier(id, round) == <<id, round>>
\* The circuit's nullifierHash = Poseidon(idNullifier, externalNullifier).
NullifierHash(member, external_nullifier) == <<member, external_nullifier>>

Circle ==
  [ admin : Address, token : Token, root : Roots,
    contribution : Nat \ {0}, size : 1 .. MAX_CIRCLE_SIZE,
    round : Round, pot : 0 .. I128_MAX,
    contributors : Seq(Address),
    nullifiers : SUBSET (Member \X (CircleId \X Round)),
    cancelled : BOOLEAN,
    round_deadline_ledgers : Nat, round_started_ledger : 0 .. MaxLedger,
    fee_bps : 0 .. MAX_FEE_BASIS_POINTS, fee_recipient : Address ]

\* What a member can prove: it is under the root, and binds the proof to one
\* circle and round and to the address it wants to be paid at.
Proofs ==
  { p \in [ member : Member, root : Roots,
            external_nullifier : CircleId \X Round, recipient : Address ] :
      p.member \in p.root /\ p.recipient = PayoutAddress[p.member] }

\* What the escrow view below keeps of a circle.
CircleView ==
  [ token : Token, stake : Nat, seats : Nat, rate : 0 .. MAX_FEE_BASIS_POINTS,
    feeTo : Address, round : Round, deposits : Seq(Address), closed : BOOLEAN ]

\* A payout made by claim, kept for the properties only.
Payout == [ round : Round, proof : Proofs, recipient : Address,
            net : 0 .. I128_MAX, fee : 0 .. I128_MAX ]

ASSUME AddressAssumption ==
  /\ Contract \in Address
  /\ NoAddress \notin Address
  /\ PayoutAddress \in [Member -> Signer]
  /\ Freezable \subseteq Signer
  /\ Roots \subseteq SUBSET Member
ASSUME BoundAssumption ==
  /\ MaxCircles \in Nat /\ MaxRound \in Nat /\ MaxLedger \in Nat
  /\ I128_MAX \in Nat /\ U32_MAX \in Nat /\ MaxLedger <= U32_MAX
ASSUME InputAssumption ==
  /\ Admins \subseteq Signer /\ FeeRecipients \subseteq Address /\ Nominees \subseteq Address
  /\ Contributions \subseteq Int
  /\ Sizes \subseteq Nat /\ KeyLengths \subseteq Nat /\ Deadlines \subseteq Nat /\ FeeRates \subseteq Nat
  /\ InitialBalance \in Nat
ASSUME NoCircleAssumption == NoCircle \notin Circle /\ NoCircle \notin CircleView

VARIABLES
  circle,        \* DataKey::Circle(id)
  nextCircleId,  \* DataKey::NextCircleId
  pendingAdmin,  \* DataKey::PendingAdmin(id)
  balance,       \* the token contracts' balances
  frozen,        \* accounts no transfer can touch (no trustline, merged, ...)
  ledger,        \* env.ledger().sequence()
  payouts,       \* history: the payouts of each circle
  nominator      \* history: the admin that made the pending nomination

history == <<payouts, nominator>>
vars == <<circle, nextCircleId, pendingAdmin, balance, frozen, ledger, history>>

----------------------------------------------------------------------------
(* The SAC token, as the contract uses it.                                 *)

CanTransfer(token, from, to, amount) ==
  /\ from \notin frozen /\ to \notin frozen
  /\ balance[token][from] >= amount

Transfer(holdings, from, to, amount) ==
  [holdings EXCEPT ![from] = @ - amount, ![to] = @ + amount]

----------------------------------------------------------------------------
(* Helpers of the contract.  The operators named Faulty... are plausible   *)
(* mistakes in the operator that follows them; no specification uses them: *)
(* they show that a property can be broken.                                *)

\* load_circle and load_active_circle.
Stored(id) == circle[id] # NoCircle
FaultyActive(id) == Stored(id)
Active(id) == Stored(id) /\ ~ circle[id].cancelled

SaturatingAdd(a, b) == IF a + b > U32_MAX THEN U32_MAX ELSE a + b

FaultyIsRoundExpired(c) ==
  /\ c.round_deadline_ledgers # 0
  /\ ledger = SaturatingAdd(c.round_started_ledger, c.round_deadline_ledgers)

IsRoundExpired(c) ==
  /\ c.round_deadline_ledgers # 0
  /\ ledger >= SaturatingAdd(c.round_started_ledger, c.round_deadline_ledgers)

\* pot_target; the check of fund and expire_round that the pot is below it.
PotTarget(c) == c.contribution * c.size
FaultyUnderfunded(c) == c.pot <= PotTarget(c)
Underfunded(c) == c.pot < PotTarget(c)

\* The number of times an address occurs among the contributors.
Count(a, contributors) ==
  Cardinality({i \in DOMAIN contributors : contributors[i] = a})

\* The guard and the effect of the refund loop: every contributor gets one
\* contribution back for each of its deposits, or the whole loop reverts.
CanRefund(c) ==
  /\ \A i \in DOMAIN c.contributors :
        /\ c.contributors[i] # Contract
        /\ c.contributors[i] \notin frozen
  /\ balance[c.token][Contract] >= c.contribution * Len(c.contributors)

\* Refunds each address once, however often it funded.
FaultyRefundOnce(holdings, c) ==
  LET payees == {c.contributors[i] : i \in DOMAIN c.contributors}
  IN  [a \in Address |->
         IF a = Contract THEN holdings[a] - c.contribution * Cardinality(payees)
         ELSE IF a \in payees THEN holdings[a] + c.contribution ELSE holdings[a]]
\* Refunds everything to the first contributor.
FaultyRefundFirst(holdings, c) ==
  IF c.contributors = << >> THEN holdings
  ELSE Transfer(holdings, Contract, c.contributors[1], c.contribution * Len(c.contributors))
\* Refunds one contribution too many.
FaultyRefundExtra(holdings, c) ==
  Transfer(holdings, Contract, c.admin, c.contribution * (Len(c.contributors) + 1))

Refund(holdings, c) ==
  [a \in Address |->
     IF a = Contract
       THEN holdings[a] - c.contribution * Len(c.contributors)
       ELSE holdings[a] + c.contribution * Count(a, c.contributors)]

\* The pairing check, for the public inputs
\* [nullifier_hash, root, external_nullifier, recipient_hash].
FaultyVerifyGroth16(proof, nullifier_hash, root, external_nullifier, recipient) ==
  /\ proof.root = root
  /\ proof.external_nullifier = external_nullifier
  /\ NullifierHash(proof.member, proof.external_nullifier) = nullifier_hash

VerifyGroth16(proof, nullifier_hash, root, external_nullifier, recipient) ==
  /\ proof.root = root
  /\ proof.external_nullifier = external_nullifier
  /\ NullifierHash(proof.member, proof.external_nullifier) = nullifier_hash
  /\ proof.recipient = recipient

----------------------------------------------------------------------------
(* The entry points.                                                       *)

CreateCircle(admin, token, root, contribution, size, deadline, ic_len, fee_bps, fee_recipient) ==
  /\ nextCircleId < MaxCircles
  /\ size > 0 /\ size <= MAX_CIRCLE_SIZE /\ contribution > 0
  /\ ic_len = PUBLIC_INPUT_COUNT + 1
  /\ fee_bps <= MAX_FEE_BASIS_POINTS
  /\ fee_bps > 0 => fee_recipient # Contract
  /\ deadline < LEDGER_EXTEND_TO
  /\ contribution * size <= I128_MAX
  /\ circle' = [circle EXCEPT ![nextCircleId] =
       [ admin |-> admin, token |-> token, root |-> root,
         contribution |-> contribution, size |-> size, round |-> 0, pot |-> 0,
         contributors |-> << >>, nullifiers |-> {}, cancelled |-> FALSE,
         round_deadline_ledgers |-> deadline, round_started_ledger |-> ledger,
         fee_bps |-> fee_bps, fee_recipient |-> fee_recipient ]]
  /\ nextCircleId' = nextCircleId + 1
  /\ UNCHANGED <<pendingAdmin, balance, frozen, ledger, history>>

Fund(id, from) ==
  /\ Active(id)
  /\ LET c == circle[id] IN
       /\ ~ IsRoundExpired(c)
       /\ Underfunded(c)
       /\ CanTransfer(c.token, from, Contract, c.contribution)
       /\ c.pot + c.contribution <= I128_MAX
       /\ balance' = [balance EXCEPT ![c.token] = Transfer(@, from, Contract, c.contribution)]
       /\ circle' = [circle EXCEPT ![id].pot = @ + c.contribution,
                                   ![id].contributors = Append(@, from)]
  /\ UNCHANGED <<nextCircleId, pendingAdmin, frozen, ledger, history>>

\* Forgets to clear the contributors of the round that ended.
FaultyOpenNextRound(c) ==
  [c EXCEPT !.pot = 0, !.round = @ + 1, !.round_started_ledger = ledger]

\* The next round of a circle opens: what claim and expire_round both write.
OpenNextRound(c) ==
  [c EXCEPT !.pot = 0, !.round = @ + 1, !.contributors = << >>,
            !.round_started_ledger = ledger]

Claim(id, recipient, nullifier_hash, external_nullifier, proof) ==
  /\ Active(id)
  /\ recipient # Contract
  /\ LET c     == circle[id]
         split == ApplyFeeSplit(c.fee_bps, c.pot)
         paid  == IF split.fee > 0
                    THEN Transfer(balance[c.token], Contract, c.fee_recipient, split.fee)
                    ELSE balance[c.token]
     IN
       /\ c.pot = PotTarget(c)
       /\ nullifier_hash \notin c.nullifiers
       /\ external_nullifier = ExternalNullifier(id, c.round)
       /\ VerifyGroth16(proof, nullifier_hash, c.root, external_nullifier, recipient)
       /\ c.round < MaxRound
       /\ split.fee > 0 => CanTransfer(c.token, Contract, c.fee_recipient, split.fee)
       /\ recipient \notin frozen /\ paid[Contract] >= split.net
       /\ circle' = [circle EXCEPT ![id] =
            [OpenNextRound(c) EXCEPT !.nullifiers = @ \cup {nullifier_hash}]]
       /\ balance' = [balance EXCEPT ![c.token] =
            Transfer(paid, Contract, recipient, split.net)]
       /\ payouts' = [payouts EXCEPT ![id] = @ \cup
            {[ round |-> c.round, proof |-> proof, recipient |-> recipient,
               net |-> split.net, fee |-> split.fee ]}]
  /\ UNCHANGED <<nextCircleId, pendingAdmin, frozen, ledger, nominator>>

ProposeAdmin(id, caller, new_admin) ==
  /\ Active(id)
  /\ caller = circle[id].admin
  /\ pendingAdmin' = [pendingAdmin EXCEPT ![id] = new_admin]
  /\ nominator' = [nominator EXCEPT ![id] = caller]
  /\ UNCHANGED <<circle, nextCircleId, balance, frozen, ledger, payouts>>

\* The PendingAdmin slot once the nomination is accepted.
FaultyClearNomination(id) == pendingAdmin
ClearNomination(id) == [pendingAdmin EXCEPT ![id] = NoAddress]

AcceptAdmin(id, caller) ==
  /\ Active(id)
  /\ pendingAdmin[id] # NoAddress
  /\ caller = pendingAdmin[id]
  /\ circle' = [circle EXCEPT ![id].admin = pendingAdmin[id]]
  /\ pendingAdmin' = ClearNomination(id)
  /\ UNCHANGED <<nextCircleId, balance, frozen, ledger, history>>

ExpireRound(id) ==
  /\ Active(id)
  /\ LET c == circle[id] IN
       /\ IsRoundExpired(c)
       /\ Underfunded(c)
       /\ CanRefund(c)
       /\ c.round < MaxRound
       /\ balance' = [balance EXCEPT ![c.token] = Refund(@, c)]
       /\ circle' = [circle EXCEPT ![id] = OpenNextRound(c)]
  /\ UNCHANGED <<nextCircleId, pendingAdmin, frozen, ledger, history>>

CancelCircle(id, caller) ==
  /\ Active(id)
  /\ caller = circle[id].admin
  /\ LET c == circle[id] IN
       /\ CanRefund(c)
       /\ circle' = [circle EXCEPT ![id].pot = 0, ![id].cancelled = TRUE,
                                   ![id].contributors = << >>]
       /\ balance' = [balance EXCEPT ![c.token] = Refund(@, c)]
  /\ UNCHANGED <<nextCircleId, pendingAdmin, frozen, ledger, history>>

----------------------------------------------------------------------------
(* The environment.                                                        *)

\* The network closes a ledger.
CloseLedger ==
  /\ ledger < MaxLedger
  /\ ledger' = ledger + 1
  /\ UNCHANGED <<circle, nextCircleId, pendingAdmin, balance, frozen, history>>

\* An account loses or regains its ability to hold the token.
ToggleFrozen(a) ==
  /\ frozen' = IF a \in frozen THEN frozen \ {a} ELSE frozen \cup {a}
  /\ UNCHANGED <<circle, nextCircleId, pendingAdmin, balance, ledger, history>>

----------------------------------------------------------------------------

Init ==
  /\ circle = [id \in CircleId |-> NoCircle]
  /\ nextCircleId = 0
  /\ pendingAdmin = [id \in CircleId |-> NoAddress]
  /\ balance = [t \in Token |-> [a \in Address |-> IF a = Contract THEN 0 ELSE InitialBalance]]
  /\ frozen = {}
  /\ ledger = 0
  /\ payouts = [id \in CircleId |-> {}]
  /\ nominator = [id \in CircleId |-> NoAddress]

Create ==
  \E admin \in Admins, token \in Token, root \in Roots, contribution \in Contributions,
     size \in Sizes, deadline \in Deadlines, ic_len \in KeyLengths,
     fee_bps \in FeeRates, fee_recipient \in FeeRecipients :
       CreateCircle(admin, token, root, contribution, size, deadline, ic_len, fee_bps, fee_recipient)

SomeClaim(id) ==
  \E recipient \in Address, proof \in Proofs :
     Claim(id, recipient, NullifierHash(proof.member, proof.external_nullifier),
           proof.external_nullifier, proof)

Next ==
  \/ Create
  \/ \E id \in CircleId, from \in Signer : Fund(id, from)
  \/ \E id \in CircleId : SomeClaim(id)
  \/ \E id \in CircleId, caller \in Signer, new_admin \in Nominees :
        ProposeAdmin(id, caller, new_admin)
  \/ \E id \in CircleId, caller \in Signer : AcceptAdmin(id, caller)
  \/ \E id \in CircleId : ExpireRound(id)
  \/ \E id \in CircleId, caller \in Signer : CancelCircle(id, caller)
  \/ CloseLedger
  \/ \E a \in Freezable : ToggleFrozen(a)

Spec == Init /\ [][Next]_vars

\* The abstract view: each circle is an escrow with money of its own.
Escrow == INSTANCE Escrow WITH
  Account <- Signer,
  Pool    <- CircleId,
  NoPool  <- NoCircle,
  wallet  <- [t \in Token |-> [a \in Signer |-> balance[t][a]]],
  pool    <- [id \in CircleId |->
                IF circle[id] # NoCircle
                  THEN LET c == circle[id] IN
                       [ token |-> c.token, stake |-> c.contribution, seats |-> c.size,
                         rate |-> c.fee_bps, feeTo |-> c.fee_recipient, round |-> c.round,
                         deposits |-> c.contributors, closed |-> c.cancelled ]
                  ELSE NoCircle]
EscrowSpec == Escrow!Spec

\* Ledgers keep closing, and some contributor calls the permissionless
\* expire_round once it stays callable.  Nobody is obliged to fund or claim.
FairSpec == Spec /\ WF_vars(CloseLedger) /\ \A id \in CircleId : WF_vars(ExpireRound(id))

----------------------------------------------------------------------------
(* Properties.                                                             *)

\* Type invariant.  No balance and no pot is ever negative or too wide.
TypeOK ==
  /\ circle \in [CircleId -> Circle \cup {NoCircle}]
  /\ nextCircleId \in 0 .. MaxCircles
  /\ pendingAdmin \in [CircleId -> Address \cup {NoAddress}]
  /\ balance \in [Token -> [Address -> Nat]]
  /\ frozen \in SUBSET Freezable
  /\ ledger \in 0 .. MaxLedger
  /\ payouts \in [CircleId -> SUBSET Payout]
  /\ nominator \in [CircleId -> Address \cup {NoAddress}]

\* The pot is one contribution per recorded contributor and never passes the
\* target, through every mix of fund, claim, expire_round and cancel_circle:
\* claim tests pot = target exactly, so an overshoot would brick the circle,
\* and the refund loops pay by contributor, so a mismatch would lose money.
PotMatches(c) ==
  /\ c.pot = c.contribution * Len(c.contributors)
  /\ c.pot <= PotTarget(c)
  /\ \A i \in DOMAIN c.contributors : c.contributors[i] # Contract
  /\ c.cancelled => c.contributors = << >>
PotIsDeposits == \A id \in CircleId : Stored(id) => PotMatches(circle[id])

\* The contract keeps one balance per token for all circles and never checks
\* it: the balance is at all times exactly the sum of the pots, so no circle
\* is paid out of another one's money and no token is left behind.
Owed(t, c) == IF c # NoCircle /\ c.token = t THEN c.pot ELSE 0
Solvency ==
  \A t \in Token :
    balance[t][Contract] = Total([id \in CircleId |-> Owed(t, circle[id])], MaxCircles)

\* What Solvency rests on: the counter has passed exactly the ids in use, so
\* create_circle overwrites no pot; a fee, if any, leaves the contract; and
\* the pots are what the refund loops pay.
IdsAreFresh == \A id \in CircleId : Stored(id) <=> id < nextCircleId
FeeLeaves ==
  \A id \in CircleId : Stored(id) =>
    (circle[id].fee_bps > 0 => circle[id].fee_recipient # Contract)
AccountsInv == TypeOK /\ IdsAreFresh /\ FeeLeaves /\ PotIsDeposits /\ Solvency

\* The way out is always there: whenever every contributor of an active
\* circle can be paid, the refund of cancel_circle goes through.
NoStrandedPot ==
  \A id \in CircleId :
    LET c == circle[id] IN
      (Active(id) /\ \A i \in DOMAIN c.contributors : c.contributors[i] \notin frozen)
        => CanRefund(c)

\* Every payout of claim is the whole pot of one past round, made once for
\* that round, on a proof by a member under the circle's root that was made
\* for this circle and round, and to the address that member asked for.
PayoutsAreSound ==
  \A id \in CircleId : \A p \in payouts[id] :
    /\ Stored(id)
    /\ LET c == circle[id] IN
         /\ p.round < c.round
         /\ p.net + p.fee = PotTarget(c)
         /\ p.proof.member \in c.root
         /\ p.proof.external_nullifier = ExternalNullifier(id, p.round)
         /\ NullifierHash(p.proof.member, p.proof.external_nullifier) \in c.nullifiers
         /\ p.recipient = PayoutAddress[p.proof.member]
    /\ \A q \in payouts[id] : q.round = p.round => q = p

\* A nomination that can still be accepted was made by the admin now in
\* office: an admin that handed its circle over leaves no nomination behind
\* with which somebody could take it away again.
NominationIsCurrent ==
  \A id \in CircleId : pendingAdmin[id] # NoAddress =>
    Stored(id) /\ nominator[id] = circle[id].admin

\* A full pot waits for its claim: whatever the deadline and whoever calls,
\* only a payout of the whole pot or the admin's cancel_circle empties it.
FullPotIsKept ==
  [][ \A id \in CircleId :
        (Active(id) /\ circle[id].pot = PotTarget(circle[id]) /\ circle'[id].pot # circle[id].pot)
          => \/ circle'[id].cancelled
             \/ \E p \in payouts'[id] \ payouts[id] : p.round = circle[id].round ]_vars

\* A cancelled circle is closed for good: neither its record nor its pending
\* nomination ever changes again.
CancelledIsFinal ==
  [][ \A id \in CircleId :
        (Stored(id) /\ circle[id].cancelled)
          => circle'[id] = circle[id] /\ pendingAdmin'[id] = pendingAdmin[id] ]_vars

\* A round that somebody paid into does not stay stuck: if it has a deadline,
\* it fills up, ends or is cancelled, unless one of its contributors cannot
\* be paid (the refund loop of expire_round is all or nothing).  Rounds whose
\* deadline or successor lies beyond the bounds of the model are left out.
StuckRoundEnds ==
  \A id \in CircleId, r \in 0 .. MaxRound - 1 :
    ( /\ Active(id) /\ circle[id].round = r
      /\ Len(circle[id].contributors) > 0
      /\ circle[id].round_deadline_ledgers > 0
      /\ circle[id].round_started_ledger + circle[id].round_deadline_ledgers <= MaxLedger )
    ~> ( Active(id) =>
           \/ circle[id].round > r
           \/ circle[id].pot = PotTarget(circle[id])
           \/ \E i \in DOMAIN circle[id].contributors : circle[id].contributors[i] \in frozen )

----------------------------------------------------------------------------
(* Statements of the documentation that the code does not keep.            *)

\* ADR 004 and a comment in claim: the nullifiers a circle stores are bounded
\* by its size, because they are dropped when a cycle of rounds ends.
NullifiersAreBounded ==
  \A id \in CircleId : Stored(id) => Cardinality(circle[id].nullifiers) <= circle[id].size

=============================================================================
