---------------------------- MODULE ShariboProofs ----------------------------
(***************************************************************************)
(* Theorems about the Sharibo contract, for every set of accounts, tokens, *)
(* members, circles and inputs.                                            *)
(***************************************************************************)
EXTENDS Sharibo, MoneyProofs, FiniteSetTheorems, TLAPS

(* Facts about the operators.                                              *)

\* The number of deposits of an address is a natural number.
LEMMA CountType ==
  ASSUME NEW contributors \in Seq(Address), NEW a \in Address
  PROVE  Count(a, contributors) \in Nat
<1>1. DOMAIN contributors = 1 .. Len(contributors) /\ Len(contributors) \in Nat
  OBVIOUS
<1>2. IsFiniteSet(1 .. Len(contributors))
  BY <1>1, FS_Interval
<1>3. IsFiniteSet({i \in DOMAIN contributors : contributors[i] = a})
  BY <1>1, <1>2, FS_Subset
<1> QED BY <1>3, FS_CardinalityType DEF Count

\* A transfer that is covered leaves no balance negative; what it does to the
\* contract's own balance.
LEMMA TransferType ==
  ASSUME NEW holdings \in [Address -> Nat], NEW from \in Address, NEW to \in Address,
         NEW amount \in Nat, holdings[from] >= amount
  PROVE  /\ Transfer(holdings, from, to, amount) \in [Address -> Nat]
         /\ from = Contract /\ to # Contract =>
              Transfer(holdings, from, to, amount)[Contract] = holdings[Contract] - amount
         /\ from # Contract /\ to = Contract =>
              Transfer(holdings, from, to, amount)[Contract] = holdings[Contract] + amount
BY AddressAssumption DEF Transfer

\* A payment into the contract.
LEMMA TransferIn ==
  ASSUME NEW holdings \in [Address -> Nat], NEW from \in Address, from # Contract,
         NEW amount \in Nat, holdings[from] >= amount
  PROVE  /\ Transfer(holdings, from, Contract, amount) \in [Address -> Nat]
         /\ Transfer(holdings, from, Contract, amount)[Contract] = holdings[Contract] + amount
<1>1. Contract \in Address
  BY AddressAssumption
<1> QED BY <1>1, TransferType

\* The same for the refund loop.
LEMMA RefundType ==
  ASSUME NEW holdings \in [Address -> Nat], NEW c \in Circle,
         holdings[Contract] >= c.contribution * Len(c.contributors)
  PROVE  /\ Refund(holdings, c) \in [Address -> Nat]
         /\ Refund(holdings, c)[Contract] =
              holdings[Contract] - c.contribution * Len(c.contributors)
<1>1. c.contributors \in Seq(Address) /\ c.contribution \in Nat
  BY DEF Circle
<1>2. Len(c.contributors) \in Nat
  BY <1>1
<1>3. \A a \in Address : c.contribution * Count(a, c.contributors) \in Nat
  BY <1>1, CountType
<1>4. c.contribution * Len(c.contributors) \in Nat
  BY <1>1, <1>2
<1> DEFINE n == c.contribution * Len(c.contributors)
           k(a) == c.contribution * Count(a, c.contributors)
<1>5. Refund(holdings, c) = [a \in Address |-> IF a = Contract THEN holdings[a] - n ELSE holdings[a] + k(a)]
  BY DEF Refund
<1> HIDE DEF n, k
<1>6. n \in Nat /\ holdings[Contract] >= n /\ \A a \in Address : k(a) \in Nat
  BY <1>3, <1>4 DEF n, k
<1>7. Refund(holdings, c)[Contract] = holdings[Contract] - n
  BY <1>5, AddressAssumption
<1>8. \A a \in Address : (IF a = Contract THEN holdings[a] - n ELSE holdings[a] + k(a)) \in Nat
  BY <1>6
<1> QED BY <1>5, <1>7, <1>8 DEF n

\* An active circle is a well-typed record.
LEMMA ActiveType ==
  ASSUME TypeOK, NEW id \in CircleId, Stored(id)
  PROVE  circle[id] \in Circle
BY DEF TypeOK, Stored

\* The fields the payouts and refunds are computed from.
LEMMA FieldTypes ==
  ASSUME NEW c \in Circle
  PROVE  /\ c.token \in Token /\ c.fee_recipient \in Address
         /\ c.pot \in Nat /\ c.contribution \in Nat /\ c.fee_bps \in Nat
         /\ c.contributors \in Seq(Address)
<1>1. c.pot \in 0 .. I128_MAX /\ c.fee_bps \in 0 .. MAX_FEE_BASIS_POINTS
  BY DEF Circle
<1>2. c.pot \in Nat
  BY <1>1, BoundAssumption
<1>3. c.fee_bps \in Nat
  <2>1. MAX_FEE_BASIS_POINTS \in Nat BY DEF MAX_FEE_BASIS_POINTS
  <2> QED BY <1>1, <2>1
<1> QED BY <1>2, <1>3 DEF Circle

\* So is the circle whose next round claim or expire_round opens.
LEMMA OpenNextRoundType ==
  ASSUME TypeOK, NEW c \in Circle, c.round < MaxRound
  PROVE  /\ OpenNextRound(c) \in Circle
         /\ OpenNextRound(c) =
              [c EXCEPT !.pot = 0, !.round = c.round + 1, !.contributors = << >>,
                        !.round_started_ledger = ledger]
<1>1. << >> \in Seq(Address) OBVIOUS
<1>2. 0 \in 0 .. I128_MAX /\ ledger \in 0 .. MaxLedger
  BY BoundAssumption DEF TypeOK
<1>3. c.round + 1 \in Round
  BY BoundAssumption DEF Circle, Round
<1> QED BY <1>1, <1>2, <1>3 DEF OpenNextRound, Circle

\* The fee and the net payout of a pot.
LEMMA SplitType ==
  ASSUME NEW c \in Circle
  PROVE  LET split == ApplyFeeSplit(c.fee_bps, c.pot) IN
           /\ split.fee \in 0 .. c.pot
           /\ split.net \in 0 .. c.pot
           /\ split.fee + split.net = c.pot
           /\ c.fee_bps = 0 => split.fee = 0
<1>1. c.fee_bps \in 0 .. MAX_FEE_BASIS_POINTS /\ c.pot \in Nat
  BY BoundAssumption DEF Circle
<1>2. c.fee_bps = 0 => (c.fee_bps * c.pot) \div 10000 = 0
  BY <1>1
<1> QED BY <1>1, <1>2, ApplyFeeIsExact

----------------------------------------------------------------------------
(* Type correctness.                                                       *)

\* The initial state is well typed.
LEMMA TypeInit == Init => TypeOK
<1> SUFFICES ASSUME Init PROVE TypeOK OBVIOUS
<1>1. nextCircleId \in 0 .. MaxCircles /\ ledger \in 0 .. MaxLedger
  BY BoundAssumption DEF Init
<1>2. balance \in [Token -> [Address -> Nat]]
  BY InputAssumption DEF Init
<1> QED BY <1>1, <1>2 DEF Init, TypeOK

\* create_circle stores a well-typed circle with an empty pot under the next id.
LEMMA CreateEffect ==
  ASSUME TypeOK, Create
  PROVE  /\ nextCircleId \in CircleId /\ nextCircleId' = nextCircleId + 1
         /\ UNCHANGED <<pendingAdmin, balance, frozen, ledger, payouts, nominator>>
         /\ \E d \in Circle :
              /\ circle' = [circle EXCEPT ![nextCircleId] = d]
              /\ d.pot = 0 /\ d.contributors = << >>
              /\ d.fee_bps > 0 => d.fee_recipient # Contract
<1> PICK admin \in Admins, token \in Token, root \in Roots, contribution \in Contributions,
         size \in Sizes, deadline \in Deadlines, ic_len \in KeyLengths,
         fee_bps \in FeeRates, fee_recipient \in FeeRecipients :
           CreateCircle(admin, token, root, contribution, size, deadline, ic_len,
                        fee_bps, fee_recipient)
  BY DEF Create
<1> DEFINE d == [ admin |-> admin, token |-> token, root |-> root,
                  contribution |-> contribution, size |-> size, round |-> 0, pot |-> 0,
                  contributors |-> << >>, nullifiers |-> {}, cancelled |-> FALSE,
                  round_deadline_ledgers |-> deadline, round_started_ledger |-> ledger,
                  fee_bps |-> fee_bps, fee_recipient |-> fee_recipient ]
<1>1. d \in Circle
  <2>1. admin \in Address /\ contribution \in Nat \ {0} /\ size \in 1 .. MAX_CIRCLE_SIZE
        /\ deadline \in Nat /\ fee_bps \in 0 .. MAX_FEE_BASIS_POINTS /\ fee_recipient \in Address
    BY InputAssumption, SMTT(60) DEF CreateCircle, Signer, MAX_FEE_BASIS_POINTS, MAX_CIRCLE_SIZE
  <2>2. 0 \in Round /\ 0 \in 0 .. I128_MAX /\ ledger \in 0 .. MaxLedger /\ << >> \in Seq(Address)
    BY BoundAssumption DEF Round, TypeOK
  <2> QED BY <2>1, <2>2 DEF Circle
<1>2. d.pot = 0 /\ d.contributors = << >> /\ (d.fee_bps > 0 => d.fee_recipient # Contract)
  BY DEF CreateCircle
<1>3. circle' = [circle EXCEPT ![nextCircleId] = d]
  BY DEF CreateCircle
<1>4. nextCircleId \in CircleId
  BY BoundAssumption DEF CreateCircle, TypeOK, CircleId
<1>5. /\ nextCircleId' = nextCircleId + 1
      /\ UNCHANGED <<pendingAdmin, balance, frozen, ledger, payouts, nominator>>
  BY DEF CreateCircle, history
<1> HIDE DEF d
<1> QED BY <1>1, <1>2, <1>3, <1>4, <1>5

\* create_circle keeps the types.
LEMMA TypeCreate == TypeOK /\ Create => TypeOK'
<1> SUFFICES ASSUME TypeOK, Create PROVE TypeOK' OBVIOUS
<1>1. nextCircleId + 1 \in 0 .. MaxCircles
  BY CreateEffect, BoundAssumption DEF CircleId
<1> QED BY <1>1, CreateEffect DEF TypeOK

\* fund keeps the pot within its width and the funder solvent.
LEMMA TypeFund ==
  ASSUME NEW id \in CircleId, NEW from \in Signer, TypeOK, Fund(id, from)
  PROVE  TypeOK'
<1> DEFINE c == circle[id]
           d == [c EXCEPT !.pot = c.pot + c.contribution,
                          !.contributors = Append(c.contributors, from)]
<1>1. c \in Circle /\ from \in Address
  BY ActiveType DEF Fund, Active, Signer
<1>2. circle' = [circle EXCEPT ![id] = d]
  BY DEF Fund
<1>3. d \in Circle
  <2>1. Append(c.contributors, from) \in Seq(Address)
    BY <1>1 DEF Circle
  <2>2. c.pot + c.contribution \in 0 .. I128_MAX
    BY <1>1, BoundAssumption, SMTT(60) DEF Fund, Circle
  <2> QED BY <1>1, <2>1, <2>2 DEF Circle
<1>4. balance' \in [Token -> [Address -> Nat]]
  <2>1. balance[c.token] \in [Address -> Nat] /\ c.token \in Token /\ c.contribution \in Nat
    BY <1>1 DEF TypeOK, Circle
  <2>2. Transfer(balance[c.token], from, Contract, c.contribution) \in [Address -> Nat]
    BY <1>1, <2>1, TransferType, AddressAssumption DEF Fund, CanTransfer
  <2> QED BY <2>1, <2>2 DEF Fund, TypeOK
<1> HIDE DEF d
<1>5. circle' \in [CircleId -> Circle \cup {NoCircle}]
  BY <1>2, <1>3 DEF TypeOK
<1> QED BY <1>4, <1>5 DEF Fund, TypeOK, history

\* claim pays out no more than the pot and records a well-typed payout.
LEMMA TypeClaim ==
  ASSUME NEW id \in CircleId, TypeOK, SomeClaim(id)
  PROVE  TypeOK'
<1>1. PICK recipient \in Address, proof \in Proofs :
        Claim(id, recipient, NullifierHash(proof.member, proof.external_nullifier),
              proof.external_nullifier, proof)
  BY DEF SomeClaim
<1> DEFINE c     == circle[id]
           n     == NullifierHash(proof.member, proof.external_nullifier)
           split == ApplyFeeSplit(c.fee_bps, c.pot)
           paid  == IF split.fee > 0
                      THEN Transfer(balance[c.token], Contract, c.fee_recipient, split.fee)
                      ELSE balance[c.token]
           d     == [OpenNextRound(c) EXCEPT !.nullifiers = OpenNextRound(c).nullifiers \cup {n}]
           p     == [ round |-> c.round, proof |-> proof, recipient |-> recipient,
                      net |-> split.net, fee |-> split.fee ]
<1>2. /\ Active(id) /\ recipient # Contract /\ c.round < MaxRound
      /\ split.fee > 0 => CanTransfer(c.token, Contract, c.fee_recipient, split.fee)
      /\ paid[Contract] >= split.net
      /\ circle' = [circle EXCEPT ![id] = d]
      /\ balance' = [balance EXCEPT ![c.token] = Transfer(paid, Contract, recipient, split.net)]
      /\ payouts' = [payouts EXCEPT ![id] = payouts[id] \cup {p}]
      /\ UNCHANGED <<nextCircleId, pendingAdmin, frozen, ledger, nominator>>
  BY <1>1 DEF Claim
<1>3. c \in Circle
  BY <1>2, ActiveType DEF Active
<1>4. c.token \in Token /\ c.fee_recipient \in Address /\ c.round \in Round /\ c.pot \in 0 .. I128_MAX
  BY <1>3 DEF Circle
<1>5. split.fee \in 0 .. c.pot /\ split.net \in 0 .. c.pot
  BY <1>3, SplitType
<1> HIDE DEF split
<1>6. d \in Circle
  <2>1. n \in Member \X (CircleId \X Round)
    BY DEF Proofs, NullifierHash
  <2> HIDE DEF n
  <2> QED BY <1>2, <1>3, <2>1, OpenNextRoundType, ZenonT(60) DEF Circle
<1>7. Transfer(paid, Contract, recipient, split.net) \in [Address -> Nat]
  <2>1. balance[c.token] \in [Address -> Nat]
    BY <1>4 DEF TypeOK
  <2>2. split.fee \in Nat /\ split.net \in Nat
    BY <1>4, <1>5, BoundAssumption
  <2>3. paid \in [Address -> Nat]
    BY <1>2, <1>4, <2>1, <2>2, TransferType, AddressAssumption DEF CanTransfer
  <2> HIDE DEF paid
  <2> QED BY <1>2, <2>2, <2>3, TransferType, AddressAssumption
<1>8. p \in Payout
  <2>1. split.fee \in 0 .. I128_MAX /\ split.net \in 0 .. I128_MAX
    BY <1>4, <1>5, BoundAssumption
  <2> QED BY <1>4, <2>1 DEF Payout
<1> HIDE DEF c, d, p, paid
<1>9. circle' \in [CircleId -> Circle \cup {NoCircle}]
  BY <1>2, <1>6 DEF TypeOK
<1>10. balance' \in [Token -> [Address -> Nat]]
  BY <1>2, <1>7 DEF TypeOK
<1>11. payouts' \in [CircleId -> SUBSET Payout]
  BY <1>2, <1>8 DEF TypeOK
<1> QED BY <1>2, <1>9, <1>10, <1>11 DEF TypeOK

\* propose_admin writes the nomination only.
LEMMA TypeProposeAdmin ==
  ASSUME NEW id \in CircleId, NEW caller \in Signer, NEW new_admin \in Nominees,
         TypeOK, ProposeAdmin(id, caller, new_admin)
  PROVE  TypeOK'
<1>1. new_admin \in Address /\ caller \in Address
  BY InputAssumption DEF Signer
<1> QED BY <1>1 DEF ProposeAdmin, TypeOK

\* accept_admin moves the nomination into the circle.
LEMMA TypeAcceptAdmin ==
  ASSUME NEW id \in CircleId, NEW caller \in Signer, TypeOK, AcceptAdmin(id, caller)
  PROVE  TypeOK'
<1> DEFINE d == [circle[id] EXCEPT !.admin = pendingAdmin[id]]
<1>1. circle[id] \in Circle
  BY ActiveType DEF AcceptAdmin, Active
<1>2. pendingAdmin[id] \in Address
  BY DEF AcceptAdmin, Signer
<1>3. d \in Circle
  BY <1>1, <1>2 DEF Circle
<1>4. circle' = [circle EXCEPT ![id] = d]
  BY DEF AcceptAdmin
<1> HIDE DEF d
<1>5. circle' \in [CircleId -> Circle \cup {NoCircle}]
  BY <1>3, <1>4 DEF TypeOK
<1> QED BY <1>5 DEF AcceptAdmin, ClearNomination, TypeOK, history

\* expire_round refunds no more than the contract holds.
LEMMA TypeExpireRound ==
  ASSUME NEW id \in CircleId, TypeOK, ExpireRound(id)
  PROVE  TypeOK'
<1> DEFINE c == circle[id]
<1>1. c \in Circle /\ c.token \in Token
  <2>1. c \in Circle BY ActiveType DEF ExpireRound, Active
  <2> QED BY <2>1 DEF Circle
<1>2. OpenNextRound(c) \in Circle
  BY <1>1, OpenNextRoundType DEF ExpireRound
<1>3. Refund(balance[c.token], c) \in [Address -> Nat]
  BY <1>1, RefundType DEF ExpireRound, CanRefund, TypeOK
<1>4. /\ circle' = [circle EXCEPT ![id] = OpenNextRound(c)]
      /\ balance' = [balance EXCEPT ![c.token] = Refund(balance[c.token], c)]
      /\ UNCHANGED <<nextCircleId, pendingAdmin, frozen, ledger, history>>
  BY DEF ExpireRound
<1> QED BY <1>1, <1>2, <1>3, <1>4 DEF TypeOK, history

\* Neither does cancel_circle.
LEMMA TypeCancelCircle ==
  ASSUME NEW id \in CircleId, NEW caller \in Signer, TypeOK, CancelCircle(id, caller)
  PROVE  TypeOK'
<1> DEFINE c == circle[id]
           d == [c EXCEPT !.pot = 0, !.cancelled = TRUE, !.contributors = << >>]
<1>1. c \in Circle /\ c.token \in Token
  <2>1. c \in Circle BY ActiveType DEF CancelCircle, Active
  <2> QED BY <2>1 DEF Circle
<1>2. d \in Circle
  <2>1. << >> \in Seq(Address) /\ 0 \in 0 .. I128_MAX
    BY BoundAssumption
  <2> QED BY <1>1, <2>1 DEF Circle
<1>3. Refund(balance[c.token], c) \in [Address -> Nat]
  BY <1>1, RefundType DEF CancelCircle, CanRefund, TypeOK
<1>4. /\ circle' = [circle EXCEPT ![id] = d]
      /\ balance' = [balance EXCEPT ![c.token] = Refund(balance[c.token], c)]
      /\ UNCHANGED <<nextCircleId, pendingAdmin, frozen, ledger, history>>
  BY DEF CancelCircle
<1> HIDE DEF d
<1> QED BY <1>1, <1>2, <1>3, <1>4 DEF TypeOK, history

\* Closing ledgers and freezing accounts touch nothing of the contract's.
LEMMA TypeEnvironment ==
  ASSUME TypeOK, CloseLedger \/ (\E a \in Freezable : ToggleFrozen(a))
  PROVE  TypeOK'
<1>1. CASE CloseLedger
  BY <1>1, BoundAssumption DEF CloseLedger, TypeOK, history
<1>2. CASE \E a \in Freezable : ToggleFrozen(a)
  BY <1>2 DEF ToggleFrozen, TypeOK, history
<1> QED BY <1>1, <1>2

\* A step that changes nothing.
LEMMA TypeStutter ==
  ASSUME TypeOK, UNCHANGED vars
  PROVE  TypeOK'
BY DEF TypeOK, vars, history

\* Every step of the contract and of its environment keeps the types.
LEMMA TypeStep == TypeOK /\ [Next]_vars => TypeOK'
<1> SUFFICES ASSUME TypeOK, [Next]_vars PROVE TypeOK' OBVIOUS
<1> QED
  BY TypeCreate, TypeFund, TypeClaim, TypeProposeAdmin, TypeAcceptAdmin, TypeExpireRound,
     TypeCancelCircle, TypeEnvironment, TypeStutter DEF Next

\* Whatever is called, in whatever order and with whatever inputs: amounts stay
\* within their width, no balance becomes negative, and every record a circle
\* stores is one that create_circle, fund, claim and the others may write.
THEOREM TypeCorrect == Spec => []TypeOK
BY TypeInit, TypeStep, PTL DEF Spec

----------------------------------------------------------------------------
(* The pots are the deposits.                                              *)

\* A step that writes one circle keeps every pot right if it keeps that one.
LEMMA PotUpdate ==
  ASSUME TypeOK, PotIsDeposits, NEW id \in CircleId, NEW d,
         circle' = [circle EXCEPT ![id] = d], PotMatches(d)
  PROVE  PotIsDeposits'
BY DEF TypeOK, PotIsDeposits, Stored, PotMatches, PotTarget

\* A pot with no deposits is right whatever the size of the circle.
LEMMA EmptyPotMatches ==
  ASSUME NEW d \in Circle, d.pot = 0, d.contributors = << >>
  PROVE  PotMatches(d)
<1>1. d.contribution \in Nat /\ d.size \in Nat
  BY DEF Circle
<1>2. d.contribution * d.size \in Nat /\ d.contribution * 0 = 0
  BY <1>1
<1>3. Len(d.contributors) = 0 /\ DOMAIN d.contributors = {}
  OBVIOUS
<1> QED BY <1>2, <1>3 DEF PotMatches, PotTarget

\* One more contribution below the target is at most the target.
LEMMA OneMoreFits ==
  ASSUME NEW contribution \in Nat, NEW n \in Nat, NEW size \in Nat,
         contribution * n < contribution * size
  PROVE  /\ contribution * (n + 1) = contribution * n + contribution
         /\ contribution * (n + 1) <= contribution * size
<1>1. contribution * (n + 1) = contribution * n + contribution
  OBVIOUS
<1>2. n + 1 <= size
  <2> SUFFICES ASSUME size <= n PROVE FALSE OBVIOUS
  <2>1. n - size \in Nat OBVIOUS
  <2>2. contribution * (n - size) \in Nat BY <2>1
  <2>3. contribution * (n - size) = contribution * n - contribution * size OBVIOUS
  <2>4. contribution * n \in Nat /\ contribution * size \in Nat OBVIOUS
  <2> QED BY <2>2, <2>3, <2>4
<1>3. size - (n + 1) \in Nat
  BY <1>2
<1>4. contribution * (size - (n + 1)) \in Nat
  BY <1>3
<1>5. contribution * (size - (n + 1)) = contribution * size - contribution * (n + 1)
  OBVIOUS
<1>6. contribution * (n + 1) \in Nat /\ contribution * size \in Nat
  OBVIOUS
<1> QED BY <1>1, <1>4, <1>5, <1>6

\* fund adds one contributor and one contribution, up to the target.
LEMMA PotFund ==
  ASSUME NEW id \in CircleId, NEW from \in Signer, TypeOK, PotIsDeposits, Fund(id, from)
  PROVE  PotIsDeposits'
<1> DEFINE c == circle[id]
           d == [c EXCEPT !.pot = c.pot + c.contribution,
                          !.contributors = Append(c.contributors, from)]
<1>1. c \in Circle /\ ~ c.cancelled /\ PotMatches(c)
  BY ActiveType DEF Fund, Active, PotIsDeposits
<1>2. circle' = [circle EXCEPT ![id] = d]
  BY DEF Fund
<1>3. /\ d.pot = c.pot + c.contribution /\ d.contributors = Append(c.contributors, from)
      /\ d.contribution = c.contribution /\ d.size = c.size /\ d.cancelled = c.cancelled
  BY <1>1 DEF Circle
<1>4. c.contributors \in Seq(Address) /\ c.contribution \in Nat /\ c.size \in Nat
  BY <1>1 DEF Circle
<1>5. PotMatches(d)
  <2>1. Len(d.contributors) = Len(c.contributors) + 1
    BY <1>3, <1>4
  <2>2. c.contribution * Len(c.contributors) < c.contribution * c.size
    BY <1>1 DEF Fund, Underfunded, PotMatches, PotTarget
  <2>3. d.pot = d.contribution * Len(d.contributors) /\ d.pot <= PotTarget(d)
    <3>1. Len(c.contributors) \in Nat BY <1>4
    <3>2. /\ c.contribution * (Len(c.contributors) + 1)
               = c.contribution * Len(c.contributors) + c.contribution
          /\ c.contribution * (Len(c.contributors) + 1) <= c.contribution * c.size
      BY <1>4, <2>2, <3>1, OneMoreFits
    <3>3. c.pot = c.contribution * Len(c.contributors)
      BY <1>1 DEF PotMatches
    <3> HIDE DEF c, d
    <3> QED BY <1>3, <2>1, <3>2, <3>3 DEF PotTarget
  <2>4. \A i \in DOMAIN d.contributors : d.contributors[i] # Contract
    <3>1. from # Contract BY DEF Signer
    <3> QED BY <1>1, <1>3, <1>4, <3>1, SMTT(60) DEF PotMatches
  <2> QED BY <1>1, <1>3, <2>3, <2>4 DEF PotMatches
<1> HIDE DEF d
<1> QED BY <1>2, <1>5, PotUpdate

\* claim and expire_round start the next round with an empty pot.
LEMMA PotNextRound ==
  ASSUME NEW id \in CircleId, TypeOK, PotIsDeposits, SomeClaim(id) \/ ExpireRound(id)
  PROVE  PotIsDeposits'
<1> DEFINE c == circle[id]
<1>1. c \in Circle /\ c.round < MaxRound
  BY ActiveType DEF SomeClaim, Claim, ExpireRound, Active
<1>2. OpenNextRound(c) \in Circle
  BY <1>1, OpenNextRoundType
<1>3. OpenNextRound(c).pot = 0 /\ OpenNextRound(c).contributors = << >>
  BY <1>1 DEF OpenNextRound, Circle
<1>4. CASE ExpireRound(id)
  BY <1>2, <1>3, <1>4, EmptyPotMatches, PotUpdate DEF ExpireRound
<1>5. CASE SomeClaim(id)
  <2>1. PICK n \in Member \X (CircleId \X Round) :
          circle' = [circle EXCEPT ![id] =
            [OpenNextRound(c) EXCEPT !.nullifiers = OpenNextRound(c).nullifiers \cup {n}]]
    BY <1>5 DEF SomeClaim, Claim, Proofs, NullifierHash
  <2> DEFINE d == [OpenNextRound(c) EXCEPT !.nullifiers = OpenNextRound(c).nullifiers \cup {n}]
  <2>2. d \in Circle /\ d.pot = 0 /\ d.contributors = << >>
    BY <1>2, <1>3 DEF Circle
  <2> HIDE DEF d
  <2>3. PotMatches(d)
    BY <2>2, EmptyPotMatches
  <2> QED BY <2>1, <2>3, PotUpdate DEF d
<1> QED BY <1>4, <1>5

\* cancel_circle empties the pot it refunds.
LEMMA PotCancel ==
  ASSUME NEW id \in CircleId, NEW caller \in Signer, TypeOK, PotIsDeposits,
         CancelCircle(id, caller)
  PROVE  PotIsDeposits'
<1> DEFINE d == [circle[id] EXCEPT !.pot = 0, !.cancelled = TRUE, !.contributors = << >>]
<1>1. circle[id] \in Circle
  BY ActiveType DEF CancelCircle, Active
<1>2. d \in Circle /\ d.pot = 0 /\ d.contributors = << >>
  <2>1. << >> \in Seq(Address) /\ 0 \in 0 .. I128_MAX
    BY BoundAssumption
  <2> QED BY <1>1, <2>1 DEF Circle
<1>3. circle' = [circle EXCEPT ![id] = d]
  BY DEF CancelCircle
<1> HIDE DEF d
<1> QED BY <1>2, <1>3, EmptyPotMatches, PotUpdate

\* create_circle starts with an empty pot.
LEMMA PotCreate == TypeOK /\ PotIsDeposits /\ Create => PotIsDeposits'
BY CreateEffect, EmptyPotMatches, PotUpdate

\* accept_admin and everything else leaves the pots alone.
LEMMA PotOther ==
  ASSUME TypeOK, PotIsDeposits,
         \/ \E id \in CircleId, caller \in Signer : AcceptAdmin(id, caller)
         \/ UNCHANGED circle
  PROVE  PotIsDeposits'
<1>1. CASE UNCHANGED circle
  BY <1>1 DEF PotIsDeposits, Stored
<1>2. ASSUME NEW id \in CircleId, NEW caller \in Signer, AcceptAdmin(id, caller)
      PROVE  PotIsDeposits'
  <2> DEFINE d == [circle[id] EXCEPT !.admin = pendingAdmin[id]]
  <2>1. circle[id] \in Circle /\ PotMatches(circle[id])
    BY <1>2, ActiveType DEF AcceptAdmin, Active, PotIsDeposits
  <2>2. circle' = [circle EXCEPT ![id] = d]
    BY <1>2 DEF AcceptAdmin
  <2>3. PotMatches(d)
    BY <2>1 DEF Circle, PotMatches, PotTarget
  <2> HIDE DEF d
  <2> QED BY <2>2, <2>3, PotUpdate
<1> QED BY <1>1, <1>2

----------------------------------------------------------------------------
(* Solvency: a call that writes circle id moves as much in the contract's  *)
(* balance as in the pot of that circle, in the circle's token.            *)

MoneyMoves(id) ==
  /\ Stored(id)
  /\ nextCircleId' = nextCircleId
  /\ \E d \in Circle, h \in [Address -> Int] :
       /\ circle' = [circle EXCEPT ![id] = d]
       /\ d.token = circle[id].token
       /\ d.fee_bps = circle[id].fee_bps /\ d.fee_recipient = circle[id].fee_recipient
       /\ balance' = [balance EXCEPT ![d.token] = h]
       /\ h[Contract] = balance[d.token][Contract] + d.pot - circle[id].pot

\* fund: the contribution goes from the funder into the pot.
LEMMA MoneyFund ==
  ASSUME NEW id \in CircleId, NEW from \in Signer, AccountsInv, Fund(id, from)
  PROVE  MoneyMoves(id)
<1> DEFINE c == circle[id]
           d == [c EXCEPT !.pot = c.pot + c.contribution,
                          !.contributors = Append(c.contributors, from)]
           h == Transfer(balance[c.token], from, Contract, c.contribution)
<1>1. TypeOK /\ Stored(id) /\ c \in Circle /\ from \in Address /\ from # Contract
  BY ActiveType DEF Fund, Active, Signer, AccountsInv
<1>2. c.token \in Token /\ c.contribution \in Nat /\ c.pot \in Nat /\ c.contributors \in Seq(Address)
  BY <1>1, BoundAssumption DEF Circle
<1>3. balance[c.token] \in [Address -> Nat]
  BY <1>1, <1>2 DEF TypeOK
<1>4. d \in Circle
  <2>1. Append(c.contributors, from) \in Seq(Address) BY <1>1, <1>2
  <2>2. c.pot + c.contribution \in 0 .. I128_MAX BY <1>2, BoundAssumption, SMTT(60) DEF Fund
  <2> QED BY <1>1, <2>1, <2>2 DEF Circle
<1>5. h \in [Address -> Nat] /\ h[Contract] = balance[c.token][Contract] + c.contribution
  <2>1. balance[c.token][from] >= c.contribution
    BY DEF Fund, CanTransfer
  <2> HIDE DEF c
  <2> QED BY <1>1, <1>2, <1>3, <2>1, TransferIn
<1>6. /\ d.token = c.token /\ d.fee_bps = c.fee_bps /\ d.fee_recipient = c.fee_recipient
      /\ d.pot = c.pot + c.contribution
  BY <1>1 DEF Circle
<1>7. /\ circle' = [circle EXCEPT ![id] = d] /\ balance' = [balance EXCEPT ![c.token] = h]
      /\ nextCircleId' = nextCircleId
  BY DEF Fund
<1>8. balance[c.token][Contract] \in Nat
  BY <1>3, AddressAssumption
<1> HIDE DEF c, d, h
<1>9. h \in [Address -> Int] /\ h[Contract] = balance[c.token][Contract] + d.pot - c.pot
  BY <1>2, <1>5, <1>6, <1>8
<1> QED BY <1>1, <1>4, <1>6, <1>7, <1>9 DEF MoneyMoves, c

\* claim: the fee and the net payout leave, together the whole pot.
LEMMA MoneyClaim ==
  ASSUME NEW id \in CircleId, AccountsInv, SomeClaim(id)
  PROVE  MoneyMoves(id)
<1>1. PICK recipient \in Address, proof \in Proofs :
        Claim(id, recipient, NullifierHash(proof.member, proof.external_nullifier),
              proof.external_nullifier, proof)
  BY DEF SomeClaim
<1> DEFINE c     == circle[id]
           n     == NullifierHash(proof.member, proof.external_nullifier)
           split == ApplyFeeSplit(c.fee_bps, c.pot)
           paid  == IF split.fee > 0
                      THEN Transfer(balance[c.token], Contract, c.fee_recipient, split.fee)
                      ELSE balance[c.token]
           d     == [OpenNextRound(c) EXCEPT !.nullifiers = OpenNextRound(c).nullifiers \cup {n}]
           h     == Transfer(paid, Contract, recipient, split.net)
<1>2. /\ TypeOK /\ Stored(id) /\ recipient # Contract /\ c.round < MaxRound
      /\ split.fee > 0 => CanTransfer(c.token, Contract, c.fee_recipient, split.fee)
      /\ paid[Contract] >= split.net
      /\ circle' = [circle EXCEPT ![id] = d]
      /\ balance' = [balance EXCEPT ![c.token] = h]
      /\ nextCircleId' = nextCircleId
  BY <1>1 DEF Claim, Active, AccountsInv
<1>3. c \in Circle /\ (c.fee_bps > 0 => c.fee_recipient # Contract)
  BY <1>2, ActiveType DEF AccountsInv, FeeLeaves
<1>4. /\ c.token \in Token /\ c.fee_recipient \in Address /\ c.pot \in Nat
      /\ c.fee_bps \in Nat
  BY <1>3, FieldTypes
<1>5. /\ split.fee \in Nat /\ split.net \in Nat /\ split.fee + split.net = c.pot
      /\ split.fee > 0 => c.fee_bps > 0
  <2>1. /\ split.fee \in 0 .. c.pot /\ split.net \in 0 .. c.pot /\ split.fee + split.net = c.pot
        /\ c.fee_bps = 0 => split.fee = 0
    BY <1>3, SplitType
  <2>2. c.pot \in Nat /\ c.fee_bps \in Nat
    BY <1>4
  <2> HIDE DEF split, c
  <2>3. split.fee \in Nat /\ split.net \in Nat
    BY <2>1, <2>2
  <2>4. split.fee > 0 => c.fee_bps > 0
    BY <2>1, <2>2, <2>3
  <2> QED BY <2>1, <2>3, <2>4
<1> HIDE DEF split
<1>6. balance[c.token] \in [Address -> Nat]
  BY <1>2, <1>4 DEF TypeOK
<1>7. paid \in [Address -> Nat] /\ paid[Contract] = balance[c.token][Contract] - split.fee
  <2>1. CASE split.fee > 0
    <3>1. balance[c.token][Contract] >= split.fee /\ c.fee_recipient # Contract
      BY <1>2, <1>3, <1>5, <2>1 DEF CanTransfer
    <3>2. paid = Transfer(balance[c.token], Contract, c.fee_recipient, split.fee)
      BY <2>1
    <3> HIDE DEF c, paid
    <3> QED BY <1>4, <1>5, <1>6, <3>1, <3>2, TransferType, AddressAssumption
  <2>2. CASE ~ (split.fee > 0)
    <3>1. split.fee = 0 BY <1>5, <2>2
    <3>2. balance[c.token][Contract] \in Nat BY <1>6, AddressAssumption
    <3> QED BY <1>6, <2>2, <3>1, <3>2
  <2> QED BY <2>1, <2>2
<1> HIDE DEF paid
<1>8. h \in [Address -> Nat] /\ h[Contract] = paid[Contract] - split.net
  BY <1>2, <1>5, <1>7, TransferType, AddressAssumption
<1>9. d \in Circle /\ d.pot = 0 /\ d.token = c.token
      /\ d.fee_bps = c.fee_bps /\ d.fee_recipient = c.fee_recipient
  <2>1. n \in Member \X (CircleId \X Round) BY DEF Proofs, NullifierHash
  <2>2. OpenNextRound(c) \in Circle BY <1>2, <1>3, OpenNextRoundType
  <2>3. /\ OpenNextRound(c).pot = 0 /\ OpenNextRound(c).token = c.token
        /\ OpenNextRound(c).fee_bps = c.fee_bps
        /\ OpenNextRound(c).fee_recipient = c.fee_recipient
    BY <1>3 DEF OpenNextRound, Circle
  <2> HIDE DEF n
  <2> QED BY <2>1, <2>2, <2>3, SMTT(60) DEF Circle
<1>10. balance[c.token][Contract] \in Nat
  BY <1>6, AddressAssumption
<1> HIDE DEF c, d, h
<1>11. h \in [Address -> Int] /\ h[Contract] = balance[c.token][Contract] + d.pot - c.pot
  BY <1>4, <1>5, <1>7, <1>8, <1>9, <1>10
<1> QED BY <1>2, <1>9, <1>11 DEF MoneyMoves, c

\* expire_round and cancel_circle: the refunds are the pot.
LEMMA MoneyRefund ==
  ASSUME NEW id \in CircleId, AccountsInv,
         ExpireRound(id) \/ (\E caller \in Signer : CancelCircle(id, caller))
  PROVE  MoneyMoves(id)
<1> DEFINE c == circle[id]
           h == Refund(balance[c.token], c)
           cancelled == [c EXCEPT !.pot = 0, !.cancelled = TRUE, !.contributors = << >>]
<1>1. TypeOK /\ Stored(id) /\ c \in Circle /\ CanRefund(c) /\ nextCircleId' = nextCircleId
  BY ActiveType DEF ExpireRound, CancelCircle, Active, AccountsInv
<1>2. c.pot = c.contribution * Len(c.contributors)
  BY <1>1 DEF AccountsInv, PotIsDeposits, PotMatches
<1>3. c.token \in Token /\ c.pot \in Nat
  BY <1>1, FieldTypes
<1>4. balance[c.token] \in [Address -> Nat] /\ balance[c.token][Contract] \in Nat
  BY <1>1, <1>3, AddressAssumption DEF TypeOK
<1>5. h \in [Address -> Nat] /\ h[Contract] = balance[c.token][Contract] - c.pot
  BY <1>1, <1>2, <1>4, RefundType DEF CanRefund
<1>6. balance' = [balance EXCEPT ![c.token] = h]
  BY DEF ExpireRound, CancelCircle
<1> HIDE DEF h
<1>7. ASSUME NEW d \in Circle, circle' = [circle EXCEPT ![id] = d], d.pot = 0,
             d.token = c.token, d.fee_bps = c.fee_bps, d.fee_recipient = c.fee_recipient
      PROVE  MoneyMoves(id)
  <2>1. h \in [Address -> Int] /\ h[Contract] = balance[c.token][Contract] + d.pot - c.pot
    BY <1>3, <1>4, <1>5, <1>7
  <2> QED BY <1>1, <1>6, <1>7, <2>1 DEF MoneyMoves
<1>8. CASE ExpireRound(id)
  <2>1. OpenNextRound(c) \in Circle
    BY <1>1, <1>8, OpenNextRoundType DEF ExpireRound
  <2>2. /\ OpenNextRound(c).pot = 0 /\ OpenNextRound(c).token = c.token
        /\ OpenNextRound(c).fee_bps = c.fee_bps
        /\ OpenNextRound(c).fee_recipient = c.fee_recipient
    BY <1>1 DEF OpenNextRound, Circle
  <2> QED BY <1>7, <1>8, <2>1, <2>2 DEF ExpireRound
<1>9. CASE \E caller \in Signer : CancelCircle(id, caller)
  <2>1. cancelled \in Circle
    <3>1. << >> \in Seq(Address) /\ 0 \in 0 .. I128_MAX
      BY BoundAssumption
    <3> QED BY <1>1, <3>1 DEF Circle
  <2>2. /\ cancelled.pot = 0 /\ cancelled.token = c.token
        /\ cancelled.fee_bps = c.fee_bps /\ cancelled.fee_recipient = c.fee_recipient
    BY <1>1 DEF Circle
  <2>3. circle' = [circle EXCEPT ![id] = cancelled]
    BY <1>9 DEF CancelCircle
  <2> HIDE DEF cancelled
  <2> QED BY <1>7, <2>1, <2>2, <2>3
<1> QED BY <1>8, <1>9

\* accept_admin moves no money.
LEMMA MoneyAcceptAdmin ==
  ASSUME NEW id \in CircleId, NEW caller \in Signer, AccountsInv, AcceptAdmin(id, caller)
  PROVE  MoneyMoves(id)
<1> DEFINE d == [circle[id] EXCEPT !.admin = pendingAdmin[id]]
<1>1. TypeOK /\ Stored(id) /\ circle[id] \in Circle
  BY ActiveType DEF AcceptAdmin, Active, AccountsInv
<1>2. pendingAdmin[id] \in Address
  BY DEF AcceptAdmin, Signer
<1>3. /\ d \in Circle /\ d.token = circle[id].token /\ d.pot = circle[id].pot
      /\ d.fee_bps = circle[id].fee_bps /\ d.fee_recipient = circle[id].fee_recipient
  BY <1>1, <1>2 DEF Circle
<1>4. circle' = [circle EXCEPT ![id] = d] /\ nextCircleId' = nextCircleId /\ balance' = balance
  BY DEF AcceptAdmin
<1> HIDE DEF d
<1>5. d.token \in Token /\ d.pot \in Nat
  BY <1>3, FieldTypes
<1>6. /\ balance[d.token] \in [Address -> Int] /\ balance[d.token][Contract] \in Int
      /\ balance = [balance EXCEPT ![d.token] = balance[d.token]]
  BY <1>1, <1>5, AddressAssumption DEF TypeOK
<1>7. balance[d.token][Contract] = balance[d.token][Contract] + d.pot - circle[id].pot
  BY <1>3, <1>5, <1>6
<1> QED BY <1>1, <1>3, <1>4, <1>6, <1>7 DEF MoneyMoves

\* What the contract owes of a token is an integer for every circle.
LEMMA OwedType ==
  ASSUME TypeOK, NEW t \in Token
  PROVE  \A id \in CircleId : Owed(t, circle[id]) \in Nat
<1> SUFFICES ASSUME NEW id \in CircleId PROVE Owed(t, circle[id]) \in Nat OBVIOUS
<1>1. circle[id] # NoCircle => circle[id].pot \in Nat
  BY FieldTypes DEF TypeOK
<1> QED BY <1>1 DEF Owed

\* The total after a step that writes one circle.
LEMMA OwedUpdate ==
  ASSUME TypeOK, NEW t \in Token, NEW id \in CircleId, NEW d \in Circle,
         circle' = [circle EXCEPT ![id] = d]
  PROVE  /\ Total([i \in CircleId |-> Owed(t, circle[i])], MaxCircles) \in Int
         /\ Total([i \in CircleId |-> Owed(t, circle'[i])], MaxCircles) =
              Total([i \in CircleId |-> Owed(t, circle[i])], MaxCircles)
                + Owed(t, d) - Owed(t, circle[id])
<1> DEFINE f == [i \in CircleId |-> Owed(t, circle[i])]
           g == [i \in CircleId |-> Owed(t, circle'[i])]
<1>1. CircleId = 0 .. MaxCircles - 1 /\ MaxCircles \in Nat
  BY BoundAssumption DEF CircleId
<1>2. f \in [0 .. MaxCircles - 1 -> Int]
  BY <1>1, OwedType
<1>3. \A i \in CircleId : circle'[i] = IF i = id THEN d ELSE circle[i]
  BY DEF TypeOK
<1>4. Owed(t, d) \in Nat
  BY FieldTypes DEF Owed
<1>5. \A i \in CircleId : Owed(t, circle'[i]) = IF i = id THEN Owed(t, d) ELSE Owed(t, circle[i])
  BY <1>3
<1>6. g \in [0 .. MaxCircles - 1 -> Int]
  BY <1>1, <1>4, <1>5, OwedType
<1>7. f[id] = Owed(t, circle[id]) /\ g[id] = Owed(t, d)
      /\ \A i \in 0 .. MaxCircles - 1 : i # id => g[i] = f[i]
  BY <1>1, <1>5
<1> HIDE DEF f, g
<1>8. Total(f, MaxCircles) \in Int /\ Total(g, MaxCircles) = Total(f, MaxCircles) + g[id] - f[id]
  BY <1>1, <1>2, <1>6, <1>7, TotalType, TotalUpdate
<1> QED BY <1>7, <1>8 DEF f, g

\* A call that moves money keeps the accounts.
LEMMA SolvencyMoves ==
  ASSUME AccountsInv, NEW id \in CircleId, MoneyMoves(id)
  PROVE  Solvency' /\ IdsAreFresh' /\ FeeLeaves'
<1>1. PICK d \in Circle, h \in [Address -> Int] :
        /\ circle' = [circle EXCEPT ![id] = d]
        /\ d.token = circle[id].token
        /\ d.fee_bps = circle[id].fee_bps /\ d.fee_recipient = circle[id].fee_recipient
        /\ balance' = [balance EXCEPT ![d.token] = h]
        /\ h[Contract] = balance[d.token][Contract] + d.pot - circle[id].pot
  BY DEF MoneyMoves
<1>2. TypeOK /\ Stored(id) /\ nextCircleId' = nextCircleId /\ circle[id] \in Circle
  BY ActiveType DEF MoneyMoves, AccountsInv
<1>3. d # NoCircle
  BY NoCircleAssumption
<1>4. Solvency'
  <2> SUFFICES ASSUME NEW t \in Token
               PROVE  balance'[t][Contract] =
                        Total([i \in CircleId |-> Owed(t, circle'[i])], MaxCircles)
    BY DEF Solvency
  <2> DEFINE before == Total([i \in CircleId |-> Owed(t, circle[i])], MaxCircles)
             after  == Total([i \in CircleId |-> Owed(t, circle'[i])], MaxCircles)
  <2>1. before \in Int /\ after = before + Owed(t, d) - Owed(t, circle[id])
    BY <1>1, <1>2, OwedUpdate
  <2>2. balance[t][Contract] = before
    BY DEF AccountsInv, Solvency
  <2> HIDE DEF before, after
  <2>3. d.pot \in Nat /\ circle[id].pot \in Nat
    BY <1>2, FieldTypes
  <2>4. CASE t = d.token
    <3>1. Owed(t, d) = d.pot /\ Owed(t, circle[id]) = circle[id].pot
      BY <1>1, <1>2, <1>3, <2>4 DEF Owed, Stored
    <3>2. balance'[t] = h
      BY <1>1, <1>2, <2>4 DEF TypeOK
    <3> QED BY <1>1, <2>1, <2>2, <2>3, <2>4, <3>1, <3>2 DEF after
  <2>5. CASE t # d.token
    <3>1. Owed(t, d) = 0 /\ Owed(t, circle[id]) = 0
      BY <1>1, <2>5 DEF Owed
    <3>2. balance'[t] = balance[t]
      BY <1>1, <1>2, <2>5 DEF TypeOK
    <3> QED BY <2>1, <2>2, <3>1, <3>2 DEF after
  <2> QED BY <2>4, <2>5
<1>5. IdsAreFresh'
  BY <1>1, <1>2, <1>3 DEF AccountsInv, IdsAreFresh, Stored, TypeOK
<1>6. FeeLeaves'
  BY <1>1, <1>2, <1>3 DEF AccountsInv, FeeLeaves, Stored, TypeOK
<1> QED BY <1>4, <1>5, <1>6

\* create_circle: the new id held nothing, so nothing is lost or owed.
LEMMA SolvencyCreate ==
  ASSUME AccountsInv, Create
  PROVE  Solvency' /\ IdsAreFresh' /\ FeeLeaves'
<1>1. TypeOK BY DEF AccountsInv
<1>2. PICK d \in Circle :
        /\ circle' = [circle EXCEPT ![nextCircleId] = d]
        /\ d.pot = 0 /\ d.contributors = << >>
        /\ d.fee_bps > 0 => d.fee_recipient # Contract
  BY <1>1, CreateEffect
<1>3. nextCircleId \in CircleId /\ nextCircleId' = nextCircleId + 1 /\ balance' = balance
  BY <1>1, CreateEffect
<1>4. circle[nextCircleId] = NoCircle /\ d # NoCircle
  <2>1. nextCircleId \in Nat /\ ~ (nextCircleId < nextCircleId)
    BY <1>1 DEF TypeOK
  <2> QED BY <1>3, <2>1, NoCircleAssumption DEF AccountsInv, IdsAreFresh, Stored
<1>5. Solvency'
  <2> SUFFICES ASSUME NEW t \in Token
               PROVE  balance'[t][Contract] =
                        Total([i \in CircleId |-> Owed(t, circle'[i])], MaxCircles)
    BY DEF Solvency
  <2> DEFINE before == Total([i \in CircleId |-> Owed(t, circle[i])], MaxCircles)
             after  == Total([i \in CircleId |-> Owed(t, circle'[i])], MaxCircles)
  <2>1. before \in Int /\ after = before + Owed(t, d) - Owed(t, circle[nextCircleId])
    BY <1>1, <1>2, <1>3, OwedUpdate
  <2>2. balance[t][Contract] = before
    BY DEF AccountsInv, Solvency
  <2> HIDE DEF before, after
  <2>3. Owed(t, d) = 0 /\ Owed(t, circle[nextCircleId]) = 0
    BY <1>2, <1>4 DEF Owed
  <2>4. after = before
    BY <2>1, <2>3
  <2> QED BY <1>3, <2>2, <2>4 DEF after
<1>6. IdsAreFresh'
  <2> SUFFICES ASSUME NEW i \in CircleId
               PROVE  circle'[i] # NoCircle <=> i < nextCircleId + 1
    BY <1>3 DEF IdsAreFresh, Stored
  <2>1. i \in Nat /\ nextCircleId \in Nat
    BY <1>1, BoundAssumption DEF CircleId, TypeOK
  <2>2. CASE i = nextCircleId
    BY <1>1, <1>2, <1>4, <2>1, <2>2 DEF TypeOK
  <2>3. CASE i # nextCircleId
    <3>1. circle'[i] = circle[i]
      BY <1>1, <1>2, <2>3 DEF TypeOK
    <3>2. circle[i] # NoCircle <=> i < nextCircleId
      BY DEF AccountsInv, IdsAreFresh, Stored
    <3> QED BY <2>1, <2>3, <3>1, <3>2
  <2> QED BY <2>2, <2>3
<1>7. FeeLeaves'
  BY <1>1, <1>2, <1>3 DEF AccountsInv, FeeLeaves, Stored, TypeOK
<1> QED BY <1>5, <1>6, <1>7

\* Every other step leaves the circles and the contract's balances alone.
LEMMA SolvencyOther ==
  ASSUME AccountsInv, UNCHANGED <<circle, nextCircleId, balance>>
  PROVE  Solvency' /\ IdsAreFresh' /\ FeeLeaves'
BY DEF AccountsInv, Solvency, IdsAreFresh, FeeLeaves, Stored

\* The books balance in the initial state.
LEMMA AccountsInit == Init => AccountsInv
<1> SUFFICES ASSUME Init PROVE AccountsInv OBVIOUS
<1>1. \A id \in CircleId : circle[id] = NoCircle
  BY DEF Init
<1>2. IdsAreFresh /\ FeeLeaves /\ PotIsDeposits
  <2>1. \A id \in CircleId : ~ (id < nextCircleId)
    BY BoundAssumption DEF Init, CircleId
  <2> QED BY <1>1, <2>1 DEF IdsAreFresh, FeeLeaves, PotIsDeposits, Stored
<1>3. Solvency
  <2> SUFFICES ASSUME NEW t \in Token
               PROVE  balance[t][Contract] =
                        Total([id \in CircleId |-> Owed(t, circle[id])], MaxCircles)
    BY DEF Solvency
  <2>1. \A id \in CircleId : Owed(t, circle[id]) = 0
    BY <1>1 DEF Owed
  <2>2. [id \in CircleId |-> Owed(t, circle[id])] = [i \in 0 .. MaxCircles - 1 |-> 0]
    BY <2>1 DEF CircleId
  <2>3. balance[t][Contract] = 0
    BY AddressAssumption DEF Init
  <2> QED BY <2>2, <2>3, TotalZero, BoundAssumption
<1> QED BY <1>2, <1>3, TypeInit DEF AccountsInv

\* Every step keeps the books balanced.
LEMMA AccountsStep == AccountsInv /\ [Next]_vars => AccountsInv'
<1> SUFFICES ASSUME AccountsInv, [Next]_vars PROVE AccountsInv' OBVIOUS
<1>1. TypeOK /\ PotIsDeposits /\ TypeOK'
  BY TypeStep DEF AccountsInv
<1>2. CASE Create
  BY <1>1, <1>2, PotCreate, SolvencyCreate DEF AccountsInv
<1>3. ASSUME NEW id \in CircleId, NEW from \in Signer, Fund(id, from)
      PROVE  AccountsInv'
  BY <1>1, <1>3, PotFund, MoneyFund, SolvencyMoves DEF AccountsInv
<1>4. ASSUME NEW id \in CircleId, SomeClaim(id)
      PROVE  AccountsInv'
  BY <1>1, <1>4, PotNextRound, MoneyClaim, SolvencyMoves DEF AccountsInv
<1>5. ASSUME NEW id \in CircleId, NEW caller \in Signer, AcceptAdmin(id, caller)
      PROVE  AccountsInv'
  BY <1>1, <1>5, PotOther, MoneyAcceptAdmin, SolvencyMoves DEF AccountsInv
<1>6. ASSUME NEW id \in CircleId, ExpireRound(id)
      PROVE  AccountsInv'
  BY <1>1, <1>6, PotNextRound, MoneyRefund, SolvencyMoves DEF AccountsInv
<1>7. ASSUME NEW id \in CircleId, NEW caller \in Signer, CancelCircle(id, caller)
      PROVE  AccountsInv'
  BY <1>1, <1>7, PotCancel, MoneyRefund, SolvencyMoves DEF AccountsInv
<1>8. ASSUME UNCHANGED <<circle, nextCircleId, balance>>
      PROVE  AccountsInv'
  BY <1>1, <1>8, PotOther, SolvencyOther DEF AccountsInv
<1>9. ASSUME NEW id \in CircleId, NEW caller \in Signer, NEW new_admin \in Nominees,
             ProposeAdmin(id, caller, new_admin)
      PROVE  AccountsInv'
  BY <1>8, <1>9 DEF ProposeAdmin
<1>10. CASE CloseLedger \/ (\E a \in Freezable : ToggleFrozen(a)) \/ UNCHANGED vars
  BY <1>8, <1>10 DEF CloseLedger, ToggleFrozen, vars
<1> QED
  BY <1>2, <1>3, <1>4, <1>5, <1>6, <1>7, <1>9, <1>10 DEF Next

\* The inductive invariant: ids are used once, fees leave the contract, every
\* pot is its deposits, and the contract holds exactly the pots.
THEOREM AccountsAreKept == Spec => []AccountsInv
BY AccountsInit, AccountsStep, PTL DEF Spec

\* The pot of every circle is its recorded deposits, one contribution each, and
\* never passes the target that claim compares it with for equality.
THEOREM PotsAreDeposits == Spec => []PotIsDeposits
<1>1. AccountsInv => PotIsDeposits BY DEF AccountsInv
<1> QED BY <1>1, AccountsAreKept, PTL

\* The contract holds exactly the sum of the pots, of every token, however many
\* circles share it: no call pays out of another circle's money.
THEOREM ContractIsSolvent == Spec => []Solvency
<1>1. AccountsInv => Solvency BY DEF AccountsInv
<1> QED BY <1>1, AccountsAreKept, PTL

\* The refund of cancel_circle and expire_round is always covered, so it goes
\* through whenever the contributors can receive it.
THEOREM NoPotIsStranded == Spec => []NoStrandedPot
<1>1. AccountsInv => NoStrandedPot
  <2> SUFFICES ASSUME AccountsInv, NEW id \in CircleId, Active(id),
                      \A i \in DOMAIN circle[id].contributors :
                         circle[id].contributors[i] \notin frozen
               PROVE  CanRefund(circle[id])
    BY DEF NoStrandedPot
  <2> DEFINE c == circle[id]
             f == [i \in CircleId |-> Owed(c.token, circle[i])]
  <2>1. TypeOK /\ c \in Circle /\ c # NoCircle /\ PotMatches(c)
    BY ActiveType DEF AccountsInv, Active, Stored, PotIsDeposits
  <2>2. c.token \in Token /\ c.pot \in Nat
    BY <2>1, FieldTypes
  <2>3. MaxCircles \in Nat /\ f \in [0 .. MaxCircles - 1 -> Nat] /\ id \in 0 .. MaxCircles - 1
    BY <2>1, <2>2, OwedType, BoundAssumption DEF CircleId
  <2>4. f[id] = c.pot
    BY <2>1 DEF Owed
  <2>5. balance[c.token][Contract] = Total(f, MaxCircles)
    BY <2>2 DEF AccountsInv, Solvency
  <2>6. f[id] <= Total(f, MaxCircles) /\ Total(f, MaxCircles) \in Int
    <3> HIDE DEF f
    <3>1. f \in [0 .. MaxCircles - 1 -> Int]
      BY <2>3
    <3> QED BY <2>3, <3>1, TotalAtLeast, TotalType
  <2>7. balance[c.token][Contract] >= c.contribution * Len(c.contributors)
    <3>1. c.pot = c.contribution * Len(c.contributors)
      BY <2>1 DEF PotMatches
    <3> HIDE DEF f, c
    <3> QED BY <2>2, <2>4, <2>5, <2>6, <3>1
  <2> QED BY <2>1, <2>7 DEF CanRefund, PotMatches
<1> QED BY <1>1, AccountsAreKept, PTL

=============================================================================
