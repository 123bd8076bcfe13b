------------------------- MODULE ShariboRoundsProofs -------------------------
(***************************************************************************)
(* Theorems about the rounds of a Sharibo circle, for every value of the   *)
(* constants: what a payout is, what becomes of a full pot, of a cancelled *)
(* circle and of a nomination, and that the contract implements Escrow.    *)
(***************************************************************************)
EXTENDS ShariboProofs

\* A call that makes no payout keeps what the past payouts refer to.
Keeps(c, d) ==
  /\ d.root = c.root /\ d.contribution = c.contribution /\ d.size = c.size
  /\ d.nullifiers = c.nullifiers /\ c.round <= d.round

OtherCall(id) ==
  \/ \E from \in Signer : Fund(id, from)
  \/ \E caller \in Signer : AcceptAdmin(id, caller) \/ CancelCircle(id, caller)
  \/ ExpireRound(id)

\* The calls that make no payout write one active circle, and keep that much.
LEMMA OtherCallEffect ==
  ASSUME TypeOK, NEW id \in CircleId, OtherCall(id)
  PROVE  /\ Active(id) /\ payouts' = payouts
         /\ \E d : circle' = [circle EXCEPT ![id] = d] /\ d # NoCircle /\ Keeps(circle[id], d)
<1> DEFINE c == circle[id]
<1>1. TypeOK' /\ Active(id) /\ payouts' = payouts
  BY TypeFund, TypeAcceptAdmin, TypeCancelCircle, TypeExpireRound
  DEF OtherCall, Fund, AcceptAdmin, CancelCircle, ExpireRound, history
<1>2. c \in Circle /\ c.round \in Nat
  <2>1. c \in Circle
    BY <1>1, ActiveType DEF Active
  <2> QED BY <2>1, BoundAssumption DEF Circle, Round
<1>3. ASSUME NEW d \in Circle, circle' = [circle EXCEPT ![id] = d], Keeps(c, d)
      PROVE  \E e : circle' = [circle EXCEPT ![id] = e] /\ e # NoCircle /\ Keeps(c, e)
  BY <1>3, NoCircleAssumption
<1>4. ASSUME NEW d, circle' = [circle EXCEPT ![id] = d], d # NoCircle PROVE d \in Circle
  BY <1>1, <1>4 DEF TypeOK
<1>5. ASSUME NEW from \in Signer, Fund(id, from)
      PROVE  \E d : circle' = [circle EXCEPT ![id] = d] /\ d # NoCircle /\ Keeps(c, d)
  <2> DEFINE d == [c EXCEPT !.pot = c.pot + c.contribution,
                            !.contributors = Append(c.contributors, from)]
  <2>1. circle' = [circle EXCEPT ![id] = d] BY <1>5 DEF Fund
  <2>2. Keeps(c, d) BY <1>2 DEF Keeps, Circle
  <2>3. d \in Circle
    <3>1. Append(c.contributors, from) \in Seq(Address) BY <1>2 DEF Circle, Signer
    <3>2. c.pot + c.contribution \in 0 .. I128_MAX
      BY <1>2, <1>5, FieldTypes, BoundAssumption DEF Fund
    <3> QED BY <1>2, <3>1, <3>2 DEF Circle
  <2> HIDE DEF d
  <2> QED BY <1>3, <2>1, <2>2, <2>3
<1>6. ASSUME NEW caller \in Signer, AcceptAdmin(id, caller)
      PROVE  \E d : circle' = [circle EXCEPT ![id] = d] /\ d # NoCircle /\ Keeps(c, d)
  <2> DEFINE d == [c EXCEPT !.admin = pendingAdmin[id]]
  <2>1. circle' = [circle EXCEPT ![id] = d] BY <1>6 DEF AcceptAdmin
  <2>2. Keeps(c, d) BY <1>2 DEF Keeps, Circle
  <2>3. d \in Circle
    <3>1. pendingAdmin[id] \in Address BY <1>6 DEF AcceptAdmin, Signer
    <3> QED BY <1>2, <3>1 DEF Circle
  <2> HIDE DEF d
  <2> QED BY <1>3, <2>1, <2>2, <2>3
<1>7. ASSUME NEW caller \in Signer, CancelCircle(id, caller)
      PROVE  \E d : circle' = [circle EXCEPT ![id] = d] /\ d # NoCircle /\ Keeps(c, d)
  <2> DEFINE d == [c EXCEPT !.pot = 0, !.cancelled = TRUE, !.contributors = << >>]
  <2>1. circle' = [circle EXCEPT ![id] = d] BY <1>7 DEF CancelCircle
  <2>2. Keeps(c, d) BY <1>2 DEF Keeps, Circle
  <2>3. d \in Circle
    <3>1. << >> \in Seq(Address) /\ 0 \in 0 .. I128_MAX BY BoundAssumption
    <3> QED BY <1>2, <3>1 DEF Circle
  <2> HIDE DEF d
  <2> QED BY <1>3, <2>1, <2>2, <2>3
<1>8. ASSUME ExpireRound(id)
      PROVE  \E d : circle' = [circle EXCEPT ![id] = d] /\ d # NoCircle /\ Keeps(c, d)
  <2> DEFINE d == OpenNextRound(c)
  <2>1. circle' = [circle EXCEPT ![id] = d] BY <1>8 DEF ExpireRound
  <2>2. d \in Circle BY <1>2, <1>8, OpenNextRoundType DEF ExpireRound
  <2>3. Keeps(c, d) BY <1>2 DEF Keeps, OpenNextRound, Circle
  <2> HIDE DEF d
  <2> QED BY <1>3, <2>1, <2>2, <2>3
<1> QED BY <1>1, <1>5, <1>6, <1>7, <1>8, SMTT(60) DEF OtherCall

\* What claim writes: the payout, and the round it was made for.
LEMMA ClaimEffect ==
  ASSUME TypeOK, NEW id \in CircleId, SomeClaim(id)
  PROVE  \E d \in Circle, p \in Payout :
           /\ Active(id)
           /\ circle' = [circle EXCEPT ![id] = d]
           /\ payouts' = [payouts EXCEPT ![id] = payouts[id] \cup {p}]
           /\ d.root = circle[id].root
           /\ d.contribution = circle[id].contribution /\ d.size = circle[id].size
           /\ d.round = circle[id].round + 1
           /\ d.nullifiers = circle[id].nullifiers
                               \cup {NullifierHash(p.proof.member, p.proof.external_nullifier)}
           /\ p.round = circle[id].round
           /\ p.net + p.fee = PotTarget(circle[id])
           /\ p.proof.member \in circle[id].root
           /\ p.proof.external_nullifier = ExternalNullifier(id, p.round)
           /\ p.recipient = PayoutAddress[p.proof.member]
<1>1. PICK recipient \in Address, proof \in Proofs :
        Claim(id, recipient, NullifierHash(proof.member, proof.external_nullifier),
              proof.external_nullifier, proof)
  BY DEF SomeClaim
<1> DEFINE c     == circle[id]
           n     == NullifierHash(proof.member, proof.external_nullifier)
           split == ApplyFeeSplit(c.fee_bps, c.pot)
           d     == [OpenNextRound(c) EXCEPT !.nullifiers = OpenNextRound(c).nullifiers \cup {n}]
           p     == [ round |-> c.round, proof |-> proof, recipient |-> recipient,
                      net |-> split.net, fee |-> split.fee ]
<1>2. /\ Active(id) /\ c.round < MaxRound
      /\ c.pot = PotTarget(c)
      /\ proof.external_nullifier = ExternalNullifier(id, c.round)
      /\ VerifyGroth16(proof, n, c.root, proof.external_nullifier, recipient)
      /\ circle' = [circle EXCEPT ![id] = d]
      /\ payouts' = [payouts EXCEPT ![id] = payouts[id] \cup {p}]
  BY <1>1 DEF Claim
<1>3. c \in Circle
  BY <1>2, ActiveType DEF Active
<1>4. c.round \in Round /\ c.pot \in 0 .. I128_MAX
  BY <1>3 DEF Circle
<1>5. split.fee \in 0 .. c.pot /\ split.net \in 0 .. c.pot /\ split.fee + split.net = c.pot
  BY <1>3, SplitType
<1> HIDE DEF split
<1>6. split.net + split.fee = PotTarget(c)
  BY <1>2, <1>4, <1>5, BoundAssumption
<1>7. p \in Payout
  <2>1. split.fee \in 0 .. I128_MAX /\ split.net \in 0 .. I128_MAX
    BY <1>4, <1>5, BoundAssumption
  <2> QED BY <1>4, <2>1 DEF Payout
<1>8. OpenNextRound(c) \in Circle
  BY <1>2, <1>3, OpenNextRoundType
<1>9. /\ OpenNextRound(c).root = c.root
      /\ OpenNextRound(c).contribution = c.contribution /\ OpenNextRound(c).size = c.size
      /\ OpenNextRound(c).round = c.round + 1 /\ OpenNextRound(c).nullifiers = c.nullifiers
  BY <1>3 DEF OpenNextRound, Circle
<1>10. n \in Member \X (CircleId \X Round)
  BY DEF Proofs, NullifierHash
<1>11. proof.member \in c.root /\ recipient = PayoutAddress[proof.member]
  BY <1>2 DEF Proofs, VerifyGroth16
<1>12. /\ p.round = c.round /\ p.proof = proof /\ p.recipient = recipient
       /\ p.net = split.net /\ p.fee = split.fee
  OBVIOUS
<1> HIDE DEF n, p
<1>13. /\ d \in Circle
       /\ d.root = c.root /\ d.contribution = c.contribution /\ d.size = c.size
       /\ d.round = c.round + 1 /\ d.nullifiers = c.nullifiers \cup {n}
  BY <1>8, <1>9, <1>10 DEF Circle
<1> HIDE DEF d
<1> QED BY <1>2, <1>6, <1>7, <1>11, <1>12, <1>13 DEF n

----------------------------------------------------------------------------
(* Payouts.                                                                *)

\* What PayoutsAreSound says of a payout p of circle id, whose record is c.
SoundFor(id, c, p) ==
  /\ p.round < c.round
  /\ p.net + p.fee = PotTarget(c)
  /\ p.proof.member \in c.root
  /\ p.proof.external_nullifier = ExternalNullifier(id, p.round)
  /\ NullifierHash(p.proof.member, p.proof.external_nullifier) \in c.nullifiers
  /\ p.recipient = PayoutAddress[p.proof.member]

\* PayoutsAreSound, said one payout at a time.
LEMMA PayoutsBySoundFor ==
  PayoutsAreSound <=>
    \A id \in CircleId : \A p \in payouts[id] :
      /\ circle[id] # NoCircle /\ SoundFor(id, circle[id], p)
      /\ \A q \in payouts[id] : q.round = p.round => q = p
BY DEF PayoutsAreSound, SoundFor, Stored

\* A past payout stays sound when the circle is written by a later call.
LEMMA SoundStays ==
  ASSUME TypeOK, NEW id \in CircleId, NEW c \in Circle, NEW d, NEW p \in payouts[id],
         SoundFor(id, c, p), d.root = c.root, d.contribution = c.contribution, d.size = c.size,
         c.nullifiers \subseteq d.nullifiers, d.round \in Nat, c.round <= d.round
  PROVE  SoundFor(id, d, p)
<1>1. p.round \in Nat /\ c.round \in Nat
  <2>1. p \in Payout BY DEF TypeOK
  <2> QED BY <2>1, BoundAssumption DEF Payout, Circle, Round
<1> QED BY <1>1 DEF SoundFor, PotTarget

\* There are no payouts in the initial state.
LEMMA PayoutsInit == Init => PayoutsAreSound
BY DEF Init, PayoutsAreSound

\* Every step keeps the payouts sound.
LEMMA PayoutsStep == AccountsInv /\ PayoutsAreSound /\ [Next]_vars => PayoutsAreSound'
<1> SUFFICES ASSUME AccountsInv, PayoutsAreSound, [Next]_vars PROVE PayoutsAreSound' OBVIOUS
<1>1. TypeOK /\ TypeOK'
  BY TypeStep DEF AccountsInv
<1>2. CASE UNCHANGED <<circle, payouts>>
  BY <1>2 DEF PayoutsAreSound, Stored
<1>3. CASE Create
  <2>1. payouts' = payouts /\ nextCircleId \in CircleId
    BY <1>1, <1>3, CreateEffect
  <2>2. \A id \in CircleId : id # nextCircleId => circle'[id] = circle[id]
    BY <1>1, <1>3, CreateEffect DEF TypeOK
  <2>3. ~ Stored(nextCircleId)
    <3>1. nextCircleId \in Nat BY <1>1 DEF TypeOK
    <3> QED BY <2>1, <3>1 DEF AccountsInv, IdsAreFresh
  <2>4. \A id \in CircleId : payouts[id] # {} => circle'[id] = circle[id]
    BY <2>2, <2>3 DEF PayoutsAreSound
  <2> QED BY <2>1, <2>4 DEF PayoutsAreSound, Stored
<1>4. ASSUME NEW id \in CircleId, OtherCall(id)
      PROVE  PayoutsAreSound'
  <2>1. PICK d : circle' = [circle EXCEPT ![id] = d] /\ d # NoCircle /\ Keeps(circle[id], d)
    BY <1>1, <1>4, OtherCallEffect
  <2>2. payouts' = payouts /\ Active(id)
    BY <1>1, <1>4, OtherCallEffect
  <2>3. circle[id] \in Circle /\ circle'[id] = d /\ d \in Circle
    <3>1. circle[id] \in Circle /\ circle'[id] = d
      BY <1>1, <2>1, <2>2, ActiveType DEF Active, TypeOK
    <3> QED BY <1>1, <2>1, <3>1 DEF TypeOK
  <2>4. d.round \in Nat
    BY <2>3, BoundAssumption DEF Circle, Round
  <2>5. ASSUME NEW i \in CircleId, NEW p \in payouts[i]
        PROVE  circle'[i] # NoCircle /\ SoundFor(i, circle'[i], p)
    <3>1. circle[i] # NoCircle /\ SoundFor(i, circle[i], p)
      BY PayoutsBySoundFor
    <3>2. CASE i = id
      <4>1. SoundFor(id, d, p)
        BY <1>1, <2>1, <2>3, <2>4, <3>1, <3>2, SoundStays DEF Keeps
      <4> QED BY <2>1, <2>3, <3>2, <4>1
    <3>3. CASE i # id
      <4>1. circle'[i] = circle[i] BY <1>1, <2>1, <3>3 DEF TypeOK
      <4> QED BY <3>1, <4>1
    <3> QED BY <3>2, <3>3
  <2>6. \A i \in CircleId : \A p, q \in payouts[i] : q.round = p.round => q = p
    BY DEF PayoutsAreSound
  <2> QED BY <2>2, <2>5, <2>6 DEF PayoutsAreSound, SoundFor, Stored
<1>5. ASSUME NEW id \in CircleId, SomeClaim(id)
      PROVE  PayoutsAreSound'
  <2> DEFINE c == circle[id]
  <2>1. PICK d \in Circle, p \in Payout :
          /\ Active(id)
          /\ circle' = [circle EXCEPT ![id] = d]
          /\ payouts' = [payouts EXCEPT ![id] = payouts[id] \cup {p}]
          /\ d.root = c.root /\ d.contribution = c.contribution /\ d.size = c.size
          /\ d.round = c.round + 1
          /\ d.nullifiers = c.nullifiers
                              \cup {NullifierHash(p.proof.member, p.proof.external_nullifier)}
          /\ p.round = c.round
          /\ p.net + p.fee = PotTarget(c)
          /\ p.proof.member \in c.root
          /\ p.proof.external_nullifier = ExternalNullifier(id, p.round)
          /\ p.recipient = PayoutAddress[p.proof.member]
    BY <1>1, <1>5, ClaimEffect
  <2>2. c \in Circle /\ c.round \in Nat /\ d.round \in Nat /\ c.round <= d.round /\ c.round < d.round
    <3>1. c \in Circle BY <1>1, <2>1, ActiveType DEF Active
    <3>2. c.round \in Nat BY <3>1, BoundAssumption DEF Circle, Round
    <3> QED BY <2>1, <3>1, <3>2
  <2>3. circle'[id] = d /\ d # NoCircle /\ payouts'[id] = payouts[id] \cup {p}
    BY <1>1, <2>1, NoCircleAssumption DEF TypeOK
  <2>4. SoundFor(id, d, p)
    BY <2>1, <2>2 DEF SoundFor, PotTarget
  <2>5. ASSUME NEW i \in CircleId, NEW q \in payouts'[i]
        PROVE  /\ circle'[i] # NoCircle /\ SoundFor(i, circle'[i], q)
               /\ \A r \in payouts'[i] : r.round = q.round => r = q
    <3>1. CASE i # id
      <4>1. circle'[i] = circle[i] /\ payouts'[i] = payouts[i]
        BY <1>1, <2>1, <3>1 DEF TypeOK
      <4> QED BY <4>1, PayoutsBySoundFor
    <3>2. CASE i = id
      <4>1. \A o \in payouts[id] : SoundFor(id, c, o) /\ o.round # p.round
        <5> SUFFICES ASSUME NEW o \in payouts[id]
                     PROVE  SoundFor(id, c, o) /\ o.round # p.round
          OBVIOUS
        <5>1. SoundFor(id, c, o) BY PayoutsBySoundFor
        <5>2. o \in Payout BY <1>1 DEF TypeOK
        <5>3. o.round \in Nat BY <5>2, BoundAssumption DEF Payout, Round
        <5> QED BY <2>1, <2>2, <5>1, <5>3 DEF SoundFor
      <4>2. \A o \in payouts[id] : SoundFor(id, d, o)
        BY <1>1, <2>1, <2>2, <4>1, SoundStays
      <4>3. \A o, r \in payouts[id] : r.round = o.round => r = o
        BY DEF PayoutsAreSound
      <4>4. \A o, r \in payouts[id] \cup {p} : r.round = o.round => r = o
        BY <4>1, <4>3
      <4> QED BY <2>3, <2>4, <3>2, <4>2, <4>4
    <3> QED BY <3>1, <3>2
  <2> QED BY <2>5 DEF PayoutsAreSound, SoundFor, Stored
<1> QED
  BY <1>2, <1>3, <1>4, <1>5
  DEF Next, OtherCall, ProposeAdmin, CloseLedger, ToggleFrozen, history, vars

\* Every payout is the whole pot of one past round of its circle, made once for
\* that round, on a member's proof for that circle and round, to the address
\* the member bound the proof to.
THEOREM EveryPayoutIsSound == Spec => []PayoutsAreSound
BY AccountsAreKept, PayoutsInit, PayoutsStep, PTL DEF Spec

----------------------------------------------------------------------------
(* Full pots and cancelled circles.                                        *)

\* A step changes at most one circle, one that is active or new.
LEMMA OneCircleChanges ==
  ASSUME AccountsInv, [Next]_vars, NEW id \in CircleId, Stored(id), circle'[id] # circle[id]
  PROVE  Active(id) /\ (SomeClaim(id) \/ OtherCall(id))
<1>1. TypeOK
  BY DEF AccountsInv
<1>2. ~ Create
  <2> SUFFICES ASSUME Create PROVE FALSE OBVIOUS
  <2>1. id # nextCircleId
    <3>1. nextCircleId \in Nat BY <1>1 DEF TypeOK
    <3> QED BY <3>1 DEF AccountsInv, IdsAreFresh
  <2>2. circle'[id] = circle[id]
    BY <1>1, <2>1, CreateEffect DEF TypeOK
  <2> QED BY <2>2
<1>3. ASSUME NEW i \in CircleId, SomeClaim(i) \/ OtherCall(i)
      PROVE  i = id /\ Active(i)
  <2>1. \E d : circle' = [circle EXCEPT ![i] = d]
    BY <1>1, <1>3, OtherCallEffect, ClaimEffect
  <2>2. Active(i)
    BY <1>1, <1>3, OtherCallEffect, ClaimEffect
  <2> QED BY <1>1, <2>1, <2>2 DEF TypeOK
<1>4. circle' # circle
  OBVIOUS
<1>5. ~ (UNCHANGED circle)
  BY <1>4
<1> QED
  BY <1>2, <1>3, <1>5 DEF Next, OtherCall, ProposeAdmin, CloseLedger, ToggleFrozen, vars

\* A cancelled circle is closed for good: nothing of its record and nothing of
\* its nomination ever changes again.
THEOREM CancelledStaysFinal == Spec => CancelledIsFinal
<1>1. AccountsInv /\ [Next]_vars =>
        [\A id \in CircleId :
           (Stored(id) /\ circle[id].cancelled)
             => circle'[id] = circle[id] /\ pendingAdmin'[id] = pendingAdmin[id]]_vars
  <2> SUFFICES ASSUME AccountsInv, [Next]_vars, NEW id \in CircleId,
                      Stored(id), circle[id].cancelled
               PROVE  circle'[id] = circle[id] /\ pendingAdmin'[id] = pendingAdmin[id]
    OBVIOUS
  <2>1. TypeOK /\ ~ Active(id)
    BY DEF AccountsInv, Active
  <2>2. circle'[id] = circle[id]
    BY <2>1, OneCircleChanges
  <2>3. pendingAdmin'[id] = pendingAdmin[id]
    <3>1. CASE UNCHANGED pendingAdmin
      BY <3>1
    <3>2. ASSUME NEW i \in CircleId, NEW caller \in Signer, NEW new_admin \in Nominees,
                 ProposeAdmin(i, caller, new_admin)
          PROVE  pendingAdmin'[id] = pendingAdmin[id]
      BY <2>1, <3>2 DEF ProposeAdmin, TypeOK
    <3>3. ASSUME NEW i \in CircleId, NEW caller \in Signer, AcceptAdmin(i, caller)
          PROVE  pendingAdmin'[id] = pendingAdmin[id]
      BY <2>1, <3>3 DEF AcceptAdmin, ClearNomination, TypeOK
    <3>4. Create => UNCHANGED pendingAdmin
      BY <2>1, CreateEffect, SMTT(60)
    <3>5. ASSUME NEW i \in CircleId, SomeClaim(i) \/ OtherCall(i)
          PROVE  UNCHANGED pendingAdmin \/ \E caller \in Signer : AcceptAdmin(i, caller)
      BY <3>5 DEF SomeClaim, Claim, OtherCall, Fund, ExpireRound, CancelCircle
    <3>6. CASE CloseLedger \/ (\E a \in Freezable : ToggleFrozen(a)) \/ UNCHANGED vars
      BY <3>6 DEF CloseLedger, ToggleFrozen, vars
    <3>7. CASE \E i \in CircleId : SomeClaim(i) \/ OtherCall(i)
      BY <3>1, <3>3, <3>5, <3>7
    <3> QED BY <3>1, <3>2, <3>4, <3>6, <3>7 DEF Next, OtherCall
  <2> QED BY <2>2, <2>3
<1> QED BY <1>1, AccountsAreKept, PTL DEF Spec, CancelledIsFinal

\* A full pot is emptied by its payout or by the admin's cancel_circle only:
\* no deadline and no other caller can take it apart.
THEOREM FullPotStays == Spec => FullPotIsKept
<1>1. AccountsInv /\ PayoutsAreSound /\ [Next]_vars =>
        [\A id \in CircleId :
           (Active(id) /\ circle[id].pot = PotTarget(circle[id]) /\ circle'[id].pot # circle[id].pot)
             => \/ circle'[id].cancelled
                \/ \E p \in payouts'[id] \ payouts[id] : p.round = circle[id].round]_vars
  <2> SUFFICES ASSUME AccountsInv, PayoutsAreSound, [Next]_vars, NEW id \in CircleId, Active(id),
                      circle[id].pot = PotTarget(circle[id]), circle'[id].pot # circle[id].pot
               PROVE  \/ circle'[id].cancelled
                      \/ \E p \in payouts'[id] \ payouts[id] : p.round = circle[id].round
    OBVIOUS
  <2>1. TypeOK /\ circle[id] \in Circle
    BY ActiveType DEF AccountsInv, Active
  <2>2. SomeClaim(id) \/ OtherCall(id)
    BY OneCircleChanges DEF Active
  <2>3. ~ Underfunded(circle[id])
    <3>1. circle[id].pot \in Nat BY <2>1, FieldTypes
    <3> QED BY <3>1 DEF Underfunded
  <2>4. CASE SomeClaim(id)
    <3>1. PICK p \in Payout :
            /\ payouts' = [payouts EXCEPT ![id] = payouts[id] \cup {p}]
            /\ p.round = circle[id].round
      BY <2>1, <2>4, ClaimEffect
    <3>2. p \in payouts'[id]
      BY <2>1, <3>1 DEF TypeOK
    <3>3. p \notin payouts[id]
      <4>1. circle[id].round \in Nat BY <2>1, BoundAssumption DEF Circle, Round
      <4>2. p \in payouts[id] => p.round < circle[id].round BY DEF PayoutsAreSound
      <4> QED BY <3>1, <4>1, <4>2
    <3> QED BY <3>1, <3>2, <3>3
  <2>5. CASE \E from \in Signer : Fund(id, from)
    BY <2>3, <2>5 DEF Fund
  <2>6. CASE ExpireRound(id)
    BY <2>3, <2>6 DEF ExpireRound
  <2>7. ASSUME NEW caller \in Signer, AcceptAdmin(id, caller)
        PROVE  FALSE
    <3>1. circle'[id] = [circle[id] EXCEPT !.admin = pendingAdmin[id]]
      BY <2>1, <2>7 DEF AcceptAdmin, TypeOK
    <3> QED BY <2>1, <3>1 DEF Circle
  <2>8. ASSUME NEW caller \in Signer, CancelCircle(id, caller)
        PROVE  circle'[id].cancelled
    <3>1. circle'[id] = [circle[id] EXCEPT !.pot = 0, !.cancelled = TRUE, !.contributors = << >>]
      BY <2>1, <2>8 DEF CancelCircle, TypeOK
    <3> QED BY <2>1, <3>1 DEF Circle
  <2> QED BY <2>2, <2>4, <2>5, <2>6, <2>7, <2>8 DEF OtherCall
<1> QED BY <1>1, AccountsAreKept, EveryPayoutIsSound, PTL DEF Spec, FullPotIsKept

----------------------------------------------------------------------------
(* The handover of a circle.                                               *)

\* Every step keeps the nominations current.
LEMMA NominationStep == AccountsInv /\ NominationIsCurrent /\ [Next]_vars => NominationIsCurrent'
<1> SUFFICES ASSUME AccountsInv, NominationIsCurrent, [Next]_vars,
                    NEW id \in CircleId, pendingAdmin'[id] # NoAddress
             PROVE  circle'[id] # NoCircle /\ nominator'[id] = circle'[id].admin
  BY DEF NominationIsCurrent, Stored
<1>1. TypeOK /\ TypeOK'
  BY TypeStep DEF AccountsInv
<1>2. pendingAdmin[id] # NoAddress => circle[id] # NoCircle /\ nominator[id] = circle[id].admin
  BY DEF NominationIsCurrent, Stored
<1>3. ASSUME NEW i \in CircleId, NEW caller \in Signer, NEW new_admin \in Nominees,
             ProposeAdmin(i, caller, new_admin)
      PROVE  circle'[id] # NoCircle /\ nominator'[id] = circle'[id].admin
  <2>1. /\ circle' = circle /\ Stored(i) /\ caller = circle[i].admin
        /\ pendingAdmin' = [pendingAdmin EXCEPT ![i] = new_admin]
        /\ nominator' = [nominator EXCEPT ![i] = caller]
    BY <1>3 DEF ProposeAdmin, Active
  <2> QED BY <1>1, <1>2, <2>1 DEF TypeOK, Stored
<1>4. ASSUME NEW i \in CircleId, NEW caller \in Signer, AcceptAdmin(i, caller)
      PROVE  circle'[id] # NoCircle /\ nominator'[id] = circle'[id].admin
  <2>1. /\ \E d : circle' = [circle EXCEPT ![i] = d]
        /\ pendingAdmin' = [pendingAdmin EXCEPT ![i] = NoAddress]
        /\ nominator' = nominator
    BY <1>4 DEF AcceptAdmin, ClearNomination, history
  <2>2. id # i /\ pendingAdmin'[id] = pendingAdmin[id] /\ circle'[id] = circle[id]
    BY <1>1, <2>1 DEF TypeOK
  <2> QED BY <1>2, <2>1, <2>2
<1>5. ASSUME pendingAdmin' = pendingAdmin, nominator' = nominator,
             pendingAdmin[id] # NoAddress => circle'[id] = circle[id] \/
               (circle'[id] # NoCircle /\ circle'[id].admin = circle[id].admin)
      PROVE  circle'[id] # NoCircle /\ nominator'[id] = circle'[id].admin
  BY <1>2, <1>5
<1>6. CASE Create
  <2>1. pendingAdmin[id] # NoAddress => id # nextCircleId
    <3>1. nextCircleId \in Nat BY <1>1 DEF TypeOK
    <3> QED BY <1>2, <3>1 DEF AccountsInv, IdsAreFresh, Stored
  <2>2. id # nextCircleId => circle'[id] = circle[id]
    BY <1>1, <1>6, CreateEffect, SMTT(60) DEF TypeOK
  <2> QED BY <1>1, <1>5, <1>6, <2>1, <2>2, CreateEffect
<1>7. ASSUME NEW i \in CircleId,
             \/ \E from \in Signer : Fund(i, from)
             \/ \E caller \in Signer : CancelCircle(i, caller)
             \/ ExpireRound(i) \/ SomeClaim(i)
      PROVE  circle'[id] # NoCircle /\ nominator'[id] = circle'[id].admin
  <2> DEFINE c == circle[i]
  <2>1. pendingAdmin' = pendingAdmin /\ nominator' = nominator /\ Active(i)
    BY <1>7 DEF Fund, CancelCircle, ExpireRound, SomeClaim, Claim, history
  <2>2. c \in Circle
    BY <1>1, <2>1, ActiveType DEF Active
  <2>3. \E d : circle' = [circle EXCEPT ![i] = d] /\ d.admin = c.admin /\ d # NoCircle
    <3>1. ASSUME NEW from \in Signer, Fund(i, from)
          PROVE  \E d : circle' = [circle EXCEPT ![i] = d] /\ d.admin = c.admin
      <4> DEFINE d == [c EXCEPT !.pot = c.pot + c.contribution,
                                !.contributors = Append(c.contributors, from)]
      <4>1. circle' = [circle EXCEPT ![i] = d] BY <3>1 DEF Fund
      <4>2. d.admin = c.admin BY <2>2 DEF Circle
      <4> QED BY <4>1, <4>2
    <3>2. ASSUME NEW caller \in Signer, CancelCircle(i, caller)
          PROVE  \E d : circle' = [circle EXCEPT ![i] = d] /\ d.admin = c.admin
      <4> DEFINE d == [c EXCEPT !.pot = 0, !.cancelled = TRUE, !.contributors = << >>]
      <4>1. circle' = [circle EXCEPT ![i] = d] BY <3>2 DEF CancelCircle
      <4>2. d.admin = c.admin BY <2>2 DEF Circle
      <4> QED BY <4>1, <4>2
    <3>3. OpenNextRound(c).admin = c.admin
      BY <2>2 DEF OpenNextRound, Circle
    <3>4. ASSUME SomeClaim(i)
          PROVE  \E d : circle' = [circle EXCEPT ![i] = d] /\ d.admin = c.admin
      <4>1. PICK n : circle' = [circle EXCEPT ![i] =
              [OpenNextRound(c) EXCEPT !.nullifiers = OpenNextRound(c).nullifiers \cup {n}]]
        BY <3>4 DEF SomeClaim, Claim
      <4>2. c.round < MaxRound
        BY <3>4 DEF SomeClaim, Claim
      <4>3. OpenNextRound(c) \in Circle
        BY <1>1, <2>2, <4>2, OpenNextRoundType
      <4> DEFINE d == [OpenNextRound(c) EXCEPT !.nullifiers = OpenNextRound(c).nullifiers \cup {n}]
      <4>4. d.admin = OpenNextRound(c).admin
        BY <4>3 DEF Circle
      <4> QED BY <3>3, <4>1, <4>4
    <3>5. ASSUME ExpireRound(i)
          PROVE  \E d : circle' = [circle EXCEPT ![i] = d] /\ d.admin = c.admin
      BY <3>3, <3>5 DEF ExpireRound
    <3>6. PICK d : circle' = [circle EXCEPT ![i] = d] /\ d.admin = c.admin
      BY <1>7, <3>1, <3>2, <3>4, <3>5
    <3>7. d # NoCircle
      <4>1. circle'[i] # NoCircle
        BY <1>1, <1>7, OtherCallEffect, ClaimEffect, NoCircleAssumption DEF OtherCall, TypeOK
      <4> QED BY <1>1, <3>6, <4>1 DEF TypeOK
    <3> QED BY <3>6, <3>7
  <2>4. circle'[id] = circle[id] \/ (circle'[id] # NoCircle /\ circle'[id].admin = circle[id].admin)
    BY <1>1, <2>3 DEF TypeOK
  <2> QED BY <1>5, <2>1, <2>4
<1>8. CASE CloseLedger \/ (\E a \in Freezable : ToggleFrozen(a)) \/ UNCHANGED vars
  BY <1>5, <1>8 DEF CloseLedger, ToggleFrozen, vars, history
<1> QED BY <1>3, <1>4, <1>6, <1>7, <1>8 DEF Next

\* A nomination that can be accepted was made by the admin in office.
THEOREM NominationsAreCurrent == Spec => []NominationIsCurrent
<1>1. Init => NominationIsCurrent
  BY DEF Init, NominationIsCurrent
<1> QED BY <1>1, NominationStep, AccountsAreKept, PTL DEF Spec

----------------------------------------------------------------------------
(* The contract implements Escrow: seen through the view of Sharibo, every  *)
(* call on a circle is a step of one pool with a purse of its own, and      *)
(* everything else is a stutter.  The proof uses AccountsInv: that the pot  *)
(* is what the depositors hold, and that fees leave the contract.           *)

\* The refinement mapping of Sharibo, by name.
View(c) ==
  [ token |-> c.token, stake |-> c.contribution, seats |-> c.size,
    rate |-> c.fee_bps, feeTo |-> c.fee_recipient, round |-> c.round,
    deposits |-> c.contributors, closed |-> c.cancelled ]
Pools == [id \in CircleId |-> IF circle[id] # NoCircle THEN View(circle[id]) ELSE NoCircle]
Wallets == [t \in Token |-> [a \in Signer |-> balance[t][a]]]

\* The view of a circle is a pool, never an empty place.
LEMMA ViewType ==
  ASSUME NEW c \in Circle
  PROVE  View(c) \in CircleView /\ View(c) # NoCircle
<1>1. View(c) \in CircleView
  BY DEF View, Circle, CircleView
<1> QED BY <1>1, NoCircleAssumption

\* What an active circle looks like as a pool.
LEMMA ActiveView ==
  ASSUME AccountsInv, NEW id \in CircleId, Active(id)
  PROVE  /\ circle[id] \in Circle /\ PotMatches(circle[id])
         /\ Pools[id] = View(circle[id]) /\ Pools[id] # NoCircle /\ ~ Pools[id].closed
<1>1. circle[id] \in Circle /\ circle[id] # NoCircle /\ PotMatches(circle[id])
  BY ActiveType DEF Active, Stored, AccountsInv, PotIsDeposits
<1>2. Pools[id] = View(circle[id])
  BY <1>1 DEF Pools
<1> QED BY <1>1, <1>2, ViewType DEF Active, View

\* Writing one circle writes one pool.
LEMMA PoolUpdate ==
  ASSUME TypeOK, NEW id \in CircleId, NEW d \in Circle, circle' = [circle EXCEPT ![id] = d]
  PROVE  Pools' = [Pools EXCEPT ![id] = View(d)]
<1>1. d # NoCircle
  BY NoCircleAssumption
<1>2. \A i \in CircleId : circle'[i] = IF i = id THEN d ELSE circle[i]
  BY DEF TypeOK
<1>3. Pools' = [i \in CircleId |-> IF circle'[i] # NoCircle THEN View(circle'[i]) ELSE NoCircle]
  BY DEF Pools, View
<1>4. Pools' = [i \in CircleId |-> IF i = id THEN View(d) ELSE Pools[i]]
  BY <1>1, <1>2, <1>3 DEF Pools
<1> QED BY <1>4 DEF Pools

\* Writing the balances of one token writes the wallets of that token.
LEMMA WalletUpdate ==
  ASSUME TypeOK, NEW t \in Token, NEW h, balance' = [balance EXCEPT ![t] = h]
  PROVE  Wallets' = [Wallets EXCEPT ![t] = [a \in Signer |-> h[a]]]
BY DEF TypeOK, Wallets

\* A contribution below the target finds a free seat.
LEMMA FreeSeat ==
  ASSUME NEW contribution \in Nat, NEW n \in Nat, NEW size \in Nat,
         contribution * n < contribution * size
  PROVE  n < size
<1> SUFFICES ASSUME size <= n PROVE FALSE
  OBVIOUS
<1>1. n - size \in Nat
  OBVIOUS
<1>2. contribution * (n - size) \in Nat
  BY <1>1
<1>3. contribution * (n - size) = contribution * n - contribution * size
  OBVIOUS
<1>4. contribution * n \in Nat /\ contribution * size \in Nat
  OBVIOUS
<1> QED BY <1>2, <1>3, <1>4

\* Equal amounts of one positive stake are equally many stakes.
LEMMA SameStake ==
  ASSUME NEW stake \in Nat, stake # 0, NEW m \in Nat, NEW n \in Nat, stake * m = stake * n
  PROVE  m = n
<1>1. ASSUME NEW x \in Nat, NEW y \in Nat, x < y PROVE stake * x < stake * y
  <2>1. y - x \in Nat /\ y - x >= 1
    BY <1>1
  <2>2. stake * (y - x) >= stake
    BY <2>1
  <2>3. stake * (y - x) = stake * y - stake * x /\ stake * y \in Nat /\ stake * x \in Nat
    OBVIOUS
  <2> QED BY <2>2, <2>3
<1>2. ~ (m < n) /\ ~ (n < m)
  <2>1. stake * m \in Nat
    OBVIOUS
  <2> QED BY <1>1, <2>1
<1> QED BY <1>2

\* Two fields of a pool are replaced, the others stay.
LEMMA RecordUpdate ==
  ASSUME NEW t, NEW k, NEW s, NEW r, NEW f, NEW n, NEW m, NEW d, NEW e, NEW x, NEW R, NEW S,
         R = [ token |-> t, stake |-> k, seats |-> s, rate |-> r, feeTo |-> f, round |-> n,
               deposits |-> d, closed |-> x ],
         S = [R EXCEPT !.deposits = e, !.round = m]
  PROVE  S = [ token |-> t, stake |-> k, seats |-> s, rate |-> r, feeTo |-> f, round |-> m,
               deposits |-> e, closed |-> x ]
OBVIOUS

\* The same for the fields that are written when a pool is closed.
LEMMA RecordClose ==
  ASSUME NEW t, NEW k, NEW s, NEW r, NEW f, NEW n, NEW d, NEW e, NEW x, NEW y, NEW R, NEW S,
         R = [ token |-> t, stake |-> k, seats |-> s, rate |-> r, feeTo |-> f, round |-> n,
               deposits |-> d, closed |-> x ],
         S = [R EXCEPT !.deposits = e, !.closed = y]
  PROVE  S = [ token |-> t, stake |-> k, seats |-> s, rate |-> r, feeTo |-> f, round |-> n,
               deposits |-> e, closed |-> y ]
OBVIOUS

\* The size of a circle is a number.
LEMMA SizeType ==
  ASSUME NEW n \in 1 .. MAX_CIRCLE_SIZE
  PROVE  n \in Nat
BY DEF MAX_CIRCLE_SIZE

\* The next round of a circle is the next round of its pool.
LEMMA NextRoundView ==
  ASSUME TypeOK, NEW c \in Circle, c.round < MaxRound
  PROVE  View(OpenNextRound(c)) = Escrow!NextRound(View(c))
<1> DEFINE d == OpenNextRound(c)
<1>1. /\ d.token = c.token /\ d.contribution = c.contribution /\ d.size = c.size
      /\ d.fee_bps = c.fee_bps /\ d.fee_recipient = c.fee_recipient /\ d.round = c.round + 1
      /\ d.contributors = << >> /\ d.cancelled = c.cancelled
  BY DEF OpenNextRound, Circle
<1> HIDE DEF d
<1>2. View(d) = [View(c) EXCEPT !.deposits = << >>, !.round = View(c).round + 1]
  <2> DEFINE e == [ token |-> c.token, stake |-> c.contribution, seats |-> c.size,
                    rate |-> c.fee_bps, feeTo |-> c.fee_recipient, round |-> c.round + 1,
                    deposits |-> << >>, closed |-> c.cancelled ]
  <2>1. View(d) = e
    BY <1>1 DEF View
  <2>2. View(c).round = c.round
    BY DEF View
  <2> DEFINE R == View(c)
             S == [View(c) EXCEPT !.deposits = << >>, !.round = c.round + 1]
  <2>3. R = [ token |-> c.token, stake |-> c.contribution, seats |-> c.size,
              rate |-> c.fee_bps, feeTo |-> c.fee_recipient, round |-> c.round,
              deposits |-> c.contributors, closed |-> c.cancelled ]
    BY DEF View
  <2>4. S = [R EXCEPT !.deposits = << >>, !.round = c.round + 1]
    OBVIOUS
  <2> HIDE DEF R, S
  <2>5. S = e
    BY <2>3, <2>4, RecordUpdate, ZenonT(60)
  <2> QED BY <2>1, <2>2, <2>5 DEF S
<1> QED BY <1>2 DEF d, Escrow!NextRound

\* fund is a deposit.
LEMMA FundIsDeposit ==
  ASSUME AccountsInv, NEW id \in CircleId, NEW from \in Signer, Fund(id, from)
  PROVE  Escrow!Deposit(id, from)
<1> DEFINE c == circle[id]
           d == [c EXCEPT !.pot = c.pot + c.contribution,
                          !.contributors = Append(c.contributors, from)]
           h == Transfer(balance[c.token], from, Contract, c.contribution)
<1>1. Active(id) /\ TypeOK
  BY DEF Fund, AccountsInv
<1>2. /\ c \in Circle /\ PotMatches(c)
      /\ Pools[id] = View(c) /\ Pools[id] # NoCircle /\ ~ Pools[id].closed
  BY <1>1, ActiveView
<1>3. circle' = [circle EXCEPT ![id] = d] /\ balance' = [balance EXCEPT ![c.token] = h]
  BY DEF Fund
<1>4. /\ c.contribution \in Nat /\ c.size \in Nat /\ c.token \in Token
      /\ c.contributors \in Seq(Address) /\ balance[c.token] \in [Address -> Nat]
  BY <1>1, <1>2 DEF Circle, TypeOK
<1>5. Len(c.contributors) < c.size
  <2>1. c.contribution * Len(c.contributors) < c.contribution * c.size
    BY <1>2 DEF Fund, Underfunded, PotMatches, PotTarget
  <2>2. Len(c.contributors) \in Nat
    BY <1>4
  <2>3. c.size \in Nat
    BY <1>4
  <2> HIDE DEF c
  <2> QED BY <1>4, <2>1, <2>2, <2>3, FreeSeat
<1>6. Wallets[c.token][from] >= c.contribution
  BY <1>4 DEF Fund, CanTransfer, Wallets
<1>7. Wallets' = [Wallets EXCEPT ![c.token][from] = Wallets[c.token][from] - c.contribution]
  <2>1. Wallets' = [Wallets EXCEPT ![c.token] = [a \in Signer |-> h[a]]]
    <3> HIDE DEF c, h
    <3> QED BY <1>1, <1>3, <1>4, WalletUpdate
  <2>2. [a \in Signer |-> h[a]] =
          [Wallets[c.token] EXCEPT ![from] = Wallets[c.token][from] - c.contribution]
    <3>1. \A a \in Signer : h[a] = IF a = from THEN balance[c.token][a] - c.contribution
                                               ELSE balance[c.token][a]
      BY <1>4, AddressAssumption DEF Transfer, Signer
    <3>2. Wallets[c.token] = [a \in Signer |-> balance[c.token][a]]
      BY <1>4 DEF Wallets
    <3> HIDE DEF c, h
    <3> QED BY <3>1, <3>2
  <2> HIDE DEF c, h
  <2> QED BY <2>1, <2>2, <1>4 DEF Wallets
<1>8. Pools' = [Pools EXCEPT ![id].deposits = Append(Pools[id].deposits, from)]
  <2>1. d \in Circle
    <3>1. Append(c.contributors, from) \in Seq(Address)
      BY <1>4 DEF Signer
    <3>2. c.pot + c.contribution \in 0 .. I128_MAX
      BY <1>2, BoundAssumption, SMTT(60) DEF Fund, Circle
    <3> QED BY <1>2, <3>1, <3>2 DEF Circle
  <2>2. /\ d.token = c.token /\ d.contribution = c.contribution /\ d.size = c.size
        /\ d.fee_bps = c.fee_bps /\ d.fee_recipient = c.fee_recipient /\ d.round = c.round
        /\ d.contributors = Append(c.contributors, from) /\ d.cancelled = c.cancelled
    BY <1>2 DEF Circle
  <2> HIDE DEF c, d
  <2>3. View(d) = [View(c) EXCEPT !.deposits = Append(c.contributors, from)]
    BY <2>2, SMTT(60) DEF View
  <2>4. Pools' = [Pools EXCEPT ![id] = View(d)]
    BY <1>1, <1>3, <2>1, PoolUpdate
  <2>5. View(c).deposits = c.contributors
    BY DEF View
  <2> QED BY <1>2, <2>3, <2>4, <2>5 DEF Pools
<1> QED
  BY <1>2, <1>5, <1>6, <1>7, <1>8
  DEF Pools, Wallets, View, Escrow!Deposit, Escrow!Open, Escrow!Opened


\* claim pays the whole pool out: net to the recipient, the fee to its place.
LEMMA ClaimIsPayOut ==
  ASSUME AccountsInv, NEW id \in CircleId, SomeClaim(id)
  PROVE  \E a \in Signer : Escrow!PayOut(id, a)
<1>1. PICK recipient \in Address, proof \in Proofs :
        Claim(id, recipient, NullifierHash(proof.member, proof.external_nullifier),
              proof.external_nullifier, proof)
  BY DEF SomeClaim
<1> DEFINE c     == circle[id]
           n     == NullifierHash(proof.member, proof.external_nullifier)
           split == ApplyFeeSplit(c.fee_bps, c.pot)
           paid  == IF split.fee > 0
                      THEN Transfer(balance[c.token], Contract, c.fee_recipient, split.fee)
                      ELSE balance[c.token]
           d     == [OpenNextRound(c) EXCEPT !.nullifiers = OpenNextRound(c).nullifiers \cup {n}]
           h     == Transfer(paid, Contract, recipient, split.net)
           p     == Pools[id]
           held  == p.stake * Len(p.deposits)
           fee   == (p.rate * held) \div 10000
<1>2. /\ Active(id) /\ recipient # Contract /\ c.round < MaxRound
      /\ c.pot = PotTarget(c)
      /\ circle' = [circle EXCEPT ![id] = d]
      /\ balance' = [balance EXCEPT ![c.token] = h]
  BY <1>1 DEF Claim
<1>3. recipient \in Signer /\ TypeOK
  BY <1>2 DEF Signer, AccountsInv
<1>4. /\ c \in Circle /\ PotMatches(c)
      /\ Pools[id] = View(c) /\ Pools[id] # NoCircle /\ ~ Pools[id].closed
  BY <1>2, ActiveView
<1>5. /\ c.contribution \in Nat /\ c.size \in 1 .. MAX_CIRCLE_SIZE /\ c.token \in Token /\ c.pot \in Nat
      /\ c.contributors \in Seq(Address) /\ Len(c.contributors) \in Nat
      /\ balance[c.token] \in [Address -> Nat] /\ c.fee_bps \in 0 .. MAX_FEE_BASIS_POINTS
      /\ c.fee_recipient \in Address
  <2>1. c.contributors \in Seq(Address) BY <1>4 DEF Circle
  <2>2. Len(c.contributors) \in Nat BY <2>1
  <2>3. c.pot \in Nat BY <1>4, FieldTypes
  <2>4. c.token \in Token BY <1>4 DEF Circle
  <2>5. balance[c.token] \in [Address -> Nat] BY <1>3, <2>4 DEF TypeOK
  <2>6. /\ c.contribution \in Nat /\ c.fee_bps \in 0 .. MAX_FEE_BASIS_POINTS
        /\ c.fee_recipient \in Address
    BY <1>4 DEF Circle
  <2>7. c.size \in 1 .. MAX_CIRCLE_SIZE
    BY <1>4 DEF Circle
  <2> QED BY <2>1, <2>2, <2>3, <2>4, <2>5, <2>6, <2>7
<1>6. /\ p.stake = c.contribution /\ p.deposits = c.contributors /\ p.token = c.token
      /\ p.seats = c.size /\ p.rate = c.fee_bps /\ p.feeTo = c.fee_recipient
  BY <1>4 DEF View
<1>7. split.fee = fee /\ split.fee \in Nat /\ split.net \in Nat /\ split.net = held - fee
  <2>1. c.fee_bps \in 0 .. MAX_FEE_BASIS_POINTS /\ c.pot \in Nat
    BY <1>5
  <2>2. /\ split.fee = (c.fee_bps * c.pot) \div 10000 /\ split.fee \in 0 .. c.pot
        /\ split.net \in 0 .. c.pot /\ split.fee + split.net = c.pot
    BY <2>1, ApplyFeeIsExact
  <2>3. c.pot = held
    <3>1. c.pot = c.contribution * Len(c.contributors)
      BY <1>4 DEF PotMatches
    <3> HIDE DEF c, p
    <3> QED BY <1>6, <3>1
  <2> HIDE DEF c, split, p, held
  <2> QED BY <1>6, <2>1, <2>2, <2>3
<1>8. \A a \in Signer :
        h[a] = Wallets[p.token][a] + (IF a = recipient THEN held - fee ELSE 0)
                                   + (IF a = p.feeTo THEN fee ELSE 0)
  <2> DEFINE b == balance[c.token]
             r == c.fee_recipient
             f == split.fee
             k == split.net
  <2>1. b \in [Address -> Nat] /\ r \in Address /\ f \in Nat /\ k \in Nat /\ Contract \in Address
    BY <1>5, <1>7, AddressAssumption, SMTT(60)
  <2>2. paid = (IF f > 0 THEN Transfer(b, Contract, r, f) ELSE b)
        /\ h = Transfer(paid, Contract, recipient, k)
    OBVIOUS
  <2>3. \A a \in Signer : b[a] = Wallets[p.token][a]
    <3> HIDE DEF p, c
    <3> QED BY <1>5, <1>6 DEF Wallets
  <2> HIDE DEF b, r, f, k, paid, h, c, split, p, held, fee
  <2>4. \A a \in Signer : b[a] \in Nat /\ a \in Address /\ a # Contract
    BY <2>1 DEF Signer
  <2>5. paid \in [Address -> Int] /\ \A a \in Signer : paid[a] = b[a] + (IF a = r THEN f ELSE 0)
    <3>1. CASE f > 0
      BY <2>1, <2>2, <2>4, <3>1 DEF Transfer
    <3>2. CASE f = 0
      BY <2>1, <2>2, <2>4, <3>2
    <3> QED BY <2>1, <3>1, <3>2
  <2>6. \A a \in Signer : h[a] = paid[a] + (IF a = recipient THEN k ELSE 0)
    BY <1>2, <1>3, <2>1, <2>2, <2>4, <2>5 DEF Transfer
  <2>7. r = p.feeTo /\ f = fee /\ k = held - fee
    BY <1>6, <1>7 DEF r, f, k
  <2> QED BY <2>1, <2>3, <2>4, <2>5, <2>6, <2>7
<1>9. Len(p.deposits) = p.seats
  <2>1. c.contribution * Len(c.contributors) = c.contribution * c.size /\ c.contribution # 0
    BY <1>2, <1>4 DEF Circle, PotMatches, PotTarget
  <2>2. c.size \in Nat
    BY <1>5, SizeType
  <2> HIDE DEF c, p
  <2>3. Len(c.contributors) = c.size
    <3>1. Len(c.contributors) \in Nat /\ c.contribution \in Nat
      BY <1>5
    <3> QED BY <2>1, <2>2, <3>1, SameStake
  <2> QED BY <1>6, <2>3
<1>10. Wallets' = [Wallets EXCEPT ![p.token] =
          [a \in Signer |-> Wallets[p.token][a] + (IF a = recipient THEN held - fee ELSE 0)
                                                + (IF a = p.feeTo THEN fee ELSE 0)]]
  <2> HIDE DEF c, split, fee, held, h, paid, p
  <2>1. Wallets' = [Wallets EXCEPT ![p.token] = [a \in Signer |-> h[a]]]
    <3>1. Wallets' = [Wallets EXCEPT ![c.token] = [a \in Signer |-> h[a]]]
      <4>1. c.token \in Token BY <1>5
      <4> QED BY <1>2, <1>3, <4>1, WalletUpdate
    <3> QED BY <1>6, <3>1
  <2>2. [a \in Signer |-> h[a]] =
          [a \in Signer |-> Wallets[p.token][a] + (IF a = recipient THEN held - fee ELSE 0)
                                                + (IF a = p.feeTo THEN fee ELSE 0)]
    BY <1>8
  <2> QED BY <2>1, <2>2
<1>11. Pools' = [Pools EXCEPT ![id] = Escrow!NextRound(Pools[id])]
  <2>1. n \in Member \X (CircleId \X Round)
    BY DEF Proofs, NullifierHash
  <2>2. OpenNextRound(c) \in Circle
    BY <1>2, <1>3, <1>4, OpenNextRoundType
  <2> HIDE DEF n
  <2>3. d \in Circle /\ View(d) = View(OpenNextRound(c))
    BY <2>1, <2>2 DEF Circle, View
  <2> HIDE DEF c, d
  <2>4. Pools' = [Pools EXCEPT ![id] = View(d)]
    BY <1>2, <1>3, <2>3, PoolUpdate
  <2>5. View(OpenNextRound(c)) = Escrow!NextRound(View(c))
    BY <1>2, <1>3, <1>4, NextRoundView
  <2> QED BY <1>4, <2>3, <2>4, <2>5
<1> HIDE DEF c, split, h, paid, d
<1>12. Escrow!Open(id)
  BY <1>4 DEF Pools, View, Escrow!Open, Escrow!Opened
<1>13. Escrow!PaidOut(p, recipient)
  BY <1>10 DEF held, fee, Wallets, Escrow!PaidOut, Escrow!Fee, Escrow!Held
<1>14. Escrow!PayOut(id, recipient)
  BY <1>9, <1>11, <1>12, <1>13 DEF p, Pools, View, Escrow!PayOut
<1> QED BY <1>3, <1>14

\* The refund loop gives every account its share of the pool.
LEMMA RefundIsReturned ==
  ASSUME AccountsInv, NEW id \in CircleId, Active(id),
         balance' = [balance EXCEPT ![circle[id].token] = Refund(balance[circle[id].token], circle[id])]
  PROVE  Escrow!Returned(Pools[id])
<1> DEFINE c == circle[id]
           p == Pools[id]
           h == Refund(balance[c.token], c)
<1>1. TypeOK /\ c \in Circle /\ p = View(c)
  BY ActiveView DEF AccountsInv
<1>2. /\ p.stake = c.contribution /\ p.deposits = c.contributors /\ p.token = c.token
      /\ c.token \in Token
  BY <1>1 DEF View, Circle
<1>3. Wallets' = [Wallets EXCEPT ![p.token] = [a \in Signer |-> h[a]]]
  <2>1. balance' = [balance EXCEPT ![c.token] = h]
    OBVIOUS
  <2>2. c.token \in Token
    BY <1>2
  <2> HIDE DEF c, p, h
  <2>3. Wallets' = [Wallets EXCEPT ![c.token] = [a \in Signer |-> h[a]]]
    BY <1>1, <2>1, <2>2, WalletUpdate, ZenonT(60)
  <2> QED BY <1>2, <2>3
<1>4. \A a \in Signer : h[a] = Wallets[p.token][a] + Escrow!Share(p, a)
  <2> SUFFICES ASSUME NEW a \in Signer PROVE h[a] = Wallets[p.token][a] + Escrow!Share(p, a)
    OBVIOUS
  <2>1. h[a] = balance[c.token][a] + c.contribution * Count(a, c.contributors)
    BY DEF Refund, Signer
  <2>2. Escrow!Share(p, a) = p.stake * Count(a, p.deposits)
    <3> HIDE DEF p
    <3>1. Escrow!Seats(p, a) = Count(a, p.deposits)
      BY DEF Escrow!Seats, Escrow!Cardinality, Count, Cardinality
    <3> QED BY <3>1 DEF Escrow!Share
  <2>3. Wallets[p.token][a] = balance[c.token][a]
    <3> HIDE DEF c, p
    <3> QED BY <1>2 DEF Wallets
  <2> HIDE DEF c, p, h
  <2> QED BY <1>2, <2>1, <2>2, <2>3
<1>5. [a \in Signer |-> h[a]] = [a \in Signer |-> Wallets[p.token][a] + Escrow!Share(p, a)]
  <2> HIDE DEF h, p
  <2> QED BY <1>4
<1>6. Wallets' = [Wallets EXCEPT ![p.token] =
                    [a \in Signer |-> Wallets[p.token][a] + Escrow!Share(p, a)]]
  <2> HIDE DEF h, p
  <2> QED BY <1>3, <1>5
<1> HIDE DEF p
<1>7. Escrow!Returned(p)
  BY <1>6 DEF Wallets, Escrow!Returned
<1> QED BY <1>7 DEF p

\* expire_round returns an unfilled pool and goes on.
LEMMA ExpireIsReturn ==
  ASSUME AccountsInv, NEW id \in CircleId, ExpireRound(id)
  PROVE  Escrow!ReturnAndContinue(id)
<1> DEFINE c == circle[id]
<1>1. /\ Active(id) /\ TypeOK /\ c.pot < PotTarget(c) /\ c.round < MaxRound
      /\ circle' = [circle EXCEPT ![id] = OpenNextRound(c)]
      /\ balance' = [balance EXCEPT ![c.token] = Refund(balance[c.token], c)]
  BY DEF ExpireRound, Underfunded, AccountsInv
<1>2. /\ c \in Circle /\ PotMatches(c)
      /\ Pools[id] = View(c) /\ Pools[id] # NoCircle /\ ~ Pools[id].closed
  BY <1>1, ActiveView
<1>3. Len(Pools[id].deposits) < Pools[id].seats
  <2>1. c.contribution * Len(c.contributors) < c.contribution * c.size
    BY <1>1, <1>2 DEF PotMatches, PotTarget
  <2>2. c.contribution \in Nat /\ c.contributors \in Seq(Address) /\ c.size \in 1 .. MAX_CIRCLE_SIZE
    BY <1>2 DEF Circle
  <2>3. Len(c.contributors) \in Nat /\ c.size \in Nat
    BY <2>2, SizeType
  <2>4. View(c).deposits = c.contributors /\ View(c).seats = c.size
    BY DEF View
  <2> HIDE DEF c
  <2>5. Len(c.contributors) < c.size
    BY <2>1, <2>2, <2>3, FreeSeat
  <2> QED BY <1>2, <2>4, <2>5
<1>4. Pools' = [Pools EXCEPT ![id] = Escrow!NextRound(Pools[id])]
  <2>1. OpenNextRound(c) \in Circle
    BY <1>1, <1>2, OpenNextRoundType
  <2>2. View(OpenNextRound(c)) = Escrow!NextRound(View(c))
    BY <1>1, <1>2, NextRoundView
  <2>3. Pools' = [Pools EXCEPT ![id] = View(OpenNextRound(c))]
    <3> HIDE DEF c
    <3> QED BY <1>1, <2>1, PoolUpdate
  <2> QED BY <1>2, <2>2, <2>3
<1>5. Escrow!Returned(Pools[id])
  BY <1>1, RefundIsReturned
<1>6. Escrow!Open(id)
  BY <1>2 DEF Pools, View, Escrow!Open, Escrow!Opened
<1> QED BY <1>3, <1>4, <1>5, <1>6 DEF Pools, View, Escrow!ReturnAndContinue

\* cancel_circle returns the pool and closes it.
LEMMA CancelIsReturn ==
  ASSUME AccountsInv, NEW id \in CircleId, NEW caller \in Signer, CancelCircle(id, caller)
  PROVE  Escrow!ReturnAndClose(id)
<1> DEFINE c == circle[id]
           d == [c EXCEPT !.pot = 0, !.cancelled = TRUE, !.contributors = << >>]
<1>1. /\ Active(id) /\ TypeOK
      /\ circle' = [circle EXCEPT ![id] = d]
      /\ balance' = [balance EXCEPT ![c.token] = Refund(balance[c.token], c)]
  BY DEF CancelCircle, AccountsInv
<1>2. c \in Circle /\ Pools[id] = View(c) /\ Pools[id] # NoCircle /\ ~ Pools[id].closed
  BY <1>1, ActiveView
<1>3. d \in Circle
  <2>1. << >> \in Seq(Address) /\ 0 \in 0 .. I128_MAX
    BY BoundAssumption
  <2> QED BY <1>2, <2>1 DEF Circle
<1>4. View(d) = Escrow!Closed(View(c))
  <2>1. /\ d.token = c.token /\ d.contribution = c.contribution /\ d.size = c.size
        /\ d.fee_bps = c.fee_bps /\ d.fee_recipient = c.fee_recipient /\ d.round = c.round
        /\ d.contributors = << >> /\ d.cancelled = TRUE
    BY <1>2 DEF Circle
  <2> DEFINE R == View(c)
             S == [View(c) EXCEPT !.deposits = << >>, !.closed = TRUE]
             e == [ token |-> c.token, stake |-> c.contribution, seats |-> c.size,
                    rate |-> c.fee_bps, feeTo |-> c.fee_recipient, round |-> c.round,
                    deposits |-> << >>, closed |-> TRUE ]
  <2>2. R = [ token |-> c.token, stake |-> c.contribution, seats |-> c.size,
              rate |-> c.fee_bps, feeTo |-> c.fee_recipient, round |-> c.round,
              deposits |-> c.contributors, closed |-> c.cancelled ]
    BY DEF View
  <2>3. S = [R EXCEPT !.deposits = << >>, !.closed = TRUE]
    OBVIOUS
  <2>4. View(d) = e
    <3> HIDE DEF c, d
    <3> QED BY <2>1 DEF View
  <2> HIDE DEF R, S
  <2>5. S = e
    BY <2>2, <2>3, RecordClose
  <2> QED BY <2>4, <2>5 DEF S, Escrow!Closed
<1>5. Pools' = [Pools EXCEPT ![id] = Escrow!Closed(Pools[id])]
  <2> HIDE DEF c, d
  <2>1. Pools' = [Pools EXCEPT ![id] = View(d)]
    BY <1>1, <1>3, PoolUpdate
  <2> QED BY <1>2, <1>4, <2>1
<1>6. Escrow!Returned(Pools[id])
  BY <1>1, RefundIsReturned
<1>7. Escrow!Open(id)
  BY <1>2 DEF Pools, View, Escrow!Open, Escrow!Opened
<1> QED BY <1>5, <1>6, <1>7 DEF Pools, View, Escrow!ReturnAndClose

\* create_circle opens an empty pool in a place of its own.
LEMMA CreateIsOpen ==
  ASSUME AccountsInv, Create
  PROVE  \E id \in CircleId : Escrow!OpenPool(id, Pools'[id])
<1>1. PICK admin \in Admins, token \in Token, root \in Roots, contribution \in Contributions,
         size \in Sizes, deadline \in Deadlines, ic_len \in KeyLengths,
         fee_bps \in FeeRates, fee_recipient \in FeeRecipients :
           CreateCircle(admin, token, root, contribution, size, deadline, ic_len,
                        fee_bps, fee_recipient)
  BY DEF Create
<1> DEFINE id == nextCircleId
           d == circle'[id]
<1>2. TypeOK /\ id \in CircleId /\ UNCHANGED balance /\ id \in Nat
  BY CreateEffect DEF AccountsInv, TypeOK
<1>3. d \in Circle /\ circle' = [circle EXCEPT ![id] = d]
  <2>1. PICK e \in Circle : circle' = [circle EXCEPT ![id] = e]
    BY <1>2, CreateEffect
  <2>2. d = e
    BY <1>2, <2>1 DEF TypeOK
  <2> QED BY <2>1, <2>2
<1>4. /\ d.contribution = contribution /\ d.size = size /\ d.fee_bps = fee_bps
      /\ d.round = 0 /\ d.contributors = << >> /\ d.cancelled = FALSE
  BY <1>1, <1>2 DEF CreateCircle, TypeOK
<1>5. contribution > 0 /\ size > 0 /\ fee_bps \in Escrow!Rates
  <2>1. contribution > 0 /\ size > 0 /\ fee_bps \in Nat /\ fee_bps <= MAX_FEE_BASIS_POINTS
    BY <1>1, InputAssumption DEF CreateCircle
  <2> QED BY <2>1, SMTT(60) DEF MAX_FEE_BASIS_POINTS, Escrow!Rates
<1>6. Pools[id] = NoCircle
  <2>1. circle[id] = NoCircle
    BY <1>2 DEF AccountsInv, IdsAreFresh, Stored
  <2> QED BY <1>2, <2>1 DEF Pools
<1> HIDE DEF id, d
<1>7. Pools' = [Pools EXCEPT ![id] = View(d)] /\ View(d) # NoCircle
  BY <1>2, <1>3, PoolUpdate, ViewType
<1>8. Pools'[id] = View(d)
  BY <1>2, <1>7 DEF Pools
<1>9. /\ View(d).stake = contribution /\ View(d).seats = size /\ View(d).rate = fee_bps
      /\ View(d).round = 0 /\ View(d).deposits = << >> /\ View(d).closed = FALSE
  BY <1>4 DEF View
<1> DEFINE p == Pools'[id]
<1>10. p # NoCircle /\ Escrow!New(p)
  <2>1. p = View(d) /\ View(d) # NoCircle
    BY <1>7, <1>8
  <2> HIDE DEF p
  <2>2. p # NoCircle
    BY <2>1
  <2>3. p.stake = contribution /\ p.seats = size /\ p.rate = fee_bps
    BY <1>9, <2>1
  <2>4. p.round = 0 /\ p.deposits = << >>
    BY <1>9, <2>1
  <2>5. ~ p.closed
    BY <1>9, <2>1
  <2>6. p.stake > 0 /\ p.seats > 0
    BY <1>5, <2>3
  <2>7. p.rate \in Escrow!Rates
    BY <1>5, <2>3
  <2> QED BY <2>2, <2>4, <2>5, <2>6, <2>7 DEF Escrow!New
<1>11. Pools' = [Pools EXCEPT ![id] = p]
  BY <1>7, <1>8
<1>12. ~ Escrow!Opened(id)
  BY <1>6 DEF Pools, View, Escrow!Opened
<1>13. Wallets' = Wallets
  BY <1>2 DEF Wallets
<1> HIDE DEF p
<1>14. Escrow!OpenPool(id, p)
  BY <1>10, <1>11, <1>12, <1>13 DEF Pools, View, Wallets, Escrow!OpenPool
<1> QED BY <1>2, <1>14 DEF p

\* Every other step leaves the pools and the wallets alone: the nominations,
\* the closing of ledgers, accounts that freeze, and the new administrator.
LEMMA OtherIsStutter ==
  ASSUME AccountsInv,
         \/ \E id \in CircleId, caller \in Signer, new_admin \in Nominees :
               ProposeAdmin(id, caller, new_admin)
         \/ \E id \in CircleId, caller \in Signer : AcceptAdmin(id, caller)
         \/ CloseLedger
         \/ \E a \in Freezable : ToggleFrozen(a)
         \/ UNCHANGED vars
  PROVE  Pools' = Pools /\ Wallets' = Wallets
<1>1. CASE UNCHANGED <<circle, balance>>
  BY <1>1 DEF Pools, Wallets, View
<1>2. ASSUME NEW id \in CircleId, NEW caller \in Signer, AcceptAdmin(id, caller)
      PROVE  Pools' = Pools /\ Wallets' = Wallets
  <2> DEFINE c == circle[id]
             d == [c EXCEPT !.admin = pendingAdmin[id]]
  <2>1. /\ Active(id) /\ TypeOK /\ circle' = [circle EXCEPT ![id] = d] /\ balance' = balance
        /\ pendingAdmin[id] \in Address
    BY <1>2 DEF AcceptAdmin, AccountsInv, TypeOK
  <2>2. c \in Circle /\ Pools[id] = View(c)
    BY <2>1, ActiveView
  <2>3. d \in Circle
    BY <2>1, <2>2 DEF Circle
  <2>4. View(d) = View(c)
    BY <2>2 DEF View, Circle
  <2>5. Pools' = [Pools EXCEPT ![id] = View(d)]
    <3> HIDE DEF c, d
    <3> QED BY <2>1, <2>3, PoolUpdate
  <2>6. Pools' = Pools
    <3> HIDE DEF c, d
    <3> QED BY <2>2, <2>4, <2>5 DEF Pools
  <2> QED BY <2>1, <2>6 DEF Wallets
<1> QED BY <1>1, <1>2 DEF ProposeAdmin, CloseLedger, ToggleFrozen, vars, history

\* At the start no pool is open and every account has its initial balance.
LEMMA EscrowInit == Init => Escrow!Init
<1> SUFFICES ASSUME Init PROVE Escrow!Init
  OBVIOUS
<1>1. Pools = [id \in CircleId |-> NoCircle]
  BY DEF Init, Pools
<1>2. Wallets = [t \in Token |-> [a \in Signer |-> InitialBalance]]
  BY DEF Init, Wallets, Signer
<1> QED BY <1>1, <1>2 DEF Pools, View, Wallets, Escrow!Init

\* Every step of the contract is a step of one pool, or a stutter.
LEMMA EscrowStep == AccountsInv /\ [Next]_vars => [Escrow!Next]_(Escrow!vars)
<1> SUFFICES ASSUME AccountsInv, [Next]_vars
             PROVE  Escrow!Next \/ (Pools' = Pools /\ Wallets' = Wallets)
  BY DEF Pools, View, Wallets, Escrow!vars
<1>1. CASE Create
  <2>1. PICK id \in CircleId : Escrow!OpenPool(id, Pools'[id])
    BY <1>1, CreateIsOpen
  <2> QED BY <2>1 DEF Pools, View, Escrow!Next
<1>2. ASSUME NEW id \in CircleId, NEW from \in Signer, Fund(id, from) PROVE Escrow!Next
  BY <1>2, FundIsDeposit DEF Escrow!Next
<1>3. ASSUME NEW id \in CircleId, SomeClaim(id) PROVE Escrow!Next
  BY <1>3, ClaimIsPayOut DEF Escrow!Next
<1>4. ASSUME NEW id \in CircleId, ExpireRound(id) PROVE Escrow!Next
  BY <1>4, ExpireIsReturn DEF Escrow!Next
<1>5. ASSUME NEW id \in CircleId, NEW caller \in Signer, CancelCircle(id, caller) PROVE Escrow!Next
  BY <1>5, CancelIsReturn DEF Escrow!Next
<1> QED BY <1>1, <1>2, <1>3, <1>4, <1>5, OtherIsStutter DEF Next

\* The contract implements the escrow: whatever circles share its balance,
\* each behaves as a pool with money of its own, which is paid out in full to
\* one account and its fee taker, or returned to those who paid in.
THEOREM ContractIsEscrow == Spec => EscrowSpec
<1>1. Init => Escrow!Init
  BY EscrowInit
<1>2. AccountsInv /\ [Next]_vars => [Escrow!Next]_(Escrow!vars)
  BY EscrowStep
<1>3. Spec => []AccountsInv
  BY AccountsAreKept
<1> QED BY <1>1, <1>2, <1>3, PTL DEF Spec, EscrowSpec, Escrow!Spec

=============================================================================
