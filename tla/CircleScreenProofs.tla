------------------------- MODULE CircleScreenProofs -------------------------
(* Types of the circle screen; payouts that are shown were made; an abort   *)
(* reaches the claim that runs.                                             *)
EXTENDS CircleScreen, FiniteSetTheorems, TLAPS

----------------------------------------------------------------------------
(* The inductive invariant.                                                 *)

\* The round shown stays 0, and so does the round of every proof that is made.
FirstRound == round = 0 /\ (claimResult # NoClaim => claimResult[2] = 0)

\* A handler has what its kind and its await need.
Equipped(i) ==
  /\ flow[i].kind \in {"claim", "fund"} => flow[i].member \in Member
  /\ flow[i].kind = "fund" => flow[i].payer \in Payer
  /\ flow[i].kind = "again" => claimResult # NoClaim
  /\ flow[i].pc = "synced" => flow[i].snapshot \in Circle
AllEquipped == \A i \in Flow : Equipped(i)

\* A claim whose transaction was executed has its proof among those paid.
LandedIsPaid ==
  \A i \in Flow : At(i, {"claim"}, "landed") => <<flow[i].member, round>> \in nullifiers

ScreenInv == TypeOK /\ FirstRound /\ AllEquipped /\ LandedIsPaid /\ ResultIsReal

----------------------------------------------------------------------------
(* Lemmas.                                                                  *)

LEMMA SizeType == Size \in Nat
  BY FS_CardinalityType, PayerAssumption DEF Size

\* A proof is a pair, never the mark for "no claim".
LEMMA ProofIsNotNoClaim ==
  ASSUME NEW m \in Member, NEW r \in {0, 1}
  PROVE  <<m, r>> \in Proof /\ <<m, r>> # NoClaim
  BY NoClaimAssumption DEF Proof

LEMMA FundedType ==
  ASSUME circle \in Circle, FundSucceeds, NEW payer \in Payer
  PROVE  Funded(payer) \in Circle
<1>1. circle.pot + 1 \in 0 .. Size
  BY SizeType DEF Circle, FundSucceeds
<1>2. circle.contributors \cup {payer} \in SUBSET Payer
  BY DEF Circle
<1>3. QED
  BY <1>1 DEF Circle, Funded

LEMMA ClaimedType ==
  ASSUME circle \in Circle, circle.round = 0
  PROVE  Claimed \in Circle
<1>1. 0 \in 0 .. Size /\ 0 + 1 \in {0, 1} /\ {} \in SUBSET Payer
  BY SizeType
<1>2. QED
  BY <1>1 DEF Circle, Claimed

LEMMA CancelledType ==
  ASSUME circle \in Circle
  PROVE  Cancelled \in Circle
<1>1. 0 \in 0 .. Size /\ {} \in SUBSET Payer
  BY SizeType
<1>2. QED
  BY <1>1 DEF Circle, Cancelled

\* The proof that a handler submits is one of the first round.
LEMMA ProofOfType ==
  ASSUME ScreenInv, NEW i \in Flow, flow[i].kind \in {"claim", "again"}
  PROVE  ProofOf(flow[i]) \in Proof /\ ProofOf(flow[i])[2] = 0
  BY ProofIsNotNoClaim DEF ScreenInv, TypeOK, AllEquipped, Equipped, FirstRound, ProofOf

\* What the updates of a handler leave is a handler.
LEMMA HandlerFunds ==
  ASSUME NEW h \in Handler, NEW todo \in SUBSET Member
  PROVE  [h EXCEPT !.pc = "landed", !.todo = todo] \in Handler
  BY DEF Handler

LEMMA HandlerReads ==
  ASSUME NEW h \in Handler, NEW c \in Circle
  PROVE  [h EXCEPT !.pc = "synced", !.snapshot = c] \in Handler
  BY DEF Handler

LEMMA HandlerAborts ==
  ASSUME NEW h \in Handler
  PROVE  [h EXCEPT !.aborted = TRUE] \in Handler
  BY DEF Handler

LEMMA IdleType == Idle \in Handler
  BY DEF Idle, Handler, NoFlow

----------------------------------------------------------------------------
(* Every action keeps the invariant.                                        *)

LEMMA StartCircleKeeps ==
  ASSUME ScreenInv, StartCircle
  PROVE  ScreenInv'
<1>1. flow' \in [Flow -> Handler]
  BY DEF ScreenInv, StartCircle, TypeOK
<1>2. circle' \in Circle /\ nullifiers' \subseteq Proof
  BY DEF ScreenInv, StartCircle, chain, TypeOK
<1>3. TypeOK'
  BY <1>2 DEF ScreenInv, StartCircle, TypeOK
<1>4. FirstRound' /\ ResultIsReal'
  BY DEF ScreenInv, StartCircle, chain, FirstRound, ResultIsReal
<1>5. AllEquipped'
  BY DEF ScreenInv, StartCircle, AllEquipped, Equipped
<1>6. LandedIsPaid'
  BY DEF ScreenInv, StartCircle, chain, LandedIsPaid, At
<1>7. QED
  BY <1>3, <1>4, <1>5, <1>6 DEF ScreenInv

LEMMA FundMemberKeeps ==
  ASSUME ScreenInv, NEW i \in Flow, NEW m \in Member, NEW payer \in Payer, FundMember(i,
     m, payer)
  PROVE  ScreenInv'
<1>1. flow' \in [Flow -> Handler]
  BY DEF ScreenInv, FundMember, Started, TypeOK, Handler
<1>2. circle' \in Circle /\ nullifiers' \subseteq Proof
  BY DEF ScreenInv, FundMember, chain, TypeOK
<1>3. TypeOK'
  BY <1>1, <1>2 DEF ScreenInv, FundMember, TypeOK
<1>4. FirstRound' /\ ResultIsReal'
  BY DEF ScreenInv, FundMember, chain, FirstRound, ResultIsReal
<1>5. AllEquipped'
  BY DEF ScreenInv, FundMember, Started, AllEquipped, Equipped
<1>6. LandedIsPaid'
  BY DEF ScreenInv, FundMember, Started, chain, LandedIsPaid, At
<1>7. QED
  BY <1>3, <1>4, <1>5, <1>6 DEF ScreenInv

LEMMA DoClaimKeeps ==
  ASSUME ScreenInv, NEW i \in Flow, NEW m \in Member, DoClaim(i, m)
  PROVE  ScreenInv'
<1>1. flow' \in [Flow -> Handler]
  <2>1. Aborted(claimAbortRef) \in [Flow -> Handler]
    BY HandlerAborts DEF ScreenInv, TypeOK, Aborted
  <2>2. Started("claim", "preparing", m, m) \in Handler
    BY DEF Started, Handler, Payer
  <2>3. QED
    BY <2>1, <2>2 DEF DoClaim
<1>2. circle' \in Circle /\ nullifiers' \subseteq Proof
  BY DEF ScreenInv, DoClaim, chain, TypeOK
<1>3. TypeOK'
  BY <1>1, <1>2 DEF ScreenInv, DoClaim, TypeOK
<1>4. FirstRound' /\ ResultIsReal'
  BY DEF ScreenInv, DoClaim, FirstRound, ResultIsReal
<1>5. AllEquipped'
  BY DEF ScreenInv, DoClaim, Aborted, Started, AllEquipped, Equipped, TypeOK, Handler
<1>6. LandedIsPaid'
  BY DEF ScreenInv, DoClaim, Aborted, Started, chain, LandedIsPaid, At, TypeOK, Handler
<1>7. QED
  BY <1>3, <1>4, <1>5, <1>6 DEF ScreenInv

LEMMA ClaimAgainKeeps ==
  ASSUME ScreenInv, NEW i \in Flow, ClaimAgain(i)
  PROVE  ScreenInv'
<1>1. flow' \in [Flow -> Handler]
  BY DEF ScreenInv, ClaimAgain, Started, TypeOK, Handler, Payer, Proof
<1>2. circle' \in Circle /\ nullifiers' \subseteq Proof
  BY DEF ScreenInv, ClaimAgain, chain, TypeOK
<1>3. TypeOK'
  BY <1>1, <1>2 DEF ScreenInv, ClaimAgain, TypeOK
<1>4. FirstRound' /\ ResultIsReal'
  BY DEF ScreenInv, ClaimAgain, chain, FirstRound, ResultIsReal
<1>5. AllEquipped'
  BY DEF ScreenInv, ClaimAgain, Started, AllEquipped, Equipped
<1>6. LandedIsPaid'
  BY DEF ScreenInv, ClaimAgain, Started, chain, LandedIsPaid, At
<1>7. QED
  BY <1>3, <1>4, <1>5, <1>6 DEF ScreenInv

LEMMA DoCancelCircleKeeps ==
  ASSUME ScreenInv, NEW i \in Flow, DoCancelCircle(i)
  PROVE  ScreenInv'
<1>1. flow' \in [Flow -> Handler]
  BY DEF ScreenInv, DoCancelCircle, Started, TypeOK, Handler
<1>2. circle' \in Circle /\ nullifiers' \subseteq Proof
  BY DEF ScreenInv, DoCancelCircle, chain, TypeOK
<1>3. TypeOK'
  BY <1>1, <1>2 DEF ScreenInv, DoCancelCircle, TypeOK
<1>4. FirstRound' /\ ResultIsReal'
  BY DEF ScreenInv, DoCancelCircle, chain, FirstRound, ResultIsReal
<1>5. AllEquipped'
  BY DEF ScreenInv, DoCancelCircle, Started, AllEquipped, Equipped
<1>6. LandedIsPaid'
  BY DEF ScreenInv, DoCancelCircle, Started, chain, LandedIsPaid, At
<1>7. QED
  BY <1>3, <1>4, <1>5, <1>6 DEF ScreenInv

LEMMA ResetToLandingKeeps ==
  ASSUME ScreenInv, ResetToLanding
  PROVE  ScreenInv'
<1>1. flow' \in [Flow -> Handler]
  BY IdleType, ZenonT(60) DEF ScreenInv, ResetToLanding, Aborted, TypeOK, Handler
<1>2. circle' \in Circle /\ nullifiers' \subseteq Proof
  BY DEF ScreenInv, ResetToLanding, chain, TypeOK
<1>3. TypeOK'
  BY <1>1, <1>2 DEF ScreenInv, ResetToLanding, TypeOK
<1>4. FirstRound' /\ ResultIsReal'
  BY DEF ScreenInv, ResetToLanding, chain, FirstRound, ResultIsReal
<1>5. AllEquipped'
  BY DEF ScreenInv, ResetToLanding, Aborted, AllEquipped, Equipped
<1>6. LandedIsPaid'
  BY DEF ScreenInv, ResetToLanding, Aborted, chain, LandedIsPaid, At
<1>7. QED
  BY <1>3, <1>4, <1>5, <1>6 DEF ScreenInv

LEMMA PrepareFundKeeps ==
  ASSUME ScreenInv, NEW i \in Flow, PrepareFund(i)
  PROVE  ScreenInv'
<1>1. flow' \in [Flow -> Handler]
  BY DEF ScreenInv, PrepareFund, GoTo, TypeOK, Handler, AllEquipped, Equipped
<1>2. circle' \in Circle /\ nullifiers' \subseteq Proof
  BY DEF ScreenInv, PrepareFund, chain, TypeOK
<1>3. TypeOK'
  BY <1>1, <1>2 DEF ScreenInv, PrepareFund, At, TypeOK, AllEquipped, Equipped
<1>4. FirstRound' /\ ResultIsReal'
  BY DEF ScreenInv, PrepareFund, chain, FirstRound, ResultIsReal
<1>5. AllEquipped'
  BY DEF ScreenInv, PrepareFund, GoTo, AllEquipped, Equipped
<1>6. LandedIsPaid'
  BY DEF ScreenInv, PrepareFund, GoTo, At, chain, LandedIsPaid
<1>7. QED
  BY <1>3, <1>4, <1>5, <1>6 DEF ScreenInv

LEMMA PrepareClaimKeeps ==
  ASSUME ScreenInv, NEW i \in Flow, PrepareClaim(i)
  PROVE  ScreenInv'
<1>1. flow' \in [Flow -> Handler]
  BY IdleType DEF ScreenInv, PrepareClaim, GoTo, Return, TypeOK, Handler
<1>2. circle' \in Circle /\ nullifiers' \subseteq Proof
  BY DEF ScreenInv, PrepareClaim, chain, TypeOK
<1>3. TypeOK'
  BY <1>1, <1>2 DEF ScreenInv, PrepareClaim, Return, Render, Release, TypeOK
<1>4. FirstRound' /\ ResultIsReal'
  BY DEF ScreenInv, PrepareClaim, Return, Render, chain, FirstRound, ResultIsReal
<1>5. AllEquipped'
  BY DEF ScreenInv, PrepareClaim, GoTo, Return, Render, Idle, NoFlow, AllEquipped,
     Equipped, TypeOK, Handler
<1>6. LandedIsPaid'
  BY DEF ScreenInv, PrepareClaim, GoTo, At, Return, chain, Idle, LandedIsPaid, TypeOK,
     Handler
<1>7. QED
  BY <1>3, <1>4, <1>5, <1>6 DEF ScreenInv

LEMMA SubmitFundKeeps ==
  ASSUME ScreenInv, NEW i \in Flow, SubmitFund(i)
  PROVE  ScreenInv'
<1>1. flow' \in [Flow -> Handler]
  BY DEF ScreenInv, SubmitFund, GoTo, TypeOK, Handler
<1>2. circle' \in Circle /\ nullifiers' \subseteq Proof
  BY FundedType DEF ScreenInv, SubmitFund, At, AllEquipped, Equipped, TypeOK
<1>3. TypeOK'
  BY <1>1, <1>2 DEF ScreenInv, SubmitFund, screen, TypeOK
<1>4. FirstRound' /\ ResultIsReal'
  BY DEF ScreenInv, SubmitFund, screen, FirstRound, ResultIsReal
<1>5. AllEquipped'
  BY DEF ScreenInv, SubmitFund, GoTo, screen, AllEquipped, Equipped
<1>6. LandedIsPaid'
  BY DEF ScreenInv, SubmitFund, GoTo, At, screen, LandedIsPaid
<1>7. QED
  BY <1>3, <1>4, <1>5, <1>6 DEF ScreenInv

LEMMA FundAgainKeeps ==
  ASSUME ScreenInv, NEW i \in Flow, NEW m \in Member, FundAgain(i, m)
  PROVE  ScreenInv'
<1>1. flow' \in [Flow -> Handler]
  <2>1. flow[i] \in Handler /\ flow[i].todo \ {m} \in SUBSET Member
    BY DEF ScreenInv, TypeOK, Handler
  <2>2. [flow[i] EXCEPT !.pc = "landed", !.todo = @ \ {m}] \in Handler
    BY <2>1, HandlerFunds
  <2>3. flow' = [flow EXCEPT ![i] = [flow[i] EXCEPT !.pc = "landed", !.todo = @ \ {m}]]
    BY DEF FundAgain
  <2>4. QED
    BY <2>2, <2>3 DEF ScreenInv, TypeOK
<1>2. circle' \in Circle /\ nullifiers' \subseteq Proof
  BY FundedType DEF ScreenInv, FundAgain, TypeOK, Payer
<1>3. TypeOK'
  BY <1>1, <1>2 DEF ScreenInv, FundAgain, screen, TypeOK
<1>4. FirstRound' /\ ResultIsReal'
  BY DEF ScreenInv, FundAgain, screen, FirstRound, ResultIsReal
<1>5. AllEquipped'
  BY DEF ScreenInv, FundAgain, TypeOK, Handler
<1>6. LandedIsPaid'
  BY DEF ScreenInv, FundAgain, TypeOK, Handler
<1>7. QED
  BY <1>3, <1>4, <1>5, <1>6 DEF ScreenInv

LEMMA SubmitClaimKeeps ==
  ASSUME ScreenInv, NEW i \in Flow, SubmitClaim(i)
  PROVE  ScreenInv'
<1>1. flow' \in [Flow -> Handler]
  BY DEF ScreenInv, SubmitClaim, GoTo, TypeOK, Handler
<1>2. circle' \in Circle /\ nullifiers' \subseteq Proof
  <2>1. circle.round = 0
    BY ProofOfType DEF SubmitClaim, At, ClaimSucceeds
  <2>2. QED
    BY <2>1, ClaimedType, ProofOfType DEF ScreenInv, SubmitClaim, At, TypeOK
<1>3. TypeOK'
  BY <1>1, <1>2 DEF ScreenInv, SubmitClaim, screen, TypeOK
<1>4. FirstRound' /\ ResultIsReal'
  BY DEF ScreenInv, SubmitClaim, screen, FirstRound, ResultIsReal
<1>5. AllEquipped'
  BY DEF ScreenInv, SubmitClaim, GoTo, screen, AllEquipped, Equipped
<1>6. LandedIsPaid'
  BY DEF ScreenInv, SubmitClaim, GoTo, At, ProofOf, screen, LandedIsPaid
<1>7. QED
  BY <1>3, <1>4, <1>5, <1>6 DEF ScreenInv

LEMMA SubmitCancelKeeps ==
  ASSUME ScreenInv, NEW i \in Flow, SubmitCancel(i)
  PROVE  ScreenInv'
<1>1. flow' \in [Flow -> Handler]
  BY DEF ScreenInv, SubmitCancel, GoTo, TypeOK, Handler
<1>2. circle' \in Circle /\ nullifiers' \subseteq Proof
  BY CancelledType DEF ScreenInv, SubmitCancel, TypeOK
<1>3. TypeOK'
  BY <1>1, <1>2 DEF ScreenInv, SubmitCancel, screen, TypeOK
<1>4. FirstRound' /\ ResultIsReal'
  BY DEF ScreenInv, SubmitCancel, screen, FirstRound, ResultIsReal
<1>5. AllEquipped'
  BY DEF ScreenInv, SubmitCancel, GoTo, screen, AllEquipped, Equipped
<1>6. LandedIsPaid'
  BY DEF ScreenInv, SubmitCancel, GoTo, At, screen, LandedIsPaid
<1>7. QED
  BY <1>3, <1>4, <1>5, <1>6 DEF ScreenInv

LEMMA ThrowKeeps ==
  ASSUME ScreenInv, NEW i \in Flow, Throw(i)
  PROVE  ScreenInv'
<1>1. flow' \in [Flow -> Handler]
  BY IdleType DEF ScreenInv, Throw, GoTo, Return, TypeOK, Handler
<1>2. circle' \in Circle /\ nullifiers' \subseteq Proof
  BY DEF ScreenInv, Throw, chain, TypeOK
<1>3. TypeOK'
  BY <1>1, <1>2 DEF ScreenInv, Throw, Return, Render, Release, TypeOK
<1>4. FirstRound' /\ ResultIsReal'
  BY DEF ScreenInv, Throw, Return, Render, chain, FirstRound, ResultIsReal
<1>5. AllEquipped'
  BY DEF ScreenInv, Throw, GoTo, Return, Render, Idle, NoFlow, AllEquipped, Equipped,
     TypeOK, Handler
<1>6. LandedIsPaid'
  BY DEF ScreenInv, Throw, GoTo, At, Return, chain, Idle, LandedIsPaid, TypeOK, Handler
<1>7. QED
  BY <1>3, <1>4, <1>5, <1>6 DEF ScreenInv

LEMMA SubmitAnsweredKeeps ==
  ASSUME ScreenInv, NEW i \in Flow, SubmitAnswered(i)
  PROVE  ScreenInv'
<1>1. flow' \in [Flow -> Handler]
  BY DEF ScreenInv, SubmitAnswered, GoTo, chain, TypeOK, Handler
<1>2. circle' \in Circle /\ nullifiers' \subseteq Proof
  BY DEF ScreenInv, SubmitAnswered, chain, TypeOK
<1>3. TypeOK'
  BY <1>1, <1>2 DEF ScreenInv, SubmitAnswered, TypeOK
<1>4. FirstRound' /\ ResultIsReal'
  BY DEF ScreenInv, SubmitAnswered, chain, FirstRound, ResultIsReal
<1>5. AllEquipped'
  BY DEF ScreenInv, SubmitAnswered, GoTo, AllEquipped, Equipped, TypeOK, Handler
<1>6. LandedIsPaid'
  BY DEF ScreenInv, SubmitAnswered, GoTo, At, chain, LandedIsPaid, TypeOK, Handler
<1>7. QED
  BY <1>3, <1>4, <1>5, <1>6 DEF ScreenInv

LEMMA ClaimAnsweredKeeps ==
  ASSUME ScreenInv, NEW i \in Flow, ClaimAnswered(i)
  PROVE  ScreenInv'
<1>1. flow' \in [Flow -> Handler]
  BY IdleType DEF ScreenInv, ClaimAnswered, GoTo, Return, TypeOK, Handler
<1>2. circle' \in Circle /\ nullifiers' \subseteq Proof
  BY DEF ScreenInv, ClaimAnswered, chain, TypeOK
<1>3. TypeOK'
  BY <1>1, <1>2, ProofIsNotNoClaim DEF ScreenInv, ClaimAnswered, ProofOf, Return, Render,
     Release, TypeOK, AllEquipped, Equipped
<1>4. FirstRound' /\ ResultIsReal'
  BY DEF ScreenInv, ClaimAnswered, At, Answered, ProofOf, Return, Render, chain,
     FirstRound, ResultIsReal, LandedIsPaid
<1>5. AllEquipped'
  <2>1. CASE flow[i].aborted
    BY <2>1 DEF ScreenInv, ClaimAnswered, Return, Render, Idle, NoFlow, AllEquipped,
       Equipped, TypeOK
  <2>2. CASE ~ flow[i].aborted
    <3>1. claimResult' # NoClaim
      BY <2>2, ProofIsNotNoClaim DEF ScreenInv, TypeOK, AllEquipped, Equipped,
         ClaimAnswered, Render, ProofOf
    <3>2. flow' = [flow EXCEPT ![i].pc = "checking"]
      BY <2>2 DEF ClaimAnswered, GoTo
    <3>3. QED
      BY <3>1, <3>2 DEF ScreenInv, AllEquipped, Equipped
  <2>3. QED
    BY <2>1, <2>2
<1>6. LandedIsPaid'
  BY DEF ScreenInv, ClaimAnswered, GoTo, At, Return, chain, Idle, LandedIsPaid, TypeOK,
     Handler
<1>7. QED
  BY <1>3, <1>4, <1>5, <1>6 DEF ScreenInv

LEMMA HasClaimedKeeps ==
  ASSUME ScreenInv, NEW i \in Flow, HasClaimed(i)
  PROVE  ScreenInv'
<1>1. flow' \in [Flow -> Handler]
  BY DEF ScreenInv, HasClaimed, GoTo, TypeOK, Handler
<1>2. circle' \in Circle /\ nullifiers' \subseteq Proof
  BY DEF ScreenInv, HasClaimed, chain, TypeOK
<1>3. TypeOK'
  BY <1>1, <1>2 DEF ScreenInv, HasClaimed, TypeOK
<1>4. FirstRound' /\ ResultIsReal'
  BY DEF ScreenInv, HasClaimed, chain, FirstRound, ResultIsReal
<1>5. AllEquipped'
  BY DEF ScreenInv, HasClaimed, GoTo, AllEquipped, Equipped
<1>6. LandedIsPaid'
  BY DEF ScreenInv, HasClaimed, GoTo, At, chain, LandedIsPaid
<1>7. QED
  BY <1>3, <1>4, <1>5, <1>6 DEF ScreenInv

LEMMA SyncReadKeeps ==
  ASSUME ScreenInv, NEW i \in Flow, SyncRead(i)
  PROVE  ScreenInv'
<1>1. flow' \in [Flow -> Handler]
  <2>1. [flow[i] EXCEPT !.pc = "synced", !.snapshot = circle] \in Handler
    BY HandlerReads DEF ScreenInv, TypeOK
  <2>2. flow' = [flow EXCEPT ![i] = [flow[i] EXCEPT !.pc = "synced", !.snapshot = circle]]
    BY DEF SyncRead
  <2>3. QED
    BY <2>1, <2>2 DEF ScreenInv, TypeOK
<1>2. circle' \in Circle /\ nullifiers' \subseteq Proof
  BY DEF ScreenInv, SyncRead, chain, TypeOK
<1>3. TypeOK'
  BY <1>1, <1>2 DEF ScreenInv, SyncRead, screen, TypeOK
<1>4. FirstRound' /\ ResultIsReal'
  BY DEF ScreenInv, SyncRead, chain, screen, FirstRound, ResultIsReal
<1>5. AllEquipped'
  BY DEF ScreenInv, SyncRead, screen, AllEquipped, Equipped, TypeOK
<1>6. LandedIsPaid'
  BY DEF ScreenInv, SyncRead, chain, screen, LandedIsPaid, At, TypeOK
<1>7. QED
  BY <1>3, <1>4, <1>5, <1>6 DEF ScreenInv

LEMMA SyncAnsweredKeeps ==
  ASSUME ScreenInv, NEW i \in Flow, SyncAnswered(i)
  PROVE  ScreenInv'
<1>1. flow' \in [Flow -> Handler]
  BY IdleType DEF ScreenInv, SyncAnswered, Return, TypeOK
<1>2. circle' \in Circle /\ nullifiers' \subseteq Proof
  BY DEF ScreenInv, SyncAnswered, chain, TypeOK
<1>3. TypeOK'
  BY <1>1, <1>2 DEF ScreenInv, SyncAnswered, Sync, FundedIn, Return, Render, Release,
     TypeOK, AllEquipped, Equipped
<1>4. FirstRound' /\ ResultIsReal'
  BY DEF ScreenInv, SyncAnswered, Return, Render, chain, FirstRound, ResultIsReal
<1>5. AllEquipped'
  BY DEF ScreenInv, SyncAnswered, Return, Render, Idle, NoFlow, AllEquipped, Equipped,
     TypeOK
<1>6. LandedIsPaid'
  BY DEF ScreenInv, SyncAnswered, Return, chain, Idle, LandedIsPaid, At, TypeOK
<1>7. QED
  BY <1>3, <1>4, <1>5, <1>6 DEF ScreenInv

LEMMA PollKeeps ==
  ASSUME ScreenInv, NEW j \in Request, Poll(j)
  PROVE  ScreenInv'
<1>1. flow' \in [Flow -> Handler]
  BY DEF ScreenInv, Poll, TypeOK
<1>2. circle' \in Circle /\ nullifiers' \subseteq Proof
  BY DEF ScreenInv, Poll, chain, TypeOK
<1>3. TypeOK'
  BY <1>2 DEF ScreenInv, Poll, screen, TypeOK
<1>4. FirstRound' /\ ResultIsReal'
  BY DEF ScreenInv, Poll, Polling, screen, FirstRound, ResultIsReal
<1>5. AllEquipped'
  BY DEF ScreenInv, Poll, Polling, AllEquipped, Equipped
<1>6. LandedIsPaid'
  BY DEF ScreenInv, Poll, chain, screen, LandedIsPaid, At
<1>7. QED
  BY <1>3, <1>4, <1>5, <1>6 DEF ScreenInv

LEMMA PollAnsweredKeeps ==
  ASSUME ScreenInv, NEW j \in Request, PollAnswered(j)
  PROVE  ScreenInv'
<1>1. flow' \in [Flow -> Handler]
  BY DEF ScreenInv, PollAnswered, TypeOK
<1>2. circle' \in Circle /\ nullifiers' \subseteq Proof
  BY DEF ScreenInv, PollAnswered, chain, TypeOK
<1>3. TypeOK'
  BY <1>2 DEF ScreenInv, PollAnswered, Sync, FundedIn, Render, TypeOK
<1>4. FirstRound' /\ ResultIsReal'
  BY DEF ScreenInv, PollAnswered, Render, chain, FirstRound, ResultIsReal
<1>5. AllEquipped'
  BY DEF ScreenInv, PollAnswered, Render, AllEquipped, Equipped
<1>6. LandedIsPaid'
  BY DEF ScreenInv, PollAnswered, chain, LandedIsPaid, At
<1>7. QED
  BY <1>3, <1>4, <1>5, <1>6 DEF ScreenInv

LEMMA CheckEligibilityDoneKeeps ==
  ASSUME ScreenInv, CheckEligibilityDone
  PROVE  ScreenInv'
<1>1. flow' \in [Flow -> Handler]
  BY DEF ScreenInv, CheckEligibilityDone, TypeOK
<1>2. circle' \in Circle /\ nullifiers' \subseteq Proof
  BY DEF ScreenInv, CheckEligibilityDone, chain, TypeOK
<1>3. TypeOK'
  BY <1>2 DEF ScreenInv, CheckEligibilityDone, TypeOK
<1>4. FirstRound' /\ ResultIsReal'
  BY DEF ScreenInv, CheckEligibilityDone, chain, FirstRound, ResultIsReal
<1>5. AllEquipped'
  BY DEF ScreenInv, CheckEligibilityDone, AllEquipped, Equipped
<1>6. LandedIsPaid'
  BY DEF ScreenInv, CheckEligibilityDone, chain, LandedIsPaid, At
<1>7. QED
  BY <1>3, <1>4, <1>5, <1>6 DEF ScreenInv

LEMMA OtherFundsKeeps ==
  ASSUME ScreenInv, OtherFunds
  PROVE  ScreenInv'
<1>1. flow' \in [Flow -> Handler]
  BY DEF ScreenInv, OtherFunds, TypeOK
<1>2. circle' \in Circle /\ nullifiers' \subseteq Proof
  BY FundedType DEF ScreenInv, OtherFunds, TypeOK, Payer
<1>3. TypeOK'
  BY <1>2 DEF ScreenInv, OtherFunds, screen, TypeOK
<1>4. FirstRound' /\ ResultIsReal'
  BY DEF ScreenInv, OtherFunds, screen, FirstRound, ResultIsReal
<1>5. AllEquipped'
  BY DEF ScreenInv, OtherFunds, screen, AllEquipped, Equipped
<1>6. LandedIsPaid'
  BY DEF ScreenInv, OtherFunds, screen, LandedIsPaid, At
<1>7. QED
  BY <1>3, <1>4, <1>5, <1>6 DEF ScreenInv

LEMMA InitIsSound == Init => ScreenInv
<1>1. SUFFICES ASSUME Init  PROVE ScreenInv
  OBVIOUS
<1>2. TypeOK
  <2>1. circle \in Circle /\ shown \in Circle
    BY <1>1, SizeType DEF Init, Circle
  <2>2. QED
    BY <1>1, <2>1, IdleType DEF Init, TypeOK
<1>3. QED
  BY <1>1, <1>2 DEF Init, ScreenInv, FirstRound, AllEquipped, Equipped, LandedIsPaid,
     ResultIsReal, At, Idle, NoFlow

LEMMA StepKeepsInv == ScreenInv /\ [Next]_vars => ScreenInv'
<1>1. SUFFICES ASSUME ScreenInv, [Next]_vars  PROVE ScreenInv'
  OBVIOUS
<1>2. CASE StartCircle
  BY <1>1, <1>2, StartCircleKeeps
<1>3. ASSUME NEW i \in Flow, NEW m \in Member, NEW payer \in Payer, FundMember(i, m, payer)
      PROVE  ScreenInv'
  BY <1>1, <1>3, FundMemberKeeps
<1>4. ASSUME NEW i \in Flow, NEW m \in Member, DoClaim(i, m)  PROVE ScreenInv'
  BY <1>1, <1>4, DoClaimKeeps
<1>5. ASSUME NEW i \in Flow, ClaimAgain(i)  PROVE ScreenInv'
  BY <1>1, <1>5, ClaimAgainKeeps
<1>6. ASSUME NEW i \in Flow, DoCancelCircle(i)  PROVE ScreenInv'
  BY <1>1, <1>6, DoCancelCircleKeeps
<1>7. CASE ResetToLanding
  BY <1>1, <1>7, ResetToLandingKeeps
<1>8. ASSUME NEW i \in Flow, PrepareFund(i)  PROVE ScreenInv'
  BY <1>1, <1>8, PrepareFundKeeps
<1>9. ASSUME NEW i \in Flow, PrepareClaim(i)  PROVE ScreenInv'
  BY <1>1, <1>9, PrepareClaimKeeps
<1>10. ASSUME NEW i \in Flow, SubmitFund(i)  PROVE ScreenInv'
  BY <1>1, <1>10, SubmitFundKeeps
<1>11. ASSUME NEW i \in Flow, NEW m \in Member, FundAgain(i, m)  PROVE ScreenInv'
  BY <1>1, <1>11, FundAgainKeeps
<1>12. ASSUME NEW i \in Flow, SubmitClaim(i)  PROVE ScreenInv'
  BY <1>1, <1>12, SubmitClaimKeeps
<1>13. ASSUME NEW i \in Flow, SubmitCancel(i)  PROVE ScreenInv'
  BY <1>1, <1>13, SubmitCancelKeeps
<1>14. ASSUME NEW i \in Flow, Throw(i)  PROVE ScreenInv'
  BY <1>1, <1>14, ThrowKeeps
<1>15. ASSUME NEW i \in Flow, SubmitAnswered(i)  PROVE ScreenInv'
  BY <1>1, <1>15, SubmitAnsweredKeeps
<1>16. ASSUME NEW i \in Flow, ClaimAnswered(i)  PROVE ScreenInv'
  BY <1>1, <1>16, ClaimAnsweredKeeps
<1>17. ASSUME NEW i \in Flow, HasClaimed(i)  PROVE ScreenInv'
  BY <1>1, <1>17, HasClaimedKeeps
<1>18. ASSUME NEW i \in Flow, SyncRead(i)  PROVE ScreenInv'
  BY <1>1, <1>18, SyncReadKeeps
<1>19. ASSUME NEW i \in Flow, SyncAnswered(i)  PROVE ScreenInv'
  BY <1>1, <1>19, SyncAnsweredKeeps
<1>20. ASSUME NEW j \in Request, Poll(j)  PROVE ScreenInv'
  BY <1>1, <1>20, PollKeeps
<1>21. ASSUME NEW j \in Request, PollAnswered(j)  PROVE ScreenInv'
  BY <1>1, <1>21, PollAnsweredKeeps
<1>22. CASE CheckEligibilityDone
  BY <1>1, <1>22, CheckEligibilityDoneKeeps
<1>23. CASE OtherFunds
  BY <1>1, <1>23, OtherFundsKeeps
<1>24. CASE UNCHANGED vars
  BY <1>1, <1>24 DEF vars, chain, screen, ScreenInv, TypeOK, FirstRound, AllEquipped,
     Equipped,
                     LandedIsPaid, ResultIsReal, At
<1>25. QED
  BY <1>1, <1>2, <1>3, <1>4, <1>5, <1>6, <1>7, <1>8, <1>9, <1>10, <1>11, <1>12, <1>13,
     <1>14, <1>15, <1>16, <1>17, <1>18, <1>19, <1>20, <1>21, <1>22, <1>23, <1>24,
     ClaimantAssumption DEF Next, Click, Continue

\* The inductive invariant.
THEOREM ScreenStaysSound == Spec => []ScreenInv
<1>1. QED
  BY InitIsSound, StepKeepsInv, PTL DEF Spec

\* The type invariant: in particular the chain's round never passes 1, because
\* the screen only makes proofs for the round it shows.
THEOREM ScreenTypes == Spec => []TypeOK
<1>1. ScreenInv => TypeOK
  BY DEF ScreenInv
<1>2. QED
  BY <1>1, ScreenStaysSound, PTL

\* For any number of members, overlapping handlers and polls, and however
\* answers are delayed or lost: a payout that doClaim puts on the screen was
\* made by the contract.
THEOREM ShownResultIsReal == Spec => []ResultIsReal
<1>1. ScreenInv => ResultIsReal
  BY DEF ScreenInv
<1>2. QED
  BY <1>1, ScreenStaysSound, PTL

----------------------------------------------------------------------------
(* The reach of an abort.                                                   *)

LEMMA ReachIsKept == TypeOK /\ LiveClaimIsReachable /\ [Next]_vars => LiveClaimIsReachable'
<1>1. SUFFICES ASSUME TypeOK, LiveClaimIsReachable, [Next]_vars
               PROVE  LiveClaimIsReachable'
  OBVIOUS
<1>2. CASE StartCircle
  BY <1>1, <1>2 DEF LiveClaimIsReachable, Live, StartCircle
<1>3. ASSUME NEW i \in Flow, NEW m \in Member, NEW payer \in Payer, FundMember(i, m, payer)
      PROVE  LiveClaimIsReachable'
  BY <1>1, <1>3 DEF LiveClaimIsReachable, Live, FundMember, Started
<1>4. ASSUME NEW i \in Flow, NEW m \in Member, DoClaim(i, m)
      PROVE  LiveClaimIsReachable'
  BY <1>1, <1>4 DEF TypeOK, LiveClaimIsReachable, Live, DoClaim, Aborted, Handler
<1>5. ASSUME NEW i \in Flow, ClaimAgain(i)  PROVE LiveClaimIsReachable'
  BY <1>1, <1>5 DEF LiveClaimIsReachable, Live, ClaimAgain, Started
<1>6. ASSUME NEW i \in Flow, DoCancelCircle(i)  PROVE LiveClaimIsReachable'
  BY <1>1, <1>6 DEF LiveClaimIsReachable, Live, DoCancelCircle, Started
<1>7. CASE ResetToLanding
  BY <1>1, <1>7 DEF LiveClaimIsReachable, Live, ResetToLanding, Aborted
<1>8. ASSUME NEW i \in Flow, PrepareFund(i)  PROVE LiveClaimIsReachable'
  BY <1>1, <1>8 DEF LiveClaimIsReachable, Live, PrepareFund, GoTo
<1>9. ASSUME NEW i \in Flow, PrepareClaim(i)  PROVE LiveClaimIsReachable'
  BY <1>1, <1>9 DEF TypeOK, LiveClaimIsReachable, Live, PrepareClaim, GoTo, At, Return,
     Release, Idle, NoFlow
<1>10. ASSUME NEW i \in Flow, SubmitFund(i)  PROVE LiveClaimIsReachable'
  BY <1>1, <1>10 DEF LiveClaimIsReachable, Live, SubmitFund, GoTo
<1>11. ASSUME NEW i \in Flow, NEW m \in Member, FundAgain(i, m)
      PROVE  LiveClaimIsReachable'
  BY <1>1, <1>11 DEF TypeOK, LiveClaimIsReachable, Live, FundAgain
<1>12. ASSUME NEW i \in Flow, SubmitClaim(i)  PROVE LiveClaimIsReachable'
  BY <1>1, <1>12 DEF LiveClaimIsReachable, Live, SubmitClaim, GoTo
<1>13. ASSUME NEW i \in Flow, SubmitCancel(i)  PROVE LiveClaimIsReachable'
  BY <1>1, <1>13 DEF LiveClaimIsReachable, Live, SubmitCancel, GoTo
<1>14. ASSUME NEW i \in Flow, Throw(i)  PROVE LiveClaimIsReachable'
  BY <1>1, <1>14 DEF TypeOK, LiveClaimIsReachable, Live, Throw, GoTo, Return, Release,
     Handler, Idle, NoFlow
<1>15. ASSUME NEW i \in Flow, SubmitAnswered(i)  PROVE LiveClaimIsReachable'
  BY <1>1, <1>15 DEF TypeOK, LiveClaimIsReachable, Live, SubmitAnswered, GoTo, Handler
<1>16. ASSUME NEW i \in Flow, ClaimAnswered(i)  PROVE LiveClaimIsReachable'
  BY <1>1, <1>16 DEF TypeOK, LiveClaimIsReachable, Live, ClaimAnswered, GoTo, Return,
     Release, Idle, NoFlow
<1>17. ASSUME NEW i \in Flow, HasClaimed(i)  PROVE LiveClaimIsReachable'
  BY <1>1, <1>17 DEF LiveClaimIsReachable, Live, HasClaimed, GoTo
<1>18. ASSUME NEW i \in Flow, SyncRead(i)  PROVE LiveClaimIsReachable'
  BY <1>1, <1>18 DEF TypeOK, LiveClaimIsReachable, Live, SyncRead
<1>19. ASSUME NEW i \in Flow, SyncAnswered(i)  PROVE LiveClaimIsReachable'
  BY <1>1, <1>19 DEF TypeOK, LiveClaimIsReachable, Live, SyncAnswered, Return, Release,
     Idle, NoFlow
<1>20. ASSUME NEW j \in Request, Poll(j)  PROVE LiveClaimIsReachable'
  BY <1>1, <1>20 DEF LiveClaimIsReachable, Live, Poll
<1>21. ASSUME NEW j \in Request, PollAnswered(j)  PROVE LiveClaimIsReachable'
  BY <1>1, <1>21 DEF LiveClaimIsReachable, Live, PollAnswered
<1>22. CASE CheckEligibilityDone
  BY <1>1, <1>22 DEF LiveClaimIsReachable, Live, CheckEligibilityDone
<1>23. CASE OtherFunds
  BY <1>1, <1>23 DEF LiveClaimIsReachable, Live, OtherFunds
<1>24. CASE UNCHANGED vars
  BY <1>1, <1>24 DEF vars, LiveClaimIsReachable, Live
<1>25. QED
  BY <1>1, <1>2, <1>3, <1>4, <1>5, <1>6, <1>7, <1>8, <1>9, <1>10, <1>11, <1>12, <1>13,
     <1>14, <1>15, <1>16, <1>17, <1>18, <1>19, <1>20, <1>21, <1>22, <1>23, <1>24,
     ClaimantAssumption DEF Next, Click, Continue

\* An abort always reaches the one claim that is not aborted yet: doClaim never
\* starts a second live claim, and no handler's end loses the first.
THEOREM LiveClaimStaysReachable == Spec => []LiveClaimIsReachable
<1>1. Init => LiveClaimIsReachable
  BY DEF Init, LiveClaimIsReachable, Live, Idle, NoFlow
<1>2. QED
  BY <1>1, ReachIsKept, ScreenTypes, PTL DEF Spec

----------------------------------------------------------------------------
(* Payments behind the members shown as funded.                             *)

\* A handler between the wallet's payment for its member and its end.
WalletPays(j) ==
  flow[j].kind = "fund" /\ flow[j].payer \in Freighter /\ flow[j].pc \in {"landed", "syncing", "synced"}

\* Members for whom the wallet paid: those recorded, and those of such handlers.
WalletPaid == freighterKey \cup { flow[j].member : j \in { k \in Flow : WalletPays(k) } }

\* In the first round each member who paid from an account of their own, and each
\* one the wallet paid for, stands for a payment of its own.
PaymentsCover ==
  circle.round = 0 /\ ~ circle.cancelled =>
    Cardinality(Member \cap circle.contributors) + Cardinality(WalletPaid) <= circle.pot

\* The members shown as funded are among those that the snapshot shown pays for.
FundedIsShown == funded \subseteq FundedIn(shown, freighterKey)

CancelledIsEmpty == circle.cancelled => circle.contributors = {}

PaidInv == PaymentsCover /\ FundedIsShown /\ CancelledIsEmpty

\* A payment adds one element at most to what it is counted in.
LEMMA AtMostOneMore ==
  ASSUME NEW A, NEW B, NEW x, IsFiniteSet(A), B \subseteq A \cup {x}
  PROVE  /\ IsFiniteSet(B) /\ Cardinality(B) \in Nat /\ Cardinality(A) \in Nat
         /\ Cardinality(B) <= Cardinality(A) + 1
<1>1. IsFiniteSet(A \cup {x}) /\ Cardinality(A \cup {x}) <= Cardinality(A) + 1
  <2>1. Cardinality(A) \in Nat
    BY FS_CardinalityType
  <2>2. /\ IsFiniteSet(A \cup {x})
        /\ Cardinality(A \cup {x}) = IF x \in A THEN Cardinality(A) ELSE Cardinality(A) + 1
    BY FS_AddElement, Zenon
  <2>3. QED
    BY <2>1, <2>2
<1>2. QED
  BY <1>1, FS_Subset, FS_CardinalityType

LEMMA PaidTypes ==
  ASSUME ScreenInv
  PROVE  /\ WalletPaid \subseteq Member /\ Member \cap circle.contributors \subseteq Member
         /\ IsFiniteSet(WalletPaid) /\ IsFiniteSet(Member \cap circle.contributors)
         /\ Cardinality(WalletPaid) \in Nat /\ Cardinality(Member \cap circle.contributors) \in Nat
         /\ circle.pot \in Nat /\ circle.round \in {0, 1} /\ circle.cancelled \in BOOLEAN
<1>1. WalletPaid \subseteq Member
  <2>1. freighterKey \subseteq Member
    BY DEF ScreenInv, TypeOK
  <2>2. \A j \in Flow : WalletPays(j) => flow[j].member \in Member
    BY DEF ScreenInv, AllEquipped, Equipped, WalletPays
  <2>3. QED
    BY <2>1, <2>2 DEF WalletPaid
<1>2. circle.pot \in Nat /\ circle.round \in {0, 1} /\ circle.cancelled \in BOOLEAN
  BY SizeType DEF ScreenInv, TypeOK, Circle
<1>3. QED
  BY <1>1, <1>2, PayerAssumption, FS_Subset, FS_CardinalityType

\* No handler comes to stand for a payment.
NoNewPays ==
  /\ freighterKey' = freighterKey
  /\ \A j \in Flow : WalletPays(j)' => WalletPays(j) /\ flow'[j].member = flow[j].member

LEMMA PaidDoesNotGrow ==
  ASSUME NoNewPays
  PROVE  WalletPaid' \subseteq WalletPaid
BY DEF NoNewPays, WalletPaid

\* The chain stays and no payment is added to those counted.
LEMMA QuietKeepsCover ==
  ASSUME ScreenInv, ScreenInv', PaymentsCover, circle' = circle, WalletPaid' \subseteq WalletPaid
  PROVE  PaymentsCover'
<1>1. Cardinality(WalletPaid') <= Cardinality(WalletPaid)
  BY PaidTypes, FS_Subset
<1>2. Cardinality(WalletPaid') \in Nat
  BY PaidTypes, FS_Subset, FS_CardinalityType
<1>3. QED
  BY <1>1, <1>2, PaidTypes DEF PaymentsCover

\* A payment counts once: for the member who made it, or for the one it was made for.
LEMMA PaymentKeepsCover ==
  ASSUME ScreenInv, PaymentsCover, FundSucceeds, NEW payer \in Payer, circle' = Funded(payer),
         NEW m, WalletPaid' \subseteq WalletPaid \cup {m},
         payer \in Member => WalletPaid' \subseteq WalletPaid
  PROVE  PaymentsCover'
<1> DEFINE own  == Member \cap circle.contributors
           own2 == Member \cap circle'.contributors
<1>1. /\ circle'.pot = circle.pot + 1 /\ circle'.contributors = circle.contributors \cup {payer}
      /\ circle'.round = circle.round /\ circle'.cancelled = circle.cancelled
  BY DEF ScreenInv, TypeOK, Circle, Funded
<1>2. own2 \subseteq own \cup {payer} /\ (payer \notin Member => own2 \subseteq own)
  BY <1>1
<1>3. /\ Cardinality(own2) \in Nat /\ Cardinality(own2) <= Cardinality(own) + 1
      /\ payer \notin Member => Cardinality(own2) <= Cardinality(own)
  <2>1. IsFiniteSet(own)
    BY PaidTypes
  <2> HIDE DEF own, own2
  <2>2. Cardinality(own2) \in Nat /\ Cardinality(own2) <= Cardinality(own) + 1
    BY <1>2, <2>1, AtMostOneMore
  <2>3. ASSUME payer \notin Member  PROVE Cardinality(own2) <= Cardinality(own)
    <3>1. own2 \in SUBSET own
      BY <1>2, <2>3
    <3>2. QED
      BY <2>1, <3>1, FS_Subset
  <2>4. QED
    BY <2>2, <2>3
<1>4. /\ Cardinality(WalletPaid') \in Nat /\ Cardinality(WalletPaid') <= Cardinality(WalletPaid) + 1
      /\ payer \in Member => Cardinality(WalletPaid') <= Cardinality(WalletPaid)
  <2>1. IsFiniteSet(WalletPaid)
    BY PaidTypes
  <2>2. QED
    BY <2>1, AtMostOneMore, FS_Subset
<1>5. SUFFICES ASSUME circle.round = 0, ~ circle.cancelled
               PROVE  Cardinality(own2) + Cardinality(WalletPaid') <= circle'.pot
  BY <1>1 DEF PaymentsCover
<1>6. Cardinality(own) + Cardinality(WalletPaid) <= circle.pot
  BY <1>5 DEF PaymentsCover
<1> HIDE DEF own, own2
<1>7. Cardinality(own) \in Nat /\ Cardinality(WalletPaid) \in Nat /\ circle.pot \in Nat
  BY PaidTypes DEF own
<1>8. QED
  BY <1>1, <1>3, <1>4, <1>6, <1>7

\* The view is what it was, or that of one snapshot.
SameView == shown' = shown /\ funded' = funded /\ freighterKey \subseteq freighterKey'
NewView  == \E s \in Circle : shown' = s /\ Sync(s) /\ freighterKey \subseteq freighterKey'

LEMMA ViewKeepsFunded ==
  ASSUME FundedIsShown, SameView \/ NewView
  PROVE  FundedIsShown'
BY DEF FundedIsShown, SameView, NewView, Sync, FundedIn

\* An action that pays nothing: the chain stays, the round ends or the circle does.
StepIsQuiet ==
  /\ SameView \/ NewView
  /\ WalletPaid' \subseteq WalletPaid
  /\ circle' \in {circle, Claimed, Cancelled}

LEMMA QuietKeepsPaid ==
  ASSUME ScreenInv, ScreenInv', PaidInv, StepIsQuiet
  PROVE  PaidInv'
<1>1. FundedIsShown'
  BY ViewKeepsFunded DEF PaidInv, StepIsQuiet
<1>2. CASE circle' = circle
  BY <1>1, <1>2, QuietKeepsCover DEF PaidInv, StepIsQuiet, CancelledIsEmpty
<1>3. CASE circle' = Claimed
  <2>1. circle'.round # 0 /\ circle'.contributors = {}
    BY <1>3, PaidTypes DEF ScreenInv, TypeOK, Circle, Claimed
  <2>2. QED
    BY <1>1, <2>1 DEF PaidInv, PaymentsCover, CancelledIsEmpty
<1>4. CASE circle' = Cancelled
  <2>1. circle'.cancelled /\ circle'.contributors = {}
    BY <1>4 DEF ScreenInv, TypeOK, Circle, Cancelled
  <2>2. QED
    BY <1>1, <2>1 DEF PaidInv, PaymentsCover, CancelledIsEmpty
<1>5. QED
  BY <1>2, <1>3, <1>4 DEF StepIsQuiet

LEMMA PaymentKeepsPaid ==
  ASSUME ScreenInv, PaidInv, FundSucceeds, SameView, NEW payer \in Payer, circle' = Funded(payer),
         NEW m, WalletPaid' \subseteq WalletPaid \cup {m},
         payer \in Member => WalletPaid' \subseteq WalletPaid
  PROVE  PaidInv'
<1>1. FundedIsShown' /\ PaymentsCover'
  BY ViewKeepsFunded, PaymentKeepsCover DEF PaidInv
<1>2. CancelledIsEmpty'
  BY DEF ScreenInv, TypeOK, Circle, Funded, FundSucceeds, CancelledIsEmpty
<1>3. QED
  BY <1>1, <1>2 DEF PaidInv

LEMMA PaidIsKept == ScreenInv /\ ScreenInv' /\ PaidInv /\ [Next]_vars => PaidInv'
<1> SUFFICES ASSUME ScreenInv, ScreenInv', PaidInv, [Next]_vars  PROVE PaidInv'
  OBVIOUS
<1>1. CASE StartCircle
  <2>1. NoNewPays
    BY <1>1 DEF StartCircle, NoNewPays, WalletPays
  <2>2. StepIsQuiet
    BY <1>1, <2>1, PaidDoesNotGrow DEF StartCircle, chain, SameView, StepIsQuiet
  <2>3. QED
    BY <2>2, QuietKeepsPaid
<1>2. ASSUME NEW i \in Flow, Click(i)  PROVE PaidInv'
  <2>1. NoNewPays
    <3>1. flow \in [Flow -> Handler] /\ freighterKey' = freighterKey
      BY <1>2 DEF Click, FundMember, DoClaim, ClaimAgain, DoCancelCircle, ScreenInv, TypeOK
    <3>2. ASSUME NEW m \in Member, NEW payer \in Payer, FundMember(i, m, payer)  PROVE NoNewPays
      BY <3>1, <3>2 DEF FundMember, Started, NoNewPays, WalletPays
    <3>3. ASSUME NEW m \in Member, DoClaim(i, m)  PROVE NoNewPays
      BY <3>1, <3>3 DEF DoClaim, Aborted, Started, NoNewPays, WalletPays, Handler
    <3>4. CASE ClaimAgain(i)
      BY <3>1, <3>4 DEF ClaimAgain, Started, NoNewPays, WalletPays
    <3>5. CASE DoCancelCircle(i)
      BY <3>1, <3>5 DEF DoCancelCircle, Started, NoNewPays, WalletPays
    <3>6. QED
      BY <1>2, <3>2, <3>3, <3>4, <3>5, ClaimantAssumption DEF Click
  <2>2. StepIsQuiet
    BY <1>2, <2>1, PaidDoesNotGrow
       DEF Click, FundMember, DoClaim, ClaimAgain, DoCancelCircle, chain, SameView, StepIsQuiet
  <2>3. QED
    BY <2>2, QuietKeepsPaid
<1>3. CASE ResetToLanding
  <2>1. NoNewPays
    BY <1>3 DEF ResetToLanding, Aborted, NoNewPays, WalletPays, ScreenInv, TypeOK, Handler
  <2>2. StepIsQuiet
    BY <1>3, <2>1, PaidDoesNotGrow DEF ResetToLanding, chain, SameView, StepIsQuiet
  <2>3. QED
    BY <2>2, QuietKeepsPaid
<1>4. ASSUME NEW i \in Flow,
             PrepareFund(i) \/ SubmitClaim(i) \/ SubmitCancel(i) \/ SubmitAnswered(i) \/ HasClaimed(i)
                            \/ SyncRead(i)
      PROVE  PaidInv'
  <2>1. NoNewPays
    BY <1>4 DEF PrepareFund, SubmitClaim, SubmitCancel, SubmitAnswered, HasClaimed, SyncRead, GoTo, At, Last,
       screen, NoNewPays, WalletPays, ScreenInv, TypeOK, Handler
  <2>2. StepIsQuiet
    BY <1>4, <2>1, PaidDoesNotGrow DEF PrepareFund, SubmitClaim, SubmitCancel, SubmitAnswered, HasClaimed,
       SyncRead, chain, screen, SameView, StepIsQuiet
  <2>3. QED
    BY <2>2, QuietKeepsPaid
<1>5. ASSUME NEW i \in Flow, PrepareClaim(i) \/ Throw(i) \/ ClaimAnswered(i)  PROVE PaidInv'
  <2>1. NoNewPays
    BY <1>5 DEF PrepareClaim, Throw, ClaimAnswered, GoTo, At, Return, Idle, NoFlow, NoNewPays, WalletPays,
       ScreenInv, TypeOK, Handler
  <2>2. StepIsQuiet
    BY <1>5, <2>1, PaidDoesNotGrow DEF PrepareClaim, Throw, ClaimAnswered, Return, Render, chain, SameView,
       StepIsQuiet
  <2>3. QED
    BY <2>2, QuietKeepsPaid
<1>6. ASSUME NEW i \in Flow, SyncAnswered(i)  PROVE PaidInv'
  <2>1. freighterKey' \subseteq WalletPaid /\ freighterKey \subseteq freighterKey'
    BY <1>6 DEF SyncAnswered, WalletPaid, WalletPays
  <2>2. \A j \in Flow : WalletPays(j)' => WalletPays(j) /\ flow'[j].member = flow[j].member
    BY <1>6 DEF SyncAnswered, Return, Idle, NoFlow, WalletPays, ScreenInv, TypeOK
  <2>3. WalletPaid' \subseteq WalletPaid
    BY <2>1, <2>2 DEF WalletPaid
  <2>4. SameView \/ NewView
    BY <1>6, <2>1 DEF SyncAnswered, Return, Render, SameView, NewView, ScreenInv, AllEquipped, Equipped
  <2>5. StepIsQuiet
    BY <1>6, <2>3, <2>4 DEF SyncAnswered, chain, StepIsQuiet
  <2>6. QED
    BY <2>5, QuietKeepsPaid
<1>7. ASSUME NEW i \in Flow, SubmitFund(i)  PROVE PaidInv'
  <2>1. /\ flow[i].payer \in Payer /\ circle' = Funded(flow[i].payer) /\ FundSucceeds /\ SameView
        /\ freighterKey' = freighterKey
    BY <1>7 DEF SubmitFund, At, screen, SameView, ScreenInv, AllEquipped, Equipped
  <2>2. \A j \in Flow : /\ flow'[j].member = flow[j].member
                        /\ WalletPays(j)' => WalletPays(j) \/ (j = i /\ flow[i].payer \in Freighter)
    BY <1>7 DEF SubmitFund, At, GoTo, WalletPays, ScreenInv, TypeOK, Handler
  <2>3. WalletPaid' \subseteq WalletPaid \cup {flow[i].member}
    BY <2>1, <2>2 DEF WalletPaid
  <2>4. flow[i].payer \in Member => WalletPaid' \subseteq WalletPaid
    BY <2>1, <2>2, PayerAssumption DEF WalletPaid
  <2>5. QED
    BY <2>1, <2>3, <2>4, PaymentKeepsPaid
<1>8. ASSUME NEW i \in Flow, NEW m \in Member, FundAgain(i, m)  PROVE PaidInv'
  <2>1. NoNewPays
    BY <1>8 DEF FundAgain, At, screen, NoNewPays, WalletPays, ScreenInv, TypeOK, Handler
  <2>2. m \in Payer /\ circle' = Funded(m) /\ FundSucceeds /\ SameView
    BY <1>8 DEF FundAgain, screen, SameView, Payer
  <2>3. QED
    BY <2>1, <2>2, PaidDoesNotGrow, PaymentKeepsPaid
<1>9. CASE OtherFunds
  <2>1. NoNewPays
    BY <1>9 DEF OtherFunds, screen, NoNewPays, WalletPays
  <2>2. FundSucceeds /\ SameView /\ \E payer \in Payer : circle' = Funded(payer)
    BY <1>9 DEF OtherFunds, screen, SameView, Payer
  <2>3. QED
    BY <2>1, <2>2, PaidDoesNotGrow, PaymentKeepsPaid
<1>10. ASSUME NEW j \in Request, Poll(j) \/ PollAnswered(j)  PROVE PaidInv'
  <2>1. NoNewPays
    BY <1>10 DEF Poll, PollAnswered, screen, NoNewPays, WalletPays
  <2>2. SameView \/ NewView
    BY <1>10 DEF Poll, PollAnswered, Render, screen, SameView, NewView, ScreenInv, TypeOK
  <2>3. StepIsQuiet
    BY <1>10, <2>1, <2>2, PaidDoesNotGrow DEF Poll, PollAnswered, chain, StepIsQuiet
  <2>4. QED
    BY <2>3, QuietKeepsPaid
<1>11. CASE CheckEligibilityDone \/ UNCHANGED vars
  <2>1. NoNewPays
    BY <1>11 DEF CheckEligibilityDone, vars, screen, NoNewPays, WalletPays
  <2>2. StepIsQuiet
    BY <1>11, <2>1, PaidDoesNotGrow DEF CheckEligibilityDone, vars, chain, screen, SameView, StepIsQuiet
  <2>3. QED
    BY <2>2, QuietKeepsPaid
<1>12. QED
  BY <1>1, <1>2, <1>3, <1>4, <1>5, <1>6, <1>7, <1>8, <1>9, <1>10, <1>11 DEF Next, Continue

\* For any number of members and overlapping handlers: a screen that shows the
\* pot of the first round shows no more members as funded than payments were
\* made, whichever of them came from one wallet and whatever answers were lost.
THEOREM ShownStaysPaid == Spec => []ShownIsPaid
<1>1. Init => PaidInv
  <2>1. ASSUME Init  PROVE /\ circle.pot = 0 /\ circle.contributors = {} /\ ~ circle.cancelled
                           /\ funded = {} /\ WalletPaid = {}
    BY <2>1 DEF Init, WalletPaid, WalletPays, Idle, NoFlow
  <2>2. QED
    BY <2>1, FS_EmptySet DEF PaidInv, PaymentsCover, FundedIsShown, CancelledIsEmpty
<1>2. ScreenInv /\ PaidInv => ShownIsPaid
  <2>1. SUFFICES ASSUME ScreenInv, PaidInv, shown = circle, circle.round = 0
                 PROVE  Cardinality(funded) <= circle.pot
    BY DEF ShownIsPaid
  <2> DEFINE own == Member \cap circle.contributors
  <2>2. /\ IsFiniteSet(own) /\ IsFiniteSet(WalletPaid)
        /\ Cardinality(own) \in Nat /\ Cardinality(WalletPaid) \in Nat /\ circle.pot \in Nat
    BY <2>1, PaidTypes
  <2>3. freighterKey \subseteq WalletPaid
    BY DEF WalletPaid
  <2>4. CASE circle.cancelled
    <3>1. funded = {}
      BY <2>1, <2>4 DEF PaidInv, FundedIsShown, FundedIn, CancelledIsEmpty
    <3>2. QED
      BY <2>2, <3>1, FS_EmptySet
  <2>5. CASE ~ circle.cancelled
    <3>1. funded \subseteq own \cup WalletPaid
      BY <2>1, <2>3 DEF PaidInv, FundedIsShown, FundedIn
    <3>2. Cardinality(own) + Cardinality(WalletPaid) <= circle.pot
      BY <2>1, <2>5 DEF PaidInv, PaymentsCover
    <3> HIDE DEF own
    <3>3. /\ IsFiniteSet(own \cup WalletPaid) /\ Cardinality(own \cup WalletPaid) \in Nat
          /\ Cardinality(own \cup WalletPaid) <= Cardinality(own) + Cardinality(WalletPaid)
      <4>1. /\ IsFiniteSet(own \cup WalletPaid)
            /\ Cardinality(own \cup WalletPaid)
                 = Cardinality(own) + Cardinality(WalletPaid) - Cardinality(own \cap WalletPaid)
        BY <2>2, FS_Union, Zenon
      <4>2. Cardinality(own \cap WalletPaid) \in Nat
        BY <2>2, FS_Intersection, FS_CardinalityType
      <4>3. Cardinality(own \cup WalletPaid) \in Nat
        BY <4>1, FS_CardinalityType
      <4>4. QED
        BY <2>2, <4>1, <4>2, <4>3
    <3>4. Cardinality(funded) \in Nat /\ Cardinality(funded) <= Cardinality(own \cup WalletPaid)
      BY <3>1, <3>3, FS_Subset, FS_CardinalityType
    <3>5. QED
      BY <2>2, <3>2, <3>3, <3>4
  <2>6. QED
    BY <2>4, <2>5
<1>3. QED
  BY <1>1, <1>2, PaidIsKept, ScreenStaysSound, PTL DEF Spec
=============================================================================
