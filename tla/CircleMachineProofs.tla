------------------------- MODULE CircleMachineProofs -------------------------
(* The circle machine under every order of dispatches, with any number of   *)
(* members, rounds and reads under way.                                     *)
EXTENDS CircleMachine, FiniteSetTheorems, TLAPS

\* What the machine itself has to keep, and what the chain and its reads are.
StateInv ==
  /\ state \in CircleState /\ Shape /\ WasReached(state.circle)
  /\ ReadyWasFunded /\ PayoutIsReal
WorldInv ==
  /\ chain \in Meta \cup {None} /\ contributors \in SUBSET Payer
  /\ paid \in SUBSET Proof /\ filled \in SUBSET Round
  /\ meta \in [Request -> Meta \cup {None}]
  /\ list \in [Request -> (SUBSET Payer) \cup {None}]
  /\ ReadsAreReal

LEMMA Split == MachineInv <=> StateInv /\ WorldInv
  BY DEF MachineInv, StateInv, WorldInv, TypeOK

LEMMA SizeType == Size \in Nat
  BY FS_CardinalityType, MemberAssumption DEF Size

\* A dispatch that keeps StateInv keeps everything.
LEMMA DispatchKeepsWorld ==
  ASSUME WorldInv, UNCHANGED <<world, reads>>
  PROVE  WorldInv'
  BY DEF WorldInv, world, reads, ReadsAreReal, WasReached

----------------------------------------------------------------------------

LEMMA StartKeeps ==
  ASSUME StateInv, Start, UNCHANGED world
  PROVE  StateInv'
  BY NoneAssumption DEF StateInv, Start, Plain, CircleState, Shape, WasReached,
     ReadyWasFunded, PayoutIsReal, selectCircle, world, Status, Live

LEMMA ByPotKeeps ==
  ASSUME StateInv, UNCHANGED world, state.circle # None, NEW busy \in BOOLEAN,
         state' = ByPot(state.circle, busy)
  PROVE  StateInv'
  BY NoneAssumption DEF StateInv, ByPot, Plain, CircleState, Shape, WasReached,
     ReadyWasFunded, PayoutIsReal, selectCircle, world, Status, Live

LEMMA RestoreKeeps ==
  ASSUME StateInv, UNCHANGED world, state.status = "failed", NEW busy \in BOOLEAN,
         NEW clear \in BOOLEAN, restoreFailed(busy, clear) # None,
         state' = restoreFailed(busy, clear)
  PROVE  StateInv'
  <1>1. CASE state.failedFrom = "claimed"
    BY <1>1, NoneAssumption, ZenonT(60) DEF StateInv, restoreFailed, CircleState, Shape, WasReached,
       ReadyWasFunded, PayoutIsReal, selectCircle, world, Status, Live
  <1>2. CASE state.failedFrom # "claimed"
    BY <1>2, ByPotKeeps DEF restoreFailed
  <1>3. QED BY <1>1, <1>2

\* A live or creating state in which only busy and the rejection change.
LEMMA FlagsKeep ==
  ASSUME StateInv, UNCHANGED world, state.status \in Live \cup {"creating"},
         NEW busy \in BOOLEAN, NEW rejection \in BOOLEAN,
         rejection => state.claimResult # None,
         state' = [state EXCEPT !.busy = busy, !.rejection = rejection]
  PROVE  StateInv'
  <1>1. state' \in CircleState
    BY DEF StateInv, CircleState
  <1>2. /\ state'.status = state.status /\ state'.circle = state.circle
        /\ state'.failedFrom = state.failedFrom /\ state'.proof = state.proof
        /\ state'.claimResult = state.claimResult
        /\ state'.nullifierClaimed = state.nullifierClaimed
        /\ state'.rejection = rejection
    BY DEF StateInv, CircleState
  <1>3. Shape' /\ WasReached(state.circle)'
    BY <1>2 DEF StateInv, Shape, WasReached, world, Full
  <1>4. ReadyWasFunded' /\ PayoutIsReal'
    BY <1>2 DEF StateInv, ReadyWasFunded, PayoutIsReal, selectCircle, world, Full
  <1>5. QED BY <1>1, <1>2, <1>3, <1>4 DEF StateInv, WasReached, world, Full

LEMMA SetBusyKeeps ==
  ASSUME StateInv, NEW clear \in BOOLEAN, SetBusy(clear), UNCHANGED world
  PROVE  StateInv'
  <1>1. CASE state.status = "failed"
    BY <1>1, RestoreKeeps DEF SetBusy, Live
  <1>2. CASE state.status # "failed"
    <2>1. state.rejection \in BOOLEAN /\ (state.rejection => state.claimResult # None)
      BY DEF StateInv, CircleState, PayoutIsReal, selectCircle
    <2> DEFINE rejection == state.rejection /\ ~ (state.status = "claimed" /\ clear)
    <2>2. rejection \in BOOLEAN /\ (rejection => state.claimResult # None)
      BY <2>1
    <2>3. /\ state.status \in Live \cup {"creating"}
          /\ state' = [state EXCEPT !.busy = TRUE, !.rejection = rejection]
      BY <1>2 DEF SetBusy
    <2>4. QED BY <2>2, <2>3, FlagsKeep
  <1>3. QED BY <1>1, <1>2

LEMMA RejectionKeeps ==
  ASSUME StateInv, RecordRejection, UNCHANGED world
  PROVE  StateInv'
  <1>1. state.claimResult # None /\ state.status \in Live /\ state.busy \in BOOLEAN
    BY DEF StateInv, RecordRejection, PayoutIsReal, selectCircle, Live, CircleState
  <1>2. state' = [state EXCEPT !.busy = state.busy, !.rejection = TRUE]
    BY DEF RecordRejection, StateInv, CircleState
  <1>3. QED BY <1>1, <1>2, FlagsKeep

LEMMA ClearBusyKeeps ==
  ASSUME StateInv, ClearBusy, UNCHANGED world
  PROVE  StateInv'
  <1>1. CASE state.status \in {"funding", "readyToClaim", "claimed"}
    <2>1. state.rejection \in BOOLEAN /\ (state.rejection => state.claimResult # None)
      BY DEF StateInv, CircleState, PayoutIsReal, selectCircle
    <2>2. state' = [state EXCEPT !.busy = FALSE, !.rejection = state.rejection]
      BY <1>1 DEF ClearBusy, StateInv, CircleState
    <2>3. QED BY <1>1, <2>1, <2>2, FlagsKeep DEF Live
  <1>2. CASE state.status \in {"proving", "claiming"}
    <2>1. state.circle # None /\ state' = ByPot(state.circle, FALSE)
      BY <1>2 DEF ClearBusy, StateInv, Shape, Live
    <2>2. QED BY <2>1, ByPotKeeps
  <1>3. QED BY <1>1, <1>2 DEF ClearBusy

\* An update of the circle that leaves its round and its pot alone.
LEMMA WithCircleKeeps ==
  ASSUME StateInv, UNCHANGED world, state.circle # None, NEW c \in Snapshot,
         c.round = state.circle.round, c.pot = state.circle.pot, state' = WithCircle(c)
  PROVE  StateInv'
  BY NoneAssumption DEF StateInv, WithCircle, CircleState, Shape, WasReached, Full,
     ReadyWasFunded, PayoutIsReal, selectCircle, world

LEMMA PatchKeeps ==
  ASSUME StateInv, UNCHANGED world, NEW m \in Member, NEW pending \in BOOLEAN,
         PatchPending(m, pending) \/ PatchFreighterKey(m)
  PROVE  StateInv'
  <1>1. state.circle \in Snapshot
    BY DEF StateInv, CircleState, PatchPending, PatchFreighterKey
  <1>3. CASE PatchPending(m, pending)
    <2> DEFINE s == IF pending THEN state.circle.pending \cup {m}
                               ELSE state.circle.pending \ {m}
               c == [state.circle EXCEPT !.pending = s]
    <2>1. s \in SUBSET Member /\ state.circle # None /\ state' = WithCircle(c)
      BY <1>1, <1>3 DEF PatchPending, Snapshot
    <2>2. c \in Snapshot /\ c.round = state.circle.round /\ c.pot = state.circle.pot
      BY <1>1, <2>1 DEF Snapshot
    <2>3. QED BY <2>1, <2>2, WithCircleKeeps
  <1>4. CASE PatchFreighterKey(m)
    <2> DEFINE c == [state.circle EXCEPT !.freighterKey = @ \cup {m}]
    <2>1. state.circle # None /\ state' = WithCircle(c)
      BY <1>4 DEF PatchFreighterKey
    <2>2. c \in Snapshot /\ c.round = state.circle.round /\ c.pot = state.circle.pot
      BY <1>1 DEF Snapshot
    <2>3. QED BY <2>1, <2>2, WithCircleKeeps
  <1>5. QED BY <1>3, <1>4

LEMMA SelectKeeps ==
  ASSUME StateInv, UNCHANGED world, NEW m \in Member, SelectClaimant(m)
  PROVE  StateInv'
  <1>1. state.circle # None /\ state.circle \in Snapshot
    BY DEF StateInv, CircleState, SelectClaimant, canSelectClaimant, Shape, Live
  <1>2. LET c == [state.circle EXCEPT !.claimantIndex = m] IN
          c \in Snapshot /\ c.round = state.circle.round /\ c.pot = state.circle.pot
    BY <1>1 DEF Snapshot
  <1>3. QED BY <1>1, <1>2, WithCircleKeeps DEF SelectClaimant

LEMMA BeginProveKeeps ==
  ASSUME StateInv, UNCHANGED world, BeginProve
  PROVE  StateInv'
  BY NoneAssumption DEF StateInv, BeginProve, canBeginProve, Plain, CircleState, Shape,
     WasReached, ReadyWasFunded, PayoutIsReal, selectCircle, world, Status, Live, Stage

LEMMA ProveStageKeeps ==
  ASSUME StateInv, UNCHANGED world, NEW stage \in Stage, ProveStage(stage)
  PROVE  StateInv'
  BY NoneAssumption DEF StateInv, ProveStage, CircleState, Shape,
     WasReached, ReadyWasFunded, PayoutIsReal, selectCircle, world, Status, Live, Stage

LEMMA BeginClaimKeeps ==
  ASSUME StateInv, UNCHANGED world, NEW proof \in Proof, BeginClaim(proof)
  PROVE  StateInv'
  BY NoneAssumption DEF StateInv, BeginClaim, Plain, CircleState, Shape,
     WasReached, ReadyWasFunded, PayoutIsReal, selectCircle, world, Status, Live

LEMMA ClaimedKeeps ==
  ASSUME StateInv, UNCHANGED world, paid \in SUBSET Proof, NEW claimResult \in paid,
         NEW nullifierClaimed \in BOOLEAN, Claimed(claimResult, nullifierClaimed)
  PROVE  StateInv'
  BY NoneAssumption, ZenonT(60) DEF StateInv, Claimed, Plain, CircleState, Shape,
     WasReached, ReadyWasFunded, PayoutIsReal, selectCircle, world, Status, Live

LEMMA FailKeeps ==
  ASSUME StateInv, UNCHANGED world, Fail
  PROVE  StateInv'
  <1>1. CASE state.status = "creating"
    <2>1. state' = [status |-> "failed", circle |-> None, busy |-> FALSE,
                    claimStage |-> None, proof |-> None, claimResult |-> None,
                    nullifierClaimed |-> FALSE, rejection |-> FALSE,
                    failedFrom |-> "creating"]
      BY <1>1 DEF Fail, Plain, Live
    <2>2. QED
      BY <2>1, NoneAssumption DEF StateInv, CircleState, Shape,
         WasReached, ReadyWasFunded, PayoutIsReal, selectCircle, Status, Live
  <1>2. CASE state.status \in Live
    <2>1. state.circle \in Snapshot
      BY <1>2 DEF StateInv, CircleState, Shape
    <2> DEFINE c == [state.circle EXCEPT !.pending = {}]
    <2>2. c \in Snapshot /\ c.round = state.circle.round /\ c.pot = state.circle.pot
      BY <2>1 DEF Snapshot
    <2>3. state' = [state EXCEPT !.status = "failed", !.failedFrom = state.status,
                      !.busy = FALSE, !.claimStage = None, !.circle = c]
      BY <1>2 DEF Fail, toFailedCircle, Live
    <2> HIDE DEF c
    <2>4. QED
      BY <1>2, <2>1, <2>2, <2>3, NoneAssumption, ZenonT(60) DEF StateInv, CircleState, Shape,
         WasReached, ReadyWasFunded, PayoutIsReal, selectCircle, world, Status, Live, Full
  <1>3. QED BY <1>1, <1>2 DEF Fail

LEMMA InitialKeeps ==
  ASSUME state' = initialState
  PROVE  StateInv'
  BY NoneAssumption DEF initialState, Plain, StateInv, CircleState, Shape,
     WasReached, ReadyWasFunded, PayoutIsReal, selectCircle, Status, Live

LEMMA RetryKeeps ==
  ASSUME StateInv, UNCHANGED world, Retry
  PROVE  StateInv'
  BY InitialKeeps, RestoreKeeps DEF Retry

LEMMA DispatchKeeps ==
  ASSUME MachineInv, Dispatch
  PROVE  MachineInv'
  <1>1. StateInv /\ WorldInv /\ WorldInv' /\ UNCHANGED world
    BY Split, DispatchKeepsWorld DEF Dispatch
  <1>2. Touched \subseteq Member /\ paid \in SUBSET Proof
    BY <1>1, MemberAssumption DEF WorldInv
  <1>3. StateInv'
    BY <1>1, <1>2, StartKeeps, SetBusyKeeps, PatchKeeps, SelectKeeps, BeginProveKeeps,
       ProveStageKeeps, BeginClaimKeeps, ClaimedKeeps, RejectionKeeps, ClearBusyKeeps,
       FailKeeps, RetryKeeps, InitialKeeps DEF Dispatch, Reset
  <1>4. QED BY <1>1, <1>3 DEF MachineInv, StateInv, WorldInv, TypeOK

----------------------------------------------------------------------------
(* The chain goes on and the machine does not move.                         *)

LEMMA ChainKeepsState ==
  ASSUME StateInv, chain \in Meta \cup {None}, UNCHANGED state,
         chain # None => chain' # None /\ chain'.round >= chain.round,
         chain' \in Meta \cup {None},
         paid \subseteq paid', filled \subseteq filled'
  PROVE  StateInv'
  <1>1. state.circle # None => state.circle.round \in Nat
    BY MaxRoundAssumption DEF StateInv, CircleState, Snapshot, Round
  <1>2. chain # None => chain.round \in Nat /\ chain'.round \in Nat
    BY NoneAssumption, MaxRoundAssumption DEF Meta, Round
  <1>3. WasReached(state.circle)'
    BY <1>1, <1>2 DEF StateInv, WasReached, Full
  <1>4. ReadyWasFunded'
    BY DEF StateInv, ReadyWasFunded, Full
  <1>5. PayoutIsReal'
    BY DEF StateInv, PayoutIsReal, selectCircle
  <1>6. QED BY <1>3, <1>4, <1>5 DEF StateInv, Shape

\* The reads that are held stay real, because the chain does not go back.
LEMMA ChainKeepsWorld ==
  ASSUME WorldInv, UNCHANGED reads, chain # None, chain' \in Meta,
         chain'.round >= chain.round, Full(chain') => chain'.round \in filled',
         contributors' \in SUBSET Payer, paid' \in SUBSET Proof, filled' \in SUBSET Round,
         filled \subseteq filled'
  PROVE  WorldInv'
  <1>1. chain' # None /\ chain \in Meta
    BY NoneAssumption DEF WorldInv
  <1>2. chain.round \in Nat /\ chain'.round \in Nat
    BY <1>1, MaxRoundAssumption DEF Meta, Round
  <1>3. \A j \in Request : WasReached(meta[j])'
    <2> SUFFICES ASSUME NEW j \in Request, meta[j] # None PROVE WasReached(meta[j])'
      BY DEF reads, WasReached
    <2>1. meta[j] \in Meta /\ WasReached(meta[j])
      BY DEF WorldInv, ReadsAreReal
    <2>2. meta[j].round \in Nat
      BY <2>1, MaxRoundAssumption DEF Meta, Round
    <2>3. QED BY <1>1, <1>2, <2>1, <2>2 DEF WasReached, reads, Full
  <1>4. WasReached(chain)'
    BY <1>1, <1>2 DEF WasReached, Full
  <1>5. QED BY <1>1, <1>3, <1>4 DEF WorldInv, ReadsAreReal, reads

LEMMA ChainStep ==
  ASSUME MachineInv,
         UNCHANGED <<state, reads>>, chain # None, chain' \in Meta,
         chain'.round >= chain.round, Full(chain') => chain'.round \in filled',
         contributors' \in SUBSET Payer, paid' \in SUBSET Proof, filled' \in SUBSET Round,
         filled \subseteq filled', paid \subseteq paid'
  PROVE  MachineInv'
  <1>1. StateInv /\ WorldInv
    BY Split
  <1>2. chain \in Meta \cup {None} /\ chain' # None
    BY <1>1, NoneAssumption DEF WorldInv
  <1>3. StateInv' BY <1>1, <1>2, ChainKeepsState
  <1>4. WorldInv' BY <1>1, ChainKeepsWorld
  <1>5. QED BY <1>3, <1>4 DEF MachineInv, StateInv, WorldInv, TypeOK

LEMMA FundKeeps ==
  ASSUME MachineInv, NEW payer \in Payer, Fund(payer)
  PROVE  MachineInv'
  <1>1. chain \in Meta /\ chain.pot < Size /\ chain.round \in Round /\ Size \in Nat
    BY SizeType DEF MachineInv, TypeOK, Fund, OnChain, Underfunded, Meta
  <1>2. chain' \in Meta /\ chain'.round = chain.round /\ chain.round \in Nat
    BY <1>1, MaxRoundAssumption DEF Fund, Meta, Round
  <1>3. /\ filled' = IF Full(chain') THEN filled \cup {chain.round} ELSE filled
        /\ contributors' = contributors \cup {payer} /\ paid' = paid
        /\ UNCHANGED <<state, reads>> /\ chain # None
    BY DEF Fund, OnChain
  <1>4. filled \in SUBSET Round /\ paid \in SUBSET Proof /\ contributors \in SUBSET Payer
    BY DEF MachineInv, TypeOK
  <1>5. /\ Full(chain') => chain'.round \in filled'
        /\ filled' \in SUBSET Round /\ filled \subseteq filled'
    BY <1>1, <1>2, <1>3, <1>4
  <1>6. QED BY <1>2, <1>3, <1>4, <1>5, ChainStep

\* A new round starts empty, and a circle of no members has no round to start.
LEMMA NextRoundType ==
  ASSUME MachineInv, OnChain, NextRound
  PROVE  /\ chain' \in Meta /\ ~ Full(chain') /\ chain.round \in Nat
         /\ chain'.round >= chain.round /\ contributors' = {}
  <1>1. chain \in Meta /\ chain.round \in Round /\ Size \in Nat
    BY SizeType DEF MachineInv, TypeOK, OnChain, Meta
  <1>2. chain.round \in Nat /\ chain.round < MaxRound
    BY <1>1, MaxRoundAssumption DEF Round, NextRound
  <1>3. Size # 0
    BY MemberAssumption, FS_EmptySet DEF Size
  <1>4. /\ chain' = [round |-> chain.round + 1, pot |-> 0, cancelled |-> chain.cancelled]
        /\ contributors' = {}
    BY <1>1 DEF NextRound, Meta
  <1>5. 0 \in 0 .. Size /\ chain.round + 1 \in 0 .. MaxRound /\ chain.cancelled \in BOOLEAN
    BY <1>1, <1>2, MaxRoundAssumption DEF Meta
  <1>6. chain' \in Meta
    BY <1>4, <1>5 DEF Meta, Round
  <1>7. QED BY <1>2, <1>3, <1>4, <1>6 DEF Full

LEMMA PayOutKeeps ==
  ASSUME MachineInv, NEW m \in Touched, PayOut(m)
  PROVE  MachineInv'
  <1>1. /\ chain' \in Meta /\ ~ Full(chain') /\ chain'.round >= chain.round
        /\ contributors' = {}
    BY NextRoundType DEF PayOut
  <1>2. chain # None /\ chain.round \in Round /\ chain \in Meta
    BY DEF MachineInv, TypeOK, PayOut, OnChain, Meta
  <1>3. paid' = paid \cup {<<m, chain.round>>} /\ UNCHANGED <<state, filled, reads>>
    BY DEF PayOut
  <1>4. paid' \in SUBSET Proof /\ paid \subseteq paid' /\ filled' \in SUBSET Round
    BY <1>2, <1>3 DEF MachineInv, TypeOK, Proof
  <1>5. QED BY <1>1, <1>2, <1>3, <1>4, ChainStep

LEMMA EndKeeps ==
  ASSUME MachineInv, ExpireRound \/ CancelCircle
  PROVE  MachineInv'
  <1>1. chain # None /\ chain \in Meta /\ chain.round \in Round /\ chain.round \in Nat
    BY MaxRoundAssumption DEF MachineInv, TypeOK, ExpireRound, CancelCircle, OnChain, Meta, Round
  <1>2. UNCHANGED <<state, paid, filled, reads>>
    BY DEF ExpireRound, CancelCircle
  <1>3. paid' \in SUBSET Proof /\ filled' \in SUBSET Round
    BY <1>2 DEF MachineInv, TypeOK
  <1>4. /\ chain' \in Meta /\ ~ Full(chain') /\ chain'.round >= chain.round
        /\ contributors' = {}
    <2>1. CASE ExpireRound
      BY <2>1, NextRoundType DEF ExpireRound
    <2>2. CASE CancelCircle
      <3>1. /\ chain' = [round |-> chain.round, pot |-> 0, cancelled |-> TRUE]
            /\ contributors' = {}
        BY <1>1, <2>2 DEF CancelCircle, Meta
      <3>2. Size # 0 /\ Size \in Nat
        BY MemberAssumption, FS_EmptySet, SizeType DEF Size
      <3>3. chain' \in Meta
        BY <1>1, <3>1, <3>2 DEF Meta
      <3>4. QED BY <1>1, <3>1, <3>2, <3>3 DEF Full
    <2>3. QED BY <2>1, <2>2
  <1>5. QED BY <1>1, <1>2, <1>3, <1>4, ChainStep

LEMMA FreshType ==
  ASSUME NEW m \in Member
  PROVE  Fresh(m) \in Snapshot /\ Fresh(m).round = 0 /\ Fresh(m).pot = 0
  <1>1. 0 \in 0 .. Size /\ 0 \in Round
    BY SizeType, MaxRoundAssumption DEF Round
  <1>2. {} \in SUBSET Payer /\ {} \in SUBSET Member
    OBVIOUS
  <1>3. QED BY <1>1, <1>2 DEF Fresh, Snapshot

LEMMA CreateKeeps ==
  ASSUME MachineInv, CreateCircle
  PROVE  MachineInv'
  <1>1. PICK m \in Touched : Created(Fresh(m))
    BY DEF CreateCircle
  <1>2. Size \in Nat /\ Size # 0 /\ m \in Member
    BY MemberAssumption, FS_EmptySet, SizeType DEF Size
  <1>3. /\ chain' = [round |-> 0, pot |-> 0, cancelled |-> FALSE]
        /\ chain = None /\ UNCHANGED <<contributors, paid, filled, reads>>
    BY DEF CreateCircle
  <1>4. chain' \in Meta /\ chain' # None /\ ~ Full(chain') /\ chain'.round = 0
    <2>1. 0 \in 0 .. Size /\ 0 \in 0 .. MaxRound
      BY <1>2, MaxRoundAssumption
    <2>2. chain' \in Meta
      BY <1>3, <2>1 DEF Meta, Round
    <2>3. QED BY <1>2, <1>3, <2>2, NoneAssumption DEF Full
  <1>5. Fresh(m) \in Snapshot /\ Fresh(m).round = 0 /\ ~ Full(Fresh(m))
    BY <1>2, FreshType DEF Full
  <1>6. state' = Plain("funding", Fresh(m), FALSE)
    BY <1>1 DEF Created
  <1> HIDE DEF Fresh
  <1>7. StateInv'
    BY <1>3, <1>4, <1>5, <1>6, NoneAssumption DEF StateInv, Plain, CircleState, Shape,
       WasReached, ReadyWasFunded, PayoutIsReal, selectCircle, Status, Live, Full
  <1>8. \A j \in Request : meta[j] = None
    BY <1>3 DEF MachineInv, ReadsAreReal, WasReached
  <1>9. ReadsAreReal'
    BY <1>3, <1>4, <1>8 DEF ReadsAreReal, WasReached, reads, Full
  <1>10. WorldInv'
    BY <1>3, <1>4, <1>9 DEF MachineInv, TypeOK, WorldInv, reads
  <1>11. QED BY <1>7, <1>10 DEF MachineInv, StateInv, WorldInv, TypeOK

----------------------------------------------------------------------------
(* Reads, and what is made of them.                                         *)

LEMMA ReadKeeps ==
  ASSUME MachineInv, NEW j \in Request, ReadMeta(j) \/ ReadContributors(j)
  PROVE  MachineInv'
  <1>1. StateInv /\ WorldInv /\ UNCHANGED <<state, world>>
    BY Split DEF ReadMeta, ReadContributors
  <1>2. StateInv'
    BY <1>1 DEF StateInv, Shape, WasReached, ReadyWasFunded, PayoutIsReal, selectCircle,
       world, Full
  <1>3. /\ meta' \in [Request -> Meta \cup {None}]
        /\ list' \in [Request -> (SUBSET Payer) \cup {None}]
    BY <1>1 DEF WorldInv, ReadMeta, ReadContributors
  <1>4. ASSUME NEW i \in Request PROVE meta'[i] = meta[i] \/ meta'[i] = chain
    BY <1>1 DEF WorldInv, ReadMeta, ReadContributors
  <1>5. ReadsAreReal'
    BY <1>1, <1>4 DEF WorldInv, ReadsAreReal, WasReached, world, Full
  <1>6. WorldInv'
    BY <1>1, <1>3, <1>5 DEF WorldInv, world
  <1>7. QED BY <1>2, <1>6 DEF MachineInv, StateInv, WorldInv, TypeOK

LEMMA ContributorsType ==
  ASSUME NEW circle \in Snapshot, NEW payers \in SUBSET Payer,
         NEW f \in SUBSET Member, NEW p \in SUBSET Member
  PROVE  [circle EXCEPT !.pending = p, !.onChainContributors = payers, !.funded = f] \in Snapshot
  <1>1. [circle EXCEPT !.pending = p] \in Snapshot
    BY DEF Snapshot
  <1>2. \A c \in Snapshot : [c EXCEPT !.onChainContributors = payers] \in Snapshot
    BY DEF Snapshot
  <1>3. \A c \in Snapshot : [c EXCEPT !.funded = f] \in Snapshot
    BY DEF Snapshot
  <1>4. [circle EXCEPT !.pending = p, !.onChainContributors = payers, !.funded = f]
          = [[[circle EXCEPT !.pending = p] EXCEPT !.onChainContributors = payers]
               EXCEPT !.funded = f]
    OBVIOUS
  <1>5. QED BY <1>1, <1>2, <1>3, <1>4

LEMMA SyncedType ==
  ASSUME NEW circle \in Snapshot, NEW m \in Meta, NEW payers \in (SUBSET Payer) \cup {None},
         NEW withCancelled \in BOOLEAN
  PROVE  LET synced == syncedSnapshot(circle, m, payers, withCancelled) IN
         synced \in Snapshot /\ synced.round = m.round /\ synced.pot = m.pot
  <1> DEFINE c == IF payers = None THEN circle ELSE applyContributors(circle, payers)
             flag == IF withCancelled THEN m.cancelled ELSE circle.cancelled
  <1>1. c \in Snapshot
    <2>1. CASE payers = None BY <2>1
    <2>2. CASE payers # None
      <3> DEFINE f == {q \in Member : q \in payers \/ (q \in circle.freighterKey /\ Wallet \cap payers # {})}
      <3>1. f \in SUBSET Member /\ payers \in SUBSET Payer /\ {} \in SUBSET Member
        BY <2>2
      <3>2. c = [circle EXCEPT !.pending = {}, !.onChainContributors = payers, !.funded = f]
        BY <2>2 DEF applyContributors
      <3>3. [circle EXCEPT !.pending = {}, !.onChainContributors = payers, !.funded = f] \in Snapshot
        BY <3>1, ContributorsType
      <3> HIDE DEF f, c
      <3>4. QED BY <3>2, <3>3
    <2>3. QED BY <2>1, <2>2
  <1>2. flag \in BOOLEAN /\ m.round \in Round /\ m.pot \in 0 .. Size
    BY DEF Meta, Snapshot
  <1>3. syncedSnapshot(circle, m, payers, withCancelled)
          = [c EXCEPT !.round = m.round, !.pot = m.pot, !.cancelled = flag]
    BY DEF syncedSnapshot
  <1> HIDE DEF c, flag
  <1>4. QED BY <1>1, <1>2, <1>3 DEF Snapshot

LEMMA SyncKeeps ==
  ASSUME StateInv, UNCHANGED world, NEW m \in Meta, WasReached(m),
         NEW payers \in (SUBSET Payer) \cup {None}, NEW withCancelled \in BOOLEAN,
         SyncChain(m, payers, withCancelled)
  PROVE  StateInv'
  <1>1. CASE UNCHANGED state
    BY <1>1 DEF StateInv, Shape, WasReached, ReadyWasFunded, PayoutIsReal, selectCircle,
       world, Full
  <1>2. CASE ~ (state.circle = None \/ IsStale(m))
    <2> DEFINE c == syncedSnapshot(state.circle, m, payers, withCancelled)
    <2>1. state.circle \in Snapshot /\ state.circle # None /\ m # None
      BY <1>2, NoneAssumption DEF StateInv, CircleState
    <2>2. c \in Snapshot /\ c.round = m.round /\ c.pot = m.pot
      BY <2>1, SyncedType
    <2> HIDE DEF c
    <2>3. WasReached(c) /\ c # None
      BY <2>1, <2>2, NoneAssumption DEF WasReached, Full
    <2>4. CASE state.status \in {"funding", "readyToClaim"}
      <3> DEFINE status == IF Full(c) THEN "readyToClaim" ELSE "funding"
      <3>1. state' = [state EXCEPT !.circle = c, !.status = status]
        BY <1>2, <2>4 DEF SyncChain, c
      <3>2. /\ state'.circle = c /\ state'.status = status
            /\ state'.failedFrom = state.failedFrom /\ state'.proof = state.proof
            /\ state'.claimResult = state.claimResult
            /\ state'.nullifierClaimed = state.nullifierClaimed
            /\ state'.rejection = state.rejection
        BY <3>1 DEF StateInv, CircleState
      <3>3. state' \in CircleState
        BY <2>2, <3>1, ZenonT(60) DEF StateInv, CircleState, Status, Live
      <3> HIDE DEF status
      <3>4. status \in {"funding", "readyToClaim"} /\ (status = "readyToClaim" <=> Full(c))
        BY DEF status
      <3>5. Shape'
        BY <2>3, <2>4, <3>2, <3>4 DEF StateInv, Shape, Live
      <3>6. WasReached(state.circle)' /\ ReadyWasFunded'
        BY <2>3, <3>2, <3>4 DEF WasReached, ReadyWasFunded, world, Full
      <3>7. PayoutIsReal'
        BY <2>4, <3>2, <3>4 DEF StateInv, PayoutIsReal, selectCircle, world
      <3>8. QED BY <3>3, <3>5, <3>6, <3>7 DEF StateInv
    <2>5. CASE state.status \notin {"funding", "readyToClaim"}
      <3>1. state' = [state EXCEPT !.circle = c]
        BY <1>2, <2>5 DEF SyncChain, c, WithCircle
      <3>2. /\ state'.circle = c /\ state'.status = state.status
            /\ state'.failedFrom = state.failedFrom /\ state'.proof = state.proof
            /\ state'.claimResult = state.claimResult
            /\ state'.nullifierClaimed = state.nullifierClaimed
            /\ state'.rejection = state.rejection
        BY <3>1 DEF StateInv, CircleState
      <3>3. state' \in CircleState
        BY <2>2, <3>1 DEF StateInv, CircleState
      <3>4. Shape' /\ ReadyWasFunded'
        BY <2>1, <2>3, <2>5, <3>2 DEF StateInv, Shape, ReadyWasFunded
      <3>5. WasReached(state.circle)'
        BY <2>3, <3>2 DEF WasReached, world, Full
      <3>6. PayoutIsReal'
        BY <2>1, <2>3, <3>2 DEF StateInv, PayoutIsReal, selectCircle, world
      <3>7. QED BY <3>3, <3>4, <3>5, <3>6 DEF StateInv
    <2>6. QED BY <2>4, <2>5
  <1>3. QED BY <1>1, <1>2 DEF SyncChain

LEMMA DeliverKeeps ==
  ASSUME MachineInv, NEW j \in Request, Deliver(j)
  PROVE  MachineInv'
  <1>1. StateInv /\ WorldInv /\ UNCHANGED world /\ meta[j] # None
    BY Split DEF Deliver
  <1>2. PICK withCancelled \in BOOLEAN : SyncChain(meta[j], list[j], withCancelled)
    BY DEF Deliver
  <1>3. /\ meta[j] \in Meta /\ WasReached(meta[j]) /\ list[j] \in (SUBSET Payer) \cup {None}
    BY <1>1 DEF WorldInv, ReadsAreReal
  <1>4. StateInv'
    BY <1>1, <1>2, <1>3, SyncKeeps
  <1>5. /\ meta' = [meta EXCEPT ![j] = None] /\ list' = [list EXCEPT ![j] = None]
    BY DEF Deliver
  <1>6. ReadsAreReal'
    BY <1>1, <1>5 DEF WorldInv, ReadsAreReal, WasReached, world, Full
  <1>7. WorldInv'
    BY <1>1, <1>5, <1>6 DEF WorldInv, world
  <1>8. QED BY <1>4, <1>7 DEF MachineInv, StateInv, WorldInv, TypeOK

LEMMA ResumeKeeps ==
  ASSUME StateInv, UNCHANGED world, paid \in SUBSET Proof,
         NEW c \in Snapshot, WasReached(c), c # None,
         NEW proof \in Proof \cup {None}, NEW claimResult \in paid \cup {None},
         NEW nullifierClaimed \in BOOLEAN, NEW rejection \in BOOLEAN,
         Resume(c, proof, claimResult, nullifierClaimed, rejection)
  PROVE  StateInv'
  <1>1. CASE claimResult # None /\ proof # None
    <2>1. state' = [status |-> "claimed", circle |-> c, busy |-> FALSE,
                    claimStage |-> None, proof |-> proof, claimResult |-> claimResult,
                    nullifierClaimed |-> nullifierClaimed, rejection |-> rejection,
                    failedFrom |-> None]
      BY <1>1 DEF Resume, Plain
    <2>2. QED
      BY <1>1, <2>1, NoneAssumption DEF StateInv, CircleState, Shape, WasReached,
         ReadyWasFunded, PayoutIsReal, selectCircle, world, Status, Live, Full
  <1>2. CASE ~ (claimResult # None /\ proof # None)
    <2>1. state' = Plain(IF Full(c) THEN "readyToClaim" ELSE "funding", c, FALSE)
      BY <1>2 DEF Resume, ByPot
    <2>2. QED
      BY <2>1, NoneAssumption DEF StateInv, Plain, CircleState, Shape, WasReached,
         ReadyWasFunded, PayoutIsReal, selectCircle, world, Status, Live, Full
  <1>3. QED BY <1>1, <1>2

LEMMA ResumeSavedKeeps ==
  ASSUME MachineInv, ResumeSaved
  PROVE  MachineInv'
  <1>1. StateInv /\ WorldInv /\ UNCHANGED <<world, reads>> /\ chain # None
    BY Split DEF ResumeSaved
  <1>2. PICK m \in Touched, proof \in Proof \cup {None}, claimResult \in paid \cup {None},
             nullifierClaimed, rejection \in BOOLEAN :
           Resume(syncedSnapshot(Fresh(m), chain, contributors, TRUE), proof, claimResult,
                  nullifierClaimed, rejection)
    BY DEF ResumeSaved
  <1> DEFINE c == syncedSnapshot(Fresh(m), chain, contributors, TRUE)
  <1>3. Fresh(m) \in Snapshot
    BY MemberAssumption, FreshType
  <1>4. chain \in Meta /\ WasReached(chain) /\ contributors \in (SUBSET Payer) \cup {None}
    BY <1>1 DEF WorldInv, ReadsAreReal
  <1>5. c \in Snapshot /\ c.round = chain.round /\ c.pot = chain.pot
    BY <1>3, <1>4, SyncedType
  <1>6. Resume(c, proof, claimResult, nullifierClaimed, rejection)
    BY <1>2
  <1> HIDE DEF c
  <1>7. WasReached(c) /\ c # None
    BY <1>1, <1>4, <1>5, NoneAssumption DEF WasReached, Full
  <1>8. paid \in SUBSET Proof /\ UNCHANGED world
    BY <1>1 DEF WorldInv
  <1>9. StateInv'
    BY <1>1, <1>5, <1>6, <1>7, <1>8, ResumeKeeps
  <1>10. WorldInv'
    BY <1>1, DispatchKeepsWorld
  <1>11. QED BY <1>9, <1>10 DEF MachineInv, StateInv, WorldInv, TypeOK

----------------------------------------------------------------------------

LEMMA InitKeeps == Init => MachineInv
  <1> SUFFICES ASSUME Init PROVE MachineInv
    OBVIOUS
  <1>1. state \in CircleState /\ Shape /\ ReadyWasFunded /\ PayoutIsReal
    BY NoneAssumption DEF Init, initialState, Plain, CircleState, Shape, ReadyWasFunded,
       PayoutIsReal, selectCircle, Status, Live
  <1>2. ReadsAreReal /\ WasReached(state.circle)
    BY DEF Init, initialState, Plain, ReadsAreReal, WasReached
  <1>3. TypeOK
    BY <1>1 DEF Init, TypeOK
  <1>4. QED BY <1>1, <1>2, <1>3 DEF MachineInv

LEMMA NextKeeps == MachineInv /\ [Next]_vars => MachineInv'
  <1> SUFFICES ASSUME MachineInv, [Next]_vars PROVE MachineInv'
    OBVIOUS
  <1>1. CASE Dispatch
    BY <1>1, DispatchKeeps
  <1>2. CASE CreateCircle
    BY <1>2, CreateKeeps
  <1>3. CASE \E payer \in Payer : Fund(payer)
    BY <1>3, FundKeeps
  <1>4. CASE \E m \in Touched : PayOut(m)
    BY <1>4, PayOutKeeps
  <1>5. CASE ExpireRound \/ CancelCircle
    BY <1>5, EndKeeps
  <1>6. CASE ResumeSaved \/ \E j \in Request : ReadMeta(j) \/ ReadContributors(j) \/ Deliver(j)
    BY <1>6, ReadKeeps, DeliverKeeps, ResumeSavedKeeps
  <1>7. CASE UNCHANGED vars
    BY <1>7 DEF vars, world, reads, MachineInv, TypeOK, Shape, ReadsAreReal, WasReached,
       ReadyWasFunded, PayoutIsReal, selectCircle, Full
  <1>8. QED BY <1>1, <1>2, <1>3, <1>4, <1>5, <1>6, <1>7 DEF Next

\* Whatever is dispatched and whatever the chain and its reads do, the machine
\* keeps its shape, and what it says of the pot and of a payout was so.
THEOREM MachineIsSound == Spec => []MachineInv
  <1>1. QED BY InitKeeps, NextKeeps, PTL DEF Spec

\* The claim is offered only for a pot that was full in the round shown.
THEOREM ReadyWasFundedHolds == Spec => []ReadyWasFunded
  <1>1. MachineInv => ReadyWasFunded
    BY DEF MachineInv
  <1>2. QED BY <1>1, MachineIsSound, PTL

\* What the interface shows of a payout was paid out on the chain.
THEOREM PayoutIsRealHolds == Spec => []PayoutIsReal
  <1>1. MachineInv => PayoutIsReal
    BY DEF MachineInv
  <1>2. QED BY <1>1, MachineIsSound, PTL

\* The machine, the chain and the reads keep their types.
THEOREM MachineTypeHolds == Spec => []TypeOK
  <1>1. MachineInv => TypeOK
    BY DEF MachineInv
  <1>2. QED BY <1>1, MachineIsSound, PTL

\* Every failure can be retried: it has no circle, or what restoring needs.
THEOREM FailureCanBeRetriedHolds == Spec => []FailureCanBeRetried
  <1>1. MachineInv => FailureCanBeRetried
    <2> SUFFICES ASSUME MachineInv, state.status = "failed", state.circle # None
                 PROVE  restoreFailed(FALSE, FALSE) # None
      BY DEF FailureCanBeRetried
    <2>1. CASE state.failedFrom = "claimed"
      <3>1. state.claimResult # None /\ state.proof # None
        BY <2>1 DEF MachineInv, Shape, PayoutIsReal, selectCircle
      <3>2. state.rejection \in BOOLEAN /\ state \in CircleState
        BY DEF MachineInv, TypeOK, CircleState
      <3> DEFINE s == [state EXCEPT !.status = "claimed", !.busy = FALSE, !.failedFrom = None,
                                    !.rejection = @ /\ ~ FALSE]
      <3>3. s \in CircleState
        BY <3>2, ZenonT(60) DEF CircleState, Status, Live
      <3>4. restoreFailed(FALSE, FALSE) = s
        BY <2>1, <3>1 DEF restoreFailed
      <3>5. QED BY <3>3, <3>4, NoneAssumption
    <2>2. CASE state.failedFrom # "claimed"
      <3>1. state.circle \in Snapshot
        BY DEF MachineInv, TypeOK, CircleState
      <3>2. ByPot(state.circle, FALSE) \in CircleState
        BY <3>1 DEF ByPot, Plain, CircleState, Status, Live
      <3>3. QED BY <2>2, <3>2, NoneAssumption DEF restoreFailed
    <2>3. QED BY <2>1, <2>2
  <1>2. QED BY <1>1, MachineIsSound, PTL

----------------------------------------------------------------------------

\* No answer, failure or retry takes the machine back to an earlier round.
THEOREM RoundNeverGoesBackHolds == Spec => RoundNeverGoesBack
  <1> DEFINE Forward == state.circle # None /\ state'.circle # None
                          => state'.circle.round >= state.circle.round
  <1>1. MachineInv /\ [Next]_vars => Forward
    <2> SUFFICES ASSUME MachineInv, [Next]_vars,
                        state.circle # None, state'.circle # None
                 PROVE  state'.circle.round >= state.circle.round
      OBVIOUS
    <2>1. state \in CircleState /\ state.circle \in Snapshot /\ state.circle.round \in Nat
      BY MaxRoundAssumption DEF MachineInv, TypeOK, CircleState, Snapshot, Round
    <2>2. \A busy, clear \in BOOLEAN :
            /\ ByPot(state.circle, busy).circle = state.circle
            /\ restoreFailed(busy, clear) # None
                 => restoreFailed(busy, clear).circle = state.circle
      BY <2>1 DEF restoreFailed, ByPot, Plain, CircleState
    <2>3. ASSUME Dispatch PROVE state'.circle.round = state.circle.round
      <3>1. CASE Start \/ \E clear \in BOOLEAN : SetBusy(clear)
        BY <2>1, <2>2, <3>1 DEF Start, SetBusy, Plain, CircleState, Live, MachineInv, Shape
      <3>2. CASE \/ \E m \in Touched, pending \in BOOLEAN : PatchPending(m, pending)
                 \/ \E m \in Touched : PatchFreighterKey(m) \/ SelectClaimant(m)
        BY <2>1, <3>2 DEF PatchPending, PatchFreighterKey, SelectClaimant, WithCircle,
           CircleState, Snapshot
      <3>3. CASE \/ BeginProve \/ RecordRejection
                 \/ \E stage \in Stage : ProveStage(stage)
                 \/ \E proof \in Proof : BeginClaim(proof)
                 \/ \E claimResult \in paid, nullifierClaimed \in BOOLEAN :
                      Claimed(claimResult, nullifierClaimed)
        BY <2>1, <3>3 DEF BeginProve, RecordRejection, ProveStage, BeginClaim, Claimed, Plain,
           CircleState
      <3>4. CASE ClearBusy \/ Retry
        BY <2>1, <2>2, <3>4 DEF ClearBusy, Retry, CircleState
      <3>5. CASE Fail
        <4> DEFINE c == [state.circle EXCEPT !.pending = {}]
        <4>1. c.round = state.circle.round
          BY <2>1 DEF Snapshot
        <4>2. state' = [state EXCEPT !.status = "failed", !.failedFrom = state.status,
                          !.busy = FALSE, !.claimStage = None, !.circle = c]
          BY <3>5 DEF Fail, toFailedCircle, Plain
        <4> HIDE DEF c
        <4>3. state'.circle = c
          BY <2>1, <4>2 DEF CircleState
        <4>4. QED BY <4>1, <4>3
      <3>6. CASE Reset
        BY <3>6 DEF Reset, initialState, Plain
      <3>7. QED BY <3>1, <3>2, <3>3, <3>4, <3>5, <3>6, Dispatch DEF Dispatch
    <2>4. ASSUME NEW j \in Request, Deliver(j)
          PROVE  state'.circle.round >= state.circle.round
      <3>1. PICK withCancelled \in BOOLEAN : SyncChain(meta[j], list[j], withCancelled)
        BY <2>4 DEF Deliver
      <3>2. meta[j] \in Meta /\ list[j] \in (SUBSET Payer) \cup {None}
        BY <2>4, NoneAssumption DEF Deliver, MachineInv, TypeOK
      <3>3. meta[j].round \in Nat
        BY <3>2, MaxRoundAssumption DEF Meta, Round
      <3>4. syncedSnapshot(state.circle, meta[j], list[j], withCancelled).round = meta[j].round
        BY <2>1, <3>2, SyncedType
      <3> DEFINE c == syncedSnapshot(state.circle, meta[j], list[j], withCancelled)
      <3>5. CASE IsStale(meta[j])
        BY <2>1, <3>1, <3>5 DEF SyncChain
      <3>6. CASE ~ IsStale(meta[j])
        <4>1. meta[j].round >= state.circle.round
          BY <2>1, <3>3, <3>6 DEF IsStale
        <4> HIDE DEF c
        <4>2. state'.circle = c
          BY <2>1, <3>1, <3>6 DEF SyncChain, WithCircle, CircleState, c
        <4>3. QED BY <3>4, <4>1, <4>2 DEF c
      <3>7. QED BY <3>5, <3>6
    <2>5. CASE CreateCircle
      BY <2>5 DEF CreateCircle, Created, MachineInv, Shape, Live
    <2>6. CASE ResumeSaved
      BY <2>6 DEF ResumeSaved, Resume, MachineInv, Shape, Live
    <2>7. CASE UNCHANGED state
      BY <2>1, <2>7
    <2>8. QED
      <3>1. CASE Dispatch
        BY <2>1, <2>3, <3>1
      <3>2. CASE ~ Dispatch
        BY <2>4, <2>5, <2>6, <2>7, <3>2 DEF Next, Fund, PayOut, ExpireRound, CancelCircle,
           ReadMeta, ReadContributors, vars
      <3>3. QED BY <3>1, <3>2
  <1>2. QED BY <1>1, MachineIsSound, PTL DEF Spec, RoundNeverGoesBack

\* A payout that is shown stays until the user leaves the circle.
THEOREM PayoutIsKeptHolds == Spec => PayoutIsKept
  <1> DEFINE Kept == state.claimResult # None
                       => state'.claimResult = state.claimResult \/ state' = initialState
  <1>1. MachineInv /\ [Next]_vars => Kept
    <2> SUFFICES ASSUME MachineInv, [Next]_vars, state.claimResult # None,
                        state' # initialState
                 PROVE  state'.claimResult = state.claimResult
      OBVIOUS
    <2>1. /\ state \in CircleState /\ state.circle # None
          /\ \/ state.status = "claimed"
             \/ state.status = "failed" /\ state.failedFrom = "claimed"
      BY DEF MachineInv, TypeOK, PayoutIsReal, Shape, selectCircle, Live
    <2>2. \A busy, clear \in BOOLEAN : restoreFailed(busy, clear) # None
            /\ state.failedFrom = "claimed"
              => restoreFailed(busy, clear).claimResult = state.claimResult
      BY <2>1 DEF restoreFailed, CircleState
    <2>3. ASSUME Dispatch PROVE state'.claimResult = state.claimResult
      <3>1. CASE \/ Start \/ BeginProve \/ Reset
                 \/ \E stage \in Stage : ProveStage(stage)
                 \/ \E proof \in Proof : BeginClaim(proof)
                 \/ \E claimResult \in paid, nullifierClaimed \in BOOLEAN :
                      Claimed(claimResult, nullifierClaimed)
        BY <2>1, <3>1 DEF Start, BeginProve, canBeginProve, Reset, ProveStage, BeginClaim, Claimed
      <3>2. CASE \/ \E m \in Touched, pending \in BOOLEAN : PatchPending(m, pending)
                 \/ \E m \in Touched : PatchFreighterKey(m) \/ SelectClaimant(m)
                 \/ RecordRejection
        BY <2>1, <3>2 DEF PatchPending, PatchFreighterKey, SelectClaimant, canSelectClaimant,
           WithCircle, RecordRejection, CircleState
      <3>3. CASE (\E clear \in BOOLEAN : SetBusy(clear)) \/ Retry
        BY <2>1, <2>2, <3>3 DEF SetBusy, Retry, CircleState, Live
      <3>4. CASE ClearBusy
        BY <2>1, <3>4 DEF ClearBusy, CircleState
      <3>5. CASE Fail
        BY <2>1, <3>5 DEF Fail, toFailedCircle, CircleState, Live
      <3>6. QED BY <3>1, <3>2, <3>3, <3>4, <3>5, Dispatch DEF Dispatch
    <2>4. ASSUME NEW j \in Request, Deliver(j)
          PROVE  state'.claimResult = state.claimResult
      <3>1. PICK withCancelled \in BOOLEAN : SyncChain(meta[j], list[j], withCancelled)
        BY <2>4 DEF Deliver
      <3>2. QED BY <2>1, <3>1 DEF SyncChain, WithCircle, CircleState
    <2>5. CASE CreateCircle \/ ResumeSaved
      BY <2>1, <2>5 DEF CreateCircle, Created, ResumeSaved, Resume
    <2>6. CASE UNCHANGED state
      BY <2>6
    <2>7. QED
      BY <2>3, <2>4, <2>5, <2>6 DEF Next, Fund, PayOut, ExpireRound, CancelCircle,
         ReadMeta, ReadContributors, vars
  <1>2. QED BY <1>1, MachineIsSound, PTL DEF Spec, PayoutIsKept

=============================================================================
