---------------------------- MODULE CircleMachine ----------------------------
(***************************************************************************)
(* The reducer of the circle flow (app/src/state/circleMachine.ts) under   *)
(* every order of dispatches, next to one circle on the chain.  Whoever    *)
(* dispatches may do so at any time; what it tells the reducer was true    *)
(* when it learned it: a payout happened, a read was answered by some      *)
(* ledger of the past.  A dispatch the reducer rejects leaves the state as *)
(* it is (production), so it is not a step.  Fee estimates, eligibility     *)
(* marks, timings and texts are left out: no operation reads them.         *)
(***************************************************************************)
EXTENDS Naturals, FiniteSets

CONSTANTS
  Member,      \* members of the circle, each with a key of its own
  Wallet,      \* the account in the browser's wallet, if there is one
  Payer,       \* bound: accounts that pay into the circle
  None,        \* a field that is absent or null
  Touched,     \* bound: members that dispatches are about
  Request,     \* bound: reads of the chain under way at the same time
  MaxRound     \* bound: the round in which the chain stops

ASSUME MemberAssumption ==
  /\ IsFiniteSet(Member) /\ Member \cap Wallet = {}
  /\ Touched \subseteq Member /\ Touched # {}
ASSUME MaxRoundAssumption == MaxRound \in Nat

Size  == Cardinality(Member)      \* CIRCLE_SIZE, in contributions
Round == 0 .. MaxRound
Proof == Touched \X Round         \* whose claim for which round

\* What the chain has of a circle, and what the reducer keeps of it.
Meta     == [round : Round, pot : 0 .. Size, cancelled : BOOLEAN]
Snapshot == [round : Round, pot : 0 .. Size, cancelled : BOOLEAN,
             onChainContributors : SUBSET Payer, funded : SUBSET Member,
             pending : SUBSET Member, freighterKey : SUBSET Member, claimantIndex : Member]

\* A live circle is in one of these.
Live   == {"funding", "readyToClaim", "proving", "claiming", "claimed"}
Status == Live \cup {"idle", "creating", "failed"}
Stage  == {"artifacts", "proving"}   \* two of the four nothing tells apart

\* The tagged union with every field; a field its status lacks is None or FALSE.
CircleState == [status : Status, circle : Snapshot \cup {None}, busy : BOOLEAN,
                claimStage : Stage \cup {"submitting", None}, proof : Proof \cup {None},
                claimResult : Proof \cup {None}, nullifierClaimed : BOOLEAN,
                rejection : BOOLEAN, failedFrom : Status \cup {None}]

ASSUME NoneAssumption ==
  /\ None \notin CircleState /\ None \notin Snapshot /\ None \notin Meta
  /\ None \notin Proof
  /\ \A payers \in SUBSET Payer : None # payers
  /\ None \notin Status \cup Stage \cup {"submitting"}

VARIABLES
  state,           \* the reducer's state
  chain,           \* round, pot and cancelled of the circle, None before it exists
  contributors,    \* the contributors of its round
  paid,            \* the claims that were paid out
  filled,          \* history: rounds whose pot was full at some time
  meta, list       \* what each request has read: get_circle_meta, get_contributors

world == <<chain, contributors, paid, filled>>
reads == <<meta, list>>
vars  == <<state, world, reads>>

Full(c) == c.pot = Size

----------------------------------------------------------------------------
(* The reducer.                                                            *)

\* A state with only a status and a circle: what {...snapshotOf(s)} leaves.
Plain(status, circle, busy) ==
  [status |-> status, circle |-> circle, busy |-> busy, claimStage |-> None, proof |-> None,
   claimResult |-> None, nullifierClaimed |-> FALSE, rejection |-> FALSE, failedFrom |-> None]

initialState == Plain("idle", None, FALSE)

\* Where a circle without a claim belongs: ready exactly when its pot is full.
FaultyByPot(circle, busy) == Plain("readyToClaim", circle, busy)
ByPot(circle, busy) == Plain(IF Full(circle) THEN "readyToClaim" ELSE "funding", circle, busy)

WithCircle(circle) == [state EXCEPT !.circle = circle]

applyContributors(circle, payers) ==
  [circle EXCEPT !.pending = {}, !.onChainContributors = payers,
     !.funded = {m \in Member :
                   \/ m \in payers
                   \/ m \in circle.freighterKey /\ Wallet \cap payers # {}}]

\* A read may come without the contributors and without the cancelled flag.
syncedSnapshot(circle, m, payers, withCancelled) ==
  LET c == IF payers = None THEN circle ELSE applyContributors(circle, payers)
  IN  [c EXCEPT !.round = m.round, !.pot = m.pot,
                !.cancelled = IF withCancelled THEN m.cancelled ELSE circle.cancelled]

\* Drops the claim of a claimed machine that failed and is retried.
FaultyRestoreFailed(busy, clearRejection) ==
  IF state.circle = None THEN None ELSE ByPot(state.circle, busy)

\* A failed machine goes on where it was: claimed if it was, never to proving.
restoreFailed(busy, clearRejection) ==
  IF state.circle = None THEN None
  ELSE IF state.failedFrom = "claimed"
         THEN IF state.claimResult = None \/ state.proof = None THEN None
              ELSE [state EXCEPT !.status = "claimed", !.busy = busy, !.failedFrom = None,
                                 !.rejection = @ /\ ~ clearRejection]
         ELSE ByPot(state.circle, busy)

Start ==
  /\ state.status = "idle" \/ (state.status = "failed" /\ state.circle = None)
  /\ state' = Plain("creating", None, TRUE)

SetBusy(clearRejection) ==
  \/ /\ state.status = "failed"
     /\ restoreFailed(TRUE, clearRejection) # None
     /\ state' = restoreFailed(TRUE, clearRejection)
  \/ /\ state.status \in Live \cup {"creating"}
     /\ state' = [state EXCEPT !.busy = TRUE,
          !.rejection = @ /\ ~ (state.status = "claimed" /\ clearRejection)]

Created(circle) ==
  /\ state.status = "creating"
  /\ state' = Plain("funding", circle, FALSE)

\* patchMember with pending, and with freighterKey.
PatchPending(m, pending) ==
  /\ state.circle # None
  /\ state' = WithCircle([state.circle EXCEPT !.pending = IF pending THEN @ \cup {m} ELSE @ \ {m}])

PatchFreighterKey(m) ==
  /\ state.circle # None
  /\ state' = WithCircle([state.circle EXCEPT !.freighterKey = @ \cup {m}])

\* An answer older than the round that is shown is rejected.
FaultyIsStale(m) == FALSE
FaultyIsSeen(m) == m.round <= state.circle.round
IsStale(m) == m.round < state.circle.round

SyncChain(m, payers, withCancelled) ==
  IF state.circle = None \/ IsStale(m)
    THEN UNCHANGED state
    ELSE LET synced == syncedSnapshot(state.circle, m, payers, withCancelled) IN
         state' = IF state.status \in {"funding", "readyToClaim"}
                    THEN [state EXCEPT !.circle = synced,
                            !.status = IF Full(synced) THEN "readyToClaim" ELSE "funding"]
                    ELSE WithCircle(synced)

canSelectClaimant ==
  \/ state.status \in {"funding", "readyToClaim"}
  \/ state.status = "failed" /\ state.circle # None /\ state.claimResult = None

SelectClaimant(m) ==
  /\ canSelectClaimant
  /\ state' = WithCircle([state.circle EXCEPT !.claimantIndex = m])

canBeginProve ==
  \/ state.status = "readyToClaim"
  \/ /\ state.status = "failed" /\ state.circle # None
     /\ state.claimResult = None /\ Full(state.circle)

BeginProve ==
  /\ canBeginProve
  /\ state' = [Plain("proving", state.circle, TRUE) EXCEPT !.claimStage = "artifacts"]

ProveStage(stage) ==
  /\ state.status = "proving"
  /\ state' = [state EXCEPT !.claimStage = stage]

BeginClaim(proof) ==
  /\ state.status = "proving"
  /\ state' = [Plain("claiming", state.circle, state.busy) EXCEPT
                 !.claimStage = "submitting", !.proof = proof]

Claimed(claimResult, nullifierClaimed) ==
  /\ state.status = "claiming"
  /\ state' = [Plain("claimed", state.circle, state.busy) EXCEPT
                 !.proof = state.proof, !.claimResult = claimResult,
                 !.nullifierClaimed = nullifierClaimed]

RecordRejection ==
  /\ state.status = "claimed"
  /\ state' = [state EXCEPT !.rejection = TRUE]

ClearBusy ==
  \/ /\ state.status \in {"funding", "readyToClaim", "claimed"}
     /\ state' = [state EXCEPT !.busy = FALSE]
  \/ /\ state.status \in {"proving", "claiming"}
     /\ state' = ByPot(state.circle, FALSE)

\* Keeps nothing of a claim; keeps its result and not its proof.
FaultyEmptyClaim ==
  [Plain("failed", state.circle, FALSE) EXCEPT !.failedFrom = state.status]
FaultyNoProof ==
  [state EXCEPT !.status = "failed", !.failedFrom = state.status, !.proof = None]

\* What a failure keeps of the live state it came from.
toFailedCircle ==
  [state EXCEPT !.status = "failed", !.failedFrom = state.status, !.busy = FALSE,
                !.claimStage = None, !.circle = [state.circle EXCEPT !.pending = {}]]

Fail ==
  \/ /\ state.status = "creating"
     /\ state' = [Plain("failed", None, FALSE) EXCEPT !.failedFrom = "creating"]
  \/ /\ state.status \in Live
     /\ state' = toFailedCircle

Retry ==
  /\ state.status = "failed"
  /\ \/ state.circle = None /\ state' = initialState
     \/ /\ state.circle # None /\ restoreFailed(FALSE, FALSE) # None
        /\ state' = restoreFailed(FALSE, FALSE)

Reset == state' = initialState

\* A saved claim without its proof is not taken for a claim.
Resume(circle, proof, claimResult, nullifierClaimed, rejection) ==
  /\ state.status = "idle"
  /\ state' = IF claimResult # None /\ proof # None
                THEN [Plain("claimed", circle, FALSE) EXCEPT
                        !.proof = proof, !.claimResult = claimResult,
                        !.nullifierClaimed = nullifierClaimed, !.rejection = rejection]
                ELSE ByPot(circle, FALSE)

\* selectCircle: what the screen is shown of a state.
selectCircle(s) ==
  [ circlePhase |-> CASE s.status = "idle" -> "idle" [] s.status = "creating" -> "loading"
                      [] s.status = "failed" -> "error" [] OTHER -> "ready",
    screen      |-> IF s.circle = None THEN "landing" ELSE "circle",
    busy        |-> s.busy,
    canClaim    |-> s.status = "readyToClaim",
    isProving   |-> s.status = "proving" /\ s.claimStage = "proving",
    claimStage  |-> s.claimStage,
    claimResult |-> s.claimResult,
    nullifierClaimed |-> s.nullifierClaimed /\ s.claimResult # None,
    rejection   |-> s.rejection /\ s.claimResult # None ]

----------------------------------------------------------------------------
(* The chain: one circle as lib.rs runs it.                                *)

Fresh(m) == [round |-> 0, pot |-> 0, cancelled |-> FALSE, onChainContributors |-> {},
             funded |-> {}, pending |-> {}, freighterKey |-> {}, claimantIndex |-> m]

CreateCircle ==
  /\ chain = None
  /\ chain' = [round |-> 0, pot |-> 0, cancelled |-> FALSE]
  /\ \E m \in Touched : Created(Fresh(m))
  /\ UNCHANGED <<contributors, paid, filled, reads>>

OnChain == chain # None /\ ~ chain.cancelled

FaultyUnderfunded == chain.pot <= Size
Underfunded == chain.pot < Size

Fund(payer) ==
  /\ OnChain /\ Underfunded
  /\ chain' = [chain EXCEPT !.pot = @ + 1]
  /\ contributors' = contributors \cup {payer}
  /\ filled' = IF Full(chain') THEN filled \cup {chain.round} ELSE filled
  /\ UNCHANGED <<state, paid, reads>>

NextRound ==
  /\ chain.round < MaxRound
  /\ chain' = [chain EXCEPT !.pot = 0, !.round = @ + 1]
  /\ contributors' = {}

PayOut(m) ==
  /\ OnChain /\ Full(chain)
  /\ NextRound
  /\ paid' = paid \cup {<<m, chain.round>>}
  /\ UNCHANGED <<state, filled, reads>>

ExpireRound ==
  /\ OnChain /\ ~ Full(chain)
  /\ NextRound
  /\ UNCHANGED <<state, paid, filled, reads>>

CancelCircle ==
  /\ OnChain
  /\ chain' = [chain EXCEPT !.pot = 0, !.cancelled = TRUE]
  /\ contributors' = {}
  /\ UNCHANGED <<state, paid, filled, reads>>

----------------------------------------------------------------------------
(* Reads: getCircleStatus sends two, which different ledgers may answer.   *)

ReadMeta(j) ==
  /\ chain # None /\ meta[j] = None
  /\ meta' = [meta EXCEPT ![j] = chain]
  /\ UNCHANGED <<state, world, list>>

ReadContributors(j) ==
  /\ chain # None /\ list[j] = None
  /\ list' = [list EXCEPT ![j] = contributors]
  /\ UNCHANGED <<state, world, meta>>

Deliver(j) ==
  /\ meta[j] # None
  /\ \E withCancelled \in BOOLEAN : SyncChain(meta[j], list[j], withCancelled)
  /\ meta' = [meta EXCEPT ![j] = None]
  /\ list' = [list EXCEPT ![j] = None]
  /\ UNCHANGED world

\* A saved session is resumed with a read of its own, which it waits for; the
\* reads of a poll that was under way before are answered after it.
ResumeSaved ==
  /\ chain # None
  /\ \E m \in Touched, proof \in Proof \cup {None}, claimResult \in paid \cup {None},
        nullifierClaimed, rejection \in BOOLEAN :
       Resume(syncedSnapshot(Fresh(m), chain, contributors, TRUE), proof, claimResult,
              nullifierClaimed, rejection)
  /\ UNCHANGED <<world, reads>>

----------------------------------------------------------------------------

Init ==
  /\ state = initialState
  /\ chain = None /\ contributors = {} /\ paid = {} /\ filled = {}
  /\ meta = [j \in Request |-> None] /\ list = [j \in Request |-> None]

Dispatch ==
  /\ \/ Start
     \/ \E clear \in BOOLEAN : SetBusy(clear)
     \/ \E m \in Touched, pending \in BOOLEAN : PatchPending(m, pending)
     \/ Wallet # {} /\ \E m \in Touched : PatchFreighterKey(m)
     \/ \E m \in Touched : SelectClaimant(m)
     \/ BeginProve
     \/ \E stage \in Stage : ProveStage(stage)
     \/ \E proof \in Proof : BeginClaim(proof)
     \/ \E claimResult \in paid, nullifierClaimed \in BOOLEAN : Claimed(claimResult, nullifierClaimed)
     \/ RecordRejection
     \/ ClearBusy
     \/ Fail
     \/ Retry
     \/ Reset
  /\ UNCHANGED <<world, reads>>

Next ==
  \/ Dispatch
  \/ CreateCircle
  \/ \E payer \in Payer : Fund(payer)
  \/ \E m \in Touched : PayOut(m)
  \/ ExpireRound
  \/ CancelCircle
  \/ ResumeSaved
  \/ \E j \in Request : ReadMeta(j) \/ ReadContributors(j) \/ Deliver(j)

Spec == Init /\ [][Next]_vars

\* The poll goes on and its reads are answered; nothing else has to happen.
FairSpec == Spec /\ \A j \in Request : WF_vars(ReadMeta(j)) /\ WF_vars(Deliver(j))

----------------------------------------------------------------------------
(* Properties.                                                             *)

\* Type invariant.
TypeOK ==
  /\ state \in CircleState
  /\ chain \in Meta \cup {None}
  /\ contributors \in SUBSET Payer
  /\ paid \in SUBSET Proof /\ filled \in SUBSET Round
  /\ meta \in [Request -> Meta \cup {None}]
  /\ list \in [Request -> (SUBSET Payer) \cup {None}]

\* The machine offers the claim exactly when the pot it shows is full, and then
\* the pot of that round was full on the chain: through late and torn reads,
\* failures and retries, a proof given up half way, a resumed session.
ReadyWasFunded ==
  /\ state.status = "funding" => ~ Full(state.circle)
  /\ state.status = "readyToClaim" => Full(state.circle) /\ state.circle.round \in filled

\* A payout that is shown was made, and a nullifier or a rejection is kept
\* only beside it.  It survives on claimed, and on a failure after a claim.
PayoutIsReal ==
  LET shown == selectCircle(state).claimResult IN
  /\ shown # None => shown \in paid /\ selectCircle(state).screen = "circle"
  /\ shown # None <=>
       \/ state.status = "claimed"
       \/ state.status = "failed" /\ state.failedFrom = "claimed"
  /\ state.nullifierClaimed \/ state.rejection => state.claimResult # None

\* No failure is a dead end: it carries what retry needs to go on, in
\* particular the proof of a claim that was paid.
FailureCanBeRetried ==
  state.status = "failed" => (state.circle = None \/ restoreFailed(FALSE, FALSE) # None)

\* A payout that was shown stays, whatever fails or is read later, until the
\* user leaves the circle.
PayoutIsKept ==
  [][ state.claimResult # None
        => state'.claimResult = state.claimResult \/ state' = initialState ]_vars

\* Answers out of order never take the machine back to an earlier round.
RoundNeverGoesBack ==
  [][ state.circle # None /\ state'.circle # None
        => state'.circle.round >= state.circle.round ]_vars

\* A claim given up by clearBusy may still be paid, and others fund, claim and
\* cancel: while the poll goes on, funding and readyToClaim follow the pot.
Waiting == state.status \in {"funding", "readyToClaim"}
FollowsPot == (state.status = "readyToClaim") = Full(chain)
WaitingFollowsPot == (Waiting /\ ~ FollowsPot) ~> (~ Waiting \/ FollowsPot)

----------------------------------------------------------------------------
(* What they rest on.                                                      *)

\* What a read or the machine takes for a full pot was one, and no round is
\* ahead of the chain.
WasReached(c) ==
  c # None => /\ chain # None /\ c.round <= chain.round
              /\ Full(c) => c.round \in filled
ReadsAreReal == WasReached(chain) /\ \A j \in Request : WasReached(meta[j])

\* Which fields a status has: the discriminated union of the code.
Shape ==
  /\ state.circle # None <=>
       state.status \in Live \/ (state.status = "failed" /\ state.failedFrom # "creating")
  /\ state.status = "failed" <=> state.failedFrom # None
  /\ state.failedFrom \in Live \cup {"creating", None}
  /\ state.proof # None <=>
       state.status \in {"claiming", "claimed"} \/ state.failedFrom \in {"claiming", "claimed"}

MachineInv ==
  TypeOK /\ Shape /\ ReadsAreReal /\ WasReached(state.circle) /\ ReadyWasFunded /\ PayoutIsReal
=============================================================================
