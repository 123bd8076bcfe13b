---------------------------- MODULE CircleScreen ----------------------------
(***************************************************************************)
(* The app's circle screen (app/src/screens/CircleScreen.tsx) against one  *)
(* circle on the chain.  JavaScript runs one segment at a time: an action  *)
(* is what happens between two awaits, with the continuations that follow  *)
(* at once and the effect React runs after the render.  What is awaited,   *)
(* transactions and reads, happens on the chain in between; the answers    *)
(* come back in any order, late or as errors.                              *)
(***************************************************************************)
EXTENDS Naturals, FiniteSets

CONSTANTS
  Member,      \* the members of the circle, all driven by this screen
  Freighter,   \* the account in the Freighter wallet, if there is one
  Other,       \* others who fund the circle
  NoClaim,     \* no claimResult, no member
  NoAnswer,    \* nothing was read
  Claimant,    \* bound: members that are picked to claim
  Flow,        \* bound: handlers that run at the same time
  Request      \* bound: reads of the poll under way at the same time

ASSUME PayerAssumption ==
  /\ Member \cap (Freighter \cup Other) = {} /\ Freighter \cap Other = {}
  /\ IsFiniteSet(Member) /\ \A x, y \in Freighter : x = y
ASSUME ClaimantAssumption == Claimant \subseteq Member
ASSUME NoClaimAssumption == NoClaim \notin Member \X Nat /\ NoClaim \notin Flow

Size  == Cardinality(Member)   \* CIRCLE_SIZE: every member pays once
Payer == Member \cup Freighter \cup Other
Proof == Member \X {0, 1}      \* <<claimant, round>>: what the nullifier hashes

\* The chain's circle as get_circle returns it.
Circle == [round : {0, 1}, pot : 0 .. Size, contributors : SUBSET Payer, cancelled : BOOLEAN]

\* A handler: the click it serves, the await it is at, whom it serves and who
\* pays, whether its signal is aborted, whom claimAgain still has to fund, and
\* what its last read has read.
Handler == [kind : {"none", "fund", "claim", "again", "cancel"},
            pc : {"done", "preparing", "submitting", "landed", "replayed", "checking",
                  "syncing", "synced"},
            member : Member \cup {NoClaim}, payer : Payer \cup {NoClaim}, aborted : BOOLEAN,
            todo : SUBSET Member, snapshot : Circle \cup {NoAnswer}]

VARIABLES
  \* The chain.
  circle,           \* the circle
  nullifiers,       \* the proofs that were paid
  \* React state of the screen.
  phase,            \* circlePhase; "left" once the screen is unmounted
  busy,             \* whether a busy message is shown: it disables the buttons
  round,            \* the round shown
  shown,            \* pot, onChainContributors, cancelled; its round is not shown
  funded, pending,  \* members shown as funded, as submitting
  freighterKey,     \* members that were funded from the wallet
  claimResult, nullifierClaimed, rejection,
  \* What runs.
  checking,         \* the mounted instance of checkEligibility awaits its reads
  claimAbortRef,    \* the claim that an abort would reach
  flow,             \* the handlers of clicks, by slot
  answer            \* what the reads of the poll have read, until it is delivered

chain  == <<circle, nullifiers>>
screen == <<phase, busy, round, shown, funded, pending, freighterKey,
            claimResult, nullifierClaimed, rejection>>
vars   == <<chain, screen, checking, claimAbortRef, flow, answer>>

NoFlow == "none"
Idle   == [kind |-> NoFlow, pc |-> "done", member |-> NoClaim, payer |-> NoClaim,
           aborted |-> FALSE, todo |-> {}, snapshot |-> NoAnswer]

----------------------------------------------------------------------------
(* The chain, as Sharibo has it: what a submitted transaction does.        *)

FaultyFundSucceeds == ~ circle.cancelled /\ circle.pot <= Size
FundSucceeds == ~ circle.cancelled /\ circle.pot < Size
Funded(payer) ==
  [circle EXCEPT !.pot = @ + 1, !.contributors = @ \cup {payer}]

ClaimSucceeds(proof) ==
  /\ ~ circle.cancelled /\ circle.pot = Size
  /\ proof \notin nullifiers /\ proof[2] = circle.round
Claimed == [circle EXCEPT !.pot = 0, !.contributors = {}, !.round = @ + 1]

Cancelled == [circle EXCEPT !.pot = 0, !.contributors = {}, !.cancelled = TRUE]

----------------------------------------------------------------------------
(* The screen.                                                             *)

Full(c) == c.pot = Size

\* The render that shows s and r, after a handler left busy at b.  The effect
\* on [fullyFunded, claimResult] unmounts the running checkEligibility, which
\* then no longer clears busy, and starts another if the claim step is shown.
Render(s, r, b) ==
  LET changed == Full(s) # Full(shown) \/ r # claimResult
      starts  == changed /\ Full(s) /\ r = NoClaim
  IN  /\ shown' = s /\ claimResult' = r
      /\ checking' = (IF changed THEN starts ELSE checking)
      /\ busy' = (b \/ starts)

\* syncFundingState, once getCircle has answered s.
FaultyFundedIn(s, keys) == {m \in Member : ({m} \cup Freighter) \cap s.contributors # {}}
FundedIn(s, keys) == {m \in Member : ({m} \cup (IF m \in keys THEN Freighter ELSE {})) \cap s.contributors # {}}
Sync(s) == funded' = FundedIn(s, freighterKey) /\ pending' = {}

\* A handler's last setBusy(null); an aborted claim leaves busy to its successor.
FaultyBusyAfter(f) == busy
BusyAfter(f) == f.kind = "claim" /\ f.aborted /\ busy

\* The ref is released by the claim that it refers to, and by no other.
FaultyRelease(i) == IF flow[i].kind = "claim" THEN NoClaim ELSE claimAbortRef
Release(i) == IF claimAbortRef = i THEN NoClaim ELSE claimAbortRef

\* The handler in slot i returns, showing s and r.
Return(i, s, r) ==
  /\ flow' = [flow EXCEPT ![i] = Idle]
  /\ claimAbortRef' = Release(i)
  /\ Render(s, r, BusyAfter(flow[i]))

\* A button is enabled and its handler starts in slot i.
Enabled(i) == phase = "ready" /\ ~ busy /\ flow[i] = Idle
Started(kind, pc, member, payer) ==
  [kind |-> kind, pc |-> pc, member |-> member, payer |-> payer, aborted |-> FALSE, todo |-> {},
   snapshot |-> NoAnswer]

----------------------------------------------------------------------------
(* Clicks.                                                                 *)

StartCircle ==
  /\ phase = "loading"
  /\ phase' \in {"ready", "error"}
  /\ busy' = FALSE
  /\ UNCHANGED <<chain, round, shown, funded, pending, freighterKey, claimResult,
                 nullifierClaimed, rejection, checking, claimAbortRef, flow, answer>>

\* fundMember(m) and, from the wallet, fundWithFreighter(m).
FundMember(i, m, payer) ==
  /\ Enabled(i)
  /\ m \notin funded /\ m \notin pending /\ round = 0
  /\ payer \in {m} \cup Freighter
  /\ busy' = TRUE
  /\ flow' = [flow EXCEPT ![i] = Started("fund", "preparing", m, payer)]
  /\ UNCHANGED <<chain, phase, round, shown, funded, pending, freighterKey, claimResult,
                 nullifierClaimed, rejection, checking, claimAbortRef, answer>>

\* controller.abort() on the claim the ref refers to.
Aborted(ref) == [j \in Flow |-> IF j = ref THEN [flow[j] EXCEPT !.aborted = TRUE] ELSE flow[j]]

DoClaim(i, m) ==
  /\ Enabled(i)
  /\ Full(shown) /\ claimResult = NoClaim
  /\ flow' = [Aborted(claimAbortRef) EXCEPT ![i] = Started("claim", "preparing", m, m)]
  /\ claimAbortRef' = i
  /\ rejection' = FALSE
  /\ busy' = TRUE
  /\ UNCHANGED <<chain, phase, round, shown, funded, pending, freighterKey, claimResult,
                 nullifierClaimed, checking, answer>>

\* Everybody pays again, then the old proof is submitted a second time.
ClaimAgain(i) ==
  /\ Enabled(i)
  /\ claimResult # NoClaim /\ ~ (rejection /\ nullifierClaimed)
  /\ rejection' = FALSE
  /\ busy' = TRUE
  /\ flow' = [flow EXCEPT ![i] =
       [Started("again", "submitting", claimResult[1], claimResult[1]) EXCEPT !.todo = Member]]
  /\ UNCHANGED <<chain, phase, round, shown, funded, pending, freighterKey, claimResult,
                 nullifierClaimed, checking, claimAbortRef, answer>>

DoCancelCircle(i) ==
  /\ Enabled(i)
  /\ ~ shown.cancelled /\ shown.contributors # {}
  /\ busy' = TRUE
  /\ flow' = [flow EXCEPT ![i] = Started("cancel", "submitting", NoClaim, NoClaim)]
  /\ UNCHANGED <<chain, phase, round, shown, funded, pending, freighterKey, claimResult,
                 nullifierClaimed, rejection, checking, claimAbortRef, answer>>

\* The screen is left; mid-flow the user is asked and may confirm.
ResetToLanding ==
  /\ phase \in {"ready", "error"} /\ ~ busy
  /\ phase' = "left"
  /\ flow' = Aborted(claimAbortRef)
  /\ claimAbortRef' = NoClaim
  /\ UNCHANGED <<chain, busy, round, shown, funded, pending, freighterKey, claimResult,
                 nullifierClaimed, rejection, checking, answer>>

----------------------------------------------------------------------------
(* Handlers between two awaits.                                            *)

At(i, kinds, pc) == flow[i].kind \in kinds /\ flow[i].pc = pc
GoTo(i, pc) == flow' = [flow EXCEPT ![i].pc = pc]

\* Friendbot, the wallet, artifacts and prover have done their part.
PrepareFund(i) ==
  /\ At(i, {"fund"}, "preparing")
  /\ pending' = pending \cup {flow[i].member}
  /\ GoTo(i, "submitting")
  /\ UNCHANGED <<chain, phase, busy, round, shown, funded, freighterKey, claimResult,
                 nullifierClaimed, rejection, checking, claimAbortRef, answer>>

\* The last test of signal.aborted before the submission.
PrepareClaim(i) ==
  /\ At(i, {"claim"}, "preparing")
  /\ IF flow[i].aborted
       THEN Return(i, shown, claimResult)
       ELSE /\ GoTo(i, "submitting")
            /\ UNCHANGED <<busy, shown, claimResult, checking, claimAbortRef>>
  /\ UNCHANGED <<chain, phase, round, funded, pending, freighterKey, nullifierClaimed,
                 rejection, answer>>

\* The transaction of slot i is executed by the chain.
SubmitFund(i) ==
  /\ At(i, {"fund"}, "submitting")
  /\ FundSucceeds
  /\ circle' = Funded(flow[i].payer)
  /\ GoTo(i, "landed")
  /\ UNCHANGED <<nullifiers, screen, checking, claimAbortRef, answer>>

\* claimAgain's loop over the members.
FundAgain(i, m) ==
  /\ At(i, {"again"}, "submitting") /\ m \in flow[i].todo
  /\ FundSucceeds
  /\ circle' = Funded(m)
  /\ flow' = [flow EXCEPT ![i].pc = "landed", ![i].todo = @ \ {m}]
  /\ UNCHANGED <<nullifiers, screen, checking, claimAbortRef, answer>>

ProofOf(f) == IF f.kind = "again" THEN claimResult ELSE <<f.member, round>>

SubmitClaim(i) ==
  /\ At(i, {"claim", "again"}, "submitting") /\ flow[i].todo = {}
  \* claimAgain passes the round shown as the external nullifier.
  /\ ClaimSucceeds(ProofOf(flow[i]))
  /\ circle' = Claimed
  /\ nullifiers' = nullifiers \cup {ProofOf(flow[i])}
  /\ GoTo(i, IF flow[i].kind = "again" THEN "replayed" ELSE "landed")
  /\ UNCHANGED <<screen, checking, claimAbortRef, answer>>

SubmitCancel(i) ==
  /\ At(i, {"cancel"}, "submitting")
  /\ ~ circle.cancelled
  /\ circle' = Cancelled
  /\ GoTo(i, "landed")
  /\ UNCHANGED <<nullifiers, screen, checking, claimAbortRef, answer>>

\* An await that is not the last read throws: preparation, a rejected or lost
\* transaction, an executed transaction whose answer is lost, has_claimed.
Throw(i) ==
  /\ flow[i].pc \in {"preparing", "submitting", "landed", "replayed", "checking"}
  /\ pending' = IF flow[i].kind = "fund" THEN pending \ {flow[i].member} ELSE pending
  /\ rejection' = (rejection \/ flow[i].kind = "again")
  /\ IF flow[i].kind = "again"
       THEN /\ GoTo(i, "syncing")
            /\ UNCHANGED <<busy, shown, claimResult, checking, claimAbortRef>>
       ELSE Return(i, shown, claimResult)
  /\ UNCHANGED <<chain, phase, round, funded, freighterKey, nullifierClaimed, answer>>

\* The answer of a transaction tells that it was executed.
FaultyAnswered(i) == flow[i].pc \in {"landed", "submitting"}
Answered(i) == flow[i].pc = "landed"

\* Where the last transaction of a handler has been executed.
Last == {<<"fund", "landed">>, <<"cancel", "landed">>, <<"again", "replayed">>}

SubmitAnswered(i) ==
  /\ \/ <<flow[i].kind, flow[i].pc>> \in Last /\ GoTo(i, "syncing")
     \/ At(i, {"again"}, "landed") /\ GoTo(i, "submitting")
  /\ rejection' = (rejection \/ flow[i].pc = "replayed")
  /\ UNCHANGED <<chain, phase, busy, round, shown, funded, pending, freighterKey, claimResult,
                 nullifierClaimed, checking, claimAbortRef, answer>>

\* doClaim tests signal.aborted once more, now that the claim has been paid.
ClaimAnswered(i) ==
  /\ flow[i].kind = "claim" /\ Answered(i)
  /\ IF flow[i].aborted
       THEN Return(i, shown, claimResult)
       ELSE /\ GoTo(i, "checking")
            /\ Render(shown, ProofOf(flow[i]), busy)
            /\ UNCHANGED claimAbortRef
  /\ UNCHANGED <<chain, phase, round, funded, pending, freighterKey, nullifierClaimed,
                 rejection, answer>>

HasClaimed(i) ==
  /\ At(i, {"claim"}, "checking")
  /\ nullifierClaimed' = (claimResult \in nullifiers)
  /\ GoTo(i, "syncing")
  /\ UNCHANGED <<chain, phase, busy, round, shown, funded, pending, freighterKey, claimResult,
                 rejection, checking, claimAbortRef, answer>>

\* The read with which a handler ends, and its continuation.
SyncRead(i) ==
  /\ flow[i].pc = "syncing"
  /\ flow' = [flow EXCEPT ![i].pc = "synced", ![i].snapshot = circle]
  /\ UNCHANGED <<chain, screen, checking, claimAbortRef, answer>>

SyncAnswered(i) ==
  /\ \/ /\ flow[i].pc = "synced"
        /\ Sync(flow[i].snapshot)
        /\ Return(i, flow[i].snapshot, claimResult)
     \/ /\ flow[i].pc = "syncing"   \* caught in syncFundingState
        /\ Return(i, shown, claimResult)
        /\ UNCHANGED <<funded, pending>>
  /\ freighterKey' = IF flow[i].kind = "fund" /\ flow[i].payer \in Freighter
                       THEN freighterKey \cup {flow[i].member} ELSE freighterKey
  /\ UNCHANGED <<chain, phase, round, nullifierClaimed, rejection, answer>>

----------------------------------------------------------------------------
(* The poll, the eligibility check and the world.                          *)

FaultyPolling == phase = "ready" /\ claimResult = NoClaim /\ ~ busy
Polling == phase = "ready" /\ claimResult = NoClaim

Poll(j) ==
  /\ Polling /\ answer[j] = NoAnswer
  /\ answer' = [answer EXCEPT ![j] = circle]
  /\ UNCHANGED <<chain, screen, checking, claimAbortRef, flow>>

PollAnswered(j) ==
  /\ answer[j] # NoAnswer /\ phase = "ready"
  /\ answer' = [answer EXCEPT ![j] = NoAnswer]
  /\ Sync(answer[j])
  /\ Render(answer[j], claimResult, busy)
  /\ UNCHANGED <<chain, phase, round, freighterKey, nullifierClaimed, rejection,
                 claimAbortRef, flow>>

\* Whom the check found ineligible only disables their radio buttons.
CheckEligibilityDone ==
  /\ checking /\ checking' = FALSE
  /\ busy' = FALSE
  /\ UNCHANGED <<chain, phase, round, shown, funded, pending, freighterKey, claimResult,
                 nullifierClaimed, rejection, claimAbortRef, flow, answer>>

OtherFunds ==
  /\ FundSucceeds
  /\ \E payer \in Other : circle' = Funded(payer)
  /\ UNCHANGED <<nullifiers, screen, checking, claimAbortRef, flow, answer>>

----------------------------------------------------------------------------

Init ==
  /\ circle = [round |-> 0, pot |-> 0, contributors |-> {}, cancelled |-> FALSE]
  /\ nullifiers = {}
  /\ phase = "loading" /\ busy = TRUE /\ round = 0
  /\ shown = [round |-> 0, pot |-> 0, contributors |-> {}, cancelled |-> FALSE]
  /\ funded = {} /\ pending = {} /\ freighterKey = {}
  /\ claimResult = NoClaim /\ nullifierClaimed = FALSE /\ rejection = FALSE
  /\ checking = FALSE /\ claimAbortRef = NoClaim
  /\ flow = [i \in Flow |-> Idle]
  /\ answer = [j \in Request |-> NoAnswer]

Click(i) ==
  \/ \E m \in Member, payer \in Payer : FundMember(i, m, payer)
  \/ \E m \in Claimant : DoClaim(i, m)
  \/ ClaimAgain(i)
  \/ DoCancelCircle(i)

Continue(i) ==
  \/ PrepareFund(i) \/ PrepareClaim(i)
  \/ SubmitFund(i) \/ SubmitClaim(i) \/ SubmitCancel(i)
  \/ \E m \in Member : FundAgain(i, m)
  \/ Throw(i)
  \/ SubmitAnswered(i) \/ ClaimAnswered(i) \/ HasClaimed(i)
  \/ SyncRead(i) \/ SyncAnswered(i)

Next ==
  \/ StartCircle
  \/ \E i \in Flow : Click(i) \/ Continue(i)
  \/ ResetToLanding
  \/ \E j \in Request : Poll(j) \/ PollAnswered(j)
  \/ CheckEligibilityDone
  \/ OtherFunds

Spec == Init /\ [][Next]_vars

\* Every await ends and the poll goes on; nobody is obliged to click.
FairSpec ==
  /\ Spec
  /\ WF_vars(StartCircle \/ CheckEligibilityDone)
  /\ \A i \in Flow : WF_vars(Continue(i))
  /\ \A j \in Request : WF_vars(Poll(j) \/ PollAnswered(j))

----------------------------------------------------------------------------
(* Properties.                                                             *)

\* Type invariant.
TypeOK ==
  /\ circle \in Circle /\ shown \in Circle
  /\ nullifiers \subseteq Proof
  /\ phase \in {"loading", "ready", "error", "left"}
  /\ busy \in BOOLEAN /\ round \in {0, 1}
  /\ funded \subseteq Member /\ pending \subseteq Member /\ freighterKey \subseteq Member
  /\ claimResult \in Proof \cup {NoClaim}
  /\ nullifierClaimed \in BOOLEAN /\ rejection \in BOOLEAN /\ checking \in BOOLEAN
  /\ claimAbortRef \in Flow \cup {NoClaim}
  /\ answer \in [Request -> Circle \cup {NoAnswer}]
  /\ flow \in [Flow -> Handler]

\* A payout on the screen is one on the chain, whatever answers were lost,
\* late, or belonged to a claim that was aborted meanwhile.
ResultIsReal == claimResult # NoClaim => claimResult \in nullifiers

\* As long as nothing has ended the first round, a screen that shows the
\* current pot shows no more members as funded than payments it holds, though
\* one wallet may pay for several members and a payment may look failed.
ShownIsPaid ==
  (shown = circle /\ circle.round = 0) => Cardinality(funded) <= circle.pot

\* At most one claim runs that nothing can abort any more or nobody has
\* aborted: clicking again and leaving the screen reach the running claim.
Live(i) == flow[i].kind = "claim" /\ ~ flow[i].aborted
LiveClaimIsReachable == \A i \in Flow : Live(i) => claimAbortRef = i

\* Until its first round ends the screen never hangs: busy is cleared again,
\* although handlers, checks and polls all write it.
BusyEnds == busy ~> (~ busy \/ circle.round > 0 \/ circle.cancelled)

\* A full pot of the first round can be claimed, whoever filled it.
FullPotIsOffered ==
  (phase = "ready" /\ circle.round = 0 /\ Full(circle))
    ~> (Full(shown) /\ ~ busy) \/ ~ Full(circle) \/ phase = "left"

----------------------------------------------------------------------------
(* Statements of comments that the code does not keep.                     *)

\* doClaim: "Cancel any previous claim that might still be running."  A claim
\* aborted before its transaction was executed is not executed.
AbortedClaimIsNotPaid ==
  [][ \A i \in Flow : At(i, {"claim"}, "submitting") /\ flow[i].aborted
        => flow'[i].pc # "landed" ]_vars

=============================================================================
