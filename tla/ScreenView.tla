----------------------------- MODULE ScreenView -----------------------------
(***************************************************************************)
(* What the circle screen shows, says to a screen reader and offers        *)
(* (app/src/screens/CircleScreen.tsx, its effects and its JSX;             *)
(* app/src/usePoliteLiveRegion.tsx; the components made of parts of it).   *)
(* The handlers and their races are module CircleScreen; here they are     *)
(* reduced to what they set between two renders.  One member stands for    *)
(* all of them.                                                            *)
(***************************************************************************)
EXTENDS Naturals, Sequences

VARIABLES
  view,     \* the state that is rendered
  running,  \* the handlers under way.  Bound: one besides the checks
  message,  \* the text of the live region
  timer,    \* the text that its timer will show, or Silence
  focus     \* the heading that has the keyboard's focus

screenViewVars == <<view, running, message, timer, focus>>

Silence == "silence"
NotBusy == "notBusy"

ScreenViewInit ==
  /\ view = [phase |-> "idle", busy |-> NotBusy, error |-> FALSE, full |-> FALSE, result |-> FALSE,
             rejection |-> FALSE, nullifierClaimed |-> FALSE, cancelled |-> FALSE, paid |-> FALSE,
             member |-> "none", ineligible |-> FALSE, round |-> 0, admin |-> FALSE]
  /\ running = {} /\ message = Silence /\ timer = Silence /\ focus = "page"

----------------------------------------------------------------------------
(* The effects of a render.                                                *)

\* What the effect on the live region says: the first that applies.
Announcement(v) ==
  LET said == << <<v.busy # NotBusy, v.busy>>, <<v.phase = "loading", "loading">>,
                 <<v.result, "resultReady">>, <<v.error, "error">>,
                 <<v.full, "claimReady">>, <<TRUE, Silence>> >>
  IN Head(SelectSeq(said, LAMBDA s : s[1]))[2]

Dependencies(v) == <<v.busy, v.phase, v.result, v.error, v.full>>

\* usePoliteLiveRegion: a text takes the place of one that has not been shown yet.
FaultyAnnounce(text) == IF timer = Silence THEN text ELSE timer
announce(text) == text

Heading(v) == IF v.result THEN "payout" ELSE IF v.full THEN "claim" ELSE "page"

\* Focus goes to the heading that appears, and back to the page with one that goes.
FocusAfter(v) ==
  CASE Heading(v) \notin {Heading(view), "page"} -> Heading(v)
    [] Heading(v) = Heading(view)                -> focus
    [] OTHER                                     -> IF focus = Heading(view) THEN "page" ELSE focus

\* The effect on [fullyFunded, claimResult] pre-checks the members, and unmounts the check
\* that is still under way.
CheckIsOver(v) == <<v.full, v.result>> # <<view.full, view.result>>
StartsCheck(v) == CheckIsOver(v) /\ v.full /\ ~ v.result /\ v.admin
Left(v, now) ==
  IF CheckIsOver(v) /\ "check" \in now THEN (now \ {"check"}) \cup {"unmounted"} ELSE now

\* The render of v with its effects, after which the handlers in now are under way.
Render(v, now) ==
  LET w == IF StartsCheck(v) THEN [v EXCEPT !.busy = "check"] ELSE v
      speaks == Dependencies(w) # Dependencies(view) /\ Announcement(w) # Silence
  IN  /\ view' = w
      /\ running' = Left(v, now) \cup (IF StartsCheck(v) THEN {"check"} ELSE {})
      /\ timer' = IF speaks THEN announce(Announcement(w)) ELSE timer
      /\ focus' = FocusAfter(w)
      /\ UNCHANGED message

LiveRegionTimer ==
  /\ timer # Silence
  /\ message' = timer /\ timer' = Silence
  /\ UNCHANGED <<view, running, focus>>

\* The user moves the focus elsewhere.
Tab == focus # "elsewhere" /\ focus' = "elsewhere" /\ UNCHANGED <<view, running, message, timer>>

----------------------------------------------------------------------------
(* What is offered.                                                        *)

Button == {"fund", "freighter", "select", "claim", "again", "cancel", "reset"}
Free(v, online) == online /\ v.busy = NotBusy

FundOffers(v, online, freighter) ==
  IF v.phase = "loading" \/ v.member # "none" \/ ~ Free(v, online) \/ v.round > 0 THEN {}
  ELSE {"fund"} \cup (IF freighter THEN {"freighter"} ELSE {})
ClaimOffers(v, online) ==
  { b \in {"select", "claim"} :
      /\ v.full /\ ~ v.result /\ v.busy = NotBusy
      /\ b = "select" => ~ v.ineligible
      /\ b = "claim" => online }
ResultOffers(v, online) ==
  { b \in {"again", "reset"} :
      /\ v.result /\ v.busy = NotBusy
      /\ b = "again" => online /\ ~ (v.rejection /\ v.nullifierClaimed)
      /\ b = "reset" => v.rejection }
CancelOffers(v) ==
  IF v.phase # "loading" /\ ~ v.cancelled /\ v.admin /\ v.busy = NotBusy /\ v.paid
  THEN {"cancel"} ELSE {}

ScreenOffers(v, online, freighter) ==
  FundOffers(v, online, freighter) \cup ClaimOffers(v, online) \cup ResultOffers(v, online)
    \cup CancelOffers(v) \cup (IF v.busy = NotBusy THEN {"reset"} ELSE {})

\* The components made of these parts, with the condition under which each is shown.
FundingList(v, online, freighter) ==
  { b \in {"fund", "freighter"} :
      v.member = "none" /\ Free(v, online) /\ v.round = 0 /\ (b = "freighter" => freighter) }
ClaimSection(v, online) ==
  (IF v.busy = NotBusy /\ ~ v.ineligible THEN {"select"} ELSE {})
    \cup (IF Free(v, online) THEN {"claim"} ELSE {})
ResultCard(v) ==
  IF v.busy # NotBusy THEN {} ELSE {"again"} \cup (IF v.rejection THEN {"reset"} ELSE {})

----------------------------------------------------------------------------
(* The handlers, each as the renders it causes.                            *)

Begin(h, v) == running \subseteq {"check", "unmounted"} /\ Render([v EXCEPT !.error = FALSE, !.busy = h], running \cup {h})
End(h, v) == h \in running /\ Render([v EXCEPT !.busy = NotBusy], running \ {h})
Offered(b) == b \in ScreenOffers(view, TRUE, TRUE) /\ view.phase # "idle"

\* On mount: a new circle, or the saved one that the landing screen handed over.
startCircle ==
  /\ view.phase = "idle"
  /\ Begin("start", [view EXCEPT !.phase = "loading"])
loadState ==
  /\ view.phase = "idle"
  /\ \E result, rejection \in BOOLEAN, round \in {0, 1} :
       Render([view EXCEPT !.phase = "ready", !.admin = TRUE, !.result = result,
                           !.rejection = rejection, !.round = round], running)

\* The busy text changes as the handler goes on.
Goes(h, text) == h \in running /\ Render([view EXCEPT !.busy = text], running)
GoesOn == Goes("start", "generating") \/ Goes("start", "creating") \/ Goes("again", "replaying")

startCircleEnds ==
  \/ End("start", [view EXCEPT !.phase = "ready", !.admin = TRUE])
  \/ End("start", [view EXCEPT !.phase = "error", !.error = TRUE])

fundMember == Offered("fund") /\ Begin("fund", view)
fundWithFreighter == Offered("freighter") /\ Begin("freighter", view)
Submits(h) == h \in running /\ Render([view EXCEPT !.member = "pending"], running)
FundEnds(h) ==
  \/ End(h, view)
  \/ End(h, [view EXCEPT !.error = TRUE, !.member = IF @ = "pending" THEN "none" ELSE @])

doClaim == Offered("claim") /\ Begin("claim", [view EXCEPT !.result = FALSE, !.rejection = FALSE])
ClaimPaid == "claim" \in running /\ Render([view EXCEPT !.result = TRUE], running)
HasClaimed == "claim" \in running /\ view.result
                /\ Render([view EXCEPT !.nullifierClaimed = TRUE], running)
doClaimEnds == End("claim", view) \/ End("claim", [view EXCEPT !.error = TRUE])

claimAgain == Offered("again") /\ Begin("again", [view EXCEPT !.rejection = FALSE])
Replayed == "again" \in running /\ Render([view EXCEPT !.rejection = TRUE], running)
claimAgainEnds == view.rejection /\ End("again", view)

\* A user who does not confirm has only cleared the error.
doCancelCircle ==
  /\ Offered("cancel")
  /\ Begin("cancel", view) \/ Render([view EXCEPT !.error = FALSE], running)
doCancelCircleEnds == End("cancel", view) \/ End("cancel", [view EXCEPT !.error = TRUE])

checkEligibilityEnds ==
  \/ \E ineligible \in BOOLEAN : End("check", [view EXCEPT !.ineligible = ineligible])
  \/ End("check", [view EXCEPT !.error = TRUE])

\* An unmounted check still reports its error, and leaves busy alone.
UnmountedCheckEnds ==
  /\ "unmounted" \in running
  /\ \E error \in {view.error, TRUE} : Render([view EXCEPT !.error = error], running \ {"unmounted"})

\* syncFundingState, of the poll or of a handler.
syncFundingState ==
  /\ view.admin
  /\ \E full, paid, cancelled, funded \in BOOLEAN :
       /\ full => paid
       /\ funded => paid
       /\ cancelled => ~ paid
       /\ view.cancelled => cancelled
       /\ Render([view EXCEPT !.full = full, !.paid = paid, !.cancelled = cancelled,
                              !.member = IF funded THEN "funded" ELSE "none"], running)

ScreenViewNext ==
  \/ startCircle \/ loadState \/ GoesOn \/ startCircleEnds
  \/ fundMember \/ fundWithFreighter \/ \E h \in {"fund", "freighter"} : Submits(h) \/ FundEnds(h)
  \/ doClaim \/ ClaimPaid \/ HasClaimed \/ doClaimEnds
  \/ claimAgain \/ Replayed \/ claimAgainEnds
  \/ doCancelCircle \/ doCancelCircleEnds
  \/ checkEligibilityEnds \/ UnmountedCheckEnds \/ syncFundingState
  \/ LiveRegionTimer \/ Tab

ScreenViewSpec == ScreenViewInit /\ [][ScreenViewNext]_screenViewVars

----------------------------------------------------------------------------

\* Once the live region has come to rest it says what the screen shows, if that is
\* anything it speaks of, however many texts came within the delay; the focus is on no
\* heading that is not shown; and the components offer what the screen offers, except that
\* ResultCard offers the replay to a user who is offline and after it was rejected.
HeardIsShown ==
  /\ timer = Silence /\ view.phase # "idle" /\ Announcement(view) # Silence
       => message = Announcement(view)
  /\ focus \in {Heading(view), "page", "elsewhere"}
  /\ \A online, freighter \in BOOLEAN :
       LET offered == ScreenOffers(view, online, freighter) IN
       /\ view.phase # "loading" => offered \cap {"fund", "freighter"} = FundingList(view, online, freighter)
       /\ Heading(view) = "claim" => offered \cap {"select", "claim"} = ClaimSection(view, online)
       /\ view.result => ResultOffers(view, online) \subseteq ResultCard(view)
=============================================================================
