---------------------------- MODULE DebugBundle ----------------------------
(***************************************************************************)
(* The app's event log (app/src/hooks/useSdkEvents.ts) and its debug       *)
(* bundle (app/src/lib/debugBundle.ts), with the button that copies it.    *)
(* A text is the set of secret patterns that it matches.                   *)
(***************************************************************************)
EXTENDS Naturals, Sequences

CONSTANTS
  SDK_EVENT_BUFFER_LIMIT,
  MaxEvents,  \* bound: events of the SDK
  Click       \* bound: copies under way at once

ASSUME BundleAssumption == SDK_EVENT_BUFFER_LIMIT \in Nat \ {0} /\ MaxEvents \in Nat

VARIABLES
  log,         \* the log that is kept
  bridged,     \* whether the artifacts' sink is set
  claimStage,  \* ClaimProgress' stage
  emitted,     \* history: how many events there were, the stage of the last that has one
  lastError,   \* the text of the last error, or NoError
  trusted,     \* the texts of the fields that the build controls
  button,      \* the button's label and timer
  copy,        \* what each click is writing to the clipboard, or Nothing
  handed       \* history: the bundles the user has got, and why one was refused

logVars    == <<log, bridged, claimStage, emitted>>
bundleVars == <<lastError, trusted, button, copy, handed>>

REDACT_PATTERNS == {"seed", "scalar"}
NoError == {"no error"}
Nothing == [written |-> FALSE, text |-> {}]

ArtifactEvent == {"artifact:started", "artifact:progress", "artifact:ready", "artifact:error"}
SdkEvent == ArtifactEvent \cup {"proof:started", "proof:finished", "tx:submitted", "tx:confirmed",
                                "rpc:attempt", "rpc:retry", "rpc:success", "rpc:failure"}

stageFromEvent(type) ==
  CASE type \in {"artifact:started", "artifact:progress"} -> "artifacts"
    [] type = "proof:started"                             -> "proving"
    [] type = "proof:finished"                            -> "verifying"
    [] type \in {"tx:submitted", "tx:confirmed"}          -> "submitting"
    [] OTHER                                              -> "none"

LogInit ==
  /\ log = <<>> /\ bridged = FALSE /\ claimStage = "none"
  /\ emitted = [count |-> 0, stage |-> "none"]

BundleInit ==
  /\ lastError \in {NoError} \cup SUBSET REDACT_PATTERNS
  /\ trusted \in SUBSET REDACT_PATTERNS
  /\ button = [status |-> "idle", timer |-> FALSE]
  /\ copy = [c \in Click |-> Nothing]
  /\ handed = [copied |-> {}, refused |-> {}]

----------------------------------------------------------------------------
(* The log.                                                                *)

FaultyKept(events) ==
  IF Len(events) > SDK_EVENT_BUFFER_LIMIT THEN SubSeq(events, 1, SDK_EVENT_BUFFER_LIMIT) ELSE events
Kept(events) ==
  IF Len(events) > SDK_EVENT_BUFFER_LIMIT
  THEN SubSeq(events, Len(events) - SDK_EVENT_BUFFER_LIMIT + 1, Len(events)) ELSE events

\* A logged event, here its place among all of them.
toLogged(type) == [type |-> type, at |-> emitted.count + 1]

\* An event of a call, or of the download while the hook is mounted.
push(type) ==
  /\ emitted.count < MaxEvents
  /\ type \in ArtifactEvent => bridged
  /\ log' = Kept(Append(log, toLogged(type)))
  /\ claimStage' = IF stageFromEvent(type) = "none" THEN claimStage ELSE stageFromEvent(type)
  /\ emitted' = [count |-> emitted.count + 1,
                 stage |-> IF stageFromEvent(type) = "none" THEN emitted.stage
                           ELSE stageFromEvent(type)]
  /\ UNCHANGED bridged

\* setArtifactOnEvent, on mount and on unmount.
Bridge ==
  /\ bridged' = ~ bridged
  /\ UNCHANGED <<log, claimStage, emitted>>

clearEvents ==
  /\ log # <<>> /\ log' = <<>>
  /\ UNCHANGED <<bridged, claimStage, emitted>>

resetClaimStage ==
  /\ claimStage # "none" /\ claimStage' = "none"
  /\ emitted' = [emitted EXCEPT !.stage = "none"]
  /\ UNCHANGED <<log, bridged>>

----------------------------------------------------------------------------
(* The bundle.                                                             *)

redactSecrets(text) == text \ REDACT_PATTERNS

findLeakedSecret(text) == text \cap REDACT_PATTERNS

\* The last error comes from the network and is redacted; the whole is then scanned.
buildDebugBundle(recentEvents) ==
  trusted \cup recentEvents \cup (IF lastError = NoError THEN {} ELSE redactSecrets(lastError))

\* The label changes; the effect restarts its timer only if the status is another.
setStatus(status) == button' = [status |-> status, timer |-> TRUE]

\* handleClick up to its await; it passes no events.
copyDebugBundle(c) ==
  /\ copy[c] = Nothing
  /\ IF findLeakedSecret(buildDebugBundle({})) # {}
     THEN /\ setStatus("error")
          /\ handed' = [handed EXCEPT !.refused = @ \cup {findLeakedSecret(trusted) # {}}]
          /\ UNCHANGED copy
     ELSE /\ copy' = [copy EXCEPT ![c] = [written |-> TRUE, text |-> buildDebugBundle({})]]
          /\ UNCHANGED <<button, handed>>
  /\ UNCHANGED <<lastError, trusted>>

\* The clipboard takes it, or it is shown in a prompt to be copied by hand.
Copied(c) ==
  /\ copy[c].written
  /\ \/ setStatus("copied")
     \/ setStatus("fallback")
  /\ handed' = [handed EXCEPT !.copied = @ \cup {copy[c].text}]
  /\ copy' = [copy EXCEPT ![c] = Nothing]
  /\ UNCHANGED <<lastError, trusted>>

LabelTimer ==
  /\ button.timer
  /\ button' = [status |-> "idle", timer |-> FALSE]
  /\ UNCHANGED <<lastError, trusted, copy, handed>>

LogNext == (\E type \in SdkEvent : push(type)) \/ Bridge \/ clearEvents \/ resetClaimStage
BundleNext == (\E c \in Click : copyDebugBundle(c) \/ Copied(c)) \/ LabelTimer

BundleSpec == /\ LogInit /\ BundleInit
              /\ [][(LogNext /\ UNCHANGED bundleVars) \/ (BundleNext /\ UNCHANGED logVars)]_<<logVars, bundleVars>>

----------------------------------------------------------------------------

\* The bundle's contract (debugBundle.ts:5-20): no bundle that is handed out matches a
\* secret pattern, and an error of the network never keeps the user from reporting it: a
\* bundle is refused only for what the build put into it.  The log keeps the
\* latest events, in order, and the stage is the one of the last event that has one.
BundleIsSafe ==
  /\ \A text \in handed.copied : text \cap REDACT_PATTERNS = {}
  /\ FALSE \notin handed.refused
  /\ Len(log) <= SDK_EVENT_BUFFER_LIMIT
  /\ log # <<>> => log[Len(log)].at = emitted.count /\ log[1].at = emitted.count - Len(log) + 1
  /\ claimStage = emitted.stage
=============================================================================
