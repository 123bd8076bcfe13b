------------------------------ MODULE HttpGet ------------------------------
(***************************************************************************)
(* The scripts' one HTTP request (scripts/http.ts), under a deadline of    *)
(* its own and a signal of the caller's, and the probe for a testnet reset *)
(* that is made of one (scripts/testnet-health.ts).                        *)
(***************************************************************************)
VARIABLES
  get,       \* the request: phase, timer, listener, the signal given to fetch, outcome
  external,  \* the caller's signal
  deployed,  \* whether the ledger still has the contract
  resetProbe \* checkContractDeployed

getVars == <<get, external, deployed, resetProbe>>

GetInit ==
  /\ get = [phase |-> "idle", timer |-> FALSE, listener |-> FALSE, outcome |-> "none"]
  /\ external \in {"none", "quiet", "aborted"}
  /\ deployed \in BOOLEAN
  /\ resetProbe = "health"

\* The finally block, with what the request came to.
Settled(outcome) == get' = [phase |-> "done", timer |-> FALSE, listener |-> FALSE, outcome |-> outcome]

\* An already aborted signal never fires its event, so it is looked at first.
httpGet ==
  /\ get.phase = "idle"
  /\ IF external = "aborted"
     THEN Settled("aborted")
     ELSE get' = [get EXCEPT !.phase = "fetch", !.timer = TRUE, !.listener = external = "quiet"]
  /\ UNCHANGED <<external, deployed, resetProbe>>

Waits == {"fetch", "text", "errorText"}

\* Headers and bodies come apart; the server may fall silent before either.
Headers ==
  /\ get.phase = "fetch"
  /\ \E phase \in {"text", "errorText"} : get' = [get EXCEPT !.phase = phase]
  /\ UNCHANGED <<external, deployed, resetProbe>>

BodyRead ==
  /\ \/ get.phase = "text" /\ (Settled("json") \/ Settled("notJson"))
     \/ get.phase = "errorText" /\ Settled("httpError")
  /\ UNCHANGED <<external, deployed, resetProbe>>

\* The socket fails; a body that cannot be read does not hide the status.
Broken ==
  /\ get.phase \in Waits
  /\ Settled(IF get.phase = "errorText" THEN "httpError" ELSE "network")
  /\ UNCHANGED <<external, deployed, resetProbe>>

\* controller.abort ends whichever await is under way.
Aborts(reason) == Settled(IF get.phase = "errorText" THEN "httpError" ELSE reason)

FaultyDeadline ==
  /\ get.timer /\ get.phase = "fetch"
  /\ Aborts("timeout")
  /\ UNCHANGED <<external, deployed, resetProbe>>
Deadline ==
  /\ get.timer
  /\ Aborts("timeout")
  /\ UNCHANGED <<external, deployed, resetProbe>>

onExternalAbort ==
  /\ external = "quiet"
  /\ external' = "aborted"
  /\ IF get.listener THEN Aborts("aborted") ELSE UNCHANGED get
  /\ UNCHANGED <<deployed, resetProbe>>

\* checkContractDeployed: a health request that comes to nothing is somebody else's
\* problem; getLedgerEntries has no deadline, and its errors are the caller's.
checkContractDeployed ==
  /\ resetProbe = "health" /\ external = "none" /\ get.phase = "done"
  /\ resetProbe' = IF get.outcome = "json" THEN "entries" ELSE "ok"
  /\ UNCHANGED <<get, external, deployed>>
getLedgerEntries ==
  /\ resetProbe = "entries"
  /\ \/ resetProbe' = IF deployed THEN "ok" ELSE "reset"
     \/ resetProbe' = "threw"
  /\ UNCHANGED <<get, external, deployed>>

GetNext ==
  \/ httpGet \/ Headers \/ BodyRead \/ Broken \/ Deadline \/ onExternalAbort
  \/ checkContractDeployed \/ getLedgerEntries

GetSpec == GetInit /\ [][GetNext]_getVars

----------------------------------------------------------------------------

\* No await of a request is without the deadline that would end it; a request that is
\* over leaves neither its timer nor its listener behind; and the contract is reported as
\* wiped only by an RPC that answers, of a contract that is gone.
GetIsBounded ==
  /\ get.phase \in Waits => get.timer
  /\ get.phase = "done" => ~ get.timer /\ ~ get.listener
  /\ resetProbe = "reset" => get.outcome = "json" /\ ~ deployed

\* A request that was begun ends, wherever the server falls silent, headers or body, and
\* is bounded that way all the while.
EveryGetEnds ==
  /\ get.phase # "idle" ~> get.phase = "done"
  /\ []GetIsBounded
=============================================================================
