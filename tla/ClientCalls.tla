---------------------------- MODULE ClientCalls ----------------------------
(***************************************************************************)
(* A call of the client SDK from connect() to its answer                   *)
(* (packages/client/src/contract.ts, retry.ts, decodeError.ts): the shared *)
(* contract clients, the checks of the arguments, the repeated simulation, *)
(* the one submission and what the caller is told.  Each caller makes one  *)
(* call; all of them concern one circle.                                   *)
(***************************************************************************)
EXTENDS Naturals, Sequences, FiniteSets

CONSTANTS
  Account,      \* signers; contract, RPC and network are the same for all
  Caller,       \* calls, each with an onEvent of its own
  MaxRetries,   \* RetryPolicy.maxRetries
  CONTRACT_CLIENT_CACHE_LIMIT,  \* 16, and read nowhere
  MaxConnects,  \* bound: contract clients built
  MaxClears     \* bound: times the caches are cleared

ASSUME ClientAssumption ==
  /\ MaxRetries \in Nat /\ MaxConnects \in Nat /\ MaxClears \in Nat
  /\ CONTRACT_CLIENT_CACHE_LIMIT \in Nat

VARIABLES
  contractClientCache,  \* for each account the promise under its key, 0 if there is none
  promises,             \* ContractClient.from(): status, whose emitter the client carries,
                        \* and (history) who connected last
  vkCache,              \* the circle's verification key, once it was read
  clears,               \* (history) how often the caches were cleared
  session,              \* where each call stands
  tx                    \* the transaction of each call, as the network knows it

clientVars == <<contractClientCache, promises, vkCache, clears, session, tx>>

Phase == {"idle", "connecting", "connected", "simulating", "sleeping",
          "prepared", "polling", "done"}
Outcome == {"none", "ok", "ContractError", "RpcError", "thrown", "null", "connectError",
            "InvalidInputError"}

\* The calls, by what sets them apart: whether one submits, what becomes of its errors,
\* whether it checks its arguments first, whether it keeps its answer.  The names are
\* those of the calls the bodies make.
Kind == [writes : BOOLEAN, errors : {"decoded", "thrown", "swallowed"},
         checks : BOOLEAN, caches : BOOLEAN]
Write(checks) == [writes |-> TRUE, errors |-> "decoded", checks |-> checks, caches |-> FALSE]
View(errors)  == [writes |-> FALSE, errors |-> errors, checks |-> FALSE, caches |-> FALSE]

call_create_circle == Write(TRUE)
call_fund          == Write(FALSE)
call_claim         == Write(TRUE)
call_cancel_circle == Write(FALSE)
get_circle_meta    == View("decoded")
get_vk             == [View("decoded") EXCEPT !.caches = TRUE]
get_circle_count   == View("decoded")
get_round          == View("thrown")
get_pot            == View("thrown")
get_contributors   == View("thrown")
has_claimed        == View("thrown")
estimateClaimFee   == View("swallowed")

CallKind == {call_create_circle, call_fund, call_claim, call_cancel_circle, get_circle_meta,
             get_vk, get_circle_count, get_round, get_pot, get_contributors, has_claimed,
             estimateClaimFee}

\* valid: whether the arguments are what the call asks for.
Session == [account : Account, kind : CallKind, valid : BOOLEAN, phase : Phase,
            promise : 0 .. MaxConnects, attempt : Nat, sent : Nat, outcome : Outcome,
            heard : [{"attempt", "retry", "success", "failure"} -> Nat]]

\* What the RPC's error says: a contract error, and whether its text holds one of
\* the words by which isTransientError tells transient errors.  The two are
\* independent: a contract error carries a diagnostic log full of numbers.
Error == [contract : BOOLEAN, transient : BOOLEAN]
isTransientError(error) == error.transient
decodeContractError(error) == IF error.contract THEN "ContractError" ELSE "RpcError"

\* What the caller is told of a simulation that failed.
Told(kind, error) ==
  CASE kind.errors = "thrown"    -> "thrown"
    [] kind.errors = "swallowed" -> "null"
    [] kind.errors = "decoded"   -> decodeContractError(error)

----------------------------------------------------------------------------

ClientInit ==
  /\ contractClientCache = [a \in Account |-> 0]
  /\ promises = <<>>
  /\ vkCache = {} /\ clears = 0
  /\ session \in [Caller -> { [account |-> a, kind |-> k, valid |-> v, phase |-> "idle",
                               promise |-> 0, attempt |-> 0, sent |-> 0, outcome |-> "none",
                               heard |-> [attempt |-> 0, retry |-> 0, success |-> 0, failure |-> 0]] :
                              a \in Account, k \in CallKind, v \in BOOLEAN }]
  /\ \A c \in Caller : session[c].valid \/ session[c].kind.checks
  /\ tx = [c \in Caller |-> "none"]

\* Events of the call, through the emitter of its client.
emit(s, type) == [s EXCEPT !.heard[type] = @ + 1]

Finish(c, outcome) == session' = [session EXCEPT ![c].phase = "done", ![c].outcome = outcome]

\* connect: the cached promise, or a new one that is in the cache before its first await.
\* A keypair and a wallet of the same account are one signer here: the key names the account.
Cached(a) == contractClientCache[a] # 0

ConnectCached(c) ==
  LET p == contractClientCache[session[c].account] IN
  /\ session[c].phase = "idle" /\ Cached(session[c].account)
  /\ promises' = [promises EXCEPT ![p].newest = c]
  /\ session' = [session EXCEPT ![c].promise = p,
                   ![c].phase = IF promises[p].status = "ready" THEN "connected" ELSE "connecting"]
  /\ UNCHANGED <<contractClientCache, vkCache, clears, tx>>

FaultyRemember(a, p) == contractClientCache
Remember(a, p) == [contractClientCache EXCEPT ![a] = p]

ConnectNew(c) ==
  LET p == Len(promises) + 1 IN
  /\ session[c].phase = "idle" /\ ~ Cached(session[c].account)
  /\ p <= MaxConnects
  /\ promises' = Append(promises, [account |-> session[c].account, status |-> "pending",
                                   emitter |-> c, newest |-> c])
  /\ contractClientCache' = Remember(session[c].account, p)
  /\ session' = [session EXCEPT ![c].promise = p, ![c].phase = "connecting"]
  /\ UNCHANGED <<vkCache, clears, tx>>

\* The helper connectReadOnly calls is defined nowhere: it always throws.
ConnectReadOnly(c) ==
  /\ session[c].phase = "idle" /\ ~ session[c].kind.writes
  /\ Finish(c, "connectError")
  /\ UNCHANGED <<contractClientCache, promises, vkCache, clears, tx>>

Waiting(p) == { c \in Caller : session[c].phase = "connecting" /\ session[c].promise = p }

\* The promise settles; its creator resumes before the others that wait for it.
ClientBuilt(p) ==
  /\ promises[p].status = "pending"
  /\ promises' = [promises EXCEPT ![p].status = "ready"]
  /\ session' = [c \in Caller |->
                   IF c \in Waiting(p) THEN [session[c] EXCEPT !.phase = "connected"] ELSE session[c]]
  /\ UNCHANGED <<contractClientCache, vkCache, clears, tx>>

Forget(a) == [contractClientCache EXCEPT ![a] = 0]

ClientFails(p) ==
  /\ promises[p].status = "pending"
  /\ promises' = [promises EXCEPT ![p].status = "failed"]
  /\ contractClientCache' = Forget(promises[p].account)
  /\ session' = [c \in Caller |->
                   IF c \in Waiting(p)
                   THEN [session[c] EXCEPT !.phase = "done", !.outcome = "connectError"]
                   ELSE session[c]]
  /\ UNCHANGED <<vkCache, clears, tx>>

\* The caches may be cleared at any time, whatever is under way; if they are empty that
\* changes nothing.
clearContractClientCache ==
  /\ vkCache # {} \/ \E a \in Account : Cached(a)
  /\ clears < MaxClears /\ clears' = clears + 1
  /\ contractClientCache' = [a \in Account |-> 0]
  /\ vkCache' = {}
  /\ UNCHANGED <<promises, session, tx>>

----------------------------------------------------------------------------
(* The checks before anything is asked of the network.                     *)

Refuse(c) ==
  /\ session[c].phase = "connected" /\ session[c].kind.checks /\ ~ session[c].valid
  /\ Finish(c, "InvalidInputError")
  /\ UNCHANGED <<contractClientCache, promises, vkCache, clears, tx>>

\* getVk answers from the cache.
ReadCached(c) ==
  /\ session[c].phase = "connected" /\ session[c].kind.caches /\ vkCache # {}
  /\ Finish(c, "ok")
  /\ UNCHANGED <<contractClientCache, promises, vkCache, clears, tx>>

\* Neither of the two.
Proceeds(s) == s.valid /\ ~ (s.kind.caches /\ vkCache # {})

----------------------------------------------------------------------------
(* withRetry around the simulation.                                        *)

Attempt(c) ==
  /\ \/ session[c].phase = "connected" /\ Proceeds(session[c])
     \/ session[c].phase = "sleeping"
  /\ session' = [session EXCEPT ![c] = [emit(@, "attempt") EXCEPT !.phase = "simulating"]]
  /\ UNCHANGED <<contractClientCache, promises, vkCache, clears, tx>>

Simulated(c) ==
  /\ session[c].phase = "simulating"
  /\ session' = [session EXCEPT ![c] = [emit(@, "success") EXCEPT !.phase = "prepared"]]
  /\ UNCHANGED <<contractClientCache, promises, vkCache, clears, tx>>

\* A read takes the simulated result; getVk keeps it.
Read(c) ==
  /\ session[c].phase = "prepared" /\ ~ session[c].kind.writes
  /\ vkCache' = IF session[c].kind.caches THEN {"vk"} ELSE vkCache
  /\ Finish(c, "ok")
  /\ UNCHANGED <<contractClientCache, promises, clears, tx>>

\* A simulation that ended in an error shows when its result is taken, outside withRetry.
ReadFails(c, error) ==
  /\ session[c].phase = "prepared" /\ ~ session[c].kind.writes
  /\ Finish(c, Told(session[c].kind, error))
  /\ UNCHANGED <<contractClientCache, promises, vkCache, clears, tx>>

GivesUp(error, attempt) == ~ isTransientError(error) \/ attempt >= MaxRetries

SimulationFails(c, error) ==
  /\ session[c].phase = "simulating"
  /\ session' = [session EXCEPT ![c] =
       IF GivesUp(error, session[c].attempt)
       THEN [emit(@, "failure") EXCEPT !.phase = "done", !.outcome = Told(session[c].kind, error)]
       ELSE [emit(@, "retry") EXCEPT !.phase = "sleeping", !.attempt = session[c].attempt + 1]]
  /\ UNCHANGED <<contractClientCache, promises, vkCache, clears, tx>>

----------------------------------------------------------------------------
(* signAndSend, once.                                                      *)

\* The transaction reaches the network, whether the answer says so or not.
Send(c) ==
  /\ session[c].phase = "prepared" /\ session[c].kind.writes
  /\ session' = [session EXCEPT ![c].phase = "polling", ![c].sent = @ + 1]
  /\ tx' = [tx EXCEPT ![c] = "pending"]
  /\ UNCHANGED <<contractClientCache, promises, vkCache, clears>>

Execute(c) ==
  /\ tx[c] = "pending"
  /\ \E result \in {"applied", "failed", "expired"} : tx' = [tx EXCEPT ![c] = result]
  /\ UNCHANGED <<contractClientCache, promises, vkCache, clears, session>>

\* The network's last word.  populateTxResult looks at no status, so a failed
\* transaction is an error only if signAndSend throws it.
Answer(c) ==
  /\ session[c].phase = "polling" /\ tx[c] \in {"applied", "failed"}
  /\ \/ Finish(c, "ok")
     \/ tx[c] = "failed" /\ Finish(c, "ContractError")
  /\ UNCHANGED <<contractClientCache, promises, vkCache, clears, tx>>

\* The wallet refuses, the network cannot be reached, the polling times out, or the
\* answer has no hash: whatever became of the transaction, it is an RpcError.  A
\* simulation that returned an error surfaces here too, before anything is sent.
FaultySubmissionFails(c, error) ==
  /\ session[c].phase \in {"prepared", "polling"}
  /\ session' = [session EXCEPT ![c].phase = "sleeping"]
  /\ UNCHANGED <<contractClientCache, promises, vkCache, clears, tx>>
SubmissionFails(c, error) ==
  /\ session[c].phase \in {"prepared", "polling"} /\ session[c].kind.writes
  /\ error.contract => session[c].phase = "prepared"
  /\ Finish(c, decodeContractError(error))
  /\ UNCHANGED <<contractClientCache, promises, vkCache, clears, tx>>

Step(c) ==
  \/ ConnectCached(c) \/ ConnectNew(c) \/ ConnectReadOnly(c)
  \/ Refuse(c) \/ ReadCached(c)
  \/ Attempt(c) \/ Simulated(c) \/ Read(c) \/ Send(c) \/ Answer(c)
  \/ \E error \in Error :
       SimulationFails(c, error) \/ ReadFails(c, error) \/ SubmissionFails(c, error)
Settle(p) == p \in DOMAIN promises /\ (ClientBuilt(p) \/ ClientFails(p))

ClientNext ==
  \/ \E c \in Caller : Step(c) \/ Execute(c)
  \/ \E p \in 1 .. MaxConnects : Settle(p)
  \/ clearContractClientCache

ClientSpec == ClientInit /\ [][ClientNext]_clientVars

----------------------------------------------------------------------------
(* Properties.                                                             *)

\* As long as no more accounts connected than the documented capacity of the cache
\* (beyond it the documents say that a client is evicted, and the code keeps it): callers
\* that overlap share one client of their account, which is one that signs for them, and
\* another is built only after a failure or a clear.  A connection that fails is not
\* remembered, but one that fails after a clear forgets the client made since: there is
\* still at most one more client alive for each clear.
Connected == { promises[p].account : p \in DOMAIN promises }
Alive(a) == { p \in DOMAIN promises : promises[p].account = a /\ promises[p].status # "failed" }

ClientsAreShared ==
  Cardinality(Connected) <= CONTRACT_CLIENT_CACHE_LIMIT =>
    /\ \A a \in Account :
         /\ Cardinality(Alive(a)) <= 1 + clears
         /\ Cached(a) => contractClientCache[a] \in Alive(a)
    /\ \A c \in Caller :
         session[c].promise # 0 => promises[session[c].promise].account = session[c].account

\* What a caller is told holds for good.  A write is submitted once, however many
\* simulations failed and whatever became of the answer (retry.ts: a retry could
\* double-spend or replay), and never with arguments its checks refuse; one that is
\* reported as done is settled on the ledger, and one that ended with a contract error
\* changed nothing and will not.  Only an RpcError leaves the caller in doubt.  A view
\* that answers has asked the chain, or another getVk has.
ReportIsTrue ==
  \A c \in Caller :
    LET s == session[c] IN
    /\ s.sent <= 1 /\ (s.sent = 1 => s.valid)
    /\ s.outcome = "ok" /\ s.kind.writes => tx[c] \in {"applied", "failed"}
    /\ s.outcome = "ContractError" => tx[c] \in {"none", "failed"}
    /\ s.outcome = "ok" /\ ~ s.kind.writes =>
         \E d \in Caller : session[d].heard.success = 1
                            /\ (d = c \/ (s.kind.caches /\ session[d].kind.caches))

\* What the comment in connect and its test say: the handler of the newest caller
\* is the one that hears a client.
NewestCallerIsHeard == \A p \in DOMAIN promises : promises[p].emitter = promises[p].newest
=============================================================================
