---------------------------- MODULE ClientProofs ----------------------------
(***************************************************************************)
(* Theorems about the parts of the client and the tools around it, for any *)
(* number of accounts, callers, retries, requests, keys and depths: the    *)
(* contract calls, the signer, friendbot, the mock chain, the artifacts,   *)
(* the constraint guard, what the browser keeps, the debug bundle, what is *)
(* told of an error, the doctor, the circle screen as it is shown, and the *)
(* scripts' request.                                                       *)
(***************************************************************************)
EXTENDS ClientCalls, MockChain, Friendbot, Wallet, Artifacts, ConstraintGuard,
        Browser, DebugBundle, Errors, Doctor, ScreenView, HttpGet,
        FiniteSetTheorems, SequenceTheorems, WellFoundedInduction, TLAPS

----------------------------------------------------------------------------
(* The shared clients of connect().                                         *)

Promise == [account : Account, status : {"pending", "ready", "failed"}, emitter : Caller, newest : Caller]

\* What the cache holds is alive.  An account has at most one client for each clear and one
\* more, and not even that one while nothing is cached for it.
AliveInv ==
  \A a \in Account :
    /\ Cardinality(Alive(a)) <= 1 + clears
    /\ contractClientCache[a] = 0 => Cardinality(Alive(a)) <= clears
    /\ contractClientCache[a] # 0 => contractClientCache[a] \in Alive(a)

\* A call waits for a client of its own account.
OwnInv ==
  \A c \in Caller : session[c].promise # 0 =>
    /\ session[c].promise \in DOMAIN promises
    /\ promises[session[c].promise].account = session[c].account

CacheInv ==
  /\ promises \in Seq(Promise) /\ Len(promises) <= MaxConnects
  /\ contractClientCache \in [Account -> Nat] /\ clears \in Nat
  /\ AliveInv /\ OwnInv

\* The states of one call: what was sent, heard and told at each phase.
CallOK(s, t, known) ==
  /\ s \in Session /\ t \in {"none", "pending", "applied", "failed", "expired"}
  /\ s.sent \in {0, 1} /\ (s.sent = 1 => s.valid /\ s.kind.writes)
  /\ (s.sent = 0) <=> (t = "none")
  /\ s.phase # "done" => s.outcome = "none" /\ (s.sent = 1 <=> s.phase = "polling")
  /\ s.phase \in {"simulating", "sleeping", "prepared", "polling"} => s.valid
  /\ s.phase \in {"idle", "connecting", "connected", "simulating", "sleeping"} => s.heard["success"] = 0
  /\ s.phase \in {"prepared", "polling"} => s.heard["success"] = 1
  /\ s.outcome = "ok" /\ s.kind.writes => t \in {"applied", "failed"}
  /\ s.outcome = "ContractError" => t \in {"none", "failed"}
  /\ s.outcome = "ok" /\ ~ s.kind.writes => s.heard["success"] = 1 \/ (s.kind.caches /\ known)

\* Some getVk has asked the chain; a clear does not change that.
AskedOnce == \E d \in Caller : session[d].heard["success"] = 1 /\ session[d].kind.caches

CallsInv ==
  /\ session \in [Caller -> Session]
  /\ tx \in [Caller -> {"none", "pending", "applied", "failed", "expired"}]
  /\ \A c \in Caller : CallOK(session[c], tx[c], AskedOnce)
  /\ vkCache # {} => AskedOnce

\* Writes keep no answer and are told a decoded error.
LEMMA Kinds ==
  ASSUME NEW kind \in CallKind
  PROVE  /\ kind \in Kind
         /\ kind.writes => ~ kind.caches /\ kind.errors = "decoded"
<1>1. kind \in {Write(TRUE), Write(FALSE), View("decoded"), View("thrown"), View("swallowed"),
                [View("decoded") EXCEPT !.caches = TRUE]}
  BY DEF CallKind, call_create_circle, call_fund, call_claim, call_cancel_circle, get_circle_meta,
         get_vk, get_circle_count, get_round, get_pot, get_contributors, has_claimed, estimateClaimFee
<1>2. ASSUME NEW checks \in BOOLEAN, kind = Write(checks)
      PROVE  kind \in Kind /\ ~ kind.caches /\ kind.errors = "decoded"
  BY <1>2 DEF Write, Kind
<1>3. ASSUME NEW errors \in {"decoded", "thrown", "swallowed"}, kind = View(errors)
      PROVE  kind \in Kind /\ ~ kind.writes
  BY <1>3 DEF View, Kind
<1>4. CASE kind = [View("decoded") EXCEPT !.caches = TRUE]
  BY <1>4 DEF View, Kind
<1>5. QED
  BY <1>1, <1>2, <1>3, <1>4

\* An event of the right kind leaves a call a call.
LEMMA EmitType ==
  ASSUME NEW s \in Session, NEW type \in {"attempt", "retry", "success", "failure"}
  PROVE  LET e == emit(s, type) IN
           /\ e \in Session
           /\ e.kind = s.kind /\ e.sent = s.sent /\ e.valid = s.valid
           /\ e.outcome = s.outcome /\ e.phase = s.phase /\ e.attempt = s.attempt
           /\ e.heard["success"] = IF type = "success" THEN s.heard["success"] + 1 ELSE s.heard["success"]
<1>1. /\ emit(s, type) \in Session
      /\ emit(s, type) = [s EXCEPT !.heard = [s.heard EXCEPT ![type] = s.heard[type] + 1]]
  BY DEF emit, Session
<1>2. QED
  BY <1>1 DEF Session

LEMMA ToldType ==
  ASSUME NEW kind \in Kind, NEW error \in Error
  PROVE  /\ Told(kind, error) \in {"thrown", "null", "ContractError", "RpcError"}
         /\ Told(kind, error) # "ok"
BY DEF Told, decodeContractError, Kind

LEMMA PromiseTypes ==
  ASSUME promises \in Seq(Promise), NEW p \in DOMAIN promises
  PROVE  /\ p \in Nat \ {0} /\ promises[p] \in Promise /\ promises[p].account \in Account
<1>1. promises \in [1 .. Len(promises) -> Promise] /\ Len(promises) \in Nat
  OBVIOUS
<1>2. QED
  BY <1>1 DEF Promise

\* There are only so many clients.
LEMMA AliveIsFinite ==
  ASSUME promises \in Seq(Promise), NEW a
  PROVE  /\ IsFiniteSet(Alive(a)) /\ Cardinality(Alive(a)) \in Nat
         /\ Alive(a) \subseteq DOMAIN promises
<1>1. IsFiniteSet(1 .. Len(promises))
  BY FS_Interval
<1>2. Alive(a) \subseteq 1 .. Len(promises)
  BY DEF Alive
<1>3. IsFiniteSet(Alive(a))
  BY <1>1, <1>2, FS_Subset
<1>4. QED
  BY <1>2, <1>3, FS_CardinalityType

LEMMA CacheStart == ClientInit => CacheInv
<1> SUFFICES ASSUME ClientInit  PROVE CacheInv
  OBVIOUS
<1>1. promises = <<>> /\ promises \in Seq(Promise) /\ Len(promises) = 0 /\ clears = 0
  BY DEF ClientInit
<1>2. ASSUME NEW a \in Account  PROVE Cardinality(Alive(a)) = 0
  BY <1>1, FS_EmptySet DEF Alive
<1>3. AliveInv
  BY <1>1, <1>2 DEF AliveInv, ClientInit
<1>4. OwnInv
  <2>1. ASSUME NEW c \in Caller  PROVE session[c].promise = 0
    BY DEF ClientInit
  <2>2. QED
    BY <2>1 DEF OwnInv
<1>5. contractClientCache \in [Account -> Nat]
  BY DEF ClientInit
<1>6. QED
  BY <1>1, <1>3, <1>4, <1>5, ClientAssumption DEF CacheInv

LEMMA CallsStart == ClientInit => CallsInv
<1>1. SUFFICES ASSUME ClientInit  PROVE CallsInv
  OBVIOUS
<1>2. ASSUME NEW c \in Caller
      PROVE  session[c] \in Session /\ CallOK(session[c], tx[c], AskedOnce)
  <2>1. PICK a \in Account, k \in CallKind, v \in BOOLEAN :
          session[c] = [account |-> a, kind |-> k, valid |-> v, phase |-> "idle", promise |-> 0,
                        attempt |-> 0, sent |-> 0, outcome |-> "none",
                        heard |-> [attempt |-> 0, retry |-> 0, success |-> 0, failure |-> 0]]
    BY <1>1 DEF ClientInit
  <2>2. [attempt |-> 0, retry |-> 0, success |-> 0, failure |-> 0]
          \in [{"attempt", "retry", "success", "failure"} -> Nat]
    OBVIOUS
  <2>3. session[c] \in Session
    BY <2>1, <2>2, ClientAssumption DEF Session, Phase, Outcome
  <2>4. tx[c] = "none"
    BY <1>1 DEF ClientInit
  <2>5. QED
    BY <2>1, <2>3, <2>4 DEF CallOK
<1>3. vkCache = {} /\ session \in [Caller -> Session]
  <2> DEFINE S == { [account |-> a, kind |-> k, valid |-> v, phase |-> "idle",
                     promise |-> 0, attempt |-> 0, sent |-> 0, outcome |-> "none",
                     heard |-> [attempt |-> 0, retry |-> 0, success |-> 0, failure |-> 0]] :
                     a \in Account, k \in CallKind, v \in BOOLEAN }
  <2>1. session \in [Caller -> S]
    BY <1>1 DEF ClientInit
  <2> HIDE DEF S
  <2>2. session \in [Caller -> Session]
    BY <1>2, <2>1
  <2>3. QED
    BY <1>1, <2>2 DEF ClientInit
<1>4. tx \in [Caller -> {"none", "pending", "applied", "failed", "expired"}]
  BY <1>1 DEF ClientInit
<1>5. QED
  BY <1>2, <1>3, <1>4 DEF CallsInv

\* A step that changes no account and no promise's standing changes no one's clients.
LEMMA AliveStays ==
  ASSUME DOMAIN promises' = DOMAIN promises,
         \A q \in DOMAIN promises : /\ promises'[q].account = promises[q].account
                                    /\ promises'[q].status = "failed" <=> promises[q].status = "failed",
         NEW a
  PROVE  Alive(a)' = Alive(a)
BY DEF Alive

\* The calls keep their accounts, and but for connect the promises they wait for.
LEMMA CallsKeepTheirOwn ==
  ASSUME CallsInv, ClientNext, NEW c \in Caller
  PROVE  /\ session'[c].account = session[c].account
         /\ session'[c].promise # session[c].promise => ConnectCached(c) \/ ConnectNew(c)
<1>1. session \in [Caller -> Session]
  BY DEF CallsInv
<1>2. ASSUME NEW d \in Caller, Step(d)
      PROVE  /\ session'[c].account = session[c].account
             /\ session'[c].promise # session[c].promise => ConnectCached(c) \/ ConnectNew(c)
  <2>1. ASSUME NEW s, session' = [session EXCEPT ![d] = s], s.account = session[d].account,
               s.promise # session[d].promise => ConnectCached(d) \/ ConnectNew(d)
        PROVE  /\ session'[c].account = session[c].account
               /\ session'[c].promise # session[c].promise => ConnectCached(c) \/ ConnectNew(c)
    <3>1. CASE c = d
      BY <1>1, <2>1, <3>1
    <3>2. CASE c # d
      BY <1>1, <2>1, <3>2
    <3>3. QED
      BY <3>1, <3>2
  <2>2. session[d] \in Session
    BY <1>1
  <2>3. CASE ConnectCached(d) \/ ConnectNew(d)
    <3>1. PICK p, ph : session' = [session EXCEPT ![d] = [session[d] EXCEPT !.promise = p, !.phase = ph]]
      <4> DEFINE p1 == contractClientCache[session[d].account]
                 ph1 == IF promises[p1].status = "ready" THEN "connected" ELSE "connecting"
                 p2 == Len(promises) + 1
      <4>1. CASE ConnectCached(d)
        <5>1. session' = [session EXCEPT ![d] = [session[d] EXCEPT !.promise = p1, !.phase = ph1]]
          BY <4>1 DEF ConnectCached
        <5> HIDE DEF p1, ph1
        <5>2. QED
          BY <5>1
      <4>2. CASE ConnectNew(d)
        <5>1. session' = [session EXCEPT ![d] = [session[d] EXCEPT !.promise = p2, !.phase = "connecting"]]
          BY <4>2 DEF ConnectNew
        <5> HIDE DEF p2
        <5>2. QED
          BY <5>1
      <4>3. QED
        BY <2>3, <4>1, <4>2
    <3>2. [session[d] EXCEPT !.promise = p, !.phase = ph].account = session[d].account
      BY <2>2 DEF Session
    <3>3. QED
      BY <2>1, <2>3, <3>1, <3>2
  <2>4. ASSUME NEW outcome, session' = [session EXCEPT ![d] = [session[d] EXCEPT
                                          !.phase = "done", !.outcome = outcome]]
        PROVE  /\ session'[c].account = session[c].account
               /\ session'[c].promise # session[c].promise => ConnectCached(c) \/ ConnectNew(c)
    <3> DEFINE s == [session[d] EXCEPT !.phase = "done", !.outcome = outcome]
    <3>1. s.account = session[d].account /\ s.promise = session[d].promise
      BY <2>2 DEF Session
    <3> HIDE DEF s
    <3>2. QED
      BY <2>1, <2>4, <3>1 DEF s
  <2>5. CASE Refuse(d) \/ ConnectReadOnly(d) \/ ReadCached(d) \/ Read(d) \/ Answer(d)
    BY <2>4, <2>5 DEF Refuse, ConnectReadOnly, ReadCached, Read, Answer, Finish
  <2>6. CASE \E error \in Error : ReadFails(d, error) \/ SubmissionFails(d, error)
    BY <2>4, <2>6 DEF ReadFails, SubmissionFails, Finish
  <2>7. CASE Send(d)
    <3> DEFINE s == [session[d] EXCEPT !.phase = "polling", !.sent = session[d].sent + 1]
    <3>1. session' = [session EXCEPT ![d] = s]
      BY <2>7 DEF Send
    <3>2. s.account = session[d].account /\ s.promise = session[d].promise
      BY <2>2 DEF Session
    <3> HIDE DEF s
    <3>3. QED
      BY <2>1, <3>1, <3>2
  <2>8. ASSUME NEW type \in {"attempt", "retry", "success", "failure"}
        PROVE  LET e == emit(session[d], type) IN
                 e \in Session /\ e.account = session[d].account /\ e.promise = session[d].promise
    <3>1. emit(session[d], type) = [session[d] EXCEPT !.heard =
                                      [session[d].heard EXCEPT ![type] = session[d].heard[type] + 1]]
      BY DEF emit
    <3>2. QED
      BY <2>2, <3>1, EmitType DEF Session
  <2>9. ASSUME NEW e \in Session, e.account = session[d].account, e.promise = session[d].promise,
               NEW ph, NEW o, NEW n
        PROVE  /\ [e EXCEPT !.phase = ph].account = session[d].account
               /\ [e EXCEPT !.phase = ph].promise = session[d].promise
               /\ [e EXCEPT !.phase = ph, !.outcome = o].account = session[d].account
               /\ [e EXCEPT !.phase = ph, !.outcome = o].promise = session[d].promise
               /\ [e EXCEPT !.phase = ph, !.attempt = n].account = session[d].account
               /\ [e EXCEPT !.phase = ph, !.attempt = n].promise = session[d].promise
    BY <2>9 DEF Session
  <2>10. CASE Attempt(d) \/ Simulated(d)
    <3>1. PICK type \in {"attempt", "success"}, ph \in {"simulating", "prepared"} :
            session' = [session EXCEPT ![d] = [emit(session[d], type) EXCEPT !.phase = ph]]
      BY <2>10 DEF Attempt, Simulated
    <3> DEFINE e == emit(session[d], type)
               s == [e EXCEPT !.phase = ph]
    <3>2. e \in Session /\ e.account = session[d].account /\ e.promise = session[d].promise
      BY <2>8
    <3>3. session' = [session EXCEPT ![d] = s]
      BY <3>1
    <3> HIDE DEF e
    <3>4. s.account = session[d].account /\ s.promise = session[d].promise
      BY <2>9, <3>2
    <3> HIDE DEF s
    <3>5. QED
      BY <2>1, <3>3, <3>4
  <2>11. ASSUME NEW error \in Error, SimulationFails(d, error)
        PROVE  /\ session'[c].account = session[c].account
               /\ session'[c].promise # session[c].promise => ConnectCached(c) \/ ConnectNew(c)
    <3> DEFINE e == emit(session[d], "failure")
               f == emit(session[d], "retry")
               told == Told(session[d].kind, error)
               n == session[d].attempt + 1
               s == IF GivesUp(error, session[d].attempt)
                    THEN [e EXCEPT !.phase = "done", !.outcome = told]
                    ELSE [f EXCEPT !.phase = "sleeping", !.attempt = n]
    <3>1. session' = [session EXCEPT ![d] = s]
      BY <2>11 DEF SimulationFails
    <3>2. /\ e \in Session /\ e.account = session[d].account /\ e.promise = session[d].promise
          /\ f \in Session /\ f.account = session[d].account /\ f.promise = session[d].promise
      BY <2>8
    <3> HIDE DEF e, f, told, n
    <3>3. s.account = session[d].account /\ s.promise = session[d].promise
      BY <2>9, <3>2
    <3> HIDE DEF s
    <3>4. QED
      BY <2>1, <3>1, <3>3
  <2>12. QED
    BY <1>2, <2>3, <2>5, <2>6, <2>7, <2>10, <2>11 DEF Step
<1>3. CASE \E p \in 1 .. MaxConnects : Settle(p)
  <2>1. \/ session'[c] = session[c]
        \/ session'[c] = [session[c] EXCEPT !.phase = "connected"]
        \/ session'[c] = [session[c] EXCEPT !.phase = "done", !.outcome = "connectError"]
    BY <1>3 DEF Settle, ClientBuilt, ClientFails
  <2>2. session[c] \in Session
    BY <1>1
  <2>3. QED
    BY <2>1, <2>2 DEF Session
<1>4. CASE (\E d \in Caller : Execute(d)) \/ clearContractClientCache
  BY <1>4 DEF Execute, clearContractClientCache
<1>5. QED
  BY <1>2, <1>3, <1>4 DEF ClientNext

\* connect's promises, and the cache, across every step.
LEMMA CacheIsKept == CacheInv /\ CallsInv /\ [ClientNext]_clientVars => CacheInv'
<1> SUFFICES ASSUME CacheInv, CallsInv, [ClientNext]_clientVars  PROVE CacheInv'
  OBVIOUS
<1>0. /\ promises \in Seq(Promise) /\ Len(promises) \in Nat /\ DOMAIN promises = 1 .. Len(promises)
      /\ contractClientCache \in [Account -> Nat] /\ clears \in Nat
      /\ \A c \in Caller : session[c] \in Session /\ session[c].account \in Account
  BY DEF CacheInv, CallsInv, Session
\* A step that connects nobody.
<1>1. ASSUME ~ (\E c \in Caller : ConnectCached(c) \/ ConnectNew(c)),
             DOMAIN promises' = DOMAIN promises,
             \A q \in DOMAIN promises : promises'[q].account = promises[q].account
      PROVE  OwnInv'
  <2>1. ASSUME NEW c \in Caller
        PROVE  session'[c].account = session[c].account /\ session'[c].promise = session[c].promise
    BY <1>1, CallsKeepTheirOwn DEF clientVars
  <2>2. QED
    BY <1>1, <2>1 DEF OwnInv, CacheInv
<1>2. ASSUME NEW c \in Caller, ConnectCached(c)  PROVE CacheInv'
  <2> DEFINE p == contractClientCache[session[c].account]
             s == [session[c] EXCEPT !.promise = p,
                     !.phase = IF promises[p].status = "ready" THEN "connected" ELSE "connecting"]
  <2>1. p \in Alive(session[c].account)
    BY <1>0, <1>2 DEF ConnectCached, Cached, CacheInv, AliveInv
  <2>2. p \in DOMAIN promises /\ promises[p].account = session[c].account
    BY <2>1 DEF Alive
  <2>3. /\ promises' = [promises EXCEPT ![p] = [promises[p] EXCEPT !.newest = c]]
        /\ contractClientCache' = contractClientCache /\ clears' = clears
        /\ session' = [session EXCEPT ![c] = s]
    BY <1>2 DEF ConnectCached
  <2>4. s.promise = p /\ s.account = session[c].account
    BY <1>0 DEF Session
  <2> HIDE DEF p, s
  <2>5. /\ promises' \in Seq(Promise) /\ DOMAIN promises' = DOMAIN promises
        /\ Len(promises') = Len(promises)
    <3>1. [promises[p] EXCEPT !.newest = c] \in Promise
      BY <1>0, <2>2, PromiseTypes DEF Promise
    <3>2. QED
      BY <1>0, <2>2, <2>3, <3>1
  <2>6. \A q \in DOMAIN promises : /\ promises'[q].account = promises[q].account
                                   /\ promises'[q].status = promises[q].status
    BY <1>0, <2>2, <2>3, PromiseTypes DEF Promise
  <2>7. \A a \in Account : Alive(a)' = Alive(a)
    BY <2>5, <2>6, AliveStays
  <2>8. AliveInv'
    BY <2>3, <2>7 DEF AliveInv, CacheInv
  <2>9. OwnInv'
    <3>1. ASSUME NEW d \in Caller
          PROVE  session'[d] = IF d = c THEN s ELSE session[d]
      BY <2>3 DEF CallsInv
    <3>2. QED
      BY <2>2, <2>4, <2>5, <2>6, <3>1 DEF OwnInv, CacheInv
  <2>10. QED
    BY <1>0, <2>3, <2>5, <2>8, <2>9 DEF CacheInv
<1>3. ASSUME NEW c \in Caller, ConnectNew(c)  PROVE CacheInv'
  <2>0. PICK a \in Account, p \in Nat : a = session[c].account /\ p = Len(promises) + 1
    BY <1>0
  <2> DEFINE new == [account |-> a, status |-> "pending", emitter |-> c, newest |-> c]
             s == [session[c] EXCEPT !.promise = p, !.phase = "connecting"]
  <2>1. new \in Promise
    BY DEF Promise
  <2>2. /\ promises' = Append(promises, new) /\ contractClientCache' = [contractClientCache EXCEPT ![a] = p]
        /\ clears' = clears /\ session' = [session EXCEPT ![c] = s] /\ p <= MaxConnects
        /\ contractClientCache[a] = 0
    BY <1>3, <2>0 DEF ConnectNew, Remember, Cached
  <2>3. s.promise = p /\ s.account = a
    BY <1>0, <2>0 DEF Session
  <2>4. new.account = a /\ new.status = "pending"
    OBVIOUS
  <2> HIDE DEF new, s
  <2>5. /\ promises' \in Seq(Promise) /\ DOMAIN promises' = DOMAIN promises \cup {p}
        /\ p \notin DOMAIN promises /\ p \in Nat /\ p # 0 /\ Len(promises') = p
        /\ promises'[p] = new /\ \A q \in DOMAIN promises : promises'[q] = promises[q]
    BY <1>0, <2>0, <2>1, <2>2
  <2>6. Alive(a)' = Alive(a) \cup {p} /\ p \notin Alive(a)
    <3>1. ASSUME NEW q \in DOMAIN promises
          PROVE  q # p /\ promises'[q].account = promises[q].account
                 /\ promises'[q].status = promises[q].status
      BY <2>5
    <3>2. promises'[p].account = a /\ promises'[p].status # "failed"
      BY <2>4, <2>5
    <3>3. QED
      BY <2>5, <3>1, <3>2 DEF Alive
  <2>7. \A b \in Account : b # a => Alive(b)' = Alive(b)
    BY <2>4, <2>5 DEF Alive
  <2>8. Cardinality(Alive(a)') = Cardinality(Alive(a)) + 1 /\ Cardinality(Alive(a)) \in Nat
    <3>1. IsFiniteSet(Alive(a)) /\ Cardinality(Alive(a)) \in Nat
      BY <1>0, AliveIsFinite
    <3>2. QED
      BY <2>6, <3>1, FS_AddElement
  <2>9. Cardinality(Alive(a)) <= clears
    BY <2>1, <2>2 DEF CacheInv, AliveInv
  <2>10. AliveInv'
    <3>1. ASSUME NEW b \in Account
          PROVE  /\ Cardinality(Alive(b)') <= 1 + clears'
                 /\ contractClientCache'[b] = 0 => Cardinality(Alive(b)') <= clears'
                 /\ contractClientCache'[b] # 0 => contractClientCache'[b] \in Alive(b)'
      <4>1. CASE b = a
        <5>1. contractClientCache'[a] = p
          BY <1>0, <2>1, <2>2
        <5>2. p # 0 /\ p \in Alive(a)'
          BY <2>5, <2>6
        <5>3. Cardinality(Alive(a)') <= 1 + clears
          BY <1>0, <2>8, <2>9
        <5>4. QED
          BY <2>2, <4>1, <5>1, <5>2, <5>3
      <4>2. CASE b # a
        BY <1>0, <2>2, <2>7, <4>2 DEF CacheInv, AliveInv
      <4>3. QED
        BY <4>1, <4>2
    <3>2. QED
      BY <3>1 DEF AliveInv
  <2>11. OwnInv'
    <3>1. ASSUME NEW d \in Caller
          PROVE  session'[d] = IF d = c THEN s ELSE session[d]
      BY <2>2 DEF CallsInv
    <3>2. QED
      BY <2>3, <2>4, <2>5, <3>1 DEF OwnInv, CacheInv
  <2>12. QED
    BY <1>0, <2>1, <2>2, <2>5, <2>10, <2>11 DEF CacheInv
<1>4. ASSUME NEW p \in DOMAIN promises, ClientBuilt(p) \/ ClientFails(p),
             ~ (\E c \in Caller : ConnectCached(c) \/ ConnectNew(c))
      PROVE  CacheInv'
  <2>0. PICK a \in Account : a = promises[p].account
    BY <1>0, PromiseTypes
  <2>1. PICK status \in {"ready", "failed"} :
          /\ promises' = [promises EXCEPT ![p] = [promises[p] EXCEPT !.status = status]]
          /\ contractClientCache' = IF status = "ready" THEN contractClientCache
                                    ELSE [contractClientCache EXCEPT ![a] = 0]
          /\ promises[p].status = "pending" /\ clears' = clears
    BY <1>4, <2>0 DEF ClientBuilt, ClientFails, Forget
  <2>2. /\ promises' \in Seq(Promise) /\ DOMAIN promises' = DOMAIN promises
        /\ Len(promises') = Len(promises)
    <3>1. [promises[p] EXCEPT !.status = status] \in Promise
      BY <1>0, PromiseTypes DEF Promise
    <3>2. QED
      BY <1>0, <2>1, <3>1
  <2>3. \A q \in DOMAIN promises : /\ promises'[q].account = promises[q].account
                                   /\ promises'[q].status = IF q = p THEN status ELSE promises[q].status
    BY <1>0, <2>1, PromiseTypes DEF Promise
  <2>5. AliveInv'
    <3>1. CASE status = "ready"
      <4>1. \A b \in Account : Alive(b)' = Alive(b)
        BY <2>1, <2>2, <2>3, <3>1, AliveStays
      <4>2. QED
        BY <2>1, <3>1, <4>1 DEF AliveInv, CacheInv
    <3>2. CASE status = "failed"
      <4>1. Alive(a)' = Alive(a) \ {p} /\ p \in Alive(a)
        BY <2>0, <2>1, <2>2, <2>3, <3>2 DEF Alive
      <4>2. \A b \in Account : b # a => Alive(b)' = Alive(b)
        BY <2>0, <2>1, <2>2, <2>3, <3>2 DEF Alive
      <4>3. Cardinality(Alive(a)') = Cardinality(Alive(a)) - 1 /\ Cardinality(Alive(a)) \in Nat
        <5>1. IsFiniteSet(Alive(a)) /\ Cardinality(Alive(a)) \in Nat
          BY <1>0, AliveIsFinite
        <5>2. QED
          BY <4>1, <5>1, FS_RemoveElement
      <4>4. ASSUME NEW b \in Account
            PROVE  /\ Cardinality(Alive(b)') <= 1 + clears'
                   /\ contractClientCache'[b] = 0 => Cardinality(Alive(b)') <= clears'
                   /\ contractClientCache'[b] # 0 => contractClientCache'[b] \in Alive(b)'
        <5>1. CASE b = a
          <6>1. contractClientCache'[a] = 0
            BY <1>0, <2>1, <3>2
          <6>2. Cardinality(Alive(a)) <= 1 + clears
            BY DEF CacheInv, AliveInv
          <6>3. Cardinality(Alive(a)') <= clears
            BY <1>0, <4>3, <6>2
          <6>4. QED
            BY <1>0, <2>1, <4>3, <5>1, <6>1, <6>3
        <5>2. CASE b # a
          BY <1>0, <2>1, <3>2, <4>2, <5>2 DEF CacheInv, AliveInv
        <5>3. QED
          BY <5>1, <5>2
      <4>5. QED
        BY <4>4 DEF AliveInv
    <3>3. QED
      BY <3>1, <3>2
  <2>6. OwnInv'
    BY <1>1, <1>4, <2>2, <2>3
  <2>7. contractClientCache' \in [Account -> Nat]
    BY <1>0, <2>1
  <2>8. QED
    BY <1>0, <2>1, <2>2, <2>5, <2>6, <2>7 DEF CacheInv
<1>5. ASSUME clearContractClientCache, ~ (\E c \in Caller : ConnectCached(c) \/ ConnectNew(c))
      PROVE  CacheInv'
  <2>1. promises' = promises /\ clears' = clears + 1 /\ contractClientCache' = [a \in Account |-> 0]
    BY <1>5 DEF clearContractClientCache
  <2>2. ASSUME NEW a \in Account
        PROVE  /\ Cardinality(Alive(a)') <= 1 + clears'
               /\ contractClientCache'[a] = 0 => Cardinality(Alive(a)') <= clears'
               /\ contractClientCache'[a] # 0 => contractClientCache'[a] \in Alive(a)'
    <3>1. Alive(a)' = Alive(a) /\ Cardinality(Alive(a)) \in Nat
      BY <1>0, <2>1, AliveIsFinite DEF Alive
    <3>2. Cardinality(Alive(a)) <= 1 + clears
      BY DEF CacheInv, AliveInv
    <3>3. QED
      BY <1>0, <2>1, <3>1, <3>2
  <2>3. AliveInv'
    BY <2>2 DEF AliveInv
  <2>4. OwnInv'
    BY <1>1, <1>5, <2>1
  <2>5. QED
    BY <1>0, <2>1, <2>3, <2>4 DEF CacheInv
<1>6. ASSUME UNCHANGED <<contractClientCache, promises, clears>>,
             ~ (\E c \in Caller : ConnectCached(c) \/ ConnectNew(c))
      PROVE  CacheInv'
  <2>1. OwnInv'
    BY <1>1, <1>6
  <2>2. \A a \in Account : Alive(a)' = Alive(a)
    BY <1>6 DEF Alive
  <2>3. AliveInv'
    BY <1>6, <2>2 DEF AliveInv, CacheInv
  <2>4. QED
    BY <1>6, <2>1, <2>3 DEF CacheInv
<1>7. ASSUME NEW c \in Caller, Step(c)
      PROVE  ConnectCached(c) \/ ConnectNew(c) \/ UNCHANGED <<contractClientCache, promises, clears>>
  BY <1>7 DEF Step, ConnectReadOnly, Refuse, ReadCached, Attempt, Simulated, Read, Send, Answer,
     SimulationFails, ReadFails, SubmissionFails
<1>8. CASE \E c \in Caller : ConnectCached(c) \/ ConnectNew(c)
  BY <1>2, <1>3, <1>8
<1>9. CASE ~ (\E c \in Caller : ConnectCached(c) \/ ConnectNew(c))
  BY <1>4, <1>5, <1>6, <1>7, <1>9 DEF ClientNext, Settle, Execute, clientVars
<1>10. QED
  BY <1>8, <1>9

LEMMA CallsAreKept == CacheInv /\ CallsInv /\ [ClientNext]_clientVars => CallsInv'
<1> SUFFICES ASSUME CacheInv, CallsInv, [ClientNext]_clientVars  PROVE CallsInv'
  OBVIOUS
<1> DEFINE known == AskedOnce
\* A step of one call.
<1>1. ASSUME NEW c \in Caller, NEW s \in Session, session' = [session EXCEPT ![c] = s],
             NEW t, tx' = [tx EXCEPT ![c] = t], CallOK(s, t, known),
             vkCache' # {} => vkCache # {} \/ (s.kind.caches /\ s.heard["success"] = 1),
             s.kind = session[c].kind, session[c].heard["success"] = 1 => s.heard["success"] = 1
      PROVE  CallsInv'
  <2>0. known => known'
    BY <1>1 DEF CallsInv, AskedOnce
  <2>1. /\ session' \in [Caller -> Session]
        /\ tx' \in [Caller -> {"none", "pending", "applied", "failed", "expired"}]
    BY <1>1 DEF CallsInv, CallOK
  <2>2. ASSUME NEW d \in Caller  PROVE CallOK(session'[d], tx'[d], known')
    <3>1. CASE d = c
      <4>1. session'[d] = s /\ tx'[d] = t
        BY <1>1, <3>1 DEF CallsInv
      <4> HIDE DEF known
      <4>2. QED
        BY <1>1, <2>0, <4>1 DEF CallOK
    <3>2. CASE d # c
      <4>1. session'[d] = session[d] /\ tx'[d] = tx[d]
        BY <1>1, <3>2 DEF CallsInv
      <4>2. CallOK(session[d], tx[d], known)
        BY DEF CallsInv
      <4> HIDE DEF known
      <4>3. QED
        BY <2>0, <4>1, <4>2 DEF CallOK
    <3>3. QED
      BY <3>1, <3>2
  <2>3. vkCache' # {} => known'
    <3>1. CASE s.kind.caches /\ s.heard["success"] = 1
      BY <1>1, <3>1 DEF CallsInv, AskedOnce
    <3>2. CASE vkCache # {}
      BY <2>0, <3>2 DEF CallsInv
    <3>3. QED
      BY <1>1, <3>1, <3>2
  <2>4. QED
    BY <2>1, <2>2, <2>3 DEF CallsInv

\* A step of one call that leaves its transaction and the cached key alone, and was told nothing.
<1>2. ASSUME NEW c \in Caller, NEW s \in Session, session' = [session EXCEPT ![c] = s],
             UNCHANGED <<tx, vkCache>>, CallOK(s, tx[c], known),
             s.kind = session[c].kind, session[c].heard["success"] = 1 => s.heard["success"] = 1
      PROVE  CallsInv'
  <2>1. tx' = [tx EXCEPT ![c] = tx[c]]
    BY <1>2 DEF CallsInv
  <2>2. QED
    BY <1>1, <1>2, <2>1
<1>3. ASSUME NEW c \in Caller
      PROVE  /\ session[c] \in Session /\ CallOK(session[c], tx[c], known)
             /\ session[c].kind \in Kind
             /\ session[c].kind.writes => ~ session[c].kind.caches /\ session[c].kind.errors = "decoded"
  BY Kinds DEF CallsInv, Session
<1>4. ASSUME NEW c \in Caller, ConnectCached(c) \/ ConnectNew(c)  PROVE CallsInv'
  <2>1. PICK phase \in {"connecting", "connected"}, p \in 0 .. MaxConnects :
          session' = [session EXCEPT ![c] = [session[c] EXCEPT !.promise = p, !.phase = phase]]
    <3>1. CASE ConnectCached(c)
      <4> DEFINE q == contractClientCache[session[c].account]
      <4>1. session[c].account \in Account
        BY <1>3 DEF Session
      <4>2. q \in 0 .. MaxConnects
        <5>1. q \in Alive(session[c].account)
          BY <3>1, <4>1 DEF ConnectCached, Cached, CacheInv, AliveInv
        <5>2. q \in DOMAIN promises /\ Len(promises) \in Nat /\ DOMAIN promises = 1 .. Len(promises)
          BY <5>1 DEF Alive, CacheInv
        <5> HIDE DEF q
        <5>3. QED
          BY <5>2, ClientAssumption DEF CacheInv
      <4>3. \E ph \in {"connecting", "connected"} :
              session' = [session EXCEPT ![c] = [session[c] EXCEPT !.promise = q, !.phase = ph]]
        BY <3>1 DEF ConnectCached
      <4> HIDE DEF q
      <4>4. QED
        BY <4>2, <4>3
    <3>2. CASE ConnectNew(c)
      <4> DEFINE q == Len(promises) + 1
      <4>1. q \in 0 .. MaxConnects
        BY <3>2, ClientAssumption DEF ConnectNew, CacheInv
      <4>2. session' = [session EXCEPT ![c] = [session[c] EXCEPT !.promise = q, !.phase = "connecting"]]
        BY <3>2 DEF ConnectNew
      <4> HIDE DEF q
      <4>3. QED
        BY <4>1, <4>2
    <3>3. QED
      BY <1>4, <3>1, <3>2
  <2>2. session[c].phase = "idle" /\ UNCHANGED <<tx, vkCache>>
    BY <1>4 DEF ConnectCached, ConnectNew
  <2> DEFINE s == [session[c] EXCEPT !.promise = p, !.phase = phase]
  <2>3. s \in Session /\ CallOK(s, tx[c], known) /\ s.kind = session[c].kind /\ s.heard = session[c].heard
    <3>1. s \in Session
      BY <1>3, ZenonT(60) DEF Session, Phase
    <3>2. /\ s.kind = session[c].kind /\ s.heard = session[c].heard /\ s.sent = session[c].sent
          /\ s.valid = session[c].valid /\ s.outcome = session[c].outcome /\ s.phase = phase
      BY <1>3 DEF Session
    <3>3. CallOK(s, tx[c], known)
      BY <1>3, <2>2, <3>1, <3>2 DEF CallOK
    <3>4. QED
      BY <3>1, <3>2, <3>3
  <2>4. QED
    BY <1>2, <2>1, <2>2, <2>3
<1>5. ASSUME NEW c \in Caller,
             \/ Refuse(c) \/ ConnectReadOnly(c) \/ ReadCached(c)
             \/ \E error \in Error : ReadFails(c, error)
      PROVE  CallsInv'
  <2>1. PICK outcome \in Outcome :
          /\ session' = [session EXCEPT ![c] = [session[c] EXCEPT !.phase = "done", !.outcome = outcome]]
          /\ UNCHANGED <<tx, vkCache>>
          /\ session[c].phase \in {"idle", "connected", "prepared"}
          /\ outcome \in {"connectError", "InvalidInputError", "thrown", "null", "RpcError", "ContractError"}
               \/ (outcome = "ok" /\ session[c].kind.caches /\ known)
    <3>1. CASE Refuse(c) \/ ConnectReadOnly(c) \/ ReadCached(c)
      BY <3>1 DEF CallsInv, Refuse, ConnectReadOnly, ReadCached, Finish, Outcome
    <3>2. ASSUME NEW error \in Error, ReadFails(c, error)
          PROVE  /\ Told(session[c].kind, error) \in {"thrown", "null", "ContractError", "RpcError"}
                 /\ Told(session[c].kind, error) \in Outcome
                 /\ session' = [session EXCEPT ![c] = [session[c] EXCEPT
                                  !.phase = "done", !.outcome = Told(session[c].kind, error)]]
                 /\ UNCHANGED <<tx, vkCache>> /\ session[c].phase = "prepared"
      BY <3>2, <1>3, ToldType DEF ReadFails, Finish, Outcome
    <3>3. QED
      BY <1>5, <3>1, <3>2
  <2> DEFINE s == [session[c] EXCEPT !.phase = "done", !.outcome = outcome]
  <2>3. s \in Session /\ CallOK(s, tx[c], known) /\ s.kind = session[c].kind /\ s.heard = session[c].heard
    <3>1. s \in Session
      BY <1>3, ZenonT(60) DEF Session, Phase
    <3>2. /\ s.kind = session[c].kind /\ s.heard = session[c].heard /\ s.sent = session[c].sent
          /\ s.valid = session[c].valid /\ s.outcome = outcome /\ s.phase = "done"
      BY <1>3 DEF Session
    <3>3. CallOK(s, tx[c], known)
      BY <1>3, <2>1, <3>1, <3>2 DEF CallOK
    <3>4. QED
      BY <3>1, <3>2, <3>3
  <2>4. QED
    BY <1>2, <2>1, <2>3
<1>6. ASSUME NEW c \in Caller, Attempt(c)  PROVE CallsInv'
  <2> DEFINE e == emit(session[c], "attempt")
             s == [e EXCEPT !.phase = "simulating"]
  <2>1. /\ session' = [session EXCEPT ![c] = s] /\ UNCHANGED <<tx, vkCache>>
        /\ session[c].phase \in {"connected", "sleeping"} /\ session[c].valid
    BY <1>6, <1>3 DEF Attempt, Proceeds, CallOK
  <2>2. /\ e \in Session /\ e.kind = session[c].kind /\ e.sent = session[c].sent
        /\ e.valid = session[c].valid /\ e.outcome = session[c].outcome
        /\ e.heard["success"] = session[c].heard["success"]
    BY <1>3, EmitType
  <2> HIDE DEF e
  <2>3. /\ s \in Session /\ s.kind = e.kind /\ s.heard = e.heard /\ s.sent = e.sent
        /\ s.valid = e.valid /\ s.outcome = e.outcome /\ s.phase = "simulating"
    BY <2>2 DEF Session, Phase
  <2> HIDE DEF s
  <2>4. CallOK(s, tx[c], known)
    BY <1>3, <2>1, <2>2, <2>3 DEF CallOK
  <2>5. QED
    BY <1>2, <2>1, <2>2, <2>3, <2>4
<1>7. ASSUME NEW c \in Caller, Simulated(c)  PROVE CallsInv'
  <2> DEFINE e == emit(session[c], "success")
             s == [e EXCEPT !.phase = "prepared"]
  <2>1. /\ session' = [session EXCEPT ![c] = s] /\ UNCHANGED <<tx, vkCache>>
        /\ session[c].phase = "simulating"
    BY <1>7 DEF Simulated
  <2>2. /\ e \in Session /\ e.kind = session[c].kind /\ e.sent = session[c].sent
        /\ e.valid = session[c].valid /\ e.outcome = session[c].outcome
        /\ e.heard["success"] = session[c].heard["success"] + 1
    BY <1>3, EmitType
  <2> HIDE DEF e
  <2>3. /\ s \in Session /\ s.kind = e.kind /\ s.heard = e.heard /\ s.sent = e.sent
        /\ s.valid = e.valid /\ s.outcome = e.outcome /\ s.phase = "prepared"
    BY <2>2 DEF Session, Phase
  <2> HIDE DEF s
  <2>4. CallOK(s, tx[c], known) /\ (session[c].heard["success"] = 1 => s.heard["success"] = 1)
    BY <1>3, <2>1, <2>2, <2>3 DEF CallOK
  <2>5. QED
    BY <1>2, <2>1, <2>2, <2>3, <2>4
<1>8. ASSUME NEW c \in Caller, NEW error \in Error, SimulationFails(c, error)  PROVE CallsInv'
  <2>1. session[c].phase = "simulating" /\ UNCHANGED <<tx, vkCache>>
    BY <1>8 DEF SimulationFails
  <2>2. CASE GivesUp(error, session[c].attempt)
    <3> DEFINE e == emit(session[c], "failure")
               told == Told(session[c].kind, error)
               s == [e EXCEPT !.phase = "done", !.outcome = told]
    <3>1. session' = [session EXCEPT ![c] = s]
      BY <1>8, <2>2 DEF SimulationFails
    <3>2. /\ e \in Session /\ e.kind = session[c].kind /\ e.sent = session[c].sent
          /\ e.valid = session[c].valid
          /\ e.heard["success"] = session[c].heard["success"]
      BY <1>3, EmitType
    <3>3. told \in {"thrown", "null", "ContractError", "RpcError"}
      BY <1>3, ToldType
    <3> HIDE DEF e, told
    <3>4. /\ s \in Session /\ s.kind = e.kind /\ s.heard = e.heard /\ s.sent = e.sent
          /\ s.valid = e.valid /\ s.outcome = told /\ s.phase = "done"
      BY <3>2, <3>3 DEF Session, Phase, Outcome
    <3> HIDE DEF s
    <3>5. CallOK(s, tx[c], known)
      BY <1>3, <2>1, <3>2, <3>3, <3>4 DEF CallOK
    <3>6. QED
      BY <1>2, <2>1, <3>1, <3>2, <3>4, <3>5
  <2>3. CASE ~ GivesUp(error, session[c].attempt)
    <3> DEFINE e == emit(session[c], "retry")
               s == [e EXCEPT !.phase = "sleeping", !.attempt = e.attempt + 1]
    <3>0. e.attempt = session[c].attempt /\ e.attempt + 1 \in Nat
      BY <1>3, EmitType, SMTT(60) DEF Session
    <3>1. session' = [session EXCEPT ![c] = s]
      <4>1. session' = [session EXCEPT ![c] = [e EXCEPT !.phase = "sleeping",
                                                        !.attempt = session[c].attempt + 1]]
        BY <1>8, <2>3 DEF SimulationFails
      <4>2. QED
        BY <3>0, <4>1
    <3>2. /\ e \in Session /\ e.kind = session[c].kind /\ e.sent = session[c].sent
          /\ e.valid = session[c].valid /\ e.outcome = session[c].outcome
          /\ e.heard["success"] = session[c].heard["success"]
      BY <1>3, EmitType
    <3> HIDE DEF e
    <3>3. /\ s \in Session /\ s.kind = e.kind /\ s.heard = e.heard /\ s.sent = e.sent
          /\ s.valid = e.valid /\ s.outcome = e.outcome /\ s.phase = "sleeping"
      BY <3>0, <3>2 DEF Session, Phase
    <3> HIDE DEF s
    <3>4. CallOK(s, tx[c], known)
      BY <1>3, <2>1, <3>2, <3>3 DEF CallOK
    <3>5. QED
      BY <1>2, <2>1, <3>1, <3>2, <3>3, <3>4
  <2>4. QED
    BY <2>2, <2>3
<1>9. ASSUME NEW c \in Caller, Read(c)  PROVE CallsInv'
  <2> DEFINE s == [session[c] EXCEPT !.phase = "done", !.outcome = "ok"]
  <2>1. /\ session' = [session EXCEPT ![c] = s] /\ tx' = tx /\ session[c].phase = "prepared"
        /\ ~ session[c].kind.writes /\ (vkCache' # {} => vkCache # {} \/ session[c].kind.caches)
    BY <1>9 DEF Read, Finish
  <2>2. /\ s \in Session /\ s.kind = session[c].kind /\ s.heard = session[c].heard
        /\ s.sent = session[c].sent /\ s.valid = session[c].valid /\ s.outcome = "ok" /\ s.phase = "done"
    BY <1>3, ZenonT(60) DEF Session, Phase, Outcome
  <2> HIDE DEF s, known
  <2>3. CallOK(s, tx[c], known) /\ s.heard["success"] = 1
    BY <1>3, <2>1, <2>2 DEF CallOK
  <2>4. tx' = [tx EXCEPT ![c] = tx[c]]
    BY <2>1 DEF CallsInv
  <2>5. QED
    BY <1>1, <2>1, <2>2, <2>3, <2>4
<1>10. ASSUME NEW c \in Caller, Send(c)  PROVE CallsInv'
  <2> DEFINE s == [session[c] EXCEPT !.phase = "polling", !.sent = session[c].sent + 1]
  <2>1. /\ session' = [session EXCEPT ![c] = s] /\ tx' = [tx EXCEPT ![c] = "pending"]
        /\ vkCache' = vkCache /\ session[c].phase = "prepared" /\ session[c].kind.writes
    BY <1>10 DEF Send
  <2>0. session[c].sent + 1 \in Nat
    BY <1>3 DEF Session
  <2>2. /\ s \in Session /\ s.kind = session[c].kind /\ s.heard = session[c].heard
        /\ s.sent = session[c].sent + 1 /\ s.valid = session[c].valid
        /\ s.outcome = session[c].outcome /\ s.phase = "polling"
    BY <1>3, <2>0 DEF Session, Phase
  <2> HIDE DEF s
  <2>3. CallOK(s, "pending", known)
    BY <1>3, <2>1, <2>2 DEF CallOK
  <2>4. QED
    BY <1>1, <2>1, <2>2, <2>3
<1>11. ASSUME NEW c \in Caller, Execute(c)  PROVE CallsInv'
  <2>1. PICK result \in {"applied", "failed", "expired"} :
          /\ tx[c] = "pending" /\ tx' = [tx EXCEPT ![c] = result]
          /\ session' = session /\ vkCache' = vkCache
    BY <1>11 DEF Execute
  <2>2. session' = [session EXCEPT ![c] = session[c]]
    BY <2>1 DEF CallsInv
  <2>3. CallOK(session[c], result, known)
    BY <1>3, <2>1 DEF CallOK
  <2>4. QED
    BY <1>1, <1>3, <2>1, <2>2, <2>3
<1>12. ASSUME NEW c \in Caller, Answer(c) \/ (\E error \in Error : SubmissionFails(c, error))
       PROVE  CallsInv'
  <2>1. PICK outcome \in {"ok", "ContractError", "RpcError"} :
          /\ session' = [session EXCEPT ![c] = [session[c] EXCEPT !.phase = "done", !.outcome = outcome]]
          /\ UNCHANGED <<tx, vkCache>> /\ session[c].phase \in {"prepared", "polling"}
          /\ session[c].kind.writes
          /\ outcome = "ok" => tx[c] \in {"applied", "failed"}
          /\ outcome = "ContractError" => session[c].phase = "prepared" \/ tx[c] = "failed"
    <3>1. CASE Answer(c)
      BY <1>3, <3>1, ZenonT(60) DEF Answer, Finish, CallOK
    <3>2. ASSUME NEW error \in Error, SubmissionFails(c, error)
          PROVE  /\ decodeContractError(error) \in {"ContractError", "RpcError"}
                 /\ session' = [session EXCEPT ![c] = [session[c] EXCEPT
                                 !.phase = "done", !.outcome = decodeContractError(error)]]
                 /\ UNCHANGED <<tx, vkCache>> /\ session[c].phase \in {"prepared", "polling"}
                 /\ session[c].kind.writes
                 /\ decodeContractError(error) = "ContractError" => session[c].phase = "prepared"
      BY <3>2 DEF SubmissionFails, Finish, decodeContractError
    <3>3. QED
      BY <1>12, <3>1, <3>2
  <2> DEFINE s == [session[c] EXCEPT !.phase = "done", !.outcome = outcome]
  <2>2. /\ s \in Session /\ s.kind = session[c].kind /\ s.heard = session[c].heard
        /\ s.sent = session[c].sent /\ s.valid = session[c].valid /\ s.outcome = outcome /\ s.phase = "done"
    BY <1>3, ZenonT(60) DEF Session, Phase, Outcome
  <2>3. session' = [session EXCEPT ![c] = s] /\ UNCHANGED <<tx, vkCache>>
    BY <2>1
  <2> HIDE DEF s
  <2>4. CallOK(s, tx[c], known)
    BY <1>3, <2>1, <2>2 DEF CallOK
  <2>5. session[c].heard["success"] = 1 => s.heard["success"] = 1
    BY <2>2
  <2>6. QED
    BY <1>2, <2>2, <2>3, <2>4, <2>5
\* A promise settles: the calls that wait for it go on or are over.
<1>13. ASSUME NEW p \in DOMAIN promises, ClientBuilt(p) \/ ClientFails(p)  PROVE CallsInv'
  <2>1. UNCHANGED <<tx, vkCache>>
    BY <1>13 DEF ClientBuilt, ClientFails
  <2>2. ASSUME NEW c \in Caller
        PROVE  \/ session'[c] = session[c]
               \/ session[c].phase = "connecting" /\ session'[c] = [session[c] EXCEPT !.phase = "connected"]
               \/ /\ session[c].phase = "connecting"
                  /\ session'[c] = [session[c] EXCEPT !.phase = "done", !.outcome = "connectError"]
    BY <1>13 DEF ClientBuilt, ClientFails, Waiting
  <2>3. ASSUME NEW c \in Caller
        PROVE  /\ CallOK(session'[c], tx[c], known) /\ session'[c].kind = session[c].kind
               /\ session'[c].heard = session[c].heard
    <3>1. CASE session'[c] = session[c]
      BY <1>3, <3>1
    <3>2. CASE session[c].phase = "connecting" /\ session'[c] = [session[c] EXCEPT !.phase = "connected"]
      <4>1. /\ session'[c] \in Session /\ session'[c].kind = session[c].kind
            /\ session'[c].heard = session[c].heard /\ session'[c].sent = session[c].sent
            /\ session'[c].valid = session[c].valid /\ session'[c].outcome = session[c].outcome
            /\ session'[c].phase = "connected"
        BY <1>3, <3>2 DEF Session, Phase
      <4>2. QED
        BY <1>3, <3>2, <4>1 DEF CallOK
    <3>3. CASE /\ session[c].phase = "connecting"
               /\ session'[c] = [session[c] EXCEPT !.phase = "done", !.outcome = "connectError"]
      <4>1. /\ session'[c] \in Session /\ session'[c].kind = session[c].kind
            /\ session'[c].heard = session[c].heard /\ session'[c].sent = session[c].sent
            /\ session'[c].valid = session[c].valid /\ session'[c].outcome = "connectError"
            /\ session'[c].phase = "done"
        BY <1>3, <3>3 DEF Session, Phase, Outcome
      <4>2. QED
        BY <1>3, <3>3, <4>1 DEF CallOK
    <3>4. QED
      BY <2>2, <3>1, <3>2, <3>3
  <2>4. session' = [c \in Caller |-> session'[c]]
    BY <1>13 DEF ClientBuilt, ClientFails
  <2>5. session' \in [Caller -> Session]
    BY <2>3, <2>4 DEF CallOK
  <2>6. known' <=> known
    BY <2>3 DEF AskedOnce
  <2>7. QED
    BY <2>1, <2>3, <2>5, <2>6 DEF CallsInv
<1>14. CASE UNCHANGED clientVars
  BY <1>14 DEF clientVars, CallsInv, AskedOnce
<1>15. CASE clearContractClientCache
  BY <1>15 DEF clearContractClientCache, CallsInv, AskedOnce
<1>16. QED
  BY <1>4, <1>5, <1>6, <1>7, <1>8, <1>9, <1>10, <1>11, <1>12, <1>13, <1>14, <1>15
     DEF ClientNext, Step, Settle

\* However connections overlap and fail, and whenever the caches are cleared: callers of one
\* account share one client of theirs, with at most one more for each clear, and the cache
\* holds none that failed.
THEOREM ClientsAreSharedHolds == ClientSpec => []ClientsAreShared
<1>1. CacheInv => ClientsAreShared
  BY DEF CacheInv, AliveInv, OwnInv, ClientsAreShared, Cached
<1>2. QED
  BY <1>1, CacheStart, CallsStart, CacheIsKept, CallsAreKept, PTL DEF ClientSpec

\* However many simulations fail and whatever becomes of the answers: a write is sent
\* at most once and only with valid arguments, what a caller is told of it is and stays
\* true, and a read that is answered has asked the chain.
THEOREM ReportStaysTrue == ClientSpec => []ReportIsTrue
<1>1. CallsInv => ReportIsTrue
  BY DEF CallsInv, CallOK, AskedOnce, ReportIsTrue
<1>2. QED
  BY <1>1, CacheStart, CallsStart, CacheIsKept, CallsAreKept, PTL DEF ClientSpec

----------------------------------------------------------------------------
(* The signer of the app.                                                  *)

Serving == {"access", "network", "address", "ready", "signing", "confirm"}

\* The signer has been made: the app is allowed, and the address is the one it took.
WalletInv ==
  /\ walletNetwork \in Network /\ walletAccount \in WalletAddress
  /\ allowed \in BOOLEAN /\ switched \in BOOLEAN /\ options \in [optedIn : BOOLEAN, available : BOOLEAN]
  /\ stage \in Serving => options.optedIn
  /\ stage \in {"ready", "signing", "confirm"} => allowed /\ \E a \in WalletAddress : pubKey = {a}
  /\ stage = "demo" => pubKey = {DemoAddress}
  /\ stage \in {"ready", "signing", "confirm"} /\ ~ switched => pubKey = {walletAccount}
  /\ stage = "confirm" => checked \in Network /\ checkNetworkMatch(checked)

LEMMA SignerAddress == ASSUME NEW a, pubKey = {a}  PROVE signerAddress = a
BY DEF signerAddress

\* A network with a name is known by its passphrase.
LEMMA NamedNetwork ==
  ASSUME NEW network \in Network, checkNetworkMatch(network), network.label # NoNetwork
  PROVE  network.passphrase = appNetworkPassphrase
BY WalletAssumption DEF Network, checkNetworkMatch, freighterNetworkToPassphrase

LEMMA WalletStart == WalletInit => WalletInv /\ SignsForItsNetwork
BY DEF WalletInit, WalletInv, SignsForItsNetwork, Serving

LEMMA WalletIsKept ==
  WalletInv /\ SignsForItsNetwork /\ [WalletNext]_walletVars => WalletInv' /\ SignsForItsNetwork'
<1> SUFFICES ASSUME WalletInv, SignsForItsNetwork, [WalletNext]_walletVars
             PROVE  WalletInv' /\ SignsForItsNetwork'
  OBVIOUS
<1>1. CASE SwitchNetwork
  BY <1>1 DEF SwitchNetwork, WalletInv, SignsForItsNetwork, Serving, checkNetworkMatch, freighterNetworkToPassphrase
<1>2. CASE SwitchAccount
  <2>1. pubKey = {} \/ switched'
    BY <1>2 DEF SwitchAccount
  <2>2. SignsForItsNetwork'
    BY <1>2 DEF SwitchAccount, SignsForItsNetwork
  <2>3. QED
    BY <1>2, <2>1, <2>2 DEF SwitchAccount, WalletInv, Serving, checkNetworkMatch, freighterNetworkToPassphrase
<1>3. CASE selectSigner
  BY <1>3 DEF selectSigner, WalletInv, SignsForItsNetwork, Serving
<1>4. CASE RequestAccess
  BY <1>4 DEF RequestAccess, WalletInv, SignsForItsNetwork, Serving
<1>5. CASE RequireNetwork
  BY <1>5 DEF RequireNetwork, WalletInv, SignsForItsNetwork, Serving, checkNetworkMatch, freighterNetworkToPassphrase
<1>6. CASE GetAddress
  BY <1>6 DEF GetAddress, WalletInv, SignsForItsNetwork, Serving
<1>7. CASE SignTransaction
  BY <1>7 DEF SignTransaction, WalletInv, SignsForItsNetwork, Serving
<1>8. CASE Confirm
  <2>1. PICK a \in WalletAddress : pubKey = {a}
    BY <1>8 DEF Confirm, WalletInv
  <2>2. signerAddress = a
    BY <2>1, SignerAddress
  <2>3. /\ checked \in Network /\ checkNetworkMatch(checked)
        /\ options.optedIn /\ allowed /\ (~ switched => a = walletAccount)
    BY <1>8, <2>1 DEF Confirm, WalletInv, Serving
  <2>4. checked.label # NoNetwork => checked.passphrase = appNetworkPassphrase
    BY <2>3, NamedNetwork
  <2>5. /\ Signed.network = checked.passphrase /\ Signed.named = (checked.label # NoNetwork)
        /\ Signed.by = walletAccount /\ Signed.for = a /\ Signed.link \subseteq {appNetworkPassphrase}
    BY <2>2 DEF Signed, Signature, explorerTxUrl
  <2>6. ASSUME signatures' = {Signed}  PROVE SignsForItsNetwork'
    BY <1>8, <2>1, <2>3, <2>4, <2>5, <2>6 DEF Confirm, SignsForItsNetwork
  <2>7. ASSUME signatures' = signatures  PROVE SignsForItsNetwork'
    BY <1>8, <2>7 DEF Confirm, SignsForItsNetwork
  <2>8. WalletInv'
    BY <1>8 DEF Confirm, WalletInv, Serving
  <2>9. QED
    BY <1>8, <2>6, <2>7, <2>8 DEF Confirm
<1>9. CASE DemoSign
  <2>1. signerAddress = DemoAddress
    BY <1>9, SignerAddress DEF DemoSign, WalletInv
  <2>2. \A s \in signatures' : /\ s.network = appNetworkPassphrase /\ s.by = DemoAddress
                               /\ s.for = DemoAddress /\ s.link \subseteq {appNetworkPassphrase}
    BY <1>9, <2>1 DEF DemoSign, Signature, explorerTxUrl
  <2>3. WalletInv'
    BY <1>9 DEF DemoSign, WalletInv, Serving
  <2>4. QED
    BY <2>2, <2>3 DEF SignsForItsNetwork
<1>10. CASE UNCHANGED walletVars
  BY <1>10 DEF walletVars, WalletInv, SignsForItsNetwork, Serving, checkNetworkMatch, freighterNetworkToPassphrase
<1>11. QED
  BY <1>1, <1>2, <1>3, <1>4, <1>5, <1>6, <1>7, <1>8, <1>9, <1>10 DEF WalletNext

\* Whatever networks and accounts there are and whenever the user switches: a signature
\* is good on the app's network and the one its link shows, and made by the account it
\* is submitted for, with the two exceptions that SignsForItsNetwork names.
THEOREM SignsForItsNetworkHolds == WalletSpec => []SignsForItsNetwork
BY WalletStart, WalletIsKept, PTL DEF WalletSpec

----------------------------------------------------------------------------
(* Friendbot.                                                              *)

FriendbotResult == [publicKey : PublicKey, success : BOOLEAN]

FriendbotInv ==
  /\ publicKeys \in Seq(PublicKey) /\ results \in Seq(FriendbotResult)
  /\ pc \in {"idle", "request", "sleep", "pause", "done"}
  /\ pc \in {"request", "sleep", "pause"} => Len(results) < Len(publicKeys)
  /\ Len(results) <= Len(publicKeys)

LEMMA FriendbotStart == FriendbotInit => FriendbotInv /\ ReportedFundedExists
BY DEF FriendbotInit, FriendbotInv, ReportedFundedExists

\* Every account's result is appended behind those of the accounts before it.
LEMMA RecordIsKept ==
  ASSUME FriendbotInv, ReportedFundedExists, pc = "request", UNCHANGED publicKeys,
         exists \subseteq exists', NEW success \in BOOLEAN, Record(success),
         success => current \in exists'
  PROVE  FriendbotInv' /\ ReportedFundedExists'
<1> DEFINE n == Len(results) + 1
           new == [publicKey |-> current, success |-> success]
<1>1. n \in 1 .. Len(publicKeys) /\ Len(results) \in Nat /\ Len(publicKeys) \in Nat
  BY DEF FriendbotInv
<1>2. current = publicKeys[n] /\ current \in PublicKey
  BY <1>1 DEF current, FriendbotInv
<1>3. new \in FriendbotResult /\ new.publicKey = publicKeys[n] /\ new.success = success
  BY <1>2 DEF FriendbotResult
<1>4. results' = Append(results, new)
  BY DEF Record
<1> HIDE DEF new
<1>5. /\ results' \in Seq(FriendbotResult) /\ Len(results') = n /\ results'[n] = new
      /\ \A i \in DOMAIN results : i # n /\ results'[i] = results[i]
      /\ DOMAIN results' = DOMAIN results \cup {n}
  BY <1>3, <1>4 DEF FriendbotInv
<1>6. pc' = IF n = Len(publicKeys) THEN "done" ELSE "pause"
  BY <1>5 DEF Record
<1> HIDE DEF n
<1>7. FriendbotInv'
  BY <1>1, <1>5, <1>6 DEF FriendbotInv
<1>8. ReportedFundedExists'
  BY <1>1, <1>2, <1>3, <1>5, <1>6 DEF ReportedFundedExists
<1>9. QED
  BY <1>7, <1>8

LEMMA KeysType == \A keys \in Keys : keys \in Seq(PublicKey) /\ Len(keys) >= 1
<1>1. Cardinality(PublicKey) \in Nat
  BY FriendbotAssumption, FS_CardinalityType
<1>2. ASSUME NEW keys \in Keys
      PROVE  keys \in Seq(PublicKey) /\ Len(keys) >= 1
  <2>1. PICK m \in 0 .. Cardinality(PublicKey) : keys \in [1 .. m -> PublicKey]
    BY <1>2 DEF Keys, SeqOf
  <2>2. keys \in Seq(PublicKey) /\ Len(keys) = m /\ m \in Nat /\ keys # <<>>
    BY <1>1, <1>2, <2>1 DEF Keys
  <2>3. QED
    BY <2>2
<1>3. QED
  BY <1>2

LEMMA FriendbotIsKept ==
  FriendbotInv /\ ReportedFundedExists /\ [FriendbotNext]_friendbotVars
    => FriendbotInv' /\ ReportedFundedExists'
<1> SUFFICES ASSUME FriendbotInv, ReportedFundedExists, [FriendbotNext]_friendbotVars
             PROVE  FriendbotInv' /\ ReportedFundedExists'
  OBVIOUS
<1>1. ASSUME NEW keys \in Keys, FundMany(keys)  PROVE FriendbotInv' /\ ReportedFundedExists'
  BY <1>1, KeysType DEF FundMany, FriendbotInv, ReportedFundedExists
<1>2. CASE Created
  BY <1>2, RecordIsKept DEF Created, Asked
<1>3. CASE AlreadyFunded
  BY <1>3, RecordIsKept DEF AlreadyFunded, Asked
<1>4. CASE Transient
  <2>1. exists \subseteq exists' /\ pc = "request" /\ UNCHANGED publicKeys
    BY <1>4 DEF Transient, Asked
  <2>2. CASE Record(FALSE)
    BY <2>1, <2>2, RecordIsKept
  <2>3. CASE pc' = "sleep" /\ UNCHANGED results
    BY <2>1, <2>3 DEF FriendbotInv, ReportedFundedExists
  <2>4. QED
    BY <1>4, <2>2, <2>3 DEF Transient, TryAgain
<1>5. CASE Refused
  BY <1>5, RecordIsKept DEF Refused, Asked
<1>6. CASE Wake
  BY <1>6 DEF Wake, FriendbotInv, ReportedFundedExists
<1>7. CASE UNCHANGED friendbotVars
  BY <1>7 DEF friendbotVars, FriendbotInv, ReportedFundedExists
<1>8. QED
  BY <1>1, <1>2, <1>3, <1>4, <1>5, <1>6, <1>7 DEF FriendbotNext, FriendbotStep

\* For any accounts, whichever requests fail and are repeated and however often the call
\* is made again: what is reported as funded exists, and each account has its own result.
THEOREM ReportedFundedHolds == FriendbotSpec => []ReportedFundedExists
BY FriendbotStart, FriendbotIsKept, PTL DEF FriendbotSpec

----------------------------------------------------------------------------
(* The mock chain.                                                         *)

\* One circle of the mock.
CircleOK(circle) ==
  /\ circle \in Circle
  /\ IsInjective(circle.contributors) /\ Len(circle.contributors) <= MockSize
  /\ Range(circle.contributors) \subseteq circle.fundedBy
  /\ circle.round = Len(circle.claims)
  /\ \A i \in DOMAIN circle.claims : circle.claims[i].nullifierHash \in circle.nullifiers
  /\ \A i, j \in DOMAIN circle.claims :
       circle.claims[i].nullifierHash = circle.claims[j].nullifierHash => i = j

MockInv ==
  /\ circles \in Seq(Circle)
  /\ \A id \in DOMAIN circles : CircleOK(circles[id])
  /\ DOMAIN calls = MockCaller
  /\ \A c \in MockCaller :
       /\ calls[c].op = "fund" => calls[c].from \in MockFunder
       /\ calls[c].op \in {"claim", "tagged"} => calls[c].nullifierHash \in MockNullifier

LEMMA MockStart == MockInit => MockInv
BY DEF MockInit, MockInv, NoCall

\* The two writes that add to a circle.
LEMMA FundedCircle ==
  ASSUME NEW circle, CircleOK(circle), NEW from \in MockFunder,
         ~ IsFull(circle), ~ Contains(circle.contributors, from)
  PROVE  CircleOK([circle EXCEPT !.contributors = Append(circle.contributors, from),
                                 !.fundedBy = circle.fundedBy \cup {from}])
<1> DEFINE s == circle.contributors
           t == Append(s, from)
           new == [circle EXCEPT !.contributors = t, !.fundedBy = circle.fundedBy \cup {from}]
<1>1. s \in Seq(MockFunder) /\ Len(s) \in Nat /\ Len(s) < MockSize
  BY MockAssumption DEF CircleOK, Circle, IsFull
<1>2. /\ t \in Seq(MockFunder) /\ Len(t) = Len(s) + 1 /\ DOMAIN t = 1 .. Len(s) + 1
      /\ t[Len(s) + 1] = from /\ \A i \in 1 .. Len(s) : t[i] = s[i]
  BY <1>1
<1>3. \A i \in 1 .. Len(s) : s[i] # from
  BY DEF Contains
<1>4. IsInjective(t)
  BY <1>1, <1>2, <1>3 DEF IsInjective, CircleOK
<1>5. Range(t) \subseteq circle.fundedBy \cup {from}
  BY <1>1, <1>2 DEF Range, CircleOK
<1>6. Len(t) <= MockSize
  BY <1>1, <1>2, MockAssumption
<1> HIDE DEF t
<1>7. /\ new \in Circle /\ new.contributors = t /\ new.fundedBy = circle.fundedBy \cup {from}
      /\ new.claims = circle.claims /\ new.nullifiers = circle.nullifiers /\ new.round = circle.round
  BY <1>2 DEF CircleOK, Circle
<1> HIDE DEF new
<1>8. CircleOK(new)
  BY <1>4, <1>5, <1>6, <1>7 DEF CircleOK
<1>9. QED
  BY <1>8 DEF new, t

LEMMA PaidCircle ==
  ASSUME NEW circle, CircleOK(circle), NEW hash \in MockNullifier, unused(circle, hash)
  PROVE  CircleOK(pay(circle, hash))
<1> DEFINE claimed == [nullifierHash |-> hash, round |-> circle.round]
           t == Append(circle.claims, claimed)
           n == Len(circle.claims)
           new == pay(circle, hash)
<1>1. circle.claims \in Seq(Claim) /\ n \in Nat /\ claimed \in Claim /\ claimed.nullifierHash = hash
  BY DEF CircleOK, Circle, Claim
<1> HIDE DEF claimed
<1>2. /\ t \in Seq(Claim) /\ Len(t) = n + 1 /\ DOMAIN t = DOMAIN circle.claims \cup {n + 1}
      /\ t[n + 1] = claimed /\ \A i \in DOMAIN circle.claims : t[i] = circle.claims[i]
      /\ DOMAIN circle.claims = 1 .. n
  BY <1>1
<1>3. /\ new = [circle EXCEPT !.nullifiers = circle.nullifiers \cup {hash}, !.claims = t,
                              !.contributors = <<>>, !.round = circle.round + 1]
  BY DEF pay, claimed
<1> HIDE DEF t, new
<1>4. /\ new \in Circle /\ new.contributors = <<>> /\ new.fundedBy = circle.fundedBy
      /\ new.claims = t /\ new.nullifiers = circle.nullifiers \cup {hash} /\ new.round = circle.round + 1
  <2>1. circle.round + 1 \in Nat /\ <<>> \in Seq(MockFunder) /\ circle \in Circle
    BY DEF CircleOK, Circle
  <2>2. QED
    BY <1>2, <1>3, <2>1 DEF Circle
<1>5. \A i \in DOMAIN circle.claims : circle.claims[i].nullifierHash # hash
  BY DEF CircleOK, unused
<1>6. new.round = Len(new.claims)
  BY <1>1, <1>2, <1>4 DEF CircleOK
<1>7. \A i \in DOMAIN t : t[i].nullifierHash \in new.nullifiers
  BY <1>1, <1>2, <1>4 DEF CircleOK
<1>8. \A i, j \in DOMAIN t : t[i].nullifierHash = t[j].nullifierHash => i = j
  BY <1>1, <1>2, <1>5 DEF CircleOK
<1>9. IsInjective(<<>>) /\ Len(<<>>) <= MockSize /\ Range(<<>>) \subseteq circle.fundedBy
  BY MockAssumption DEF IsInjective, Range
<1>10. CircleOK(new)
  BY <1>4, <1>6, <1>7, <1>8, <1>9 DEF CircleOK
<1>11. QED
  BY <1>10 DEF new

LEMMA MockIsKept == MockInv /\ [MockNext]_mockVars => MockInv'
<1> SUFFICES ASSUME MockInv, [MockNext]_mockVars  PROVE MockInv'
  OBVIOUS
\* A call ends, and one circle at most has changed.
<1>1. ASSUME NEW c \in MockCaller, Return(c), NEW id, NEW circle,
             id \in DOMAIN circles => CircleOK(circle), circles' = [circles EXCEPT ![id] = circle]
      PROVE  MockInv'
  <2>1. circles' \in Seq(Circle) /\ \A x \in DOMAIN circles' : CircleOK(circles'[x])
    <3>1. CASE id \in DOMAIN circles
      BY <1>1, <3>1 DEF MockInv, CircleOK
    <3>2. CASE id \notin DOMAIN circles
      <4>1. circles' = circles
        BY <1>1, <3>2 DEF MockInv
      <4>2. QED
        BY <4>1 DEF MockInv
    <3>3. QED
      BY <3>1, <3>2
  <2>2. DOMAIN calls' = MockCaller /\ \A d \in MockCaller : calls'[d] = NoCall \/ calls'[d] = calls[d]
    BY <1>1 DEF Return, MockInv
  <2>3. NoCall.op = "none"
    BY DEF NoCall
  <2>4. QED
    BY <2>1, <2>2, <2>3 DEF MockInv
\* A call ends and has changed nothing.
<1>2. ASSUME NEW c \in MockCaller, Return(c), circles' = circles  PROVE MockInv'
  <2>1. DOMAIN calls' = MockCaller /\ \A d \in MockCaller : calls'[d] = NoCall \/ calls'[d] = calls[d]
    BY <1>2 DEF Return, MockInv
  <2>2. NoCall.op = "none"
    BY DEF NoCall
  <2>3. QED
    BY <1>2, <2>1, <2>2 DEF MockInv
<1>3. ASSUME NEW c \in MockCaller, MockSend(c)  PROVE MockInv'
  <2>1. PICK call : /\ calls' = [calls EXCEPT ![c] = call]
                    /\ call.op = "fund" => call.from \in MockFunder
                    /\ call.op \in {"claim", "tagged"} => call.nullifierHash \in MockNullifier
    BY <1>3 DEF MockSend, ClaimArgs
  <2>2. QED
    BY <1>3, <2>1 DEF MockSend, MockInv
<1>4. ASSUME NEW c \in MockCaller, createCircle(c)  PROVE MockInv'
  <2>1. newCircle \in Circle /\ CircleOK(newCircle)
    BY MockAssumption DEF newCircle, Circle, CircleOK, IsInjective, Range
  <2>2. /\ circles' \in Seq(Circle)
        /\ \A x \in DOMAIN circles' : circles'[x] = newCircle \/ (x \in DOMAIN circles /\ circles'[x] = circles[x])
    BY <1>4, <2>1 DEF createCircle, MockInv
  <2>3. DOMAIN calls' = MockCaller /\ \A d \in MockCaller : calls'[d] = NoCall \/ calls'[d] = calls[d]
    BY <1>4 DEF createCircle, Return, MockInv
  <2>4. NoCall.op = "none"
    BY DEF NoCall
  <2>5. QED
    BY <2>1, <2>2, <2>3, <2>4 DEF MockInv
<1>5. ASSUME NEW c \in MockCaller, fund(c)  PROVE MockInv'
  <2> DEFINE id == calls[c].circleId
             from == calls[c].from
             old == circles[id]
             new == [old EXCEPT !.contributors = Append(old.contributors, from),
                                !.fundedBy = old.fundedBy \cup {from}]
  <2>1. from \in MockFunder /\ id \in DOMAIN circles /\ ~ IsFull(old) /\ ~ Contains(old.contributors, from)
    BY <1>5 DEF fund, canFund, Open, lookup, MockInv
  <2>2. CircleOK(new)
    BY <2>1, FundedCircle DEF MockInv
  <2>3. circles' = [circles EXCEPT ![id] = new] /\ Return(c)
    BY <1>5, <2>1 DEF fund, MockInv
  <2> HIDE DEF id, from, new
  <2>4. QED
    BY <1>1, <2>2, <2>3
<1>6. ASSUME NEW c \in MockCaller, cancelCircle(c)  PROVE MockInv'
  <2> DEFINE id == calls[c].circleId
             old == circles[id]
             new == [old EXCEPT !.cancelled = TRUE, !.contributors = <<>>]
  <2>1. id \in DOMAIN circles /\ CircleOK(old)
    BY <1>6 DEF cancelCircle, lookup, MockInv
  <2>2. /\ new \in Circle /\ new.contributors = <<>> /\ new.fundedBy = old.fundedBy
        /\ new.claims = old.claims /\ new.nullifiers = old.nullifiers /\ new.round = old.round
    <3>1. <<>> \in Seq(MockFunder) /\ old \in Circle
      BY <2>1 DEF CircleOK
    <3>2. QED
      BY <3>1 DEF Circle
  <2>3. IsInjective(<<>>) /\ Len(<<>>) <= MockSize /\ Range(<<>>) \subseteq old.fundedBy
    BY MockAssumption DEF IsInjective, Range
  <2>4. circles' = [circles EXCEPT ![id] = new] /\ Return(c)
    BY <1>6, <2>1 DEF cancelCircle, MockInv
  <2> HIDE DEF new, old
  <2>5. CircleOK(new)
    BY <2>1, <2>2, <2>3 DEF CircleOK
  <2> HIDE DEF id
  <2>6. QED
    BY <1>1, <2>4, <2>5
<1>7. ASSUME NEW c \in MockCaller, claimTag(c)  PROVE MockInv'
  <2>1. PICK call : /\ calls' = [calls EXCEPT ![c] = call] /\ call.op = "tagged"
                    /\ call.nullifierHash = calls[c].nullifierHash
    <3> DEFINE id == calls[c].circleId
               new == [op |-> "tagged", circleId |-> id, nullifierHash |-> calls[c].nullifierHash,
                       externalNullifier |-> calls[c].externalNullifier, lengths |-> calls[c].lengths,
                       expected |-> Tag(id, circles[id].round)]
    <3>1. calls' = [calls EXCEPT ![c] = new]
      BY <1>7 DEF claimTag
    <3>2. new.op = "tagged" /\ new.nullifierHash = calls[c].nullifierHash
      OBVIOUS
    <3> HIDE DEF new
    <3>3. QED
      BY <3>1, <3>2
  <2>2. calls[c].op = "claim" /\ circles' = circles
    BY <1>7 DEF claimTag
  <2>3. QED
    BY <2>1, <2>2 DEF MockInv
<1>8. ASSUME NEW c \in MockCaller, claim(c)  PROVE MockInv'
  <2> DEFINE id == calls[c].circleId
             hash == calls[c].nullifierHash
  <2>1. hash \in MockNullifier /\ unused(circles[id], hash) /\ Return(c)
        /\ circles' = [circles EXCEPT ![id] = pay(circles[id], hash)]
    BY <1>8 DEF claim, MockInv
  <2>2. id \in DOMAIN circles => CircleOK(pay(circles[id], hash))
    BY <2>1, PaidCircle DEF MockInv
  <2> HIDE DEF id, hash
  <2>3. QED
    BY <1>1, <2>1, <2>2
<1>9. ASSUME NEW c \in MockCaller, MockThrow(c)  PROVE MockInv'
  BY <1>2, <1>9 DEF MockThrow
<1>10. CASE UNCHANGED mockVars
  BY <1>10 DEF mockVars, MockInv
<1>11. QED
  BY <1>3, <1>4, <1>5, <1>6, <1>7, <1>8, <1>9, <1>10 DEF MockNext

\* For any circles, sizes and callers: the mock's rounds stay sound although its calls
\* overlap and a claim waits between its checks.
THEOREM MockRoundsAreSoundHolds == MockSpec => []MockRoundsAreSound
<1>1. MockInv => MockRoundsAreSound
  BY DEF MockInv, CircleOK, MockRoundsAreSound
<1>2. QED
  BY <1>1, MockStart, MockIsKept, PTL DEF MockSpec

----------------------------------------------------------------------------
(* From the circuit to what the app serves.                                *)

Key == [circuit : Circuit, key : 0 .. MaxKeys, allowed : BOOLEAN, matched : BOOLEAN]
\* The steps of setup.sh at which there is a new key.
KeyStep == {"export", "guard", "vk", "wasm", "zkey"}
Setup == [step : {"none", "compile", "contribute"} \cup KeyStep, previous : 0 .. MaxKeys, allow : BOOLEAN]
File == [r1cs : SUBSET Circuit, wasm : SUBSET Circuit, zkey : SUBSET Key, vk : SUBSET (0 .. MaxKeys)]

\* A proving key that was acknowledged, the verification key exported from it, and a wasm of
\* its circuit if that was there when the key was made.
Together(files) ==
  \A z \in files.zkey :
    files.vk = {z.key} /\ z.allowed /\ (z.matched => files.wasm = {z.circuit})

\* Of each kind there is one file at most, and no key has a number that is still to come.
FilesInv ==
  /\ built \in File /\ lastKey \in 0 .. MaxKeys
  /\ \E k \in 0 .. lastKey : built.vk = {k}
  /\ \A c \in built.r1cs : built.r1cs = {c}
  /\ \A z \in built.zkey : built.zkey = {z} /\ z.key <= lastKey

\* The hashes of a key that is still there were recorded together.
HashesInv ==
  /\ DOMAIN hashes = Name
  /\ hashes["zkey"] \subseteq Key /\ \A z \in hashes["zkey"] : z.key <= lastKey
  /\ \A z \in built.zkey : z \in hashes["zkey"] =>
       /\ hashes["vk"] \subseteq {z.key} /\ z.allowed
       /\ z.matched => hashes["wasm"] \subseteq {z.circuit}

\* What setup knows from the moment it made the key.
SetupInv ==
  /\ setup \in Setup /\ setup.previous <= lastKey
  /\ setup.step \in KeyStep =>
       \E z \in built.zkey :
         /\ z.matched => built.wasm = {z.circuit}
         /\ z.key # setup.previous /\ (setup.allow => z.allowed)
         /\ z \notin hashes["zkey"]
         /\ setup.step # "export" => built.vk = {z.key}
         /\ setup.step \in {"vk", "wasm", "zkey"} => setup.allow
         /\ setup.step \in {"wasm", "zkey"} => hashes["vk"] \subseteq {z.key}
         /\ setup.step = "zkey" /\ z.matched => hashes["wasm"] \subseteq {z.circuit}

\* What was checked is what is copied.
SyncInv ==
  /\ DOMAIN served = Name /\ sync \subseteq Name
  /\ sync # {} /\ ~ raced =>
       /\ Together(built)
       /\ \A n \in Name : built[n] # {} /\ (n \notin sync => served[n] = built[n])
  /\ sync = {} /\ ~ raced => Together(served)

ArtifactsInv == FilesInv /\ HashesInv /\ SetupInv /\ SyncInv

LEMMA ArtifactsStart == ArtifactsInit => ArtifactsInv
<1> SUFFICES ASSUME ArtifactsInit  PROVE ArtifactsInv
  OBVIOUS
<1>1. FilesInv
  <2>1. built \in {[r1cs |-> {}, wasm |-> {}, zkey |-> {}, vk |-> {0}],
                   [r1cs |-> {Committed}, wasm |-> {Committed}, zkey |-> {CommittedKey}, vk |-> {0}]}
    BY DEF ArtifactsInit
  <2>2. CommittedKey \in Key /\ CommittedKey.key = 0
    BY ArtifactsAssumption DEF Key, CommittedKey
  <2>3. lastKey = 0 /\ 0 \in 0 .. MaxKeys /\ 0 \in 0 .. 0 /\ Committed \in Circuit
    BY ArtifactsAssumption DEF ArtifactsInit
  <2>4. QED
    BY <2>1, <2>2, <2>3 DEF FilesInv, File
<1>2. HashesInv /\ SetupInv /\ SyncInv
  BY ArtifactsAssumption
     DEF ArtifactsInit, HashesInv, SetupInv, SyncInv, NotRunning, NoHash, Setup, KeyStep, Together, Name
<1>3. QED
  BY <1>1, <1>2 DEF ArtifactsInv

\* Artifacts that pass the verification fit one another.
LEMMA VerifiedFits ==
  ASSUME ArtifactsInv, verifyArtifacts
  PROVE  Together(built) /\ \A n \in Name : built[n] # {}
<1>1. \A n \in Name : built[n] # {} /\ hashes[n] = built[n]
  BY DEF verifyArtifacts, Verified
<1>2. built.zkey = built["zkey"] /\ built.vk = built["vk"] /\ built.wasm = built["wasm"]
  OBVIOUS
<1>3. ASSUME NEW z \in built.zkey
      PROVE  built.vk = {z.key} /\ z.allowed /\ (z.matched => built.wasm = {z.circuit})
  <2>1. /\ hashes["vk"] \subseteq {z.key} /\ z.allowed
        /\ z.matched => hashes["wasm"] \subseteq {z.circuit}
    BY <1>1, <1>2 DEF ArtifactsInv, HashesInv, Name
  <2>2. QED
    BY <1>1, <1>2, <2>1 DEF Name
<1>4. QED
  BY <1>1, <1>3 DEF Together

\* A step that changes files spoils the copies under way, and no others.
LEMMA SyncWhenFilesChange ==
  ASSUME SyncInv, raced' = (raced \/ sync # {}), UNCHANGED <<sync, served>>
  PROVE  SyncInv'
BY DEF SyncInv, Together

\* Somebody removes, restores or compiles files while setup.sh is not running.
LEMMA FilesAreHandled ==
  ASSUME ArtifactsInv, FilesInv', UNCHANGED <<hashes, lastKey>>, built'.zkey \subseteq built.zkey,
         setup' \in Setup, setup'.step \notin KeyStep, setup'.previous <= lastKey
  PROVE  HashesInv' /\ SetupInv'
BY DEF ArtifactsInv, HashesInv, SetupInv

\* Nothing is running.
LEMMA NothingRuns ==
  ASSUME ArtifactsInv
  PROVE  /\ NotRunning \in Setup /\ NotRunning.step = "none" /\ "none" \notin KeyStep
         /\ "compile" \notin KeyStep /\ NotRunning.previous = 0 /\ 0 <= lastKey
         /\ [NotRunning EXCEPT !.step = "compile"] \in Setup
         /\ [NotRunning EXCEPT !.step = "compile"].step = "compile"
         /\ [NotRunning EXCEPT !.step = "compile"].previous = 0
<1>1. 0 \in 0 .. MaxKeys /\ FALSE \in BOOLEAN /\ 0 <= lastKey
  BY ArtifactsAssumption DEF ArtifactsInv, FilesInv
<1>2. NotRunning \in Setup /\ NotRunning.step = "none" /\ NotRunning.previous = 0
  <2>1. NotRunning.step = "none" /\ NotRunning.previous = 0
    BY DEF NotRunning
  <2>2. NotRunning \in Setup
    BY <1>1 DEF NotRunning, Setup
  <2>3. QED
    BY <2>1, <2>2
<1>3. /\ [NotRunning EXCEPT !.step = "compile"] \in Setup
      /\ [NotRunning EXCEPT !.step = "compile"].step = "compile"
      /\ [NotRunning EXCEPT !.step = "compile"].previous = 0
  BY <1>2 DEF Setup, KeyStep
<1>4. QED
  BY <1>1, <1>2, <1>3 DEF KeyStep

LEMMA ArtifactsAreKept == ArtifactsInv /\ [ArtifactsNext]_artifactVars => ArtifactsInv'
<1> SUFFICES ASSUME ArtifactsInv, [ArtifactsNext]_artifactVars  PROVE ArtifactsInv'
  OBVIOUS
<1> USE DEF ArtifactsInv
<1>1. ASSUME NEW c \in Circuit, Compile(c)  PROVE ArtifactsInv'
  <2>1. /\ built' = [built EXCEPT !.r1cs = {c}] /\ raced' = (raced \/ sync # {})
        /\ UNCHANGED <<hashes, lastKey, sync, served>>
        /\ setup' = [NotRunning EXCEPT !.step = "compile"]
    BY <1>1 DEF Compile, Change, Goto
  <2>2. built'.zkey \subseteq built.zkey /\ FilesInv'
    BY <2>1 DEF FilesInv, File
  <2>3. SyncInv'
    BY <2>1, SyncWhenFilesChange
  <2>4. HashesInv' /\ SetupInv'
    BY <2>1, <2>2, NothingRuns, FilesAreHandled
  <2>5. QED
    BY <2>2, <2>3, <2>4
\* A key keeps the wasm it was made beside only in its hashes.
<1>2. CASE WriteWasm
  <2>1. /\ built' = [built EXCEPT !.wasm = built.r1cs] /\ raced' = (raced \/ sync # {})
        /\ UNCHANGED <<hashes, lastKey, sync, served>> /\ setup' = NotRunning
    BY <1>2 DEF WriteWasm, Change
  <2>2. built'.zkey \subseteq built.zkey /\ FilesInv'
    BY <2>1 DEF FilesInv, File
  <2>3. SyncInv'
    BY <2>1, SyncWhenFilesChange
  <2>4. HashesInv' /\ SetupInv'
    BY <2>1, <2>2, NothingRuns, FilesAreHandled
  <2>5. QED
    BY <2>2, <2>3, <2>4
<1>3. CASE RemoveKey \/ Checkout
  <2>1. /\ built' = [built EXCEPT !.zkey = {}] \/ built' = [built EXCEPT !.vk = {0}]
        /\ raced' = (raced \/ sync # {})
        /\ UNCHANGED <<hashes, setup, lastKey, sync, served>> /\ setup = NotRunning
    BY <1>3 DEF RemoveKey, Checkout, Change
  <2>2. built'.zkey \subseteq built.zkey /\ FilesInv'
    BY <2>1, ArtifactsAssumption DEF FilesInv, File
  <2>3. SyncInv'
    BY <2>1, SyncWhenFilesChange
  <2>4. HashesInv' /\ SetupInv'
    BY <2>1, <2>2, NothingRuns, FilesAreHandled
  <2>5. QED
    BY <2>2, <2>3, <2>4
<1>4. CASE Clean
  <2>1. /\ built' = [built EXCEPT !.r1cs = {}, !.wasm = {}, !.zkey = {}]
        /\ served' = [n \in Name |-> {}] /\ sync' = {}
        /\ UNCHANGED <<hashes, setup, lastKey>> /\ setup = NotRunning
    BY <1>4 DEF Clean, Change, removeByExtensions
  <2>2. built'.zkey \subseteq built.zkey /\ FilesInv'
    BY <2>1 DEF FilesInv, File
  <2>3. served'.zkey = {}
    BY <2>1 DEF Name
  <2>4. SyncInv'
    BY <2>1, <2>3 DEF SyncInv, Together
  <2>5. HashesInv' /\ SetupInv'
    BY <2>1, <2>2, NothingRuns, FilesAreHandled
  <2>6. QED
    BY <2>2, <2>4, <2>5
<1>5. ASSUME UNCHANGED <<built, lastKey, sync, served, raced>>  PROVE FilesInv' /\ SyncInv'
  BY <1>5 DEF FilesInv, SyncInv, Together
<1>6. CASE StartSetup
  <2>1. PICK allow \in BOOLEAN :
          setup' = [step |-> "contribute", previous |-> CHOOSE k \in built.vk : TRUE, allow |-> allow]
    BY <1>6 DEF StartSetup
  <2>2. UNCHANGED <<built, hashes, lastKey, sync, served, raced>>
    BY <1>6 DEF StartSetup
  <2>3. PICK k \in 0 .. lastKey : built.vk = {k}
    BY DEF FilesInv
  <2>4. setup' = [step |-> "contribute", previous |-> k, allow |-> allow]
    BY <2>1, <2>3
  <2>5. k \in 0 .. MaxKeys /\ k <= lastKey
    BY <2>3, ArtifactsAssumption DEF FilesInv
  <2>6. SetupInv'
    BY <2>2, <2>4, <2>5 DEF SetupInv, Setup, KeyStep
  <2>7. HashesInv'
    BY <2>2 DEF HashesInv
  <2>8. QED
    BY <1>5, <2>2, <2>6, <2>7
\* The number of the new key is one nobody has seen.
<1>7. CASE Contribute
  <2>0. PICK n \in Nat : n = lastKey + 1
    BY ArtifactsAssumption DEF FilesInv
  <2>1. PICK c \in built.r1cs :
          built' = [built EXCEPT !.zkey = {[circuit |-> c, key |-> n, allowed |-> setup.allow,
                                            matched |-> built.wasm = built.r1cs]}]
    BY <1>7, <2>0 DEF Contribute, Change
  <2> DEFINE m == built.wasm = built.r1cs
             z == [circuit |-> c, key |-> n, allowed |-> setup.allow, matched |-> m]
  <2>2. /\ setup' = [setup EXCEPT !.step = "export"] /\ setup.step = "contribute"
        /\ raced' = (raced \/ sync # {}) /\ UNCHANGED <<hashes, sync, served>>
        /\ lastKey' = n /\ lastKey < MaxKeys
    BY <1>7, <2>0 DEF Contribute, Change, Goto
  <2>3. n \in 0 .. MaxKeys /\ n > lastKey /\ lastKey \in Nat
    BY <2>0, <2>2, ArtifactsAssumption DEF FilesInv
  <2>4. /\ c \in Circuit /\ built.r1cs = {c} /\ setup.allow \in BOOLEAN /\ m \in BOOLEAN
        /\ m => built.wasm = {c}
    BY DEF FilesInv, File, SetupInv, Setup
  <2>5. built' = [built EXCEPT !.zkey = {z}]
    BY <2>1
  <2> HIDE DEF m
  <2>6. /\ z \in Key /\ z.key = n /\ z.circuit = c /\ z.allowed = setup.allow /\ z.matched = m
    BY <2>3, <2>4 DEF Key
  <2> HIDE DEF z
  <2>7. z \notin hashes["zkey"]
    BY <2>3, <2>6 DEF HashesInv
  <2>8. /\ built'.zkey = {z} /\ built'.wasm = built.wasm /\ built'.vk = built.vk
        /\ built'.r1cs = built.r1cs
    BY <2>5 DEF FilesInv, File
  <2>9. built' \in File
    BY <2>5, <2>6 DEF FilesInv, File
  <2>10. FilesInv'
    <3>1. \A k \in 0 .. lastKey : k \in 0 .. n
      BY <2>3
    <3>2. n \in Nat /\ n <= n
      OBVIOUS
    <3>3. QED
      BY <2>2, <2>3, <2>6, <2>8, <2>9, <3>1, <3>2 DEF FilesInv
  <2>11. HashesInv'
    <3>1. \A y \in hashes["zkey"] : y.key <= n
      BY <2>3 DEF HashesInv, Key
    <3>2. QED
      BY <2>2, <2>7, <2>8, <3>1 DEF HashesInv
  <2>12. SetupInv'
    <3>1. /\ setup' \in Setup
          /\ setup'.step = "export" /\ setup'.previous = setup.previous /\ setup'.allow = setup.allow
      BY <2>2 DEF SetupInv, Setup, KeyStep
    <3>2. setup.previous <= lastKey /\ setup.previous \in Nat
      BY DEF SetupInv, Setup
    <3>3. setup'.previous <= n /\ n # setup'.previous
      BY <2>3, <3>1, <3>2
    <3>4. QED
      BY <2>2, <2>4, <2>6, <2>7, <2>8, <3>1, <3>3 DEF SetupInv
  <2>13. SyncInv'
    BY <2>2, SyncWhenFilesChange
  <2>14. QED
    BY <2>10, <2>11, <2>12, <2>13
<1>8. CASE Export
  <2>1. PICK z \in built.zkey : built' = [built EXCEPT !.vk = {z.key}]
    BY <1>8 DEF Export, Change
  <2>2. /\ setup' = [setup EXCEPT !.step = "guard"] /\ setup.step = "export"
        /\ raced' = (raced \/ sync # {}) /\ UNCHANGED <<hashes, lastKey, sync, served>>
    BY <1>8 DEF Export, Change, Goto
  <2>3. /\ built'.zkey = built.zkey /\ built'.wasm = built.wasm /\ built'.vk = {z.key}
        /\ built'.r1cs = built.r1cs /\ z.key \in 0 .. lastKey /\ z.key \in 0 .. MaxKeys
    BY <2>1 DEF FilesInv, File, Key
  <2>4. FilesInv'
    BY <2>1, <2>2, <2>3 DEF FilesInv, File
  <2>5. HashesInv'
    BY <2>2, <2>3 DEF HashesInv
  <2>6. SetupInv'
    <3>1. /\ setup' \in Setup
          /\ setup'.step = "guard" /\ setup'.previous = setup.previous /\ setup'.allow = setup.allow
      BY <2>2 DEF SetupInv, Setup, KeyStep
    <3>2. built.zkey = {z}
      BY DEF FilesInv
    <3>3. QED
      BY <2>2, <2>3, <3>1, <3>2 DEF SetupInv, Setup, KeyStep
  <2>7. SyncInv'
    BY <2>2, SyncWhenFilesChange
  <2>8. QED
    BY <2>4, <2>5, <2>6, <2>7
\* The new key is never the one found, so that only ALLOW_KEY_ROTATION lets it pass.
<1>9. CASE Guard
  <2>1. setup.step = "guard" /\ UNCHANGED <<built, hashes, lastKey, sync, served, raced>>
    BY <1>9 DEF Guard
  <2>2. HashesInv'
    BY <2>1 DEF HashesInv
  <2>3. SetupInv'
    <3>1. CASE Acknowledged
      <4>1. setup' = [setup EXCEPT !.step = "vk"]
        BY <1>9, <3>1 DEF Guard, Goto
      <4>2. /\ setup' \in Setup
            /\ setup'.step = "vk" /\ setup'.previous = setup.previous /\ setup'.allow = setup.allow
        BY <4>1 DEF SetupInv, Setup, KeyStep
      <4>3. PICK z \in built.zkey :
              /\ z.matched => built.wasm = {z.circuit}
              /\ built.vk = {z.key} /\ z \notin hashes["zkey"]
              /\ z.key # setup.previous /\ (setup.allow => z.allowed)
        BY <2>1 DEF SetupInv, Setup, KeyStep
      <4>4. setup.allow
        BY <3>1, <4>3 DEF Acknowledged
      <4>5. QED
        BY <2>1, <4>2, <4>3, <4>4 DEF SetupInv
    <3>2. CASE ~ Acknowledged
      <4>1. setup' = NotRunning
        BY <1>9, <3>2 DEF Guard
      <4>2. QED
        BY <2>1, <4>1, ArtifactsAssumption DEF SetupInv, NotRunning, Setup, KeyStep, FilesInv
    <3>3. QED
      BY <3>1, <3>2
  <2>4. QED
    BY <1>5, <2>1, <2>2, <2>3
<1>10. ASSUME NEW n \in Name, RecordHash(n)  PROVE ArtifactsInv'
  <2>1. /\ setup.step = n /\ UNCHANGED <<built, lastKey, sync, served, raced>>
    BY <1>10 DEF RecordHash
  <2>2. PICK hash : hash \subseteq built[n] /\ hashes' = [hashes EXCEPT ![n] = hash]
    BY <1>10 DEF RecordHash, NoHash
  <2>3. PICK z \in built.zkey :
          /\ z.matched => built.wasm = {z.circuit}
          /\ built.vk = {z.key} /\ z \notin hashes["zkey"]
          /\ z.key # setup.previous /\ z.allowed /\ setup.allow
          /\ setup.step \in {"wasm", "zkey"} => hashes["vk"] \subseteq {z.key}
          /\ setup.step = "zkey" /\ z.matched => hashes["wasm"] \subseteq {z.circuit}
    BY <2>1 DEF SetupInv, KeyStep, Name
  <2>4. built.zkey = {z} /\ z \in Key /\ z.key <= lastKey
    BY DEF FilesInv, File
  <2>5. DOMAIN hashes' = Name /\ hashes'[n] = hash /\ \A m \in Name \ {n} : hashes'[m] = hashes[m]
    BY <2>2 DEF HashesInv
  <2>6. CASE n = "vk"
    <3>1. hashes'["vk"] \subseteq {z.key} /\ hashes'["zkey"] = hashes["zkey"]
      BY <2>2, <2>3, <2>5, <2>6 DEF Name
    <3>2. HashesInv'
      BY <2>1, <2>3, <2>4, <2>5, <3>1 DEF HashesInv
    <3>3. setup' = [setup EXCEPT !.step = "wasm"]
      BY <1>10, <2>6 DEF RecordHash, Goto, After
    <3>4. /\ setup' \in Setup
          /\ setup'.step = "wasm" /\ setup'.previous = setup.previous /\ setup'.allow = setup.allow
      BY <3>3 DEF SetupInv, Setup, KeyStep
    <3>5. SetupInv'
      BY <2>1, <2>3, <3>1, <3>4 DEF SetupInv
    <3>6. QED
      BY <1>5, <2>1, <3>2, <3>5
  <2>7. CASE n = "wasm"
    <3>1. /\ z.matched => hashes'["wasm"] \subseteq {z.circuit}
          /\ hashes'["zkey"] = hashes["zkey"]
          /\ hashes'["vk"] \subseteq {z.key}
      BY <2>1, <2>2, <2>3, <2>5, <2>7 DEF Name
    <3>2. HashesInv'
      BY <2>1, <2>3, <2>4, <2>5, <3>1 DEF HashesInv
    <3>3. setup' = [setup EXCEPT !.step = "zkey"]
      BY <1>10, <2>7 DEF RecordHash, Goto, After
    <3>4. /\ setup' \in Setup
          /\ setup'.step = "zkey" /\ setup'.previous = setup.previous /\ setup'.allow = setup.allow
      BY <3>3 DEF SetupInv, Setup, KeyStep
    <3>5. SetupInv'
      BY <2>1, <2>3, <3>1, <3>4 DEF SetupInv
    <3>6. QED
      BY <1>5, <2>1, <3>2, <3>5
  <2>8. CASE n = "zkey"
    <3>1. /\ hashes'["zkey"] \subseteq {z} /\ hashes'["vk"] = hashes["vk"]
          /\ hashes'["wasm"] = hashes["wasm"]
      BY <2>2, <2>4, <2>5, <2>8 DEF Name
    <3>2. HashesInv'
      BY <2>1, <2>3, <2>4, <2>5, <2>8, <3>1 DEF HashesInv
    <3>3. setup' = NotRunning
      BY <1>10, <2>8 DEF RecordHash
    <3>4. SetupInv'
      BY <2>1, <3>3, ArtifactsAssumption DEF SetupInv, NotRunning, Setup, KeyStep, FilesInv
    <3>5. QED
      BY <1>5, <2>1, <3>2, <3>4
  <2>9. QED
    BY <2>6, <2>7, <2>8 DEF Name
<1>11. CASE StopSetup \/ StopCompile
  <2>1. setup' = NotRunning /\ UNCHANGED <<built, hashes, lastKey, sync, served, raced>>
    BY <1>11 DEF StopSetup, StopCompile
  <2>2. SetupInv'
    BY <2>1, ArtifactsAssumption DEF SetupInv, NotRunning, Setup, KeyStep, FilesInv
  <2>3. HashesInv'
    BY <2>1 DEF HashesInv
  <2>4. QED
    BY <1>5, <2>1, <2>2, <2>3
\* The hash of a key is not recorded before the last step.
<1>12. ASSUME NEW n \in Name, HashFails(n)  PROVE ArtifactsInv'
  <2>1. /\ setup.step = n /\ UNCHANGED <<built, lastKey, sync, served, raced>> /\ setup' = NotRunning
        /\ hashes' = [hashes EXCEPT ![n] = {}]
    BY <1>12 DEF HashFails, NoHash
  <2>2. DOMAIN hashes' = Name /\ \A m \in Name : hashes'[m] \subseteq hashes[m]
    BY <2>1 DEF HashesInv
  <2>3. HashesInv'
    BY <2>1, <2>2 DEF HashesInv, Name
  <2>4. SetupInv'
    BY <2>1, NothingRuns DEF SetupInv
  <2>5. QED
    BY <1>5, <2>1, <2>3, <2>4
<1>13. ASSUME UNCHANGED <<built, hashes, setup, lastKey>>  PROVE FilesInv' /\ HashesInv' /\ SetupInv'
  BY <1>13 DEF FilesInv, HashesInv, SetupInv
<1>14. CASE StartSync
  <2>1. /\ verifyArtifacts /\ sync' = Name
        /\ UNCHANGED <<built, hashes, setup, lastKey, served>>
    BY <1>14 DEF StartSync
  <2>2. Together(built) /\ \A n \in Name : built[n] # {}
    BY <2>1, VerifiedFits
  <2>3. SyncInv'
    BY <2>1, <2>2 DEF SyncInv, Name
  <2>4. QED
    BY <1>13, <2>1, <2>3
<1>15. CASE CopyFile
  <2> DEFINE n == NextCopy
  <2>1. /\ sync # {} /\ sync' = sync \ {n} /\ UNCHANGED <<built, hashes, setup, lastKey, raced>>
        /\ served' = [served EXCEPT ![n] = IF built[n] = {} THEN served[n] ELSE built[n]]
    BY <1>15 DEF CopyFile
  <2> HIDE DEF n
  <2>2. CASE raced
    BY <1>13, <2>1, <2>2 DEF SyncInv
  <2>3. CASE ~ raced
    <3>1. /\ Together(built)
          /\ \A m \in Name : built[m] # {} /\ (m \notin sync => served[m] = built[m])
      BY <2>1, <2>3 DEF SyncInv
    <3>2. DOMAIN served' = Name /\ sync' \subseteq Name
      BY <2>1 DEF SyncInv
    <3>3. \A m \in Name : m \notin sync' => served'[m] = built[m]
      BY <2>1, <3>1 DEF SyncInv
    <3>4. ASSUME sync' = {}  PROVE Together(served')
      <4>1. /\ served'["zkey"] = built["zkey"] /\ served'["vk"] = built["vk"]
            /\ served'["wasm"] = built["wasm"]
        BY <3>3, <3>4 DEF Name
      <4>2. QED
        BY <3>1, <4>1 DEF Together
    <3>5. QED
      BY <1>13, <2>1, <2>3, <3>1, <3>2, <3>3, <3>4 DEF SyncInv
  <2>4. QED
    BY <2>2, <2>3
<1>16. CASE UNCHANGED artifactVars
  BY <1>5, <1>13, <1>16 DEF artifactVars
<1>17. QED
  BY <1>1, <1>2, <1>3, <1>4, <1>6, <1>7, <1>8, <1>9, <1>10, <1>11, <1>14, <1>15, <1>16, <1>12
     DEF ArtifactsNext

\* For any circuits and keys, however compile and setup are stopped and repeated: a sync
\* that no build raced has served a proving key whose maker acknowledged the rotation, with
\* its verification key, and with its wasm unless compile had been stopped between the two.
THEOREM ServedBelongTogetherHolds == ArtifactsSpec => []ServedBelongTogether
<1>1. ArtifactsInv => ServedBelongTogether
  BY DEF ArtifactsInv, SyncInv, ServedBelongTogether, Together
<1>2. QED
  BY <1>1, ArtifactsStart, ArtifactsAreKept, PTL DEF ArtifactsSpec

----------------------------------------------------------------------------
(* The guard on the number of constraints.                                 *)

\* Every set of natural numbers that is not empty has a least one.
LEMMA MinOf == ASSUME NEW T, T \subseteq Nat, T # {}  PROVE Min(T) \in T
<1> DEFINE R == OpToRel(<, Nat)
<1>1. PICK x \in T : \A y \in T : ~ (<<y, x>> \in R)
  <2>1. IsWellFoundedOn(R, Nat)
    BY NatLessThanWellFounded
  <2> HIDE DEF R
  <2>2. QED
    BY <2>1, WFMin
<1>2. \A y \in T : <<y, x>> \in R <=> y < x
  BY DEF OpToRel
<1> HIDE DEF R
<1>3. \A y \in T : x =< y
  <2>1. ASSUME NEW y \in T  PROVE x =< y
    <3>1. x \in Nat /\ y \in Nat
      OBVIOUS
    <3>2. ~ (y < x)
      BY <1>1, <1>2, Zenon
    <3>3. QED
      BY <3>1, <3>2
  <2>2. QED
    BY <2>1
<1>4. QED
  BY <1>3 DEF Min

\* A circuit of one template at one depth, and what constraints.json should record.
At(t, d) == [template |-> t, levels |-> d]
Right == constraints = [d \in GuardedDepths |-> At(template, d)]
Compared == GuardedDepths \ checking.left

\* What the guard knows while it runs and nobody edits.
GuardInv ==
  /\ checking \in [expected : {checking.expected}, left : SUBSET GuardedDepths,
                   generated : BOOLEAN, failures : BOOLEAN]
  /\ constraints = [d \in DOMAIN constraints |-> constraints[d]]
  /\ \A d \in DOMAIN constraints : constraints[d].levels = d
  /\ \A d \in DOMAIN constraints : constraints[d] = At(constraints[d].template, d)
  /\ checking.generated => checking.left # {}
  /\ ~ edited /\ checking.left # {} =>
       /\ checking.expected = constraints
       /\ checking.generated =>
            /\ membershipCircom.template = template
            /\ membershipCircom = At(template, membershipCircom.levels)
            /\ ~ disturbed => membershipCircom.levels = NextDepth
       /\ ~ checking.failures =>
            /\ DOMAIN constraints \subseteq GuardedDepths
            /\ \A d \in Compared : d \in DOMAIN constraints /\ constraints[d] = At(template, d)
       /\ checking.failures /\ ~ disturbed => ~ Right
       /\ verdict = "none"
  /\ ~ edited => (verdict = "ok" => Right) /\ (verdict = "failed" /\ ~ disturbed => ~ Right)

LEMMA GuardStart == GuardInit => GuardInv
BY DEF GuardInit, GuardInv, NotChecking, Right, At

LEMMA GuardIsKept == GuardInv /\ [GuardNext]_guardVars => GuardInv'
<1> SUFFICES ASSUME GuardInv, [GuardNext]_guardVars  PROVE GuardInv'
  OBVIOUS
<1>1. CASE EditTemplate
  BY <1>1 DEF EditTemplate, Edited, GuardInv, At
<1>2. ASSUME NEW d \in Depth, EditConstraints(d)  PROVE GuardInv'
  <2>1. edited' /\ UNCHANGED <<template, membershipCircom, checking, verdict, disturbed>>
    BY <1>2 DEF EditConstraints, Edited
  <2>2. CASE constraints' = Unrecorded(d)
    BY <2>1, <2>2 DEF GuardInv, Unrecorded, At
  <2>3. CASE constraints' = [x \in DOMAIN constraints \cup {d} |->
               IF x = d THEN [template |-> template, levels |-> d] ELSE constraints[x]]
    BY <2>1, <2>3 DEF GuardInv, At
  <2>4. QED
    BY <1>2, <2>2, <2>3 DEF EditConstraints
<1>3. ASSUME NEW env, NEW override, OtherGenerate(env, override)  PROVE GuardInv'
  <2>1. membershipCircom' = At(template, membershipCircom'.levels) /\ membershipCircom'.template = template
    BY <1>3 DEF OtherGenerate, generate, At
  <2>2. disturbed' /\ UNCHANGED <<template, constraints, edits, checking, verdict, edited>>
    BY <1>3 DEF OtherGenerate
  <2>3. QED
    BY <2>1, <2>2 DEF GuardInv, Right, Compared, At, NextDepth
<1>4. CASE StartCheck
  <2> DEFINE failures == ~ DOMAIN constraints \subseteq GuardedDepths
             new == [expected |-> constraints, left |-> GuardedDepths, generated |-> FALSE,
                     failures |-> failures]
  <2>1. /\ checking' = new /\ verdict' = "none" /\ ~ edited' /\ UNCHANGED <<template, constraints>>
    BY <1>4 DEF StartCheck, Guarded
  <2>2. new \in [expected : {new.expected}, left : SUBSET GuardedDepths,
                 generated : BOOLEAN, failures : BOOLEAN]
    BY Zenon
  <2>3. /\ new.expected = constraints /\ new.left = GuardedDepths /\ ~ new.generated
        /\ new.failures = failures
    OBVIOUS
  <2>4. failures => ~ Right
    BY DEF Right
  <2> HIDE DEF new
  <2>5. QED
    BY <2>1, <2>2, <2>3, <2>4 DEF GuardInv, Right, Compared
<1>5. CASE GenerateAtDepth
  <2>1. NextDepth \in Nat \ {NoLevels}
    BY <1>5, MinOf, GuardAssumption DEF GenerateAtDepth, NextDepth, GuardInv, Depth
  <2>2. /\ membershipCircom' = At(template, NextDepth)
        /\ membershipCircom'.levels = NextDepth /\ membershipCircom'.template = template
    BY <1>5, <2>1 DEF GenerateAtDepth, generate, At, NoLevels
  <2>3. /\ checking' = [checking EXCEPT !.generated = TRUE]
        /\ UNCHANGED <<template, constraints, edits, verdict, edited, disturbed>>
    BY <1>5 DEF GenerateAtDepth
  <2>4. checking.left # {}
    BY <1>5 DEF GenerateAtDepth
  <2>5. NextDepth' = NextDepth
    BY <2>3 DEF NextDepth, GuardInv
  <2>6. /\ checking'.left = checking.left /\ checking'.generated /\ checking'.failures = checking.failures
        /\ checking'.expected = checking.expected
        /\ checking' \in [expected : {checking'.expected}, left : SUBSET GuardedDepths,
                           generated : BOOLEAN, failures : BOOLEAN]
    BY <2>3 DEF GuardInv
  <2>7. Compared' = Compared
    BY <2>6 DEF Compared
  <2>8. Right' = Right
    BY <2>3 DEF Right
  <2>9. QED
    BY <2>2, <2>3, <2>4, <2>5, <2>6, <2>7, <2>8 DEF GuardInv
<1>6. CASE CountAtDepth
  <2> DEFINE d == NextDepth
             failures == checking.failures \/ ~ Matches(d)
  <2>1. checking.left # {} /\ d \in checking.left /\ checking.left \subseteq GuardedDepths
    BY <1>6, MinOf, GuardAssumption DEF CountAtDepth, NextDepth, GuardInv, Depth
  <2>2. UNCHANGED <<template, membershipCircom, constraints, edits, edited, disturbed>>
    BY <1>6 DEF CountAtDepth
  <2>3. ASSUME ~ edited, ~ failures
        PROVE  /\ DOMAIN constraints \subseteq GuardedDepths
               /\ \A x \in Compared \cup {d} : x \in DOMAIN constraints /\ constraints[x] = At(template, x)
    <3>1. constraints[d] = membershipCircom /\ d \in DOMAIN constraints
      BY <1>6, <2>1, <2>3 DEF CountAtDepth, Matches, Measured, GuardInv
    <3>2. constraints[d] = At(template, d)
      BY <1>6, <2>1, <2>3, <3>1 DEF CountAtDepth, GuardInv
    <3>3. QED
      BY <2>1, <2>3, <3>1, <3>2 DEF GuardInv
  <2>4. ASSUME ~ edited, failures, ~ disturbed  PROVE ~ Right
    <3>1. CASE checking.failures
      BY <2>1, <2>4, <3>1 DEF GuardInv
    <3>2. CASE ~ Matches(d)
      <4>1. checking.expected = constraints /\ membershipCircom = At(template, d)
        BY <1>6, <2>1, <2>4 DEF CountAtDepth, GuardInv
      <4>2. ~ (d \in DOMAIN constraints /\ constraints[d] = At(template, d))
        BY <3>2, <4>1 DEF Matches, Measured
      <4>3. QED
        BY <2>1, <4>2 DEF Right
    <3>3. QED
      BY <2>4, <3>1, <3>2
  <2>5. CASE checking.left = {d}
    <3>1. checking' = NotChecking /\ verdict' = IF failures THEN "failed" ELSE "ok"
      BY <1>6, <2>5 DEF CountAtDepth
    <3>2. ASSUME ~ edited, ~ failures  PROVE Right
      <4>1. Compared \cup {d} = GuardedDepths
        BY <2>1, <2>5 DEF Compared
      <4>2. DOMAIN constraints = GuardedDepths
        BY <2>3, <3>2, <4>1
      <4>3. \A x \in GuardedDepths : constraints[x] = At(template, x)
        BY <2>3, <3>2, <4>1
      <4>4. constraints = [x \in GuardedDepths |-> constraints[x]]
        BY <4>2 DEF GuardInv
      <4>5. QED
        BY <4>3, <4>4 DEF Right
    <3> HIDE DEF failures, d
    <3>3. QED
      BY <2>2, <2>4, <3>1, <3>2 DEF GuardInv, NotChecking, Right
  <2>6. CASE checking.left # {d}
    <3>1. /\ checking' = [checking EXCEPT !.left = @ \ {d}, !.generated = FALSE, !.failures = failures]
          /\ verdict' = verdict
      BY <1>6, <2>6 DEF CountAtDepth
    <3>2. /\ checking'.left = checking.left \ {d} /\ ~ checking'.generated
          /\ checking'.failures = failures /\ checking'.expected = checking.expected
      BY <3>1 DEF GuardInv
    <3>3. checking' \in [expected : {checking'.expected}, left : SUBSET GuardedDepths,
                         generated : BOOLEAN, failures : BOOLEAN]
      <4>1. failures \in BOOLEAN
        BY DEF GuardInv, Matches
      <4>2. QED
        BY <2>1, <3>1, <3>2, <4>1 DEF GuardInv
    <3>4. Compared' = Compared \cup {d}
      BY <2>1, <3>2 DEF Compared
    <3> HIDE DEF failures, d
    <3>5. QED
      BY <2>1, <2>2, <2>3, <2>4, <3>1, <3>2, <3>3, <3>4 DEF GuardInv, Right
  <2>7. QED
    BY <2>5, <2>6
<1>7. CASE CompileFails
  BY <1>7 DEF CompileFails, GuardInv, NotChecking, Right
<1>8. CASE UNCHANGED guardVars
  BY <1>8 DEF guardVars, GuardInv, Right, Compared, NextDepth
<1>9. QED
  BY <1>1, <1>2, <1>3, <1>4, <1>5, <1>6, <1>7, <1>8 DEF GuardNext

\* For any templates and depths, whoever generates or edits between its two programs: the
\* guard's verdict is about every guarded depth of the template, unless it was edited.
THEOREM GuardIsCompleteHolds == GuardSpec => []GuardIsComplete
<1>1. GuardInv => GuardIsComplete
  BY DEF GuardInv, GuardIsComplete, Right, At
<1>2. QED
  BY <1>1, GuardStart, GuardIsKept, PTL DEF GuardSpec

----------------------------------------------------------------------------
(* What the browser keeps.                                                 *)

\* What is written is read back, by bigintJson always and by the session with one exception.
LEMMA MarkersAreUndone ==
  ASSUME NEW v \in Value
  PROVE  /\ parse(stringify(v)) = v
         /\ reviver(replacer(v)) = v \/ v = TextOf(1, "digits")
         /\ replacer(v) # Garbage
<1>1. CASE v.kind = "bigint"
  <2>1. v = BigIntOf("digits")
    BY <1>1 DEF Value, BigIntOf
  <2>2. v.markers = 0 /\ v.rest = "digits"
    BY <2>1 DEF BigIntOf
  <2>3. TextOf(1, "digits").markers = 1 /\ TextOf(1, "digits").rest = "digits"
    BY DEF TextOf
  <2>4. QED
    BY <1>1, <2>1, <2>2, <2>3 DEF stringify, parse, replacer, reviver, TextOf, Garbage
<1>2. CASE v.kind = "text"
  <2>1. v.markers \in 0 .. MaxMarkers /\ v = TextOf(v.markers, v.rest)
    BY <1>2 DEF Value, TextOf
  <2>2. v.markers \in Nat
    BY <2>1, LocaleAssumption
  <2>3. ASSUME v.markers = 0  PROVE parse(stringify(v)) = v
    <3>1. stringify(v) = v
      BY <1>2, <2>3 DEF stringify
    <3>2. ASSUME NEW w, w = v  PROVE parse(w) = v
      BY <2>3, <3>2 DEF parse
    <3>3. QED
      BY <3>1, <3>2
  <2>4. ASSUME v.markers > 0  PROVE parse(stringify(v)) = v
    <3> DEFINE w == TextOf(v.markers + 1, v.rest)
    <3>1. stringify(v) = w
      BY <1>2, <2>4 DEF stringify
    <3>2. w.markers = v.markers + 1 /\ w.rest = v.rest
      BY DEF TextOf
    <3> HIDE DEF w
    <3>3. parse(w) = TextOf(w.markers - 1, w.rest)
      BY <2>2, <2>4, <3>2 DEF parse
    <3>4. w.markers - 1 = v.markers
      BY <2>2, <3>2
    <3>5. parse(w) = v
      BY <2>1, <3>2, <3>3, <3>4 DEF TextOf
    <3>6. ASSUME NEW x, x = w  PROVE parse(x) = parse(w)
      BY <3>6 DEF parse
    <3>7. QED
      BY <3>1, <3>5, <3>6
  <2>5. parse(stringify(v)) = v
    BY <2>2, <2>3, <2>4
  <2>6. v # Garbage
    BY <1>2 DEF Garbage
  <2>7. QED
    BY <1>2, <2>5, <2>6 DEF replacer, reviver
<1>3. QED
  BY <1>1, <1>2 DEF Value

\* What the two storages hold.
BrowserInv ==
  /\ saved # NoSession => history.value \in Value /\ saved.value = replacer(history.value)
  /\ history.picked # NoLocale => /\ history.picked \in LocaleCode
                                  /\ localeKept = history.picked /\ storage # "blocked"
  /\ DOMAIN history = {"value", "picked"}

LEMMA BrowserStart == BrowserInit => BrowserInv /\ StoredIsReadBack
<1>1. NoLoad.outcome = "none"
  BY DEF NoLoad
<1>2. QED
  BY <1>1, MarkersAreUndone DEF BrowserInit, BrowserInv, StoredIsReadBack, JsonIsExact

\* A page that starts has the language that was kept.
LEMMA StartedLocale ==
  ASSUME BrowserInv, history.picked # NoLocale
  PROVE  Started.locale = history.picked
<1> DEFINE started == applyLocale(chooseInitialLocale)
<1>1. chooseInitialLocale = history.picked
  BY DEF BrowserInv, chooseInitialLocale
<1>2. started = [locale |-> started.locale, dir |-> started.dir, fresh |-> started.fresh]
      /\ started.locale = history.picked
  BY <1>1 DEF applyLocale
<1>3. Started = [started EXCEPT !.fresh = TRUE]
  BY DEF Started
<1> HIDE DEF started
<1>4. QED
  BY <1>2, <1>3

LEMMA BrowserIsKept ==
  BrowserInv /\ StoredIsReadBack /\ [BrowserNext]_browserVars => BrowserInv' /\ StoredIsReadBack'
<1> SUFFICES ASSUME BrowserInv, StoredIsReadBack, [BrowserNext]_browserVars
             PROVE  BrowserInv' /\ StoredIsReadBack'
  OBVIOUS
<1>1. JsonIsExact'
  BY MarkersAreUndone DEF JsonIsExact
<1>2. NoLoad.outcome = "none"
  BY DEF NoLoad
<1>3. ASSUME NEW v \in Value, saveSession(v)  PROVE BrowserInv' /\ StoredIsReadBack'
  <2>1. CASE storage = "works"
    <3>1. saved' = [version |-> release, value |-> replacer(v)] /\ history' = [history EXCEPT !.value = v]
      BY <1>3, <2>1 DEF saveSession
    <3>2. saved'.value = replacer(v) /\ history'.value = v /\ history'.picked = history.picked
          /\ DOMAIN history' = DOMAIN history
      BY <3>1 DEF BrowserInv
    <3>3. QED
      BY <1>1, <1>3, <3>2 DEF saveSession, BrowserInv, StoredIsReadBack
  <2>2. CASE storage # "works"
    BY <1>1, <1>3, <2>2 DEF saveSession, BrowserInv, StoredIsReadBack
  <2>3. QED
    BY <2>1, <2>2
<1>4. CASE loadSession
  <2>1. UNCHANGED <<storage, release, localeKept, language, page, history>> /\ saved' \in {saved, NoSession}
    BY <1>4 DEF loadSession
  <2>2. CASE storage = "blocked" \/ saved = NoSession \/ Mismatch
    <3>1. loadResult' \in {[NoLoad EXCEPT !.outcome = "unavailable"], [NoLoad EXCEPT !.outcome = "corrupt"],
                           [NoLoad EXCEPT !.outcome = "version-mismatch"]}
      BY <1>4, <2>2 DEF loadSession, Mismatch
    <3>2. loadResult'.outcome # "ok"
      BY <3>1 DEF NoLoad
    <3>3. QED
      BY <1>1, <2>1, <3>2 DEF BrowserInv, StoredIsReadBack
  <2>3. CASE ~ (storage = "blocked" \/ saved = NoSession \/ Mismatch)
    <3>1. loadResult' = [outcome |-> "ok", value |-> reviver(saved.value), of |-> saved, last |-> history.value]
      BY <1>4, <2>3 DEF loadSession
    <3>2. /\ loadResult'.value = reviver(saved.value) /\ loadResult'.of = saved
          /\ loadResult'.last = history.value
      BY <3>1
    <3>3. saved.version = release
      BY <2>3 DEF Mismatch
    <3>4. loadResult'.value = loadResult'.last \/ loadResult'.last = TextOf(1, "digits")
      BY <2>3, <3>2, MarkersAreUndone DEF BrowserInv
    <3>5. QED
      BY <1>1, <2>1, <3>2, <3>3, <3>4 DEF BrowserInv, StoredIsReadBack
  <2>4. QED
    BY <2>2, <2>3
<1>5. CASE clearSession
  BY <1>1, <1>5 DEF clearSession, BrowserInv, StoredIsReadBack
<1>6. ASSUME NEW next \in LocaleCode, setLocale(next)  PROVE BrowserInv' /\ StoredIsReadBack'
  <2>1. ~ page'.fresh
    BY <1>6 DEF setLocale, applyLocale
  <2>2. CASE storage = "works"
    <3>1. history' = [history EXCEPT !.picked = next] /\ localeKept' = next
      BY <1>6, <2>2 DEF setLocale
    <3>2. history'.picked = next /\ history'.value = history.value /\ DOMAIN history' = DOMAIN history
      BY <3>1 DEF BrowserInv
    <3>3. QED
      BY <1>1, <1>6, <2>1, <2>2, <3>1, <3>2, LocaleAssumption DEF setLocale, BrowserInv, StoredIsReadBack
  <2>3. CASE storage # "works"
    BY <1>1, <1>6, <2>1, <2>3 DEF setLocale, BrowserInv, StoredIsReadBack
  <2>4. QED
    BY <2>2, <2>3
<1>7. CASE Reload
  <2>1. page' = Started /\ loadResult' = NoLoad /\ UNCHANGED <<storage, saved, localeKept, language, history>>
    BY <1>7 DEF Reload
  <2>2. QED
    BY <1>1, <1>2, <2>1, StartedLocale DEF BrowserInv, StoredIsReadBack
<1>8. CASE NewTab
  <2>1. /\ page' = Started /\ loadResult' = NoLoad /\ saved' = NoSession
        /\ history' = [history EXCEPT !.value = Garbage] /\ UNCHANGED <<storage, release, localeKept, language>>
    BY <1>8 DEF NewTab
  <2>2. history'.picked = history.picked /\ DOMAIN history' = DOMAIN history
    BY <2>1 DEF BrowserInv
  <2>3. QED
    BY <1>1, <1>2, <2>1, <2>2, StartedLocale DEF BrowserInv, StoredIsReadBack
<1>9. CASE StorageChanges
  BY <1>1, <1>9 DEF StorageChanges, BrowserInv, StoredIsReadBack
<1>10. CASE UNCHANGED browserVars
  BY <1>1, <1>10 DEF browserVars, BrowserInv, StoredIsReadBack
<1>11. QED
  BY <1>3, <1>4, <1>5, <1>6, <1>7, <1>8, <1>9, <1>10 DEF BrowserNext

\* For any languages, releases and markers: what a page loads is what was saved last in
\* its tab by the same release, and a page starts in the language kept last.
THEOREM StoredIsReadBackHolds == BrowserSpec => []StoredIsReadBack
BY BrowserStart, BrowserIsKept, PTL DEF BrowserSpec

----------------------------------------------------------------------------
(* The event log and the debug bundle.                                     *)

\* Each event of the log is the one before the next.
BundleInv ==
  /\ log \in Seq([type : SdkEvent, at : Nat]) /\ Len(log) <= SDK_EVENT_BUFFER_LIMIT
  /\ emitted.count \in Nat /\ Len(log) <= emitted.count
  /\ DOMAIN emitted = {"count", "stage"} /\ claimStage = emitted.stage
  /\ \A i \in 1 .. Len(log) : log[i].at = emitted.count - Len(log) + i
  /\ DOMAIN copy = Click
  /\ \A c \in Click : copy[c].written => copy[c].text \cap REDACT_PATTERNS = {}
  /\ DOMAIN handed = {"copied", "refused"}
  /\ \A text \in handed.copied : text \cap REDACT_PATTERNS = {}
  /\ FALSE \notin handed.refused

BundleStep == (LogNext /\ UNCHANGED bundleVars) \/ (BundleNext /\ UNCHANGED logVars)

LEMMA BundleStart == LogInit /\ BundleInit => BundleInv
BY BundleAssumption DEF LogInit, BundleInit, BundleInv, Nothing

\* The log keeps the end of what it is given.
LEMMA KeptTail ==
  ASSUME NEW E, NEW all \in Seq(E)
  PROVE  /\ Kept(all) \in Seq(E) /\ Len(Kept(all)) <= SDK_EVENT_BUFFER_LIMIT
         /\ Len(Kept(all)) <= Len(all)
         /\ \A i \in 1 .. Len(Kept(all)) : Kept(all)[i] = all[Len(all) - Len(Kept(all)) + i]
<1> DEFINE n == Len(all)
           m == n - SDK_EVENT_BUFFER_LIMIT + 1
<1>1. n \in Nat /\ SDK_EVENT_BUFFER_LIMIT \in Nat \ {0}
  BY BundleAssumption
<1>2. CASE n > SDK_EVENT_BUFFER_LIMIT
  <2>1. Kept(all) = SubSeq(all, m, n)
    BY <1>2 DEF Kept
  <2>2. m \in 1 .. n + 1 /\ n \in m - 1 .. n /\ n - m + 1 = SDK_EVENT_BUFFER_LIMIT
    BY <1>1, <1>2
  <2>3. /\ SubSeq(all, m, n) \in Seq(E) /\ Len(SubSeq(all, m, n)) = n - m + 1
        /\ \A i \in 1 .. n - m + 1 : SubSeq(all, m, n)[i] = all[m + i - 1]
    BY <2>2, SubSeqProperties
  <2>4. \A i \in 1 .. SDK_EVENT_BUFFER_LIMIT : m + i - 1 = n - SDK_EVENT_BUFFER_LIMIT + i
    BY <1>1
  <2> HIDE DEF m, n
  <2>5. QED
    BY <1>1, <1>2, <2>1, <2>2, <2>3, <2>4 DEF n
<1>3. CASE ~ n > SDK_EVENT_BUFFER_LIMIT
  <2>1. Kept(all) = all
    BY <1>3 DEF Kept
  <2>2. \A i \in 1 .. n : n - n + i = i
    BY <1>1
  <2>3. QED
    BY <1>1, <1>3, <2>1, <2>2
<1>4. QED
  BY <1>2, <1>3

\* The log after one more event.
LEMMA KeptEvents ==
  ASSUME BundleInv, NEW event \in [type : SdkEvent, at : Nat], event.at = emitted.count + 1
  PROVE  LET kept == Kept(Append(log, event)) IN
           /\ kept \in Seq([type : SdkEvent, at : Nat]) /\ Len(kept) <= SDK_EVENT_BUFFER_LIMIT
           /\ Len(kept) <= emitted.count + 1
           /\ \A i \in 1 .. Len(kept) : kept[i].at = (emitted.count + 1) - Len(kept) + i
<1> DEFINE E == [type : SdkEvent, at : Nat]
           all == Append(log, event)
           kept == Kept(all)
<1>1. log \in Seq(E) /\ Len(log) \in Nat /\ emitted.count \in Nat /\ Len(log) <= emitted.count
  BY DEF BundleInv
<1>2. /\ all \in Seq(E) /\ Len(all) = Len(log) + 1
      /\ all[Len(log) + 1] = event /\ \A i \in 1 .. Len(log) : all[i] = log[i]
  BY <1>1
<1>3. \A i \in 1 .. Len(log) : log[i].at = emitted.count - Len(log) + i
  BY <1>1 DEF BundleInv
<1> HIDE DEF all, E
<1>4. ASSUME NEW i \in 1 .. Len(all)  PROVE all[i].at = (emitted.count + 1) - Len(all) + i
  <2>1. CASE i = Len(log) + 1
    BY <1>1, <1>2, <2>1
  <2>2. CASE i # Len(log) + 1
    <3>1. i \in 1 .. Len(log)
      BY <1>1, <1>2, <2>2
    <3>2. all[i] = log[i] /\ log[i].at = emitted.count - Len(log) + i
      BY <1>2, <1>3, <3>1
    <3>3. emitted.count - Len(log) + i = (emitted.count + 1) - Len(all) + i
      BY <1>1, <1>2, <3>1
    <3>4. QED
      BY <3>2, <3>3
  <2>3. QED
    BY <2>1, <2>2
<1>5. /\ kept \in Seq(E) /\ Len(kept) <= SDK_EVENT_BUFFER_LIMIT /\ Len(kept) <= Len(all)
      /\ \A i \in 1 .. Len(kept) : kept[i] = all[Len(all) - Len(kept) + i]
  BY <1>2, KeptTail
<1>6. Len(kept) \in Nat
  BY <1>5
<1> HIDE DEF kept
<1>7. ASSUME NEW i \in 1 .. Len(kept)  PROVE kept[i].at = (emitted.count + 1) - Len(kept) + i
  <2>1. Len(all) - Len(kept) + i \in 1 .. Len(all)
    BY <1>1, <1>2, <1>5, <1>6
  <2> DEFINE j == Len(all) - Len(kept) + i
  <2>2. kept[i] = all[j] /\ all[j].at = (emitted.count + 1) - Len(all) + j
    BY <1>4, <1>5, <2>1
  <2>3. emitted.count + 1 - Len(all) + j = (emitted.count + 1) - Len(kept) + i
    BY <1>1, <1>2, <1>6, SMTT(60)
  <2>4. QED
    BY <2>2, <2>3
<1>8. Len(kept) <= emitted.count + 1
  BY <1>1, <1>2, <1>5, <1>6
<1>9. QED
  BY <1>5, <1>7, <1>8 DEF kept, all, E

LEMMA BundleIsKept == BundleInv /\ [BundleStep]_<<logVars, bundleVars>> => BundleInv'
<1> SUFFICES ASSUME BundleInv, [BundleStep]_<<logVars, bundleVars>>  PROVE BundleInv'
  OBVIOUS
<1>1. ASSUME NEW type \in SdkEvent, push(type), UNCHANGED bundleVars  PROVE BundleInv'
  <2>1. toLogged(type) \in [type : SdkEvent, at : Nat] /\ toLogged(type).at = emitted.count + 1
    BY DEF toLogged, BundleInv
  <2>2. log' = Kept(Append(log, toLogged(type)))
    BY <1>1 DEF push
  <2>3. /\ emitted'.count = emitted.count + 1 /\ DOMAIN emitted' = {"count", "stage"}
        /\ claimStage' = emitted'.stage /\ emitted.count + 1 \in Nat
    BY <1>1 DEF push, BundleInv
  <2>4. /\ log' \in Seq([type : SdkEvent, at : Nat]) /\ Len(log') <= SDK_EVENT_BUFFER_LIMIT
        /\ Len(log') <= emitted.count + 1
        /\ \A i \in 1 .. Len(log') : log'[i].at = (emitted.count + 1) - Len(log') + i
    BY <2>1, <2>2, KeptEvents
  <2>5. UNCHANGED <<copy, handed>>
    BY <1>1 DEF bundleVars
  <2>6. ASSUME NEW i \in 1 .. Len(log')  PROVE log'[i].at = emitted'.count - Len(log') + i
    <3>1. log'[i].at = (emitted.count + 1) - Len(log') + i
      BY <2>4, Zenon
    <3>2. (emitted.count + 1) - Len(log') + i = emitted'.count - Len(log') + i
      BY <2>3, Zenon
    <3>3. QED
      BY <3>1, <3>2, Zenon
  <2>7. QED
    BY <2>3, <2>4, <2>5, <2>6 DEF BundleInv
<1>2. ASSUME Bridge \/ clearEvents \/ resetClaimStage, UNCHANGED bundleVars  PROVE BundleInv'
  <2>1. CASE Bridge
    BY <1>2, <2>1 DEF Bridge, BundleInv, bundleVars
  <2>2. CASE clearEvents
    <3>1. log' = <<>> /\ Len(<<>>) = 0 /\ <<>> \in Seq([type : SdkEvent, at : Nat]) /\ 1 .. 0 = {}
      BY <2>2 DEF clearEvents
    <3>2. emitted.count >= 0 /\ SDK_EVENT_BUFFER_LIMIT >= 0
      BY BundleAssumption DEF BundleInv
    <3>3. QED
      BY <1>2, <2>2, <3>1, <3>2 DEF clearEvents, BundleInv, bundleVars
  <2>3. CASE resetClaimStage
    BY <1>2, <2>3 DEF resetClaimStage, BundleInv, bundleVars
  <2>4. QED
    BY <1>2, <2>1, <2>2, <2>3
\* Only what the build put into the bundle can match a pattern.
<1>3. ASSUME NEW c \in Click, copyDebugBundle(c), UNCHANGED logVars  PROVE BundleInv'
  <2>1. findLeakedSecret(buildDebugBundle({})) = findLeakedSecret(trusted)
    BY DEF findLeakedSecret, buildDebugBundle, redactSecrets
  <2>2. CASE findLeakedSecret(buildDebugBundle({})) # {}
    <3>1. handed' = [handed EXCEPT !.refused = handed.refused \cup {findLeakedSecret(trusted) # {}}] /\ copy' = copy
      BY <1>3, <2>2 DEF copyDebugBundle
    <3>2. /\ DOMAIN handed' = DOMAIN handed /\ handed'.copied = handed.copied
          /\ handed'.refused = handed.refused \cup {TRUE}
      BY <2>1, <2>2, <3>1 DEF BundleInv
    <3>3. QED
      BY <1>3, <3>1, <3>2 DEF BundleInv, logVars
  <2>3. CASE findLeakedSecret(buildDebugBundle({})) = {}
    <3>1. /\ copy' = [copy EXCEPT ![c] = [written |-> TRUE, text |-> buildDebugBundle({})]]
          /\ handed' = handed /\ buildDebugBundle({}) \cap REDACT_PATTERNS = {}
      BY <1>3, <2>3 DEF copyDebugBundle, findLeakedSecret
    <3>2. QED
      BY <1>3, <3>1 DEF BundleInv, logVars
  <2>4. QED
    BY <2>2, <2>3
<1>4. ASSUME NEW c \in Click, Copied(c), UNCHANGED logVars  PROVE BundleInv'
  <2>1. /\ copy[c].written /\ handed' = [handed EXCEPT !.copied = handed.copied \cup {copy[c].text}]
        /\ copy' = [copy EXCEPT ![c] = Nothing] /\ ~ Nothing.written
    BY <1>4 DEF Copied, Nothing
  <2>2. /\ DOMAIN handed' = DOMAIN handed /\ handed'.refused = handed.refused
        /\ handed'.copied = handed.copied \cup {copy[c].text}
    BY <2>1 DEF BundleInv
  <2>3. QED
    BY <1>4, <2>1, <2>2 DEF BundleInv, logVars
<1>5. ASSUME LabelTimer, UNCHANGED logVars  PROVE BundleInv'
  BY <1>5 DEF LabelTimer, BundleInv, logVars
<1>6. CASE UNCHANGED <<logVars, bundleVars>>
  BY <1>6 DEF logVars, bundleVars, BundleInv
<1>7. QED
  BY <1>1, <1>2, <1>3, <1>4, <1>5, <1>6 DEF BundleStep, LogNext, BundleNext

\* For any limit of the log and any copies at once: no bundle handed out matches a secret
\* pattern, none is refused for what the network said, and the log keeps the latest events.
THEOREM BundleIsSafeHolds == BundleSpec => []BundleIsSafe
<1>1. BundleInv => BundleIsSafe
  <2>1. ASSUME BundleInv, log # <<>>
        PROVE  log[Len(log)].at = emitted.count /\ log[1].at = emitted.count - Len(log) + 1
    <3>1. Len(log) \in Nat /\ Len(log) >= 1 /\ emitted.count \in Nat
      BY <2>1 DEF BundleInv
    <3>2. \A i \in 1 .. Len(log) : log[i].at = emitted.count - Len(log) + i
      BY <2>1 DEF BundleInv
    <3>3. QED
      BY <3>1, <3>2
  <2>2. QED
    BY <2>1 DEF BundleInv, BundleIsSafe
<1>2. QED
  BY <1>1, BundleStart, BundleIsKept, PTL DEF BundleSpec, BundleStep

----------------------------------------------------------------------------
(* The first of some positions.                                             *)

\* A set with a well-founded order has a least element.
LEMMA MinimalIn ==
  ASSUME NEW R, NEW S, IsWellFoundedOn(R, S), NEW T, T \subseteq S, T # {}
  PROVE  \E n \in T : \A m \in T : ~ (<<m, n>> \in R)
BY WFMin

\* The first of some positions is one of them, and none is before it.
LEMMA FirstOfIs ==
  ASSUME NEW T \in SUBSET Nat, T # {}
  PROVE  FirstOf(T) \in T /\ \A m \in T : FirstOf(T) <= m
<1> DEFINE R == {ss \in Nat \X Nat : ss[1] < ss[2]}
<1>1. IsWellFoundedOn(R, Nat)
  BY NatLessThanWellFounded DEF OpToRel
<1>2. \A m, n \in Nat : m < n => <<m, n>> \in R
  OBVIOUS
<1> HIDE DEF R
<1>3. PICK n \in T : \A m \in T : ~ (<<m, n>> \in R)
  BY <1>1, MinimalIn
<1>4. \A m \in T : m \in Nat /\ n \in Nat /\ ~ (m < n)
  BY <1>2, <1>3
<1>5. \A m \in T : n <= m BY <1>4
<1> QED BY <1>5 DEF FirstOf

----------------------------------------------------------------------------
(* What the user is told of an error.                                       *)

\* The errors the app makes itself.
LocalError == { [NoFailure EXCEPT !.class = class] :
                  class \in {"FriendbotRetryableError", "ProvingError", "InvalidInputError"} }

\* An error that was decoded is what the walk found; any other is a layer as it is, or
\* names nothing.
ErrorsInv ==
  /\ failure = [phase |-> failure.phase, thrown |-> failure.thrown,
                error |-> failure.error, told |-> failure.told]
  /\ failure.phase \in {"thrown", "decoded", "raw", "told", "toldDecoded"}
  /\ failure.thrown \in Seq(Layer) /\ failure.thrown # <<>>
  /\ failure.phase \notin {"told", "toldDecoded"} => failure.told = Says("nothing")
  /\ failure.phase = "decoded" => failure.error = Decode(failure.thrown)
  /\ failure.phase = "raw" => failure.error \in LocalError \cup {Raw(failure.thrown[1])}

\* The kinds and the links of a layer.
LEMMA LayerType ==
  ASSUME NEW layer \in Layer
  PROVE  /\ layer.kind \in {"Error", "object", "string"}
         /\ layer.link \in {"cause", "originalError"}
BY DEF Layer

\* With nothing hidden the walk reaches every value of the chain.
LEMMA ReachedIfNotHidden ==
  ASSUME NEW thrown \in Seq(Layer), ~ Hidden(thrown)
  PROVE  Reached(thrown) = DOMAIN thrown
<1> SUFFICES ASSUME NEW i \in DOMAIN thrown, NEW j \in 1 .. i - 1
             PROVE  Follows(thrown[j])
  BY DEF Reached
<1>1. i \in 1 .. Len(thrown) /\ j \in 1 .. Len(thrown) /\ j < Len(thrown)
  OBVIOUS
<1>2. thrown[j] \in Layer BY <1>1
<1>3. j \in DOMAIN thrown BY <1>1
<1> QED BY <1>1, <1>2, <1>3, LayerType DEF Hidden, Follows

\* What the walk finds is an error the chain names; with nothing hidden it is the first.
LEMMA DecodeFinds ==
  ASSUME NEW thrown \in Seq(Layer), thrown # <<>>
  PROVE  \/ /\ Decode(thrown) = RpcErrorOf(thrown[1])
            /\ ~ Hidden(thrown) => Carried(thrown) = 0
         \/ \E i \in DOMAIN thrown :
              /\ thrown[i].code # 0 /\ Decode(thrown) = createContractError(thrown[i])
              /\ ~ Hidden(thrown) => Carried(thrown) = thrown[i].code
<1> DEFINE named == { i \in DOMAIN thrown : thrown[i].code # 0 }
<1>1. ~ Hidden(thrown) => candidates(thrown) = named
  BY ReachedIfNotHidden DEF candidates
<1>2. CASE candidates(thrown) = {}
  BY <1>1, <1>2 DEF Decode, Carried
<1>3. CASE candidates(thrown) # {}
  <2> DEFINE i == FirstOf(candidates(thrown))
  <2>1. candidates(thrown) \in SUBSET Nat /\ candidates(thrown) \subseteq named
    BY DEF candidates, Reached
  <2>2. i \in candidates(thrown) BY <1>3, <2>1, FirstOfIs
  <2>3. i \in DOMAIN thrown /\ thrown[i].code # 0 BY <2>1, <2>2
  <2>4. Decode(thrown) = createContractError(thrown[i]) BY <1>3 DEF Decode
  <2>5. ~ Hidden(thrown) => Carried(thrown) = thrown[i].code
    BY <1>1, <1>3 DEF Carried
  <2> QED BY <2>3, <2>4, <2>5
<1> QED BY <1>2, <1>3

\* Both ways of putting an error of the contract into words name its code.
LEMMA ContractErrorIsTold ==
  ASSUME NEW layer \in Layer, layer.code # 0, NEW error, error = createContractError(layer)
  PROVE  /\ toUiError(error).code = layer.code /\ toUiError(error).says \in {"contract", "message"}
         /\ getErrorMessage(error).code = layer.code
         /\ getErrorMessage(error).says \in {"contract", "message"}
<1>2. \/ \E i \in 1 .. 8 : layer.code = i /\ ClassOf(layer.code) = Errors1To8[i]
      \/ layer.code \notin 1 .. 8 /\ ClassOf(layer.code) \in {"InvalidCircleParamsError", "ContractError"}
  BY DEF ClassOf
<1>3. /\ error.class = ClassOf(layer.code) /\ error.code = layer.code /\ error.text = layer.code
  BY DEF createContractError
<1>4. error.class \in ContractErrors
  BY <1>2, <1>3 DEF ContractErrors, NamedErrors
<1>5. error.class \notin {"FriendbotRetryableError", "RpcError", "ProvingError", "object", "string"}
  BY <1>2, <1>3 DEF Errors1To8
<1>6. parseContractErrorCode(error) = layer.code
  BY <1>3, <1>4 DEF parseContractErrorCode
<1>7. describeError(error) \in {Words(layer.code), Own(error)}
  BY <1>5, <1>6 DEF describeError
<1>8. toUiError(error) \in {Words(layer.code), Own(error)}
  BY <1>3, <1>5 DEF toUiError
<1>9. getErrorMessage(error) = describeError(error) BY <1>5 DEF getErrorMessage
<1>10. \A t \in {Words(layer.code), Own(error)} :
         t.code = layer.code /\ t.says \in {"contract", "message"}
  BY <1>3 DEF Words, Own
<1> QED BY <1>7, <1>8, <1>9, <1>10

\* Any other error is told as it is: its own text or none.
LEMMA OtherErrorIsTold ==
  ASSUME NEW error, error.class \notin ContractErrors, error.code = 0
  PROVE  \A told \in {toUiError(error), getErrorMessage(error)} :
           /\ told.code \in {0, error.text}
           /\ told.says \in {"contract", "message", "generic", "network", "proving", "rateLimit"}
           /\ told.says = "network" => error.class = "RpcError"
<1>1. error.class \notin NamedErrors
  BY DEF ContractErrors
<1>2. parseContractErrorCode(error) \in {0, error.text}
  BY DEF parseContractErrorCode
<1>3. describeError(error) \in {Words(parseContractErrorCode(error)), Says("generic"), Own(error)}
        /\ (describeError(error) = Words(parseContractErrorCode(error))
             => parseContractErrorCode(error) \in {0, error.text})
  BY <1>2 DEF describeError
<1>4. \/ toUiError(error) \in {Says("rateLimit"), Says("proving"), Says("generic"), Own(error)}
      \/ toUiError(error) = Says("network") /\ error.class = "RpcError"
  BY <1>1 DEF toUiError
<1>5. getErrorMessage(error) = Says("rateLimit") \/ getErrorMessage(error) = describeError(error)
  BY DEF getErrorMessage
<1>6. \A c \in {0, error.text} : Words(c).code \in {0, error.text} /\ Words(c).says = "contract"
  BY DEF Words
<1>7. Own(error).code = error.text /\ Own(error).says = "message" BY DEF Own
<1>8. \A w \in {"rateLimit", "proving", "generic", "network"} : Says(w).code = 0 /\ Says(w).says = w
  BY DEF Says
<1>9. ASSUME NEW told, told = toUiError(error)
      PROVE  /\ told.code \in {0, error.text}
             /\ told.says \in {"contract", "message", "generic", "network", "proving", "rateLimit"}
             /\ told.says = "network" => error.class = "RpcError"
  BY <1>4, <1>7, <1>8, <1>9
<1>10. ASSUME NEW told, told = getErrorMessage(error)
       PROVE  /\ told.code \in {0, error.text}
              /\ told.says \in {"contract", "message", "generic", "network", "proving", "rateLimit"}
              /\ told.says = "network" => error.class = "RpcError"
  BY <1>2, <1>3, <1>5, <1>6, <1>7, <1>8, <1>10
<1> QED BY <1>9, <1>10

\* Nothing is told at first.
LEMMA ErrorsStart == ErrorsInit => ErrorsInv /\ ToldIsThrown
<1> SUFFICES ASSUME ErrorsInit PROVE ErrorsInv /\ ToldIsThrown OBVIOUS
<1>1. /\ failure \in [phase : {"thrown"}, thrown : UNION { [1 .. n -> Layer] : n \in 1 .. MaxCauses },
                      error : {NoFailure}, told : {Says("nothing")}]
  BY DEF ErrorsInit
<1>2. failure.phase = "thrown" /\ failure.told = Says("nothing") /\ failure.error = NoFailure
  BY <1>1
<1>3. PICK n \in 1 .. MaxCauses : failure.thrown \in [1 .. n -> Layer]
  BY <1>1
<1>4. failure.thrown \in Seq(Layer) /\ failure.thrown # <<>>
  BY <1>3
<1>5. failure = [phase |-> failure.phase, thrown |-> failure.thrown,
                 error |-> failure.error, told |-> failure.told]
  BY <1>1
<1>7. failure.told.code = 0 /\ failure.told.says = "nothing" BY <1>2 DEF Says
<1> QED BY <1>2, <1>4, <1>5, <1>7 DEF ErrorsInv, ToldIsThrown

\* Every step keeps what was found and tells no more than that.
LEMMA ErrorsAreKept ==
  ErrorsInv /\ ToldIsThrown /\ [ErrorsNext]_errorVars => ErrorsInv' /\ ToldIsThrown'
<1> SUFFICES ASSUME ErrorsInv, ToldIsThrown, [ErrorsNext]_errorVars PROVE ErrorsInv' /\ ToldIsThrown'
  OBVIOUS
<1> DEFINE thrown == failure.thrown
<1>1. thrown \in Seq(Layer) /\ thrown # <<>> 
        /\ failure = [phase |-> failure.phase, thrown |-> failure.thrown,
                      error |-> failure.error, told |-> failure.told]
  BY DEF ErrorsInv
<1>2. thrown[1] \in Layer /\ 1 \in DOMAIN thrown BY <1>1
<1>4. ASSUME DecodeThrown PROVE ErrorsInv' /\ ToldIsThrown'
  <2>2. /\ failure'.phase = "decoded" /\ failure'.thrown = thrown /\ failure'.told = failure.told
        /\ failure'.error = Decode(thrown) /\ failure.phase = "thrown"
        /\ failure' = [phase |-> failure'.phase, thrown |-> failure'.thrown,
                       error |-> failure'.error, told |-> failure'.told]
    BY <1>1, <1>4 DEF DecodeThrown
  <2> QED BY <1>1, <2>2 DEF ErrorsInv, ToldIsThrown, Says
<1>5. ASSUME PassOn PROVE ErrorsInv' /\ ToldIsThrown'
  <2>1. /\ failure'.phase = "raw" /\ failure'.thrown = thrown /\ failure'.told = failure.told
        /\ failure'.error = Raw(thrown[1]) /\ failure.phase = "thrown"
        /\ failure' = [phase |-> failure'.phase, thrown |-> failure'.thrown,
                       error |-> failure'.error, told |-> failure'.told]
    BY <1>1, <1>5 DEF PassOn
  <2> QED BY <1>1, <2>1 DEF ErrorsInv, ToldIsThrown, Says
<1>6. ASSUME Local PROVE ErrorsInv' /\ ToldIsThrown'
  <2>1. PICK class \in {"FriendbotRetryableError", "ProvingError", "InvalidInputError"} :
          failure' = [failure EXCEPT !.phase = "raw", !.error = [NoFailure EXCEPT !.class = class]]
    BY <1>6 DEF Local
  <2>3. /\ failure'.phase = "raw" /\ failure'.thrown = thrown /\ failure'.told = failure.told
        /\ failure'.error \in LocalError /\ failure.phase = "thrown"
        /\ failure' = [phase |-> failure'.phase, thrown |-> failure'.thrown,
                       error |-> failure'.error, told |-> failure'.told]
    BY <1>1, <1>6, <2>1 DEF Local, LocalError
  <2> QED BY <1>1, <2>3 DEF ErrorsInv, ToldIsThrown, Says
<1>7. ASSUME Tell PROVE ErrorsInv' /\ ToldIsThrown'
  <2>1. PICK told \in {toUiError(failure.error), getErrorMessage(failure.error)} :
          failure' = [failure EXCEPT !.told = told,
                        !.phase = IF failure.phase = "decoded" THEN "toldDecoded" ELSE "told"]
    BY <1>7 DEF Tell
  <2>2. /\ failure'.phase = IF failure.phase = "decoded" THEN "toldDecoded" ELSE "told"
        /\ failure'.thrown = thrown /\ failure'.told = told
        /\ failure' = [phase |-> failure'.phase, thrown |-> failure'.thrown,
                       error |-> failure'.error, told |-> failure'.told]
    BY <1>1, <2>1
  <2>3. failure.phase \in {"decoded", "raw"} BY <1>7 DEF Tell
  <2>4. \/ \E i \in DOMAIN thrown :
             /\ failure.phase = "decoded" /\ thrown[i].code # 0
             /\ failure.error = createContractError(thrown[i])
             /\ ~ Hidden(thrown) => Carried(thrown) = thrown[i].code
        \/ /\ failure.phase = "decoded" => (~ Hidden(thrown) => Carried(thrown) = 0)
           /\ failure.phase = "raw" => failure.error.class # "RpcError"
           /\ failure.error.class \notin ContractErrors /\ failure.error.code = 0
           /\ failure.error.text \in {0, thrown[1].code}
    <3>1. Raw(thrown[1]).class # "RpcError" /\ Raw(thrown[1]).class \notin ContractErrors
            /\ Raw(thrown[1]).code = 0 /\ Raw(thrown[1]).text \in {0, thrown[1].code}
      BY <1>2, LayerType DEF Raw, ContractErrors, NamedErrors, Errors1To8
    <3>2. RpcErrorOf(thrown[1]).class \notin ContractErrors
            /\ RpcErrorOf(thrown[1]).code = 0 /\ RpcErrorOf(thrown[1]).text \in {0, thrown[1].code}
      BY <1>2, LayerType DEF Raw, RpcErrorOf, ContractErrors, NamedErrors, Errors1To8
    <3>3. \A e \in LocalError : e.class # "RpcError" /\ e.class \notin ContractErrors /\ e.code = 0 /\ e.text = 0
      BY DEF LocalError, NoFailure, ContractErrors, NamedErrors, Errors1To8
    <3>4. CASE failure.phase = "decoded"
      <4>1. failure.error = Decode(thrown) BY <3>4 DEF ErrorsInv
      <4> QED BY <1>1, <3>2, <3>4, <4>1, DecodeFinds
    <3>5. CASE failure.phase = "raw"
      BY <3>1, <3>3, <3>5 DEF ErrorsInv
    <3> QED BY <2>3, <3>4, <3>5
  <2>5. CASE \E i \in DOMAIN thrown :
             /\ failure.phase = "decoded" /\ thrown[i].code # 0
             /\ failure.error = createContractError(thrown[i])
             /\ ~ Hidden(thrown) => Carried(thrown) = thrown[i].code
    <3>1. PICK i \in DOMAIN thrown :
             /\ failure.phase = "decoded" /\ thrown[i].code # 0
             /\ failure.error = createContractError(thrown[i])
             /\ ~ Hidden(thrown) => Carried(thrown) = thrown[i].code
      BY <2>5
    <3>2. thrown[i] \in Layer BY <1>1
    <3>3. told.code = thrown[i].code /\ told.says \in {"contract", "message"}
      BY <2>1, <3>1, <3>2, ContractErrorIsTold
    <3> QED BY <1>1, <2>2, <3>1, <3>3 DEF ErrorsInv, ToldIsThrown
  <2>6. CASE /\ failure.phase = "decoded" => (~ Hidden(thrown) => Carried(thrown) = 0)
             /\ failure.phase = "raw" => failure.error.class # "RpcError"
             /\ failure.error.class \notin ContractErrors /\ failure.error.code = 0
             /\ failure.error.text \in {0, thrown[1].code}
    <3>2. /\ told.code \in {0, failure.error.text}
          /\ told.says = "network" => failure.error.class = "RpcError"
      BY <2>1, <2>6, OtherErrorIsTold
    <3>5. told.code # 0 => thrown[1].code = told.code BY <2>6, <3>2
    <3> QED BY <1>1, <1>2, <2>2, <2>3, <2>6, <3>2, <3>5 DEF ErrorsInv, ToldIsThrown
  <2> QED BY <2>4, <2>5, <2>6
<1>8. ASSUME UNCHANGED errorVars PROVE ErrorsInv' /\ ToldIsThrown'
  BY <1>8 DEF errorVars, ErrorsInv, ToldIsThrown
<1> QED BY <1>4, <1>5, <1>6, <1>7, <1>8 DEF ErrorsNext

\* An error of the contract that the SDK decoded is told as that error, never as another
\* and never as a network problem, for any chain of causes.
THEOREM ToldIsThrownHolds == ErrorsSpec => []ToldIsThrown
BY ErrorsStart, ErrorsAreKept, PTL DEF ErrorsSpec

----------------------------------------------------------------------------
(* The doctor.                                                              *)

\* A verdict is about the machine as it is; fixes are made before it.
DoctorInv ==
  /\ envFile \in Seq(Line) /\ broken \subseteq Fault
  /\ doctor = [phase |-> doctor.phase, fix |-> doctor.fix, checks |-> doctor.checks,
               todo |-> doctor.todo, exit |-> doctor.exit]
  /\ doctor.phase \in {"start", "fix", "print", "exited"}
  /\ doctor.phase = "print" => doctor.checks = checkAll
  /\ doctor.phase = "exited" => doctor.exit = IF Failing(checkAll) = {} THEN 0 ELSE 1

\* No check blocks exactly on a machine with a good .env and only optional faults.
LEMMA NothingFails ==
  ASSUME broken \subseteq Fault
  PROVE  Failing(checkAll) = {} <=> (checkEnv.ok /\ broken \subseteq Optional)
<1>1. DOMAIN checkAll = 1 .. 12 BY DEF checkAll
<1>2. Failing(checkAll) = {} <=> \A i \in 1 .. 12 : ~ Blocks(checkAll[i])
  BY <1>1 DEF Failing
<1>3. (\A i \in 1 .. 12 : ~ Blocks(checkAll[i])) <=>
        /\ ~ Blocks(checkRust) /\ ~ Blocks(checkCurl) /\ ~ Blocks(checkStellar)
        /\ ~ Blocks(checkNode) /\ ~ Blocks(checkNodeVersion) /\ ~ Blocks(checkCircom)
        /\ ~ Blocks(checkCircomDeps) /\ ~ Blocks(checkClientDist)
        /\ ~ Blocks(checkCircuitArtifacts) /\ ~ Blocks(checkEnv) /\ ~ Blocks(checkCargoCov)
        /\ ~ Blocks(checkJust)
  BY DEF checkAll
<1>4. ASSUME NEW ok, NEW f
      PROVE  (Blocks(Check(TRUE, ok, f)) <=> ~ ok) /\ ~ Blocks(Check(FALSE, ok, f))
  BY DEF Blocks, Check
<1>5. /\ ~ Blocks(checkRust) <=> Clear({"rustcMissing", "rustcOther", "targetMissing"})
      /\ ~ Blocks(checkCurl) <=> Clear({"curlMissing"})
      /\ ~ Blocks(checkStellar) <=> Clear({"stellarMissing", "stellarOld"})
      /\ ~ Blocks(checkNode) <=> Clear({"nodeMissing", "nodeOld"})
      /\ ~ Blocks(checkNodeVersion)
  BY <1>4, Zenon DEF checkRust, checkCurl, checkStellar, checkNode, checkNodeVersion
<1>6. /\ ~ Blocks(checkCircom) <=> Clear({"circomMissing", "circomOld", "primeUnknown"})
      /\ ~ Blocks(checkCircomDeps) <=> Clear({"packageMissing"})
      /\ ~ Blocks(checkClientDist) <=> Clear({"distMissing"})
      /\ ~ Blocks(checkCircuitArtifacts) <=> Clear({"artifactsBad"})
      /\ ~ Blocks(checkCargoCov) /\ ~ Blocks(checkJust)
  BY <1>4, Zenon DEF checkCircom, checkCircomDeps, checkClientDist, checkCircuitArtifacts, checkCargoCov,
              checkJust
<1>7. ~ Blocks(checkEnv) <=> checkEnv.ok
  BY DEF Blocks, checkEnv, Check
<1>8. broken \subseteq Optional <=>
        /\ Clear({"rustcMissing", "rustcOther", "targetMissing"})
        /\ Clear({"curlMissing"}) /\ Clear({"stellarMissing", "stellarOld"})
        /\ Clear({"nodeMissing", "nodeOld"})
        /\ Clear({"circomMissing", "circomOld", "primeUnknown"})
        /\ Clear({"packageMissing"}) /\ Clear({"distMissing"}) /\ Clear({"artifactsBad"})
  BY DEF Clear, Fault, Optional
<1> QED BY <1>2, <1>3, <1>5, <1>6, <1>7, <1>8

\* A key that stands on one line has the same value for both readers.
LEMMA ReadersAgree ==
  ASSUME DoctorInv, NEW key \in EnvKey, LinesOf(key) # {}, Cardinality(LinesOf(key)) <= 1
  PROVE  envValues(key) = loadEnv(key)
<1>1. LinesOf(key) \subseteq 1 .. Len(envFile) /\ Len(envFile) \in Nat
  BY DEF LinesOf, DoctorInv
<1>2. IsFiniteSet(LinesOf(key))
  <2>1. IsFiniteSet(1 .. Len(envFile)) BY <1>1, FS_Interval
  <2> QED BY <1>1, <2>1, FS_Subset
<1>3. Cardinality(LinesOf(key)) = 1
  <2>1. Cardinality(LinesOf(key)) \in Nat /\ Cardinality(LinesOf(key)) # 0
    BY <1>2, FS_CardinalityType, FS_EmptySet
  <2> QED BY <2>1
<1>4. PICK i : LinesOf(key) = {i}
  BY <1>2, <1>3, FS_Singleton
<1>5. i \in Nat BY <1>1, <1>4
<1>6. Lowest({i}) = i /\ Highest({i}) = i
  BY <1>5 DEF Lowest, Highest
<1> QED BY <1>4, <1>6 DEF envValues, loadEnv

\* A .env that passes the check is one the loader takes, unless the readers part.
LEMMA GoodEnvLoads ==
  ASSUME DoctorInv, checkEnv.ok, ~ ReadersPart
  PROVE  loadConfig
<1>1. /\ \A key \in requiredKeys : envValues(key) \in {"good", "padded"}
      /\ envValues("STELLAR_RPC_URL") # "malformed"
  BY DEF checkEnv, Check
<1>2. \A key \in EnvKey : ~ (Cardinality(LinesOf(key)) > 1)
  BY DEF ReadersPart
<1>3. ASSUME NEW key \in EnvKey PROVE LinesOf(key) \in SUBSET (1 .. Len(envFile)) /\ Cardinality(LinesOf(key)) \in Nat
  <2>1. LinesOf(key) \subseteq 1 .. Len(envFile) /\ Len(envFile) \in Nat
    BY DEF LinesOf, DoctorInv
  <2>2. IsFiniteSet(1 .. Len(envFile)) BY <2>1, FS_Interval
  <2>3. IsFiniteSet(LinesOf(key)) BY <2>1, <2>2, FS_Subset
  <2> QED BY <2>1, <2>3, FS_CardinalityType
<1>4. ASSUME NEW key \in EnvKey, LinesOf(key) # {} PROVE envValues(key) = loadEnv(key)
  <2>1. Cardinality(LinesOf(key)) <= 1 BY <1>2, <1>3
  <2> QED BY <1>4, <2>1, ReadersAgree
<1>5. ASSUME NEW key \in requiredKeys PROVE rules(key, loadEnv(key))
  <2>1. key \in EnvKey /\ key \notin {"STELLAR_NETWORK_PASSPHRASE", "STELLAR_RPC_URL"}
    BY DEF requiredKeys, EnvKey
  <2>2. LinesOf(key) # {} BY <1>1 DEF envValues
  <2>3. loadEnv(key) \in {"good", "padded"} BY <1>1, <1>4, <2>1, <2>2
  <2>4. loadEnv(key) # "padded" BY DEF ReadersPart
  <2> QED BY <2>1, <2>3, <2>4 DEF rules
<1>6. ASSUME NEW key \in EnvKey \ requiredKeys PROVE rules(key, loadEnv(key))
  <2>1. key \in {"STELLAR_NETWORK_PASSPHRASE", "STELLAR_RPC_URL"}
    BY DEF requiredKeys, EnvKey
  <2>2. LinesOf(key) # {} /\ isNonEmpty(loadEnv(key))
    BY DEF ReadersPart
  <2>3. envValues(key) = loadEnv(key) BY <1>4, <2>2
  <2> QED BY <1>1, <2>1, <2>2, <2>3 DEF rules
<1> QED BY <1>5, <1>6 DEF loadConfig

\* A function on 1 .. n is a sequence of that length.
LEMMA IsSeq ==
  ASSUME NEW S, NEW n \in Nat, NEW f \in [1 .. n -> S]
  PROVE  f \in Seq(S) /\ Len(f) = n
OBVIOUS

\* Every .env file is a sequence of lines.
LEMMA FilesAreLines == EnvFiles \subseteq Seq(Line)
<1>1. \A i \in 1 .. 5 : KeyOrder[i] \in EnvKey
  BY DEF KeyOrder, EnvKey
<1>2. Shipped \in [1 .. 5 -> Line]
  BY <1>1 DEF Shipped, Line, EnvValue
<1>3. Shipped \in Seq(Line) /\ Len(Shipped) = 5
  <2> HIDE DEF Line, Shipped
  <2> QED BY <1>2, IsSeq, ZenonT(60)
<1>4. NoFile \in Seq(Line) BY DEF NoFile
<1>5. ASSUME NEW i \in 1 .. 5 PROVE Without(i) \in Seq(Line)
  <2> HIDE DEF Line, Shipped
  <2>1. SubSeq(Shipped, 1, i - 1) \in Seq(Line) BY <1>2, SubSeqProperties
  <2>2. SubSeq(Shipped, i + 1, 5) \in Seq(Line) BY <1>2, SubSeqProperties
  <2> QED BY <2>1, <2>2 DEF Without
<1>6. ASSUME NEW line \in Line PROVE Repaired(line.key, line.value) \in Seq(Line)
  <2>1. line.value \in EnvValue BY DEF Line
  <2>2. \A i \in 1 .. 5 : [Shipped[i] EXCEPT !.value = line.value] \in Line
    BY <1>2, <2>1 DEF Line
  <2>3. Repaired(line.key, line.value) \in [1 .. 5 -> Line] BY <1>2, <2>2 DEF Repaired
  <2> QED BY <2>3, IsSeq
<1>7. ASSUME NEW line \in Line PROVE Append(Shipped, line) \in Seq(Line)
  BY <1>3
<1> QED BY <1>3, <1>4, <1>5, <1>6, <1>7 DEF EnvFiles

\* There is no verdict at first.
LEMMA DoctorStart == DoctorInit => DoctorInv
<1> SUFFICES ASSUME DoctorInit PROVE DoctorInv OBVIOUS
<1>1. envFile \in Seq(Line) /\ broken \subseteq Fault BY FilesAreLines DEF DoctorInit
<1>2. doctor \in [phase : {"start"}, fix : BOOLEAN, checks : {<<>>}, todo : {<<>>}, exit : {2}]
  BY DEF DoctorInit
<1>3. doctor = [phase |-> doctor.phase, fix |-> doctor.fix, checks |-> doctor.checks,
                todo |-> doctor.todo, exit |-> doctor.exit] /\ doctor.phase = "start"
  BY <1>2
<1> QED BY <1>1, <1>3 DEF DoctorInv

\* Every step keeps the verdict to the machine as it is.
LEMMA DoctorIsKept == DoctorInv /\ [DoctorNext]_doctorVars => DoctorInv'
<1> SUFFICES ASSUME DoctorInv, [DoctorNext]_doctorVars PROVE DoctorInv' OBVIOUS
<1> DEFINE Shape == doctor' = [phase |-> doctor'.phase, fix |-> doctor'.fix, checks |-> doctor'.checks,
                               todo |-> doctor'.todo, exit |-> doctor'.exit]
<1>1. ASSUME UNCHANGED <<broken, envFile, processEnv>>
      PROVE  checkAll' = checkAll
  BY <1>1 DEF checkAll, checkRust, checkCurl, checkStellar, checkNode, checkNodeVersion, checkCircom,
              checkCircomDeps, checkClientDist, checkCircuitArtifacts, checkEnv, checkCargoCov,
              checkJust, Check, Clear, envValues, LinesOf
<1>2. ASSUME Diagnose PROVE DoctorInv'
  <2>1. UNCHANGED <<broken, envFile, processEnv>> BY <1>2 DEF Diagnose
  <2>2. Shape /\ doctor'.checks = checkAll /\ doctor'.phase \in {"print", "fix"}
    BY <1>2 DEF Diagnose, DoctorInv
  <2> QED BY <1>1, <2>1, <2>2 DEF DoctorInv
<1>3. ASSUME runFix PROVE DoctorInv'
  <2>1. Shape /\ doctor'.phase = "fix" /\ envFile' = envFile /\ broken' \subseteq broken
    BY <1>3 DEF runFix, DoctorInv
  <2> QED BY <2>1 DEF DoctorInv
<1>4. ASSUME Recheck PROVE DoctorInv'
  <2>1. UNCHANGED <<broken, envFile, processEnv>> BY <1>4 DEF Recheck
  <2>2. Shape /\ doctor'.checks = checkAll /\ doctor'.phase = "print"
    BY <1>4 DEF Recheck, DoctorInv
  <2> QED BY <1>1, <2>1, <2>2 DEF DoctorInv
<1>5. ASSUME Exit PROVE DoctorInv'
  <2>1. UNCHANGED <<broken, envFile, processEnv>> BY <1>5 DEF Exit
  <2>2. /\ Shape /\ doctor'.phase = "exited"
        /\ doctor'.exit = IF Failing(doctor.checks) = {} THEN 0 ELSE 1
    BY <1>5 DEF Exit, DoctorInv
  <2>3. doctor.checks = checkAll BY <1>5 DEF Exit, DoctorInv
  <2>4. Failing(checkAll)' = Failing(checkAll) BY <1>1, <2>1 DEF Failing
  <2> QED BY <2>1, <2>2, <2>3, <2>4 DEF DoctorInv
<1>6. ASSUME UNCHANGED doctorVars PROVE DoctorInv'
  <2>1. UNCHANGED <<broken, envFile, processEnv, doctor>> BY <1>6 DEF doctorVars
  <2>2. Failing(checkAll)' = Failing(checkAll) BY <1>1, <2>1 DEF Failing
  <2> QED BY <1>1, <2>1, <2>2 DEF DoctorInv
<1> QED BY <1>2, <1>3, <1>4, <1>5, <1>6 DEF DoctorNext

\* The doctor's verdict is about the machine as it leaves it, for any faults and any fixes
\* that fail, and a green one means that the scripts load their configuration.
THEOREM GreenIsReadyHolds == DoctorSpec => []GreenIsReady
<1>1. DoctorInv => GreenIsReady
  BY NothingFails, GoodEnvLoads DEF DoctorInv, GreenIsReady
<1> QED BY <1>1, DoctorStart, DoctorIsKept, PTL DEF DoctorSpec

----------------------------------------------------------------------------
(* The circle screen as it is shown.                                        *)

\* A state with the fields that are rendered, and a round that was loaded.
IsView(v) ==
  /\ v = [phase |-> v.phase, busy |-> v.busy, error |-> v.error, full |-> v.full, result |-> v.result,
          rejection |-> v.rejection, nullifierClaimed |-> v.nullifierClaimed,
          cancelled |-> v.cancelled, paid |-> v.paid, member |-> v.member,
          ineligible |-> v.ineligible, round |-> v.round, admin |-> v.admin]
  /\ v.round \in {0, 1}

\* What is to be said of the state on the screen waits for its timer or has been said.
SaysWhatIsShown ==
  view.phase # "idle" /\ Announcement(view) # Silence =>
    IF timer = Silence THEN message = Announcement(view) ELSE timer = Announcement(view)

\* The state is one that can be rendered, what it has to say is said or waits, and
\* the focus is on no other heading.
ScreenViewInv ==
  /\ IsView(view)
  /\ SaysWhatIsShown
  /\ focus \in {Heading(view), "page", "elsewhere"}

\* What is said depends on nothing but what the effect is run for.
LEMMA SaidOfDependencies ==
  ASSUME NEW v, NEW w, Dependencies(v) = Dependencies(w)
  PROVE  Announcement(v) = Announcement(w)
<1>1. v.busy = w.busy /\ v.phase = w.phase /\ v.result = w.result /\ v.error = w.error /\ v.full = w.full
  BY DEF Dependencies
<1> QED BY <1>1, Zenon DEF Announcement

\* A handler that sets a field other than the round leaves a state with these fields.
LEMMA ViewChanged ==
  ASSUME NEW v, IsView(v), NEW x
  PROVE  /\ IsView([v EXCEPT !.phase = x]) /\ IsView([v EXCEPT !.busy = x])
         /\ IsView([v EXCEPT !.error = x]) /\ IsView([v EXCEPT !.full = x])
         /\ IsView([v EXCEPT !.result = x]) /\ IsView([v EXCEPT !.rejection = x])
         /\ IsView([v EXCEPT !.nullifierClaimed = x]) /\ IsView([v EXCEPT !.cancelled = x])
         /\ IsView([v EXCEPT !.paid = x]) /\ IsView([v EXCEPT !.member = x])
         /\ IsView([v EXCEPT !.ineligible = x]) /\ IsView([v EXCEPT !.admin = x])
BY SMTT(60) DEF IsView

\* A render keeps the screen and what is said of it together.
LEMMA RenderKeeps ==
  ASSUME ScreenViewInv, NEW v, NEW now, IsView(v), Render(v, now)
  PROVE  ScreenViewInv'
<1> DEFINE w == IF StartsCheck(v) THEN [v EXCEPT !.busy = "check"] ELSE v
           speaks == Dependencies(w) # Dependencies(view) /\ Announcement(w) # Silence
<1>1. IsView(w)
  <2>1. IsView([v EXCEPT !.busy = "check"]) BY DEF IsView
  <2> QED BY <2>1
<1>2. /\ view' = w /\ focus' = FocusAfter(w) /\ message' = message
      /\ timer' = IF speaks THEN Announcement(w) ELSE timer
  BY DEF Render, announce
<1>3. IsView(view)' BY <1>1, <1>2 DEF IsView
<1> HIDE DEF w
<1>4. SaysWhatIsShown'
  <2> SUFFICES ASSUME w.phase # "idle", Announcement(w) # Silence
               PROVE  IF timer' = Silence THEN message' = Announcement(w) ELSE timer' = Announcement(w)
    BY <1>2 DEF SaysWhatIsShown
  <2>1. CASE Dependencies(w) # Dependencies(view)
    BY <1>2, <2>1
  <2>2. CASE Dependencies(w) = Dependencies(view)
    <3>1. Announcement(w) = Announcement(view) BY <2>2, SaidOfDependencies
    <3>2. w.phase = view.phase BY <2>2 DEF Dependencies
    <3> QED BY <1>2, <2>2, <3>1, <3>2 DEF ScreenViewInv, SaysWhatIsShown
  <2> QED BY <2>1, <2>2
<1>5. focus' \in {Heading(w), "page", "elsewhere"}
  <2>1. focus \in {Heading(view), "page", "elsewhere"} BY DEF ScreenViewInv
  <2> QED BY <1>2, <2>1 DEF FocusAfter
<1> QED BY <1>2, <1>3, <1>4, <1>5 DEF ScreenViewInv

\* A handler begins with a render.
LEMMA BeginKeeps ==
  ASSUME ScreenViewInv, NEW h, NEW v, IsView(v), Begin(h, v)
  PROVE  ScreenViewInv'
<1>1. IsView([v EXCEPT !.error = FALSE, !.busy = h]) BY ViewChanged, Zenon
<1> QED BY <1>1, RenderKeeps DEF Begin

\* A handler ends with a render.
LEMMA EndKeeps ==
  ASSUME ScreenViewInv, NEW h, NEW v, IsView(v), End(h, v)
  PROVE  ScreenViewInv'
<1>1. IsView([v EXCEPT !.busy = NotBusy]) BY DEF IsView
<1> QED BY <1>1, RenderKeeps DEF End

\* There is nothing to be said at first.
LEMMA ScreenViewStart == ScreenViewInit => ScreenViewInv
BY DEF ScreenViewInit, ScreenViewInv, IsView, SaysWhatIsShown, Heading

\* Every handler, timer and key keeps it.
LEMMA ScreenViewIsKept == ScreenViewInv /\ [ScreenViewNext]_screenViewVars => ScreenViewInv'
<1> SUFFICES ASSUME ScreenViewInv, [ScreenViewNext]_screenViewVars PROVE ScreenViewInv' OBVIOUS
<1>0. IsView(view) BY DEF ScreenViewInv
<1>1. ASSUME startCircle \/ loadState \/ GoesOn \/ startCircleEnds PROVE ScreenViewInv'
  <2>1. CASE startCircle
    <3>1. IsView([view EXCEPT !.phase = "loading"]) BY <1>0, ViewChanged, Zenon
    <3> QED BY <2>1, <3>1, BeginKeeps DEF startCircle
  <2>2. CASE loadState
    <3>1. PICK result, rejection \in BOOLEAN, round \in {0, 1} :
            Render([view EXCEPT !.phase = "ready", !.admin = TRUE, !.result = result,
                                !.rejection = rejection, !.round = round], running)
      BY <2>2 DEF loadState
    <3>2. IsView([view EXCEPT !.phase = "ready", !.admin = TRUE, !.result = result,
                              !.rejection = rejection])
      BY <1>0, ViewChanged, Zenon
    <3>3. \A v : IsView(v) => IsView([v EXCEPT !.round = round])
      BY DEF IsView
    <3>4. IsView([view EXCEPT !.phase = "ready", !.admin = TRUE, !.result = result,
                              !.rejection = rejection, !.round = round])
      BY <3>2, <3>3, Zenon
    <3> QED BY <3>1, <3>4, RenderKeeps, SMTT(60)
  <2>3. CASE GoesOn
    <3>1. \A text : IsView([view EXCEPT !.busy = text]) BY <1>0, ViewChanged, Zenon
    <3> QED BY <2>3, <3>1, RenderKeeps DEF GoesOn, Goes
  <2>4. CASE startCircleEnds
    <3>1. IsView([view EXCEPT !.phase = "ready", !.admin = TRUE])
            /\ IsView([view EXCEPT !.phase = "error", !.error = TRUE])
      BY <1>0, ViewChanged, Zenon
    <3> QED BY <2>4, <3>1, EndKeeps DEF startCircleEnds
  <2> QED BY <1>1, <2>1, <2>2, <2>3, <2>4
<1>2. ASSUME fundMember \/ fundWithFreighter PROVE ScreenViewInv'
  BY <1>0, <1>2, BeginKeeps DEF fundMember, fundWithFreighter
<1>3. ASSUME NEW h \in {"fund", "freighter"}, Submits(h) \/ FundEnds(h) PROVE ScreenViewInv'
  <2>1. IsView([view EXCEPT !.member = "pending"])
          /\ IsView([view EXCEPT !.error = TRUE,
                                 !.member = IF view.member = "pending" THEN "none" ELSE view.member])
    BY <1>0, ViewChanged, Zenon
  <2>2. CASE Submits(h) BY <2>1, <2>2, RenderKeeps DEF Submits
  <2>3. CASE FundEnds(h)
    <3>1. \/ End(h, view)
          \/ End(h, [view EXCEPT !.error = TRUE,
                                 !.member = IF view.member = "pending" THEN "none" ELSE view.member])
      BY <1>0, <2>3 DEF FundEnds
    <3> QED BY <1>0, <2>1, <3>1, EndKeeps
  <2> QED BY <1>3, <2>2, <2>3
<1>4. ASSUME doClaim \/ ClaimPaid \/ HasClaimed \/ doClaimEnds PROVE ScreenViewInv'
  <2>1. /\ IsView([view EXCEPT !.result = FALSE, !.rejection = FALSE])
        /\ IsView([view EXCEPT !.result = TRUE]) /\ IsView([view EXCEPT !.nullifierClaimed = TRUE])
        /\ IsView([view EXCEPT !.error = TRUE])
    BY <1>0, ViewChanged, Zenon
  <2>2. CASE doClaim BY <2>1, <2>2, BeginKeeps DEF doClaim
  <2>3. CASE ClaimPaid \/ HasClaimed BY <2>1, <2>3, RenderKeeps DEF ClaimPaid, HasClaimed
  <2>4. CASE doClaimEnds BY <1>0, <2>1, <2>4, EndKeeps DEF doClaimEnds
  <2> QED BY <1>4, <2>2, <2>3, <2>4
<1>5. ASSUME claimAgain \/ Replayed \/ claimAgainEnds PROVE ScreenViewInv'
  <2>1. /\ IsView([view EXCEPT !.rejection = FALSE]) /\ IsView([view EXCEPT !.rejection = TRUE])
    BY <1>0, ViewChanged, Zenon
  <2>2. CASE claimAgain BY <2>1, <2>2, BeginKeeps DEF claimAgain
  <2>3. CASE Replayed BY <2>1, <2>3, RenderKeeps DEF Replayed
  <2>4. CASE claimAgainEnds BY <1>0, <2>4, EndKeeps DEF claimAgainEnds
  <2> QED BY <1>5, <2>2, <2>3, <2>4
<1>6. ASSUME doCancelCircle \/ doCancelCircleEnds PROVE ScreenViewInv'
  <2>1. IsView([view EXCEPT !.error = FALSE]) /\ IsView([view EXCEPT !.error = TRUE])
    BY <1>0, ViewChanged, Zenon
  <2>2. CASE doCancelCircle BY <1>0, <2>1, <2>2, BeginKeeps, RenderKeeps DEF doCancelCircle
  <2>3. CASE doCancelCircleEnds BY <1>0, <2>1, <2>3, EndKeeps DEF doCancelCircleEnds
  <2> QED BY <1>6, <2>2, <2>3
<1>7. ASSUME checkEligibilityEnds \/ UnmountedCheckEnds PROVE ScreenViewInv'
  <2>1. \A e : IsView([view EXCEPT !.error = e]) /\ IsView([view EXCEPT !.ineligible = e])
    BY <1>0, ViewChanged, Zenon
  <2>2. CASE checkEligibilityEnds BY <2>1, <2>2, EndKeeps DEF checkEligibilityEnds
  <2>3. CASE UnmountedCheckEnds BY <2>1, <2>3, RenderKeeps DEF UnmountedCheckEnds
  <2> QED BY <1>7, <2>2, <2>3
<1>8. ASSUME syncFundingState PROVE ScreenViewInv'
  <2>1. PICK full, paid, cancelled, funded \in BOOLEAN :
          Render([view EXCEPT !.full = full, !.paid = paid, !.cancelled = cancelled,
                              !.member = IF funded THEN "funded" ELSE "none"], running)
    BY <1>8 DEF syncFundingState
  <2>2. IsView([view EXCEPT !.full = full, !.paid = paid, !.cancelled = cancelled,
                            !.member = IF funded THEN "funded" ELSE "none"])
    BY <1>0, ViewChanged, Zenon
  <2> QED BY <2>1, <2>2, RenderKeeps
<1>9. ASSUME LiveRegionTimer PROVE ScreenViewInv'
  BY <1>9 DEF LiveRegionTimer, ScreenViewInv, SaysWhatIsShown, IsView
<1>10. ASSUME Tab PROVE ScreenViewInv'
  BY <1>10 DEF Tab, ScreenViewInv, SaysWhatIsShown, IsView
<1>11. ASSUME UNCHANGED screenViewVars PROVE ScreenViewInv'
  BY <1>11 DEF screenViewVars, ScreenViewInv, SaysWhatIsShown, IsView
<1> QED
  BY <1>1, <1>2, <1>3, <1>4, <1>5, <1>6, <1>7, <1>8, <1>9, <1>10, <1>11 DEF ScreenViewNext

\* The components offer what the screen offers.
LEMMA ComponentsOffer ==
  ASSUME view.round \in {0, 1}, NEW online \in BOOLEAN, NEW freighter \in BOOLEAN
  PROVE  LET offered == ScreenOffers(view, online, freighter) IN
         /\ view.phase # "loading" => offered \cap {"fund", "freighter"} = FundingList(view, online, freighter)
         /\ Heading(view) = "claim" => offered \cap {"select", "claim"} = ClaimSection(view, online)
         /\ view.result => ResultOffers(view, online) \subseteq ResultCard(view)
<1> DEFINE offered == ScreenOffers(view, online, freighter)
<1>1. /\ FundOffers(view, online, freighter) \subseteq {"fund", "freighter"}
      /\ ClaimOffers(view, online) \subseteq {"select", "claim"}
      /\ ResultOffers(view, online) \subseteq {"again", "reset"}
      /\ CancelOffers(view) \subseteq {"cancel"}
  BY DEF FundOffers, ClaimOffers, ResultOffers, CancelOffers
<1>2. /\ offered \cap {"fund", "freighter"} = FundOffers(view, online, freighter)
      /\ offered \cap {"select", "claim"} = ClaimOffers(view, online)
  BY <1>1 DEF ScreenOffers
<1>3. view.phase # "loading" => FundOffers(view, online, freighter) = FundingList(view, online, freighter)
  BY DEF FundOffers, FundingList, Free
<1>4. Heading(view) = "claim" => ClaimOffers(view, online) = ClaimSection(view, online)
  BY DEF Heading, ClaimOffers, ClaimSection, Free
<1>5. view.result => ResultOffers(view, online) \subseteq ResultCard(view)
  BY DEF ResultOffers, ResultCard
<1> QED BY <1>2, <1>3, <1>4, <1>5

\* What the live region comes to rest on is what the screen shows, and the components
\* offer what the screen offers, for any order of renders, timers and handlers.
THEOREM HeardIsShownHolds == ScreenViewSpec => []HeardIsShown
<1>1. ScreenViewInv => HeardIsShown
  BY ComponentsOffer DEF ScreenViewInv, IsView, SaysWhatIsShown, HeardIsShown
<1> QED BY <1>1, ScreenViewStart, ScreenViewIsKept, PTL DEF ScreenViewSpec

----------------------------------------------------------------------------
(* The scripts' request.                                                    *)

\* A request that listens is waiting; one that is over was settled; the probe goes on
\* from an answer.
GetInv ==
  /\ get = [phase |-> get.phase, timer |-> get.timer, listener |-> get.listener, outcome |-> get.outcome]
  /\ get.phase \in {"idle", "done"} \cup Waits
  /\ get.phase \in Waits <=> get.timer
  /\ get.listener => get.phase \in Waits
  /\ resetProbe \in {"entries", "reset"} => get.outcome = "json" /\ get.phase = "done"
  /\ resetProbe = "reset" => ~ deployed

\* Every step of the request, of the caller and of the probe keeps it.
LEMMA GetIsKept == GetInv /\ [GetNext]_getVars => GetInv'
<1> SUFFICES ASSUME GetInv, [GetNext]_getVars PROVE GetInv' OBVIOUS
<1>1. \A w : w \in Waits <=> w \in {"fetch", "text", "errorText"} BY DEF Waits
<1>2. ASSUME get.phase # "done", UNCHANGED <<deployed, resetProbe>>, NEW outcome, Settled(outcome)
      PROVE  GetInv'
  BY <1>1, <1>2 DEF GetInv, Settled
<1>3. CASE httpGet
  <2>1. CASE external = "aborted" BY <1>2, <1>3, <2>1 DEF httpGet
  <2>2. CASE external # "aborted"
    <3>1. /\ get'.phase = "fetch" /\ get'.timer = TRUE /\ get'.outcome = get.outcome
          /\ get' = [phase |-> get'.phase, timer |-> get'.timer, listener |-> get'.listener,
                     outcome |-> get'.outcome]
      BY <1>3, <2>2 DEF httpGet, GetInv
    <3> QED BY <1>1, <1>3, <3>1 DEF httpGet, GetInv
  <2> QED BY <2>1, <2>2
<1>4. CASE Headers
  <2>1. PICK phase \in {"text", "errorText"} : get' = [get EXCEPT !.phase = phase]
    BY <1>4 DEF Headers
  <2>2. /\ get'.phase = phase /\ get'.timer = get.timer /\ get'.outcome = get.outcome
        /\ get'.listener = get.listener
        /\ get' = [phase |-> get'.phase, timer |-> get'.timer, listener |-> get'.listener,
                   outcome |-> get'.outcome]
    BY <2>1 DEF GetInv
  <2> QED BY <1>1, <1>4, <2>2 DEF Headers, GetInv
<1>5. CASE BodyRead \/ Broken \/ Deadline
  BY <1>1, <1>2, <1>5 DEF BodyRead, Broken, Deadline, Aborts, GetInv
<1>6. CASE onExternalAbort
  BY <1>1, <1>2, <1>6 DEF onExternalAbort, Aborts, GetInv
<1>7. CASE checkContractDeployed \/ getLedgerEntries
  BY <1>1, <1>7 DEF checkContractDeployed, getLedgerEntries, GetInv
<1>8. CASE UNCHANGED getVars BY <1>8 DEF getVars, GetInv
<1> QED BY <1>3, <1>4, <1>5, <1>6, <1>7, <1>8 DEF GetNext

\* Every await of a request has its deadline, a request that is over leaves nothing
\* behind, and a reset is reported only by an RPC that answers of a contract that is gone.
THEOREM GetStaysBounded == GetSpec => []GetIsBounded
<1>1. GetInit => GetInv BY DEF GetInit, GetInv, Waits
<1>2. GetInv => GetIsBounded BY DEF GetInv, GetIsBounded, Waits
<1> QED BY <1>1, <1>2, GetIsKept, PTL DEF GetSpec
=============================================================================
