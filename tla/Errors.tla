------------------------------- MODULE Errors -------------------------------
(***************************************************************************)
(* What becomes of an error between the RPC and the user: the SDK decodes  *)
(* it (packages/client/src/decodeError.ts, errors.ts) and the circle       *)
(* screen puts it into words (app/src/screens/CircleScreen.tsx).  A text   *)
(* is the contract error it names, 0 for none, and how it writes it.       *)
(***************************************************************************)
EXTENDS Naturals, Sequences

CONSTANTS
  RpcCode,   \* bound: the contract errors that are thrown, of 1 .. 12
  MaxCauses  \* bound: values chained to one another

ASSUME ErrorsAssumption == RpcCode \subseteq 1 .. 12 /\ MaxCauses \in Nat

VARIABLE failure  \* the chain that was thrown, what became of it, and what the user is told

errorVars == <<failure>>

\* One value of a chain: an Error, another object or a string, its text, and how it refers
\* to the next.  "loose" is a text that only the SDK's own pattern, which allows spaces,
\* recognises.
Layer == [kind : {"Error", "object", "string"}, code : RpcCode \cup {0}, loose : BOOLEAN,
          link : {"cause", "originalError"}]

Errors1To8 == <<"CircleNotFoundError", "RoundNotFundedError", "WrongRoundTagError",
                "AlreadyClaimedError", "InvalidProofError", "RoundFullError", "OverflowError",
                "CircleCancelledError">>
NamedErrors == { Errors1To8[i] : i \in 1 .. 8 }
ContractErrors == NamedErrors \cup {"InvalidCircleParamsError", "ContractError"}

\* The class by which the code is told; the others share the base class.
ClassOf(code) ==
  CASE code \in 1 .. 8 -> Errors1To8[code]
    [] code = 10       -> "InvalidCircleParamsError"
    [] OTHER           -> "ContractError"

NoFailure == [class |-> "none", code |-> 0, text |-> 0, loose |-> FALSE]

\* A thrown value as it is; only an Error or a string has a text to be shown.
Raw(layer) == [class |-> layer.kind, code |-> 0,
               text |-> IF layer.kind = "object" THEN 0 ELSE layer.code, loose |-> layer.loose]

createContractError(layer) ==
  [class |-> ClassOf(layer.code), code |-> layer.code, text |-> layer.code, loose |-> layer.loose]
RpcErrorOf(layer) == [Raw(layer) EXCEPT !.class = "RpcError"]

\* The walk goes on behind an Error's cause and behind an object's cause or
\* originalError, never behind a string.
Follows(layer) ==
  \/ layer.kind = "Error" /\ layer.link = "cause"
  \/ layer.kind = "object"
Reached(thrown) == { i \in DOMAIN thrown : \A j \in 1 .. i - 1 : Follows(thrown[j]) }

candidates(thrown) == { i \in Reached(thrown) : thrown[i].code # 0 }
FirstOf(S) == CHOOSE i \in S : \A j \in S : i <= j

FaultyDecode(thrown) ==
  IF thrown[1].code = 0 THEN RpcErrorOf(thrown[1]) ELSE createContractError(thrown[1])
Decode(thrown) ==
  IF candidates(thrown) = {} THEN RpcErrorOf(thrown[1])
  ELSE createContractError(thrown[FirstOf(candidates(thrown))])

----------------------------------------------------------------------------
(* What the screen says: an error of the contract, "network", "proving",   *)
(* "rate limit" or "generic", or the error's own text, named by its code.  *)

Words(code) == [says |-> "contract", code |-> code]
Own(error) == [says |-> "message", code |-> error.text]
Says(what) == [says |-> what, code |-> 0]

\* Six codes have prose of the SDK's, nine a class of their own.
Described == {1, 2, 3, 4, 5, 10}

parseContractErrorCode(error) ==
  IF error.class \in ContractErrors THEN error.code
  ELSE IF error.class \in {"string", "object"} \/ error.loose THEN 0 ELSE error.text

describeError(error) ==
  CASE parseContractErrorCode(error) \in Described -> Words(parseContractErrorCode(error))
    [] error.class = "object"                      -> Says("generic")
    [] OTHER                                       -> Own(error)

getErrorMessage(error) ==
  IF error.class = "FriendbotRetryableError" THEN Says("rateLimit") ELSE describeError(error)

toUiError(error) ==
  CASE error.class = "FriendbotRetryableError"               -> Says("rateLimit")
    [] error.class \in NamedErrors                           -> Words(error.code)
    [] error.class = "RpcError"                              -> Says("network")
    [] error.class = "ProvingError"                          -> Says("proving")
    [] error.class \in {"object", "string"}                  -> Says("generic")
    [] OTHER                                                 -> Own(error)

----------------------------------------------------------------------------

\* The chain starts as an Error unless it is that one value; it may end in any.
ErrorsInit ==
  /\ failure \in [phase : {"thrown"}, thrown : UNION { [1 .. n -> Layer] : n \in 1 .. MaxCauses },
                  error : {NoFailure}, told : {Says("nothing")}]

\* fund, claim and the other writes, and the reads that decode.
DecodeThrown ==
  /\ failure.phase = "thrown"
  /\ failure' = [failure EXCEPT !.phase = "decoded", !.error = Decode(failure.thrown)]

\* The other reads pass on what was thrown.
PassOn ==
  /\ failure.phase = "thrown"
  /\ failure' = [failure EXCEPT !.phase = "raw", !.error = Raw(failure.thrown[1])]

\* Friendbot, the prover and the SDK's checks throw errors of their own.
Local ==
  /\ failure.phase = "thrown"
  /\ \E class \in {"FriendbotRetryableError", "ProvingError", "InvalidInputError"} :
       failure' = [failure EXCEPT !.phase = "raw", !.error = [NoFailure EXCEPT !.class = class]]

\* fundWithFreighter puts it into words one way, the other handlers the other.
Tell ==
  /\ failure.phase \in {"decoded", "raw"}
  /\ \E told \in {toUiError(failure.error), getErrorMessage(failure.error)} :
       failure' = [failure EXCEPT !.told = told,
                     !.phase = IF failure.phase = "decoded" THEN "toldDecoded" ELSE "told"]

ErrorsNext == DecodeThrown \/ PassOn \/ Local \/ Tell

ErrorsSpec == ErrorsInit /\ [][ErrorsNext]_errorVars

----------------------------------------------------------------------------

\* The contract error a chain carries: its first, unless that hangs behind an Error's
\* originalError or a string, which nobody follows.
Carried(thrown) ==
  LET named == { i \in DOMAIN thrown : thrown[i].code # 0 } IN
  IF named = {} THEN 0 ELSE thrown[FirstOf(named)].code
Hidden(thrown) ==
  \E i \in DOMAIN thrown :
    /\ i < Len(thrown)
    /\ (thrown[i].kind = "string" \/ (thrown[i].kind = "Error" /\ thrown[i].link = "originalError"))

\* A contract error that comes through the SDK reaches the user as that error, at whatever
\* depth the RPC buried it and in whichever words the screen uses, and never as a network
\* problem; whatever else is said never names another error than the one thrown.
ToldIsThrown ==
  LET thrown == failure.thrown IN
  /\ failure.phase = "toldDecoded" /\ ~ Hidden(thrown) /\ Carried(thrown) # 0
       => failure.told.code = Carried(thrown)
  /\ failure.told.code # 0 => \E i \in DOMAIN thrown : thrown[i].code = failure.told.code
  /\ failure.told.says = "network" /\ ~ Hidden(thrown) => Carried(thrown) = 0
=============================================================================
