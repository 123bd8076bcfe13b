----------------------------- MODULE Friendbot -----------------------------
(***************************************************************************)
(* Funding a list of accounts through friendbot (app/src/lib/friendbot.ts):*)
(* friendbotFund with its three requests per account, and friendbotFundMany*)
(* which goes on after an account that failed.                             *)
(***************************************************************************)
EXTENDS Naturals, Sequences, FiniteSets, SequencesExt

CONSTANTS
  PublicKey,    \* the members' accounts, no two alike
  MAX_RETRIES   \* requests per account

ASSUME FriendbotAssumption == IsFiniteSet(PublicKey) /\ MAX_RETRIES \in Nat \ {0}

VARIABLES
  publicKeys,   \* the accounts to fund
  attempt,      \* the number of the request for the first account that has no result
  pc,           \* where the call stands; idle before the first one
  results,      \* the results so far, in order
  exists        \* the accounts on the ledger

friendbotVars == <<publicKeys, attempt, pc, results, exists>>

FriendbotInit ==
  /\ publicKeys = <<>> /\ results = <<>> /\ attempt = 1 /\ pc = "idle"
  /\ exists \in SUBSET PublicKey

failed == { results[i].publicKey : i \in { j \in DOMAIN results : ~ results[j].success } }

\* A call, or a later one for accounts that failed.
FundMany(keys) ==
  /\ \/ pc = "idle"
     \/ pc = "done" /\ ToSet(keys) \subseteq failed
  /\ publicKeys' = keys /\ results' = <<>> /\ attempt' = 1 /\ pc' = "request"
  /\ UNCHANGED exists

current == publicKeys[Len(results) + 1]

\* friendbotFund returns or throws; friendbotFundMany records it and pauses.
Record(success) ==
  /\ results' = Append(results, [publicKey |-> current, success |-> success])
  /\ attempt' = 1
  /\ pc' = IF Len(results') = Len(publicKeys) THEN "done" ELSE "pause"

\* A request that is worth repeating: the next one, or the last error is thrown.
FaultyTryAgain == IF attempt = MAX_RETRIES THEN Record(TRUE)
                  ELSE pc' = "sleep" /\ attempt' = attempt + 1 /\ UNCHANGED results
TryAgain == IF attempt = MAX_RETRIES THEN Record(FALSE)
            ELSE pc' = "sleep" /\ attempt' = attempt + 1 /\ UNCHANGED results

Asked == pc = "request" /\ UNCHANGED publicKeys

\* 2xx: friendbot created the account.
Created == /\ Asked
           /\ current \notin exists /\ exists' = exists \union {current}
           /\ Record(TRUE)

\* 400: the account is there already.
AlreadyFunded == /\ Asked
                 /\ current \in exists /\ UNCHANGED exists
                 /\ Record(TRUE)

\* 429, 5xx or a fetch that fails; the account may have been created all the same.
Transient == /\ Asked
             /\ exists' \in {exists, exists \union {current}}
             /\ TryAgain

\* Any other status, or an error of another kind, is thrown at once.
Refused == /\ Asked /\ UNCHANGED exists
           /\ Record(FALSE)

Wake == /\ pc \in {"sleep", "pause"}
        /\ pc' = "request"
        /\ UNCHANGED <<publicKeys, attempt, results, exists>>

FriendbotStep == Created \/ AlreadyFunded \/ Transient \/ Refused \/ Wake

Keys == { ks \in SeqOf(PublicKey, Cardinality(PublicKey)) : ks # <<>> /\ IsInjective(ks) }

FriendbotNext == FriendbotStep \/ \E keys \in Keys : FundMany(keys)

FriendbotSpec == FriendbotInit /\ [][FriendbotNext]_friendbotVars

----------------------------------------------------------------------------
(* Properties.                                                             *)

\* An account reported as funded exists, whichever of the requests for it got through
\* and whatever their answers said; so the transactions that follow can be sent from it.
\* No account is skipped, reported twice or reported for another: the results are those
\* of the accounts in order, also after one that failed, and in the end there is one
\* for each.
ReportedFundedExists ==
  /\ \A i \in DOMAIN results :
       /\ results[i].publicKey = publicKeys[i]
       /\ results[i].success => results[i].publicKey \in exists
  /\ pc = "done" => Len(results) = Len(publicKeys)
=============================================================================
