----------------------------- MODULE MockChain -----------------------------
(***************************************************************************)
(* The chain of the browser end-to-end suite: app/e2e/mock/client.mock.ts. *)
(* It keeps its circles in memory and every call waits one round trip, so  *)
(* the calls of one page overlap; claim waits once more, for the digest of *)
(* the round tag, between its checks.                                      *)
(***************************************************************************)
EXTENDS Naturals, Sequences, FiniteSets, SequencesExt

CONSTANTS
  MockFunder,      \* addresses that fund
  MockNullifier,   \* nullifier hashes
  MockSize,        \* the size of a circle
  MockCaller,      \* bound: calls under way at the same time
  MockMaxCircles,  \* bound: circles created
  MockMaxRound     \* bound: the last round a claim is made for

ASSUME MockAssumption ==
  MockSize \in Nat \ {0} /\ MockMaxCircles \in Nat /\ MockMaxRound \in Nat

VARIABLES
  circles,     \* the array of circles, in the order of their creation
  calls        \* what each caller waits for

mockVars == <<circles, calls>>

\* A circle's id is its place in the array, from 1 here.
CircleId == 1 .. MockMaxCircles

\* computeExternalNullifier: SHA-256 of circle and round, one value for each pair.
Tag(circleId, round) == <<circleId, round>>
Tags == CircleId \X (0 .. MockMaxRound)

Claim  == [nullifierHash : MockNullifier, round : Nat]
Circle == [round : Nat, contributors : Seq(MockFunder), fundedBy : SUBSET MockFunder,
           cancelled : BOOLEAN, nullifiers : SUBSET MockNullifier, claims : Seq(Claim)]

NoCall == [op |-> "none"]
ClaimArgs(op) ==
  [op : {op}, circleId : CircleId, nullifierHash : MockNullifier,
   externalNullifier : Tags, lengths : BOOLEAN]

----------------------------------------------------------------------------

newCircle == [round |-> 0, contributors |-> <<>>, fundedBy |-> {}, cancelled |-> FALSE,
              nullifiers |-> {}, claims |-> <<>>]

MockInit == circles = <<>> /\ calls = [c \in MockCaller |-> NoCall]

\* A call is made; roundTrip is what it waits for first.
MockSend(c) ==
  /\ calls[c] = NoCall
  /\ \E call \in [op : {"createCircle"}]
                   \cup [op : {"fund"}, circleId : CircleId, from : MockFunder]
                   \cup [op : {"cancelCircle"}, circleId : CircleId]
                   \cup ClaimArgs("claim") :
       calls' = [calls EXCEPT ![c] = call]
  /\ UNCHANGED circles

Return(c) == calls' = [calls EXCEPT ![c] = NoCall]

\* lookup and the first checks; a call that fails one of them changes nothing.
lookup(id) == id \in DOMAIN circles
Open(id)   == lookup(id) /\ ~ circles[id].cancelled
IsFull(circle) == Len(circle.contributors) >= MockSize

createCircle(c) ==
  /\ calls[c].op = "createCircle" /\ Len(circles) < MockMaxCircles
  /\ circles' = Append(circles, newCircle)
  /\ Return(c)

\* The call's checks and its write are made in one go, after the round trip.
FaultyCanFund(id, from) == Open(id) /\ ~ IsFull(circles[id])
canFund(id, from) ==
  Open(id) /\ ~ IsFull(circles[id]) /\ ~ Contains(circles[id].contributors, from)

fund(c) ==
  LET id == calls[c].circleId  from == calls[c].from IN
  /\ calls[c].op = "fund"
  /\ canFund(id, from)
  /\ circles' = [circles EXCEPT ![id].contributors = Append(@, from),
                                ![id].fundedBy = @ \cup {from}]
  /\ Return(c)

cancelCircle(c) ==
  LET id == calls[c].circleId IN
  /\ calls[c].op = "cancelCircle" /\ lookup(id)
  /\ circles' = [circles EXCEPT ![id].cancelled = TRUE, ![id].contributors = <<>>]
  /\ Return(c)

\* The first part of claim: the expected tag is the one of the round it sees.
claimTag(c) ==
  LET id == calls[c].circleId IN
  /\ calls[c].op = "claim"
  /\ Open(id) /\ IsFull(circles[id]) /\ circles[id].round <= MockMaxRound
  /\ calls' = [calls EXCEPT ![c] =
       [op |-> "tagged", circleId |-> id, nullifierHash |-> calls[c].nullifierHash,
        externalNullifier |-> calls[c].externalNullifier, lengths |-> calls[c].lengths,
        expected |-> Tag(id, circles[id].round)]]
  /\ UNCHANGED circles

\* The second part, after the digest: nothing is looked at again.
unused(circle, nullifierHash) == nullifierHash \notin circle.nullifiers

pay(circle, nullifierHash) ==
  [circle EXCEPT !.nullifiers = @ \cup {nullifierHash},
                 !.claims = Append(@, [nullifierHash |-> nullifierHash, round |-> circle.round]),
                 !.contributors = <<>>, !.round = @ + 1]

claim(c) ==
  LET call == calls[c] IN
  /\ call.op = "tagged"
  /\ call.externalNullifier = call.expected /\ call.lengths
  /\ unused(circles[call.circleId], call.nullifierHash)
  /\ circles' = [circles EXCEPT ![call.circleId] = pay(@, call.nullifierHash)]
  /\ Return(c)

\* A call that fails a check throws.
MockThrow(c) ==
  LET call == calls[c] IN
  /\ \/ call.op = "fund" /\ ~ canFund(call.circleId, call.from)
     \/ call.op = "cancelCircle" /\ ~ lookup(call.circleId)
     \/ call.op = "claim" /\ ~ (Open(call.circleId) /\ IsFull(circles[call.circleId]))
     \/ /\ call.op = "tagged"
        /\ ~ ( /\ call.externalNullifier = call.expected /\ call.lengths
               /\ unused(circles[call.circleId], call.nullifierHash) )
  /\ Return(c)
  /\ UNCHANGED circles

MockNext ==
  \E c \in MockCaller :
    \/ MockSend(c) \/ createCircle(c) \/ fund(c) \/ cancelCircle(c)
    \/ claimTag(c) \/ claim(c) \/ MockThrow(c)

MockSpec == MockInit /\ [][MockNext]_mockVars

----------------------------------------------------------------------------
(* Properties.                                                             *)

\* A round of the mock has no more contributors than its size and none of them
\* twice, although the calls overlap; each claim opened one round, and no two used the
\* same nullifier, although a claim waits between its checks.
MockRoundsAreSound ==
  \A id \in DOMAIN circles :
    LET circle == circles[id] IN
    /\ IsInjective(circle.contributors) /\ Len(circle.contributors) <= MockSize
    /\ Range(circle.contributors) \subseteq circle.fundedBy
    /\ circle.round = Len(circle.claims)
    /\ \A i, j \in DOMAIN circle.claims :
         circle.claims[i].nullifierHash = circle.claims[j].nullifierHash => i = j
=============================================================================
