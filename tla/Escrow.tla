------------------------------- MODULE Escrow -------------------------------
(***************************************************************************)
(* What Sharibo promises the people who pay in, without ledgers, deadlines,*)
(* administrators, proofs or a shared contract balance.  Every circle is a *)
(* pool with money of its own.  A pool takes deposits of a fixed stake     *)
(* until all its seats are taken; then the whole pool goes to one account, *)
(* less the fee agreed when the pool was opened.  Any pool may instead be  *)
(* returned: everybody gets back exactly what they put in, and the pool    *)
(* starts the next round or is closed for ever.                            *)
(***************************************************************************)
EXTENDS Integers, Sequences, FiniteSets

CONSTANTS Account, Token, Pool, NoPool, InitialBalance
VARIABLES wallet, pool

vars == <<wallet, pool>>

Held(p) == p.stake * Len(p.deposits)
\* How many seats account a has taken in this round, and what it paid for them.
Seats(p, a) == Cardinality({i \in DOMAIN p.deposits : p.deposits[i] = a})
Share(p, a) == p.stake * Seats(p, a)

Opened(id) == pool[id] # NoPool
Open(id) == Opened(id) /\ ~ pool[id].closed

\* A rate is in ten-thousandths.
Rates == 0 .. 10000

\* A pool on sound terms that nobody has paid into.
New(p) ==
  /\ p.stake > 0 /\ p.seats > 0 /\ p.rate \in Rates
  /\ p.round = 0 /\ p.deposits = << >> /\ ~ p.closed

OpenPool(id, p) ==
  /\ ~ Opened(id) /\ p # NoPool /\ New(p)
  /\ pool' = [pool EXCEPT ![id] = p]
  /\ UNCHANGED wallet

Deposit(id, a) ==
  /\ Open(id)
  /\ Len(pool[id].deposits) < pool[id].seats
  /\ wallet[pool[id].token][a] >= pool[id].stake
  /\ wallet' = [wallet EXCEPT ![pool[id].token][a] = @ - pool[id].stake]
  /\ pool' = [pool EXCEPT ![id].deposits = Append(@, a)]

NextRound(p) == [p EXCEPT !.deposits = << >>, !.round = p.round + 1]
Closed(p) == [p EXCEPT !.deposits = << >>, !.closed = TRUE]

\* The fee is the agreed rate of the pool in ten-thousandths, rounded down.
Fee(p) == (p.rate * Held(p)) \div 10000

\* The recipient and the taker of the fee get the whole pool.
PaidOut(p, recipient) ==
  wallet' = [wallet EXCEPT ![p.token] =
    [a \in Account |-> wallet[p.token][a] + (IF a = recipient THEN Held(p) - Fee(p) ELSE 0)
                                          + (IF a = p.feeTo THEN Fee(p) ELSE 0)]]

PayOut(id, recipient) ==
  /\ Open(id)
  /\ Len(pool[id].deposits) = pool[id].seats
  /\ PaidOut(pool[id], recipient)
  /\ pool' = [pool EXCEPT ![id] = NextRound(pool[id])]

\* Every account gets its own share back.
Returned(p) ==
  wallet' = [wallet EXCEPT ![p.token] = [a \in Account |-> wallet[p.token][a] + Share(p, a)]]

ReturnAndContinue(id) ==
  /\ Open(id)
  /\ Len(pool[id].deposits) < pool[id].seats
  /\ Returned(pool[id])
  /\ pool' = [pool EXCEPT ![id] = NextRound(pool[id])]

ReturnAndClose(id) ==
  /\ Open(id)
  /\ Returned(pool[id])
  /\ pool' = [pool EXCEPT ![id] = Closed(pool[id])]

Init ==
  /\ wallet = [t \in Token |-> [a \in Account |-> InitialBalance]]
  /\ pool = [id \in Pool |-> NoPool]

Next ==
  \E id \in Pool :
    \/ OpenPool(id, pool'[id])
    \/ \E a \in Account : Deposit(id, a) \/ PayOut(id, a)
    \/ ReturnAndContinue(id)
    \/ ReturnAndClose(id)

Spec == Init /\ [][Next]_vars

=============================================================================
