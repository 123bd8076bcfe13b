-------------------------- MODULE StorageLifetime --------------------------
(***************************************************************************)
(* How long the ledger entries of the Sharibo contract stay live.  Every   *)
(* entry has a last live ledger; once it is past, the entry is archived    *)
(* and every call that needs it fails until somebody restores it.  Each    *)
(* entry point that writes extends the entries it writes, but the host     *)
(* extends an entry only if little of its life is left.  Money, proofs and *)
(* the pot are left out: a call may always succeed as far as they go.      *)
(***************************************************************************)
EXTENDS Integers

CONSTANTS
  CircleId,
  LEDGER_THRESHOLD,   \* less life left than this triggers an extension
  LEDGER_EXTEND_TO,   \* the life an extension gives
  MinTtl,             \* min_persistent_entry_ttl: the life of a new or restored entry
  Deadlines,          \* the round deadlines create_circle is called with
  MaxLedger           \* bound on the ledger number

ASSUME LifetimeAssumption ==
  /\ LEDGER_THRESHOLD \in Nat /\ LEDGER_EXTEND_TO \in Nat
  /\ MinTtl \in Nat /\ LEDGER_THRESHOLD < MinTtl /\ MinTtl <= LEDGER_EXTEND_TO
  /\ Deadlines \subseteq Nat /\ MaxLedger \in Nat

Instance         == <<"Instance">>      \* NextCircleId lives here
Circle(id)       == <<"Circle", id>>
PendingAdmin(id) == <<"PendingAdmin", id>>
Key == {Instance} \cup {Circle(id) : id \in CircleId} \cup {PendingAdmin(id) : id \in CircleId}

Absent == -1     \* no such entry

VARIABLES
  ledger,      \* env.ledger().sequence()
  liveUntil,   \* the last ledger each entry is live in, or Absent
  deadline,    \* round_deadline_ledgers of each circle
  started,     \* round_started_ledger of each circle
  cancelled,   \* circles that are cancelled
  written,     \* history: the ledger of the last write of each entry
  touched      \* history: the ledger of its last write or restoration

vars == <<ledger, liveUntil, deadline, started, cancelled, written, touched>>

----------------------------------------------------------------------------
(* The host.                                                               *)

Exists(k)   == liveUntil[k] # Absent
Archived(k) == Exists(k) /\ liveUntil[k] < ledger
Live(k)     == Exists(k) /\ ledger <= liveUntil[k]

\* storage().set: a new entry gets the minimal life, an old one keeps its own.
Put(until) == IF until = Absent THEN ledger + MinTtl - 1 ELSE until

\* A mistake: extends only an entry that has no life left at all.
FaultyExtendTtl(until) == IF until - ledger < 0 THEN ledger + LEDGER_EXTEND_TO ELSE until
\* Another one: adds to the life that is left.
FaultyExtendTtlAgain(until) ==
  IF until - ledger < LEDGER_THRESHOLD THEN until + LEDGER_EXTEND_TO ELSE until

\* extend_ttl(LEDGER_THRESHOLD, LEDGER_EXTEND_TO): without effect while there
\* is LEDGER_THRESHOLD or more left.
ExtendTtl(until) ==
  IF until - ledger < LEDGER_THRESHOLD THEN ledger + LEDGER_EXTEND_TO ELSE until

----------------------------------------------------------------------------
(* The entry points.                                                       *)

\* persist_circle and the write of propose_admin: the keys written are set and
\* extended, and the instance is extended with them.
Persisted(keys) ==
  [k \in Key |-> IF k \in keys \cup {Instance} THEN ExtendTtl(Put(liveUntil[k])) ELSE liveUntil[k]]

\* What the history variables remember of the write.
Remember(keys) ==
  /\ written' = [k \in Key |-> IF k \in keys \cup {Instance} THEN ledger ELSE written[k]]
  /\ touched' = [k \in Key |-> IF k \in keys \cup {Instance} THEN ledger ELSE touched[k]]

Persist(keys) == liveUntil' = Persisted(keys) /\ Remember(keys)

IsRoundExpired(id) == deadline[id] # 0 /\ ledger >= started[id] + deadline[id]

\* A call on an active circle needs the contract's instance and the circle.
Callable(id) == Live(Instance) /\ Live(Circle(id)) /\ id \notin cancelled

CreateCircle(id, round_deadline_ledgers) ==
  /\ Live(Instance) /\ ~ Exists(Circle(id))
  /\ round_deadline_ledgers < LEDGER_EXTEND_TO
  /\ deadline' = [deadline EXCEPT ![id] = round_deadline_ledgers]
  /\ started' = [started EXCEPT ![id] = ledger]
  /\ Persist({Circle(id)})
  /\ UNCHANGED <<ledger, cancelled>>

Fund(id) ==
  /\ Callable(id) /\ ~ IsRoundExpired(id)
  /\ Persist({Circle(id)})
  /\ UNCHANGED <<ledger, deadline, started, cancelled>>

Claim(id) ==
  /\ Callable(id)
  /\ started' = [started EXCEPT ![id] = ledger]
  /\ Persist({Circle(id)})
  /\ UNCHANGED <<ledger, deadline, cancelled>>

ExpireRound(id) ==
  /\ Callable(id) /\ IsRoundExpired(id)
  /\ started' = [started EXCEPT ![id] = ledger]
  /\ Persist({Circle(id)})
  /\ UNCHANGED <<ledger, deadline, cancelled>>

CancelCircle(id) ==
  /\ Callable(id)
  /\ cancelled' = cancelled \cup {id}
  /\ Persist({Circle(id)})
  /\ UNCHANGED <<ledger, deadline, started>>

\* Reads the circle but extends only the nomination.
ProposeAdmin(id) ==
  /\ Callable(id) /\ ~ Archived(PendingAdmin(id))
  /\ Persist({PendingAdmin(id)})
  /\ UNCHANGED <<ledger, deadline, started, cancelled>>

\* Writes the circle and removes the nomination.
AcceptAdmin(id) ==
  /\ Callable(id) /\ Live(PendingAdmin(id))
  /\ liveUntil' = [Persisted({Circle(id)}) EXCEPT ![PendingAdmin(id)] = Absent]
  /\ Remember({Circle(id)})
  /\ UNCHANGED <<ledger, deadline, started, cancelled>>

\* Anybody may restore an archived entry, with the minimal life.
Restore(k) ==
  /\ Archived(k)
  /\ liveUntil' = [liveUntil EXCEPT ![k] = ledger + MinTtl - 1]
  /\ touched' = [touched EXCEPT ![k] = ledger]
  /\ UNCHANGED <<ledger, deadline, started, cancelled, written>>

CloseLedger ==
  /\ ledger < MaxLedger
  /\ ledger' = ledger + 1
  /\ UNCHANGED <<liveUntil, deadline, started, cancelled, written, touched>>

----------------------------------------------------------------------------

\* The contract has just been deployed: its instance is a new entry.
Init ==
  /\ ledger = 0
  /\ liveUntil = [k \in Key |-> IF k = Instance THEN MinTtl - 1 ELSE Absent]
  /\ deadline = [id \in CircleId |-> 0]
  /\ started = [id \in CircleId |-> 0]
  /\ cancelled = {}
  /\ written = [k \in Key |-> 0]
  /\ touched = [k \in Key |-> 0]

Next ==
  \/ \E id \in CircleId :
       \/ \E d \in Deadlines : CreateCircle(id, d)
       \/ Fund(id) \/ Claim(id) \/ ExpireRound(id) \/ CancelCircle(id)
       \/ ProposeAdmin(id) \/ AcceptAdmin(id)
  \/ \E k \in Key : Restore(k)
  \/ CloseLedger

Spec == Init /\ [][Next]_vars

----------------------------------------------------------------------------
(* Properties.                                                             *)

TypeOK ==
  /\ ledger \in 0 .. MaxLedger
  /\ liveUntil \in [Key -> (0 .. MaxLedger + LEDGER_EXTEND_TO) \cup {Absent}]
  /\ deadline \in [CircleId -> Nat] /\ started \in [CircleId -> Nat]
  /\ cancelled \subseteq CircleId
  /\ written \in [Key -> Nat] /\ touched \in [Key -> Nat]

\* What a call really buys: a circle and a nomination stay live for
\* LEDGER_THRESHOLD ledgers after the last call that wrote them, and so does
\* the contract's instance after the last call on any circle.
WritesBuyTime ==
  \A k \in Key : Archived(k) => ledger > written[k] + LEDGER_THRESHOLD

\* And no call buys more than LEDGER_EXTEND_TO: an entry left alone for longer
\* is archived, whatever the calls on it were before.
IdleEntriesArchive ==
  \A k \in Key : Exists(k) /\ ledger > touched[k] + LEDGER_EXTEND_TO => Archived(k)

\* The comment on the deadline check in create_circle, and ADR 004: the circle
\* cannot be archived before expire_round becomes callable.
ExpireRoundIsReachable ==
  \A id \in CircleId :
    (Exists(Circle(id)) /\ deadline[id] > 0 /\ ledger <= started[id] + deadline[id])
      => ~ Archived(Circle(id))

=============================================================================
