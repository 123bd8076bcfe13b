----------------------- MODULE StorageLifetimeProofs -----------------------
(***************************************************************************)
(* What a write buys an entry of the contract's storage, for every setting *)
(* of the threshold, the extension and the network's minimal life.         *)
(***************************************************************************)
EXTENDS StorageLifetime, TLAPS

\* The inductive invariant: the bounds on the last live ledger of each entry
\* from its last write and its last touch.
Bounds ==
  \A k \in Key :
    /\ written[k] <= touched[k] /\ touched[k] <= ledger
    /\ Exists(k) => liveUntil[k] <= touched[k] + LEDGER_EXTEND_TO
    /\ Exists(k) => written[k] + LEDGER_THRESHOLD <= liveUntil[k]

LifeInv == TypeOK /\ Bounds

\* What set and extend_ttl leave behind.
LEMMA ExtendedPut ==
  ASSUME TypeOK, NEW k \in Key
  PROVE  /\ ExtendTtl(Put(liveUntil[k])) \in 0 .. MaxLedger + LEDGER_EXTEND_TO
         /\ ExtendTtl(Put(liveUntil[k])) >= ledger + LEDGER_THRESHOLD
         /\ \/ ExtendTtl(Put(liveUntil[k])) <= ledger + LEDGER_EXTEND_TO
            \/ Exists(k) /\ ExtendTtl(Put(liveUntil[k])) = liveUntil[k]
<1>1. /\ ledger \in Nat /\ ledger <= MaxLedger
      /\ liveUntil[k] \in (0 .. MaxLedger + LEDGER_EXTEND_TO) \cup {Absent}
  BY LifetimeAssumption DEF TypeOK
<1>2. /\ LEDGER_THRESHOLD \in Nat /\ LEDGER_EXTEND_TO \in Nat /\ MaxLedger \in Nat
      /\ MinTtl \in Nat /\ LEDGER_THRESHOLD < MinTtl /\ MinTtl <= LEDGER_EXTEND_TO
  BY LifetimeAssumption
<1>3. CASE liveUntil[k] = Absent
  BY <1>1, <1>2, <1>3 DEF ExtendTtl, Put, Exists, Absent
<1>4. CASE liveUntil[k] # Absent
  BY <1>1, <1>2, <1>4 DEF ExtendTtl, Put, Exists, Absent
<1> QED BY <1>3, <1>4

\* The lifetimes are right in the initial state.
LEMMA LifeInit == Init => LifeInv
<1> SUFFICES ASSUME Init PROVE LifeInv OBVIOUS
<1>1. \A k \in Key : /\ liveUntil[k] \in (0 .. MaxLedger + LEDGER_EXTEND_TO) \cup {Absent}
                     /\ Exists(k) => liveUntil[k] <= LEDGER_EXTEND_TO
                                       /\ LEDGER_THRESHOLD <= liveUntil[k]
  BY LifetimeAssumption DEF Init, Exists, Absent
<1>2. TypeOK
  <2>1. liveUntil \in [Key -> (0 .. MaxLedger + LEDGER_EXTEND_TO) \cup {Absent}]
    BY <1>1 DEF Init
  <2> QED BY <2>1, LifetimeAssumption DEF Init, TypeOK
<1>3. Bounds
  <2>1. \A k \in Key : written[k] = 0 /\ touched[k] = 0
    BY DEF Init
  <2>2. ledger = 0 BY DEF Init
  <2> QED BY <1>1, <2>1, <2>2, LifetimeAssumption DEF Bounds
<1> QED BY <1>2, <1>3 DEF LifeInv

\* A call that writes keys, and may remove the entry gone.
LEMMA LifePersist ==
  ASSUME LifeInv, NEW keys \in SUBSET Key, NEW gone \in SUBSET Key,
         liveUntil' = [k \in Key |-> IF k \in gone THEN Absent ELSE Persisted(keys)[k]],
         Remember(keys), ledger' = ledger
  PROVE  /\ liveUntil' \in [Key -> (0 .. MaxLedger + LEDGER_EXTEND_TO) \cup {Absent}]
         /\ written' \in [Key -> Nat] /\ touched' \in [Key -> Nat]
         /\ Bounds'
<1> DEFINE all == keys \cup {Instance}
<1>1. TypeOK /\ ledger \in Nat
  BY LifetimeAssumption DEF LifeInv, TypeOK
<1>2. \A k \in Key :
        /\ liveUntil'[k] = IF k \in gone THEN Absent
                           ELSE IF k \in all THEN ExtendTtl(Put(liveUntil[k])) ELSE liveUntil[k]
        /\ written'[k] = IF k \in all THEN ledger ELSE written[k]
        /\ touched'[k] = IF k \in all THEN ledger ELSE touched[k]
  BY DEF Persisted, Remember
<1>3. \A k \in Key : liveUntil'[k] \in (0 .. MaxLedger + LEDGER_EXTEND_TO) \cup {Absent}
  BY <1>1, <1>2, ExtendedPut DEF TypeOK
<1>4. written' \in [Key -> Nat] /\ touched' \in [Key -> Nat]
  BY <1>1 DEF Remember, TypeOK
<1>5. ASSUME NEW k \in Key
      PROVE  /\ written'[k] <= touched'[k] /\ touched'[k] <= ledger
             /\ liveUntil'[k] # Absent => liveUntil'[k] <= touched'[k] + LEDGER_EXTEND_TO
             /\ liveUntil'[k] # Absent => written'[k] + LEDGER_THRESHOLD <= liveUntil'[k]
  <2>1. /\ written[k] \in Nat /\ touched[k] \in Nat
        /\ LEDGER_THRESHOLD \in Nat /\ LEDGER_EXTEND_TO \in Nat
        /\ liveUntil[k] \in Int
    BY <1>1, LifetimeAssumption DEF TypeOK, Absent
  <2>2. /\ written[k] <= touched[k] /\ touched[k] <= ledger
        /\ liveUntil[k] # Absent => liveUntil[k] <= touched[k] + LEDGER_EXTEND_TO
        /\ liveUntil[k] # Absent => written[k] + LEDGER_THRESHOLD <= liveUntil[k]
    BY DEF LifeInv, Bounds, Exists
  <2>3. CASE k \in all
    <3>1. liveUntil'[k] # Absent => liveUntil'[k] = ExtendTtl(Put(liveUntil[k]))
      BY <1>2, <2>3
    <3>2. /\ ExtendTtl(Put(liveUntil[k])) \in Int
          /\ ExtendTtl(Put(liveUntil[k])) >= ledger + LEDGER_THRESHOLD
          /\ \/ ExtendTtl(Put(liveUntil[k])) <= ledger + LEDGER_EXTEND_TO
             \/ liveUntil[k] # Absent /\ ExtendTtl(Put(liveUntil[k])) = liveUntil[k]
      BY <1>1, ExtendedPut DEF Exists
    <3> QED BY <1>1, <1>2, <2>1, <2>2, <2>3, <3>1, <3>2
  <2>4. CASE k \notin all
    BY <1>2, <2>2, <2>4
  <2> QED BY <2>3, <2>4
<1>6. liveUntil' \in [Key -> (0 .. MaxLedger + LEDGER_EXTEND_TO) \cup {Absent}]
  BY <1>3
<1> QED BY <1>4, <1>5, <1>6 DEF Bounds, Exists

\* The entry points and the passing of time.
LEMMA LifeStep == LifeInv /\ [Next]_vars => LifeInv'
<1> SUFFICES ASSUME LifeInv, [Next]_vars PROVE LifeInv' OBVIOUS
<1>1. TypeOK /\ Bounds
  BY DEF LifeInv
<1>2. \A id \in CircleId : Circle(id) \in Key /\ PendingAdmin(id) \in Key
  BY DEF Key
<1>3. ASSUME NEW keys \in SUBSET Key, Persist(keys), ledger' = ledger,
             deadline' \in [CircleId -> Nat], started' \in [CircleId -> Nat],
             cancelled' \subseteq CircleId
      PROVE  LifeInv'
  <2>1. liveUntil' = [k \in Key |-> IF k \in {} THEN Absent ELSE Persisted(keys)[k]]
    BY <1>3 DEF Persist, Persisted
  <2>2. {} \in SUBSET Key /\ Remember(keys)
    BY <1>3 DEF Persist
  <2>3. /\ liveUntil' \in [Key -> (0 .. MaxLedger + LEDGER_EXTEND_TO) \cup {Absent}]
        /\ written' \in [Key -> Nat] /\ touched' \in [Key -> Nat] /\ Bounds'
    BY <1>3, <2>1, <2>2, LifePersist
  <2> QED BY <1>1, <1>3, <2>3 DEF LifeInv, TypeOK
<1>4. \A id \in CircleId : [started EXCEPT ![id] = ledger] \in [CircleId -> Nat]
  BY <1>1, LifetimeAssumption DEF TypeOK
<1>5. ASSUME NEW id \in CircleId, NEW d \in Deadlines, CreateCircle(id, d)
      PROVE  LifeInv'
  <2>1. [deadline EXCEPT ![id] = d] \in [CircleId -> Nat]
    BY <1>1, LifetimeAssumption DEF TypeOK
  <2> QED BY <1>1, <1>2, <1>3, <1>4, <1>5, <2>1, ZenonT(60) DEF CreateCircle, TypeOK
<1>6. ASSUME NEW id \in CircleId, Fund(id) \/ Claim(id) \/ ExpireRound(id)
      PROVE  LifeInv'
  BY <1>1, <1>2, <1>3, <1>4, <1>6 DEF Fund, Claim, ExpireRound, TypeOK
<1>7. ASSUME NEW id \in CircleId, CancelCircle(id) \/ ProposeAdmin(id)
      PROVE  LifeInv'
  BY <1>1, <1>2, <1>3, <1>7 DEF CancelCircle, ProposeAdmin, TypeOK
<1>8. ASSUME NEW id \in CircleId, AcceptAdmin(id)
      PROVE  LifeInv'
  <2>1. liveUntil' = [k \in Key |->
           IF k \in {PendingAdmin(id)} THEN Absent ELSE Persisted({Circle(id)})[k]]
    BY <1>2, <1>8 DEF AcceptAdmin, Persisted
  <2>2. {Circle(id)} \in SUBSET Key /\ {PendingAdmin(id)} \in SUBSET Key
    BY <1>2
  <2>3. Remember({Circle(id)}) /\ UNCHANGED <<ledger, deadline, started, cancelled>>
    BY <1>8 DEF AcceptAdmin
  <2> QED BY <1>1, <2>1, <2>2, <2>3, LifePersist DEF LifeInv, TypeOK
<1>9. ASSUME NEW k \in Key, Restore(k)
      PROVE  LifeInv'
  <2>1. /\ ledger \in Nat /\ ledger <= MaxLedger /\ liveUntil[k] < ledger /\ liveUntil[k] # Absent
        /\ liveUntil[k] \in Int
        /\ MinTtl \in Nat /\ LEDGER_THRESHOLD < MinTtl /\ MinTtl <= LEDGER_EXTEND_TO
        /\ LEDGER_EXTEND_TO \in Nat /\ LEDGER_THRESHOLD \in Nat /\ MaxLedger \in Nat
    BY <1>1, <1>9, LifetimeAssumption DEF Restore, Archived, Exists, TypeOK, Absent
  <2> DEFINE until == ledger + MinTtl - 1
  <2>2. /\ until \in 0 .. MaxLedger + LEDGER_EXTEND_TO
        /\ until <= ledger + LEDGER_EXTEND_TO /\ ledger <= until
    BY <2>1
  <2>3. /\ liveUntil' = [liveUntil EXCEPT ![k] = until] /\ touched' = [touched EXCEPT ![k] = ledger]
        /\ UNCHANGED <<ledger, deadline, started, cancelled, written>>
    BY <1>9 DEF Restore
  <2> HIDE DEF until
  <2>4. TypeOK'
    BY <1>1, <2>1, <2>2, <2>3 DEF TypeOK
  <2>5. ASSUME NEW j \in Key
        PROVE  /\ written[j] <= touched'[j] /\ touched'[j] <= ledger
               /\ liveUntil'[j] # Absent => liveUntil'[j] <= touched'[j] + LEDGER_EXTEND_TO
               /\ liveUntil'[j] # Absent => written[j] + LEDGER_THRESHOLD <= liveUntil'[j]
    <3>1. written[j] \in Nat /\ touched[j] \in Nat
      BY <1>1 DEF TypeOK
    <3>2. /\ written[j] <= touched[j] /\ touched[j] <= ledger
          /\ liveUntil[j] # Absent => liveUntil[j] <= touched[j] + LEDGER_EXTEND_TO
          /\ liveUntil[j] # Absent => written[j] + LEDGER_THRESHOLD <= liveUntil[j]
      BY <1>1 DEF Bounds, Exists
    <3>3. CASE j = k
      <4>1. liveUntil'[j] = until /\ touched'[j] = ledger
        BY <1>1, <2>3, <3>3 DEF TypeOK
      <4>2. until \in Int
        BY <2>2
      <4> QED BY <2>1, <2>2, <3>1, <3>2, <3>3, <4>1, <4>2
    <3>4. CASE j # k
      <4>1. liveUntil'[j] = liveUntil[j] /\ touched'[j] = touched[j]
        BY <1>1, <2>3, <3>4 DEF TypeOK
      <4> QED BY <3>2, <4>1
    <3> QED BY <3>3, <3>4
  <2> QED BY <2>3, <2>4, <2>5 DEF LifeInv, Bounds, Exists
<1>10. CASE CloseLedger
  <2>1. ledger \in Nat /\ ledger' = ledger + 1 /\ ledger' <= MaxLedger
    BY <1>1, <1>10, LifetimeAssumption DEF CloseLedger, TypeOK
  <2>2. TypeOK'
    BY <1>1, <1>10, <2>1, LifetimeAssumption DEF CloseLedger, TypeOK
  <2>3. \A k \in Key : touched[k] \in Nat /\ (touched[k] <= ledger => touched[k] <= ledger')
    BY <1>1, <2>1 DEF TypeOK
  <2> QED BY <1>1, <1>10, <2>2, <2>3 DEF CloseLedger, LifeInv, Bounds, Exists
<1>11. CASE UNCHANGED vars
  BY <1>1, <1>11 DEF vars, LifeInv, TypeOK, Bounds, Exists
<1> QED BY <1>5, <1>6, <1>7, <1>8, <1>9, <1>10, <1>11 DEF Next

\* The strengthened lifetime invariant holds of every behaviour.
LEMMA LifeCorrect == Spec => []LifeInv
BY LifeInit, LifeStep, PTL DEF Spec

\* An entry stays live for LEDGER_THRESHOLD ledgers after the last call that
\* wrote it, and the contract's instance after the last call on any circle.
THEOREM WritesAlwaysBuyTime == Spec => []WritesBuyTime
<1>1. LifeInv => WritesBuyTime
  <2> SUFFICES ASSUME LifeInv, NEW k \in Key, Archived(k)
               PROVE  ledger > written[k] + LEDGER_THRESHOLD
    BY DEF WritesBuyTime
  <2>1. /\ written[k] \in Nat /\ liveUntil[k] \in Int /\ ledger \in Nat /\ LEDGER_THRESHOLD \in Nat
    BY LifetimeAssumption DEF LifeInv, TypeOK, Absent
  <2>2. written[k] + LEDGER_THRESHOLD <= liveUntil[k] /\ liveUntil[k] < ledger
    BY DEF LifeInv, Bounds, Archived, Exists
  <2> QED BY <2>1, <2>2
<1> QED BY <1>1, LifeCorrect, PTL

\* An entry nobody writes or restores for more than LEDGER_EXTEND_TO ledgers is
\* archived, whatever was called before.
THEOREM IdleEntriesAlwaysArchive == Spec => []IdleEntriesArchive
<1>1. LifeInv => IdleEntriesArchive
  <2> SUFFICES ASSUME LifeInv, NEW k \in Key, Exists(k), ledger > touched[k] + LEDGER_EXTEND_TO
               PROVE  liveUntil[k] < ledger
    BY DEF IdleEntriesArchive, Archived
  <2>1. /\ touched[k] \in Nat /\ liveUntil[k] \in Int /\ ledger \in Nat /\ LEDGER_EXTEND_TO \in Nat
    BY LifetimeAssumption DEF LifeInv, TypeOK, Absent
  <2>2. liveUntil[k] <= touched[k] + LEDGER_EXTEND_TO
    BY DEF LifeInv, Bounds
  <2> QED BY <2>1, <2>2
<1> QED BY <1>1, LifeCorrect, PTL

=============================================================================
