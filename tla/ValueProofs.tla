----------------------------- MODULE ValueProofs -----------------------------
(***************************************************************************)
(* Numbers, their digits, and what is computed from them: the amounts a    *)
(* user types, the bytes sent to the contract and the tree of members.     *)
(* Each is a loop over the digits of a number or the layers of a tree;     *)
(* what it computes is proved for every input, by induction over a set of  *)
(* naturals (SetInduction) and functions that follow a rule step by step.  *)
(***************************************************************************)
EXTENDS Amounts, WireFormat, MembershipTree, MoneyProofs, SequenceTheorems

----------------------------------------------------------------------------
(* Division by the base.                                                    *)

\* A number is its quotient and its remainder.
LEMMA Quotient ==
  ASSUME NEW b \in Nat \ {0}, NEW n \in Nat
  PROVE  /\ n \div b \in Nat
         /\ n % b \in 0 .. b - 1
         /\ n = (n \div b) * b + (n % b)
<1>1. n \div b \in Nat OBVIOUS
<1>2. n % b \in 0 .. b - 1 OBVIOUS
<1>3. n = (n \div b) * b + (n % b) OBVIOUS
<1> QED BY <1>1, <1>2, <1>3

\* Products of numbers are numbers.
LEMMA TimesNat ==
  ASSUME NEW x \in Nat, NEW y \in Nat
  PROVE  x * y \in Nat
OBVIOUS

\* A product grows with its first factor.
LEMMA TimesMono ==
  ASSUME NEW x \in Nat, NEW y \in Nat, NEW z \in Nat, x <= y
  PROVE  x * z <= y * z
OBVIOUS

\* Quotient and remainder are unique.
LEMMA Remainder ==
  ASSUME NEW b \in Nat \ {0}, NEW q \in Nat, NEW r \in 0 .. b - 1
  PROVE  (q * b + r) \div b = q /\ (q * b + r) % b = r
<1> DEFINE n == q * b + r
           d == n \div b
           m == n % b
<1>1. q * b \in Nat /\ n \in Nat BY TimesNat
<1> HIDE DEF n
<1>2. d \in Nat /\ m \in 0 .. b - 1 /\ n = d * b + m BY <1>1, Quotient
<1> HIDE DEF d, m
<1>3. d * b \in Nat /\ n = q * b + r BY <1>2, TimesNat DEF n
<1>4. ASSUME NEW x \in Nat, NEW y \in Nat, NEW s \in 0 .. b - 1, NEW t \in 0 .. b - 1,
             x < y, x * b + s = y * b + t
      PROVE  FALSE
  <2>1. (x + 1) * b <= y * b BY <1>4, TimesMono
  <2>2. (x + 1) * b = x * b + b OBVIOUS
  <2>3. x * b \in Nat /\ y * b \in Nat BY TimesNat
  <2> QED BY <1>4, <2>1, <2>2, <2>3
<1>5. ~ (d < q) /\ ~ (q < d) BY <1>2, <1>3, <1>4
<1>6. d = q BY <1>2, <1>5
<1>7. m = r BY <1>1, <1>2, <1>3, <1>6
<1> QED BY <1>6, <1>7 DEF d, m, n

----------------------------------------------------------------------------
(* Recursion along 0 .. n, in a first-order form.                           *)

\* What holds of 0 and of each next number up to n holds of all of them.
LEMMA UpTo ==
  ASSUME NEW n \in Nat, NEW S, 0 \in S, \A i \in 0 .. n - 1 : i \in S => i + 1 \in S
  PROVE  0 .. n \subseteq S
<1> DEFINE T == { i \in Nat : i <= n => i \in S }
<1>1. 0 \in T OBVIOUS
<1>2. ASSUME NEW i \in T PROVE i + 1 \in T
  <2> SUFFICES ASSUME i + 1 <= n PROVE i + 1 \in S OBVIOUS
  <2>1. i \in 0 .. n - 1 /\ i \in S OBVIOUS
  <2> QED BY <2>1
<1>3. T \in SUBSET Nat OBVIOUS
<1> HIDE DEF T
<1>4. T = Nat BY <1>1, <1>2, <1>3, SetInduction
<1> QED BY <1>4 DEF T

\* A set of naturals that is not empty has a least member.
LEMMA Least ==
  ASSUME NEW S \in SUBSET Nat, S # {}
  PROVE  \E m \in S : \A n \in S : m <= n
<1> SUFFICES ASSUME \A m \in S : \E n \in S : ~ (m <= n) PROVE FALSE
  OBVIOUS
<1> DEFINE Above == { i \in Nat : \A n \in S : i <= n }
<1>1. 0 \in Above OBVIOUS
<1>2. ASSUME NEW i \in Above PROVE i + 1 \in Above
  <2>1. i \in Nat /\ \A n \in S : i <= n OBVIOUS
  <2>2. i \notin S BY <2>1
  <2>3. ASSUME NEW n \in S PROVE i + 1 <= n
    <3>1. i <= n /\ i # n /\ n \in Nat BY <2>1, <2>2, <2>3
    <3> QED BY <2>1, <3>1
  <2> QED BY <2>1, <2>3
<1>3. Above \in SUBSET Nat OBVIOUS
<1> HIDE DEF Above
<1>4. Above = Nat BY <1>1, <1>2, <1>3, SetInduction
<1>5. PICK k : k \in S OBVIOUS
<1>6. k \in Nat /\ k + 1 \in Nat BY <1>5
<1>7. k + 1 \in Above BY <1>4, <1>6
<1>8. k + 1 <= k BY <1>5, <1>7 DEF Above
<1> QED BY <1>6, <1>8

\* h[i] takes the value at i - 1 to the one at i; f has the values up to n, from a on.
Rule(h, V) == h \in [Nat -> [V -> V]]
Follows(f, n, h, V, a) ==
  /\ n \in Nat /\ f \in [0 .. n -> V]
  /\ f[0] = a /\ \A i \in 1 .. n : f[i] = h[i][f[i - 1]]

\* A function that follows the rule exists.
LEMMA StepsExist ==
  ASSUME NEW h, NEW V, Rule(h, V), NEW a \in V, NEW n \in Nat
  PROVE  \E f : Follows(f, n, h, V, a)
<1> USE DEF Rule
<1> DEFINE S == { k \in Nat : \E f \in [0 .. k -> V] : f[0] = a /\ \A i \in 1 .. k : f[i] = h[i][f[i - 1]] }
<1>1. 0 \in S
  <2> DEFINE f == [i \in 0 .. 0 |-> a]
  <2>1. f \in [0 .. 0 -> V] /\ f[0] = a /\ \A i \in 1 .. 0 : f[i] = h[i][f[i - 1]] OBVIOUS
  <2> HIDE DEF f
  <2> QED BY <2>1
<1>2. ASSUME NEW k \in S PROVE k + 1 \in S
  <2>1. PICK f \in [0 .. k -> V] : f[0] = a /\ \A i \in 1 .. k : f[i] = h[i][f[i - 1]] OBVIOUS
  <2> DEFINE g == [i \in 0 .. k + 1 |-> IF i = k + 1 THEN h[i][f[k]] ELSE f[i]]
  <2>2. f[k] \in V /\ h[k + 1] \in [V -> V] OBVIOUS
  <2>3. h[k + 1][f[k]] \in V BY <2>2
  <2>4. g \in [0 .. k + 1 -> V] BY <2>3
  <2>5. g[0] = a BY <2>1
  <2>6. ASSUME NEW i \in 1 .. k + 1 PROVE g[i] = h[i][g[i - 1]]
    <3>1. i - 1 \in 0 .. k /\ g[i - 1] = f[i - 1] OBVIOUS
    <3>2. CASE i = k + 1 BY <3>1, <3>2
    <3>3. CASE i # k + 1
      <4>1. i \in 1 .. k /\ g[i] = f[i] BY <3>3
      <4> QED BY <2>1, <3>1, <4>1
    <3> QED BY <3>2, <3>3
  <2> HIDE DEF g
  <2>7. \E e \in [0 .. k + 1 -> V] : e[0] = a /\ \A i \in 1 .. k + 1 : e[i] = h[i][e[i - 1]]
    BY <2>4, <2>5, <2>6, Zenon
  <2>8. k + 1 \in Nat OBVIOUS
  <2> QED BY <2>7, <2>8, Zenon
<1>3. S \in SUBSET Nat OBVIOUS
<1> HIDE DEF S
<1>4. S = Nat BY <1>1, <1>2, <1>3, SetInduction
<1> QED BY <1>4 DEF S, Follows

\* And one function at most does.
LEMMA StepsUnique ==
  ASSUME NEW h, NEW V, Rule(h, V), NEW a \in V, NEW n, NEW f, Follows(f, n, h, V, a),
         NEW k \in 0 .. n, NEW p,
         p[0] = a, \A i \in 1 .. k : p[i - 1] \in V => p[i] = h[i][p[i - 1]]
  PROVE  p[k] = f[k]
<1> USE DEF Rule, Follows
<1> DEFINE S == { i \in 0 .. k : p[i] = f[i] }
<1>1. 0 \in S OBVIOUS
<1>2. ASSUME NEW i \in 0 .. k - 1, i \in S PROVE i + 1 \in S
  <2>1. i + 1 \in 1 .. k /\ (i + 1) - 1 = i /\ i + 1 \in 1 .. n OBVIOUS
  <2>2. p[i] = f[i] /\ f[i] \in V BY <1>2
  <2>3. p[i + 1] = h[i + 1][p[i]] BY <2>1, <2>2
  <2>4. f[i + 1] = h[i + 1][f[i]] BY <2>1
  <2> QED BY <2>1, <2>2, <2>3, <2>4
<1> HIDE DEF S
<1>3. \A i \in 0 .. k - 1 : i \in S => i + 1 \in S BY <1>2
<1>4. k \in Nat OBVIOUS
<1>5. 0 .. k \subseteq S BY <1>1, <1>3, <1>4, UpTo
<1> QED BY <1>5 DEF S

----------------------------------------------------------------------------
(* What the operators of Digits compute.                                    *)

\* Each power is the one before it, times the base.
LEMMA PowerSteps ==
  ASSUME NEW b \in Nat
  PROVE  /\ Power(b, 0) = 1
         /\ \A n \in Nat : Power(b, n) \in Nat /\ Power(b, n + 1) = Power(b, n) * b
<1> DEFINE V == Nat
           h == [i \in Nat |-> [x \in V |-> x * b]]
<1>0. V = Nat OBVIOUS
<1>1. Rule(h, V) /\ 1 \in V
  <2>1. \A x \in V : x * b \in V BY TimesNat
  <2> QED BY <2>1, Zenon DEF Rule
<1>2. \A i \in Nat, x \in V : h[i][x] = x * b OBVIOUS
<1> HIDE DEF h, V
<1>3. ASSUME NEW n, NEW f, Follows(f, n, h, V, 1), NEW k \in 0 .. n
      PROVE  Power(b, k) = f[k]
  <2> DEFINE G(s) == [i \in 0 .. k |-> IF i = 0 THEN 1 ELSE s[i - 1] * b]
             p == CHOOSE s : s = G(s)
             g == [i \in 0 .. k |-> f[i]]
  <2>0. n \in Nat /\ k \in Nat BY <1>3 DEF Follows
  <2>1. g = G(g)
    <3>1. ASSUME NEW i \in 1 .. k PROVE f[i] = f[i - 1] * b
      <4>1. i \in 1 .. n /\ i \in Nat /\ i - 1 \in 0 .. n BY <2>0
      <4>2. f[i - 1] \in V BY <1>3, <4>1 DEF Follows
      <4>3. f[i] = h[i][f[i - 1]] BY <1>3, <4>1 DEF Follows
      <4> QED BY <1>2, <4>1, <4>2, <4>3
    <3>2. ASSUME NEW i \in 0 .. k PROVE g[i] = G(g)[i]
      <4>1. CASE i = 0 BY <1>3, <4>1 DEF Follows
      <4>2. CASE i # 0
        <5>1. i \in 1 .. k /\ i - 1 \in 0 .. k BY <2>0, <4>2
        <5> QED BY <3>1, <4>2, <5>1
      <4> QED BY <4>1, <4>2
    <3> QED BY <3>2
  <2> HIDE DEF g
  <2>2. p = G(p) BY <2>1
  <2>3. Power(b, k) = p[k] BY DEF Power
  <2> HIDE DEF p
  <2>4. p[0] = 1 BY <2>0, <2>2
  <2>5. ASSUME NEW i \in 1 .. k, p[i - 1] \in V PROVE p[i] = h[i][p[i - 1]]
    <3>1. i \in 0 .. k /\ i # 0 /\ i \in Nat BY <2>0
    <3>2. p[i] = p[i - 1] * b BY <2>2, <3>1
    <3> QED BY <1>2, <2>5, <3>1, <3>2
  <2>6. p[k] = f[k] BY <1>1, <1>3, <2>4, <2>5, StepsUnique
  <2> QED BY <2>3, <2>6
<1>4. ASSUME NEW n \in Nat
      PROVE  Power(b, 0) = 1 /\ Power(b, n) \in Nat /\ Power(b, n + 1) = Power(b, n) * b
  <2>0. n + 1 \in Nat /\ n + 1 \in 1 .. n + 1 /\ n \in 0 .. n + 1 /\ 0 \in 0 .. n + 1 OBVIOUS
  <2>1. PICK f : Follows(f, n + 1, h, V, 1)
    BY <1>1, <2>0, StepsExist
  <2>2. \A k \in 0 .. n + 1 : Power(b, k) = f[k] BY <1>3, <2>1
  <2>3. f[n] \in V /\ f[0] = 1 /\ f[n + 1] = h[n + 1][f[n]] BY <2>0, <2>1 DEF Follows
  <2>4. f[n + 1] = f[n] * b BY <1>2, <2>0, <2>3
  <2> QED BY <1>0, <2>0, <2>2, <2>3, <2>4
<1> QED BY <1>4

\* A digit is shifted out at a time.
LEMMA ShiftedSteps ==
  ASSUME NEW b \in Nat \ {0}, NEW value \in Nat
  PROVE  /\ Shifted(b, value, 0) = value
         /\ \A n \in Nat : /\ Shifted(b, value, n) \in Nat
                          /\ Shifted(b, value, n + 1) = Shifted(b, value, n) \div b
<1> DEFINE V == Nat
           h == [i \in Nat |-> [x \in V |-> x \div b]]
<1>0. V = Nat OBVIOUS
<1>1. Rule(h, V) /\ value \in V
  <2>1. \A x \in V : x \div b \in V BY Quotient
  <2> QED BY <2>1, Zenon DEF Rule
<1>2. \A i \in Nat, x \in V : h[i][x] = x \div b OBVIOUS
<1> HIDE DEF h, V
<1>3. ASSUME NEW n, NEW f, Follows(f, n, h, V, value), NEW k \in 0 .. n
      PROVE  Shifted(b, value, k) = f[k]
  <2> DEFINE G(s) == [i \in 0 .. k |-> IF i = 0 THEN value ELSE s[i - 1] \div b]
             p == CHOOSE s : s = G(s)
             g == [i \in 0 .. k |-> f[i]]
  <2>0. n \in Nat /\ k \in Nat BY <1>3 DEF Follows
  <2>1. g = G(g)
    <3>1. ASSUME NEW i \in 1 .. k PROVE f[i] = f[i - 1] \div b
      <4>1. i \in 1 .. n /\ i \in Nat /\ i - 1 \in 0 .. n BY <2>0
      <4>2. f[i - 1] \in V BY <1>3, <4>1 DEF Follows
      <4>3. f[i] = h[i][f[i - 1]] BY <1>3, <4>1 DEF Follows
      <4> QED BY <1>2, <4>1, <4>2, <4>3
    <3>2. ASSUME NEW i \in 0 .. k PROVE g[i] = G(g)[i]
      <4>1. CASE i = 0 BY <1>3, <4>1 DEF Follows
      <4>2. CASE i # 0
        <5>1. i \in 1 .. k /\ i - 1 \in 0 .. k BY <2>0, <4>2
        <5> QED BY <3>1, <4>2, <5>1
      <4> QED BY <4>1, <4>2
    <3> QED BY <3>2
  <2> HIDE DEF g
  <2>2. p = G(p) BY <2>1
  <2>3. Shifted(b, value, k) = p[k] BY DEF Shifted
  <2> HIDE DEF p
  <2>4. p[0] = value BY <2>0, <2>2
  <2>5. ASSUME NEW i \in 1 .. k, p[i - 1] \in V PROVE p[i] = h[i][p[i - 1]]
    <3>1. i \in 0 .. k /\ i # 0 /\ i \in Nat BY <2>0
    <3>2. p[i] = p[i - 1] \div b BY <2>2, <3>1
    <3> QED BY <1>2, <2>5, <3>1, <3>2
  <2>6. p[k] = f[k] BY <1>1, <1>3, <2>4, <2>5, StepsUnique
  <2> QED BY <2>3, <2>6
<1>4. ASSUME NEW n \in Nat
      PROVE  Shifted(b, value, 0) = value /\ Shifted(b, value, n) \in Nat /\ Shifted(b, value, n + 1) = Shifted(b, value, n) \div b
  <2>0. n + 1 \in Nat /\ n + 1 \in 1 .. n + 1 /\ n \in 0 .. n + 1 /\ 0 \in 0 .. n + 1 OBVIOUS
  <2>1. PICK f : Follows(f, n + 1, h, V, value)
    BY <1>1, <2>0, StepsExist
  <2>2. \A k \in 0 .. n + 1 : Shifted(b, value, k) = f[k] BY <1>3, <2>1
  <2>3. f[n] \in V /\ f[0] = value /\ f[n + 1] = h[n + 1][f[n]] BY <2>0, <2>1 DEF Follows
  <2>4. f[n + 1] = f[n] \div b BY <1>2, <2>0, <2>3
  <2> QED BY <1>0, <2>0, <2>2, <2>3, <2>4
<1> QED BY <1>4

\* digits starts with m numbers.
Numbers(digits, m) == m \in Nat /\ \A i \in 1 .. m : digits[i] \in Nat

\* The number the first n of m digits write grows by a digit at a time.
Grows(b, digits, m) ==
  /\ Leading(b, digits, 0) = 0
  /\ \A n \in 0 .. m : Leading(b, digits, n) \in Nat
  /\ \A n \in 0 .. m - 1 : Leading(b, digits, n + 1) = Leading(b, digits, n) * b + digits[n + 1]

\* Every sequence of numbers grows that way.
LEMMA LeadingSteps ==
  ASSUME NEW b \in Nat, NEW m, NEW digits, Numbers(digits, m)
  PROVE  Grows(b, digits, m)
<1> USE DEF Numbers
<1> DEFINE V == Nat
           h == [i \in Nat |-> [x \in V |-> x * b + (IF i \in 1 .. m THEN digits[i] ELSE 0)]]
<1>0. V = Nat OBVIOUS
<1>1. Rule(h, V) /\ 0 \in V
  <2>1. \A i \in Nat, x \in V : x * b + (IF i \in 1 .. m THEN digits[i] ELSE 0) \in V BY TimesNat
  <2> QED BY <2>1, Zenon DEF Rule
<1>2. \A i \in 1 .. m, x \in V : h[i][x] = x * b + digits[i] OBVIOUS
<1> HIDE DEF h, V
<1>3. ASSUME NEW n, NEW f, Follows(f, n, h, V, 0), NEW k \in 0 .. n, n <= m
      PROVE  Leading(b, digits, k) = f[k]
  <2> DEFINE G(s) == [i \in 0 .. k |-> IF i = 0 THEN 0 ELSE s[i - 1] * b + digits[i]]
             p == CHOOSE s : s = G(s)
             g == [i \in 0 .. k |-> f[i]]
  <2>0. n \in Nat /\ k \in Nat BY <1>3 DEF Follows
  <2>1. g = G(g)
    <3>1. ASSUME NEW i \in 1 .. k PROVE f[i] = f[i - 1] * b + digits[i]
      <4>1. i \in 1 .. n /\ i \in 1 .. m /\ i - 1 \in 0 .. n BY <1>3, <2>0
      <4>2. f[i - 1] \in V BY <1>3, <4>1 DEF Follows
      <4>3. f[i] = h[i][f[i - 1]] BY <1>3, <4>1 DEF Follows
      <4> QED BY <1>2, <4>1, <4>2, <4>3
    <3>2. ASSUME NEW i \in 0 .. k PROVE g[i] = G(g)[i]
      <4>1. CASE i = 0 BY <1>3, <4>1 DEF Follows
      <4>2. CASE i # 0
        <5>1. i \in 1 .. k /\ i - 1 \in 0 .. k BY <2>0, <4>2
        <5> QED BY <3>1, <4>2, <5>1
      <4> QED BY <4>1, <4>2
    <3> QED BY <3>2
  <2> HIDE DEF g
  <2>2. p = G(p) BY <2>1
  <2>3. Leading(b, digits, k) = p[k] BY DEF Leading
  <2> HIDE DEF p
  <2>4. p[0] = 0 BY <2>0, <2>2
  <2>5. ASSUME NEW i \in 1 .. k, p[i - 1] \in V PROVE p[i] = h[i][p[i - 1]]
    <3>1. i \in 0 .. k /\ i # 0 /\ i \in 1 .. m BY <1>3, <2>0
    <3>2. p[i] = p[i - 1] * b + digits[i] BY <2>2, <3>1
    <3> QED BY <1>2, <2>5, <3>1, <3>2
  <2>6. p[k] = f[k] BY <1>1, <1>3, <2>4, <2>5, StepsUnique
  <2> QED BY <2>3, <2>6
<1>4. PICK f : Follows(f, m, h, V, 0) BY <1>1, StepsExist
<1>5. \A k \in 0 .. m : Leading(b, digits, k) = f[k] /\ f[k] \in V
  <2>1. m <= m OBVIOUS
  <2>2. \A k \in 0 .. m : Leading(b, digits, k) = f[k] BY <1>3, <1>4, <2>1
  <2> QED BY <1>4, <2>2 DEF Follows
<1>6. ASSUME NEW n \in 0 .. m - 1
      PROVE  Leading(b, digits, n + 1) = Leading(b, digits, n) * b + digits[n + 1]
  <2>1. n \in 0 .. m /\ n + 1 \in 0 .. m /\ n + 1 \in 1 .. m /\ (n + 1) - 1 = n OBVIOUS
  <2>2. f[n + 1] = h[n + 1][f[n]] BY <1>4, <2>1 DEF Follows
  <2>3. f[n + 1] = f[n] * b + digits[n + 1] BY <1>2, <1>5, <2>1, <2>2
  <2> QED BY <1>5, <2>1, <2>3
<1>7. 0 \in 0 .. m /\ f[0] = 0 BY <1>4 DEF Follows
<1> QED BY <1>0, <1>5, <1>6, <1>7 DEF Grows

\* Products of three, and of a sum.
LEMMA Products ==
  ASSUME NEW x \in Nat, NEW y \in Nat, NEW z \in Nat
  PROVE  /\ x * y = y * x /\ (x * y) * z = x * (y * z) /\ (x + y) * z = x * z + y * z
         /\ 1 * x = x /\ 0 * x = 0 /\ x * y \in Nat
OBVIOUS

\* No power of a positive base is zero.
LEMMA PowerPositive ==
  ASSUME NEW b \in Nat \ {0}, NEW n \in Nat
  PROVE  Power(b, n) \in Nat \ {0}
<1> DEFINE S == { k \in Nat : Power(b, k) # 0 }
<1>1. 0 \in S BY PowerSteps
<1>2. ASSUME NEW k \in S PROVE k + 1 \in S
  <2>1. k \in Nat /\ k + 1 \in Nat /\ Power(b, k) # 0 OBVIOUS
  <2>2. Power(b, k) \in Nat /\ Power(b, k + 1) = Power(b, k) * b BY <2>1, PowerSteps
  <2>3. ASSUME NEW x \in Nat, x # 0 PROVE x * b # 0
    <3>1. 1 * b <= x * b BY <2>3, TimesMono
    <3> QED BY <3>1, TimesNat
  <2>4. Power(b, k + 1) # 0 BY <2>1, <2>2, <2>3
  <2> QED BY <2>1, <2>4
<1>3. S \in SUBSET Nat OBVIOUS
<1> HIDE DEF S
<1>4. S = Nat BY <1>1, <1>2, <1>3, SetInduction
<1> QED BY <1>4, PowerSteps DEF S

\* The power of a sum is the product of the powers.
LEMMA PowerSum ==
  ASSUME NEW b \in Nat, NEW m \in Nat, NEW n \in Nat
  PROVE  Power(b, m + n) = Power(b, m) * Power(b, n)
<1> DEFINE S == { k \in Nat : Power(b, m + k) = Power(b, m) * Power(b, k) }
<1>1. 0 \in S
  <2>1. m + 0 = m /\ Power(b, 0) = 1 /\ Power(b, m) \in Nat BY PowerSteps
  <2>2. \A x \in Nat : x * 1 = x OBVIOUS
  <2> QED BY <2>1, <2>2
<1>2. ASSUME NEW k \in S PROVE k + 1 \in S
  <2>1. k \in Nat /\ k + 1 \in Nat /\ m + k \in Nat /\ m + (k + 1) = (m + k) + 1 OBVIOUS
  <2>2. /\ Power(b, m) \in Nat /\ Power(b, k) \in Nat
        /\ Power(b, k + 1) = Power(b, k) * b /\ Power(b, (m + k) + 1) = Power(b, m + k) * b
    BY <2>1, PowerSteps
  <2>3. Power(b, m + k) = Power(b, m) * Power(b, k) OBVIOUS
  <2>4. Power(b, m + (k + 1)) = Power(b, m) * Power(b, k + 1)
    BY <2>1, <2>2, <2>3, Products
  <2> QED BY <2>1, <2>4
<1>3. S \in SUBSET Nat OBVIOUS
<1> HIDE DEF S
<1>4. S = Nat BY <1>1, <1>2, <1>3, SetInduction
<1> QED BY <1>4 DEF S

\* What is left after n digits, n places up, is no more than the value.
LEMMA ShiftedBelow ==
  ASSUME NEW b \in Nat \ {0}, NEW value \in Nat, NEW n \in Nat
  PROVE  Shifted(b, value, n) * Power(b, n) <= value
<1> DEFINE S == { k \in Nat : Shifted(b, value, k) * Power(b, k) <= value }
<1>1. 0 \in S
  <2>1. Shifted(b, value, 0) = value /\ Power(b, 0) = 1 BY ShiftedSteps, PowerSteps
  <2> QED BY <2>1
<1>2. ASSUME NEW k \in S PROVE k + 1 \in S
  <2> DEFINE s == Shifted(b, value, k)
             t == Shifted(b, value, k + 1)
             p == Power(b, k)
  <2>1. k \in Nat /\ k + 1 \in Nat /\ s * p <= value OBVIOUS
  <2>2. s \in Nat /\ t = s \div b /\ p \in Nat /\ Power(b, k + 1) = p * b
    BY <2>1, ShiftedSteps, PowerSteps
  <2> HIDE DEF s, t, p
  <2>3. t \in Nat /\ s % b \in 0 .. b - 1 /\ s = t * b + (s % b) BY <2>2, Quotient
  <2>4. t * b \in Nat /\ t * b <= s BY <2>3, TimesNat
  <2>5. (t * b) * p <= s * p BY <2>2, <2>4, TimesMono
  <2>6. t * (p * b) = (t * b) * p BY <2>2, <2>3, Products
  <2>7. t * (p * b) \in Nat /\ s * p \in Nat BY <2>2, <2>3, TimesNat
  <2>8. (t * b) * p \in Nat BY <2>6, <2>7
  <2>9. t * Power(b, k + 1) <= value BY <2>1, <2>2, <2>5, <2>6, <2>7, <2>8
  <2> QED BY <2>1, <2>9 DEF t
<1>3. S \in SUBSET Nat OBVIOUS
<1> HIDE DEF S
<1>4. S = Nat BY <1>1, <1>2, <1>3, SetInduction
<1> QED BY <1>4 DEF S

\* Nothing is left of a value below a power after as many shifts.
LEMMA NothingLeft ==
  ASSUME NEW b \in Nat \ {0}, NEW value \in Nat, NEW n \in Nat, value < Power(b, n)
  PROVE  Shifted(b, value, n) = 0
<1> DEFINE s == Shifted(b, value, n)
           p == Power(b, n)
<1>1. s \in Nat /\ p \in Nat /\ s * p <= value /\ value < p
  BY ShiftedSteps, PowerSteps, ShiftedBelow
<1> HIDE DEF s, p
<1> SUFFICES ASSUME s # 0 PROVE FALSE BY DEF s
<1>2. 1 * p <= s * p BY <1>1, TimesMono
<1>3. s * p \in Nat /\ 1 * p = p BY <1>1, TimesNat
<1> QED BY <1>1, <1>2, <1>3

\* Digits are below the base.
LEMMA DigitsOfType ==
  ASSUME NEW b \in Nat \ {0}, NEW value \in Nat, NEW n \in Nat
  PROVE  DigitsOf(b, value, n) \in [1 .. n -> 0 .. b - 1]
<1>1. ASSUME NEW i \in 1 .. n PROVE Shifted(b, value, n - i) % b \in 0 .. b - 1
  <2>1. n - i \in Nat OBVIOUS
  <2>2. Shifted(b, value, n - i) \in Nat BY <2>1, ShiftedSteps
  <2> QED BY <2>2, Quotient
<1> QED BY <1>1 DEF DigitsOf

\* A function on 1 .. n is a sequence of length n.
LEMMA IsSeq ==
  ASSUME NEW n \in Nat, NEW S, NEW f \in [1 .. n -> S]
  PROVE  f \in Seq(S) /\ Len(f) = n
OBVIOUS

\* The digits of a number that fits are read back as the number.
THEOREM DigitsReadBack ==
  ASSUME NEW b \in Nat \ {0}, NEW value \in Nat, NEW n \in Nat, value < Power(b, n)
  PROVE  NumberOf(b, DigitsOf(b, value, n)) = value
<1> DEFINE d == DigitsOf(b, value, n)
           v(k) == Shifted(b, value, k)
           S == { k \in 0 .. n : Leading(b, d, k) = v(n - k) }
<1>1. d \in [1 .. n -> 0 .. b - 1] /\ Len(d) = n
  <2>1. d \in [1 .. n -> 0 .. b - 1] BY DigitsOfType
  <2> HIDE DEF d
  <2> QED BY <2>1, IsSeq
<1>2. Grows(b, d, n)
  <2>1. Numbers(d, n) BY <1>1 DEF Numbers
  <2>2. b \in Nat OBVIOUS
  <2> HIDE DEF d
  <2> QED BY <2>1, <2>2, LeadingSteps
<1>3. ASSUME NEW i \in 1 .. n PROVE d[i] = v(n - i) % b BY DEF DigitsOf
<1> HIDE DEF d
<1>4. 0 \in S
  <2>1. Leading(b, d, 0) = 0 BY <1>2 DEF Grows
  <2>2. n - 0 = n /\ v(n) = 0 BY NothingLeft
  <2> QED BY <2>1, <2>2
<1>5. ASSUME NEW k \in 0 .. n - 1, k \in S PROVE k + 1 \in S
  <2> DEFINE j == n - (k + 1)
  <2>1. j \in Nat /\ n - k = j + 1 /\ k + 1 \in 1 .. n /\ k + 1 \in 0 .. n OBVIOUS
  <2> HIDE DEF j
  <2>2. v(j) \in Nat /\ v(j + 1) = v(j) \div b /\ v(n - k) = v(j + 1) BY <2>1, ShiftedSteps
  <2>3. Leading(b, d, k + 1) = v(n - k) * b + d[k + 1] BY <1>2, <1>5 DEF Grows
  <2>4. d[k + 1] = v(j) % b BY <1>3, <2>1 DEF j
  <2>5. v(j) = (v(j) \div b) * b + (v(j) % b) BY <2>2, Quotient
  <2>6. Leading(b, d, k + 1) = v(j) BY <2>2, <2>3, <2>4, <2>5
  <2> QED BY <2>1, <2>6 DEF j
<1> HIDE DEF S
<1>6. \A k \in 0 .. n - 1 : k \in S => k + 1 \in S BY <1>5
<1>7. n \in S
  <2>1. n \in 0 .. n OBVIOUS
  <2> QED BY <1>4, <1>6, <2>1, UpTo
<1>8. Leading(b, d, n) = v(n - n) BY <1>7 DEF S
<1>9. n - n = 0 /\ v(0) = value BY ShiftedSteps
<1> QED BY <1>1, <1>8, <1>9 DEF NumberOf, d

\* Digits below the base make a number below b to their count, and are its digits.
THEOREM NumberReadBack ==
  ASSUME NEW b \in Nat \ {0}, NEW n \in Nat, NEW d \in [1 .. n -> 0 .. b - 1]
  PROVE  /\ NumberOf(b, d) \in Nat
         /\ NumberOf(b, d) < Power(b, n)
         /\ DigitsOf(b, NumberOf(b, d), n) = d
<1> DEFINE x(k) == Leading(b, d, k)
           value == NumberOf(b, d)
           v(k) == Shifted(b, value, k)
           S == { k \in 0 .. n : x(k) < Power(b, k) }
           T == { k \in 0 .. n : v(k) = x(n - k) }
<1>1. Len(d) = n BY IsSeq
<1>2. \A i \in 1 .. n : d[i] \in Nat /\ d[i] \in 0 .. b - 1 OBVIOUS
<1>0. Grows(b, d, n)
  <2>1. Numbers(d, n) BY <1>2 DEF Numbers
  <2>2. b \in Nat OBVIOUS
  <2> QED BY <2>1, <2>2, LeadingSteps
<1>3. \A k \in 0 .. n : x(k) \in Nat BY <1>0 DEF Grows
<1>4. x(0) = 0 BY <1>0 DEF Grows
<1>5. \A k \in 0 .. n - 1 : x(k + 1) = x(k) * b + d[k + 1] BY <1>0 DEF Grows
<1>6. value = x(n) BY <1>1 DEF NumberOf
<1>7. value \in Nat
  <2>1. n \in 0 .. n OBVIOUS
  <2> QED BY <1>3, <1>6, <2>1
<1> HIDE DEF x, value
<1>8. n \in S
  <2>1. 0 \in S BY <1>4, PowerSteps
  <2>2. ASSUME NEW k \in 0 .. n - 1, k \in S PROVE k + 1 \in S
    <3>1. k \in Nat /\ k \in 0 .. n /\ k + 1 \in 0 .. n /\ k + 1 \in 1 .. n OBVIOUS
    <3>2. Power(b, k) \in Nat /\ Power(b, k + 1) = Power(b, k) * b BY <3>1, PowerSteps
    <3>3. x(k) \in Nat /\ x(k) + 1 \in Nat /\ x(k) + 1 <= Power(b, k)
      <4>1. x(k) \in Nat BY <1>3, <3>1
      <4>2. x(k) < Power(b, k) BY <2>2
      <4> QED BY <3>2, <4>1, <4>2
    <3>4. (x(k) + 1) * b <= Power(b, k) * b BY <3>2, <3>3, TimesMono
    <3>5. (x(k) + 1) * b = x(k) * b + b BY <3>3, Products
    <3>6. x(k) * b \in Nat /\ Power(b, k) * b \in Nat BY <3>2, <3>3, TimesNat
    <3>7. x(k + 1) = x(k) * b + d[k + 1] BY <1>5
    <3>8. d[k + 1] \in 0 .. b - 1 BY <1>2, <3>1
    <3>9. x(k + 1) < Power(b, k + 1) BY <3>2, <3>4, <3>5, <3>6, <3>7, <3>8
    <3> QED BY <3>1, <3>9
  <2> HIDE DEF S
  <2>3. \A k \in 0 .. n - 1 : k \in S => k + 1 \in S BY <2>2
  <2>4. n \in 0 .. n OBVIOUS
  <2> QED BY <2>1, <2>3, <2>4, UpTo
<1>9. 0 .. n \subseteq T
  <2>1. 0 \in T
    <3>1. n - 0 = n /\ v(0) = value BY <1>7, ShiftedSteps
    <3> QED BY <1>6, <3>1
  <2>2. ASSUME NEW k \in 0 .. n - 1, k \in T PROVE k + 1 \in T
    <3> DEFINE j == n - (k + 1)
    <3>1. j \in 0 .. n - 1 /\ j \in 0 .. n /\ n - k = j + 1 /\ j + 1 \in 1 .. n
          /\ k + 1 \in 0 .. n /\ k \in Nat OBVIOUS
    <3> HIDE DEF j
    <3>2. v(k + 1) = v(k) \div b BY <1>7, <3>1, ShiftedSteps
    <3>3. v(k) = x(j + 1) BY <2>2, <3>1
    <3>4. x(j + 1) = x(j) * b + d[j + 1] /\ x(j) \in Nat /\ d[j + 1] \in 0 .. b - 1
      BY <1>2, <1>3, <1>5, <3>1
    <3>5. (x(j) * b + d[j + 1]) \div b = x(j) BY <3>4, Remainder
    <3>6. v(k + 1) = x(j) BY <3>2, <3>3, <3>4, <3>5
    <3> QED BY <3>1, <3>6 DEF j
  <2> HIDE DEF T
  <2>3. \A k \in 0 .. n - 1 : k \in T => k + 1 \in T BY <2>2
  <2> QED BY <2>1, <2>3, UpTo
<1>10. ASSUME NEW i \in 1 .. n PROVE v(n - i) % b = d[i]
  <2> DEFINE j == i - 1
  <2>1. n - i \in 0 .. n /\ n - (n - i) = i /\ j \in 0 .. n - 1 /\ j \in 0 .. n /\ i = j + 1 OBVIOUS
  <2> HIDE DEF j
  <2>2. v(n - i) = x(i) BY <1>9, <2>1
  <2>3. x(i) = x(j) * b + d[i] /\ x(j) \in Nat /\ d[i] \in 0 .. b - 1 BY <1>2, <1>3, <1>5, <2>1
  <2>4. (x(j) * b + d[i]) % b = d[i] BY <2>3, Remainder
  <2> QED BY <2>2, <2>3, <2>4
<1> HIDE DEF v
<1>11. DigitsOf(b, value, n) = d
  <2>1. DigitsOf(b, value, n) = [ i \in 1 .. n |-> v(n - i) % b ] BY DEF DigitsOf, v
  <2> QED BY <1>10, <2>1
<1>12. value < Power(b, n) BY <1>6, <1>8
<1> QED BY <1>7, <1>11, <1>12 DEF value

\* c is the m digits of w and then the n digits of f.
Joined(c, w, m, f, n) ==
  /\ m \in Nat /\ n \in Nat
  /\ \A i \in 1 .. m : w[i] \in Nat /\ c[i] = w[i]
  /\ \A i \in 1 .. n : f[i] \in Nat /\ c[m + i] = f[i]

\* The number of one sequence of digits after another.
LEMMA NumberOfConcat ==
  ASSUME NEW b \in Nat, NEW c, NEW w, NEW m, NEW f, NEW n, Joined(c, w, m, f, n)
  PROVE  Leading(b, c, m + n) = Leading(b, w, m) * Power(b, n) + Leading(b, f, n)
<1> DEFINE x(k) == Leading(b, c, k)
           y(k) == Leading(b, w, k)
           z(k) == Leading(b, f, k)
           S == { k \in 0 .. m : x(k) = y(k) }
           T == { k \in 0 .. n : x(m + k) = y(m) * Power(b, k) + z(k) }
<1> USE DEF Joined
<1>1. Grows(b, c, m + n)
  <2>1. ASSUME NEW i \in 1 .. m + n PROVE c[i] \in Nat
    <3>1. CASE i <= m
      <4>1. i \in 1 .. m BY <3>1
      <4>2. c[i] = w[i] /\ w[i] \in Nat BY <4>1
      <4> QED BY <4>2
    <3>2. CASE ~ (i <= m)
      <4>1. i - m \in 1 .. n /\ m + (i - m) = i BY <3>2
      <4>2. f[i - m] \in Nat /\ c[m + (i - m)] = f[i - m] BY <4>1
      <4> QED BY <4>1, <4>2
    <3> QED BY <3>1, <3>2
  <2>2. m + n \in Nat OBVIOUS
  <2>3. Numbers(c, m + n) BY <2>1, <2>2 DEF Numbers
  <2> QED BY <2>3, LeadingSteps
<1>2. Grows(b, w, m)
  <2>1. Numbers(w, m) BY DEF Numbers
  <2> QED BY <2>1, LeadingSteps
<1>3. Grows(b, f, n)
  <2>1. Numbers(f, n) BY DEF Numbers
  <2> QED BY <2>1, LeadingSteps
<1>4. /\ x(0) = 0 /\ \A k \in 0 .. m + n : x(k) \in Nat
      /\ \A k \in 0 .. m + n - 1 : x(k + 1) = x(k) * b + c[k + 1]
  <2>1. (m + n) - 1 = m + n - 1 OBVIOUS
  <2> QED BY <1>1, <2>1 DEF Grows
<1>5. /\ y(0) = 0 /\ \A k \in 0 .. m : y(k) \in Nat
      /\ \A k \in 0 .. m - 1 : y(k + 1) = y(k) * b + w[k + 1]
  BY <1>2 DEF Grows
<1>6. /\ z(0) = 0 /\ \A k \in 0 .. n : z(k) \in Nat
      /\ \A k \in 0 .. n - 1 : z(k + 1) = z(k) * b + f[k + 1]
  BY <1>3 DEF Grows
<1> HIDE DEF x, y, z
<1>7. x(m) = y(m)
  <2>1. 0 \in S BY <1>4, <1>5
  <2>2. ASSUME NEW k \in 0 .. m - 1, k \in S PROVE k + 1 \in S
    <3>1. k \in 0 .. m + n - 1 /\ k + 1 \in 0 .. m /\ k + 1 \in 1 .. m OBVIOUS
    <3>2. c[k + 1] = w[k + 1] BY <3>1
    <3>3. x(k) = y(k) BY <2>2
    <3>4. x(k + 1) = y(k + 1) BY <1>4, <1>5, <3>1, <3>2, <3>3
    <3> QED BY <3>1, <3>4
  <2> HIDE DEF S
  <2>3. \A k \in 0 .. m - 1 : k \in S => k + 1 \in S BY <2>2
  <2>4. m \in 0 .. m OBVIOUS
  <2>5. m \in S BY <2>1, <2>3, <2>4, UpTo
  <2> QED BY <2>5 DEF S
<1>8. n \in T
  <2>1. 0 \in T
    <3>0. m \in 0 .. m OBVIOUS
    <3>1. m + 0 = m /\ Power(b, 0) = 1 /\ z(0) = 0 BY <1>6, PowerSteps
    <3>3. y(m) \in Nat BY <1>5, <3>0
    <3>2. y(m) * 1 + 0 = y(m) BY <3>3
    <3> QED BY <1>7, <3>1, <3>2
  <2>2. ASSUME NEW k \in 0 .. n - 1, k \in T PROVE k + 1 \in T
    <3> DEFINE p == Power(b, k)
    <3>1. /\ k \in Nat /\ k \in 0 .. n /\ m + k \in 0 .. m + n - 1 /\ k + 1 \in 0 .. n
          /\ k + 1 \in 1 .. n /\ m + (k + 1) = (m + k) + 1 /\ m \in 0 .. m OBVIOUS
    <3>2. p \in Nat /\ Power(b, k + 1) = p * b BY <3>1, PowerSteps
    <3>3. x(m + k) = y(m) * p + z(k) BY <2>2
    <3> HIDE DEF p
    <3>4. c[m + (k + 1)] = f[k + 1] /\ f[k + 1] \in Nat BY <3>1
    <3>5. x((m + k) + 1) = x(m + k) * b + c[(m + k) + 1] BY <1>4, <3>1
    <3>6. x(m + (k + 1)) = x(m + k) * b + f[k + 1] BY <3>1, <3>4, <3>5
    <3>7. y(m) \in Nat /\ z(k) \in Nat /\ z(k + 1) = z(k) * b + f[k + 1] BY <1>5, <1>6, <3>1
    <3>8. (y(m) * p + z(k)) * b = (y(m) * p) * b + z(k) * b
      BY <3>2, <3>7, Products
    <3>9. (y(m) * p) * b = y(m) * (p * b) BY <3>2, <3>7, Products
    <3>10. y(m) * (p * b) \in Nat /\ z(k) * b \in Nat BY <3>2, <3>7, TimesNat
    <3>11. x(m + (k + 1)) = y(m) * (p * b) + z(k + 1)
      BY <3>3, <3>4, <3>6, <3>7, <3>8, <3>9, <3>10
    <3>12. x(m + (k + 1)) = y(m) * Power(b, k + 1) + z(k + 1) BY <3>2, <3>11
    <3> QED BY <3>1, <3>12
  <2> HIDE DEF T
  <2>3. \A k \in 0 .. n - 1 : k \in T => k + 1 \in T BY <2>2
  <2>4. n \in 0 .. n OBVIOUS
  <2> QED BY <2>1, <2>3, <2>4, UpTo
<1> QED BY <1>8 DEF T, x, y, z

\* Zeros make the number zero.
LEMMA ZerosMakeZero ==
  ASSUME NEW b \in Nat, NEW n \in Nat, NEW f, \A i \in 1 .. n : f[i] = 0
  PROVE  Leading(b, f, n) = 0
<1> DEFINE S == { k \in 0 .. n : Leading(b, f, k) = 0 }
<1>1. Grows(b, f, n)
  <2>1. Numbers(f, n) BY DEF Numbers
  <2> QED BY <2>1, LeadingSteps
<1>2. 0 \in S BY <1>1 DEF Grows
<1>3. ASSUME NEW k \in 0 .. n - 1, k \in S PROVE k + 1 \in S
  <2>1. k + 1 \in 0 .. n /\ f[k + 1] = 0 OBVIOUS
  <2>2. Leading(b, f, k + 1) = Leading(b, f, k) * b + f[k + 1] BY <1>1 DEF Grows
  <2>3. Leading(b, f, k) = 0 /\ 0 * b = 0 BY <1>3
  <2>4. Leading(b, f, k + 1) = 0 BY <2>1, <2>2, <2>3
  <2> QED BY <2>1, <2>4
<1> HIDE DEF S
<1>4. \A k \in 0 .. n - 1 : k \in S => k + 1 \in S BY <1>3
<1>5. n \in 0 .. n OBVIOUS
<1>6. n \in S BY <1>2, <1>4, <1>5, UpTo
<1> QED BY <1>6 DEF S

----------------------------------------------------------------------------
(* Amounts.                                                                 *)

\* Sequences of at most n members of S.
LEMMA Bounded ==
  ASSUME NEW S, NEW n \in Nat, NEW s \in SeqOf(S, n)
  PROVE  /\ Len(s) \in 0 .. n /\ s \in [1 .. Len(s) -> S] /\ s \in Seq(S)
<1>1. PICK m \in 0 .. n : s \in [1 .. m -> S] BY DEF SeqOf
<1>2. m \in Nat OBVIOUS
<1>3. s \in Seq(S) /\ Len(s) = m BY <1>1, <1>2, IsSeq
<1> QED BY <1>1, <1>3

\* What was entered is a text or a number, and the circle has one of the sizes.
AmountsInv == raw \in Text \cup JsNumber /\ size \in CircleSizes

\* A text is a whole part and a fraction, written in digits.
LEMMA TextType ==
  ASSUME NEW t \in Text
  PROVE  /\ t.negative \in BOOLEAN
         /\ t.whole \in SeqOf(Digit, MaxWhole) /\ t.frac \in SeqOf(Digit, Decimals + 1)
BY DEF Text

\* The constants of the amounts are numbers.
LEMMA AmountConstants ==
  /\ Base \in Nat \ {0} /\ Base \in Nat /\ Decimals \in Nat /\ MaxWhole \in Nat /\ MAX_I128 \in Nat
  /\ Digit = 0 .. Base - 1 /\ Digit \subseteq Nat
  /\ STROOPS_PER_XLM \in Nat \ {0} /\ STROOPS_PER_XLM = Power(Base, Decimals)
<1>1. Base \in Nat \ {0} /\ Base \in Nat /\ Decimals \in Nat /\ MaxWhole \in Nat /\ MAX_I128 \in Nat
  BY AmountsAssumption
<1>2. Digit = 0 .. Base - 1 /\ Digit \subseteq Nat BY <1>1 DEF Digit
<1>3. STROOPS_PER_XLM = Power(Base, Decimals) BY DEF STROOPS_PER_XLM
<1> QED BY <1>1, <1>2, <1>3, PowerPositive

\* The digits of an amount make natural numbers.
LEMMA BigIntIsNat ==
  ASSUME NEW n \in Nat, NEW d \in [1 .. n -> Digit]
  PROVE  BigInt(d) = Leading(Base, d, n) /\ BigInt(d) \in Nat
<1>1. d \in [1 .. n -> 0 .. Base - 1] BY AmountConstants
<1>2. Len(d) = n BY IsSeq
<1>3. NumberOf(Base, d) \in Nat BY <1>1, AmountConstants, NumberReadBack
<1>4. BigInt(d) = NumberOf(Base, d) BY DEF BigInt
<1> QED BY <1>2, <1>3, <1>4 DEF NumberOf

\* padEnd multiplies, slice leaves alone, what is no longer than Decimals.
LEMMA PaddedFraction ==
  ASSUME NEW n \in 0 .. Decimals, NEW f \in [1 .. n -> Digit]
  PROVE  BigInt(Adjusted(f)) = BigInt(f) * Power(Base, Decimals - n)
<1> DEFINE a == Adjusted(f)
           k == Decimals - n
           z == [ i \in 1 .. k |-> 0 ]
<1>1. n \in Nat /\ k \in Nat /\ n + k = Decimals /\ Decimals \in Nat BY AmountConstants
<1>2. Len(f) = n BY <1>1, IsSeq
<1>3. a = [ i \in 1 .. Decimals |-> IF i <= n THEN f[i] ELSE 0 ] BY <1>2 DEF Adjusted
<1>4. \A i \in 1 .. k : z[i] = 0 OBVIOUS
<1> HIDE DEF a, z, k
<1>5. 0 \in Digit BY AmountConstants
<1>6. a \in [1 .. Decimals -> Digit] BY <1>1, <1>3, <1>5
<1>7. \A i \in 1 .. n : f[i] \in Nat /\ a[i] = f[i]
  <2>1. ASSUME NEW i \in 1 .. n PROVE i \in 1 .. Decimals /\ i <= n BY <1>1
  <2> QED BY <1>3, <2>1, AmountConstants
<1>8. \A i \in 1 .. k : z[i] \in Nat /\ a[n + i] = z[i]
  <2>1. ASSUME NEW i \in 1 .. k PROVE n + i \in 1 .. Decimals /\ ~ (n + i <= n) BY <1>1
  <2> QED BY <1>3, <1>4, <2>1
<1>9. Leading(Base, a, n + k) = Leading(Base, f, n) * Power(Base, k) + Leading(Base, z, k)
  <2>1. Base \in Nat BY AmountConstants
  <2>2. Joined(a, f, n, z, k) BY <1>1, <1>7, <1>8 DEF Joined
  <2> QED BY <2>1, <2>2, NumberOfConcat
<1>10. Leading(Base, z, k) = 0 BY <1>1, <1>4, AmountConstants, ZerosMakeZero
<1>11. BigInt(a) = Leading(Base, a, Decimals) BY <1>1, <1>6, BigIntIsNat
<1>12. BigInt(f) = Leading(Base, f, n) /\ BigInt(f) \in Nat BY <1>1, BigIntIsNat
<1>13. Power(Base, k) \in Nat BY <1>1, AmountConstants, PowerSteps
<1>14. BigInt(f) * Power(Base, k) \in Nat BY <1>12, <1>13, TimesNat
<1>15. BigInt(a) = BigInt(f) * Power(Base, k) BY <1>1, <1>9, <1>10, <1>11, <1>12, <1>14
<1> QED BY <1>15 DEF a, k

\* The digits before and after the point, read together.
LEMMA WholeAndFraction ==
  ASSUME NEW m \in Nat, NEW n \in Nat, NEW w \in [1 .. m -> Digit], NEW f \in [1 .. n -> Digit]
  PROVE  BigInt(w \o f) = BigInt(w) * Power(Base, n) + BigInt(f)
<1> DEFINE c == w \o f
<1>1. w \in Seq(Digit) /\ f \in Seq(Digit) /\ Len(w) = m /\ Len(f) = n BY IsSeq
<1>2. Len(c) = m + n /\ m + n \in Nat BY <1>1
<1>3. \A i \in 1 .. m : w[i] \in Nat /\ c[i] = w[i]
  <2>1. \A i \in 1 .. m : c[i] = w[i] BY <1>1
  <2> QED BY <2>1, AmountConstants
<1>4. \A i \in 1 .. n : f[i] \in Nat /\ c[m + i] = f[i]
  <2>1. \A i \in 1 .. n : c[m + i] = f[i] BY <1>1
  <2> QED BY <2>1, AmountConstants
<1> HIDE DEF c
<1>5. Leading(Base, c, m + n) = Leading(Base, w, m) * Power(Base, n) + Leading(Base, f, n)
  <2>1. Base \in Nat BY AmountConstants
  <2>2. Joined(c, w, m, f, n) BY <1>3, <1>4 DEF Joined
  <2> QED BY <2>1, <2>2, NumberOfConcat
<1>6. BigInt(w) = Leading(Base, w, m) /\ BigInt(f) = Leading(Base, f, n) BY BigIntIsNat
<1>7. BigInt(c) = Leading(Base, c, m + n) BY <1>2 DEF BigInt, NumberOf
<1> QED BY <1>5, <1>6, <1>7 DEF c

\* Of a text with at most Decimals digits after the point nothing is lost.
LEMMA NothingIsCut ==
  ASSUME NEW t \in Text, ~ t.negative, Len(t.frac) <= Decimals
  PROVE  /\ Stroops(t) \in Nat
         /\ Stroops(t) * Power(Base, Len(t.frac))
              = BigInt(t.whole \o t.frac) * STROOPS_PER_XLM
<1> DEFINE w == t.whole
           f == t.frac
           m == Len(w)
           n == Len(f)
           k == Decimals - n
           W == BigInt(w)
           F == BigInt(f)
           P == Power(Base, n)
           Q == Power(Base, k)
           R == STROOPS_PER_XLM
           s == Stroops(t)
<1>1. w \in SeqOf(Digit, MaxWhole) /\ f \in SeqOf(Digit, Decimals + 1) BY TextType
<1>2. Stroops(t) = W * R + BigInt(Adjusted(f)) BY DEF Stroops
<1>3. m \in Nat /\ w \in [1 .. m -> Digit]
  <2> HIDE DEF w
  <2> QED BY <1>1, AmountConstants, Bounded
<1>4. n \in Nat /\ n <= Decimals /\ f \in [1 .. n -> Digit]
  <2>1. n <= Decimals /\ Decimals + 1 \in Nat BY AmountConstants
  <2> HIDE DEF f
  <2> QED BY <1>1, <2>1, Bounded
<1> HIDE DEF w, f, m, n
<1>5. n \in 0 .. Decimals /\ k \in Nat /\ n + k = Decimals BY <1>4, AmountConstants
<1>6. BigInt(Adjusted(f)) = F * Q BY <1>4, <1>5, PaddedFraction
<1>7. BigInt(w \o f) = W * P + F BY <1>3, <1>4, WholeAndFraction
<1>8. W \in Nat /\ F \in Nat BY <1>3, <1>4, BigIntIsNat
<1>9. P \in Nat /\ Q \in Nat /\ R \in Nat BY <1>4, <1>5, AmountConstants, PowerSteps
<1>10. R = P * Q BY <1>4, <1>5, AmountConstants, PowerSum
<1> HIDE DEF k, W, F, P, Q, R
<1>11. s = W * R + F * Q BY <1>2, <1>6
<1> HIDE DEF s
<1>12. W * R \in Nat /\ F * Q \in Nat /\ W * P \in Nat BY <1>8, <1>9, TimesNat
<1>13. s * P = (W * R) * P + (F * Q) * P BY <1>9, <1>11, <1>12, Products
<1>14. (F * Q) * P = F * R
  <2>1. (F * Q) * P = F * (Q * P) BY <1>8, <1>9, Products
  <2>2. Q * P = P * Q BY <1>9, Products
  <2> QED BY <1>10, <2>1, <2>2
<1>15. (W * R) * P = (W * P) * R
  <2>1. (W * R) * P = W * (R * P) /\ (W * P) * R = W * (P * R) /\ R * P = P * R BY <1>8, <1>9, Products
  <2> QED BY <2>1
<1>16. (W * P + F) * R = (W * P) * R + F * R BY <1>8, <1>9, <1>12, Products
<1>17. s \in Nat /\ s * P = BigInt(w \o f) * R BY <1>7, <1>11, <1>12, <1>13, <1>14, <1>15, <1>16
<1> QED BY <1>17 DEF s, P, R, w, f, n

\* One digit, whatever it is, is its own number.
LEMMA OneDigit ==
  ASSUME NEW q \in Nat
  PROVE  BigInt(<<q>>) = q
<1> DEFINE o == <<q>>
<1>1. Len(o) = 1 /\ o[1] = q OBVIOUS
<1> HIDE DEF o
<1>2. Grows(Base, o, 1)
  <2>1. Numbers(o, 1) BY <1>1 DEF Numbers
  <2>2. Base \in Nat BY AmountConstants
  <2> QED BY <2>1, <2>2, LeadingSteps
<1>3. 1 \in Nat /\ 0 \in 0 .. 1 - 1 /\ 0 + 1 = 1 OBVIOUS
<1>4. Leading(Base, o, 0) = 0 /\ Leading(Base, o, 0 + 1) = Leading(Base, o, 0) * Base + o[0 + 1]
  BY <1>2, <1>3 DEF Grows
<1>5. 0 * Base = 0 BY AmountConstants
<1>6. Leading(Base, o, 1) = q BY <1>1, <1>3, <1>4, <1>5
<1>7. BigInt(o) = q BY <1>1, <1>6 DEF BigInt, NumberOf
<1> QED BY <1>7 DEF o

\* A written amount is read back.
LEMMA WrittenIsReadBack ==
  ASSUME NEW s \in Nat
  PROVE  xlmToStroops(Formatted(s)) = s
<1> DEFINE R == STROOPS_PER_XLM
           q == s \div R
           r == s % R
           d == DigitsOf(Base, r, Decimals)
<1>1. R \in Nat \ {0} /\ R = Power(Base, Decimals) /\ Decimals \in Nat /\ Base \in Nat \ {0} /\ Base \in Nat
  BY AmountConstants
<1>2. q \in Nat /\ r \in 0 .. R - 1 /\ s = q * R + r
  <2> HIDE DEF R
  <2> QED BY <1>1, Quotient
<1>4. /\ ~ Formatted(s).negative /\ Formatted(s).whole = <<q>> /\ Formatted(s).frac = d
      /\ Formatted(s).form \notin {"number", "exponent"}
  <2> DEFINE no == FALSE
  <2>1. Formatted(s) = [form |-> "decimal", negative |-> no, whole |-> <<q>>, frac |-> d] BY DEF Formatted
  <2> HIDE DEF q, d, no
  <2>2. Formatted(s).negative = no /\ Formatted(s).whole = <<q>> /\ Formatted(s).frac = d BY <2>1
  <2>3. ~ no BY DEF no
  <2>4. Formatted(s).form = "decimal" BY <2>1
  <2>5. Formatted(s).form \notin {"number", "exponent"} BY <2>4
  <2> QED BY <2>2, <2>3, <2>5, Zenon
<1> HIDE DEF q, r, R
<1>5. r \in Nat /\ r < Power(Base, Decimals) BY <1>1, <1>2
<1>6. d \in [1 .. Decimals -> 0 .. Base - 1] /\ NumberOf(Base, d) = r
  BY <1>1, <1>5, DigitsOfType, DigitsReadBack
<1> HIDE DEF d
<1>7. Adjusted(d) = d
  <2>1. Len(d) = Decimals BY <1>1, <1>6, IsSeq
  <2>2. Adjusted(d) = [ i \in 1 .. Decimals |-> d[i] ] BY <1>1, <2>1 DEF Adjusted
  <2> QED BY <1>6, <2>2
<1>8. BigInt(<<q>>) = q BY <1>2, OneDigit
<1>9. Stroops(Formatted(s)) = q * R + BigInt(d) BY <1>4, <1>7, <1>8 DEF Stroops, R
<1>10. Expanded(Formatted(s)) = Formatted(s) BY <1>4 DEF Expanded
<1> QED BY <1>2, <1>6, <1>9, <1>10 DEF BigInt, xlmToStroops

\* The digits of a text make a number.
LEMMA TextDigits ==
  ASSUME NEW t \in Text
  PROVE  /\ Len(t.whole) \in Nat /\ t.whole \in [1 .. Len(t.whole) -> Digit]
         /\ Len(t.frac) \in 0 .. Decimals + 1 /\ t.frac \in [1 .. Len(t.frac) -> Digit]
         /\ BigInt(t.whole) \in Nat /\ BigInt(t.whole \o t.frac) \in Nat
<1> DEFINE w == t.whole
           f == t.frac
<1>1. w \in SeqOf(Digit, MaxWhole) /\ f \in SeqOf(Digit, Decimals + 1) BY TextType
<1>2. Decimals + 1 \in Nat BY AmountConstants
<1> HIDE DEF w, f
<1>3. Len(w) \in Nat /\ w \in [1 .. Len(w) -> Digit] BY <1>1, AmountConstants, Bounded
<1>4. Len(f) \in 0 .. Decimals + 1 /\ f \in [1 .. Len(f) -> Digit] BY <1>1, <1>2, Bounded
<1>5. Len(f) \in Nat BY <1>2, <1>4
<1>6. BigInt(w) \in Nat /\ BigInt(f) \in Nat BY <1>3, <1>4, <1>5, BigIntIsNat
<1>7. BigInt(w \o f) = BigInt(w) * Power(Base, Len(f)) + BigInt(f)
  <2> DEFINE m == Len(w)
             n == Len(f)
  <2>1. m \in Nat /\ n \in Nat /\ w \in [1 .. m -> Digit] /\ f \in [1 .. n -> Digit] BY <1>3, <1>4, <1>5
  <2> HIDE DEF m, n
  <2>2. BigInt(w \o f) = BigInt(w) * Power(Base, n) + BigInt(f) BY <2>1, WholeAndFraction
  <2> QED BY <2>2 DEF n
<1>8. Power(Base, Len(f)) \in Nat BY <1>5, AmountConstants, PowerSteps
<1>9. BigInt(w) * Power(Base, Len(f)) \in Nat BY <1>6, <1>8, TimesNat
<1>10. BigInt(w \o f) \in Nat BY <1>6, <1>7, <1>9
<1> QED BY <1>3, <1>4, <1>6, <1>10 DEF w, f

\* The fraction that is read is a number.
LEMMA AdjustedIsNat ==
  ASSUME NEW n \in Nat, NEW f \in [1 .. n -> Digit]
  PROVE  Adjusted(f) \in [1 .. Decimals -> Digit] /\ BigInt(Adjusted(f)) \in Nat
<1> DEFINE a == Adjusted(f)
<1>1. Len(f) = n BY IsSeq
<1>2. a = [ i \in 1 .. Decimals |-> IF i <= n THEN f[i] ELSE 0 ] BY <1>1 DEF Adjusted
<1>3. ASSUME NEW i \in 1 .. Decimals PROVE (IF i <= n THEN f[i] ELSE 0) \in Digit
  <2>1. 0 \in Digit BY AmountConstants
  <2>2. i <= n => i \in 1 .. n BY AmountConstants
  <2> QED BY <2>1, <2>2
<1> HIDE DEF a
<1>4. a \in [1 .. Decimals -> Digit] BY <1>2, <1>3
<1>5. BigInt(a) \in Nat BY <1>4, AmountConstants, BigIntIsNat
<1> QED BY <1>4, <1>5 DEF a

\* What is read of a text of the user's is a number, less than nothing if it is signed.
LEMMA TextIsRead ==
  ASSUME NEW t \in Text
  PROVE  Stroops(t) \in Int /\ (Stroops(t) > 0 => Stroops(t) \in Nat /\ ~ t.negative)
<1> DEFINE f == t.frac
           W == BigInt(t.whole)
           A == BigInt(Adjusted(f))
           R == STROOPS_PER_XLM
           s == Stroops(t)
<1>1. s = IF t.negative THEN - (W * R + A) ELSE W * R + A BY DEF Stroops
<1>2. W \in Nat /\ Len(f) \in Nat /\ f \in [1 .. Len(f) -> Digit] BY TextDigits, AmountConstants
<1> HIDE DEF f
<1>3. A \in Nat BY <1>2, AdjustedIsNat
<1> HIDE DEF W, A, R, s
<1>4. R \in Nat BY AmountConstants DEF R
<1>5. W * R + A \in Nat BY <1>2, <1>3, <1>4, TimesNat
<1>6. s \in Int /\ (s > 0 => s \in Nat /\ ~ t.negative)
  <2> DEFINE x == W * R + A
  <2> HIDE DEF x
  <2>1. x \in Nat /\ s = IF t.negative THEN - x ELSE x BY <1>1, <1>5 DEF x
  <2>2. CASE t.negative BY <2>1, <2>2
  <2>3. CASE ~ t.negative BY <2>1, <2>3
  <2> QED BY <2>2, <2>3
<1> QED BY <1>6 DEF s

----------------------------------------------------------------------------
(* A JavaScript number, and a text with an exponent.                        *)

\* The constants of JavaScript's numbers are numbers.
LEMMA DoubleConstants ==
  /\ Doubles \in SUBSET Nat /\ Doubles # {} /\ DoubleUnit \in Nat \ {0}
  /\ FixedDigits \in Nat /\ FixedDigits - Decimals \in Nat
  /\ Decimals + (FixedDigits - Decimals) = FixedDigits
BY AmountsAssumption

\* There is a nearest number.
LEMMA NearestIsDouble ==
  ASSUME NEW t \in Text
  PROVE  Nearest(t) \in Doubles
<1> DEFINE D(d) == Distance(t, d)
           S == { D(d) : d \in Doubles }
<1>1. ASSUME NEW d \in Doubles PROVE D(d) \in Nat
  <2> DEFINE x == BigInt(t.whole \o t.frac)
             y == Power(Base, Len(t.frac))
             a == x * DoubleUnit
             b == d * y
  <2>1. x \in Nat /\ Len(t.frac) \in Nat BY TextDigits, AmountConstants
  <2>2. y \in Nat BY <2>1, AmountConstants, PowerSteps
  <2>3. D(d) = IF b < a THEN a - b ELSE b - a BY DEF Distance
  <2> HIDE DEF x, y
  <2>4. a \in Nat /\ b \in Nat BY <2>1, <2>2, DoubleConstants, TimesNat
  <2> HIDE DEF a, b, D
  <2> QED BY <2>3, <2>4
<1>2. PICK d \in Doubles : \A e \in Doubles : D(d) <= D(e)
  <2>1. S \in SUBSET Nat BY <1>1
  <2>2. S # {} BY DoubleConstants
  <2> HIDE DEF S
  <2>3. PICK m \in S : \A n \in S : m <= n BY <2>1, <2>2, Least
  <2> QED BY <2>3 DEF S
<1> QED BY <1>2 DEF Nearest

\* The number of last digits is the nearest, or a half above it.
LEMMA FixedIsNear ==
  ASSUME NEW d \in Nat
  PROVE  LET N == 2 * d * Power(Base, FixedDigits) + DoubleUnit
             V == toFixed(d)
         IN  V \in Nat /\ V * (2 * DoubleUnit) <= N /\ N < (V + 1) * (2 * DoubleUnit)
<1> DEFINE E == Power(Base, FixedDigits)
           N == 2 * d * E + DoubleUnit
           U == 2 * DoubleUnit
           V == toFixed(d)
           m == N % U
<1>1. V = N \div U BY DEF toFixed
<1>2. E \in Nat BY DoubleConstants, AmountConstants, PowerSteps
<1> HIDE DEF E
<1>3. N \in Nat /\ U \in Nat \ {0}
  <2>1. 2 * d \in Nat /\ DoubleUnit \in Nat /\ DoubleUnit # 0 BY DoubleConstants
  <2>2. (2 * d) * E \in Nat BY <1>2, <2>1, TimesNat
  <2> QED BY <2>1, <2>2
<1> HIDE DEF N, U, V
<1>4. V \in Nat /\ m \in 0 .. U - 1 /\ N = V * U + m BY <1>1, <1>3, Quotient
<1> HIDE DEF m
<1>5. V * U \in Nat /\ (V + 1) * U = V * U + U
  <2>1. U \in Nat /\ 1 \in Nat /\ V \in Nat BY <1>3, <1>4
  <2>2. (V + 1) * U = V * U + 1 * U /\ 1 * U = U BY <2>1, Products
  <2> QED BY <2>1, <2>2, TimesNat
<1>6. V \in Nat /\ V * U <= N /\ N < (V + 1) * U BY <1>3, <1>4, <1>5
<1> QED BY <1>6 DEF V, U, N, E

\* slice leaves the first digits of a fraction, and takes less than one of the last of them.
LEMMA CutFraction ==
  ASSUME NEW f \in [1 .. FixedDigits -> Digit]
  PROVE  LET P == Power(Base, FixedDigits - Decimals)
         IN  /\ BigInt(Adjusted(f)) \in Nat
             /\ \E cut \in Nat : cut < P /\ BigInt(f) = BigInt(Adjusted(f)) * P + cut
<1> DEFINE a == Adjusted(f)
           k == FixedDigits - Decimals
           z == [ i \in 1 .. k |-> f[Decimals + i] ]
           P == Power(Base, k)
<1>1. /\ Decimals \in Nat /\ FixedDigits \in Nat /\ k \in Nat /\ Decimals + k = FixedDigits
      /\ Base \in Nat /\ Base \in Nat \ {0} /\ Digit = 0 .. Base - 1 /\ Digit \subseteq Nat
  BY DoubleConstants, AmountConstants
<1> HIDE DEF k
<1>2. a \in [1 .. Decimals -> Digit] /\ BigInt(a) \in Nat BY <1>1, AdjustedIsNat
<1>3. \A i \in 1 .. Decimals : a[i] = f[i]
  <2>1. Len(f) = FixedDigits BY <1>1, IsSeq
  <2>2. \A i \in 1 .. Decimals : i <= FixedDigits BY <1>1
  <2> QED BY <2>1, <2>2 DEF Adjusted
<1>4. z \in [1 .. k -> Digit]
  <2>1. \A i \in 1 .. k : Decimals + i \in 1 .. FixedDigits BY <1>1
  <2> QED BY <2>1
<1>5. \A i \in 1 .. k : z[i] = f[Decimals + i] OBVIOUS
<1> HIDE DEF a, z
<1>6. Joined(f, a, Decimals, z, k) BY <1>1, <1>2, <1>3, <1>4, <1>5 DEF Joined
<1>7. Leading(Base, f, FixedDigits) = Leading(Base, a, Decimals) * P + Leading(Base, z, k)
  <2>1. Leading(Base, f, Decimals + k) = Leading(Base, a, Decimals) * Power(Base, k) + Leading(Base, z, k)
    BY <1>1, <1>6, NumberOfConcat
  <2> QED BY <1>1, <2>1
<1>8. BigInt(f) = Leading(Base, f, FixedDigits) /\ BigInt(a) = Leading(Base, a, Decimals)
      /\ BigInt(z) = Leading(Base, z, k) /\ BigInt(z) \in Nat
  BY <1>1, <1>2, <1>4, BigIntIsNat
<1>9. BigInt(z) < P
  <2>1. z \in [1 .. k -> 0 .. Base - 1] BY <1>1, <1>4
  <2>2. NumberOf(Base, z) < Power(Base, k) BY <1>1, <2>1, NumberReadBack
  <2> QED BY <2>2 DEF BigInt
<1>10. BigInt(f) = BigInt(a) * P + BigInt(z) BY <1>7, <1>8
<1>11. \E cut \in Nat : cut < P /\ BigInt(f) = BigInt(a) * P + cut BY <1>8, <1>9, <1>10
<1> QED BY <1>2, <1>11 DEF a, P, k

\* A number is read from its last digits, cut off past the last decimal of a stroop.
LEMMA NumberIsCut ==
  ASSUME NEW negative \in BOOLEAN, NEW d \in Nat
  PROVE  LET P == Power(Base, FixedDigits - Decimals)
             V == toFixed(d)
             s == Stroops(expandNumberToDecimalString(negative, d))
         IN  \E n \in Nat : /\ s = IF negative THEN - n ELSE n
                            /\ n * P <= V /\ V < (n + 1) * P
<1> DEFINE P == Power(Base, FixedDigits - Decimals)
           E == Power(Base, FixedDigits)
           R == STROOPS_PER_XLM
           V == toFixed(d)
           q == V \div E
           r == V % E
           f == DigitsOf(Base, r, FixedDigits)
           x == expandNumberToDecimalString(negative, d)
           A == BigInt(Adjusted(f))
           n == q * R + A
           s == Stroops(x)
<1>1. x = [form |-> "decimal", negative |-> negative, whole |-> <<q>>, frac |-> f]
  BY DEF expandNumberToDecimalString
<1> HIDE DEF q, f, x
<1>2. x.negative = negative /\ x.whole = <<q>> /\ x.frac = f BY <1>1
<1>3. P \in Nat /\ E \in Nat \ {0} /\ R \in Nat /\ E = R * P
  <2>1. P \in Nat /\ R \in Nat BY DoubleConstants, AmountConstants, PowerSteps
  <2>2. E \in Nat \ {0} BY DoubleConstants, AmountConstants, PowerPositive
  <2>3. Power(Base, Decimals + (FixedDigits - Decimals)) = Power(Base, Decimals) * P
    BY DoubleConstants, AmountConstants, PowerSum
  <2> QED BY <2>1, <2>2, <2>3, DoubleConstants, AmountConstants
<1>4. V \in Nat BY FixedIsNear
<1> HIDE DEF E, V
<1>5. q \in Nat /\ r \in 0 .. E - 1 /\ V = q * E + r BY <1>3, <1>4, Quotient DEF q
<1> HIDE DEF r
<1>6. r \in Nat /\ r < E BY <1>3, <1>5
<1>7. f \in [1 .. FixedDigits -> Digit] /\ BigInt(f) = r
  <2>1. f \in [1 .. FixedDigits -> 0 .. Base - 1] BY <1>6, DoubleConstants, AmountConstants, DigitsOfType DEF f
  <2>2. NumberOf(Base, f) = r BY <1>6, DoubleConstants, AmountConstants, DigitsReadBack DEF f, E
  <2> QED BY <2>1, <2>2, AmountConstants DEF BigInt
<1>8. A \in Nat /\ \E cut \in Nat : cut < P /\ r = A * P + cut BY <1>7, CutFraction
<1>9. PICK cut \in Nat : cut < P /\ r = A * P + cut BY <1>8
<1>10. s = IF negative THEN - n ELSE n
  <2>1. BigInt(<<q>>) = q BY <1>5, OneDigit
  <2>2. s = IF x.negative THEN - (BigInt(x.whole) * R + BigInt(Adjusted(x.frac)))
            ELSE BigInt(x.whole) * R + BigInt(Adjusted(x.frac))
    BY DEF Stroops
  <2> HIDE DEF s
  <2> QED BY <1>2, <2>1, <2>2
<1> HIDE DEF A, P, R, s
<1>11. q * R \in Nat /\ A * P \in Nat /\ n \in Nat BY <1>3, <1>5, <1>8, TimesNat
<1>12. n * P = q * E + A * P
  <2>1. (q * R) * P = q * (R * P) BY <1>3, <1>5, Products
  <2>2. (q * R + A) * P = (q * R) * P + A * P BY <1>3, <1>8, <1>11, Products
  <2> QED BY <1>3, <2>1, <2>2
<1> HIDE DEF n
<1>13. n * P \in Nat /\ q * E \in Nat BY <1>3, <1>5, <1>11, TimesNat
<1>14. V = n * P + cut BY <1>5, <1>9, <1>11, <1>12, <1>13
<1>15. (n + 1) * P = n * P + P
  <2>1. (n + 1) * P = n * P + 1 * P /\ 1 * P = P BY <1>3, <1>11, Products
  <2> QED BY <2>1
<1>16. n * P <= V /\ V < (n + 1) * P BY <1>3, <1>9, <1>13, <1>14, <1>15
<1>17. \E k \in Nat : s = (IF negative THEN - k ELSE k) /\ k * P <= V /\ V < (k + 1) * P
  BY <1>10, <1>11, <1>16
<1> QED BY <1>17 DEF s, x, P, V

\* So it loses less than a stroop, and adds no more than a half of the last digit.
LEMMA NumberIsNear ==
  ASSUME NEW negative \in BOOLEAN, NEW d \in Nat,
         Stroops(expandNumberToDecimalString(negative, d)) > 0
  PROVE  LET s == Stroops(expandNumberToDecimalString(negative, d))
         IN  /\ s \in Nat
             /\ d * STROOPS_PER_XLM < (s + 1) * DoubleUnit
             /\ s * Power(Base, FixedDigits - Decimals) * (2 * DoubleUnit)
                  <= 2 * d * Power(Base, FixedDigits) + DoubleUnit
<1> DEFINE P == Power(Base, FixedDigits - Decimals)
           E == Power(Base, FixedDigits)
           R == STROOPS_PER_XLM
           D == DoubleUnit
           U == 2 * D
           V == toFixed(d)
           N == 2 * d * E + D
           s == Stroops(expandNumberToDecimalString(negative, d))
<1>1. V \in Nat /\ V * U <= N /\ N < (V + 1) * U BY FixedIsNear
<1>2. PICK n \in Nat : s = (IF negative THEN - n ELSE n) /\ n * P <= V /\ V < (n + 1) * P
  BY NumberIsCut
<1>3. s > 0 OBVIOUS
<1> HIDE DEF s, V
<1>4. s \in Nat /\ s * P <= V /\ V < (s + 1) * P
  <2>1. CASE negative
    <3>1. s = - n BY <1>2, <2>1
    <3> QED BY <1>2, <1>3, <3>1
  <2>2. CASE ~ negative BY <1>2, <2>2
  <2> QED BY <2>1, <2>2
<1>5. P \in Nat /\ E \in Nat /\ R \in Nat /\ E = R * P /\ D \in Nat /\ D # 0
  <2>1. P \in Nat /\ E \in Nat /\ R \in Nat /\ D \in Nat /\ D # 0
    BY DoubleConstants, AmountConstants, PowerSteps
  <2>2. Power(Base, Decimals + (FixedDigits - Decimals)) = Power(Base, Decimals) * P
    BY DoubleConstants, AmountConstants, PowerSum
  <2> QED BY <2>1, <2>2, DoubleConstants, AmountConstants
<1> HIDE DEF P, E, R, D
<1>6. U \in Nat BY <1>5
<1>7. d * E \in Nat /\ N = 2 * (d * E) + D /\ N \in Nat
  <2>1. d * E \in Nat BY <1>5, TimesNat
  <2>2. (2 * d) * E = 2 * (d * E)
    <3>1. 2 \in Nat OBVIOUS
    <3> QED BY <1>5, <3>1, Products
  <2> QED BY <1>5, <2>1, <2>2
<1> HIDE DEF U, N
<1>8. s * P * U <= N
  <2>1. s * P \in Nat BY <1>4, <1>5, TimesNat
  <2>2. (s * P) * U <= V * U BY <1>1, <1>4, <1>6, <2>1, TimesMono
  <2>3. (s * P) * U \in Nat /\ V * U \in Nat BY <1>1, <1>6, <2>1, TimesNat
  <2> QED BY <1>1, <1>7, <2>2, <2>3
<1>9. d * R < (s + 1) * D
  <2> DEFINE t == s + 1
             x == t * D
             y == d * R
             tP == t * P
  <2>1. t \in Nat BY <1>4
  <2> HIDE DEF t
  <2>2. x \in Nat /\ y \in Nat /\ tP \in Nat BY <1>5, <2>1, TimesNat
  <2>3. y * P = d * E
    <3>1. (d * R) * P = d * (R * P) BY <1>5, Products
    <3> QED BY <1>5, <3>1
  <2>4. tP * U = 2 * (x * P)
    <3>1. U = 2 * D BY DEF U
    <3>2. (t * P) * (D * 2) = ((t * P) * D) * 2
      <4>1. t * P \in Nat /\ 2 \in Nat BY <2>2
      <4> QED BY <1>5, <4>1, Products
    <3>3. (t * P) * D = (t * D) * P
      <4>1. (t * P) * D = t * (P * D) /\ (t * D) * P = t * (D * P) /\ P * D = D * P
        BY <1>5, <2>1, Products
      <4> QED BY <4>1
    <3>4. x * P \in Nat /\ 2 * D = D * 2 /\ (x * P) * 2 = 2 * (x * P)
      BY <1>5, <2>2, TimesNat
    <3> QED BY <3>1, <3>2, <3>3, <3>4
  <2>5. N < tP * U
    <3>1. V + 1 <= tP /\ V + 1 \in Nat BY <1>1, <1>4, <2>2 DEF t
    <3>2. (V + 1) * U <= tP * U BY <1>6, <2>2, <3>1, TimesMono
    <3>3. (V + 1) * U \in Nat /\ tP * U \in Nat BY <1>6, <2>2, <3>1, TimesNat
    <3> QED BY <1>1, <1>7, <3>2, <3>3
  <2> HIDE DEF x, y, tP
  <2>6. x * P \in Nat /\ y * P \in Nat BY <1>5, <2>2, TimesNat
  <2>7. ~ (x <= y)
    <3> SUFFICES ASSUME x <= y PROVE FALSE OBVIOUS
    <3>1. x * P <= y * P BY <1>5, <2>2, TimesMono
    <3> QED BY <1>5, <1>7, <2>3, <2>4, <2>5, <2>6, <3>1
  <2>8. y < x BY <2>2, <2>7
  <2> QED BY <2>8 DEF x, y, t
<1> QED BY <1>4, <1>8, <1>9 DEF s, P, E, R, D, U, N

----------------------------------------------------------------------------
(* What is accepted.                                                        *)

\* An amount that is accepted is near what was entered, and is written as it is understood.
LEMMA AcceptIsNear ==
  ASSUME AmountsInv, Accept
  PROVE  AcceptedIsWithinAStroop'
<1> DEFINE s == xlmToStroops(raw)
           Near == /\ Double(raw) * STROOPS_PER_XLM < (s + 1) * DoubleUnit
                   /\ s * Power(Base, FixedDigits - Decimals) * (2 * DoubleUnit)
                        <= 2 * Double(raw) * Power(Base, FixedDigits) + DoubleUnit
           Exact == s * Power(Base, Len(raw.frac)) = BigInt(raw.whole \o raw.frac) * STROOPS_PER_XLM
<1>1. /\ raw \in Text \cup JsNumber /\ size \in Int /\ raw.form # "garbage" /\ ~ TooManyDecimals(raw)
      /\ s > 0 /\ size > 0 /\ ~ PotOverflows(s, size) /\ stroops' = {s} /\ raw' = raw /\ size' = size
  BY AmountsAssumption DEF AmountsInv, Accept
<1>2. raw.form \in {"decimal", "exponent", "number"} /\ (raw.form \in {"decimal", "exponent"} => raw \in Text)
  <2>1. CASE raw \in Text BY <1>1, <2>1 DEF Text
  <2>2. CASE raw \in JsNumber BY <2>2 DEF JsNumber
  <2> QED BY <1>1, <2>1, <2>2
<1>3. s \in Nat /\ (raw.form = "decimal" => Exact) /\ (raw.form # "decimal" => Near)
  <2>1. CASE raw.form = "decimal"
    <3>1. raw \in Text /\ s = Stroops(raw) BY <1>2, <2>1 DEF xlmToStroops, Expanded
    <3>2. s \in Nat /\ ~ raw.negative
      <4>1. Stroops(raw) > 0 BY <1>1, <3>1
      <4>2. Stroops(raw) \in Nat /\ ~ raw.negative BY <3>1, <4>1, TextIsRead
      <4> QED BY <3>1, <4>2
    <3>3. Len(raw.frac) \in 0 .. Decimals + 1 BY <3>1, TextDigits
    <3>4. Len(raw.frac) <= Decimals BY <1>1, <2>1, <3>3, AmountConstants DEF TooManyDecimals
    <3>5. Stroops(raw) * Power(Base, Len(raw.frac)) = BigInt(raw.whole \o raw.frac) * STROOPS_PER_XLM
      BY <3>1, <3>2, <3>4, NothingIsCut
    <3> QED BY <2>1, <3>1, <3>2, <3>5
  <2>2. CASE raw.form # "decimal"
    <3> DEFINE d == Double(raw)
               no == raw.negative
    <3>1. s = Stroops(expandNumberToDecimalString(no, d)) BY <1>2, <2>2 DEF xlmToStroops, Expanded
    <3>2. no \in BOOLEAN
      <4>1. CASE raw \in Text BY <4>1, TextType
      <4>2. CASE raw \in JsNumber BY <4>2 DEF JsNumber
      <4> QED BY <1>1, <4>1, <4>2
    <3>3. d \in Nat
      <4>1. CASE raw \in Text
        <5>1. raw.form # "number" BY <4>1 DEF Text
        <5>2. d = Nearest(raw) BY <5>1 DEF Double
        <5> QED BY <4>1, <5>2, NearestIsDouble, DoubleConstants
      <4>2. CASE raw \in JsNumber
        <5>1. raw.form = "number" /\ raw.double \in Doubles BY <4>2 DEF JsNumber
        <5> QED BY <5>1, DoubleConstants DEF Double
      <4> QED BY <1>1, <4>1, <4>2
    <3> HIDE DEF d, no, s
    <3>4. /\ s \in Nat
          /\ d * STROOPS_PER_XLM < (s + 1) * DoubleUnit
          /\ s * Power(Base, FixedDigits - Decimals) * (2 * DoubleUnit)
               <= 2 * d * Power(Base, FixedDigits) + DoubleUnit
      BY <1>1, <3>1, <3>2, <3>3, NumberIsNear
    <3> QED BY <2>2, <3>4 DEF d
  <2> QED BY <2>1, <2>2
<1>4. xlmToStroops(Formatted(s)) = s
  <2> HIDE DEF s
  <2> QED BY <1>3, WrittenIsReadBack
<1>5. ASSUME NEW n \in 1 .. size PROVE n * s <= MAX_I128
  <2> HIDE DEF s
  <2>1. n \in Nat /\ size \in Nat /\ n <= size BY <1>1
  <2>2. n * s <= size * s BY <1>3, <2>1, TimesMono
  <2>3. size * s = s * size /\ s * size \in Nat /\ n * s \in Nat BY <1>3, <2>1, Products
  <2>4. s * size <= MAX_I128 BY <1>1, <2>3, AmountConstants DEF PotOverflows
  <2> QED BY <2>2, <2>3, <2>4, AmountConstants
<1>6. Double(raw)' = Double(raw) BY <1>1 DEF Double
<1> HIDE DEF s
<1> QED BY <1>1, <1>3, <1>4, <1>5, <1>6 DEF AcceptedIsWithinAStroop

\* What the client accepts is what was typed as a decimal, or within a stroop of the number
\* that stands for what was entered otherwise; it fits the contract and is read back,
\* whatever the base, the numbers of decimals, the doubles, the sizes of circles and the
\* limits.
THEOREM AcceptedIsWithinAStroopHolds == AmountsSpec => []AcceptedIsWithinAStroop
<1>1. AmountsInit => AmountsInv /\ AcceptedIsWithinAStroop
  BY DEF AmountsInit, AmountsInv, AcceptedIsWithinAStroop
<1>2. AmountsInv /\ AcceptedIsWithinAStroop /\ [AmountsNext]_amountVars
        => (AmountsInv /\ AcceptedIsWithinAStroop)'
  <2> SUFFICES ASSUME AmountsInv, AcceptedIsWithinAStroop, [AmountsNext]_amountVars
               PROVE  AmountsInv' /\ AcceptedIsWithinAStroop'
    OBVIOUS
  <2>1. CASE Accept
    <3>1. AmountsInv' BY <2>1 DEF AmountsInv, Accept
    <3> QED BY <2>1, <3>1, AcceptIsNear
  <2>2. CASE UNCHANGED amountVars
    <3>1. raw' = raw /\ size' = size /\ stroops' = stroops BY <2>2 DEF amountVars
    <3>2. Double(raw)' = Double(raw) BY <3>1 DEF Double
    <3> QED BY <3>1, <3>2 DEF AmountsInv, AcceptedIsWithinAStroop
  <2> QED BY <2>1, <2>2 DEF AmountsNext
<1> QED BY <1>1, <1>2, PTL DEF AmountsSpec

----------------------------------------------------------------------------
(* Bytes.                                                                   *)

\* What a byte holds.
Octet == 0 .. Byte - 1

\* The constants of the encodings are numbers.
LEMMA WireConstants ==
  /\ Byte \in Nat \ {0} /\ FP_BYTES \in Nat \ {0} /\ FP_BYTES \in Nat /\ IC_LENGTH \in Nat
  /\ CircleBytes \in Nat /\ RoundBytes \in Nat /\ FP_MODULUS \in Nat
  /\ \A v \in Fp : v \in Nat /\ v < Power(Byte, FP_BYTES)
  /\ \A v \in Nat : v < FP_MODULUS => v \in Fp
  /\ 0 \in Fp
<1>1. Byte \in Nat \ {0} /\ FP_BYTES \in Nat \ {0} /\ FP_BYTES \in Nat /\ IC_LENGTH \in Nat
      /\ CircleBytes \in Nat /\ RoundBytes \in Nat
  BY WireAssumption
<1>2. Power(Byte, FP_BYTES) \in Nat BY <1>1, PowerSteps
<1>3. FP_MODULUS \in 1 .. Power(Byte, FP_BYTES) BY WireAssumption
<1>4. FP_MODULUS \in Nat /\ FP_MODULUS >= 1 /\ FP_MODULUS <= Power(Byte, FP_BYTES) BY <1>2, <1>3
<1>5. \A v \in Fp : v \in Nat /\ v < Power(Byte, FP_BYTES) BY <1>2, <1>4 DEF Fp
<1>6. (\A v \in Nat : v < FP_MODULUS => v \in Fp) /\ 0 \in Fp BY <1>4 DEF Fp
<1> QED BY <1>1, <1>4, <1>5, <1>6

\* Functions on 1 .. n that agree everywhere are the same bytes.
LEMMA BytesOfType ==
  ASSUME NEW v \in Nat, NEW n \in Nat
  PROVE  BytesOf(v, n) \in [1 .. n -> Octet] /\ BytesOf(v, n) \in Seq(Octet) /\ Len(BytesOf(v, n)) = n
<1> DEFINE d == BytesOf(v, n)
<1>1. d \in [1 .. n -> Octet] BY WireConstants, DigitsOfType DEF BytesOf, Octet
<1> HIDE DEF d
<1>2. d \in Seq(Octet) /\ Len(d) = n BY <1>1, IsSeq
<1> QED BY <1>1, <1>2 DEF d

\* An element of the field is read back from its bytes.
LEMMA ElementReadBack ==
  ASSUME NEW v \in Fp
  PROVE  feToBytes(v) \in [1 .. FP_BYTES -> Octet] /\ bytesToBigInt(feToBytes(v)) = v
<1>1. v \in Nat /\ v < Power(Byte, FP_BYTES) /\ Byte \in Nat \ {0} /\ FP_BYTES \in Nat BY WireConstants
<1>2. feToBytes(v) = BytesOf(v, FP_BYTES) BY DEF feToBytes
<1>3. BytesOf(v, FP_BYTES) \in [1 .. FP_BYTES -> Octet] BY <1>1, BytesOfType
<1>4. NumberOf(Byte, DigitsOf(Byte, v, FP_BYTES)) = v BY <1>1, DigitsReadBack
<1> QED BY <1>2, <1>3, <1>4 DEF bytesToBigInt, BytesOf

\* And bytes are those of the number they make.
LEMMA BytesReadBack ==
  ASSUME NEW e \in [1 .. FP_BYTES -> Octet]
  PROVE  bytesToBigInt(e) \in Nat /\ feToBytes(bytesToBigInt(e)) = e
<1>1. Byte \in Nat \ {0} /\ FP_BYTES \in Nat BY WireConstants
<1>2. NumberOf(Byte, e) \in Nat /\ DigitsOf(Byte, NumberOf(Byte, e), FP_BYTES) = e
  BY <1>1, NumberReadBack DEF Octet
<1> QED BY <1>2 DEF bytesToBigInt, feToBytes, BytesOf

\* An element of the bytes of a point, byte by byte.
LEMMA ElementIs ==
  ASSUME NEW bytes \in Seq(Octet), NEW n \in Nat, Len(bytes) = n * FP_BYTES, NEW i \in 1 .. n
  PROVE  /\ Element(bytes, i) \in [1 .. FP_BYTES -> Octet]
         /\ Element(bytes, i) = [ j \in 1 .. FP_BYTES |-> bytes[(i - 1) * FP_BYTES + j] ]
<1> DEFINE a == (i - 1) * FP_BYTES
           e == Element(bytes, i)
<1>1. FP_BYTES \in Nat /\ FP_BYTES # 0 /\ i \in Nat /\ i - 1 \in Nat /\ i <= n /\ i = (i - 1) + 1 BY WireConstants
<1>2. i * FP_BYTES = a + FP_BYTES
  <2>1. ((i - 1) + 1) * FP_BYTES = (i - 1) * FP_BYTES + 1 * FP_BYTES BY <1>1, Products
  <2>2. 1 * FP_BYTES = FP_BYTES BY <1>1
  <2> QED BY <1>1, <2>1, <2>2
<1>3. a \in Nat /\ i * FP_BYTES <= n * FP_BYTES /\ n * FP_BYTES \in Nat BY <1>1, TimesNat, TimesMono
<1>4. e = SubSeq(bytes, a + 1, a + FP_BYTES) BY <1>2 DEF Element
<1> HIDE DEF a, e
<1>5. a + 1 \in Int /\ a + FP_BYTES \in Int /\ a + 1 <= a + FP_BYTES BY <1>1, <1>3
<1>6. \A k \in a + 1 .. a + FP_BYTES : bytes[k] \in Octet
  <2>1. ASSUME NEW k \in a + 1 .. a + FP_BYTES PROVE k \in 1 .. Len(bytes) BY <1>1, <1>2, <1>3
  <2> QED BY <2>1
<1>7. e \in [1 .. FP_BYTES -> Octet] /\ e = [ j \in 1 .. FP_BYTES |-> bytes[a + j] ]
  <2>1. /\ e \in Seq(Octet) /\ Len(e) = (a + FP_BYTES) - (a + 1) + 1
        /\ \A j \in 1 .. (a + FP_BYTES) - (a + 1) + 1 : e[j] = bytes[(a + 1) + j - 1]
    BY <1>4, <1>5, <1>6, SubSeqProperties
  <2>2. (a + FP_BYTES) - (a + 1) + 1 = FP_BYTES /\ \A j \in 1 .. FP_BYTES : (a + 1) + j - 1 = a + j BY <1>1, <1>3
  <2>3. e \in [1 .. FP_BYTES -> Octet] BY <2>1, <2>2
  <2>4. \A j \in 1 .. FP_BYTES : e[j] = bytes[a + j] BY <2>1, <2>2
  <2> QED BY <2>3, <2>4
<1> QED BY <1>7 DEF a, e


----------------------------------------------------------------------------
(* Points of G1.                                                            *)

\* s and t are sequences of that many elements of S.
Parts(S, s, t, m, n) == s \in Seq(S) /\ t \in Seq(S) /\ Len(s) = m /\ Len(t) = n

\* c is s and then t.
Whole(S, c, s, t, m, n) ==
  /\ c \in Seq(S) /\ Len(c) = m + n
  /\ \A i \in 1 .. m : c[i] = s[i]
  /\ \A i \in 1 .. n : c[m + i] = t[i]

\* One sequence after another, place by place.
LEMMA JoinedSeqs ==
  ASSUME NEW S, NEW s, NEW t, NEW m, NEW n, Parts(S, s, t, m, n)
  PROVE  Whole(S, s \o t, s, t, m, n)
<1> DEFINE c == s \o t
<1>0. s \in Seq(S) /\ t \in Seq(S) /\ Len(s) = m /\ Len(t) = n BY DEF Parts
<1>1. m \in Nat /\ n \in Nat BY <1>0
<1>2. /\ c \in Seq(S) /\ Len(c) = m + n
      /\ \A i \in 1 .. m + n : c[i] = IF i <= m THEN s[i] ELSE t[i - m]
  BY <1>0, ConcatProperties
<1> HIDE DEF c
<1>3. ASSUME NEW i \in 1 .. m PROVE c[i] = s[i]
  <2>1. i \in 1 .. m + n /\ i <= m BY <1>1
  <2> QED BY <1>2, <2>1
<1>4. ASSUME NEW i \in 1 .. n PROVE c[m + i] = t[i]
  <2>1. m + i \in 1 .. m + n /\ ~ (m + i <= m) /\ (m + i) - m = i BY <1>1
  <2>2. c[m + i] = t[(m + i) - m] BY <1>2, <2>1
  <2> QED BY <2>1, <2>2
<1> QED BY <1>2, <1>3, <1>4 DEF c, Whole

\* The two elements of two joined ones.
LEMMA TwoElements ==
  ASSUME NEW e1 \in [1 .. FP_BYTES -> Octet], NEW e2 \in [1 .. FP_BYTES -> Octet]
  PROVE  /\ e1 \o e2 \in Seq(Octet) /\ Len(e1 \o e2) = 2 * FP_BYTES
         /\ Element(e1 \o e2, 1) = e1 /\ Element(e1 \o e2, 2) = e2
<1> DEFINE c == e1 \o e2
<1>1. FP_BYTES \in Nat BY WireConstants
<1>2. e1 \in Seq(Octet) /\ e2 \in Seq(Octet) /\ Len(e1) = FP_BYTES /\ Len(e2) = FP_BYTES BY <1>1, IsSeq
<1>3. c \in Seq(Octet) /\ Len(c) = 2 * FP_BYTES BY <1>1, <1>2
<1>4. \A j \in 1 .. FP_BYTES : c[j] = e1[j] /\ c[FP_BYTES + j] = e2[j] BY <1>1, <1>2
<1> HIDE DEF c
<1>5. Element(c, 1) = [ j \in 1 .. FP_BYTES |-> c[(1 - 1) * FP_BYTES + j] ]
      /\ Element(c, 2) = [ j \in 1 .. FP_BYTES |-> c[(2 - 1) * FP_BYTES + j] ]
  BY <1>3, ElementIs
<1>6. \A j \in 1 .. FP_BYTES : (1 - 1) * FP_BYTES + j = j /\ (2 - 1) * FP_BYTES + j = FP_BYTES + j BY <1>1
<1>7. Element(c, 1) = e1 /\ Element(c, 2) = e2
  <2>1. e1 = [ j \in 1 .. FP_BYTES |-> e1[j] ] /\ e2 = [ j \in 1 .. FP_BYTES |-> e2[j] ] OBVIOUS
  <2> QED BY <1>4, <1>5, <1>6, <2>1
<1> QED BY <1>3, <1>7 DEF c

\* Four elements, one after another.
Four(e1, e2, e3, e4) == e1 \o e2 \o e3 \o e4

\* The four elements of four joined ones.
LEMMA FourElements ==
  ASSUME NEW e1 \in [1 .. FP_BYTES -> Octet], NEW e2 \in [1 .. FP_BYTES -> Octet],
         NEW e3 \in [1 .. FP_BYTES -> Octet], NEW e4 \in [1 .. FP_BYTES -> Octet]
  PROVE  /\ Four(e1, e2, e3, e4) \in Seq(Octet) /\ Len(Four(e1, e2, e3, e4)) = 4 * FP_BYTES
         /\ Element(Four(e1, e2, e3, e4), 1) = e1 /\ Element(Four(e1, e2, e3, e4), 2) = e2
         /\ Element(Four(e1, e2, e3, e4), 3) = e3 /\ Element(Four(e1, e2, e3, e4), 4) = e4
<1> DEFINE a == e1 \o e2
           b == a \o e3
           c == b \o e4
<1>1. FP_BYTES \in Nat BY WireConstants
<1>2. /\ e1 \in Seq(Octet) /\ e2 \in Seq(Octet) /\ e3 \in Seq(Octet) /\ e4 \in Seq(Octet)
      /\ Len(e1) = FP_BYTES /\ Len(e2) = FP_BYTES /\ Len(e3) = FP_BYTES /\ Len(e4) = FP_BYTES BY <1>1, IsSeq
<1>3. /\ a \in Seq(Octet) /\ Len(a) = FP_BYTES + FP_BYTES
      /\ \A j \in 1 .. FP_BYTES : a[j] = e1[j] /\ a[FP_BYTES + j] = e2[j]
  <2>1. Parts(Octet, e1, e2, FP_BYTES, FP_BYTES) BY <1>2 DEF Parts
  <2>2. Whole(Octet, a, e1, e2, FP_BYTES, FP_BYTES) BY <2>1, JoinedSeqs, Zenon
  <2> QED BY <2>2 DEF Whole
<1> HIDE DEF a
<1>4. Len(a) = 2 * FP_BYTES BY <1>1, <1>3
<1>5. /\ b \in Seq(Octet) /\ Len(b) = 2 * FP_BYTES + FP_BYTES
      /\ \A j \in 1 .. 2 * FP_BYTES : b[j] = a[j]
      /\ \A j \in 1 .. FP_BYTES : b[2 * FP_BYTES + j] = e3[j]
  <2>1. Parts(Octet, a, e3, 2 * FP_BYTES, FP_BYTES) BY <1>2, <1>3, <1>4 DEF Parts
  <2>2. Whole(Octet, b, a, e3, 2 * FP_BYTES, FP_BYTES) BY <2>1, JoinedSeqs, Zenon
  <2> QED BY <2>2 DEF Whole
<1> HIDE DEF b
<1>6. Len(b) = 3 * FP_BYTES BY <1>1, <1>5
<1>7. /\ c \in Seq(Octet) /\ Len(c) = 3 * FP_BYTES + FP_BYTES
      /\ \A j \in 1 .. 3 * FP_BYTES : c[j] = b[j]
      /\ \A j \in 1 .. FP_BYTES : c[3 * FP_BYTES + j] = e4[j]
  <2>1. Parts(Octet, b, e4, 3 * FP_BYTES, FP_BYTES) BY <1>2, <1>5, <1>6 DEF Parts
  <2>2. Whole(Octet, c, b, e4, 3 * FP_BYTES, FP_BYTES) BY <2>1, JoinedSeqs, Zenon
  <2> QED BY <2>2 DEF Whole
<1> HIDE DEF c
<1>8. \A j \in 1 .. FP_BYTES : /\ c[j] = e1[j] /\ c[FP_BYTES + j] = e2[j]
                               /\ c[2 * FP_BYTES + j] = e3[j] /\ c[3 * FP_BYTES + j] = e4[j]
  <2>1. \A j \in 1 .. FP_BYTES :
          /\ j \in 1 .. 2 * FP_BYTES /\ FP_BYTES + j \in 1 .. 2 * FP_BYTES
          /\ j \in 1 .. 3 * FP_BYTES /\ FP_BYTES + j \in 1 .. 3 * FP_BYTES
          /\ 2 * FP_BYTES + j \in 1 .. 3 * FP_BYTES
    BY <1>1
  <2>2. \A j \in 1 .. FP_BYTES : /\ b[j] = e1[j] /\ b[FP_BYTES + j] = e2[j]
    BY <1>3, <1>5, <2>1
  <2> QED BY <1>5, <1>7, <2>1, <2>2
<1>14. Len(c) = 4 * FP_BYTES BY <1>1, <1>7
<1>9. ASSUME NEW i \in 1 .. 4 PROVE Element(c, i) = [ j \in 1 .. FP_BYTES |-> c[(i - 1) * FP_BYTES + j] ]
  BY <1>7, <1>14, ElementIs
<1>10. /\ Element(c, 1) = [ j \in 1 .. FP_BYTES |-> c[(1 - 1) * FP_BYTES + j] ]
       /\ Element(c, 2) = [ j \in 1 .. FP_BYTES |-> c[(2 - 1) * FP_BYTES + j] ]
       /\ Element(c, 3) = [ j \in 1 .. FP_BYTES |-> c[(3 - 1) * FP_BYTES + j] ]
       /\ Element(c, 4) = [ j \in 1 .. FP_BYTES |-> c[(4 - 1) * FP_BYTES + j] ]
  BY <1>9
<1>11. \A j \in 1 .. FP_BYTES : /\ (1 - 1) * FP_BYTES + j = j /\ (2 - 1) * FP_BYTES + j = FP_BYTES + j
                         /\ (3 - 1) * FP_BYTES + j = 2 * FP_BYTES + j /\ (4 - 1) * FP_BYTES + j = 3 * FP_BYTES + j
  BY <1>1
<1>0. /\ e1 = [ j \in 1 .. FP_BYTES |-> e1[j] ] /\ e2 = [ j \in 1 .. FP_BYTES |-> e2[j] ]
      /\ e3 = [ j \in 1 .. FP_BYTES |-> e3[j] ] /\ e4 = [ j \in 1 .. FP_BYTES |-> e4[j] ]
  OBVIOUS
<1>12. /\ Element(c, 1) = e1 /\ Element(c, 2) = e2 /\ Element(c, 3) = e3 /\ Element(c, 4) = e4
  BY <1>8, <1>10, <1>11, <1>0
<1>13. c = Four(e1, e2, e3, e4) BY DEF a, b, c, Four
<1> QED BY <1>7, <1>12, <1>13, <1>14

\* The elements are all of the bytes.
LEMMA AllTwo ==
  ASSUME NEW c \in Seq(Octet), Len(c) = 2 * FP_BYTES
  PROVE  c = Element(c, 1) \o Element(c, 2)
<1> DEFINE e1 == Element(c, 1)
           e2 == Element(c, 2)
           d == e1 \o e2
<1>1. FP_BYTES \in Nat BY WireConstants
<1>2. /\ e1 \in [1 .. FP_BYTES -> Octet] /\ e1 = [ j \in 1 .. FP_BYTES |-> c[(1 - 1) * FP_BYTES + j] ]
      /\ e2 \in [1 .. FP_BYTES -> Octet] /\ e2 = [ j \in 1 .. FP_BYTES |-> c[(2 - 1) * FP_BYTES + j] ]
  BY ElementIs
<1> HIDE DEF e1, e2
<1>3. e1 \in Seq(Octet) /\ Len(e1) = FP_BYTES /\ e2 \in Seq(Octet) /\ Len(e2) = FP_BYTES BY <1>1, <1>2, IsSeq
<1>0. /\ d \in Seq(Octet) /\ Len(d) = FP_BYTES + FP_BYTES
      /\ \A j \in 1 .. FP_BYTES : d[j] = e1[j] /\ d[FP_BYTES + j] = e2[j]
  <2>1. Parts(Octet, e1, e2, FP_BYTES, FP_BYTES) BY <1>3 DEF Parts
  <2>2. Whole(Octet, d, e1, e2, FP_BYTES, FP_BYTES) BY <2>1, JoinedSeqs, Zenon
  <2> QED BY <2>2 DEF Whole
<1> HIDE DEF d
<1>4. Len(d) = 2 * FP_BYTES BY <1>0, <1>1
<1>5. ASSUME NEW k \in 1 .. 2 * FP_BYTES PROVE d[k] = c[k]
  <2>1. CASE k <= FP_BYTES
    <3>1. k \in 1 .. FP_BYTES /\ (1 - 1) * FP_BYTES + k = k BY <1>1, <2>1
    <3>2. d[k] = e1[k] BY <1>0, <3>1
    <3>3. e1[k] = c[(1 - 1) * FP_BYTES + k] BY <1>2, <3>1
    <3> QED BY <3>1, <3>2, <3>3
  <2>2. CASE ~ (k <= FP_BYTES)
    <3> DEFINE j == k - FP_BYTES
    <3>1. j \in 1 .. FP_BYTES /\ (2 - 1) * FP_BYTES + j = k /\ FP_BYTES + j = k BY <1>1, <2>2
    <3> HIDE DEF j
    <3>2. d[FP_BYTES + j] = e2[j] BY <1>0, <3>1
    <3>3. e2[j] = c[(2 - 1) * FP_BYTES + j] BY <1>2, <3>1
    <3> QED BY <3>1, <3>2, <3>3
  <2> QED BY <2>1, <2>2
<1>6. c = d BY <1>0, <1>4, <1>5, SeqEqual
<1> QED BY <1>6 DEF d, e1, e2

\* The elements are all of the bytes, in G2 as well.
LEMMA AllFour ==
  ASSUME NEW c \in Seq(Octet), Len(c) = 4 * FP_BYTES
  PROVE  c = Element(c, 1) \o Element(c, 2) \o Element(c, 3) \o Element(c, 4)
<1> DEFINE e1 == Element(c, 1)
           e2 == Element(c, 2)
           e3 == Element(c, 3)
           e4 == Element(c, 4)
           d == Four(e1, e2, e3, e4)
<1>1. FP_BYTES \in Nat BY WireConstants
<1>2. ASSUME NEW i \in 1 .. 4
      PROVE  Element(c, i) \in [1 .. FP_BYTES -> Octet] /\ Element(c, i) = [ j \in 1 .. FP_BYTES |-> c[(i - 1) * FP_BYTES + j] ]
  BY ElementIs
<1>3. /\ e1 \in [1 .. FP_BYTES -> Octet] /\ e1 = [ j \in 1 .. FP_BYTES |-> c[(1 - 1) * FP_BYTES + j] ]
      /\ e2 \in [1 .. FP_BYTES -> Octet] /\ e2 = [ j \in 1 .. FP_BYTES |-> c[(2 - 1) * FP_BYTES + j] ]
      /\ e3 \in [1 .. FP_BYTES -> Octet] /\ e3 = [ j \in 1 .. FP_BYTES |-> c[(3 - 1) * FP_BYTES + j] ]
      /\ e4 \in [1 .. FP_BYTES -> Octet] /\ e4 = [ j \in 1 .. FP_BYTES |-> c[(4 - 1) * FP_BYTES + j] ]
  BY <1>2
<1> HIDE DEF e1, e2, e3, e4
<1>4. /\ d \in Seq(Octet) /\ Len(d) = 4 * FP_BYTES
      /\ Element(d, 1) = e1 /\ Element(d, 2) = e2 /\ Element(d, 3) = e3 /\ Element(d, 4) = e4
  <2>1. e1 \in [1 .. FP_BYTES -> Octet] /\ e2 \in [1 .. FP_BYTES -> Octet] /\ e3 \in [1 .. FP_BYTES -> Octet] /\ e4 \in [1 .. FP_BYTES -> Octet]
    BY <1>3
  <2> QED BY <2>1, FourElements
<1> HIDE DEF d
<1>5. ASSUME NEW i \in 1 .. 4
      PROVE  Element(d, i) = [ j \in 1 .. FP_BYTES |-> d[(i - 1) * FP_BYTES + j] ]
  BY <1>4, ElementIs
<1>6. /\ e1 = [ j \in 1 .. FP_BYTES |-> d[(1 - 1) * FP_BYTES + j] ]
      /\ e2 = [ j \in 1 .. FP_BYTES |-> d[(2 - 1) * FP_BYTES + j] ]
      /\ e3 = [ j \in 1 .. FP_BYTES |-> d[(3 - 1) * FP_BYTES + j] ]
      /\ e4 = [ j \in 1 .. FP_BYTES |-> d[(4 - 1) * FP_BYTES + j] ]
  BY <1>4, <1>5
<1>7. \A j \in 1 .. FP_BYTES : /\ d[(1 - 1) * FP_BYTES + j] = c[(1 - 1) * FP_BYTES + j]
                        /\ d[(2 - 1) * FP_BYTES + j] = c[(2 - 1) * FP_BYTES + j]
                        /\ d[(3 - 1) * FP_BYTES + j] = c[(3 - 1) * FP_BYTES + j]
                        /\ d[(4 - 1) * FP_BYTES + j] = c[(4 - 1) * FP_BYTES + j]
  <2> SUFFICES ASSUME NEW j \in 1 .. FP_BYTES
               PROVE  /\ d[(1 - 1) * FP_BYTES + j] = c[(1 - 1) * FP_BYTES + j]
                      /\ d[(2 - 1) * FP_BYTES + j] = c[(2 - 1) * FP_BYTES + j]
                      /\ d[(3 - 1) * FP_BYTES + j] = c[(3 - 1) * FP_BYTES + j]
                      /\ d[(4 - 1) * FP_BYTES + j] = c[(4 - 1) * FP_BYTES + j]
    OBVIOUS
  <2>1. e1[j] = d[(1 - 1) * FP_BYTES + j] /\ e2[j] = d[(2 - 1) * FP_BYTES + j]
        /\ e3[j] = d[(3 - 1) * FP_BYTES + j] /\ e4[j] = d[(4 - 1) * FP_BYTES + j]
    BY <1>6
  <2>2. e1[j] = c[(1 - 1) * FP_BYTES + j] /\ e2[j] = c[(2 - 1) * FP_BYTES + j]
        /\ e3[j] = c[(3 - 1) * FP_BYTES + j] /\ e4[j] = c[(4 - 1) * FP_BYTES + j]
    BY <1>3
  <2> QED BY <2>1, <2>2
<1>8. ASSUME NEW k \in 1 .. 4 * FP_BYTES PROVE d[k] = c[k]
  <2>1. CASE k <= FP_BYTES
    <3>1. k \in 1 .. FP_BYTES /\ (1 - 1) * FP_BYTES + k = k BY <1>1, <2>1
    <3> QED BY <1>7, <3>1
  <2>2. CASE ~ (k <= FP_BYTES) /\ k <= 2 * FP_BYTES
    <3>1. k - FP_BYTES \in 1 .. FP_BYTES /\ (2 - 1) * FP_BYTES + (k - FP_BYTES) = k BY <1>1, <2>2
    <3> QED BY <1>7, <3>1
  <2>3. CASE ~ (k <= 2 * FP_BYTES) /\ k <= 3 * FP_BYTES
    <3>1. k - 2 * FP_BYTES \in 1 .. FP_BYTES /\ (3 - 1) * FP_BYTES + (k - 2 * FP_BYTES) = k BY <1>1, <2>3
    <3> QED BY <1>7, <3>1
  <2>4. CASE ~ (k <= 3 * FP_BYTES)
    <3>1. k - 3 * FP_BYTES \in 1 .. FP_BYTES /\ (4 - 1) * FP_BYTES + (k - 3 * FP_BYTES) = k BY <1>1, <2>4
    <3> QED BY <1>7, <3>1
  <2> QED BY <1>1, <2>1, <2>2, <2>3, <2>4
<1>9. c = d BY <1>4, <1>8, SeqEqual
<1> QED BY <1>9 DEF d, e1, e2, e3, e4, Four

----------------------------------------------------------------------------
(* Points.                                                                  *)

\* A point of G1 is read back from its bytes.
LEMMA PackedG1 ==
  ASSUME NEW p \in G1
  PROVE  /\ encodeG1(p) \in Seq(Octet) /\ Len(encodeG1(p)) = 2 * FP_BYTES
         /\ hostG1(encodeG1(p)) = p /\ Valid(encodeG1(p), 2)
<1> DEFINE e1 == feToBytes(p[1])
           e2 == feToBytes(p[2])
           c == e1 \o e2
<1>1. p[1] \in Fp /\ p[2] \in Fp /\ p = <<p[1], p[2]>> BY DEF G1
<1>2. /\ e1 \in [1 .. FP_BYTES -> Octet] /\ e2 \in [1 .. FP_BYTES -> Octet]
      /\ bytesToBigInt(e1) = p[1] /\ bytesToBigInt(e2) = p[2]
  BY <1>1, ElementReadBack
<1>3. encodeG1(p) = c BY DEF encodeG1, packG1
<1> HIDE DEF e1, e2
<1>4. c \in Seq(Octet) /\ Len(c) = 2 * FP_BYTES /\ Element(c, 1) = e1 /\ Element(c, 2) = e2
  BY <1>2, TwoElements
<1> HIDE DEF c
<1>5. hostG1(c) = <<p[1], p[2]>> BY <1>2, <1>4 DEF hostG1, hostElement
<1>6. Valid(c, 2)
  <2>1. p[1] < FP_MODULUS /\ p[2] < FP_MODULUS BY <1>1, WireConstants DEF Fp
  <2>2. \A i \in 1 .. 2 : bytesToBigInt(Element(c, i)) < FP_MODULUS
    <3>1. \A i \in 1 .. 2 : i = 1 \/ i = 2 OBVIOUS
    <3> QED BY <1>2, <1>4, <2>1, <3>1
  <2> QED BY <1>4, <2>2 DEF Valid
<1> QED BY <1>1, <1>3, <1>4, <1>5, <1>6

\* A point of G2 is read back from its bytes, each pair in its order.
LEMMA PackedG2 ==
  ASSUME NEW p \in G2
  PROVE  /\ encodeG2(p) \in Seq(Octet) /\ Len(encodeG2(p)) = 4 * FP_BYTES
         /\ hostG2(encodeG2(p)) = p /\ Valid(encodeG2(p), 4)
<1> DEFINE x0 == p[1][1]
           x1 == p[1][2]
           y0 == p[2][1]
           y1 == p[2][2]
           e1 == feToBytes(x1)
           e2 == feToBytes(x0)
           e3 == feToBytes(y1)
           e4 == feToBytes(y0)
           c == Four(e1, e2, e3, e4)
<1>1. /\ x0 \in Fp /\ x1 \in Fp /\ y0 \in Fp /\ y1 \in Fp
      /\ p = <<<<x0, x1>>, <<y0, y1>>>>
  BY DEF G2
<1>2. encodeG2(p) = c BY DEF encodeG2, packG2, Four
<1> HIDE DEF x0, x1, y0, y1
<1>3. /\ e1 \in [1 .. FP_BYTES -> Octet] /\ e2 \in [1 .. FP_BYTES -> Octet] /\ e3 \in [1 .. FP_BYTES -> Octet] /\ e4 \in [1 .. FP_BYTES -> Octet]
      /\ bytesToBigInt(e1) = x1 /\ bytesToBigInt(e2) = x0
      /\ bytesToBigInt(e3) = y1 /\ bytesToBigInt(e4) = y0
  BY <1>1, ElementReadBack
<1> HIDE DEF e1, e2, e3, e4
<1>4. /\ c \in Seq(Octet) /\ Len(c) = 4 * FP_BYTES /\ Element(c, 1) = e1 /\ Element(c, 2) = e2
      /\ Element(c, 3) = e3 /\ Element(c, 4) = e4
  BY <1>3, FourElements
<1> HIDE DEF c
<1>5. hostG2(c) = <<<<x0, x1>>, <<y0, y1>>>> BY <1>3, <1>4 DEF hostG2, hostElement
<1>6. Valid(c, 4)
  <2>1. x0 < FP_MODULUS /\ x1 < FP_MODULUS /\ y0 < FP_MODULUS /\ y1 < FP_MODULUS
    BY <1>1, WireConstants DEF Fp
  <2>2. \A i \in 1 .. 4 : bytesToBigInt(Element(c, i)) < FP_MODULUS
    <3>1. \A i \in 1 .. 4 : i = 1 \/ i = 2 \/ i = 3 \/ i = 4 OBVIOUS
    <3> QED BY <1>3, <1>4, <2>1, <3>1
  <2> QED BY <1>4, <2>2 DEF Valid
<1> QED BY <1>1, <1>2, <1>4, <1>5, <1>6

\* Bytes that pass are the encoding of what the host reads.
LEMMA ElementPasses ==
  ASSUME NEW c \in Seq(Octet), NEW n \in Nat, Valid(c, n), NEW i \in 1 .. n
  PROVE  hostElement(c, i) \in Fp /\ feToBytes(hostElement(c, i)) = Element(c, i)
<1>1. Len(c) = n * FP_BYTES /\ bytesToBigInt(Element(c, i)) < FP_MODULUS BY DEF Valid
<1>2. Element(c, i) \in [1 .. FP_BYTES -> Octet] BY <1>1, ElementIs
<1>3. /\ bytesToBigInt(Element(c, i)) \in Nat
      /\ feToBytes(bytesToBigInt(Element(c, i))) = Element(c, i)
  BY <1>2, BytesReadBack
<1> QED BY <1>1, <1>3, WireConstants DEF hostElement

\* Bytes that are let through as a point of G1 are the bytes of that point.
LEMMA PassedG1 ==
  ASSUME NEW c \in Seq(Octet), Valid(c, 2)
  PROVE  hostG1(c) \in G1 /\ encodeG1(hostG1(c)) = c
<1> DEFINE v(i) == hostElement(c, i)
<1>1. /\ v(1) \in Fp /\ feToBytes(v(1)) = Element(c, 1)
      /\ v(2) \in Fp /\ feToBytes(v(2)) = Element(c, 2)
  BY ElementPasses
<1>2. c = Element(c, 1) \o Element(c, 2) BY AllTwo DEF Valid
<1>3. hostG1(c) = <<v(1), v(2)>> BY DEF hostG1
<1> HIDE DEF v
<1>4. hostG1(c) \in G1 /\ hostG1(c)[1] = v(1) /\ hostG1(c)[2] = v(2) BY <1>1, <1>3 DEF G1
<1>5. encodeG1(hostG1(c)) = Element(c, 1) \o Element(c, 2)
  BY <1>1, <1>4 DEF encodeG1, packG1
<1> QED BY <1>2, <1>4, <1>5

\* Bytes that are let through as a point of G2 are the bytes of that point.
LEMMA PassedG2 ==
  ASSUME NEW c \in Seq(Octet), Valid(c, 4)
  PROVE  hostG2(c) \in G2 /\ encodeG2(hostG2(c)) = c
<1> DEFINE v(i) == hostElement(c, i)
           h == hostG2(c)
<1>1. /\ v(1) \in Fp /\ feToBytes(v(1)) = Element(c, 1)
      /\ v(2) \in Fp /\ feToBytes(v(2)) = Element(c, 2)
      /\ v(3) \in Fp /\ feToBytes(v(3)) = Element(c, 3)
      /\ v(4) \in Fp /\ feToBytes(v(4)) = Element(c, 4)
  BY ElementPasses
<1>2. c = Element(c, 1) \o Element(c, 2) \o Element(c, 3) \o Element(c, 4) BY AllFour DEF Valid
<1>3. h = <<<<v(2), v(1)>>, <<v(4), v(3)>>>> BY DEF hostG2
<1> HIDE DEF v, h
<1>4. h \in G2 /\ h[1][1] = v(2) /\ h[1][2] = v(1) /\ h[2][1] = v(4) /\ h[2][2] = v(3)
  BY <1>1, <1>3 DEF G2
<1>5. encodeG2(h) = Element(c, 1) \o Element(c, 2) \o Element(c, 3) \o Element(c, 4)
  BY <1>1, <1>4 DEF encodeG2, packG2
<1> QED BY <1>2, <1>4, <1>5 DEF h

----------------------------------------------------------------------------
(* The verification key and the tags.                                       *)

\* A key whose parts are bytes.
Key(vk) ==
  /\ vk.alpha \in Seq(Octet) /\ vk.ic \in Seq(Seq(Octet))
  /\ \A f \in G2Fields : vk[f] \in Seq(Octet)

\* Any bytes of a fixed length are a sequence of octets.
LEMMA BytesAreSeq ==
  ASSUME NEW n \in Nat, NEW c \in Bytes(n)
  PROVE  c \in Seq(Octet)
BY IsSeq DEF Bytes, Octet

\* The key of zeros is one.
LEMMA ZeroKeyType == Key(ZeroKey) /\ packG1(<<0, 0>>) \in Seq(Octet)
<1> DEFINE z == packG1(<<0, 0>>)
           y == packG2(<<0, 0, 0, 0>>)
           e == feToBytes(0)
<1>1. e \in Seq(Octet)
  <2>1. e \in [1 .. FP_BYTES -> Octet] BY WireConstants, ElementReadBack
  <2> HIDE DEF e
  <2> QED BY <2>1, WireConstants, IsSeq
<1>2. z = e \o e /\ y = e \o e \o e \o e BY DEF packG1, packG2
<1> HIDE DEF e
<1>3. z \in Seq(Octet) /\ y \in Seq(Octet)
  <2>1. \A s, t \in Seq(Octet) : s \o t \in Seq(Octet) OBVIOUS
  <2>2. e \o e \in Seq(Octet) BY <1>1, <2>1, Zenon
  <2>3. e \o e \o e \in Seq(Octet) BY <1>1, <2>1, <2>2, Zenon
  <2>4. e \o e \o e \o e \in Seq(Octet) BY <1>1, <2>1, <2>3, Zenon
  <2> QED BY <1>2, <2>2, <2>4
<1>4. ZeroKey = [alpha |-> z, beta |-> y, gamma |-> y, delta |-> y, ic |-> [i \in 1 .. IC_LENGTH |-> z]]
  BY DEF ZeroKey
<1> HIDE DEF z, y
<1> DEFINE points == [i \in 1 .. IC_LENGTH |-> z]
<1>5. points \in Seq(Seq(Octet))
  <2>1. points \in [1 .. IC_LENGTH -> Seq(Octet)] BY <1>3
  <2> HIDE DEF points
  <2> QED BY <2>1, WireConstants, IsSeq
<1> HIDE DEF points
<1>6. /\ ZeroKey.alpha = z /\ ZeroKey["beta"] = y /\ ZeroKey["gamma"] = y
      /\ ZeroKey["delta"] = y /\ ZeroKey.ic = points
  BY <1>4 DEF points
<1>7. \A f \in G2Fields : ZeroKey[f] \in Seq(Octet) BY <1>3, <1>6 DEF G2Fields
<1> QED BY <1>3, <1>5, <1>6, <1>7 DEF Key, z

\* So is every key that is brought.
LEMMA BroughtKeyType == ASSUME NEW vk \in BroughtKey PROVE Key(vk)
<1> DEFINE Z == ZeroKey
<1>1. Key(Z) /\ packG1(<<0, 0>>) \in Seq(Octet) BY ZeroKeyType
<1>2. 2 * FP_BYTES \in Nat /\ 4 * FP_BYTES \in Nat /\ FP_BYTES \in Nat BY WireAssumption
<1>3. DOMAIN Z = {"alpha", "beta", "gamma", "delta", "ic"}
  <2>1. \A a, b, g, d, i : DOMAIN [alpha |-> a, beta |-> b, gamma |-> g, delta |-> d, ic |-> i]
                             = {"alpha", "beta", "gamma", "delta", "ic"} OBVIOUS
  <2> QED BY <2>1 DEF ZeroKey
<1>4. Append(Z.ic, packG1(<<0, 0>>)) \in Seq(Seq(Octet)) BY <1>1 DEF Key
<1> HIDE DEF Z
<1>5. CASE \E b \in Bytes(2 * FP_BYTES) \cup Bytes(FP_BYTES) : vk = [Z EXCEPT !.alpha = b]
  <2>1. PICK b \in Bytes(2 * FP_BYTES) \cup Bytes(FP_BYTES) : vk = [Z EXCEPT !.alpha = b] BY <1>5
  <2>2. b \in Seq(Octet) BY <1>2, <2>1, BytesAreSeq
  <2>3. vk.alpha = b /\ vk.ic = Z.ic /\ \A f \in G2Fields : vk[f] = Z[f]
    BY <1>3, <2>1 DEF G2Fields
  <2> QED BY <1>1, <2>2, <2>3 DEF Key
<1>6. CASE \E g \in G2Fields : \E b \in Bytes(4 * FP_BYTES) : vk = [Z EXCEPT ![g] = b]
  <2>1. PICK g \in G2Fields, b \in Bytes(4 * FP_BYTES) : vk = [Z EXCEPT ![g] = b] BY <1>6
  <2>2. b \in Seq(Octet) BY <1>2, <2>1, BytesAreSeq
  <2>3. vk.alpha = Z.alpha /\ vk.ic = Z.ic /\ \A f \in G2Fields : vk[f] = IF f = g THEN b ELSE Z[f]
    BY <1>3, <2>1 DEF G2Fields
  <2> QED BY <1>1, <2>2, <2>3 DEF Key
<1>7. ASSUME NEW points \in Seq(Seq(Octet)), vk = [Z EXCEPT !.ic = points] PROVE Key(vk)
  <2>1. vk.alpha = Z.alpha /\ vk.ic = points /\ \A f \in G2Fields : vk[f] = Z[f]
    BY <1>3, <1>7 DEF G2Fields
  <2> QED BY <1>1, <1>7, <2>1 DEF Key
<1>8. CASE \E points \in SeqOf(Bytes(2 * FP_BYTES), IC_LENGTH) : vk = [Z EXCEPT !.ic = points]
  <2>1. PICK points \in SeqOf(Bytes(2 * FP_BYTES), IC_LENGTH) : vk = [Z EXCEPT !.ic = points] BY <1>8
  <2>2. PICK m \in 0 .. IC_LENGTH : points \in [1 .. m -> Bytes(2 * FP_BYTES)] BY <2>1 DEF SeqOf
  <2>3. points \in [1 .. m -> Seq(Octet)] BY <1>2, <2>2, BytesAreSeq
  <2>4. m \in Nat BY WireConstants
  <2>5. points \in Seq(Seq(Octet)) BY <2>3, <2>4, IsSeq
  <2> QED BY <1>7, <2>1, <2>5
<1>9. CASE vk = [Z EXCEPT !.ic = Append(Z.ic, packG1(<<0, 0>>))] BY <1>4, <1>7, <1>9
<1>10. \/ vk \in { [Z EXCEPT !.alpha = b] : b \in Bytes(2 * FP_BYTES) \cup Bytes(FP_BYTES) }
       \/ vk \in UNION { { [Z EXCEPT ![f] = b] : b \in Bytes(4 * FP_BYTES) } : f \in G2Fields }
       \/ vk \in { [Z EXCEPT !.ic = points] : points \in SeqOf(Bytes(2 * FP_BYTES), IC_LENGTH) }
       \/ vk \in { [Z EXCEPT !.ic = Append(Z.ic, packG1(<<0, 0>>))] }
  BY Zenon DEF BroughtKey, Z
<1>11. vk \in UNION { { [Z EXCEPT ![f] = b] : b \in Bytes(4 * FP_BYTES) } : f \in G2Fields }
         => \E g \in G2Fields : \E b \in Bytes(4 * FP_BYTES) : vk = [Z EXCEPT ![g] = b]
  OBVIOUS
<1> QED BY <1>5, <1>6, <1>8, <1>9, <1>10, <1>11

\* A key that passes is read back point by point.
LEMMA KeyPasses ==
  ASSUME NEW vk, Key(vk), validateContractVerificationKey(vk)
  PROVE  /\ \A b \in Range(vk.ic) \cup {vk.alpha} : hostG1(b) \in G1 /\ encodeG1(hostG1(b)) = b
         /\ \A f \in G2Fields : hostG2(vk[f]) \in G2 /\ encodeG2(hostG2(vk[f])) = vk[f]
<1>1. /\ Valid(vk.alpha, 2)
      /\ \A f \in G2Fields : Valid(vk[f], 4)
      /\ \A i \in DOMAIN vk.ic : Valid(vk.ic[i], 2)
  BY DEF validateContractVerificationKey
<1>2. ASSUME NEW b \in Range(vk.ic) \cup {vk.alpha} PROVE b \in Seq(Octet) /\ Valid(b, 2)
  <2>1. CASE b \in Range(vk.ic)
    <3>1. PICK i \in DOMAIN vk.ic : b = vk.ic[i] BY <2>1 DEF Range
    <3>2. vk.ic[i] \in Seq(Octet) BY DEF Key
    <3> QED BY <1>1, <3>1, <3>2
  <2>2. CASE b = vk.alpha BY <1>1, <2>2 DEF Key
  <2> QED BY <2>1, <2>2
<1>3. \A f \in G2Fields : vk[f] \in Seq(Octet) /\ Valid(vk[f], 4) BY <1>1 DEF Key
<1> QED BY <1>2, <1>3, PassedG1, PassedG2

\* Equal tags are of the same circle and round.
LEMMA TagsDiffer ==
  ASSUME NEW c \in Nat, NEW r \in Nat, NEW d \in Nat, NEW s \in Nat, Fits(c, r), Fits(d, s),
         roundTag(c, r) = roundTag(d, s)
  PROVE  c = d /\ r = s
<1> DEFINE a1 == BytesOf(c, CircleBytes)
           a2 == BytesOf(r, RoundBytes)
           b1 == BytesOf(d, CircleBytes)
           b2 == BytesOf(s, RoundBytes)
<1>1. CircleBytes \in Nat /\ RoundBytes \in Nat /\ Byte \in Nat \ {0} BY WireConstants
<1>2. /\ a1 \in [1 .. CircleBytes -> Octet] /\ a1 \in Seq(Octet) /\ Len(a1) = CircleBytes
      /\ b1 \in [1 .. CircleBytes -> Octet] /\ b1 \in Seq(Octet) /\ Len(b1) = CircleBytes
      /\ a2 \in [1 .. RoundBytes -> Octet] /\ a2 \in Seq(Octet) /\ Len(a2) = RoundBytes
      /\ b2 \in [1 .. RoundBytes -> Octet] /\ b2 \in Seq(Octet) /\ Len(b2) = RoundBytes
  BY <1>1, BytesOfType
<1>3. a1 \o a2 = b1 \o b2 BY DEF roundTag
<1>4. /\ NumberOf(Byte, a1) = c /\ NumberOf(Byte, a2) = r
      /\ NumberOf(Byte, b1) = d /\ NumberOf(Byte, b2) = s
  BY <1>1, DigitsReadBack DEF BytesOf, Fits
<1> HIDE DEF a1, a2, b1, b2
<1>5. /\ \A i \in 1 .. CircleBytes : (a1 \o a2)[i] = a1[i] /\ (b1 \o b2)[i] = b1[i]
      /\ \A i \in 1 .. RoundBytes : /\ (a1 \o a2)[CircleBytes + i] = a2[i]
                                    /\ (b1 \o b2)[CircleBytes + i] = b2[i]
  <2>1. Parts(Octet, a1, a2, CircleBytes, RoundBytes) BY <1>2 DEF Parts
  <2>2. Parts(Octet, b1, b2, CircleBytes, RoundBytes) BY <1>2 DEF Parts
  <2>3. Whole(Octet, a1 \o a2, a1, a2, CircleBytes, RoundBytes) BY <2>1, JoinedSeqs, Zenon
  <2>4. Whole(Octet, b1 \o b2, b1, b2, CircleBytes, RoundBytes) BY <2>2, JoinedSeqs, Zenon
  <2> QED BY <2>3, <2>4 DEF Whole
<1>6. a1 = b1 /\ a2 = b2 BY <1>2, <1>3, <1>5, SeqEqual
<1> QED BY <1>4, <1>6

----------------------------------------------------------------------------
(* The invariant.                                                           *)

\* What was sent is what the points are packed into; a key on its way is of bytes.
WireInv ==
  /\ sent # <<>> => sent[1] \in Seq(Octet) /\ sent[2] \in Seq(Octet) /\ sent = <<sent[1], sent[2]>>
  /\ pi # <<>> => /\ pi \in G1 \X G2 /\ sent # <<>>
                  /\ sent = <<encodeG1(pi[1]), encodeG2(pi[2])>>
  /\ received # <<>> => /\ sent # <<>> /\ Valid(sent[1], 2) /\ Valid(sent[2], 4)
                        /\ received = <<hostG1(sent[1]), hostG2(sent[2])>>
  /\ \A vk \in key.given : /\ Key(vk)
                           /\ key.sent => Len(vk.ic) = IC_LENGTH /\ validateContractVerificationKey(vk)
  /\ \A t \in tags : /\ t = <<t[1], t[2]>> /\ t[1] \in Nat /\ t[2] \in Nat
                     /\ Fits(t[1], t[2])

\* In such a state the bytes are read back.
LEMMA WireImplies == WireInv => BytesAreReadBack
<1> SUFFICES ASSUME WireInv PROVE BytesAreReadBack OBVIOUS
<1>1. ASSUME pi # <<>> PROVE Valid(sent[1], 2) /\ Valid(sent[2], 4) /\ (received # <<>> => received = pi)
  <2>1. pi \in G1 \X G2 /\ sent = <<encodeG1(pi[1]), encodeG2(pi[2])>> BY <1>1 DEF WireInv
  <2>2. pi[1] \in G1 /\ pi[2] \in G2 /\ pi = <<pi[1], pi[2]>> BY <2>1
  <2>3. sent[1] = encodeG1(pi[1]) /\ sent[2] = encodeG2(pi[2]) BY <2>1
  <2>4. /\ Valid(sent[1], 2) /\ hostG1(sent[1]) = pi[1]
        /\ Valid(sent[2], 4) /\ hostG2(sent[2]) = pi[2]
    BY <2>2, <2>3, PackedG1, PackedG2
  <2>5. received # <<>> => received = <<hostG1(sent[1]), hostG2(sent[2])>> BY DEF WireInv
  <2>6. received # <<>> => received = pi BY <2>2, <2>4, <2>5
  <2> QED BY <2>4, <2>6
<1>2. ASSUME received # <<>>
      PROVE  /\ received \in G1 \X G2
             /\ <<encodeG1(received[1]), encodeG2(received[2])>> = sent
  <2>1. /\ sent[1] \in Seq(Octet) /\ sent[2] \in Seq(Octet) /\ sent = <<sent[1], sent[2]>>
        /\ Valid(sent[1], 2) /\ Valid(sent[2], 4)
        /\ received = <<hostG1(sent[1]), hostG2(sent[2])>>
    BY <1>2 DEF WireInv
  <2>2. /\ hostG1(sent[1]) \in G1 /\ encodeG1(hostG1(sent[1])) = sent[1]
        /\ hostG2(sent[2]) \in G2 /\ encodeG2(hostG2(sent[2])) = sent[2]
    BY <2>1, PassedG1, PassedG2
  <2>3. received[1] = hostG1(sent[1]) /\ received[2] = hostG2(sent[2]) BY <2>1
  <2>4. received \in G1 \X G2 BY <2>1, <2>2
  <2> QED BY <2>1, <2>2, <2>3, <2>4
<1>3. \A vk \in key.given : key.sent =>
        /\ Len(vk.ic) = IC_LENGTH
        /\ \A b \in Range(vk.ic) \cup {vk.alpha} : hostG1(b) \in G1 /\ encodeG1(hostG1(b)) = b
        /\ \A f \in G2Fields : hostG2(vk[f]) \in G2 /\ encodeG2(hostG2(vk[f])) = vk[f]
  BY KeyPasses DEF WireInv
<1>4. ASSUME NEW t \in tags, NEW circleId \in 0 .. Power(Byte, CircleBytes) - 1,
             NEW round \in 0 .. Power(Byte, RoundBytes) - 1,
             roundTag(circleId, round) = roundTag(t[1], t[2])
      PROVE  t = <<circleId, round>>
  <2>1. t = <<t[1], t[2]>> /\ t[1] \in Nat /\ t[2] \in Nat /\ Fits(t[1], t[2]) BY DEF WireInv
  <2>2. Power(Byte, CircleBytes) \in Nat /\ Power(Byte, RoundBytes) \in Nat
    BY WireConstants, PowerSteps
  <2>3. circleId \in Nat /\ round \in Nat /\ Fits(circleId, round) BY <2>2 DEF Fits
  <2>4. circleId = t[1] /\ round = t[2] BY <1>4, <2>1, <2>3, TagsDiffer
  <2> QED BY <2>1, <2>4
<1> QED BY <1>1, <1>2, <1>3, <1>4 DEF BytesAreReadBack

\* It holds at first.
LEMMA WireStart == WireInit => WireInv
BY DEF WireInit, WireInv

\* Every step keeps it.
LEMMA WireIsKept == WireInv /\ [WireNext]_wireVars => WireInv'
<1> SUFFICES ASSUME WireInv, [WireNext]_wireVars PROVE WireInv' OBVIOUS
<1>1. ASSUME NEW a \in G1, NEW b \in G2, GenerateProof(a, b) PROVE WireInv'
  <2>1. /\ sent = <<>> /\ tags = {} /\ key.given = {}
        /\ pi' = <<a, b>> /\ sent' = <<encodeG1(a), encodeG2(b)>>
        /\ key' = key /\ received' = received /\ tags' = tags
    BY <1>1 DEF GenerateProof, NothingDone
  <2>2. encodeG1(a) \in Seq(Octet) /\ encodeG2(b) \in Seq(Octet) BY PackedG1, PackedG2
  <2>3. received' = <<>> BY <2>1 DEF WireInv
  <2>4. sent'[1] = encodeG1(a) /\ sent'[2] = encodeG2(b) /\ pi'[1] = a /\ pi'[2] = b
        /\ sent' # <<>> /\ pi' \in G1 \X G2
    BY <2>1
  <2> QED BY <2>1, <2>2, <2>3, <2>4 DEF WireInv
<1>2. ASSUME NEW a \in Bytes(2 * FP_BYTES), NEW b \in Bytes(4 * FP_BYTES), BringBytes(a, b)
      PROVE  WireInv'
  <2>1. /\ sent = <<>> /\ tags = {} /\ key.given = {} /\ pi' = pi /\ sent' = <<a, b>>
        /\ key' = key /\ received' = received /\ tags' = tags
    BY <1>2 DEF BringBytes, NothingDone
  <2>2. a \in Seq(Octet) /\ b \in Seq(Octet)
    <3>1. 2 * FP_BYTES \in Nat /\ 4 * FP_BYTES \in Nat BY WireAssumption
    <3> QED BY <3>1, BytesAreSeq
  <2>3. received' = <<>> /\ pi' = <<>> BY <2>1 DEF WireInv
  <2> QED BY <2>1, <2>2, <2>3 DEF WireInv
<1>3. CASE Claimed
  <2>1. /\ sent # <<>> /\ Valid(sent[1], 2) /\ Valid(sent[2], 4)
        /\ received' = <<hostG1(sent[1]), hostG2(sent[2])>>
        /\ pi' = pi /\ sent' = sent /\ key' = key /\ tags' = tags
    BY <1>3 DEF Claimed
  <2> QED BY <2>1 DEF WireInv
<1>4. ASSUME NEW point \in G2, ConvertKey(point) PROVE WireInv'
  BY <1>4 DEF ConvertKey, WireInv
<1>5. ASSUME NEW vk \in BroughtKey, BringKey(vk) PROVE WireInv'
  <2> DEFINE passed == Len(vk.ic) = IC_LENGTH /\ validateContractVerificationKey(vk)
  <2>1. /\ key' = [given |-> {vk}, sent |-> passed]
        /\ pi' = pi /\ sent' = sent /\ received' = received /\ tags' = tags
    BY <1>5 DEF BringKey
  <2>2. Key(vk) BY BroughtKeyType
  <2> HIDE DEF passed
  <2>3. key'.given = {vk} /\ key'.sent = passed BY <2>1
  <2>4. \A k \in key'.given : Key(k) /\ (key'.sent => Len(k.ic) = IC_LENGTH /\ validateContractVerificationKey(k))
    BY <2>2, <2>3, Zenon DEF passed
  <2> QED BY <2>1, <2>4 DEF WireInv
<1>6. ASSUME NEW circleId \in 0 .. Power(Byte, CircleBytes + 1),
             NEW round \in 0 .. Power(Byte, RoundBytes + 1), ComputeTag(circleId, round)
      PROVE  WireInv'
  <2>1. /\ tags' = {<<circleId, round>>} /\ Fits(circleId, round)
        /\ pi' = pi /\ sent' = sent /\ received' = received /\ key' = key
    BY <1>6 DEF ComputeTag
  <2>2. circleId \in Nat /\ round \in Nat OBVIOUS
  <2> QED BY <2>1, <2>2 DEF WireInv
<1>7. CASE UNCHANGED wireVars BY <1>7 DEF wireVars, WireInv
<1> QED BY <1>1, <1>2, <1>3, <1>4, <1>5, <1>6, <1>7 DEF WireNext

\* The host reads what was proved, and only what has one encoding is sent, for every
\* width of a byte and of the fields and every modulus that fits.
THEOREM BytesAreReadBackHolds == WireSpec => []BytesAreReadBack
<1>1. WireSpec => []WireInv BY WireStart, WireIsKept, PTL DEF WireSpec
<1> QED BY <1>1, WireImplies, PTL

----------------------------------------------------------------------------
(* The tree of members.                                                     *)

\* Each level doubles the capacity.
LEMMA CapacitySteps ==
  /\ capacity(0) = 1
  /\ \A n \in Nat : capacity(n) \in Nat \ {0} /\ capacity(n + 1) = 2 * capacity(n)
<1>1. 2 \in Nat \ {0} /\ 2 \in Nat OBVIOUS
<1>2. ASSUME NEW n \in Nat PROVE capacity(n) \in Nat \ {0} /\ capacity(n + 1) = 2 * capacity(n)
  <2>1. Power(2, n) \in Nat \ {0} /\ Power(2, n + 1) = Power(2, n) * 2
    BY <1>1, PowerSteps, PowerPositive
  <2> QED BY <2>1 DEF capacity
<1>3. capacity(0) = 1 BY <1>1, PowerSteps DEF capacity
<1> QED BY <1>2, <1>3

\* y is the tree over the padded leaves, layer by layer from the bottom.
IsTree(y, ls, n) ==
  /\ y[1] = Pad(ls, n)
  /\ \A l \in 1 .. n :
       y[l + 1] = [ i \in 1 .. capacity(n - l) |-> poseidon(y[l][2 * i - 1], y[l][2 * i]) ]

\* The layers that buildMerkleTree makes are a tree.
LEMMA LayersAreTree ==
  ASSUME NEW ls, NEW n \in Nat
  PROVE  IsTree(Layers(ls, n), ls, n)
<1> DEFINE Above(c, l) == [ i \in 1 .. capacity(n - l) |-> poseidon(c[2 * i - 1], c[2 * i]) ]
           G(s, k) == [ l \in 0 .. k |-> IF l = 0 THEN Pad(ls, n) ELSE Above(s[l - 1], l) ]
           S == { k \in Nat : \E s : s = G(s, k) }
           p == CHOOSE s : s = G(s, n)
           y == Layers(ls, n)
<1>1. y = [ l \in 1 .. n + 1 |-> p[l - 1] ] BY DEF Layers
<1> HIDE DEF Above
<1>2. 0 \in S
  <2> DEFINE s == [ l \in 0 .. 0 |-> Pad(ls, n) ]
  <2>1. s = G(s, 0) OBVIOUS
  <2> HIDE DEF s, G
  <2> QED BY <2>1
<1>3. ASSUME NEW k \in S PROVE k + 1 \in S
  <2>1. PICK s : s = G(s, k) OBVIOUS
  <2> DEFINE t == [ l \in 0 .. k + 1 |-> IF l = k + 1 THEN Above(s[k], k + 1) ELSE s[l] ]
  <2>2. ASSUME NEW l \in 0 .. k + 1 PROVE t[l] = G(t, k + 1)[l]
    <3>1. CASE l = 0 BY <2>1, <3>1
    <3>2. CASE l = k + 1
      <4>1. l # 0 /\ l - 1 = k /\ k \in 0 .. k + 1 /\ k # k + 1 BY <3>2
      <4>2. t[k] = s[k] BY <4>1
      <4> QED BY <3>2, <4>1, <4>2
    <3>3. CASE l # 0 /\ l # k + 1
      <4>1. l \in 0 .. k /\ l - 1 \in 0 .. k + 1 /\ l - 1 # k + 1 BY <3>3
      <4>2. t[l] = s[l] /\ t[l - 1] = s[l - 1] BY <3>3, <4>1
      <4>3. s[l] = Above(s[l - 1], l) BY <2>1, <3>3, <4>1
      <4> QED BY <3>3, <4>2, <4>3
    <3> QED BY <3>1, <3>2, <3>3
  <2>3. t = G(t, k + 1)
    <3>1. t = [ l \in 0 .. k + 1 |-> t[l] ] OBVIOUS
    <3>2. G(t, k + 1) = [ l \in 0 .. k + 1 |-> G(t, k + 1)[l] ] OBVIOUS
    <3> HIDE DEF t, G
    <3> QED BY <2>2, <3>1, <3>2
  <2>4. k + 1 \in Nat OBVIOUS
  <2> HIDE DEF t, G
  <2> QED BY <2>3, <2>4, Zenon
<1>4. S \in SUBSET Nat OBVIOUS
<1>5. p = G(p, n)
  <2> HIDE DEF S, G, p
  <2>1. S = Nat BY <1>2, <1>3, <1>4, SetInduction
  <2>2. \E s : s = G(s, n) BY <2>1 DEF S
  <2> QED BY <2>2 DEF p
<1> HIDE DEF p, y
<1>6. p[0] = Pad(ls, n) /\ \A l \in 1 .. n : p[l] = Above(p[l - 1], l)
  BY <1>5
<1>7. y[1] = Pad(ls, n) BY <1>1, <1>6
<1>8. ASSUME NEW l \in 1 .. n PROVE y[l + 1] = Above(y[l], l)
  <2>1. l \in 1 .. n + 1 /\ l + 1 \in 1 .. n + 1 /\ (l + 1) - 1 = l OBVIOUS
  <2>2. y[l + 1] = p[l] /\ y[l] = p[l - 1] BY <1>1, <2>1
  <2> QED BY <1>6, <2>2
<1> QED BY <1>7, <1>8 DEF IsTree, y, Above

\* H is what CheckPath hashes on the way up.
Hashed(H, leaf, p, m) ==
  /\ H[0] = leaf
  /\ \A l \in 1 .. m : H[l] = IF p.pathIndices[l] = 1 THEN poseidon(p.pathElements[l], H[l - 1])
                                                     ELSE poseidon(H[l - 1], p.pathElements[l])

\* The check of a path hashes the leaf with one sibling after another.
LEMMA PathIsHashed ==
  ASSUME NEW leaf, NEW p, NEW m \in Nat, Len(p.pathElements) = m
  PROVE  \E H : Hashed(H, leaf, p, m) /\ (CheckPath(leaf, p) <=> H[m] = p.root)
<1> DEFINE Step(h, l) == IF p.pathIndices[l] = 1 THEN poseidon(p.pathElements[l], h)
                                                 ELSE poseidon(h, p.pathElements[l])
           G(s, k) == [ l \in 0 .. k |-> IF l = 0 THEN leaf ELSE Step(s[l - 1], l) ]
           S == { k \in Nat : \E s : s = G(s, k) }
           H == CHOOSE s : s = G(s, m)
<1>1. CheckPath(leaf, p) <=> H[m] = p.root
  <2>1. CheckPath(leaf, p) <=>
          LET current[l \in 0 .. m] ==
                IF l = 0 THEN leaf
                ELSE IF p.pathIndices[l] = 1 THEN poseidon(p.pathElements[l], current[l - 1])
                                             ELSE poseidon(current[l - 1], p.pathElements[l])
          IN  current[m] = p.root
    BY DEF CheckPath
  <2> QED BY <2>1
<1> HIDE DEF Step
<1>2. 0 \in S
  <2> DEFINE s == [ l \in 0 .. 0 |-> leaf ]
  <2>1. s = G(s, 0) OBVIOUS
  <2> HIDE DEF s, G
  <2> QED BY <2>1
<1>3. ASSUME NEW k \in S PROVE k + 1 \in S
  <2>1. PICK s : s = G(s, k) OBVIOUS
  <2> DEFINE t == [ l \in 0 .. k + 1 |-> IF l = k + 1 THEN Step(s[k], k + 1) ELSE s[l] ]
  <2>2. ASSUME NEW l \in 0 .. k + 1 PROVE t[l] = G(t, k + 1)[l]
    <3>1. CASE l = 0 BY <2>1, <3>1
    <3>2. CASE l = k + 1
      <4>1. l # 0 /\ l - 1 = k /\ k \in 0 .. k + 1 /\ k # k + 1 BY <3>2
      <4>2. t[k] = s[k] BY <4>1
      <4> QED BY <3>2, <4>1, <4>2
    <3>3. CASE l # 0 /\ l # k + 1
      <4>1. l \in 0 .. k /\ l - 1 \in 0 .. k + 1 /\ l - 1 # k + 1 BY <3>3
      <4>2. t[l] = s[l] /\ t[l - 1] = s[l - 1] BY <3>3, <4>1
      <4>3. s[l] = Step(s[l - 1], l) BY <2>1, <3>3, <4>1
      <4> QED BY <3>3, <4>2, <4>3
    <3> QED BY <3>1, <3>2, <3>3
  <2>3. t = G(t, k + 1)
    <3>1. t = [ l \in 0 .. k + 1 |-> t[l] ] OBVIOUS
    <3>2. G(t, k + 1) = [ l \in 0 .. k + 1 |-> G(t, k + 1)[l] ] OBVIOUS
    <3> HIDE DEF t, G
    <3> QED BY <2>2, <3>1, <3>2
  <2>4. k + 1 \in Nat OBVIOUS
  <2> HIDE DEF t, G
  <2> QED BY <2>3, <2>4, Zenon
<1>4. S \in SUBSET Nat OBVIOUS
<1>5. H = G(H, m)
  <2> HIDE DEF S, G, H
  <2>1. S = Nat BY <1>2, <1>3, <1>4, SetInduction
  <2>2. \E s : s = G(s, m) BY <2>1 DEF S
  <2> QED BY <2>2 DEF H
<1> HIDE DEF H
<1>6. H[0] = leaf /\ \A l \in 1 .. m : H[l] = Step(H[l - 1], l) BY <1>5
<1>7. Hashed(H, leaf, p, m) BY <1>6 DEF Hashed, Step
<1> QED BY <1>1, <1>7

\* The node above a place, l layers up, and its place among the pairs of that layer.
LEMMA AboveType ==
  ASSUME NEW n \in Nat, NEW index \in 0 .. capacity(n) - 1, NEW l \in 0 .. n
  PROVE  above(index, l) \in 0 .. capacity(n - l) - 1
<1> DEFINE S == { k \in 0 .. n : above(index, k) \in 0 .. capacity(n - k) - 1 }
<1>0. index \in Nat
  <2>1. capacity(n) \in Nat BY CapacitySteps
  <2> QED BY <2>1
<1>1. 2 \in Nat \ {0} OBVIOUS
<1>2. above(index, 0) = index /\ \A k \in Nat : above(index, k) \in Nat /\ above(index, k + 1) = above(index, k) \div 2
  BY <1>0, <1>1, ShiftedSteps DEF above
<1>3. 0 \in S
  <2>1. n - 0 = n OBVIOUS
  <2> QED BY <1>2, <2>1
<1>4. ASSUME NEW k \in 0 .. n - 1, k \in S PROVE k + 1 \in S
  <2> DEFINE a == above(index, k)
             j == n - (k + 1)
  <2>1. j \in Nat /\ n - k = j + 1 /\ k + 1 \in 0 .. n /\ k \in Nat OBVIOUS
  <2> HIDE DEF j
  <2>2. capacity(j) \in Nat /\ capacity(n - k) = 2 * capacity(j) BY <2>1, CapacitySteps
  <2>3. a \in 0 .. capacity(n - k) - 1 BY <1>4
  <2>4. above(index, k + 1) = a \div 2 BY <1>2, <2>1
  <2> HIDE DEF a
  <2>5. a \in Nat /\ a < 2 * capacity(j) BY <2>2, <2>3
  <2>6. a \div 2 \in Nat /\ a \div 2 < capacity(j) BY <2>2, <2>5
  <2>7. above(index, k + 1) \in 0 .. capacity(j) - 1 BY <2>2, <2>4, <2>6
  <2> QED BY <2>1, <2>7 DEF j
<1> HIDE DEF S
<1>5. \A k \in 0 .. n - 1 : k \in S => k + 1 \in S BY <1>4
<1>6. l \in S BY <1>3, <1>5, UpTo
<1> QED BY <1>6 DEF S

\* Hashing up along the path of a place meets the nodes of the tree exactly if it
\* starts from the leaf of that place.
LEMMA PathMeetsTree ==
  ASSUME NEW n \in Nat, NEW ls, NEW y, IsTree(y, ls, n), NEW index \in 0 .. capacity(n) - 1,
         NEW p, NEW leaf, NEW H, Hashed(H, leaf, p, n),
         \A l \in 1 .. n : /\ p.pathElements[l] = y[l][Sibling(above(index, l - 1)) + 1]
                           /\ p.pathIndices[l] = above(index, l - 1) % 2
  PROVE  H[n] = y[n + 1][1] <=> leaf = y[1][index + 1]
<1> DEFINE a(k) == above(index, k)
           S == { k \in 0 .. n : H[k] = y[k + 1][a(k) + 1] <=> leaf = y[1][index + 1] }
<1>0. index \in Nat
  <2>1. capacity(n) \in Nat BY CapacitySteps
  <2> QED BY <2>1
<1>1. a(0) = index /\ \A k \in Nat : a(k) \in Nat /\ a(k + 1) = a(k) \div 2
  <2>1. 2 \in Nat \ {0} OBVIOUS
  <2> QED BY <1>0, <2>1, ShiftedSteps DEF above
<1>2. \A k \in 0 .. n : a(k) \in 0 .. capacity(n - k) - 1 BY AboveType
<1>3. \A l \in 1 .. n : /\ p.pathElements[l] = y[l][Sibling(a(l - 1)) + 1]
                        /\ p.pathIndices[l] = a(l - 1) % 2
  OBVIOUS
<1> HIDE DEF a
<1>4. 0 \in S
  <2>1. H[0] = leaf /\ 0 + 1 = 1 BY DEF Hashed
  <2> QED BY <1>1, <2>1
<1>5. ASSUME NEW k \in 0 .. n - 1, k \in S PROVE k + 1 \in S
  <2> DEFINE b == a(k)
             c == a(k + 1)
             e == y[k + 1][Sibling(b) + 1]
             j == n - (k + 1)
             h == H[k]
  <2>1. /\ k + 1 \in 1 .. n /\ k + 1 \in 0 .. n /\ (k + 1) - 1 = k /\ k \in Nat /\ j \in Nat
        /\ (k + 1) + 1 = k + 2
    OBVIOUS
  <2>2. b \in Nat /\ c = b \div 2 BY <1>1, <2>1
  <2>3. c \in 0 .. capacity(j) - 1 BY <1>2, <2>1
  <2>4. capacity(j) \in Nat BY <2>1, CapacitySteps
  <2>5. H[k + 1] = IF b % 2 = 1 THEN poseidon(e, h) ELSE poseidon(h, e)
    <3>1. H[k + 1] = IF p.pathIndices[k + 1] = 1 THEN poseidon(p.pathElements[k + 1], H[(k + 1) - 1])
                                                 ELSE poseidon(H[(k + 1) - 1], p.pathElements[k + 1])
      BY <2>1 DEF Hashed
    <3>2. p.pathElements[k + 1] = e /\ p.pathIndices[k + 1] = b % 2 BY <1>3, <2>1
    <3> QED BY <2>1, <3>1, <3>2
  <2>6. y[k + 2] = [ i \in 1 .. capacity(j) |-> poseidon(y[k + 1][2 * i - 1], y[k + 1][2 * i]) ]
    BY <2>1 DEF IsTree
  <2>7. y[k + 2][c + 1] = poseidon(y[k + 1][2 * (c + 1) - 1], y[k + 1][2 * (c + 1)])
    <3>1. c + 1 \in 1 .. capacity(j) BY <2>3, <2>4
    <3> QED BY <2>6, <3>1
  <2>8. (H[k + 1] = y[k + 2][c + 1]) <=> (h = y[k + 1][b + 1])
    <3>1. CASE b % 2 = 1
      <4>1. b = 2 * c + 1 /\ c \in Nat BY <2>2, <3>1
      <4>2. Sibling(b) + 1 = 2 * (c + 1) - 1 /\ b + 1 = 2 * (c + 1) BY <3>1, <4>1 DEF Sibling
      <4>3. H[k + 1] = <<e, h>> BY <2>5, <3>1 DEF poseidon
      <4>4. y[k + 2][c + 1] = <<e, y[k + 1][b + 1]>> BY <2>7, <4>2 DEF poseidon
      <4> QED BY <4>3, <4>4
    <3>2. CASE b % 2 # 1
      <4>1. b = 2 * c /\ c \in Nat BY <2>2, <3>2
      <4>2. Sibling(b) + 1 = 2 * (c + 1) /\ b + 1 = 2 * (c + 1) - 1 BY <3>2, <4>1 DEF Sibling
      <4>3. H[k + 1] = <<h, e>> BY <2>5, <3>2 DEF poseidon
      <4>4. y[k + 2][c + 1] = <<y[k + 1][b + 1], e>> BY <2>7, <4>2 DEF poseidon
      <4> QED BY <4>3, <4>4
    <3> QED BY <3>1, <3>2
  <2>9. h = y[k + 1][b + 1] <=> leaf = y[1][index + 1] BY <1>5
  <2>10. H[k + 1] = y[(k + 1) + 1][a(k + 1) + 1] <=> leaf = y[1][index + 1]
    BY <2>1, <2>8, <2>9
  <2> QED BY <2>1, <2>10
<1> HIDE DEF S
<1>6. \A k \in 0 .. n - 1 : k \in S => k + 1 \in S BY <1>5
<1>7. n \in 0 .. n OBVIOUS
<1>8. n \in S BY <1>4, <1>6, <1>7, UpTo
<1>9. a(n) + 1 = 1
  <2>1. n - n = 0 /\ capacity(0) = 1 BY CapacitySteps
  <2> QED BY <1>2, <1>7, <2>1
<1>10. H[n] = y[n + 1][a(n) + 1] <=> leaf = y[1][index + 1] BY <1>8 DEF S
<1> QED BY <1>9, <1>10

\* Trees of one depth with the same node at the top have the same leaves.
LEMMA RootCommits ==
  ASSUME NEW n \in Nat, NEW ls, NEW ms, NEW y, NEW z, IsTree(y, ls, n), IsTree(z, ms, n),
         y[n + 1][1] = z[n + 1][1], NEW i \in 1 .. capacity(n)
  PROVE  y[1][i] = z[1][i]
<1> DEFINE Same(l) == \A j \in 1 .. capacity(n - l) : y[l + 1][j] = z[l + 1][j]
           S == { k \in 0 .. n : Same(n - k) }
<1>1. 0 \in S
  <2>1. n - 0 = n /\ n - n = 0 /\ 1 .. 1 = {1} OBVIOUS
  <2>2. Same(n) BY <2>1, CapacitySteps
  <2> QED BY <2>1, <2>2
<1>2. ASSUME NEW k \in 0 .. n - 1, k \in S PROVE k + 1 \in S
  <2> DEFINE l == n - k
             m == n - (k + 1)
  <2>1. l \in 1 .. n /\ l = m + 1 /\ m \in Nat /\ n - l = k /\ n - m = k + 1 /\ k \in Nat
        /\ k + 1 \in 0 .. n
    OBVIOUS
  <2>2. \A j \in 1 .. capacity(k) : y[l + 1][j] = z[l + 1][j] BY <1>2, <2>1
  <2> HIDE DEF l, m
  <2>3. /\ y[l + 1] = [ j \in 1 .. capacity(k) |-> poseidon(y[l][2 * j - 1], y[l][2 * j]) ]
        /\ z[l + 1] = [ j \in 1 .. capacity(k) |-> poseidon(z[l][2 * j - 1], z[l][2 * j]) ]
    BY <2>1 DEF IsTree
  <2>4. capacity(k) \in Nat /\ capacity(k + 1) = 2 * capacity(k) BY <2>1, CapacitySteps
  <2>5. \A j \in 1 .. capacity(k) : y[l][2 * j - 1] = z[l][2 * j - 1] /\ y[l][2 * j] = z[l][2 * j]
    BY <2>2, <2>3 DEF poseidon
  <2>6. ASSUME NEW j \in 1 .. capacity(k + 1) PROVE y[l][j] = z[l][j]
    <3> DEFINE h == (j + 1) \div 2
    <3>1. h \in 1 .. capacity(k) /\ (j = 2 * h - 1 \/ j = 2 * h) BY <2>4
    <3> HIDE DEF h
    <3> QED BY <2>5, <3>1
  <2>7. Same(m) BY <2>1, <2>6
  <2> QED BY <2>1, <2>7 DEF m
<1> HIDE DEF S
<1>3. \A k \in 0 .. n - 1 : k \in S => k + 1 \in S BY <1>2
<1>4. n \in 0 .. n OBVIOUS
<1>5. n \in S BY <1>1, <1>3, <1>4, UpTo
<1>6. n - n = 0 /\ n - 0 = n /\ 0 + 1 = 1 OBVIOUS
<1> QED BY <1>5, <1>6 DEF S

----------------------------------------------------------------------------
(* Members.                                                                 *)

\* The bottom layer is the leaves, padded with zeros.
LEMMA BottomIsPadded ==
  ASSUME NEW ls, NEW n \in Nat, NEW y, IsTree(y, ls, n), NEW i \in 1 .. capacity(n)
  PROVE  y[1][i] = <<Padded(ls, i)>>
BY DEF IsTree, Pad, node, ZERO_VALUE, Padded

\* A sequence on 1 .. n has n elements.
LEMMA LenIs ==
  ASSUME NEW n \in Nat, NEW f, f = [ i \in 1 .. n |-> f[i] ]
  PROVE  Len(f) = n
<1> DEFINE V == { f[i] : i \in 1 .. n }
<1>1. f \in [1 .. n -> V] OBVIOUS
<1> HIDE DEF V
<1> QED BY <1>1, IsSeq

\* The path that proof gives for a place.
LEMMA ProofFits ==
  ASSUME NEW index, levels \in Nat
  PROVE  /\ proof(index).root = layers[levels + 1][1]
         /\ Len(proof(index).pathElements) = levels /\ Len(proof(index).pathIndices) = levels
         /\ DOMAIN proof(index).pathIndices = 1 .. levels
         /\ \A l \in 1 .. levels :
              /\ proof(index).pathElements[l] = layers[l][Sibling(above(index, l - 1)) + 1]
              /\ proof(index).pathIndices[l] = above(index, l - 1) % 2
<1> DEFINE e == [ l \in 1 .. levels |-> layers[l][Sibling(above(index, l - 1)) + 1] ]
           d == [ l \in 1 .. levels |-> above(index, l - 1) % 2 ]
<1>1. proof(index).root = layers[levels + 1][1] /\ proof(index).pathElements = e /\ proof(index).pathIndices = d
  BY DEF proof
<1>2. Len(e) = levels
  <2>1. e = [ l \in 1 .. levels |-> e[l] ] OBVIOUS
  <2> HIDE DEF e
  <2> QED BY <2>1, LenIs
<1>3. Len(d) = levels
  <2>1. d = [ l \in 1 .. levels |-> d[l] ] OBVIOUS
  <2> HIDE DEF d
  <2> QED BY <2>1, LenIs
<1>4. DOMAIN d = 1 .. levels OBVIOUS
<1>5. \A l \in 1 .. levels : e[l] = layers[l][Sibling(above(index, l - 1)) + 1] /\ d[l] = above(index, l - 1) % 2
  OBVIOUS
<1> HIDE DEF e, d
<1> QED BY <1>1, <1>2, <1>3, <1>4, <1>5

\* With the path of a place only its leaf passes the circuit.
LEMMA OnlyItsLeaf ==
  ASSUME levels \in Nat, IsTree(layers, leaves, levels), NEW index \in 0 .. capacity(levels) - 1, NEW leaf
  PROVE  CheckPath(node(leaf), proof(index)) <=> leaf = Padded(leaves, index + 1)
<1> DEFINE p == proof(index)
<1>1. /\ p.root = layers[levels + 1][1] /\ Len(p.pathElements) = levels
      /\ \A l \in 1 .. levels :
           /\ p.pathElements[l] = layers[l][Sibling(above(index, l - 1)) + 1]
           /\ p.pathIndices[l] = above(index, l - 1) % 2
  BY ProofFits
<1> HIDE DEF p
<1>2. PICK H : Hashed(H, node(leaf), p, levels) /\ (CheckPath(node(leaf), p) <=> H[levels] = p.root)
  BY <1>1, PathIsHashed
<1>3. H[levels] = layers[levels + 1][1] <=> node(leaf) = layers[1][index + 1]
  BY <1>1, <1>2, PathMeetsTree
<1>4. index + 1 \in 1 .. capacity(levels)
  <2>1. capacity(levels) \in Nat BY CapacitySteps
  <2> QED BY <2>1
<1>5. layers[1][index + 1] = <<Padded(leaves, index + 1)>> BY <1>4, BottomIsPadded
<1>6. node(leaf) = layers[1][index + 1] <=> leaf = Padded(leaves, index + 1) BY <1>5 DEF node
<1> QED BY <1>1, <1>2, <1>3, <1>6 DEF p

\* indexOf finds a place of the leaf among the members.
LEMMA IndexOfMember ==
  ASSUME NEW n \in Nat, leaves \in Seq(Nat), Len(leaves) <= n, NEW leaf, IsLeaf(leaf)
  PROVE  /\ indexOf(leaf) \in 0 .. n - 1 /\ indexOf(leaf) + 1 \in DOMAIN leaves
         /\ leaves[indexOf(leaf) + 1] = leaf
<1> DEFINE T == { i \in DOMAIN leaves : leaves[i] = leaf }
           First(i) == leaves[i] = leaf /\ \A j \in DOMAIN leaves : leaves[j] = leaf => i <= j
           c == CHOOSE i \in DOMAIN leaves : First(i)
<1>1. DOMAIN leaves = 1 .. Len(leaves) /\ Len(leaves) \in Nat OBVIOUS
<1>2. T \in SUBSET Nat /\ T # {} BY <1>1 DEF IsLeaf
<1>3. PICK i \in T : \A j \in T : i <= j BY <1>2, LeastNumber
<1>4. i \in DOMAIN leaves /\ First(i) BY <1>3
<1>5. c \in DOMAIN leaves /\ First(c)
  <2> HIDE DEF First
  <2> QED BY <1>4
<1>6. indexOf(leaf) = c - 1 BY DEF indexOf
<1> HIDE DEF c
<1> QED BY <1>1, <1>5, <1>6

\* The layers are of the leaves, and the answer is of those layers.
TreeInv ==
  /\ levels \in Nat /\ leaves \in Seq(Nat)
  /\ layers # <<>> => WellFormed(leaves, levels) /\ layers = Layers(leaves, levels)
  /\ answer.proof # NoProof =>
       /\ layers # <<>> /\ IsLeaf(answer.leaf)
       /\ answer.proof = proof(indexOf(answer.leaf))

\* In such a state a proof is accepted for its member and for no other commitment.
LEMMA TreeImplies == TreeInv => ProofIsMembers
<1> SUFFICES ASSUME TreeInv, layers # <<>> PROVE ProofIsMembers BY DEF ProofIsMembers
<1>1. /\ levels \in Nat /\ leaves \in Seq(Nat) /\ WellFormed(leaves, levels)
      /\ layers = Layers(leaves, levels)
  BY DEF TreeInv
<1>2. IsTree(layers, leaves, levels) BY <1>1, LayersAreTree
<1>3. capacity(levels) \in Nat /\ Len(leaves) <= capacity(levels) BY <1>1, CapacitySteps DEF WellFormed
<1>4. ASSUME answer.proof # NoProof
      PROVE  /\ \E i \in DOMAIN leaves : leaves[i] = answer.leaf
             /\ validateCircuitInput(answer.proof)
             /\ CheckPath(node(answer.leaf), answer.proof)
  <2> DEFINE leaf == answer.leaf
             index == indexOf(leaf)
  <2>1. IsLeaf(leaf) /\ answer.proof = proof(index) BY <1>4 DEF TreeInv
  <2>2. /\ index \in 0 .. capacity(levels) - 1 /\ index + 1 \in DOMAIN leaves
        /\ leaves[index + 1] = leaf
    BY <1>1, <1>3, <2>1, IndexOfMember
  <2> HIDE DEF leaf, index
  <2>3. leaf = Padded(leaves, index + 1)
    <3>1. index + 1 <= Len(leaves) BY <1>1, <2>2
    <3> QED BY <2>2, <3>1 DEF Padded
  <2>4. CheckPath(node(leaf), proof(index)) BY <1>1, <1>2, <2>2, <2>3, OnlyItsLeaf
  <2>5. validateCircuitInput(proof(index))
    <3>1. /\ Len(proof(index).pathElements) = levels /\ Len(proof(index).pathIndices) = levels
          /\ DOMAIN proof(index).pathIndices = 1 .. levels
          /\ \A l \in 1 .. levels : proof(index).pathIndices[l] = above(index, l - 1) % 2
      BY <1>1, ProofFits
    <3>2. index \in Nat /\ 2 \in Nat \ {0} BY <1>3, <2>2
    <3>3. ASSUME NEW l \in 1 .. levels PROVE above(index, l - 1) % 2 \in {0, 1}
      <4>1. l - 1 \in Nat BY <1>1
      <4>2. above(index, l - 1) \in Nat BY <3>2, <4>1, ShiftedSteps DEF above
      <4> QED BY <4>2
    <3> QED BY <3>1, <3>3 DEF validateCircuitInput
  <2> QED BY <2>1, <2>2, <2>4, <2>5 DEF leaf
<1>5. \A index \in 0 .. capacity(levels) - 1, leaf \in Commitment :
        CheckPath(node(leaf), proof(index)) <=> leaf = Padded(leaves, index + 1)
  BY <1>1, <1>2, OnlyItsLeaf
<1>6. ASSUME NEW other \in SeqOf(Commitment, capacity(levels)),
             Layers(other, levels)[levels + 1] = layers[levels + 1],
             NEW i \in 1 .. capacity(levels)
      PROVE  Padded(other, i) = Padded(leaves, i)
  <2> DEFINE z == Layers(other, levels)
  <2>1. IsTree(z, other, levels) BY <1>1, LayersAreTree
  <2>2. z[levels + 1][1] = layers[levels + 1][1] BY <1>6
  <2> HIDE DEF z
  <2>3. z[1][i] = layers[1][i] BY <1>1, <1>2, <2>1, <2>2, RootCommits
  <2>4. z[1][i] = <<Padded(other, i)>> /\ layers[1][i] = <<Padded(leaves, i)>>
    BY <1>1, <1>2, <2>1, BottomIsPadded
  <2>5. z[1][i][1] = Padded(other, i) /\ layers[1][i][1] = Padded(leaves, i) BY <2>4
  <2> QED BY <2>3, <2>5
<1> QED BY <1>4, <1>5, <1>6 DEF ProofIsMembers

\* It holds at first.
LEMMA TreeStart == TreeInit => TreeInv
<1> SUFFICES ASSUME TreeInit PROVE TreeInv OBVIOUS
<1>1. levels \in Nat BY TreeAssumption DEF TreeInit
<1>2. leaves \in Seq(Nat)
  <2>1. PICK m \in 0 .. capacity(MaxLevels) + 1 : leaves \in [1 .. m -> Commitment] BY DEF TreeInit, SeqOf
  <2>2. capacity(MaxLevels) \in Nat BY TreeAssumption, CapacitySteps
  <2>3. m \in Nat BY <2>2
  <2>4. leaves \in [1 .. m -> Nat] BY <2>1, TreeAssumption
  <2> QED BY <2>3, <2>4, IsSeq
<1>3. layers = <<>> /\ answer.proof = NoProof BY DEF TreeInit
<1> QED BY <1>1, <1>2, <1>3 DEF TreeInv

\* The path of a place in the tree y of n levels.
Path(y, n, index) ==
  [ root |-> y[n + 1][1],
    pathElements |-> [ l \in 1 .. n |-> y[l][Sibling(above(index, l - 1)) + 1] ],
    pathIndices |-> [ l \in 1 .. n |-> above(index, l - 1) % 2 ] ]

\* Every step keeps it.
LEMMA TreeIsKept == TreeInv /\ [TreeNext]_treeVars => TreeInv'
<1> SUFFICES ASSUME TreeInv, [TreeNext]_treeVars PROVE TreeInv' OBVIOUS
<1>1. CASE Create
  <2>1. /\ layers = <<>> /\ WellFormed(leaves, levels) /\ layers' = Layers(leaves, levels)
        /\ leaves' = leaves /\ levels' = levels /\ answer' = answer
    BY <1>1 DEF Create
  <2>2. answer'.proof = NoProof BY <2>1 DEF TreeInv
  <2> QED BY <2>1, <2>2 DEF TreeInv
<1>2. ASSUME NEW leaf \in Commitment, ProofOf(leaf) PROVE TreeInv'
  <2>1. /\ layers # <<>> /\ leaves' = leaves /\ levels' = levels /\ layers' = layers
        /\ answer'.leaf = leaf
        /\ answer'.proof = IF IsLeaf(leaf) THEN proof(indexOf(leaf)) ELSE NoProof
    BY <1>2 DEF ProofOf
  <2>2. ASSUME answer'.proof # NoProof
        PROVE  IsLeaf(answer.leaf)' /\ (answer.proof = proof(indexOf(answer.leaf)))'
    <3>1. IsLeaf(leaf) /\ answer'.proof = proof(indexOf(leaf)) BY <2>1, <2>2
    <3>2. IsLeaf(answer.leaf)' BY <2>1, <3>1 DEF IsLeaf
    <3>3. indexOf(answer.leaf)' = indexOf(leaf) BY <2>1 DEF indexOf
    <3>4. proof(indexOf(answer.leaf))' = proof(indexOf(leaf))
      <4>1. proof(indexOf(leaf)) = Path(layers, levels, indexOf(leaf)) BY DEF proof, Path
      <4>2. proof(indexOf(answer.leaf))' = Path(layers', levels', indexOf(answer.leaf)') BY DEF proof, Path
      <4> QED BY <2>1, <3>3, <4>1, <4>2
    <3> QED BY <3>1, <3>2, <3>4
  <2>3. WellFormed(leaves, levels)' <=> WellFormed(leaves, levels) BY <2>1 DEF WellFormed
  <2> QED BY <2>1, <2>2, <2>3 DEF TreeInv
<1>3. CASE UNCHANGED treeVars BY <1>3 DEF treeVars, TreeInv, IsLeaf, indexOf, proof
<1> QED BY <1>1, <1>2, <1>3 DEF TreeNext

\* Proofs are of members and of nobody else, and a root commits to the members, whatever
\* the number of levels and the values of the leaves.
THEOREM ProofIsMembersHolds == TreeSpec => []ProofIsMembers
<1>1. TreeSpec => []TreeInv BY TreeStart, TreeIsKept, PTL DEF TreeSpec
<1> QED BY <1>1, TreeImplies, PTL
==============================================================================
