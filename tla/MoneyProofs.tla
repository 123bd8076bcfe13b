----------------------------- MODULE MoneyProofs -----------------------------
(***************************************************************************)
(* Facts about Total, for every family of amounts, and what the fee split  *)
(* computes, for every rate create_circle accepts and every amount.  A     *)
(* recursive function needs induction over its argument; SetInduction below*)
(* is induction in a first-order form, derived from the well-foundedness   *)
(* of < on Nat.                                                            *)
(***************************************************************************)
EXTENDS Totals, ApplyFee, WellFoundedInduction, TLAPS

\* A non-empty subset of a well-founded set has a minimal element.
LEMMA MinimalOf ==
  ASSUME NEW R, NEW S, IsWellFoundedOn(R, S), NEW T, T \subseteq S, T # {}
  PROVE  \E n \in T : \A m \in T : ~ (<<m, n>> \in R)
BY WFMin

\* A non-empty set of naturals has a least element.
LEMMA LeastNumber ==
  ASSUME NEW T \in SUBSET Nat, T # {}
  PROVE  \E n \in T : \A m \in T : n <= m
<1> DEFINE R == {ss \in Nat \X Nat : ss[1] < ss[2]}
<1>1. IsWellFoundedOn(R, Nat)
  BY NatLessThanWellFounded DEF OpToRel
<1>2. \A m, n \in Nat : m < n => <<m, n>> \in R
  OBVIOUS
<1> HIDE DEF R
<1>3. PICK n \in T : \A m \in T : ~ (<<m, n>> \in R)
  BY <1>1, MinimalOf
<1>4. \A m \in T : m \in Nat /\ n \in Nat /\ ~ (m < n)
  BY <1>2, <1>3
<1> QED BY <1>4

\* Induction: a set of naturals that holds 0 and every successor is Nat.
LEMMA SetInduction ==
  ASSUME NEW S \in SUBSET Nat, 0 \in S, \A n \in S : n + 1 \in S
  PROVE  S = Nat
<1> SUFFICES ASSUME Nat \ S # {} PROVE FALSE OBVIOUS
<1>1. PICK n \in Nat \ S : \A m \in Nat \ S : n <= m
  BY LeastNumber
<1>2. n # 0 /\ n - 1 \in Nat OBVIOUS
<1>3. n - 1 \in S BY <1>1, <1>2
<1>4. (n - 1) + 1 = n BY <1>2
<1> QED BY <1>3, <1>4

\* s lists the running totals of f's first n amounts.
IsPartial(s, f, n) ==
  /\ s \in [0..n -> Int]
  /\ s[0] = 0
  /\ \A i \in 1..n : s[i] = s[i-1] + f[i-1]

\* The running totals exist.
LEMMA PartialExists ==
  ASSUME NEW N \in Nat, NEW f \in [0..N-1 -> Int]
  PROVE  \E s : IsPartial(s, f, N)
<1> DEFINE S == {n \in Nat : n <= N => \E s : IsPartial(s, f, n)}
<1>1. 0 \in S
  <2>1. IsPartial([i \in 0..0 |-> 0], f, 0) BY DEF IsPartial
  <2> QED BY <2>1
<1>2. ASSUME NEW n \in S PROVE n + 1 \in S
  <2> SUFFICES ASSUME n + 1 <= N PROVE \E s : IsPartial(s, f, n+1)
    OBVIOUS
  <2>1. PICK s : IsPartial(s, f, n) OBVIOUS
  <2> DEFINE t == [i \in 0..(n+1) |-> IF i = n+1 THEN s[n] + f[n] ELSE s[i]]
  <2>2. IsPartial(t, f, n+1) BY <2>1, SMTT(60) DEF IsPartial
  <2> QED BY <2>2
<1>3. N \in S
  <2>1. S \in SUBSET Nat OBVIOUS
  <2> HIDE DEF S
  <2>2. S = Nat BY <2>1, <1>1, <1>2, SetInduction
  <2> QED BY <2>2
<1> QED BY <1>3

\* Total is the last of them.
LEMMA TotalIsPartial ==
  ASSUME NEW N \in Nat, NEW f \in [0..N-1 -> Int]
  PROVE  \E s : IsPartial(s, f, N) /\ Total(f, N) = s[N]
<1> DEFINE G(s) == [i \in 0..N |-> IF i = 0 THEN 0 ELSE s[i-1] + f[i-1]]
           p == CHOOSE s : s = G(s)
<1>1. PICK s : IsPartial(s, f, N) BY PartialExists
<1>2. s = G(s) BY <1>1 DEF IsPartial
<1>3. p = G(p) BY <1>2
<1>4. Total(f, N) = p[N] BY DEF Total
<1>5. DOMAIN p = 0..N /\ p[0] = 0 /\ \A i \in 1..N : p[i] = p[i-1] + f[i-1]
  <2> HIDE DEF p
  <2> QED BY <1>3
<1> HIDE DEF p
<1> DEFINE S == {n \in Nat : n <= N => p[n] = s[n]}
<1>6. 0 \in S BY <1>1, <1>5 DEF IsPartial
<1>7. \A n \in S : n+1 \in S BY <1>1, <1>5 DEF IsPartial
<1>8. N \in S
  <2>1. S \in SUBSET Nat OBVIOUS
  <2> HIDE DEF S
  <2>2. S = Nat BY <2>1, <1>6, <1>7, SetInduction
  <2> QED BY <2>2
<1>9. p[N] = s[N] BY <1>8
<1> QED BY <1>1, <1>4, <1>9

\* The total of integers is an integer.
LEMMA TotalType ==
  ASSUME NEW N \in Nat, NEW f \in [0..N-1 -> Int]
  PROVE  Total(f, N) \in Int
BY TotalIsPartial DEF IsPartial

\* The total of nothing but zeros is zero.
LEMMA TotalZero ==
  ASSUME NEW N \in Nat
  PROVE  Total([i \in 0..N-1 |-> 0], N) = 0
<1> DEFINE f == [i \in 0..N-1 |-> 0]
<1>1. PICK s : IsPartial(s, f, N) /\ Total(f, N) = s[N] BY TotalIsPartial
<1> DEFINE S == {n \in Nat : n <= N => s[n] = 0}
<1>2. 0 \in S BY <1>1 DEF IsPartial
<1>3. \A n \in S : n+1 \in S BY <1>1 DEF IsPartial
<1>4. N \in S
  <2>1. S \in SUBSET Nat OBVIOUS
  <2> HIDE DEF S
  <2>2. S = Nat BY <2>1, <1>2, <1>3, SetInduction
  <2> QED BY <2>2
<1> QED BY <1>1, <1>4

\* No amount is larger than the total, if none is negative.
LEMMA TotalAtLeast ==
  ASSUME NEW N \in Nat, NEW f \in [0..N-1 -> Nat], NEW k \in 0..N-1
  PROVE  f[k] <= Total(f, N)
<1>1. PICK s : IsPartial(s, f, N) /\ Total(f, N) = s[N] BY TotalIsPartial
<1> DEFINE S == {n \in Nat : n <= N => s[n] >= (IF n > k THEN f[k] ELSE 0)}
<1>2. 0 \in S BY <1>1 DEF IsPartial
<1>3. ASSUME NEW n \in S, n + 1 <= N
      PROVE  s[n+1] >= (IF n + 1 > k THEN f[k] ELSE 0)
  <2>1. s[n+1] = s[n] + f[n] /\ s[n] \in Int /\ f[n] \in Nat
    BY <1>1, <1>3 DEF IsPartial
  <2>2. CASE n = k BY <2>1, <2>2, <1>3
  <2>3. CASE n < k BY <2>1, <2>3, <1>3
  <2>4. CASE n > k BY <2>1, <2>4, <1>3
  <2> QED BY <2>2, <2>3, <2>4
<1>4. \A n \in S : n+1 \in S BY <1>3
<1>5. N \in S
  <2>1. S \in SUBSET Nat OBVIOUS
  <2> HIDE DEF S
  <2>2. S = Nat BY <2>1, <1>2, <1>4, SetInduction
  <2> QED BY <2>2
<1> QED BY <1>1, <1>5

\* Changing one amount changes the total by as much.
THEOREM TotalUpdate ==
  ASSUME NEW N \in Nat, NEW f \in [0..N-1 -> Int], NEW g \in [0..N-1 -> Int],
         NEW k \in 0..N-1, \A i \in 0..N-1 : i # k => g[i] = f[i]
  PROVE  Total(g, N) = Total(f, N) + g[k] - f[k]
<1>1. PICK s : IsPartial(s, f, N) /\ Total(f, N) = s[N] BY TotalIsPartial
<1>2. PICK t : IsPartial(t, g, N) /\ Total(g, N) = t[N] BY TotalIsPartial
<1> DEFINE S == {n \in Nat : n <= N => t[n] = s[n] + (IF n > k THEN g[k] - f[k] ELSE 0)}
<1>3. 0 \in S BY <1>1, <1>2 DEF IsPartial
<1>4. ASSUME NEW n \in S, n + 1 <= N
      PROVE  t[n+1] = s[n+1] + (IF n + 1 > k THEN g[k] - f[k] ELSE 0)
  <2>1. /\ t[n+1] = t[n] + g[n] /\ t[n] \in Int /\ g[n] \in Int
        /\ s[n+1] = s[n] + f[n] /\ s[n] \in Int /\ f[n] \in Int
    BY <1>1, <1>2, <1>4, SMTT(60) DEF IsPartial
  <2>2. CASE n = k BY <2>1, <2>2, <1>4
  <2>3. CASE n < k BY <2>1, <2>3, <1>4
  <2>4. CASE n > k BY <2>1, <2>4, <1>4
  <2> QED BY <2>2, <2>3, <2>4
<1>5. \A n \in S : n+1 \in S BY <1>4
<1>6. N \in S
  <2>1. S \in SUBSET Nat OBVIOUS
  <2> HIDE DEF S
  <2>2. S = Nat BY <2>1, <1>3, <1>5, SetInduction
  <2> QED BY <2>2
<1>7. s[N] \in Int /\ t[N] \in Int /\ g[k] \in Int /\ f[k] \in Int
  BY <1>1, <1>2 DEF IsPartial
<1> QED BY <1>1, <1>2, <1>6, <1>7

----------------------------------------------------------------------------
(* The fee split.                                                          *)

\* Products of naturals are naturals and grow with their first factor.
LEMMA ProductBound ==
  ASSUME NEW a \in Nat, NEW b \in Nat, a <= 10000
  PROVE  a * b \in Nat /\ a * b <= 10000 * b
<1>1. (10000 - a) * b \in Nat
  <2>1. 10000 - a \in Nat OBVIOUS
  <2> QED BY <2>1
<1>2. (10000 - a) * b = 10000 * b - a * b
  OBVIOUS
<1>3. a * b \in Nat
  OBVIOUS
<1> QED BY <1>1, <1>2, <1>3

\* What the quotient and the remainder of a division by 10 000 satisfy.
LEMMA QuotientRemainder ==
  ASSUME NEW n \in Nat
  PROVE  /\ n \div 10000 \in Nat
         /\ n % 10000 \in 0 .. 9999
         /\ n = 10000 * (n \div 10000) + (n % 10000)
OBVIOUS

\* Whole multiples of 10 000 pass through the division.
LEMMA DivisionShift ==
  ASSUME NEW x \in Nat, NEW y \in Nat
  PROVE  (10000 * x + y) \div 10000 = x + y \div 10000
OBVIOUS

\* The split of apply_fee, computed from the quotient and the remainder of the
\* amount, is the documented one, fee_bps * amount / 10_000 rounded down; the
\* two parts make up the amount and neither is negative.  So a payout of a
\* whole pot can never take more or less than the pot.
THEOREM ApplyFeeIsExact ==
  ASSUME NEW fee_bps \in 0 .. MAX_FEE_BASIS_POINTS, NEW amount \in Nat
  PROVE  LET split == ApplyFeeSplit(fee_bps, amount) IN
           /\ split.fee = (fee_bps * amount) \div 10000
           /\ split.fee \in 0 .. amount
           /\ split.net \in 0 .. amount
           /\ split.fee + split.net = amount
<1> DEFINE q == amount \div 10000
           r == amount % 10000
           x == fee_bps * q
           y == fee_bps * r
<1>1. fee_bps \in Nat /\ fee_bps <= 10000
  BY DEF MAX_FEE_BASIS_POINTS
<1>2. q \in Nat /\ r \in Nat /\ amount = 10000 * q + r
  <2>1. q \in Nat /\ r \in 0 .. 9999 /\ amount = 10000 * q + r
    BY QuotientRemainder
  <2> HIDE DEF q, r
  <2> QED BY <2>1, SMTT(60)
<1>3. x \in Nat /\ x <= 10000 * q /\ y \in Nat /\ y <= 10000 * r
  <2> HIDE DEF q, r
  <2> QED BY <1>1, <1>2, ProductBound
<1>4. fee_bps * amount = 10000 * x + y
  <2> HIDE DEF q, r
  <2>1. fee_bps * (10000 * q + r) = 10000 * (fee_bps * q) + fee_bps * r
    BY <1>1, <1>2
  <2> QED BY <1>2, <2>1
<1>5. ApplyFeeSplit(fee_bps, amount) = [fee |-> x + y \div 10000, net |-> amount - (x + y \div 10000)]
  BY DEF ApplyFeeSplit
<1> HIDE DEF q, r, x, y
<1>6. (fee_bps * amount) \div 10000 = x + y \div 10000
  BY <1>3, <1>4, DivisionShift
<1>7. y \div 10000 \in Nat /\ y \div 10000 <= r
  BY <1>2, <1>3, QuotientRemainder, SMTT(60)
<1>8. x + y \div 10000 \in 0 .. amount
  BY <1>2, <1>3, <1>7
<1> QED BY <1>5, <1>6, <1>8

=============================================================================
