------------------------------- MODULE Digits -------------------------------
(* Numbers in the base b, the most significant digit first; every loop of the code
   over bytes, decimal digits or the bits of an index is one of these. *)
EXTENDS Naturals, Sequences

\* b to the power n.
Power(b, n) ==
  LET p[i \in 0 .. n] == IF i = 0 THEN 1 ELSE p[i - 1] * b IN p[n]

\* value after n digits have been shifted out of it.
Shifted(b, value, n) ==
  LET v[i \in 0 .. n] == IF i = 0 THEN value ELSE v[i - 1] \div b IN v[n]

\* The lowest n digits of value.
DigitsOf(b, value, n) == [ i \in 1 .. n |-> Shifted(b, value, n - i) % b ]

\* The number that the first n digits make.
Leading(b, digits, n) ==
  LET x[i \in 0 .. n] == IF i = 0 THEN 0 ELSE x[i - 1] * b + digits[i] IN x[n]
NumberOf(b, digits) == Leading(b, digits, Len(digits))
=============================================================================
