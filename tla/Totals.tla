------------------------------- MODULE Totals -------------------------------
(***************************************************************************)
(* The sum of a family of amounts indexed by 0..N-1, as a recursive        *)
(* function.  FoldFunction of the community modules computes the same sum, *)
(* but nothing can be proved about a fold: its definition is RECURSIVE.    *)
(***************************************************************************)
EXTENDS Integers

\* f[0] + ... + f[N-1].
Total(f, N) ==
  LET partial[i \in 0..N] == IF i = 0 THEN 0 ELSE partial[i-1] + f[i-1]
  IN  partial[N]

=============================================================================
