----------------------------- MODULE MCSharibo -----------------------------
(***************************************************************************)
(* Small instances of Sharibo for TLC: the values of the constants.        *)
(***************************************************************************)
EXTENDS Sharibo, TLC

CONSTANTS alice, bob, contract, m1, m2

\* Each member is paid at an address of its own.
MCPayoutAddress == m1 :> alice @@ m2 :> bob
\* Both identities are members of the same tree, or only the first is.
BothMembers == { {m1, m2} }
OneOrBoth   == { {m1}, {m1, m2} }

=============================================================================
