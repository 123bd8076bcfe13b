--------------------------- MODULE MCCircleScreen ---------------------------
(* Instances of CircleScreen: two members, two handlers, two reads.        *)
EXTENDS CircleScreen, TLC

Perms == Permutations(Member) \cup Permutations(Flow) \cup Permutations(Request)
=============================================================================
