--------------------------- MODULE MembershipTree ---------------------------
(***************************************************************************)
(* The tree of commitments whose root a circle stores:                     *)
(* packages/client/src/tree.ts and its copy in packages/core, the          *)
(* reference they are tested against (tree.reference.ts), the input check  *)
(* in front of the prover (prove.ts) and the circuit's MerkleTreeChecker.  *)
(* poseidon is taken to be free of collisions: a hash is the pair of its   *)
(* arguments.                                                              *)
(***************************************************************************)
EXTENDS Naturals, Sequences, FiniteSets, SequencesExt, Digits

CONSTANTS
  MaxLevels,    \* bound: levels of a tree
  Commitment,   \* bound: values of leaves, 0 among them
  FR_MODULUS    \* all field elements are below; some of Commitment may not be

ASSUME TreeAssumption ==
  /\ MaxLevels \in Nat \ {0} /\ FR_MODULUS \in Nat \ {0}
  /\ Commitment \subseteq Nat /\ 0 \in Commitment

VARIABLES
  leaves, levels,  \* what create was called with
  layers,          \* the tree; <<>> if create threw
  answer           \* of proofOf: the leaf asked for, and a proof or the error

treeVars == <<leaves, levels, layers, answer>>

ZERO_VALUE == <<0>>
node(leaf) == <<leaf>>
poseidon(a, b) == <<a, b>>
capacity(n) == Power(2, n)

NoProof == [root |-> <<>>, pathElements |-> <<>>, pathIndices |-> <<>>]

TreeInit ==
  /\ levels \in 0 .. MaxLevels
  /\ leaves \in SeqOf(Commitment, capacity(MaxLevels) + 1)
  /\ layers = <<>> /\ answer = [leaf |-> 0, proof |-> NoProof]

Pad(ls, n) == [ i \in 1 .. capacity(n) |-> IF i <= Len(ls) THEN node(ls[i]) ELSE ZERO_VALUE ]

\* Layer 0 is the padded leaves, layer l + 1 hashes the pairs of layer l.
Layers(ls, n) ==
  LET layer[l \in 0 .. n] ==
        IF l = 0 THEN Pad(ls, n)
        ELSE [ i \in 1 .. capacity(n - l) |-> poseidon(layer[l - 1][2 * i - 1], layer[l - 1][2 * i]) ]
  IN  [ l \in 1 .. n + 1 |-> layer[l - 1] ]

WellFormed(ls, n) ==
  /\ n \in 1 .. 32
  /\ \A i \in DOMAIN ls : ls[i] < FR_MODULUS
  /\ Len(ls) <= capacity(n)

Create == /\ layers = <<>> /\ WellFormed(leaves, levels)
          /\ layers' = Layers(leaves, levels)
          /\ UNCHANGED <<leaves, levels, answer>>

\* proof: the sibling of each node on the way up (index counts from 0, as in the code).
FaultySibling(index) == IF index = 0 THEN 1 ELSE index - 1
Sibling(index) == IF index % 2 = 1 THEN index - 1 ELSE index + 1
above(index, l) == Shifted(2, index, l)
proof(index) ==
  [ root |-> layers[levels + 1][1],
    pathElements |-> [ l \in 1 .. levels |-> layers[l][Sibling(above(index, l - 1)) + 1] ],
    pathIndices |-> [ l \in 1 .. levels |-> above(index, l - 1) % 2 ] ]

\* indexOf searches the leaves, not the padding; the first of two equal ones is found.
indexOf(leaf) == (CHOOSE i \in DOMAIN leaves :
                    leaves[i] = leaf /\ \A j \in DOMAIN leaves : leaves[j] = leaf => i <= j) - 1
IsLeaf(leaf) == \E i \in DOMAIN leaves : leaves[i] = leaf

ProofOf(leaf) == /\ layers # <<>>
                 /\ answer' = [leaf |-> leaf,
                               proof |-> IF IsLeaf(leaf) THEN proof(indexOf(leaf)) ELSE NoProof]
                 /\ UNCHANGED <<leaves, levels, layers>>

TreeNext == Create \/ \E leaf \in Commitment : ProofOf(leaf)

TreeSpec == TreeInit /\ [][TreeNext]_treeVars

----------------------------------------------------------------------------
(* The other side of a proof.                                              *)

\* referenceVerify and MerkleTreeChecker: hash up along the path.
CheckPath(leaf, p) ==
  LET current[l \in 0 .. Len(p.pathElements)] ==
        IF l = 0 THEN leaf
        ELSE IF p.pathIndices[l] = 1 THEN poseidon(p.pathElements[l], current[l - 1])
                                     ELSE poseidon(current[l - 1], p.pathElements[l])
  IN  current[Len(p.pathElements)] = p.root

\* validateCircuitInput.
validateCircuitInput(p) ==
  /\ Len(p.pathElements) = levels /\ Len(p.pathIndices) = levels
  /\ \A l \in DOMAIN p.pathIndices : p.pathIndices[l] \in {0, 1}

----------------------------------------------------------------------------
(* Properties.                                                             *)

Padded(ls, i) == IF i <= Len(ls) THEN ls[i] ELSE 0

\* proofOf answers for the members and nobody else, and what it returns passes the
\* prover's input check and, for the leaf it was asked for, the circuit.  With any of
\* the tree's paths nothing but the leaf at its end passes the circuit: a value that is
\* no leaf (and no padding) has no proof against the root.  The root commits to the list
\* of members: trees of one depth with equal roots have the same leaves in the same
\* order, up to zeros at the end.
ProofIsMembers ==
  layers # <<>> =>
    /\ answer.proof # NoProof =>
         /\ \E i \in DOMAIN leaves : leaves[i] = answer.leaf
         /\ validateCircuitInput(answer.proof)
         /\ CheckPath(node(answer.leaf), answer.proof)
    /\ \A index \in 0 .. capacity(levels) - 1, leaf \in Commitment :
         CheckPath(node(leaf), proof(index)) <=> leaf = Padded(leaves, index + 1)
    /\ \A other \in SeqOf(Commitment, capacity(levels)) :
         WellFormed(other, levels) /\ Layers(other, levels)[levels + 1] = layers[levels + 1]
           => \A i \in 1 .. capacity(levels) : Padded(other, i) = Padded(leaves, i)
=============================================================================
