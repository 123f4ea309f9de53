------------------------------- MODULE Merkle -------------------------------
(***************************************************************************)
(* The binary tree of protocol/src/merkle.ts, and verify_proof of the      *)
(* contract, which has to agree with it.                                   *)
(*                                                                         *)
(* SHA-256 is symbolic: a hash is what was hashed.  The tags of the code   *)
(* (0x00, 0x01, 0x02) are the length of a tuple: ZERO32 is the empty one,  *)
(* a leaf has one element, an inner node two, so that no two are equal.    *)
(* Indexes of leaves start at 0, as in the code; layers are sequences.     *)
(***************************************************************************)
EXTENDS Integers, Sequences

ZERO32 == <<>>

Leaf(fields) == <<fields>>

HashNode(left, right) == <<left, right>>

\* What hashes to the layer above: a node without a sibling gets ZERO32.
NextLayer(layer) ==
    [i \in 1..((Len(layer) + 1) \div 2) |->
        HashNode(layer[2 * i - 1], IF 2 * i <= Len(layer) THEN layer[2 * i] ELSE ZERO32)]

\* The number of layers above n > 0 leaves.
Height(n) ==
    LET height[m \in 1..n] == IF m = 1 THEN 0 ELSE 1 + height[(m + 1) \div 2]
    IN  height[n]

Layers(leaves) ==
    LET layer[k \in 0..Height(Len(leaves))] ==
            IF k = 0 THEN leaves ELSE NextLayer(layer[k - 1])
    IN  layer

\* buildTree: no leaves give ZERO32, and one leaf is its own root.
ComputeRoot(leaves) ==
    IF leaves = <<>> THEN ZERO32 ELSE Layers(leaves)[Height(Len(leaves))][1]

\* index ^ 1
SiblingIndex(index) == IF index % 2 = 0 THEN index + 1 ELSE index - 1

\* Mutant: a missing sibling is taken for the node itself.
SiblingOrSelf(layer, index) ==
    IF SiblingIndex(index) < Len(layer) THEN layer[SiblingIndex(index) + 1] ELSE layer[index + 1]

Sibling(layer, index) ==
    IF SiblingIndex(index) < Len(layer) THEN layer[SiblingIndex(index) + 1] ELSE ZERO32

\* idx after k times idx >>= 1, for each k up to n.
Shifted(index, n) ==
    LET idx[k \in 0..n] == IF k = 0 THEN index ELSE idx[k - 1] \div 2
    IN  idx

GetProof(leaves, index) ==
    LET height == Height(Len(leaves))
    IN  [k \in 1..height |-> Sibling(Layers(leaves)[k - 1], Shifted(index, height)[k - 1])]

\* A step of verify_proof: the last bit of idx says on which side the sibling is.
ClimbStep(at, sibling) ==
    [node |-> IF at.idx % 2 = 0 THEN HashNode(at.node, sibling) ELSE HashNode(sibling, at.node),
     idx  |-> at.idx \div 2]

\* Where it is after each of its steps.
Climb(leaf, index, proof) ==
    LET at[k \in 0..Len(proof)] ==
            IF k = 0 THEN [node |-> leaf, idx |-> index] ELSE ClimbStep(at[k - 1], proof[k])
    IN  at

\* No bit of the index may be left when the proof ends.
VerifyProof(leaf, index, proof, root) ==
    Climb(leaf, index, proof)[Len(proof)] = [node |-> root, idx |-> 0]
=============================================================================
