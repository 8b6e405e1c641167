----------------------------- MODULE MerkleTree -----------------------------
(***************************************************************************)
(* The trees of packages/claims/src/tree.ts and the proofs of              *)
(* core/src/merkle.ts.  A hash is the term it was made of: equal hashes    *)
(* are equal terms, and the tag keeps leaves, salts and nodes apart.       *)
(***************************************************************************)
EXTENDS Integers, SequencesExt

\* leafHash(), saltLeaf()
LeafHash(to, asset, raw) == <<"leaf", <<to, asset, raw>>>>

SaltLeaf(salt) == <<"salt", salt>>

\* combineHashes(): the pair is sorted, so a proof needs no directions.
CombineHashes(left, right) == <<"node", {left, right}>>

\* verifyProof(): fold the siblings up and compare.
VerifyProof(leaf, proof, root) == FoldLeft(CombineHashes, leaf, proof) = root

\* One level up: the last of an odd level is paired with itself.
Above(layer) ==
    [i \in 1 .. (Len(layer) + 1) \div 2 |->
       CombineHashes(layer[2 * i - 1],
                     IF 2 * i <= Len(layer) THEN layer[2 * i] ELSE layer[2 * i - 1])]

\* How many levels lie over n leaves.
Height(n) == CHOOSE h \in 0 .. n : 2 ^ h >= n /\ \A k \in 0 .. h - 1 : 2 ^ k < n

\* The levels of a tree, the leaves first.
Layers(leaves) ==
    LET layer[h \in 0 .. Height(Len(leaves))] ==
          IF h = 0 THEN leaves ELSE Above(layer[h - 1])
    IN layer

RootOf(leaves) == Layers(leaves)[Height(Len(leaves))][1]

\* Mutant: the one without a sibling is left out of the path.
SiblingSkipped(layer, i) ==
    IF i % 2 = 0 THEN <<layer[i - 1]>>
    ELSE IF i < Len(layer) THEN <<layer[i + 1]>> ELSE <<>>

\* The sibling of position i, itself when it has none.
Sibling(layer, i) ==
    IF i % 2 = 0 THEN <<layer[i - 1]>>
    ELSE IF i < Len(layer) THEN <<layer[i + 1]>> ELSE <<layer[i]>>

\* pathTo(): the siblings from a leaf up to the root.
PathTo(leaves, i) ==
    LET layers == Layers(leaves)
        place[h \in 0 .. Height(Len(leaves))] ==
          IF h = 0 THEN i ELSE (place[h - 1] + 1) \div 2
    IN FlattenSeq([h \in 1 .. Height(Len(leaves)) |-> Sibling(layers[h - 1], place[h - 1])])

\* buildCommit(): the recipients in their order, and the salt last.
Recipients(owed) == SetToSeq(DOMAIN owed)

Leaves(asset, owed, salt) ==
    LET to == Recipients(owed)
    IN Append([i \in DOMAIN to |-> LeafHash(to[i], asset, owed[to[i]])], SaltLeaf(salt))

CommitRoot(asset, owed, salt) == RootOf(Leaves(asset, owed, salt))

ProofFor(asset, owed, salt, to) ==
    PathTo(Leaves(asset, owed, salt),
           CHOOSE i \in DOMAIN Recipients(owed) : Recipients(owed)[i] = to)

SaltProof(asset, owed, salt) ==
    PathTo(Leaves(asset, owed, salt), Cardinality(DOMAIN owed) + 1)
=============================================================================
