------------------------------ MODULE LightMHT ------------------------------
(***************************************************************************)
(* The Merkle tree of tree/light_merkel_tree.go, kept in one array as long *)
(* as the list of the elements: the leaves' hashes are computed into the   *)
(* whole array, then every level overwrites the upper half of the level    *)
(* below, until the root is at index 1.  A hash is injective: the record   *)
(* of what was hashed.  Arrays are functions on 0 .. n-1, n a power of 2.  *)
(***************************************************************************)
EXTENDS Integers, Sequences, FiniteSets

Hash(data) == [hash |-> data]

\* 1 << k
Pow2[k \in Nat] == IF k = 0 THEN 1 ELSE 2 * Pow2[k - 1]

Log2(n) == CHOOSE k \in 0 .. n : Pow2[k] = n

\* The places of a level in the order calcLightMht fills them.
\* Mutant: from the first to the last.
UpTo(num) == [x \in 1 .. num |-> x - 1]
DownFrom(num) == [x \in 1 .. num |-> num - x]

\* Level i of calcLightMht, whose source begins at n >> i in the array (level 0
\* reads the array from its beginning), after k of its places are filled.
CalcLevel(mht, n, i) ==
  LET num == n \div Pow2[i + 1]
      src == IF i = 0 THEN 0 ELSE n \div Pow2[i]
      filled[k \in 0 .. num] ==
        IF k = 0 THEN mht
        ELSE LET m == filled[k - 1]
                 j == DownFrom(num)[k]
             IN [m EXCEPT ![num + j] = Hash(<<m[src + 2*j], m[src + 2*j + 1]>>)]
  IN filled[num]

CalcLightMht(data) ==
  LET n == Cardinality(DOMAIN data)
      levels[i \in 0 .. Log2(n)] ==
        IF i = 0 THEN [x \in DOMAIN data |-> Hash(<<data[x]>>)]
        ELSE CalcLevel(levels[i - 1], n, i - 1)
  IN levels[Log2(n)]

GetRoot(mht) == mht[1]

\* Level k of the tree as GetPathProof finds it: the elements, then the array.
Level(mht, data, k) ==
  LET n == Cardinality(DOMAIN data)
  IN IF k = 0 THEN data ELSE [x \in 0 .. (n \div Pow2[k]) - 1 |-> mht[(n \div Pow2[k]) + x]]

\* The sibling on every level, and on which side it is: 0 is left.
GetPathProof(mht, data, index) ==
  LET at(k) == index \div Pow2[k]
      loc(k) == IF (at(k) + 1) % 2 = 0 THEN 0 ELSE 1
      sibling(k) == Level(mht, data, k)[IF loc(k) = 0 THEN at(k) - 1 ELSE at(k) + 1]
      lens == Log2(Cardinality(DOMAIN data))
  IN [Locs |-> [k \in 1 .. lens |-> loc(k - 1)],
      Path |-> [k \in 1 .. lens |-> IF k = 1 THEN Hash(<<sibling(0)>>) ELSE sibling(k - 1)]]

\* Mutant: the side of a sibling is not looked at.
PathHashLeft(proof, data) ==
  LET up[k \in 0 .. Len(proof.Path)] ==
        IF k = 0 THEN Hash(<<data>>) ELSE Hash(<<up[k - 1], proof.Path[k]>>)
  IN up[Len(proof.Path)]

\* What VerifyPathProof computes from the element up.
PathHash(proof, data) ==
  LET up[k \in 0 .. Len(proof.Path)] ==
        IF k = 0 THEN Hash(<<data>>)
        ELSE IF proof.Locs[k] = 0 THEN Hash(<<proof.Path[k], up[k - 1]>>)
        ELSE Hash(<<up[k - 1], proof.Path[k]>>)
  IN up[Len(proof.Path)]

VerifyPathProof(root, data, proof) ==
  /\ Len(proof.Locs) = Len(proof.Path)
  /\ PathHash(proof, data) = root

\* Reference: the root of the tree over size elements is the hash of the roots
\* of its halves.
MerkleRoot(data) ==
  LET n == Cardinality(DOMAIN data)
      root[size \in 1 .. n] ==
        [first \in Nat |->
           IF size = 1 THEN Hash(<<data[first]>>)
           ELSE Hash(<<root[size \div 2][first],
                       root[size \div 2][first + size \div 2]>>)]
  IN root[n][0]
=============================================================================
