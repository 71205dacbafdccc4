------------------------------- MODULE Merkle -------------------------------
(***************************************************************************)
(* The transcript root: the Merkle tree hash of RFC 6962 over the lines of *)
(* a ledger, inclusion paths and their verification.  A hash is the term   *)
(* it was taken of: equal hashes mean equal inputs, and the leaf and node  *)
(* prefixes keep the two kinds apart, which is what SHA-256 and the domain *)
(* separation are there for.                                               *)
(***************************************************************************)
EXTENDS Naturals, Sequences, SequencesExt

EmptyRoot == <<"empty">>
LeafHash(leaf) == <<"leaf", leaf>>
NodeHash(left, right) == <<"node", left, right>>

\* The largest power of two smaller than n, for n >= 2.
SplitPoint(n) ==
    LET split[i \in 2..n] == IF i = 2 THEN 1 ELSE 2 * split[(i + 1) \div 2]
    IN  split[n]

\* A slice of the leaves is told by its length n and the number lo of leaves
\* before it; the m of the code, an index into the slice, is index - lo.

\* The hash of each slice.
Subtree(leaves) ==
    LET mth[n \in 1..Len(leaves)] ==
            LET k == SplitPoint(n)
            IN  [lo \in 0..(Len(leaves) - n) |->
                    IF n = 1 THEN LeafHash(leaves[lo + 1])
                    ELSE NodeHash(mth[k][lo], mth[n - k][lo + k])]
    IN  mth

Root(leaves) == IF leaves = <<>> THEN EmptyRoot ELSE Subtree(leaves)[Len(leaves)][0]

\* Mutant: the sibling of the top split comes first.
PathMutant(leaves, index) ==
    LET path[n \in 1..Len(leaves)] ==
            LET k == SplitPoint(n)
            IN  [lo \in 0..(Len(leaves) - n) |->
                    IF n = 1 THEN <<>>
                    ELSE IF index < lo + k
                      THEN <<Subtree(leaves)[n - k][lo + k]>> \o path[k][lo]
                      ELSE <<Subtree(leaves)[k][lo]>> \o path[n - k][lo + k]]
    IN  path[Len(leaves)][0]

\* The siblings of leaf index (from 0) in each slice that holds it, the
\* closest first.
Siblings(leaves, index) ==
    LET path[n \in 1..Len(leaves)] ==
            LET k == SplitPoint(n)
            IN  [lo \in 0..(Len(leaves) - n) |->
                    IF n = 1 THEN <<>>
                    ELSE IF index < lo + k
                      THEN Append(path[k][lo], Subtree(leaves)[n - k][lo + k])
                      ELSE Append(path[n - k][lo + k], Subtree(leaves)[k][lo])]
    IN  path

Path(leaves, index) == Siblings(leaves, index)[Len(leaves)][0]

NoHash == <<"none">>

\* The hash that a leaf and the first `rest' elements of a path lead to in
\* each slice, the path used from its end; NoHash when its length does not
\* fit.
Recompute(leaf, index, n, path) ==
    LET rec[size \in 1..n] ==
            LET k == SplitPoint(size)
            IN  [lo \in 0..(n - size) |-> [rest \in 0..Len(path) |->
                    IF size = 1 THEN IF rest = 0 THEN LeafHash(leaf) ELSE NoHash
                    ELSE IF rest = 0 THEN NoHash
                    ELSE IF index < lo + k
                      THEN LET left == rec[k][lo][rest - 1]
                           IN  IF left = NoHash THEN NoHash ELSE NodeHash(left, path[rest])
                      ELSE LET right == rec[size - k][lo + k][rest - 1]
                           IN  IF right = NoHash THEN NoHash ELSE NodeHash(path[rest], right)]]
    IN  rec

VerifyProof(root, leaf, index, n, path) ==
    index < n /\ Recompute(leaf, index, n, path)[n][0][Len(path)] = root

=============================================================================
