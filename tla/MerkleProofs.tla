---------------------------- MODULE MerkleProofs ----------------------------
(***************************************************************************)
(* The transcript root binds every leaf to its place: for leaves of any    *)
(* kind and number, no inclusion path, of whatever origin, proves anything *)
(* but the leaf that stands there, and the path that is issued proves it.  *)
(***************************************************************************)
EXTENDS Merkle, TLAPS, WellFoundedInduction, SequenceTheorems

-----------------------------------------------------------------------------
(* Growing a sequence.                                                     *)

IsLog(l) == \E S : l \in Seq(S)

LEMMA LogShape ==
    ASSUME NEW l, IsLog(l)
    PROVE  /\ Len(l) \in Nat /\ DOMAIN l = 1..Len(l)
           /\ l # <<>> <=> Len(l) > 0
<1>1. PICK S : l \in Seq(S)
  BY DEF IsLog
<1> QED BY <1>1

LEMMA LogAppended ==
    ASSUME NEW l, IsLog(l), NEW e
    PROVE  /\ IsLog(Append(l, e))
           /\ Len(Append(l, e)) = Len(l) + 1
           /\ \A i \in 1..Len(l) : Append(l, e)[i] = l[i]
           /\ Append(l, e)[Len(l) + 1] = e
<1>1. PICK S : l \in Seq(S)
  BY DEF IsLog
<1>2. l \in Seq(S \cup {e}) /\ e \in S \cup {e}
  <2>1. PICK n \in Nat : l \in [1..n -> S]
    BY <1>1, SeqDef
  <2>2. l \in [1..n -> S \cup {e}]
    BY <2>1
  <2> QED BY <2>2, SeqDef
<1>3. /\ Append(l, e) \in Seq(S \cup {e}) /\ Len(Append(l, e)) = Len(l) + 1
      /\ \A i \in 1..Len(l) : Append(l, e)[i] = l[i]
      /\ Append(l, e)[Len(l) + 1] = e
  BY <1>2, AppendProperties
<1> QED BY <1>3 DEF IsLog

LEMMA EmptyLog == IsLog(<<>>) /\ Len(<<>>) = 0
BY DEF IsLog

-----------------------------------------------------------------------------
(* The functions of Merkle solve their equations.  Each is defined on      *)
(* 1..n when it is defined on 1..(n - 1), for it looks at smaller slices   *)
(* only.                                                                   *)

LEMMA SmallestOne ==
    ASSUME NEW S \in SUBSET Nat, S # {}
    PROVE  \E x \in S : \A y \in S : x <= y
<1>1. PICK x \in S : \A y \in S : ~(<<y, x>> \in OpToRel(<, Nat))
  BY NatLessThanWellFounded, WFMin
<1>2. \A y \in S : ~(y < x)
  BY <1>1 DEF OpToRel
<1> QED BY <1>2

Splits(f, n) == f = [i \in 2..n |-> IF i = 2 THEN 1 ELSE 2 * f[(i + 1) \div 2]]

LEMMA SplitExists ==
    ASSUME NEW n \in Nat
    PROVE  \E f : Splits(f, n) /\ \A i \in 2..n : f[i] \in 1..(i - 1)
<1> DEFINE Ok(m) == \E f : Splits(f, m) /\ \A i \in 2..m : f[i] \in 1..(i - 1)
           Bad == {m \in Nat : ~Ok(m)}
<1>1. SUFFICES ASSUME Bad # {} PROVE FALSE
  OBVIOUS
<1>2. PICK m \in Bad : \A j \in Bad : m <= j
  BY <1>1, SmallestOne
<1>3. CASE m < 2
  <2>1. 2..m = {}
    BY <1>3
  <2>2. Splits([i \in 2..m |-> 1], m)
    BY <2>1 DEF Splits
  <2> QED BY <1>2, <2>1, <2>2
<1>4. CASE ~(m < 2)
  <2>1. m \in Nat /\ m - 1 \in Nat /\ ~ (m <= m - 1)
    BY <1>4
  <2>2. PICK f : Splits(f, m - 1) /\ \A i \in 2..(m - 1) : f[i] \in 1..(i - 1)
    BY <1>2, <2>1
  <2> DEFINE g == [i \in 2..m |-> IF i = m THEN IF m = 2 THEN 1 ELSE 2 * f[(m + 1) \div 2]
                                  ELSE f[i]]
  <2>3. \A i \in 2..m : i # 2 => (i + 1) \div 2 \in 2..(i - 1)
    BY <2>1
  <2>4. \A i \in 2..(m - 1) : g[i] = f[i]
    BY <2>1
  <2>5. \A i \in 2..m : g[i] = IF i = 2 THEN 1 ELSE 2 * g[(i + 1) \div 2]
    <3> SUFFICES ASSUME NEW i \in 2..m
                 PROVE  g[i] = IF i = 2 THEN 1 ELSE 2 * g[(i + 1) \div 2]
      OBVIOUS
    <3>1. i # 2 => (i + 1) \div 2 \in 2..(m - 1)
      BY <2>1, <2>3
    <3>2. CASE i = m
      <4>1. g[i] = IF m = 2 THEN 1 ELSE 2 * f[(m + 1) \div 2]
        BY <2>1, <3>2
      <4> HIDE DEF g
      <4> QED BY <2>4, <3>1, <3>2, <4>1
    <3>3. CASE i # m
      <4>1. i \in 2..(m - 1)
        BY <2>1, <3>3
      <4>2. f[i] = IF i = 2 THEN 1 ELSE 2 * f[(i + 1) \div 2]
        BY <2>2, <4>1 DEF Splits
      <4> HIDE DEF g
      <4> QED BY <2>4, <3>1, <4>1, <4>2
    <3> QED BY <3>2, <3>3
  <2>6. g = [i \in 2..m |-> g[i]]
    OBVIOUS
  <2>7. Splits(g, m)
    <3> HIDE DEF g
    <3> QED BY <2>5, <2>6 DEF Splits
  <2>8. \A i \in 2..m : g[i] \in 1..(i - 1)
    <3> SUFFICES ASSUME NEW i \in 2..m PROVE g[i] \in 1..(i - 1)
      OBVIOUS
    <3>1. CASE i = 2
      <4>1. g[i] = 1
        BY <2>5, <3>1
      <4> HIDE DEF g
      <4> QED BY <3>1, <4>1
    <3>2. CASE i # 2
      <4> DEFINE h == (i + 1) \div 2
      <4>1. h \in 2..(i - 1) /\ h \in 2..(m - 1) /\ 2 * h <= i + 1 /\ h \in Nat
        BY <2>1, <2>3, <3>2
      <4>2. g[i] = 2 * g[h] /\ g[h] = f[h]
        BY <2>4, <2>5, <3>2, <4>1
      <4>3. f[h] \in 1..(h - 1)
        BY <2>2, <4>1
      <4> HIDE DEF g, h
      <4> QED BY <4>1, <4>2, <4>3
    <3> QED BY <3>1, <3>2
  <2> HIDE DEF g
  <2> QED BY <1>2, <2>7, <2>8
<1> QED BY <1>3, <1>4

LEMMA SplitUnique ==
    ASSUME NEW n \in Nat, NEW f, Splits(f, n), NEW g, Splits(g, n)
    PROVE  f = g
<1> DEFINE Bad == {i \in 2..n : f[i] # g[i]}
<1>1. /\ \A i \in 2..n : f[i] = IF i = 2 THEN 1 ELSE 2 * f[(i + 1) \div 2]
      /\ \A i \in 2..n : g[i] = IF i = 2 THEN 1 ELSE 2 * g[(i + 1) \div 2]
      /\ f = [i \in 2..n |-> f[i]] /\ g = [i \in 2..n |-> g[i]]
  BY DEF Splits
<1>2. ASSUME Bad # {} PROVE FALSE
  <2>1. Bad \in SUBSET Nat
    OBVIOUS
  <2>2. PICK i \in Bad : \A j \in Bad : i <= j
    BY <1>2, <2>1, SmallestOne
  <2>3. i # 2
    BY <1>1, <2>2
  <2>4. (i + 1) \div 2 \in 2..n /\ ~(i <= (i + 1) \div 2)
    BY <2>2, <2>3
  <2>5. f[(i + 1) \div 2] = g[(i + 1) \div 2]
    BY <2>2, <2>4
  <2>6. f[i] = 2 * f[(i + 1) \div 2] /\ g[i] = 2 * g[(i + 1) \div 2]
    BY <1>1, <2>2, <2>3
  <2>7. f[i] # g[i]
    BY <2>2
  <2> QED BY <2>5, <2>6, <2>7
<1>3. \A i \in 2..n : f[i] = g[i]
  BY <1>2
<1> QED BY <1>1, <1>3

\* The largest power of two below n splits off less than all.
LEMMA SplitInside ==
    ASSUME NEW n \in Nat, n >= 2
    PROVE  SplitPoint(n) \in 1..(n - 1)
<1>1. PICK f : Splits(f, n) /\ \A i \in 2..n : f[i] \in 1..(i - 1)
  BY SplitExists
<1> DEFINE c == CHOOSE g : Splits(g, n)
<1>2. SplitPoint(n) = c[n]
  BY DEF SplitPoint, Splits
<1>3. Splits(c, n)
  BY <1>1
<1> HIDE DEF c
<1>4. c = f
  BY <1>1, <1>3, SplitUnique
<1> QED BY <1>1, <1>2, <1>4

-----------------------------------------------------------------------------
(* The hashes of the slices.                                               *)

HashOf(f, leaves, n, lo) ==
    IF n = 1 THEN LeafHash(leaves[lo + 1])
    ELSE NodeHash(f[SplitPoint(n)][lo], f[n - SplitPoint(n)][lo + SplitPoint(n)])

Hashes(f, leaves, n) == [lo \in 0..(Len(leaves) - n) |-> HashOf(f, leaves, n, lo)]

Trees(f, leaves, m) == f = [n \in 1..m |-> Hashes(f, leaves, n)]

\* The hashes of the slices of a length look at shorter slices only.
LEMMA HashesLocal ==
    ASSUME NEW leaves, NEW n \in Nat, n >= 1, NEW f, NEW g,
           \A i \in 1..(n - 1) : f[i] = g[i]
    PROVE  Hashes(f, leaves, n) = Hashes(g, leaves, n)
<1>1. CASE n = 1
  BY <1>1 DEF Hashes, HashOf
<1>2. CASE n # 1
  <2> DEFINE k == SplitPoint(n)
  <2>1. k \in 1..(n - 1)
    BY <1>2, SplitInside
  <2> HIDE DEF k
  <2>2. n - k \in 1..(n - 1)
    BY <2>1
  <2>3. f[k] = g[k] /\ f[n - k] = g[n - k]
    BY <2>1, <2>2
  <2> QED BY <1>2, <2>3 DEF Hashes, HashOf, k
<1> QED BY <1>1, <1>2

LEMMA TreesExist ==
    ASSUME NEW leaves, NEW n \in Nat
    PROVE  \E f : Trees(f, leaves, n)
<1> DEFINE Bad == {m \in Nat : ~\E f : Trees(f, leaves, m)}
<1>1. SUFFICES ASSUME Bad # {} PROVE FALSE
  OBVIOUS
<1>2. PICK m \in Bad : \A j \in Bad : m <= j
  BY <1>1, SmallestOne
<1>3. CASE m = 0
  <2>1. Trees([i \in 1..0 |-> 0], leaves, 0)
    BY DEF Trees
  <2> QED BY <1>2, <1>3, <2>1
<1>4. CASE m # 0
  <2>1. m \in Nat /\ m - 1 \in Nat /\ ~ (m <= m - 1) /\ m >= 1
    BY <1>4
  <2>2. PICK f : Trees(f, leaves, m - 1)
    BY <1>2, <2>1
  <2> DEFINE g == [i \in 1..m |-> IF i = m THEN Hashes(f, leaves, m) ELSE f[i]]
  <2>3. \A i \in 1..(m - 1) : g[i] = f[i]
    BY <2>1
  <2>4. \A i \in 1..m : g[i] = Hashes(g, leaves, i)
    <3> SUFFICES ASSUME NEW i \in 1..m PROVE g[i] = Hashes(g, leaves, i)
      OBVIOUS
    <3>1. g[i] = Hashes(f, leaves, i)
      <4>1. CASE i = m
        BY <4>1
      <4>2. CASE i # m
        <5>1. i \in 1..(m - 1)
          BY <2>1, <4>2
        <5> HIDE DEF g
        <5> QED BY <2>2, <2>3, <5>1 DEF Trees
      <4> QED BY <4>1, <4>2
    <3>2. \A j \in 1..(i - 1) : f[j] = g[j]
      BY <2>1, <2>3
    <3> HIDE DEF g
    <3>3. Hashes(f, leaves, i) = Hashes(g, leaves, i)
      BY <3>2, HashesLocal
    <3> QED BY <3>1, <3>3
  <2>5. g = [i \in 1..m |-> g[i]]
    OBVIOUS
  <2>6. Trees(g, leaves, m)
    <3> HIDE DEF g
    <3> QED BY <2>4, <2>5 DEF Trees
  <2> HIDE DEF g
  <2> QED BY <1>2, <2>6
<1> QED BY <1>3, <1>4

LEMMA SubtreeHashes ==
    ASSUME NEW leaves, Len(leaves) \in Nat,
           NEW n \in 1..Len(leaves), NEW lo \in 0..(Len(leaves) - n)
    PROVE  Subtree(leaves)[n][lo] = HashOf(Subtree(leaves), leaves, n, lo)
<1> DEFINE c == CHOOSE f : Trees(f, leaves, Len(leaves))
<1>1. Subtree(leaves) = c
  BY DEF Subtree, Trees, Hashes, HashOf
<1>2. Trees(c, leaves, Len(leaves))
  BY TreesExist
<1> HIDE DEF c
<1>3. c[n] = Hashes(c, leaves, n)
  BY <1>2 DEF Trees
<1>4. c[n][lo] = HashOf(c, leaves, n, lo)
  BY <1>3 DEF Hashes
<1> QED BY <1>1, <1>4

-----------------------------------------------------------------------------
(* The siblings of a leaf in the slices.                                   *)

PathOf(f, leaves, index, n, lo) ==
    IF n = 1 THEN <<>>
    ELSE IF index < lo + SplitPoint(n)
      THEN Append(f[SplitPoint(n)][lo],
                  Subtree(leaves)[n - SplitPoint(n)][lo + SplitPoint(n)])
      ELSE Append(f[n - SplitPoint(n)][lo + SplitPoint(n)],
                  Subtree(leaves)[SplitPoint(n)][lo])

Paths(f, leaves, index, n) ==
    [lo \in 0..(Len(leaves) - n) |-> PathOf(f, leaves, index, n, lo)]

Issued(f, leaves, index, m) == f = [n \in 1..m |-> Paths(f, leaves, index, n)]

LEMMA PathsLocal ==
    ASSUME NEW leaves, NEW index, NEW n \in Nat, n >= 1, NEW f, NEW g,
           \A i \in 1..(n - 1) : f[i] = g[i]
    PROVE  Paths(f, leaves, index, n) = Paths(g, leaves, index, n)
<1>1. CASE n = 1
  BY <1>1 DEF Paths, PathOf
<1>2. CASE n # 1
  <2> DEFINE k == SplitPoint(n)
  <2>1. k \in 1..(n - 1)
    BY <1>2, SplitInside
  <2> HIDE DEF k
  <2>2. n - k \in 1..(n - 1)
    BY <2>1
  <2>3. f[k] = g[k] /\ f[n - k] = g[n - k]
    BY <2>1, <2>2
  <2> QED BY <1>2, <2>3 DEF Paths, PathOf, k
<1> QED BY <1>1, <1>2

LEMMA IssuedExist ==
    ASSUME NEW leaves, NEW index, NEW n \in Nat
    PROVE  \E f : Issued(f, leaves, index, n)
<1> DEFINE Bad == {m \in Nat : ~\E f : Issued(f, leaves, index, m)}
<1>1. SUFFICES ASSUME Bad # {} PROVE FALSE
  OBVIOUS
<1>2. PICK m \in Bad : \A j \in Bad : m <= j
  BY <1>1, SmallestOne
<1>3. CASE m = 0
  <2>1. Issued([i \in 1..0 |-> 0], leaves, index, 0)
    BY DEF Issued
  <2> QED BY <1>2, <1>3, <2>1
<1>4. CASE m # 0
  <2>1. m \in Nat /\ m - 1 \in Nat /\ ~ (m <= m - 1) /\ m >= 1
    BY <1>4
  <2>2. PICK f : Issued(f, leaves, index, m - 1)
    BY <1>2, <2>1
  <2> DEFINE g == [i \in 1..m |-> IF i = m THEN Paths(f, leaves, index, m) ELSE f[i]]
  <2>3. \A i \in 1..(m - 1) : g[i] = f[i]
    BY <2>1
  <2>4. \A i \in 1..m : g[i] = Paths(g, leaves, index, i)
    <3> SUFFICES ASSUME NEW i \in 1..m PROVE g[i] = Paths(g, leaves, index, i)
      OBVIOUS
    <3>1. g[i] = Paths(f, leaves, index, i)
      <4>1. CASE i = m
        BY <4>1
      <4>2. CASE i # m
        <5>1. i \in 1..(m - 1)
          BY <2>1, <4>2
        <5> HIDE DEF g
        <5> QED BY <2>2, <2>3, <5>1 DEF Issued
      <4> QED BY <4>1, <4>2
    <3>2. \A j \in 1..(i - 1) : f[j] = g[j]
      BY <2>1, <2>3
    <3> HIDE DEF g
    <3>3. Paths(f, leaves, index, i) = Paths(g, leaves, index, i)
      BY <3>2, PathsLocal
    <3> QED BY <3>1, <3>3
  <2>5. g = [i \in 1..m |-> g[i]]
    OBVIOUS
  <2>6. Issued(g, leaves, index, m)
    <3> HIDE DEF g
    <3> QED BY <2>4, <2>5 DEF Issued
  <2> HIDE DEF g
  <2> QED BY <1>2, <2>6
<1> QED BY <1>3, <1>4

LEMMA SiblingsPaths ==
    ASSUME NEW leaves, Len(leaves) \in Nat, NEW index,
           NEW n \in 1..Len(leaves), NEW lo \in 0..(Len(leaves) - n)
    PROVE  Siblings(leaves, index)[n][lo] = PathOf(Siblings(leaves, index), leaves, index, n, lo)
<1> DEFINE c == CHOOSE f : Issued(f, leaves, index, Len(leaves))
<1>1. Siblings(leaves, index) = c
  BY DEF Siblings, Issued, Paths, PathOf
<1>2. Issued(c, leaves, index, Len(leaves))
  BY IssuedExist
<1> HIDE DEF c
<1>3. c[n] = Paths(c, leaves, index, n)
  BY <1>2 DEF Issued
<1>4. c[n][lo] = PathOf(c, leaves, index, n, lo)
  BY <1>3 DEF Paths
<1> QED BY <1>1, <1>4

-----------------------------------------------------------------------------
(* The hashes a path leads to.                                             *)

StepUp(f, leaf, index, path, size, lo, rest) ==
    IF size = 1 THEN IF rest = 0 THEN LeafHash(leaf) ELSE NoHash
    ELSE IF rest = 0 THEN NoHash
    ELSE IF index < lo + SplitPoint(size)
      THEN IF f[SplitPoint(size)][lo][rest - 1] = NoHash THEN NoHash
           ELSE NodeHash(f[SplitPoint(size)][lo][rest - 1], path[rest])
      ELSE IF f[size - SplitPoint(size)][lo + SplitPoint(size)][rest - 1] = NoHash THEN NoHash
           ELSE NodeHash(path[rest], f[size - SplitPoint(size)][lo + SplitPoint(size)][rest - 1])

Ups(f, leaf, index, all, path, size) ==
    [lo \in 0..(all - size) |->
        [rest \in 0..Len(path) |-> StepUp(f, leaf, index, path, size, lo, rest)]]

Climbs(f, leaf, index, all, path, m) ==
    f = [size \in 1..m |-> Ups(f, leaf, index, all, path, size)]

LEMMA UpsLocal ==
    ASSUME NEW leaf, NEW index, NEW all, NEW path, NEW n \in Nat, n >= 1, NEW f, NEW g,
           \A i \in 1..(n - 1) : f[i] = g[i]
    PROVE  Ups(f, leaf, index, all, path, n) = Ups(g, leaf, index, all, path, n)
<1>1. CASE n = 1
  BY <1>1 DEF Ups, StepUp
<1>2. CASE n # 1
  <2> DEFINE k == SplitPoint(n)
  <2>1. k \in 1..(n - 1)
    BY <1>2, SplitInside
  <2> HIDE DEF k
  <2>2. n - k \in 1..(n - 1)
    BY <2>1
  <2>3. f[k] = g[k] /\ f[n - k] = g[n - k]
    BY <2>1, <2>2
  <2> QED BY <1>2, <2>3 DEF Ups, StepUp, k
<1> QED BY <1>1, <1>2

LEMMA ClimbsExist ==
    ASSUME NEW leaf, NEW index, NEW all, NEW path, NEW n \in Nat
    PROVE  \E f : Climbs(f, leaf, index, all, path, n)
<1> DEFINE Bad == {m \in Nat : ~\E f : Climbs(f, leaf, index, all, path, m)}
<1>1. SUFFICES ASSUME Bad # {} PROVE FALSE
  OBVIOUS
<1>2. PICK m \in Bad : \A j \in Bad : m <= j
  BY <1>1, SmallestOne
<1>3. CASE m = 0
  <2>1. Climbs([i \in 1..0 |-> 0], leaf, index, all, path, 0)
    BY DEF Climbs
  <2> QED BY <1>2, <1>3, <2>1
<1>4. CASE m # 0
  <2>1. m \in Nat /\ m - 1 \in Nat /\ ~ (m <= m - 1) /\ m >= 1
    BY <1>4
  <2>2. PICK f : Climbs(f, leaf, index, all, path, m - 1)
    BY <1>2, <2>1
  <2> DEFINE g == [i \in 1..m |-> IF i = m THEN Ups(f, leaf, index, all, path, m) ELSE f[i]]
  <2>3. \A i \in 1..(m - 1) : g[i] = f[i]
    BY <2>1
  <2>4. \A i \in 1..m : g[i] = Ups(g, leaf, index, all, path, i)
    <3> SUFFICES ASSUME NEW i \in 1..m PROVE g[i] = Ups(g, leaf, index, all, path, i)
      OBVIOUS
    <3>1. g[i] = Ups(f, leaf, index, all, path, i)
      <4>1. CASE i = m
        BY <4>1
      <4>2. CASE i # m
        <5>1. i \in 1..(m - 1)
          BY <2>1, <4>2
        <5> HIDE DEF g
        <5> QED BY <2>2, <2>3, <5>1 DEF Climbs
      <4> QED BY <4>1, <4>2
    <3>2. \A j \in 1..(i - 1) : f[j] = g[j]
      BY <2>1, <2>3
    <3> HIDE DEF g
    <3>3. Ups(f, leaf, index, all, path, i) = Ups(g, leaf, index, all, path, i)
      BY <3>2, UpsLocal
    <3> QED BY <3>1, <3>3
  <2>5. g = [i \in 1..m |-> g[i]]
    OBVIOUS
  <2>6. Climbs(g, leaf, index, all, path, m)
    <3> HIDE DEF g
    <3> QED BY <2>4, <2>5 DEF Climbs
  <2> HIDE DEF g
  <2> QED BY <1>2, <2>6
<1> QED BY <1>3, <1>4

LEMMA RecomputeSteps ==
    ASSUME NEW leaf, NEW index, NEW all \in Nat, NEW path, Len(path) \in Nat,
           NEW n \in 1..all, NEW lo \in 0..(all - n), NEW rest \in 0..Len(path)
    PROVE  Recompute(leaf, index, all, path)[n][lo][rest]
             = StepUp(Recompute(leaf, index, all, path), leaf, index, path, n, lo, rest)
<1> DEFINE c == CHOOSE f : Climbs(f, leaf, index, all, path, all)
<1>1. Recompute(leaf, index, all, path) = c
  BY DEF Recompute, Climbs, Ups, StepUp
<1>2. Climbs(c, leaf, index, all, path, all)
  BY ClimbsExist
<1> HIDE DEF c
<1>3. c[n] = Ups(c, leaf, index, all, path, n)
  BY <1>2 DEF Climbs
<1>4. c[n][lo][rest] = StepUp(c, leaf, index, path, n, lo, rest)
  BY <1>3 DEF Ups
<1> QED BY <1>1, <1>4

-----------------------------------------------------------------------------
(* What a root proves.                                                     *)

\* A hash is the term it was taken of.
LEMMA HashesDiffer ==
    /\ \A a, b : LeafHash(a) = LeafHash(b) => a = b
    /\ \A a, b, c, d : NodeHash(a, b) = NodeHash(c, d) => a = c /\ b = d
    /\ \A a : LeafHash(a) # NoHash
    /\ \A a, b : NodeHash(a, b) # NoHash
BY DEF LeafHash, NodeHash, NoHash

\* A path that leads from a leaf to the hash of a slice leads there from the
\* leaf that stands at its index.
Bound(leaf, index, leaves, path, n) ==
    \A lo \in 0..(Len(leaves) - n), rest \in 0..Len(path) :
      /\ lo <= index /\ index < lo + n
      /\ Recompute(leaf, index, Len(leaves), path)[n][lo][rest] = Subtree(leaves)[n][lo]
      => leaf = leaves[index + 1]

LEMMA EverySliceBinds ==
    ASSUME NEW leaves, Len(leaves) \in Nat, NEW leaf, NEW index \in Nat,
           NEW path, Len(path) \in Nat
    PROVE  \A n \in 1..Len(leaves) : Bound(leaf, index, leaves, path, n)
<1> DEFINE Bad == {n \in 1..Len(leaves) : ~Bound(leaf, index, leaves, path, n)}
           rec == Recompute(leaf, index, Len(leaves), path)
           mth == Subtree(leaves)
<1>1. SUFFICES ASSUME Bad # {} PROVE FALSE
  OBVIOUS
<1>2. PICK n \in Bad : \A j \in Bad : n <= j
  <2>1. Bad \in SUBSET Nat
    OBVIOUS
  <2> HIDE DEF Bad
  <2> QED BY <1>1, <2>1, SmallestOne
<1>3. n \in 1..Len(leaves) /\ n \in Nat
  OBVIOUS
<1>4. PICK lo \in 0..(Len(leaves) - n), rest \in 0..Len(path) :
        /\ lo <= index /\ index < lo + n
        /\ rec[n][lo][rest] = mth[n][lo]
        /\ leaf # leaves[index + 1]
  BY DEF Bound
<1>5. /\ rec[n][lo][rest] = StepUp(rec, leaf, index, path, n, lo, rest)
      /\ mth[n][lo] = HashOf(mth, leaves, n, lo)
  BY <1>3, RecomputeSteps, SubtreeHashes
<1>6. CASE n = 1
  <2>1. lo = index
    BY <1>4, <1>6
  <2> HIDE DEF rec, mth
  <2> QED BY <1>4, <1>5, <1>6, <2>1, HashesDiffer DEF StepUp, HashOf
<1>7. CASE n # 1
  <2> DEFINE k == SplitPoint(n)
  <2>1. k \in 1..(n - 1)
    BY <1>3, <1>7, SplitInside
  <2> HIDE DEF k
  <2>2. /\ n - k \in 1..(n - 1) /\ ~(n <= k) /\ ~(n <= n - k)
        /\ k \in 1..Len(leaves) /\ n - k \in 1..Len(leaves)
        /\ lo \in 0..(Len(leaves) - k) /\ lo + k \in 0..(Len(leaves) - (n - k))
        /\ lo + n = lo + k + (n - k)
    BY <1>3, <2>1
  <2>3. Bound(leaf, index, leaves, path, k) /\ Bound(leaf, index, leaves, path, n - k)
    BY <1>2, <2>2
  <2>4. mth[n][lo] = NodeHash(mth[k][lo], mth[n - k][lo + k])
    BY <1>5, <1>7 DEF HashOf, k
  <2>5. /\ rest = 0 => rec[n][lo][rest] = NoHash
        /\ rest # 0 /\ index < lo + k =>
             rec[n][lo][rest] \in {NoHash, NodeHash(rec[k][lo][rest - 1], path[rest])}
        /\ rest # 0 /\ ~(index < lo + k) =>
             rec[n][lo][rest] \in {NoHash, NodeHash(path[rest], rec[n - k][lo + k][rest - 1])}
    <3> HIDE DEF rec
    <3> QED BY ONLY <1>5, <1>7 DEF StepUp, k
  <2>6. mth[n][lo] # NoHash
    <3> HIDE DEF mth
    <3> QED BY ONLY <2>4, HashesDiffer
  <2>7. rest # 0
    <3> HIDE DEF rec, mth
    <3> QED BY ONLY <1>4, <2>5, <2>6
  <2>8. rest - 1 \in 0..Len(path)
    BY <2>7
  <2>9. CASE index < lo + k
    <3>1. rec[k][lo][rest - 1] = mth[k][lo]
      <4> HIDE DEF rec, mth
      <4>1. mth[n][lo] = NodeHash(rec[k][lo][rest - 1], path[rest])
        BY ONLY <1>4, <2>5, <2>7, <2>6, <2>9
      <4> QED BY ONLY <2>4, <4>1 DEF NodeHash
    <3> QED BY <1>4, <2>2, <2>3, <2>8, <2>9, <3>1 DEF Bound
  <2>10. CASE ~(index < lo + k)
    <3>1. rec[n - k][lo + k][rest - 1] = mth[n - k][lo + k]
      <4> HIDE DEF rec, mth
      <4>1. mth[n][lo] = NodeHash(path[rest], rec[n - k][lo + k][rest - 1])
        BY ONLY <1>4, <2>5, <2>7, <2>6, <2>10
      <4> QED BY ONLY <2>4, <4>1 DEF NodeHash
    <3>2. lo + k <= index /\ index < lo + k + (n - k)
      BY <1>4, <2>1, <2>2, <2>10
    <3> QED BY <1>4, <2>2, <2>3, <2>8, <3>1, <3>2 DEF Bound
  <2> QED BY <2>9, <2>10
<1> QED BY <1>6, <1>7

\* What is proved at an index against the root of some leaves is the leaf that
\* stands there: neither another leaf nor the leaf of another place is, whatever
\* path is offered (verify_proof, merkle.rs).
THEOREM RootBinds ==
    ASSUME NEW leaves, IsLog(leaves), NEW path, IsLog(path), NEW leaf, NEW index \in Nat,
           VerifyProof(Root(leaves), leaf, index, Len(leaves), path)
    PROVE  leaf = leaves[index + 1]
<1>1. Len(leaves) \in Nat /\ Len(path) \in Nat /\ index < Len(leaves)
  BY LogShape DEF VerifyProof
<1>2. leaves # <<>>
  BY <1>1, LogShape
<1>3. Recompute(leaf, index, Len(leaves), path)[Len(leaves)][0][Len(path)]
        = Subtree(leaves)[Len(leaves)][0]
  BY <1>2 DEF VerifyProof, Root
<1>4. Bound(leaf, index, leaves, path, Len(leaves))
  BY <1>1, EverySliceBinds
<1>5. /\ 0 \in 0..(Len(leaves) - Len(leaves)) /\ Len(path) \in 0..Len(path)
      /\ 0 <= index /\ index < 0 + Len(leaves)
  BY <1>1
<1> QED BY <1>3, <1>4, <1>5 DEF Bound

\* The path issued for a leaf leads from it to the hash of every slice that
\* holds it.
Reaches(index, leaves, path, n) ==
    \A lo \in 0..(Len(leaves) - n) : lo <= index /\ index < lo + n =>
      LET s == Siblings(leaves, index)[n][lo]
      IN  /\ IsLog(s)
          /\ Len(s) <= Len(path) /\ (\A i \in 1..Len(s) : path[i] = s[i]) =>
               Recompute(leaves[index + 1], index, Len(leaves), path)[n][lo][Len(s)]
                 = Subtree(leaves)[n][lo]

LEMMA EverySliceReached ==
    ASSUME NEW leaves, Len(leaves) \in Nat, NEW index \in Nat,
           NEW path, Len(path) \in Nat
    PROVE  \A n \in 1..Len(leaves) : Reaches(index, leaves, path, n)
<1> DEFINE Bad == {n \in 1..Len(leaves) : ~Reaches(index, leaves, path, n)}
           rec == Recompute(leaves[index + 1], index, Len(leaves), path)
           mth == Subtree(leaves)
           sib == Siblings(leaves, index)
<1>1. SUFFICES ASSUME Bad # {} PROVE FALSE
  OBVIOUS
<1>2. PICK n \in Bad : \A j \in Bad : n <= j
  <2>1. Bad \in SUBSET Nat
    OBVIOUS
  <2> HIDE DEF Bad
  <2> QED BY <1>1, <2>1, SmallestOne
<1>3. n \in 1..Len(leaves) /\ n \in Nat
  OBVIOUS
<1>4. SUFFICES ASSUME NEW lo \in 0..(Len(leaves) - n), lo <= index, index < lo + n
               PROVE  /\ IsLog(sib[n][lo])
                      /\ /\ Len(sib[n][lo]) <= Len(path)
                         /\ \A i \in 1..Len(sib[n][lo]) : path[i] = sib[n][lo][i]
                         => rec[n][lo][Len(sib[n][lo])] = mth[n][lo]
  BY DEF Reaches
<1>5. /\ \A rest \in 0..Len(path) :
            rec[n][lo][rest] = StepUp(rec, leaves[index + 1], index, path, n, lo, rest)
      /\ mth[n][lo] = HashOf(mth, leaves, n, lo)
      /\ sib[n][lo] = PathOf(sib, leaves, index, n, lo)
  BY <1>3, RecomputeSteps, SubtreeHashes, SiblingsPaths
<1>6. CASE n = 1
  <2>1. lo = index /\ 0 \in 0..Len(path)
    BY <1>4, <1>6
  <2>2. sib[n][lo] = <<>>
    BY <1>5, <1>6 DEF PathOf
  <2> HIDE DEF rec, mth, sib
  <2> QED BY <1>5, <1>6, <2>1, <2>2, EmptyLog DEF StepUp, HashOf
<1>7. CASE n # 1
  <2> DEFINE k == SplitPoint(n)
  <2>1. k \in 1..(n - 1)
    BY <1>3, <1>7, SplitInside
  <2> HIDE DEF k
  <2>2. /\ n - k \in 1..(n - 1) /\ ~(n <= k) /\ ~(n <= n - k)
        /\ k \in 1..Len(leaves) /\ n - k \in 1..Len(leaves)
        /\ lo \in 0..(Len(leaves) - k) /\ lo + k \in 0..(Len(leaves) - (n - k))
        /\ lo + n = lo + k + (n - k)
    BY <1>3, <2>1
  <2>3. Reaches(index, leaves, path, k) /\ Reaches(index, leaves, path, n - k)
    BY <1>2, <2>2
  <2>4. mth[n][lo] = NodeHash(mth[k][lo], mth[n - k][lo + k])
    BY <1>5, <1>7 DEF HashOf, k
  <2>5. mth[k][lo] # NoHash /\ mth[n - k][lo + k] # NoHash
    <3>1. /\ mth[k][lo] = HashOf(mth, leaves, k, lo)
          /\ mth[n - k][lo + k] = HashOf(mth, leaves, n - k, lo + k)
      BY <2>2, SubtreeHashes
    <3>2. \A i, j : HashOf(mth, leaves, i, j) # NoHash
      <4> HIDE DEF mth
      <4> QED BY ONLY HashesDiffer, Zenon DEF HashOf
    <3> HIDE DEF mth
    <3> QED BY ONLY <3>1, <3>2
  <2>6. CASE index < lo + k
    <3> DEFINE p == sib[k][lo]
               h == mth[n - k][lo + k]
    <3>1. sib[n][lo] = Append(p, h)
      BY <1>5, <1>7, <2>6 DEF PathOf, k
    <3>2. IsLog(p) /\ (Len(p) <= Len(path) /\ (\A i \in 1..Len(p) : path[i] = p[i]) =>
                         rec[k][lo][Len(p)] = mth[k][lo])
      BY <1>4, <2>2, <2>3, <2>6 DEF Reaches
    <3> HIDE DEF p, h
    <3>3. /\ IsLog(sib[n][lo]) /\ Len(sib[n][lo]) = Len(p) + 1 /\ Len(p) \in Nat
          /\ \A i \in 1..Len(p) : sib[n][lo][i] = p[i]
          /\ sib[n][lo][Len(p) + 1] = h
      BY <3>1, <3>2, LogAppended, LogShape
    <3>4. ASSUME Len(sib[n][lo]) <= Len(path),
                 \A i \in 1..Len(sib[n][lo]) : path[i] = sib[n][lo][i]
          PROVE  rec[n][lo][Len(sib[n][lo])] = mth[n][lo]
      <4> DEFINE r == Len(p) + 1
      <4>1. /\ r \in 0..Len(path) /\ r # 0 /\ r - 1 = Len(p) /\ Len(p) <= Len(path)
            /\ r \in 1..Len(sib[n][lo])
            /\ \A i \in 1..Len(p) : i \in 1..Len(sib[n][lo])
        BY <3>3, <3>4
      <4>2. path[r] = h /\ \A i \in 1..Len(p) : path[i] = p[i]
        BY <3>3, <3>4, <4>1
      <4>3. rec[k][lo][r - 1] = mth[k][lo]
        BY <3>2, <4>1, <4>2
      <4>4. rec[n][lo][r] = StepUp(rec, leaves[index + 1], index, path, n, lo, r)
        BY <1>5, <4>1
      <4> HIDE DEF rec, mth, sib, r
      <4>5. rec[n][lo][r] = NodeHash(mth[k][lo], h)
        BY <1>7, <2>5, <2>6, <4>1, <4>2, <4>3, <4>4 DEF StepUp, k
      <4> QED BY <2>4, <3>3, <4>5 DEF h, r
    <3> QED BY <3>3, <3>4
  <2>7. CASE ~(index < lo + k)
    <3> DEFINE p == sib[n - k][lo + k]
               h == mth[k][lo]
    <3>1. sib[n][lo] = Append(p, h)
      BY <1>5, <1>7, <2>7 DEF PathOf, k
    <3>2. lo + k <= index /\ index < lo + k + (n - k)
      BY <1>4, <2>1, <2>2, <2>7
    <3>3. IsLog(p) /\ (Len(p) <= Len(path) /\ (\A i \in 1..Len(p) : path[i] = p[i]) =>
                         rec[n - k][lo + k][Len(p)] = mth[n - k][lo + k])
      BY <2>2, <2>3, <3>2 DEF Reaches
    <3> HIDE DEF p, h
    <3>4. /\ IsLog(sib[n][lo]) /\ Len(sib[n][lo]) = Len(p) + 1 /\ Len(p) \in Nat
          /\ \A i \in 1..Len(p) : sib[n][lo][i] = p[i]
          /\ sib[n][lo][Len(p) + 1] = h
      BY <3>1, <3>3, LogAppended, LogShape
    <3>5. ASSUME Len(sib[n][lo]) <= Len(path),
                 \A i \in 1..Len(sib[n][lo]) : path[i] = sib[n][lo][i]
          PROVE  rec[n][lo][Len(sib[n][lo])] = mth[n][lo]
      <4> DEFINE r == Len(p) + 1
      <4>1. /\ r \in 0..Len(path) /\ r # 0 /\ r - 1 = Len(p) /\ Len(p) <= Len(path)
            /\ r \in 1..Len(sib[n][lo])
            /\ \A i \in 1..Len(p) : i \in 1..Len(sib[n][lo])
        BY <3>4, <3>5
      <4>2. path[r] = h /\ \A i \in 1..Len(p) : path[i] = p[i]
        BY <3>4, <3>5, <4>1
      <4>3. rec[n - k][lo + k][r - 1] = mth[n - k][lo + k]
        BY <3>3, <4>1, <4>2
      <4>4. rec[n][lo][r] = StepUp(rec, leaves[index + 1], index, path, n, lo, r)
        BY <1>5, <4>1
      <4> HIDE DEF rec, mth, sib, r
      <4>5. rec[n][lo][r] = NodeHash(h, mth[n - k][lo + k])
        BY <1>7, <2>5, <2>7, <4>1, <4>2, <4>3, <4>4 DEF StepUp, k
      <4> QED BY <2>4, <3>4, <4>5 DEF h, r
    <3> QED BY <3>4, <3>5
  <2> QED BY <2>6, <2>7
<1> QED BY <1>6, <1>7

\* The path that is issued for a leaf proves it against the root (proof and
\* verify_proof, merkle.rs).
THEOREM IssuedPathProves ==
    ASSUME NEW leaves, IsLog(leaves), NEW index \in Nat, index < Len(leaves)
    PROVE  /\ IsLog(Path(leaves, index))
           /\ VerifyProof(Root(leaves), leaves[index + 1], index, Len(leaves),
                          Path(leaves, index))
<1> DEFINE p == Path(leaves, index)
           n == Len(leaves)
<1>1. n \in Nat /\ n \in 1..n /\ 0 \in 0..(n - n) /\ 0 <= index /\ index < 0 + n
  BY LogShape
<1>2. leaves # <<>>
  BY <1>1, LogShape
<1>3. p = Siblings(leaves, index)[n][0]
  BY DEF Path
<1>4. Reaches(index, leaves, <<>>, n)
  BY <1>1, EmptyLog, EverySliceReached
<1> HIDE DEF p
<1>5. IsLog(p)
  BY <1>1, <1>3, <1>4 DEF Reaches
<1>6. Len(p) \in Nat
  BY <1>5, LogShape
<1>7. Reaches(index, leaves, p, n)
  BY <1>1, <1>6, EverySliceReached
<1>8. Recompute(leaves[index + 1], index, n, p)[n][0][Len(p)] = Subtree(leaves)[n][0]
  BY <1>1, <1>3, <1>6, <1>7 DEF Reaches
<1> QED BY <1>1, <1>2, <1>5, <1>8 DEF VerifyProof, Root, p

=============================================================================
