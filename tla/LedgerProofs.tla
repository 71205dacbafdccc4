---------------------------- MODULE LedgerProofs ----------------------------
(***************************************************************************)
(* That Ok means stable, for every number of processes, threads, events    *)
(* and failures: a reader that takes no lock finds every event whose       *)
(* append returned Ok, until some line is left unfinished.                 *)
(***************************************************************************)
EXTENDS Ledger, TLAPS, WellFoundedInduction, SequenceTheorems, FiniteSetTheorems

\* A non-empty set of naturals has a least element.
LEMMA LeastExists ==
    ASSUME NEW S \in SUBSET Nat, S # {}
    PROVE  \E x \in S : \A y \in S : x <= y
<1>1. PICK x \in S : \A y \in S : ~ (<<y, x>> \in OpToRel(<, Nat))
  BY NatLessThanWellFounded, WFMin
<1>2. ASSUME NEW y \in S, ~ (x <= y) PROVE FALSE
  <2>1. <<y, x>> \in Nat \X Nat /\ <<y, x>>[1] < <<y, x>>[2]
    BY <1>2
  <2>2. <<y, x>> \in OpToRel(<, Nat)
    BY <2>1 DEF OpToRel
  <2> QED BY <2>2, <1>1
<1> QED BY <1>2

\* Positions come in threes.
LEMMA Thirds ==
    ASSUME NEW i \in Nat, i # 0
    PROVE  \E k \in Nat : 3 * k < i /\ i <= 3 * k + 3
<1> DEFINE S == {k \in Nat : i <= 3 * k + 3}
<1>1. S \in SUBSET Nat /\ i \in S
  OBVIOUS
<1>2. PICK k \in S : \A j \in S : k <= j
  BY <1>1, LeastExists
<1>3. 3 * k < i
  <2>1. CASE k = 0
    BY <2>1
  <2>2. CASE k # 0
    <3>1. k - 1 \in Nat /\ ~ (k <= k - 1)
      BY <2>2
    <3>2. k - 1 \notin S
      BY <3>1, <1>2
    <3> QED BY <3>1, <3>2
  <2> QED BY <2>1, <2>2
<1> QED BY <1>3

-----------------------------------------------------------------------------
(* A line that parses.                                                     *)

\* The pieces of e, and the end of the line or of the file behind them.
Spells(f, i, e) ==
    /\ i + 1 \in DOMAIN f
    /\ f[i] = <<e, 1>> /\ f[i + 1] = <<e, 2>>
    /\ i + 2 \in DOMAIN f => f[i + 2] = Newline

Spelled(e) == <<<<e, 1>>, <<e, 2>>>>

LEMMA GoodLine ==
    ASSUME NEW f \in Seq(Chunks), NEW i \in Starts(f)
    PROVE  i \in Good(f) <=> \E e \in 1..MaxEvents : Spells(f, i, e)
<1> DEFINE ends == {j \in i..Len(f) : f[j] = Newline}
           m == IF ends = {} THEN Len(f) ELSE Min(ends) - 1
<1>1. /\ i \in 1..Len(f) /\ Len(f) \in Nat /\ DOMAIN f = 1..Len(f) /\ i \in Nat
      /\ f[i] # Newline
  BY DEF Starts
<1>2. LineAt(f, i) = SubSeq(f, i, m)
  BY DEF LineAt
<1>3. /\ m \in Nat /\ i <= m /\ m <= Len(f)
      /\ m < Len(f) => f[m + 1] = Newline
      /\ \A j \in i..m : f[j] # Newline
  <2>1. CASE ends = {}
    <3>1. m = Len(f)
      BY <2>1
    <3>2. \A j \in i..Len(f) : f[j] # Newline
      BY <2>1
    <3> HIDE DEF m, ends
    <3> QED BY <1>1, <3>1, <3>2
  <2>2. CASE ends # {}
    <3>1. ends \in SUBSET Nat
      BY <1>1
    <3>2. PICK x \in ends : \A y \in ends : x <= y
      <4> HIDE DEF ends
      <4> QED BY <2>2, <3>1, LeastExists
    <3>3. Min(ends) = x
      <4>1. \A y \in ends : (\A z \in ends : y <= z) => y = x
        <5> SUFFICES ASSUME NEW y \in ends, \A z \in ends : y <= z PROVE y = x
          OBVIOUS
        <5>1. y <= x /\ x <= y /\ x \in Nat /\ y \in Nat
          BY ONLY <3>1, <3>2, \A z \in ends : y <= z, y \in ends, x \in ends
        <5> QED BY ONLY <5>1
      <4> HIDE DEF ends
      <4> QED BY ONLY <3>2, <4>1, x \in ends DEF Min
    <3>4. m = x - 1
      <4> HIDE DEF ends
      <4> QED BY <2>2, <3>3
    <3>5. x \in i..Len(f) /\ f[x] = Newline /\ x # i
      BY <1>1, <3>2
    <3>6. \A j \in i..(x - 1) : f[j] # Newline
      <4> SUFFICES ASSUME NEW j \in i..(x - 1), f[j] = Newline PROVE FALSE
        OBVIOUS
      <4>1. j \in ends /\ ~(x <= j)
        BY <1>1, <3>5
      <4> HIDE DEF ends
      <4> QED BY <3>2, <4>1
    <3> HIDE DEF m, ends
    <3> QED BY <1>1, <3>4, <3>5, <3>6
  <2> QED BY <2>1, <2>2
<1> HIDE DEF m
<1>4. /\ Len(SubSeq(f, i, m)) = m - i + 1 /\ SubSeq(f, i, m) \in Seq(Chunks)
      /\ \A j \in 1..(m - i + 1) : SubSeq(f, i, m)[j] = f[i + j - 1]
  <2>1. i \in Int /\ m \in Int
    BY ONLY <1>1, <1>3
  <2>2. \A j \in i..m : j \in 1..Len(f)
    BY ONLY <1>1, <1>3
  <2>3. \A j \in i..m : f[j] \in Chunks
    BY <1>1, <2>2
  <2> QED BY <1>3, <2>1, <2>3, SubSeqProperties
<1>5. ASSUME i \in Good(f) PROVE \E e \in 1..MaxEvents : Spells(f, i, e)
  <2>1. PICK e \in 1..MaxEvents : SubSeq(f, i, m) = Spelled(e)
    BY <1>2, <1>5 DEF Good, Parses, Spelled
  <2>2. Len(Spelled(e)) = 2 /\ Spelled(e)[1] = <<e, 1>> /\ Spelled(e)[2] = <<e, 2>>
    BY DEF Spelled
  <2>3. m = i + 1
    <3>1. m - i + 1 = 2
      BY ONLY <1>4, <2>1, <2>2
    <3> QED BY ONLY <1>1, <1>3, <3>1
  <2>4. f[i] = <<e, 1>> /\ f[i + 1] = <<e, 2>>
    <3>1. /\ 1 \in 1..(m - i + 1) /\ 2 \in 1..(m - i + 1)
          /\ i + 1 - 1 = i /\ i + 2 - 1 = i + 1
      BY <1>1, <2>3
    <3> QED BY <1>4, <2>1, <2>2, <3>1
  <2>5. i + 1 \in DOMAIN f /\ (i + 2 \in DOMAIN f => f[i + 2] = Newline)
    BY ONLY <1>1, <1>3, <2>3
  <2> QED BY <2>4, <2>5 DEF Spells
<1>6. ASSUME NEW e \in 1..MaxEvents, Spells(f, i, e) PROVE i \in Good(f)
  <2>1. /\ i + 1 \in 1..Len(f) /\ f[i] = <<e, 1>> /\ f[i + 1] = <<e, 2>>
        /\ i + 2 \in 1..Len(f) => f[i + 2] = Newline
        /\ e \in Nat /\ e # 0
    BY <1>1, <1>6, LedgerAssumption DEF Spells
  <2>2. f[i + 1] # Newline
    BY <2>1 DEF Newline
  <2>3. m = i + 1
    <3>1. m # i
      <4> SUFFICES ASSUME m = i PROVE FALSE
        OBVIOUS
      <4>1. m < Len(f)
        BY ONLY <1>1, <2>1, m = i
      <4> QED BY ONLY <1>3, <2>2, <4>1, m = i
    <3>2. ~(i + 2 <= m)
      <4> SUFFICES ASSUME i + 2 <= m PROVE FALSE
        OBVIOUS
      <4>1. i + 2 \in 1..Len(f) /\ i + 2 \in i..m
        BY ONLY <1>1, <1>3, i + 2 <= m
      <4> QED BY ONLY <1>3, <2>1, <4>1
    <3> QED BY ONLY <1>1, <1>3, <3>1, <3>2
  <2> DEFINE read == SubSeq(f, i, m)
  <2>4. Len(read) = 2 /\ read[1] = <<e, 1>> /\ read[2] = <<e, 2>> /\ read \in Seq(Chunks)
    <3>1. /\ m - i + 1 = 2 /\ 1 \in 1..2 /\ 2 \in 1..2
          /\ i + 1 - 1 = i /\ i + 2 - 1 = i + 1
      BY <1>1, <2>3
    <3> QED BY <1>4, <2>1, <3>1
  <2>5. /\ Spelled(e) \in Seq(Chunks) /\ Len(Spelled(e)) = 2
        /\ Spelled(e)[1] = <<e, 1>> /\ Spelled(e)[2] = <<e, 2>>
    BY DEF Chunks, Spelled
  <2> HIDE DEF read
  <2>6. \A j \in 1..Len(read) : read[j] = Spelled(e)[j]
    <3>1. \A j \in 1..Len(read) : j \in {1, 2}
      BY ONLY <2>4
    <3> QED BY ONLY <2>4, <2>5, <3>1
  <2>7. read = Spelled(e)
    BY <2>4, <2>5, <2>6, SeqEqual
  <2> QED BY <1>2, <2>7 DEF Good, Parses, Spelled, read
<1> QED BY <1>5, <1>6

-----------------------------------------------------------------------------
(* What a reader makes of a file of q lines and at most the beginning of   *)
(* one more.                                                               *)

\* Line k + 1 of the file is the one of e.
Holds(f, k, e) ==
    /\ f[3 * k + 1] = <<e, 1>>
    /\ f[3 * k + 2] = <<e, 2>>
    /\ f[3 * k + 3] = Newline

Whole(f, q) == \A k \in 0..(q - 1) : \E e \in 1..MaxEvents : Holds(f, k, e)

Aligned(f, q) ==
    /\ f \in Seq(Chunks) /\ q \in Nat
    /\ 3 * q <= Len(f) /\ Len(f) <= 3 * q + 2
    /\ Whole(f, q)
    /\ \A i \in (3 * q + 1)..Len(f) : f[i] # Newline

LEMMA NewlinesAligned ==
    ASSUME NEW f, NEW q, Aligned(f, q), NEW i \in 1..Len(f)
    PROVE  f[i] = Newline <=> \E k \in 0..(q - 1) : i = 3 * k + 3
<1> USE DEF Aligned
<1>0. Len(f) \in Nat
  OBVIOUS
<1>1. CASE i > 3 * q
  <2>1. f[i] # Newline
    BY <1>0, <1>1
  <2>2. \A k \in 0..(q - 1) : i # 3 * k + 3
    BY <1>0, <1>1
  <2> QED BY <2>1, <2>2
<1>2. CASE i <= 3 * q
  <2>0. i \in Nat /\ i # 0
    BY <1>0
  <2>1. PICK k \in Nat : 3 * k < i /\ i <= 3 * k + 3
    BY <2>0, Thirds
  <2>2. k \in 0..(q - 1)
    BY <2>1, <1>2
  <2>3. PICK e \in 1..MaxEvents : Holds(f, k, e)
    BY <2>2 DEF Whole
  <2>4. <<e, 1>> # Newline /\ <<e, 2>> # Newline
    BY LedgerAssumption DEF Newline
  <2>5. i \in {3 * k + 1, 3 * k + 2, 3 * k + 3}
    BY <2>1
  <2>6. f[i] = Newline <=> i = 3 * k + 3
    BY <2>3, <2>4, <2>5 DEF Holds
  <2>7. \A j \in 0..(q - 1) : i = 3 * j + 3 => j = k
    BY <2>1
  <2> QED BY <2>2, <2>6, <2>7
<1> QED BY <1>0, <1>1, <1>2

LEMMA StartsAligned ==
    ASSUME NEW f, NEW q, Aligned(f, q), NEW i \in Starts(f)
    PROVE  \E k \in 0..q : i = 3 * k + 1
<1>0. /\ i \in 1..Len(f) /\ Len(f) \in Nat
      /\ f[i] # Newline
      /\ i = 1 \/ f[i - 1] = Newline
  BY DEF Starts, Aligned
<1>1. CASE i = 1
  BY <1>1 DEF Aligned
<1>2. CASE i # 1
  <2>1. i - 1 \in 1..Len(f) /\ f[i - 1] = Newline
    BY <1>0, <1>2
  <2>2. PICK k \in 0..(q - 1) : i - 1 = 3 * k + 3
    BY <2>1, NewlinesAligned
  <2>3. k + 1 \in 0..q /\ i = 3 * (k + 1) + 1
    BY <2>2, <1>0 DEF Aligned
  <2> QED BY <2>3
<1> QED BY <1>1, <1>2

LEMMA LineAligned ==
    ASSUME NEW f, NEW q, Aligned(f, q), NEW k \in 0..(q - 1),
           NEW e \in 1..MaxEvents, Holds(f, k, e)
    PROVE  /\ 3 * k + 1 \in Good(f)
           /\ e \in Events(f)
<1> DEFINE i == 3 * k + 1
<1>1. /\ q \in Nat /\ k \in Nat /\ k <= q - 1 /\ Len(f) \in Nat /\ 3 * q <= Len(f)
      /\ e \in Nat /\ e # 0 /\ DOMAIN f = 1..Len(f) /\ f \in Seq(Chunks)
  BY LedgerAssumption DEF Aligned
<1>2. f[i] = <<e, 1>> /\ f[i + 1] = <<e, 2>> /\ f[i + 2] = Newline
  BY <1>1 DEF Holds
<1>3. f[i] # Newline
  BY <1>1, <1>2 DEF Newline
<1>4. i \in DOMAIN f /\ i + 1 \in DOMAIN f
  BY <1>1
<1>5. i \in Starts(f)
  <2>1. CASE k = 0
    BY <1>3, <1>4, <2>1 DEF Starts
  <2>2. CASE k # 0
    <3>1. k - 1 \in 0..(q - 1) /\ i - 1 = 3 * (k - 1) + 3 /\ i - 1 \in 1..Len(f)
      BY <1>1, <2>2
    <3>2. f[i - 1] = Newline
      BY <3>1, NewlinesAligned
    <3> QED BY <1>3, <1>4, <3>2 DEF Starts
  <2> QED BY <2>1, <2>2
<1>6. f[i][1] = e
  BY <1>2
<1> HIDE DEF i
<1>7. i \in Good(f)
  BY <1>1, <1>2, <1>4, <1>5, GoodLine DEF Spells
<1>8. e \in Events(f)
  BY <1>6, <1>7 DEF Events
<1> QED BY <1>7, <1>8 DEF i

\* Only the last line may not parse.
LEMMA AlignedSound ==
    ASSUME NEW f, NEW q, Aligned(f, q) PROVE ~Corrupt(f)
<1> SUFFICES ASSUME NEW i \in Starts(f), ~Parses(LineAt(f, i)) PROVE i = Max(Starts(f))
  BY DEF Corrupt
<1>1. PICK k \in 0..q : i = 3 * k + 1
  BY StartsAligned
<1>2. k = q
  <2> SUFFICES ASSUME k # q PROVE FALSE
    OBVIOUS
  <2>1. k \in 0..(q - 1)
    BY DEF Aligned
  <2>2. PICK e \in 1..MaxEvents : Holds(f, k, e)
    BY <2>1 DEF Aligned, Whole
  <2>3. i \in Good(f)
    BY <2>1, <2>2, <1>1, LineAligned
  <2> QED BY <2>3 DEF Good
<1>3. \A j \in Starts(f) : i >= j
  <2> SUFFICES ASSUME NEW j \in Starts(f) PROVE i >= j
    OBVIOUS
  <2>1. PICK l \in 0..q : j = 3 * l + 1
    BY StartsAligned
  <2> QED BY <1>1, <1>2, <2>1 DEF Aligned
<1>4. \A j \in Starts(f) : j \in Nat
  BY DEF Starts, Aligned
<1>5. \A x \in Starts(f) : (\A y \in Starts(f) : x >= y) => x = i
  BY <1>3, <1>4
<1> QED BY <1>3, <1>5 DEF Max

-----------------------------------------------------------------------------
(***************************************************************************)
(* The inductive invariant.                                                *)
(***************************************************************************)
Critical == {"writing", "syncing", "unlocking"}

TypeInv ==
    /\ TypeOK
    /\ \A w \in Writers :
         /\ pc[w] # "idle" => event[w] \in 1..issued
         /\ pc[w] \in {"calling", "locking"} => written[w] = 0
         /\ pc[w] = "writing" => written[w] < 3

\* A thread at the file holds the mutex of its Ledger and, for it, the file.
LockInv ==
    \A w \in Writers :
        /\ pc[w] \in {"locking"} \cup Critical => mutex[Of[w]] = w
        /\ pc[w] \in Critical => flock = Of[w]

\* e has its line among the first n pieces of f.
Within(f, n, e) ==
    \E i \in Nat : /\ i + 3 <= n
                  /\ f[i + 1] = <<e, 1>> /\ f[i + 2] = <<e, 2>> /\ f[i + 3] = Newline

\* The file is whole lines and what the writer has written of its own.
LinesInv ==
    \E q \in Nat :
        /\ Whole(file, q)
        /\ (\A w \in Writers : pc[w] # "writing") => Len(file) = 3 * q
        /\ \A w \in Writers : pc[w] = "writing" =>
              /\ Len(file) = 3 * q + written[w]
              /\ \A n \in 1..written[w] : file[3 * q + n] = <<event[w], n>>

StableInv == cuts = 0 => LinesInv

LedgerInv == TypeInv /\ LockInv /\ StableInv

\* One thread of one process is at the file.
LEMMA Alone ==
    ASSUME LockInv, NEW w \in Writers, NEW v \in Writers,
           pc[w] \in Critical, pc[v] \in Critical
    PROVE  w = v
BY DEF LockInv

\* What was in the file stays where it was when more is written behind it.
LEMMA WithinGrown ==
    ASSUME NEW f \in Seq(Chunks), NEW g, NEW n \in 0..Len(f), NEW e,
           \A i \in 1..n : g[i] = f[i], Within(f, n, e)
    PROVE  Within(g, n, e)
<1>1. PICK i \in Nat : /\ i + 3 <= n
                     /\ f[i + 1] = <<e, 1>> /\ f[i + 2] = <<e, 2>> /\ f[i + 3] = Newline
  BY DEF Within
<1>2. i + 1 \in 1..n /\ i + 2 \in 1..n /\ i + 3 \in 1..n
  BY <1>1
<1> QED BY <1>1, <1>2 DEF Within

LEMMA WithinMore ==
    ASSUME NEW f, NEW n \in Nat, NEW m \in Nat, n <= m, NEW e, Within(f, n, e)
    PROVE  Within(f, m, e)
BY DEF Within

LEMMA WholeGrown ==
    ASSUME NEW f, NEW g, NEW q \in Nat, \A i \in 1..(3 * q) : g[i] = f[i], Whole(f, q)
    PROVE  Whole(g, q)
<1> SUFFICES ASSUME NEW k \in 0..(q - 1) PROVE \E e \in 1..MaxEvents : Holds(g, k, e)
  BY DEF Whole
<1>1. PICK e \in 1..MaxEvents : Holds(f, k, e)
  BY DEF Whole
<1>2. 3 * k + 1 \in 1..(3 * q) /\ 3 * k + 2 \in 1..(3 * q) /\ 3 * k + 3 \in 1..(3 * q)
  OBVIOUS
<1> QED BY <1>1, <1>2 DEF Holds

\* f with the pieces of e's line after r up to n behind it.
Longer(f, e, r, n) == f \o SubSeq(Line(e), r + 1, n)

LEMMA Written ==
    ASSUME NEW f \in Seq(Chunks), NEW e \in 1..MaxEvents, NEW r \in 0..2, NEW n \in (r + 1)..3
    PROVE  /\ Longer(f, e, r, n) \in Seq(Chunks)
           /\ Len(Longer(f, e, r, n)) = Len(f) + n - r
           /\ \A i \in 1..Len(f) : Longer(f, e, r, n)[i] = f[i]
           /\ \A j \in (r + 1)..n : Longer(f, e, r, n)[Len(f) + j - r] = Line(e)[j]
<1> DEFINE g == Longer(f, e, r, n)
           l == Line(e)
           add == SubSeq(l, r + 1, n)
<1>1. \A i \in (r + 1)..n : l[i] \in Chunks
  <2>1. l[1] \in Chunks /\ l[2] \in Chunks /\ l[3] \in Chunks
    BY DEF Line, Chunks
  <2>2. \A i \in (r + 1)..n : i \in {1, 2, 3}
    OBVIOUS
  <2> HIDE DEF l
  <2> QED BY <2>1, <2>2
<1>2. /\ add \in Seq(Chunks)
      /\ Len(add) = n - r
      /\ \A i \in 1..(n - r) : add[i] = l[r + i]
  <2> HIDE DEF l
  <2>1. r + 1 \in Int /\ n \in Int /\ r + 1 <= n /\ n - (r + 1) + 1 = n - r
    OBVIOUS
  <2>2. /\ add \in Seq(Chunks)
        /\ Len(add) = n - (r + 1) + 1
        /\ \A i \in 1..(n - (r + 1) + 1) : add[i] = l[r + 1 + i - 1]
    BY <2>1, <1>1, SubSeqProperties
  <2>3. \A i \in 1..(n - r) : r + 1 + i - 1 = r + i
    OBVIOUS
  <2> HIDE DEF add
  <2> QED BY <2>1, <2>2, <2>3
<1>3. /\ g \in Seq(Chunks)
      /\ Len(g) = Len(f) + Len(add)
      /\ \A i \in 1..(Len(f) + Len(add)) :
           g[i] = IF i <= Len(f) THEN f[i] ELSE add[i - Len(f)]
  <2> HIDE DEF add
  <2>1. g = f \o add
    BY DEF add, l, Longer
  <2> HIDE DEF g
  <2>2. add \in Seq(Chunks)
    BY <1>2
  <2>3. /\ f \o add \in Seq(Chunks)
        /\ Len(f \o add) = Len(f) + Len(add)
        /\ \A i \in 1..(Len(f) + Len(add)) :
             (f \o add)[i] = IF i <= Len(f) THEN f[i] ELSE add[i - Len(f)]
    BY <2>2, ConcatProperties, Zenon
  <2> QED BY <2>1, <2>3, Zenon
<1>4. Len(f) \in Nat
  OBVIOUS
<1> HIDE DEF add, g
<1>5. \A i \in 1..Len(f) : g[i] = f[i]
  BY <1>2, <1>3, <1>4
<1>6. ASSUME NEW j \in (r + 1)..n PROVE g[Len(f) + j - r] = l[j]
  <2> DEFINE i == Len(f) + j - r
  <2>1. /\ i \in 1..(Len(f) + Len(add))
        /\ ~ (i <= Len(f))
        /\ i - Len(f) = j - r
        /\ j - r \in 1..(n - r) /\ r + (j - r) = j
    BY <1>2, <1>4
  <2> HIDE DEF i
  <2>2. g[i] = add[j - r]
    BY <2>1, <1>3
  <2>3. add[j - r] = l[r + (j - r)]
    BY <2>1, <1>2
  <2> QED BY <2>1, <2>2, <2>3 DEF i
<1>7. Len(g) = Len(f) + n - r
  BY <1>2, <1>3, <1>4
<1> QED BY <1>3, <1>5, <1>6, <1>7 DEF g

-----------------------------------------------------------------------------
(* Every step keeps the types and the locks.                               *)

LEMMA InitKeeps == Init => LedgerInv
<1> SUFFICES ASSUME Init PROVE LedgerInv
  OBVIOUS
<1>1. TypeInv
  BY LedgerAssumption DEF Init, TypeInv, TypeOK
<1>2. LockInv
  BY DEF Init, LockInv, Critical
<1>3. LinesInv
  <2>1. Whole(file, 0) /\ Len(file) = 3 * 0
    BY DEF Init, Whole
  <2>2. \A w \in Writers : pc[w] # "writing"
    BY DEF Init
  <2> QED BY <2>1, <2>2 DEF LinesInv
<1> QED BY <1>1, <1>2, <1>3 DEF LedgerInv, StableInv

LEMMA TypeStep == TypeInv /\ [Next]_vars => TypeInv'
<1> SUFFICES ASSUME TypeInv, [Next]_vars PROVE TypeInv'
  OBVIOUS
<1> USE LedgerAssumption DEF TypeInv, TypeOK, Goto, calls, locks, history, Fault
<1>1. ASSUME NEW w \in Writers, Call(w) PROVE TypeInv'
  BY <1>1 DEF Call
<1>2. ASSUME NEW w \in Writers, LockMutex(w) PROVE TypeInv'
  BY <1>2 DEF LockMutex, MutexFree
<1>3. ASSUME NEW w \in Writers, LockFile(w) PROVE TypeInv'
  BY <1>3 DEF LockFile, FlockFree
<1>4. ASSUME NEW w \in Writers, Write(w) PROVE TypeInv'
  <2>1. /\ pc[w] = "writing" /\ written[w] \in 0..2 /\ event[w] \in 1..MaxEvents
        /\ Len(Line(event[w])) = 3
    BY <1>4 DEF Write, Line
  <2>2. PICK n \in (written[w] + 1)..3 :
           /\ file' = Longer(file, event[w], written[w], n)
           /\ written' = [written EXCEPT ![w] = n]
           /\ pc' = [pc EXCEPT ![w] = IF n = 3 THEN "syncing" ELSE "writing"]
    BY <1>4, <2>1 DEF Write, Longer
  <2>3. file' \in Seq(Chunks) /\ Len(file') = Len(file) + n - written[w]
    <3> DEFINE e == event[w]
               r == written[w]
               g == Longer(file, e, r, n)
    <3>1. /\ file \in Seq(Chunks) /\ e \in 1..MaxEvents /\ r \in 0..2 /\ n \in (r + 1)..3
      BY <2>1
    <3> HIDE DEF e, r, g, TypeInv, TypeOK
    <3>2. g \in Seq(Chunks) /\ Len(g) = Len(file) + n - r
      BY ONLY <3>1, Written DEF g
    <3>3. file' = g /\ r = written[w]
      BY <2>2 DEF e, r, g
    <3> QED BY ONLY <3>2, <3>3
  <2>4. synced' \in 0..Len(file')
    BY <2>1, <2>3, <1>4 DEF Write
  <2>5. /\ pc' \in [Writers -> {"idle", "calling", "locking", "writing", "syncing",
                               "unlocking"}]
        /\ written' \in [Writers -> 0..3]
    BY <2>1, <2>2
  <2>6. UNCHANGED <<mutex, flock, event, result, issued, acked, lost, cuts, faults>>
    BY <1>4 DEF Write
  <2>7. TypeOK'
    BY <2>3, <2>4, <2>5, <2>6
  <2>8. \A v \in Writers :
          /\ pc'[v] # "idle" => event'[v] \in 1..issued'
          /\ pc'[v] \in {"calling", "locking"} => written'[v] = 0
          /\ pc'[v] = "writing" => written'[v] < 3
    BY <2>1, <2>2, <2>6
  <2> HIDE DEF TypeOK
  <2> QED BY <2>7, <2>8
<1>5. ASSUME NEW w \in Writers, WriteFails(w) PROVE TypeInv'
  BY <1>5 DEF WriteFails
<1>6. ASSUME NEW w \in Writers, Sync(w) PROVE TypeInv'
  BY <1>6 DEF Sync, Synced
<1>7. ASSUME NEW w \in Writers, SyncFails(w) PROVE TypeInv'
  BY <1>7 DEF SyncFails, SyncFailed
<1>8. ASSUME NEW w \in Writers, Return(w) PROVE TypeInv'
  BY <1>8 DEF Return, Unlocked
<1>9. ASSUME NEW l \in Ledgers, Die(l) PROVE TypeInv'
  BY <1>9 DEF Die
<1>10. ASSUME PowerLoss PROVE TypeInv'
  <2>1. PICK n \in synced..Len(file) : file' = SubSeq(file, 1, n)
    BY <1>10 DEF PowerLoss
  <2>2. n \in 0..Len(file) /\ \A i \in 1..n : file[i] \in Chunks
    OBVIOUS
  <2>3. file' \in Seq(Chunks) /\ Len(file') = n
    BY <2>1, <2>2, SubSeqProperties
  <2>4. synced' \in 0..Len(file')
    BY <1>10, <2>2, <2>3 DEF PowerLoss
  <2> QED BY <1>10, <2>3, <2>4 DEF PowerLoss
<1>11. CASE UNCHANGED vars
  BY <1>11 DEF vars
<1> QED BY <1>1, <1>2, <1>3, <1>4, <1>5, <1>6, <1>7, <1>8, <1>9, <1>10, <1>11
        DEF Next, Continue

LEMMA LockStep == TypeInv /\ LockInv /\ [Next]_vars => LockInv'
<1> SUFFICES ASSUME TypeInv, LockInv, [Next]_vars PROVE LockInv'
  OBVIOUS
<1> USE LedgerAssumption DEF TypeInv, TypeOK, LockInv, Critical, Goto, calls, locks, history, Fault
<1>1. ASSUME NEW w \in Writers, Call(w) PROVE LockInv'
  BY <1>1 DEF Call
<1>2. ASSUME NEW w \in Writers, LockMutex(w) PROVE LockInv'
  BY <1>2 DEF LockMutex, MutexFree
<1>3. ASSUME NEW w \in Writers, LockFile(w) PROVE LockInv'
  BY <1>3 DEF LockFile, FlockFree
<1>4. ASSUME NEW w \in Writers, Write(w) PROVE LockInv'
  BY <1>4 DEF Write
<1>5. ASSUME NEW w \in Writers, WriteFails(w) PROVE LockInv'
  BY <1>5 DEF WriteFails
<1>6. ASSUME NEW w \in Writers, Sync(w) PROVE LockInv'
  BY <1>6 DEF Sync
<1>7. ASSUME NEW w \in Writers, SyncFails(w) PROVE LockInv'
  BY <1>7 DEF SyncFails, SyncFailed
<1>8. ASSUME NEW w \in Writers, Return(w) PROVE LockInv'
  BY <1>8 DEF Return, Unlocked
<1>9. ASSUME NEW l \in Ledgers, Die(l) PROVE LockInv'
  BY <1>9 DEF Die
<1>10. ASSUME PowerLoss PROVE LockInv'
  BY <1>10 DEF PowerLoss
<1>11. CASE UNCHANGED vars
  BY <1>11 DEF vars
<1> QED BY <1>1, <1>2, <1>3, <1>4, <1>5, <1>6, <1>7, <1>8, <1>9, <1>10, <1>11
        DEF Next, Continue

-----------------------------------------------------------------------------
(* Every step keeps the file in whole lines.                               *)

LEMMA LinesKept ==
    ASSUME LinesInv, UNCHANGED file,
           \A v \in Writers :
              /\ pc'[v] = "writing" <=> pc[v] = "writing"
              /\ pc[v] = "writing" => event'[v] = event[v] /\ written'[v] = written[v]
    PROVE  LinesInv'
BY DEF LinesInv, Whole, Holds

\* The writer gave up before it had written anything of its line.
LEMMA LinesLeft ==
    ASSUME TypeInv, LinesInv, UNCHANGED file,
           \A v \in Writers : pc[v] = "writing" => pc'[v] = "writing" \/ written[v] = 0,
           \A v \in Writers : pc'[v] = "writing" =>
              pc[v] = "writing" /\ event'[v] = event[v] /\ written'[v] = written[v]
    PROVE  LinesInv'
<1>1. PICK q \in Nat :
        /\ Whole(file, q)
        /\ (\A w \in Writers : pc[w] # "writing") => Len(file) = 3 * q
        /\ \A w \in Writers : pc[w] = "writing" =>
              /\ Len(file) = 3 * q + written[w]
              /\ \A n \in 1..written[w] : file[3 * q + n] = <<event[w], n>>
  BY DEF LinesInv
<1>2. (\A w \in Writers : pc'[w] # "writing") => Len(file) = 3 * q
  BY <1>1
<1>3. Whole(file', q)
  BY <1>1
<1>4. \A w \in Writers : pc'[w] = "writing" =>
              /\ Len(file') = 3 * q + written'[w]
              /\ \A n \in 1..written'[w] : file'[3 * q + n] = <<event'[w], n>>
  BY <1>1
<1> QED BY <1>2, <1>3, <1>4 DEF LinesInv

\* A writer finds whole lines, writes of its own what it has not written, and
\* leaves whole lines when it is done.
LEMMA WriteLines ==
    ASSUME TypeInv, LockInv, LinesInv, NEW w \in Writers, Write(w)
    PROVE  LinesInv'
<1> DEFINE e == event[w]
           r == written[w]
<1>1. /\ pc[w] = "writing" /\ r \in 0..2 /\ e \in 1..MaxEvents
      /\ file \in Seq(Chunks) /\ Len(file) \in Nat /\ synced \in 0..Len(file)
      /\ Len(Line(e)) = 3
  BY LedgerAssumption DEF Write, Line, TypeInv, TypeOK
<1>2. PICK n \in (r + 1)..3 :
        /\ file' = Longer(file, e, r, n)
        /\ written' = [written EXCEPT ![w] = n]
        /\ pc' = [pc EXCEPT ![w] = IF n = 3 THEN "syncing" ELSE "writing"]
  BY <1>1 DEF Write, Longer, Goto
<1>3. UNCHANGED event
  BY DEF Write
<1>4. \A v \in Writers \ {w} : pc[v] \notin Critical /\ pc'[v] = pc[v]
  <2>1. \A v \in Writers : v # w => pc'[v] = pc[v]
    BY <1>2 DEF TypeInv, TypeOK
  <2> QED BY <2>1, <1>1, Alone DEF Critical
<1>5. pc'[w] = (IF n = 3 THEN "syncing" ELSE "writing") /\ written'[w] = n
  BY <1>2 DEF TypeInv, TypeOK
<1>6. PICK q \in Nat :
        /\ Whole(file, q)
        /\ Len(file) = 3 * q + r
        /\ \A i \in 1..r : file[3 * q + i] = <<e, i>>
  BY <1>1 DEF LinesInv
<1>7. /\ file' \in Seq(Chunks)
      /\ Len(file') = Len(file) + n - r
      /\ \A i \in 1..Len(file) : file'[i] = file[i]
      /\ \A j \in (r + 1)..n : file'[Len(file) + j - r] = Line(e)[j]
  <2> HIDE DEF e, r
  <2> QED BY <1>1, <1>2, Written
<1>8. Line(e)[1] = <<e, 1>> /\ Line(e)[2] = <<e, 2>> /\ Line(e)[3] = Newline
  BY DEF Line
<1>9. Whole(file', q) /\ Len(file') = 3 * q + n
  <2> HIDE DEF e, r
  <2>a. r \in Nat /\ n \in Nat
    BY <1>1
  <2>0. /\ Len(file) = 3 * q + r /\ Len(file') = Len(file) + n - r
        /\ q \in Nat /\ r \in Nat /\ n \in Nat
    BY <1>6, <1>7, <2>a
  <2>1. \A i \in 1..(3 * q) : file'[i] = file[i]
    <3>1. \A i \in 1..(3 * q) : i \in 1..Len(file)
      BY ONLY <2>0
    <3> QED BY ONLY <3>1, <1>7
  <2>2. Len(file') = 3 * q + n
    BY ONLY <2>0
  <2> QED BY <2>1, <2>2, <1>6, WholeGrown
<1>10. \A j \in 1..n : file'[3 * q + j] = Line(e)[j]
  <2> SUFFICES ASSUME NEW j \in 1..n PROVE file'[3 * q + j] = Line(e)[j]
    OBVIOUS
  <2> HIDE DEF e, r
  <2>1. CASE j <= r
    <3>1. 3 * q + j \in 1..Len(file) /\ j \in 1..r
      BY <2>1, <1>1, <1>6
    <3>2. j \in {1, 2}
      BY <3>1, <1>1
    <3>3. file'[3 * q + j] = <<e, j>>
      BY <3>1, <1>6, <1>7
    <3> QED BY <3>2, <3>3, <1>8
  <2>2. CASE ~ (j <= r)
    <3>1. j \in (r + 1)..n /\ Len(file) + j - r = 3 * q + j
      BY <2>2, <1>1, <1>6
    <3> QED BY <3>1, <1>7
  <2> QED BY <2>1, <2>2
<1>11. CASE n # 3
  <2>1. n \in 1..2 /\ pc'[w] = "writing"
    BY <1>1, <1>5, <1>11
  <2>2. \A j \in 1..n : file'[3 * q + j] = <<e, j>>
    BY <2>1, <1>8, <1>10
  <2>3. \A v \in Writers : pc'[v] = "writing" => v = w
    BY <1>4 DEF Critical
  <2> QED BY <2>1, <2>2, <2>3, <1>3, <1>5, <1>9, <1>11 DEF LinesInv
<1>12. CASE n = 3
  <2>1. \A v \in Writers : pc'[v] # "writing"
    BY <1>4, <1>5, <1>12 DEF Critical
  <2>2. q + 1 \in Nat /\ Len(file') = 3 * (q + 1)
    BY <1>9, <1>12
  <2>3. Holds(file', q, e)
    BY <1>8, <1>10, <1>12 DEF Holds
  <2>4. Whole(file', q + 1)
    <3> SUFFICES ASSUME NEW k \in 0..q PROVE \E d \in 1..MaxEvents : Holds(file', k, d)
      BY DEF Whole
    <3>1. CASE k = q
      BY <3>1, <2>3, <1>1
    <3>2. CASE k # q
      <4>1. k \in 0..(q - 1)
        BY <3>2
      <4> QED BY <4>1, <1>9 DEF Whole
    <3> QED BY <3>1, <3>2
  <2> QED BY <2>1, <2>2, <2>4 DEF LinesInv
<1> QED BY <1>11, <1>12

\* What a reader finds is aligned.
LEMMA FileAligned ==
    ASSUME TypeInv, NEW q \in Nat, Whole(file, q),
           (\A w \in Writers : pc[w] # "writing") => Len(file) = 3 * q,
           \A w \in Writers : pc[w] = "writing" =>
              /\ Len(file) = 3 * q + written[w]
              /\ \A n \in 1..written[w] : file[3 * q + n] = <<event[w], n>>
    PROVE  Aligned(file, q)
<1>0. file \in Seq(Chunks)
  BY DEF TypeInv, TypeOK
<1>1. CASE \A w \in Writers : pc[w] # "writing"
  BY <1>0, <1>1 DEF Aligned
<1>2. CASE \E w \in Writers : pc[w] = "writing"
  <2>1. PICK w \in Writers : pc[w] = "writing"
    BY <1>2
  <2>2. written[w] \in 0..2 /\ event[w] \in 1..MaxEvents
    BY <2>1, LedgerAssumption DEF TypeInv, TypeOK
  <2>3. /\ Len(file) = 3 * q + written[w]
        /\ \A n \in 1..written[w] : file[3 * q + n] = <<event[w], n>>
    BY <2>1
  <2>4. ASSUME NEW i \in (3 * q + 1)..Len(file) PROVE file[i] # Newline
    <3>1. PICK n \in 1..written[w] : i = 3 * q + n
      <4>1. i - 3 * q \in 1..written[w] /\ i = 3 * q + (i - 3 * q)
        BY <2>2, <2>3
      <4> QED BY <4>1
    <3>2. file[i] = <<event[w], n>>
      BY <2>3, <3>1
    <3>3. event[w] # 0
      BY <2>2
    <3> QED BY <3>2, <3>3 DEF Newline
  <2>5. 3 * q <= Len(file) /\ Len(file) <= 3 * q + 2
    BY <2>2, <2>3
  <2> QED BY <1>0, <2>4, <2>5 DEF Aligned
<1> QED BY <1>1, <1>2

\* The beginning of a file.
LEMMA Prefix ==
    ASSUME NEW S, NEW f \in Seq(S), NEW n \in 0..Len(f)
    PROVE  /\ SubSeq(f, 1, n) \in Seq(S) /\ Len(SubSeq(f, 1, n)) = n
           /\ \A i \in 1..n : SubSeq(f, 1, n)[i] = f[i]
<1>1. \A i \in 1..n : f[i] \in S
  OBVIOUS
<1>2. /\ SubSeq(f, 1, n) \in Seq(S)
      /\ Len(SubSeq(f, 1, n)) = IF 1 <= n THEN n - 1 + 1 ELSE 0
      /\ \A i \in 1..(n - 1 + 1) : SubSeq(f, 1, n)[i] = f[1 + i - 1]
  BY <1>1, SubSeqProperties
<1>3. n - 1 + 1 = n /\ \A i \in 1..n : 1 + i - 1 = i
  OBVIOUS
<1> QED BY <1>2, <1>3

\* What a loss of power leaves ends with a newline, or it is a cut.
LEMMA LossLines ==
    ASSUME TypeInv, LinesInv, PowerLoss, cuts' = 0, cuts = 0
    PROVE  LinesInv'
<1>1. PICK n \in synced..Len(file) : file' = SubSeq(file, 1, n)
  BY DEF PowerLoss
<1>2. /\ file \in Seq(Chunks) /\ Len(file) \in Nat /\ synced \in 0..Len(file)
      /\ n \in 0..Len(file)
  BY DEF TypeInv, TypeOK
<1>3. /\ file' \in Seq(Chunks) /\ Len(file') = n
      /\ \A i \in 1..n : file'[i] = file[i]
  BY <1>1, <1>2, Prefix
<1>4. pc' = [w \in Writers |-> "idle"] /\ ~CutShort(file')
  BY DEF PowerLoss
<1>5. PICK q \in Nat : Aligned(file, q)
  <2>1. PICK q \in Nat :
          /\ Whole(file, q)
          /\ (\A w \in Writers : pc[w] # "writing") => Len(file) = 3 * q
          /\ \A w \in Writers : pc[w] = "writing" =>
                /\ Len(file) = 3 * q + written[w]
                /\ \A j \in 1..written[w] : file[3 * q + j] = <<event[w], j>>
    BY DEF LinesInv
  <2> QED BY <2>1, FileAligned
<1>6. n = 0 \/ file[n] = Newline
  <2> SUFFICES ASSUME n # 0 PROVE file[n] = Newline
    OBVIOUS
  <2>1. file' # <<>> /\ file'[Len(file')] = Newline
    BY <1>2, <1>3, <1>4 DEF CutShort, Last
  <2> QED BY <2>1, <1>2, <1>3
<1>7. \E k \in 0..q : n = 3 * k
  <2>1. CASE n = 0
    BY <2>1
  <2>2. CASE n # 0
    <3>1. n \in 1..Len(file) /\ file[n] = Newline
      BY <2>2, <1>2, <1>6
    <3>2. PICK k \in 0..(q - 1) : n = 3 * k + 3
      BY ONLY <3>1, <1>5, NewlinesAligned
    <3>3. k + 1 \in 0..q /\ n = 3 * (k + 1)
      BY <3>2
    <3> QED BY <3>3
  <2> QED BY <2>1, <2>2
<1>8. PICK k \in 0..q : n = 3 * k
  BY <1>7
<1>9. Whole(file', k)
  <2>1. Whole(file, k)
    BY <1>5 DEF Aligned, Whole
  <2>2. k \in Nat /\ \A i \in 1..(3 * k) : file'[i] = file[i]
    BY <1>3, <1>8
  <2> QED BY <2>1, <2>2, WholeGrown
<1>10. k \in Nat /\ Len(file') = 3 * k /\ \A w \in Writers : pc'[w] # "writing"
  BY <1>3, <1>4, <1>8
<1> QED BY <1>9, <1>10 DEF LinesInv

\* A cut stays one.
LEMMA CutsStay ==
    ASSUME TypeInv, [Next]_vars, cuts' = 0 PROVE cuts = 0
<1>1. cuts \in Nat
  BY DEF TypeInv, TypeOK
<1> QED BY <1>1 DEF Next, Continue, Call, LockMutex, LockFile, Write, WriteFails, Sync, SyncFails,
              SyncFailed, Return, Die, PowerLoss, vars, Goto, calls, locks, history

LEMMA StableStep ==
    ASSUME LedgerInv, [Next]_vars PROVE StableInv'
<1> SUFFICES ASSUME cuts' = 0 PROVE LinesInv'
  BY DEF StableInv
<1>0. TypeInv /\ LockInv /\ TypeInv' /\ LockInv' /\ cuts \in Nat
  <2>1. TypeInv /\ LockInv /\ cuts \in Nat
    BY DEF LedgerInv, TypeInv, TypeOK
  <2> QED BY <2>1, TypeStep, LockStep
<1> USE DEF Goto, calls, locks, history
<1>1. cuts = 0
  BY <1>0, CutsStay
<1>2. LinesInv
  BY <1>1 DEF LedgerInv, StableInv
<1>3. pc \in [Writers -> {"idle", "calling", "locking", "writing", "syncing", "unlocking"}]
  BY <1>0 DEF TypeInv, TypeOK
<1>4. /\ event \in [Writers -> 0..MaxEvents] /\ written \in [Writers -> 0..3]
      /\ Len(file) \in Nat
  BY <1>0 DEF TypeInv, TypeOK
<1>5. ASSUME NEW w \in Writers, Call(w) PROVE LinesInv'
  BY <1>2, <1>3, <1>4, <1>5, LinesKept DEF Call
<1>6. ASSUME NEW w \in Writers, LockMutex(w) PROVE LinesInv'
  BY <1>2, <1>3, <1>6, LinesKept DEF LockMutex
<1>7. ASSUME NEW w \in Writers, LockFile(w) PROVE LinesInv'
  <2>1. /\ pc[w] = "locking" /\ pc' = [pc EXCEPT ![w] = "writing"]
        /\ UNCHANGED <<file, event, written>>
    BY <1>7 DEF LockFile
  <2>2. \A v \in Writers : pc'[v] \in Critical => v = w
    <3>1. \A v \in Writers : pc'[w] \in Critical /\ pc'[v] \in Critical => w = v
      BY <1>0 DEF LockInv
    <3> QED BY <3>1, <2>1, <1>3 DEF Critical
  <2>3. \A v \in Writers : pc[v] # "writing"
    BY <2>1, <2>2, <1>3 DEF Critical
  <2>4. written[w] = 0
    BY <2>1, <1>0 DEF TypeInv
  <2>5. PICK q \in Nat : Whole(file, q) /\ Len(file) = 3 * q
    BY <2>3, <1>2 DEF LinesInv
  <2>6. \A v \in Writers : pc'[v] = "writing" => written'[v] = 0
    BY <2>1, <2>2, <2>4 DEF Critical
  <2>7. Whole(file', q) /\ Len(file') = 3 * q
    BY <2>1, <2>5
  <2> QED BY <2>6, <2>7 DEF LinesInv
<1>8. ASSUME NEW w \in Writers, Write(w) PROVE LinesInv'
  BY <1>0, <1>2, <1>8, WriteLines
<1>9. ASSUME NEW w \in Writers, WriteFails(w) PROVE LinesInv'
  <2>1. written[w] = 0
    BY <1>1, <1>4, <1>9 DEF WriteFails
  <2> QED BY <1>0, <1>2, <1>3, <1>9, <2>1, LinesLeft DEF WriteFails
<1>10. ASSUME NEW w \in Writers, Sync(w) PROVE LinesInv'
  BY <1>2, <1>3, <1>10, LinesKept DEF Sync
<1>11. ASSUME NEW w \in Writers, SyncFails(w) PROVE LinesInv'
  BY <1>2, <1>3, <1>4, <1>11, LinesKept DEF SyncFails, SyncFailed
<1>12. ASSUME NEW w \in Writers, Return(w) PROVE LinesInv'
  BY <1>2, <1>3, <1>4, <1>12, LinesKept DEF Return
<1>13. ASSUME NEW l \in Ledgers, Die(l) PROVE LinesInv'
  <2> DEFINE gone == {v \in Writers : Of[v] = l}
  <2>1. /\ pc' = [v \in Writers |-> IF v \in gone THEN "idle" ELSE pc[v]]
        /\ UNCHANGED <<file, event, written>>
    BY <1>13 DEF Die
  <2>2. \A v \in gone : ~ (pc[v] = "writing" /\ written[v] > 0)
    BY <1>1, <1>13 DEF Die
  <2>3. \A v \in Writers : pc'[v] = IF v \in gone THEN "idle" ELSE pc[v]
    <3> HIDE DEF gone
    <3> QED BY <2>1
  <2>4. ASSUME NEW v \in Writers, pc[v] = "writing" PROVE pc'[v] = "writing" \/ written[v] = 0
    <3>1. CASE v \in gone
      <4>1. ~ (written[v] > 0) /\ written[v] \in 0..3
        BY <2>2, <2>4, <3>1, <1>4
      <4> QED BY <4>1
    <3>2. CASE v \notin gone
      BY <2>3, <2>4, <3>2
    <3> QED BY <3>1, <3>2
  <2> HIDE DEF gone
  <2>5. /\ \A v \in Writers : pc'[v] \in {"idle", pc[v]}
        /\ \A v \in Writers : pc[v] = "writing" => pc'[v] = "writing" \/ written[v] = 0
        /\ UNCHANGED <<file, event, written>>
    BY <2>1, <2>3, <2>4
  <2> QED BY <2>5, <1>0, <1>2, LinesLeft
<1>14. ASSUME PowerLoss PROVE LinesInv'
  BY <1>0, <1>1, <1>2, <1>14, LossLines
<1>15. CASE UNCHANGED vars
  BY <1>2, <1>15, LinesKept DEF vars
<1> QED BY <1>5, <1>6, <1>7, <1>8, <1>9, <1>10, <1>11, <1>12, <1>13, <1>14, <1>15
        DEF Next, Continue

LEMMA LedgerSafe == Spec => []LedgerInv
<1>1. LedgerInv /\ [Next]_vars => LedgerInv'
  BY TypeStep, LockStep, StableStep DEF LedgerInv
<1> QED BY <1>1, InitKeeps, PTL DEF Spec

\* Every variable of the ledger keeps its type.
THEOREM LedgerTyped == Spec => []TypeOK
<1>1. LedgerInv => TypeOK
  BY DEF LedgerInv, TypeInv
<1> QED BY <1>1, LedgerSafe, PTL

\* Until a line is left unfinished, what a reader finds is aligned.
LEMMA SafeAligned == LedgerInv /\ cuts = 0 => \E q \in Nat : Aligned(file, q)
BY FileAligned DEF LedgerInv, StableInv, LinesInv

LEMMA NextAligned == LedgerInv' /\ cuts' = 0 => \E q \in Nat : Aligned(file', q)
<1>1. (LedgerInv /\ cuts = 0 => \E q \in Nat : Aligned(file, q))'
  BY SafeAligned, PTL
<1> QED BY <1>1

-----------------------------------------------------------------------------
(***************************************************************************)
(* That no event is read twice, whatever was cut: each piece of a line is  *)
(* in the file at most once, for a writer never writes a piece again and   *)
(* no two writers have the same event.                                     *)
(***************************************************************************)
Pieces(f) == {i \in DOMAIN f : f[i] # Newline}

Ahead == {"calling", "locking", "writing"}

UniqueInv ==
    /\ \A i \in Pieces(file) : file[i][1] <= issued
    /\ \A i, j \in Pieces(file) : file[i] = file[j] => i = j
    /\ \A w \in Writers : pc[w] \in Ahead =>
         \A i \in Pieces(file) : file[i][1] = event[w] => file[i][2] <= written[w]
    /\ \A w, v \in Writers :
         w # v /\ pc[w] # "idle" /\ pc[v] # "idle" => event[w] # event[v]

LEMMA PieceShape ==
    ASSUME NEW f \in Seq(Chunks), NEW i \in Pieces(f)
    PROVE  /\ f[i][1] \in 1..MaxEvents /\ f[i][2] \in {1, 2}
           /\ f[i] = <<f[i][1], f[i][2]>>
<1>1. f[i] \in (1..MaxEvents) \X {1, 2}
  BY DEF Pieces, Chunks
<1> HIDE DEF Pieces
<1> QED BY <1>1

\* Until a writer calls, writes or dies with all the others, nothing changes.
LEMMA UniqueKept ==
    ASSUME TypeInv, UniqueInv, file' = file, issued' = issued,
           \A w \in Writers :
             /\ pc'[w] # "idle" => pc[w] # "idle" /\ event'[w] = event[w]
             /\ pc'[w] \in Ahead => pc[w] \in Ahead /\ written'[w] = written[w]
    PROVE  UniqueInv'
<1>1. \A w \in Writers : pc'[w] \in Ahead => pc'[w] # "idle"
  BY DEF Ahead
<1> QED BY <1>1 DEF UniqueInv

LEMMA CallUnique ==
    ASSUME TypeInv, UniqueInv, NEW w \in Writers, Call(w) PROVE UniqueInv'
<1>1. /\ file' = file /\ issued' = issued + 1 /\ issued \in Nat
      /\ pc' = [pc EXCEPT ![w] = "calling"]
      /\ event' = [event EXCEPT ![w] = issued + 1]
      /\ written' = [written EXCEPT ![w] = 0]
  BY LedgerAssumption DEF Call, Goto, TypeInv, TypeOK
<1>2. /\ pc'[w] = "calling" /\ event'[w] = issued + 1
      /\ \A v \in Writers : v # w =>
           pc'[v] = pc[v] /\ event'[v] = event[v] /\ written'[v] = written[v]
  BY <1>1 DEF TypeInv, TypeOK
<1>3. \A v \in Writers : pc[v] # "idle" => event[v] \in Nat /\ event[v] <= issued
  BY <1>1, LedgerAssumption DEF TypeInv
<1>4. \A i \in Pieces(file) : file[i][1] <= issued /\ file[i][1] \in Nat
  BY PieceShape DEF UniqueInv, TypeInv, TypeOK
<1>5. \A i \in Pieces(file) : file[i][1] <= issued + 1 /\ file[i][1] # issued + 1
  BY <1>1, <1>4
<1>6. ASSUME NEW v \in Writers, pc'[v] \in Ahead, NEW i \in Pieces(file),
             file[i][1] = event'[v]
      PROVE  file[i][2] <= written'[v]
  <2>1. v # w
    BY <1>2, <1>5, <1>6
  <2> QED BY <1>2, <1>6, <2>1 DEF UniqueInv
<1>7. ASSUME NEW u \in Writers, NEW v \in Writers, u # v, pc'[u] # "idle", pc'[v] # "idle"
      PROVE  event'[u] # event'[v]
  <2>1. \A x \in Writers : pc[x] # "idle" => event[x] # issued + 1
    BY <1>1, <1>3
  <2> QED BY <1>2, <1>7, <2>1 DEF UniqueInv
<1> QED BY <1>1, <1>5, <1>6, <1>7 DEF UniqueInv

\* What a write leaves: its writer further on in its line, what was there where it
\* was, and behind it the next pieces of the line.
WrittenTo(w, n) ==
    /\ pc[w] = "writing" /\ written[w] \in 0..2 /\ n \in (written[w] + 1)..3
    /\ event[w] \in 1..MaxEvents /\ event[w] <= issued
    /\ pc'[w] = (IF n = 3 THEN "syncing" ELSE "writing") /\ written'[w] = n
    /\ \A v \in Writers : v # w => pc'[v] = pc[v] /\ written'[v] = written[v]
    /\ file \in Seq(Chunks) /\ file' \in Seq(Chunks) /\ Len(file) \in Nat
    /\ Len(file') = Len(file) + n - written[w]
    /\ \A i \in 1..Len(file) : file'[i] = file[i]
    /\ \A j \in (written[w] + 1)..n : file'[Len(file) + j - written[w]] = Line(event[w])[j]

Kept(i) == i \in Pieces(file) /\ file'[i] = file[i]

Added(i, w, n) ==
    /\ i \in Nat
    /\ i - Len(file) + written[w] \in (written[w] + 1)..n
    /\ file'[i] = <<event[w], i - Len(file) + written[w]>>

LEMMA WriteShape ==
    ASSUME TypeInv, NEW w \in Writers, Write(w)
    PROVE  /\ UNCHANGED <<synced, event, result, issued, acked, cuts>>
           /\ \E n : WrittenTo(w, n) /\ \A i \in Pieces(file') : Kept(i) \/ Added(i, w, n)
<1> DEFINE e == event[w]
           r == written[w]
           old == Len(file)
<1>1. /\ pc[w] = "writing" /\ r \in 0..2 /\ e \in 1..MaxEvents /\ e <= issued
      /\ file \in Seq(Chunks) /\ old \in Nat
      /\ Len(Line(e)) = 3
  BY LedgerAssumption DEF Write, Line, TypeInv, TypeOK
<1>2. PICK n \in (r + 1)..3 :
        /\ file' = Longer(file, e, r, n)
        /\ written' = [written EXCEPT ![w] = n]
        /\ pc' = [pc EXCEPT ![w] = IF n = 3 THEN "syncing" ELSE "writing"]
  BY <1>1 DEF Write, Longer, Goto
<1>3. UNCHANGED <<synced, event, result, issued, acked, cuts>>
  BY DEF Write, history
<1>4. /\ pc'[w] = (IF n = 3 THEN "syncing" ELSE "writing") /\ written'[w] = n
      /\ \A v \in Writers : v # w => pc'[v] = pc[v] /\ written'[v] = written[v]
  BY <1>2 DEF TypeInv, TypeOK
<1>5. /\ file' \in Seq(Chunks)
      /\ Len(file') = old + n - r
      /\ \A i \in 1..old : file'[i] = file[i]
      /\ \A j \in (r + 1)..n : file'[old + j - r] = Line(e)[j]
  <2> HIDE DEF e, r
  <2> QED BY <1>1, <1>2, Written
<1>6. Line(e)[1] = <<e, 1>> /\ Line(e)[2] = <<e, 2>> /\ Line(e)[3] = Newline
  BY DEF Line
<1>7. ASSUME NEW i \in Pieces(file') PROVE Kept(i) \/ Added(i, w, n)
  <2>1. i \in 1..(old + n - r) /\ file'[i] # Newline
    BY <1>5 DEF Pieces
  <2>2. CASE i <= old
    <3>1. i \in 1..old /\ file'[i] = file[i]
      BY <1>5, <2>1, <2>2
    <3>2. Kept(i)
      BY <1>1, <2>1, <3>1 DEF Pieces, Kept
    <3> QED BY <3>2
  <2>3. CASE ~(i <= old)
    <3> DEFINE j == i - old + r
    <3> HIDE DEF e, r, old
    <3>1. j \in (r + 1)..n /\ old + j - r = i /\ i \in Nat /\ j \in {1, 2, 3}
      BY <1>1, <2>1, <2>3
    <3> HIDE DEF j
    <3>2. file'[i] = Line(e)[j]
      BY <1>5, <3>1
    <3>3. j \in {1, 2} /\ file'[i] = <<e, j>>
      BY <1>6, <2>1, <3>1, <3>2
    <3> QED BY <3>1, <3>3 DEF j, e, r, old, Added
  <2> QED BY <2>2, <2>3
<1>8. n \in (r + 1)..3
  OBVIOUS
<1> HIDE DEF e, r, old
<1>9. WrittenTo(w, n)
  BY <1>1, <1>4, <1>5, <1>8 DEF WrittenTo, e, r, old
<1> QED BY <1>3, <1>7, <1>9

LEMMA WriteUnique ==
    ASSUME TypeInv, UniqueInv, NEW w \in Writers, Write(w) PROVE UniqueInv'
<1> DEFINE e == event[w]
           r == written[w]
           old == Len(file)
<1>1. PICK n : WrittenTo(w, n) /\ \A i \in Pieces(file') : Kept(i) \/ Added(i, w, n)
  BY WriteShape
<1>2. UNCHANGED <<event, issued>>
  BY WriteShape
<1>3. /\ pc[w] = "writing" /\ r \in 0..2 /\ e \in 1..MaxEvents /\ e <= issued
      /\ file \in Seq(Chunks) /\ old \in Nat /\ n \in (r + 1)..3
  BY <1>1 DEF WrittenTo
<1>4. /\ pc'[w] # "idle" /\ written'[w] = n
      /\ \A v \in Writers : v # w => pc'[v] = pc[v] /\ written'[v] = written[v]
  BY <1>1 DEF WrittenTo
<1> DEFINE New(i) == Added(i, w, n)
<1>5. \A i \in Pieces(file') : Kept(i) \/ New(i)
  BY <1>1
<1>6. \A i \in Pieces(file) : file[i][1] = e => file[i][2] <= r
  BY <1>3 DEF UniqueInv, Ahead
<1>7. \A i \in Pieces(file) : /\ file[i][1] \in Nat /\ file[i][2] \in Nat
                             /\ file[i][1] <= issued
  BY <1>3, PieceShape DEF UniqueInv
<1>8. \A i : New(i) => file'[i][1] = e /\ file'[i][2] = i - old + r /\ i - old + r <= n
                        /\ ~(i - old + r <= r)
  BY <1>3 DEF Added
<1> HIDE DEF e, r, old
<1>9. \A i \in Pieces(file') : file'[i][1] <= issued
  <2> SUFFICES ASSUME NEW i \in Pieces(file') PROVE file'[i][1] <= issued
    OBVIOUS
  <2> HIDE DEF New
  <2> QED BY <1>3, <1>5, <1>7, <1>8 DEF Kept
<1>10. ASSUME NEW i \in Pieces(file'), NEW j \in Pieces(file'), file'[i] = file'[j]
       PROVE  i = j
  <2>1. CASE Kept(i) /\ Kept(j)
    BY <1>10, <2>1 DEF UniqueInv, Kept
  <2>2. CASE New(i) /\ New(j)
    <3>1. i - old + r = j - old + r
      <4> HIDE DEF New
      <4> QED BY ONLY <1>8, <1>10, <2>2
    <3> QED BY <1>3, <2>2, <3>1 DEF Added, r, old
  <2>3. CASE Kept(i) /\ New(j)
    <3>1. file[i][1] = e /\ file[i][2] = j - old + r /\ ~(j - old + r <= r)
      <4> HIDE DEF New
      <4> QED BY ONLY <1>8, <1>10, <2>3 DEF Kept
    <3> QED BY ONLY <1>6, <2>3, <3>1 DEF Kept
  <2>4. CASE New(i) /\ Kept(j)
    <3>1. file[j][1] = e /\ file[j][2] = i - old + r /\ ~(i - old + r <= r)
      <4> HIDE DEF New
      <4> QED BY ONLY <1>8, <1>10, <2>4 DEF Kept
    <3> QED BY ONLY <1>6, <2>4, <3>1 DEF Kept
  <2> HIDE DEF New
  <2> QED BY <1>5, <2>1, <2>2, <2>3, <2>4
<1>11. ASSUME NEW v \in Writers, pc'[v] \in Ahead, NEW i \in Pieces(file'),
              file'[i][1] = event[v]
       PROVE  file'[i][2] <= written'[v]
  <2>1. CASE v = w
    <3>1. CASE Kept(i)
      <4>1. file[i][2] <= r /\ file[i][2] \in Nat
        BY <1>6, <1>7, <1>11, <2>1, <3>1 DEF e, Kept
      <4> QED BY <1>3, <1>4, <2>1, <3>1, <4>1 DEF Kept
    <3>2. CASE New(i)
      <4> HIDE DEF New
      <4> QED BY <1>4, <1>8, <2>1, <3>2
    <3> HIDE DEF New
    <3> QED BY <1>5, <3>1, <3>2
  <2>2. CASE v # w
    <3>1. pc[v] \in Ahead /\ pc[v] # "idle" /\ pc[w] # "idle" /\ written'[v] = written[v]
      BY <1>3, <1>4, <1>11, <2>2 DEF Ahead
    <3>2. event[v] # e
      BY <2>2, <3>1 DEF UniqueInv, e
    <3>3. Kept(i)
      <4> HIDE DEF New
      <4> QED BY <1>5, <1>8, <1>11, <3>2
    <3> QED BY <1>11, <3>1, <3>3 DEF UniqueInv, Kept
  <2> QED BY <2>1, <2>2
<1>12. \A u, v \in Writers :
         u # v /\ pc'[u] # "idle" /\ pc'[v] # "idle" => event[u] # event[v]
  <2>1. \A v \in Writers : pc'[v] # "idle" => pc[v] # "idle"
    BY <1>3, <1>4
  <2> QED BY <2>1 DEF UniqueInv
<1> HIDE DEF New
<1> QED BY <1>2, <1>9, <1>10, <1>11, <1>12 DEF UniqueInv

LEMMA LossUnique ==
    ASSUME TypeInv, UniqueInv, PowerLoss PROVE UniqueInv'
<1>1. PICK n \in 0..Len(file) :
        /\ file' \in Seq(Chunks) /\ Len(file') = n
        /\ \A i \in 1..n : file'[i] = file[i]
  <2>1. PICK n \in synced..Len(file) : file' = SubSeq(file, 1, n)
    BY DEF PowerLoss
  <2>2. file \in Seq(Chunks) /\ Len(file) \in Nat /\ n \in 0..Len(file)
    BY DEF TypeInv, TypeOK
  <2> QED BY <2>1, <2>2, Prefix
<1>2. Len(file) \in Nat /\ file \in Seq(Chunks)
  BY DEF TypeInv, TypeOK
<1>3. \A i \in Pieces(file') : i \in Pieces(file) /\ file'[i] = file[i]
  BY <1>1, <1>2 DEF Pieces
<1>4. issued' = issued /\ \A w \in Writers : pc'[w] = "idle"
  BY DEF PowerLoss
<1> QED BY <1>3, <1>4 DEF UniqueInv, Ahead

LEMMA UniqueStep ==
    ASSUME TypeInv, UniqueInv, [Next]_vars PROVE UniqueInv'
<1> USE DEF Goto, calls, locks, history
<1>1. /\ pc \in [Writers -> {"idle", "calling", "locking", "writing", "syncing", "unlocking"}]
      /\ event \in [Writers -> 0..MaxEvents] /\ written \in [Writers -> 0..3]
  BY DEF TypeInv, TypeOK
<1>2. ASSUME NEW w \in Writers, LockMutex(w) PROVE UniqueInv'
  BY <1>1, <1>2, UniqueKept DEF LockMutex, Ahead
<1>3. ASSUME NEW w \in Writers, LockFile(w) PROVE UniqueInv'
  BY <1>1, <1>3, UniqueKept DEF LockFile, Ahead
<1>4. ASSUME NEW w \in Writers, WriteFails(w) PROVE UniqueInv'
  BY <1>1, <1>4, UniqueKept DEF WriteFails, Ahead
<1>5. ASSUME NEW w \in Writers, Sync(w) PROVE UniqueInv'
  BY <1>1, <1>5, UniqueKept DEF Sync, Ahead
<1>6. ASSUME NEW w \in Writers, SyncFails(w) PROVE UniqueInv'
  BY <1>1, <1>6, UniqueKept DEF SyncFails, SyncFailed, Ahead
<1>7. ASSUME NEW w \in Writers, Return(w) PROVE UniqueInv'
  BY <1>1, <1>7, UniqueKept DEF Return, Ahead
<1>8. ASSUME NEW l \in Ledgers, Die(l) PROVE UniqueInv'
  <2>1. \A w \in Writers : pc'[w] \in {"idle", pc[w]}
    BY <1>8 DEF Die
  <2>2. UNCHANGED <<file, event, written, issued>>
    BY <1>8 DEF Die
  <2> QED BY <2>1, <2>2, UniqueKept DEF Ahead
<1>9. CASE UNCHANGED vars
  BY <1>9, UniqueKept DEF vars
<1> QED BY <1>2, <1>3, <1>4, <1>5, <1>6, <1>7, <1>8, <1>9, CallUnique, WriteUnique,
           LossUnique DEF Next, Continue

\* The lines that parse are of different events.
LEMMA OncePerEvent ==
    ASSUME NEW f \in Seq(Chunks), \A i, j \in Pieces(f) : f[i] = f[j] => i = j
    PROVE  /\ IsFiniteSet(Good(f)) /\ IsFiniteSet(Events(f))
           /\ Cardinality(Events(f)) = Cardinality(Good(f))
           /\ Good(f) \subseteq Pieces(f)
           /\ \A i \in Good(f) : f[i][2] = 1
<1>1. \A i \in Good(f) : /\ i \in Starts(f) /\ i \in Pieces(f) /\ i \in 1..Len(f)
                        /\ f[i] = <<f[i][1], 1>>
  <2> SUFFICES ASSUME NEW i \in Good(f)
               PROVE  /\ i \in Starts(f) /\ i \in Pieces(f) /\ i \in 1..Len(f)
                      /\ f[i] = <<f[i][1], 1>>
    OBVIOUS
  <2>1. i \in Starts(f) /\ i \in Pieces(f) /\ i \in 1..Len(f)
    BY DEF Good, Starts, Pieces
  <2>2. PICK e \in 1..MaxEvents : Spells(f, i, e)
    BY <2>1, GoodLine
  <2>3. f[i] = <<e, 1>>
    BY <2>2 DEF Spells
  <2> QED BY <2>1, <2>3
<1>2. IsFiniteSet(Good(f))
  <2>1. IsFiniteSet(1..Len(f))
    BY FS_Interval
  <2> QED BY <1>1, <2>1, FS_Subset
<1> DEFINE h == [i \in Good(f) |-> f[i][1]]
<1>3. h \in Surjection(Good(f), Events(f))
  BY DEF Surjection, Events
<1>4. h \in Injection(Good(f), Events(f))
  <2>1. ASSUME NEW i \in Good(f), NEW j \in Good(f), h[i] = h[j] PROVE i = j
    <3>1. f[i][1] = f[j][1]
      BY <2>1
    <3>2. f[i] = f[j]
      BY <1>1, <3>1
    <3> QED BY <1>1, <3>2
  <2>2. h \in [Good(f) -> Events(f)]
    BY DEF Events
  <2> HIDE DEF h
  <2> QED BY <2>1, <2>2 DEF Injection, IsInjective
<1> HIDE DEF h
<1>5. /\ IsFiniteSet(Events(f))
      /\ Cardinality(Events(f)) = Cardinality(Good(f)) <=> h \in Injection(Good(f), Events(f))
  BY <1>2, <1>3, FS_Surjection
<1>6. \A i \in Good(f) : f[i][2] = 1
  <2> SUFFICES ASSUME NEW i \in Good(f) PROVE f[i][2] = 1
    OBVIOUS
  <2>1. <<f[i][1], 1>>[2] = 1
    OBVIOUS
  <2> QED BY <1>1, <2>1
<1> QED BY <1>1, <1>2, <1>4, <1>5, <1>6

LEMMA UniqueAlways == Spec => []UniqueInv
<1>1. Init => UniqueInv
  BY DEF Init, UniqueInv, Pieces
<1>2. LedgerInv /\ UniqueInv /\ [Next]_vars => UniqueInv'
  BY UniqueStep DEF LedgerInv
<1> QED BY <1>1, <1>2, LedgerSafe, PTL DEF Spec

\* No event is read twice, and none that nobody appended, by a reader without a
\* lock, whichever lines were cut and glued together (replay, ledger.rs).
THEOREM NothingReadTwice == Spec => []ReadOnce
<1>1. ASSUME TypeInv, UniqueInv PROVE ReadOnce
  <2>1. file \in Seq(Chunks)
    BY <1>1 DEF TypeInv, TypeOK
  <2>2. /\ IsFiniteSet(Good(file)) /\ Cardinality(Events(file)) = Cardinality(Good(file))
        /\ Good(file) \subseteq Pieces(file)
    BY <1>1, <2>1, OncePerEvent DEF UniqueInv
  <2>3. \A i \in Good(file) : file[i][1] \in 1..issued
    <3> SUFFICES ASSUME NEW i \in Good(file) PROVE file[i][1] \in 1..issued
      OBVIOUS
    <3>1. file[i][1] \in 1..MaxEvents /\ file[i][1] <= issued /\ issued \in 0..MaxEvents
      BY <1>1, <2>1, <2>2, PieceShape DEF UniqueInv, TypeInv, TypeOK
    <3> QED BY <3>1, LedgerAssumption
  <2>4. Cardinality(Good(file)) \in Nat
    BY <2>2, FS_CardinalityType
  <2>5. Len(Parsed(file)) = Cardinality(Good(file))
    BY <2>4 DEF Parsed
  <2> QED BY <2>2, <2>3, <2>5 DEF ReadOnce, Events
<1> QED BY <1>1, LedgerSafe, UniqueAlways, PTL DEF LedgerInv

-----------------------------------------------------------------------------
(* What was acknowledged is in the file, its line in one piece.            *)

\* What an append that returned or will return Ok has written is synced.
SyncedInv ==
    /\ \A e \in acked : Within(file, synced, e)
    /\ \A w \in Writers :
         /\ pc[w] = "unlocking" /\ result[w] => Within(file, synced, event[w])
         /\ pc[w] = "syncing" => Within(file, Len(file), event[w])
         /\ pc[w] = "writing" =>
              /\ written[w] <= Len(file)
              /\ \A j \in 1..written[w] :
                   file[Len(file) - written[w] + j] = Line(event[w])[j]

LEMMA SyncedKept ==
    ASSUME SyncedInv, Len(file) \in Nat, UNCHANGED <<file, synced>>,
           \A e \in acked' :
              \/ e \in acked
              \/ \E v \in Writers : pc[v] = "unlocking" /\ result[v] /\ e = event[v],
           \A v \in Writers : pc'[v] = "unlocking" /\ result'[v] =>
              pc[v] = "unlocking" /\ result[v] /\ event'[v] = event[v],
           \A v \in Writers : pc'[v] = "syncing" => pc[v] = "syncing" /\ event'[v] = event[v],
           \A v \in Writers : pc'[v] = "writing" =>
              \/ written'[v] = 0
              \/ pc[v] = "writing" /\ event'[v] = event[v] /\ written'[v] = written[v]
    PROVE  SyncedInv'
<1>1. \A e, n : Within(file, n, e) => Within(file', n, e)
  OBVIOUS
<1>2. ASSUME NEW v \in Writers, pc'[v] = "writing"
      PROVE  /\ written'[v] <= Len(file')
             /\ \A j \in 1..written'[v] :
                   file'[Len(file') - written'[v] + j] = Line(event'[v])[j]
  <2>1. CASE written'[v] = 0
    BY <2>1
  <2>2. CASE pc[v] = "writing" /\ event'[v] = event[v] /\ written'[v] = written[v]
    BY <2>2 DEF SyncedInv
  <2> QED BY <1>2, <2>1, <2>2
<1> QED BY <1>1, <1>2 DEF SyncedInv

LEMMA WriteSynced ==
    ASSUME TypeInv, LockInv, SyncedInv, NEW w \in Writers, Write(w) PROVE SyncedInv'
<1> DEFINE r == written[w]
           old == Len(file)
           line == Line(event[w])
<1>1. /\ UNCHANGED <<synced, event, result, acked>>
      /\ \E n : WrittenTo(w, n)
  BY WriteShape
<1>2. PICK n : WrittenTo(w, n)
  BY <1>1
<1>3. /\ r \in 0..2 /\ n \in (r + 1)..3 /\ old \in Nat /\ Len(file') = old + n - r
      /\ file \in Seq(Chunks) /\ pc[w] = "writing" /\ synced \in 0..old
      /\ pc'[w] = (IF n = 3 THEN "syncing" ELSE "writing") /\ written'[w] = n
      /\ \A v \in Writers : v # w => pc'[v] = pc[v]
      /\ \A i \in 1..old : file'[i] = file[i]
      /\ \A j \in (r + 1)..n : file'[old + j - r] = line[j]
  BY <1>2 DEF WrittenTo, TypeInv, TypeOK
<1>4. \A v \in Writers \ {w} : pc[v] \notin Critical /\ pc'[v] \notin Critical
  BY <1>3, Alone DEF Critical
<1>5. r <= old /\ \A j \in 1..r : file[old - r + j] = line[j]
  BY <1>3 DEF SyncedInv
<1> HIDE DEF r, old, line
<1>6. /\ n <= Len(file')
      /\ \A j \in 1..n : file'[Len(file') - n + j] = line[j]
  <2>0. /\ Len(file') = old + n - r /\ old \in Nat /\ r \in Nat /\ r <= old
        /\ n \in Nat
    BY <1>3, <1>5
  <2>1. n <= Len(file')
    BY ONLY <2>0
  <2>2. ASSUME NEW j \in 1..n PROVE file'[Len(file') - n + j] = line[j]
    <3>1. Len(file') - n + j = old - r + j /\ old - r + j = old + j - r
      BY ONLY <2>0, <2>2
    <3>2. CASE j <= r
      <4>1. j \in 1..r /\ old - r + j \in 1..old
        BY <1>3, <1>5, <3>2
      <4>2. file'[old - r + j] = file[old - r + j]
        BY <1>3, <4>1
      <4> QED BY <1>5, <3>1, <4>1, <4>2
    <3>3. CASE ~(j <= r)
      <4>1. j \in (r + 1)..n
        BY <1>3, <3>3
      <4>2. file'[old + j - r] = line[j]
        BY <1>3, <4>1
      <4> QED BY <3>1, <4>2
    <3> QED BY <3>2, <3>3
  <2> QED BY <2>1, <2>2
<1>7. n = 3 => Within(file', Len(file'), event[w])
  <2> SUFFICES ASSUME n = 3 PROVE Within(file', Len(file'), event[w])
    OBVIOUS
  <2> DEFINE i == Len(file') - 3
  <2>1. i \in Nat /\ i + 3 <= Len(file')
    BY <1>3, <1>6
  <2>2. file'[i + 1] = line[1] /\ file'[i + 2] = line[2] /\ file'[i + 3] = line[3]
    <3>1. 1 \in 1..n /\ 2 \in 1..n /\ 3 \in 1..n
      OBVIOUS
    <3> QED BY <1>6, <3>1
  <2>3. line[1] = <<event[w], 1>> /\ line[2] = <<event[w], 2>> /\ line[3] = Newline
    BY DEF Line, line
  <2> HIDE DEF i
  <2> QED BY <2>1, <2>2, <2>3 DEF Within
<1>8. \A e : Within(file, synced, e) => Within(file', synced, e)
  <2>1. synced \in 0..Len(file) /\ \A i \in 1..synced : file'[i] = file[i]
    BY <1>3 DEF old
  <2> QED BY <2>1, <1>3, WithinGrown
<1>9. \A e \in acked' : Within(file', synced', e)
  BY <1>1, <1>8 DEF SyncedInv
<1>10. ASSUME NEW v \in Writers
       PROVE  /\ pc'[v] = "unlocking" /\ result'[v] => Within(file', synced', event'[v])
              /\ pc'[v] = "syncing" => Within(file', Len(file'), event'[v])
              /\ pc'[v] = "writing" =>
                   /\ written'[v] <= Len(file')
                   /\ \A j \in 1..written'[v] :
                        file'[Len(file') - written'[v] + j] = Line(event'[v])[j]
  <2>1. CASE v = w
    <3>1. pc'[v] = "syncing" => n = 3
      BY <1>3, <2>1
    <3>2. pc'[v] # "unlocking" /\ written'[v] = n /\ event'[v] = event[w]
      BY <1>1, <1>3, <2>1
    <3> QED BY <1>6, <1>7, <2>1, <3>1, <3>2 DEF line
  <2>2. CASE v # w
    BY <2>2, <1>4 DEF Critical
  <2> QED BY <2>1, <2>2
<1> QED BY <1>9, <1>10 DEF SyncedInv

LEMMA LossSynced ==
    ASSUME TypeInv, SyncedInv, PowerLoss PROVE SyncedInv'
<1>1. PICK n \in synced..Len(file) : file' = SubSeq(file, 1, n)
  BY DEF PowerLoss
<1>2. /\ file \in Seq(Chunks) /\ Len(file) \in Nat /\ synced \in 0..Len(file)
      /\ n \in 0..Len(file) /\ n \in Nat /\ synced \in Nat /\ synced <= n
  BY DEF TypeInv, TypeOK
<1>3. Len(file') = n /\ \A i \in 1..n : file'[i] = file[i]
  BY <1>1, <1>2, Prefix
<1>4. \A e : Within(file, synced, e) => Within(file', n, e)
  <2> SUFFICES ASSUME NEW e, Within(file, synced, e) PROVE Within(file', n, e)
    OBVIOUS
  <2>1. Within(file, n, e)
    BY <1>2, WithinMore
  <2> QED BY <1>2, <1>3, <2>1, WithinGrown
<1>5. /\ \A w \in Writers : pc'[w] = "idle"
      /\ synced' = n /\ UNCHANGED acked
  BY <1>3 DEF PowerLoss
<1> QED BY <1>4, <1>5 DEF SyncedInv

LEMMA SyncedStep ==
    ASSUME TypeInv, LockInv, SyncedInv, [Next]_vars PROVE SyncedInv'
<1> USE DEF Goto, calls, locks, history
<1>1. /\ pc \in [Writers -> {"idle", "calling", "locking", "writing", "syncing", "unlocking"}]
      /\ event \in [Writers -> 0..MaxEvents] /\ written \in [Writers -> 0..3]
      /\ result \in [Writers -> BOOLEAN]
      /\ file \in Seq(Chunks) /\ Len(file) \in Nat /\ synced \in 0..Len(file)
  BY DEF TypeInv, TypeOK
<1>2. ASSUME NEW w \in Writers, Call(w) PROVE SyncedInv'
  BY <1>1, <1>2, SyncedKept DEF Call
<1>3. ASSUME NEW w \in Writers, LockMutex(w) PROVE SyncedInv'
  BY <1>1, <1>3, SyncedKept DEF LockMutex
<1>4. ASSUME NEW w \in Writers, LockFile(w) PROVE SyncedInv'
  <2>1. written[w] = 0
    BY <1>4 DEF LockFile, TypeInv
  <2> QED BY <1>1, <1>4, <2>1, SyncedKept DEF LockFile
<1>5. ASSUME NEW w \in Writers, WriteFails(w) PROVE SyncedInv'
  BY <1>1, <1>5, SyncedKept DEF WriteFails
<1>6. ASSUME NEW w \in Writers, Sync(w) PROVE SyncedInv'
  <2>1. /\ pc[w] = "syncing" /\ pc' = [pc EXCEPT ![w] = "unlocking"]
        /\ UNCHANGED <<file, event, written, acked>> /\ synced' = Len(file)
    BY <1>6 DEF Sync, Synced
  <2>2. \A e : Within(file, synced, e) => Within(file', synced', e)
    <3>1. \A e : Within(file, synced, e) => Within(file, Len(file), e)
      BY <1>1, WithinMore
    <3> QED BY <2>1, <3>1
  <2>3. \A v \in Writers : v # w => pc[v] \notin Critical /\ pc'[v] = pc[v]
    <3>1. \A v \in Writers : v # w => pc'[v] = pc[v]
      BY <1>1, <2>1
    <3> QED BY <2>1, <3>1, Alone DEF Critical
  <2>4. pc'[w] = "unlocking" /\ Within(file', synced', event'[w])
    BY <1>1, <2>1 DEF SyncedInv
  <2>5. \A e \in acked' : Within(file', synced', e)
    BY <2>1, <2>2 DEF SyncedInv
  <2> QED BY <2>3, <2>4, <2>5 DEF SyncedInv, Critical
<1>7. ASSUME NEW w \in Writers, SyncFails(w) PROVE SyncedInv'
  BY <1>1, <1>7, SyncedKept DEF SyncFails, SyncFailed
<1>8. ASSUME NEW w \in Writers, Return(w) PROVE SyncedInv'
  BY <1>1, <1>8, SyncedKept DEF Return
<1>9. ASSUME NEW l \in Ledgers, Die(l) PROVE SyncedInv'
  <2>1. \A w \in Writers : pc'[w] \in {"idle", pc[w]}
    BY <1>9 DEF Die
  <2>2. UNCHANGED <<file, synced, event, written, result, acked>>
    BY <1>9 DEF Die
  <2> QED BY <2>1, <2>2, SyncedKept
<1>10. CASE UNCHANGED vars
  BY <1>10, SyncedKept DEF vars
<1> QED BY <1>2, <1>3, <1>4, <1>5, <1>6, <1>7, <1>8, <1>9, <1>10, WriteSynced, LossSynced
        DEF Next, Continue

LEMMA SyncedAlways == Spec => []SyncedInv
<1>1. Init => SyncedInv
  BY DEF Init, SyncedInv
<1>2. LedgerInv /\ SyncedInv /\ [Next]_vars => SyncedInv'
  BY SyncedStep DEF LedgerInv
<1> QED BY <1>1, <1>2, LedgerSafe, PTL DEF Spec

\* The line of e, whole, with the first of its pieces at i.
Stands(f, i, e) ==
    /\ i \in 1..Len(f) /\ i + 1 \in 1..Len(f) /\ i + 2 \in 1..Len(f)
    /\ f[i] = <<e, 1>> /\ f[i + 1] = <<e, 2>> /\ f[i + 2] = Newline

LEMMA AckedStands ==
    ASSUME TypeInv, SyncedInv, NEW e \in acked
    PROVE  /\ e \in 1..MaxEvents
           /\ \E i \in Nat : Stands(file, i, e)
<1>1. /\ Len(file) \in Nat /\ synced \in 0..Len(file) /\ e \in 1..MaxEvents
  BY LedgerAssumption DEF TypeInv, TypeOK
<1>2. PICK k \in Nat : /\ k + 3 <= synced
                     /\ file[k + 1] = <<e, 1>> /\ file[k + 2] = <<e, 2>> /\ file[k + 3] = Newline
  BY DEF SyncedInv, Within
<1>3. /\ k + 1 \in 1..Len(file) /\ k + 1 + 1 \in 1..Len(file) /\ k + 1 + 2 \in 1..Len(file)
      /\ k + 1 + 1 = k + 2 /\ k + 1 + 2 = k + 3 /\ k + 1 \in Nat
  BY <1>1, <1>2
<1>4. Stands(file, k + 1, e)
  BY <1>2, <1>3 DEF Stands
<1> QED BY <1>1, <1>3, <1>4

\* A whole line that starts a line is read.
LEMMA StandsRead ==
    ASSUME NEW f \in Seq(Chunks), NEW i \in Starts(f), NEW e \in 1..MaxEvents,
           Stands(f, i, e)
    PROVE  e \in Events(f)
<1>1. i + 1 \in DOMAIN f /\ (i + 2 \in DOMAIN f => f[i + 2] = Newline)
      /\ f[i] = <<e, 1>> /\ f[i + 1] = <<e, 2>> /\ f[i][1] = e
  BY DEF Stands
<1>2. i \in Good(f)
  BY <1>1, GoodLine DEF Spells
<1> QED BY <1>1, <1>2 DEF Events

-----------------------------------------------------------------------------
(***************************************************************************)
(* What a replay that succeeds misses: a line that was written behind a    *)
(* fragment does not parse, so that it is the last one of the file.        *)
(***************************************************************************)

\* Each piece is on a line that starts at it or before it.
LEMMA LineBegins ==
    ASSUME NEW f \in Seq(Chunks), NEW i \in 1..Len(f), f[i] # Newline
    PROVE  \E s \in Starts(f) : s \in 1..i /\ \A j \in s..i : f[j] # Newline
<1> DEFINE S == {x \in 0..(i - 1) : i - x = 1 \/ f[i - x - 1] = Newline}
<1>0. Len(f) \in Nat /\ i \in Nat /\ i # 0 /\ DOMAIN f = 1..Len(f)
  OBVIOUS
<1>1. S \in SUBSET Nat /\ i - 1 \in S
  BY <1>0
<1>2. PICK x \in S : \A y \in S : x <= y
  <2> HIDE DEF S
  <2> QED BY <1>1, LeastExists
<1>3. x \in 0..(i - 1) /\ (i - x = 1 \/ f[i - x - 1] = Newline)
  BY <1>2
<1>4. ASSUME NEW j \in (i - x)..i PROVE f[j] # Newline
  <2>1. CASE j = i
    BY <2>1
  <2>2. CASE j # i
    <3>1. i - j - 1 \in 0..(i - 1) /\ ~(x <= i - j - 1) /\ i - (i - j - 1) - 1 = j
      BY <1>0, <1>3, <2>2
    <3>2. i - j - 1 \notin S
      BY <1>2, <3>1
    <3> QED BY <3>1, <3>2
  <2> QED BY <2>1, <2>2
<1> HIDE DEF S
<1>5. i - x \in 1..i /\ i - x \in 1..Len(f) /\ i - x \in (i - x)..i
  BY <1>0, <1>3
<1>6. i - x \in Starts(f)
  BY <1>0, <1>3, <1>4, <1>5 DEF Starts
<1> QED BY <1>4, <1>5, <1>6

\* The line of an acknowledged event that is not read is the last one.
LEMMA MissedLast ==
    ASSUME TypeInv, SyncedInv, ~Corrupt(file), NEW e \in acked \ Events(file),
           NEW i \in Nat, Stands(file, i, e)
    PROVE  /\ Max(Starts(file)) \in 1..i
           /\ \A j \in Max(Starts(file))..i : file[j] # Newline
<1>1. /\ file \in Seq(Chunks) /\ Len(file) \in Nat /\ DOMAIN file = 1..Len(file)
      /\ e \in 1..MaxEvents /\ e \in Nat /\ e # 0
  BY AckedStands, LedgerAssumption DEF TypeInv, TypeOK
<1>2. i \in 1..Len(file) /\ file[i] = <<e, 1>> /\ file[i] # Newline
  BY <1>1 DEF Stands, Newline
<1>3. PICK s \in Starts(file) : s \in 1..i /\ \A j \in s..i : file[j] # Newline
  BY <1>1, <1>2, LineBegins
<1>4. s # i
  BY <1>1, StandsRead
<1>5. s \notin Good(file)
  <2> SUFFICES ASSUME s \in Good(file) PROVE FALSE
    OBVIOUS
  <2>1. PICK d \in 1..MaxEvents : Spells(file, s, d)
    BY <1>1, GoodLine
  <2>2. i # s + 1
    BY <1>2, <2>1 DEF Spells
  <2>3. s + 2 \in s..i /\ s + 2 \in DOMAIN file
    BY <1>1, <1>2, <1>3, <1>4, <2>2
  <2> QED BY <1>3, <2>1, <2>3 DEF Spells
<1>6. s = Max(Starts(file))
  BY <1>5 DEF Corrupt, Good
<1> QED BY <1>3, <1>6

LEMMA MissedOnce ==
    ASSUME TypeInv, SyncedInv, ~Corrupt(file),
           NEW d \in acked \ Events(file), NEW e \in acked \ Events(file)
    PROVE  d = e
<1>1. PICK i \in Nat : Stands(file, i, d)
  BY AckedStands
<1>2. PICK k \in Nat : Stands(file, k, e)
  BY AckedStands
<1> DEFINE s == Max(Starts(file))
<1>3. /\ s \in 1..i /\ \A j \in s..i : file[j] # Newline
      /\ s \in 1..k /\ \A j \in s..k : file[j] # Newline
  BY <1>1, <1>2, MissedLast
<1> HIDE DEF s
<1>4. ~(i + 2 <= k) /\ ~(k + 2 <= i)
  <2>1. i + 2 <= k => i + 2 \in s..k
    BY <1>3
  <2>2. k + 2 <= i => k + 2 \in s..i
    BY <1>3
  <2> QED BY <1>1, <1>2, <1>3, <2>1, <2>2 DEF Stands
<1>5. i # k + 1 /\ k # i + 1
  BY <1>1, <1>2 DEF Stands
<1>6. i = k
  BY <1>4, <1>5
<1> QED BY <1>1, <1>2, <1>6 DEF Stands

\* A replay that succeeds misses at most one acknowledged event, with any
\* number of threads and processes, and however many of them left a line
\* unfinished (replay over what append left, ledger.rs).
THEOREM LossStaysBounded == Spec => []LossBounded
<1>1. ASSUME TypeInv, SyncedInv, ~Corrupt(file)
      PROVE  Cardinality(acked \ Events(file)) <= 1
  <2> DEFINE missed == acked \ Events(file)
  <2>1. CASE missed = {}
    <3>1. Cardinality(missed) = 0
      BY <2>1, FS_EmptySet
    <3> QED BY <3>1
  <2>2. CASE missed # {}
    <3>1. PICK e : e \in missed
      BY <2>2
    <3>2. missed = {e}
      BY <1>1, <3>1, MissedOnce
    <3>3. Cardinality({e}) = 1
      BY FS_Singleton
    <3> QED BY <3>2, <3>3
  <2> QED BY <2>1, <2>2
<1>2. LedgerInv /\ SyncedInv => LossBounded
  BY <1>1 DEF LedgerInv, LossBounded, Replays
<1> QED BY <1>2, LedgerSafe, SyncedAlways, PTL

-----------------------------------------------------------------------------
(***************************************************************************)
(* What a reader without a lock finds until a line is left unfinished.     *)
(***************************************************************************)

\* Each piece is on a whole line, or the one writer has written it.
LEMMA PieceKnown ==
    ASSUME TypeInv, LinesInv, NEW i \in 1..Len(file), NEW e \in 1..MaxEvents,
           NEW n \in {1, 2}, file[i] = <<e, n>>
    PROVE  /\ i - n \in Nat
           /\ \/ Stands(file, i - n + 1, e)
              \/ \E w \in Writers :
                   /\ pc[w] = "writing" /\ event[w] = e
                   /\ n <= written[w] /\ written[w] \in {1, 2}
                   /\ i - n + written[w] = Len(file)
                   /\ \A m \in 1..written[w] : file[i - n + m] = <<e, m>>
<1>1. PICK q \in Nat :
        /\ Whole(file, q)
        /\ (\A w \in Writers : pc[w] # "writing") => Len(file) = 3 * q
        /\ \A w \in Writers : pc[w] = "writing" =>
              /\ Len(file) = 3 * q + written[w]
              /\ \A m \in 1..written[w] : file[3 * q + m] = <<event[w], m>>
  BY DEF LinesInv
<1>2. /\ Len(file) \in Nat /\ i \in Nat /\ i # 0 /\ e \in Nat /\ e # 0
      /\ \A w \in Writers : pc[w] = "writing" => written[w] \in 0..2
      /\ 3 * q <= Len(file)
  <2>1. /\ Len(file) \in Nat /\ i \in Nat /\ i # 0 /\ e \in Nat /\ e # 0
    BY LedgerAssumption DEF TypeInv, TypeOK
  <2>2. \A w \in Writers : pc[w] = "writing" => written[w] \in 0..2
    BY DEF TypeInv, TypeOK
  <2> QED BY <1>1, <2>1, <2>2
<1>3. CASE i <= 3 * q
  <2>1. PICK k \in Nat : 3 * k < i /\ i <= 3 * k + 3
    BY <1>2, Thirds
  <2>2. k \in 0..(q - 1)
    BY <1>3, <2>1
  <2>3. PICK d \in 1..MaxEvents : Holds(file, k, d)
    BY <1>1, <2>2 DEF Whole
  <2>4. i \in {3 * k + 1, 3 * k + 2, 3 * k + 3}
    BY <2>1
  <2>5. d = e /\ i = 3 * k + n
    BY <1>2, <2>3, <2>4 DEF Holds, Newline
  <2>6. i - n = 3 * k /\ i - n + 1 = 3 * k + 1 /\ 3 * k \in Nat
        /\ 3 * k + 1 + 1 = 3 * k + 2 /\ 3 * k + 1 + 2 = 3 * k + 3
    BY <2>5
  <2>7. /\ 3 * k + 1 \in 1..Len(file) /\ 3 * k + 2 \in 1..Len(file)
        /\ 3 * k + 3 \in 1..Len(file)
    BY <1>2, <2>2
  <2>8. Stands(file, 3 * k + 1, e)
    BY <2>3, <2>5, <2>6, <2>7 DEF Stands, Holds
  <2> QED BY <2>6, <2>8
<1>4. CASE ~(i <= 3 * q)
  <2>1. PICK w \in Writers : pc[w] = "writing"
    BY <1>1, <1>2, <1>4
  <2>2. /\ Len(file) = 3 * q + written[w] /\ written[w] \in 0..2
        /\ \A m \in 1..written[w] : file[3 * q + m] = <<event[w], m>>
    BY <1>1, <1>2, <2>1
  <2>3. i - 3 * q \in 1..written[w] /\ 3 * q + (i - 3 * q) = i
    BY <1>2, <1>4, <2>2
  <2>4. event[w] = e /\ i - 3 * q = n
    BY <2>2, <2>3
  <2>5. i - n = 3 * q /\ 3 * q \in Nat /\ n <= written[w] /\ written[w] \in {1, 2}
    BY <1>2, <2>2, <2>3, <2>4
  <2> QED BY <2>1, <2>2, <2>4, <2>5
<1> QED BY <1>3, <1>4

LEMMA LinesDecode ==
    ASSUME TypeInv, LinesInv, ~MidCharacter PROVE Decodes(file)
<1>1. /\ Len(file) \in Nat /\ DOMAIN file = 1..Len(file) /\ Wide \subseteq 1..MaxEvents
  BY LedgerAssumption DEF TypeInv, TypeOK
<1>2. ASSUME NEW e \in Wide, NEW i \in 1..Len(file), file[i] = <<e, 1>>
      PROVE  i < Len(file) /\ file[i + 1] = <<e, 2>>
  <2>1. CASE Stands(file, i - 1 + 1, e)
    <3>1. i - 1 + 1 = i
      OBVIOUS
    <3> QED BY <1>1, <2>1, <3>1 DEF Stands
  <2>2. ASSUME NEW w \in Writers, pc[w] = "writing", event[w] = e,
               written[w] \in {1, 2}, i - 1 + written[w] = Len(file),
               \A m \in 1..written[w] : file[i - 1 + m] = <<e, m>>
        PROVE  i < Len(file) /\ file[i + 1] = <<e, 2>>
    <3>1. written[w] = 2
      BY <2>2 DEF MidCharacter
    <3>2. 2 \in 1..written[w] /\ i - 1 + 2 = i + 1 /\ i < Len(file)
      BY <1>1, <2>2, <3>1
    <3> QED BY <2>2, <3>2
  <2>3. e \in 1..MaxEvents /\ 1 \in {1, 2}
    BY <1>1
  <2>4. \/ Stands(file, i - 1 + 1, e)
        \/ \E w \in Writers :
             /\ pc[w] = "writing" /\ event[w] = e
             /\ written[w] \in {1, 2} /\ i - 1 + written[w] = Len(file)
             /\ \A m \in 1..written[w] : file[i - 1 + m] = <<e, m>>
    BY <1>2, <2>3, PieceKnown
  <2> QED BY <2>1, <2>2, <2>4
<1>3. ASSUME NEW e \in Wide, NEW i \in 1..Len(file), file[i] = <<e, 2>>
      PROVE  i > 1 /\ file[i - 1] = <<e, 1>>
  <2>1. ASSUME i - 2 \in Nat, Stands(file, i - 2 + 1, e)
        PROVE  i > 1 /\ file[i - 1] = <<e, 1>>
    <3>1. i - 2 + 1 = i - 1 /\ i > 1
      BY <2>1
    <3> QED BY <2>1, <3>1 DEF Stands
  <2>2. ASSUME i - 2 \in Nat, NEW w \in Writers, 2 <= written[w],
               written[w] \in {1, 2},
               \A m \in 1..written[w] : file[i - 2 + m] = <<e, m>>
        PROVE  i > 1 /\ file[i - 1] = <<e, 1>>
    <3>1. 1 \in 1..written[w] /\ i - 2 + 1 = i - 1 /\ i > 1
      BY <2>2
    <3> QED BY <2>2, <3>1
  <2>3. e \in 1..MaxEvents /\ 2 \in {1, 2}
    BY <1>1
  <2> QED BY <1>3, <2>1, <2>2, <2>3, PieceKnown
<1> QED BY <1>1, <1>2, <1>3 DEF Decodes

LEMMA AckedRead ==
    ASSUME TypeInv, SyncedInv, NEW q \in Nat, Aligned(file, q), NEW e \in acked
    PROVE  e \in Events(file)
<1>1. PICK i \in Nat : Stands(file, i, e)
  BY AckedStands
<1>2. i + 2 \in 1..Len(file) /\ file[i + 2] = Newline
  BY <1>1 DEF Stands
<1>3. PICK k \in 0..(q - 1) : i + 2 = 3 * k + 3
  <2> DEFINE n == i + 2
  <2>1. n \in 1..Len(file) /\ file[n] = Newline
    BY <1>2
  <2> HIDE DEF n
  <2>2. \E k \in 0..(q - 1) : n = 3 * k + 3
    BY <2>1, NewlinesAligned
  <2> QED BY <2>2 DEF n
<1>4. i = 3 * k + 1 /\ i + 1 = 3 * k + 2
  BY <1>3
<1>5. Holds(file, k, e)
  BY <1>1, <1>2, <1>3, <1>4 DEF Stands, Holds
<1>6. e \in 1..MaxEvents
  BY AckedStands
<1> QED BY <1>5, <1>6, LineAligned

\* Ok means stable: until a line is left unfinished, a reader without a lock
\* finds the file sound, unless a line that is being written is cut inside a
\* character, and in it every event whose append returned Ok, with any number
\* of threads and processes that append, fail and die, and whatever power
\* takes.
THEOREM AckedStable == Spec => []AckedReplayed
<1>1. ASSUME LedgerInv, SyncedInv, cuts = 0
      PROVE  (MidCharacter \/ Replays(file)) /\ acked \subseteq Events(file)
  <2>1. TypeInv /\ LinesInv
    BY <1>1 DEF LedgerInv, StableInv
  <2>2. PICK q \in Nat : Aligned(file, q)
    BY <1>1, SafeAligned
  <2>3. MidCharacter \/ Decodes(file)
    BY <2>1, LinesDecode
  <2>4. ~Corrupt(file)
    BY <2>2, AlignedSound
  <2>5. acked \subseteq Events(file)
    BY <1>1, <2>1, <2>2, AckedRead
  <2> QED BY <2>3, <2>4, <2>5 DEF Replays
<1>2. LedgerInv /\ SyncedInv => AckedReplayed
  BY <1>1 DEF AckedReplayed
<1> QED BY <1>2, LedgerSafe, SyncedAlways, PTL

-----------------------------------------------------------------------------
(***************************************************************************)
(* That two replays agree: until a line is left unfinished, the n-th line  *)
(* starts at the same place in every file that follows.                    *)
(***************************************************************************)
Firsts(m) == {3 * k + 1 : k \in 0..(m - 1)}

LEMMA FirstsCounted ==
    ASSUME NEW m \in Nat
    PROVE  IsFiniteSet(Firsts(m)) /\ Cardinality(Firsts(m)) = m
<1> DEFINE S == 0..(m - 1)
           h == [k \in S |-> 3 * k + 1]
<1>1. IsFiniteSet(S) /\ Cardinality(S) = m
  BY FS_Interval
<1>2. h \in Surjection(S, Firsts(m))
  BY DEF Surjection, Firsts
<1>3. h \in Injection(S, Firsts(m))
  <2>1. h \in [S -> Firsts(m)]
    BY DEF Firsts
  <2>2. \A k, l \in S : h[k] = h[l] => k = l
    OBVIOUS
  <2> HIDE DEF h, S
  <2> QED BY <2>1, <2>2 DEF Injection, IsInjective
<1> HIDE DEF h, S
<1> QED BY <1>1, <1>2, <1>3, FS_Surjection

LEMMA GoodAligned ==
    ASSUME NEW f, NEW q, Aligned(f, q)
    PROVE  \E m \in Nat : Good(f) = Firsts(m)
<1>1. q \in Nat
  BY DEF Aligned
<1>2. \A k \in 0..(q - 1) : 3 * k + 1 \in Good(f)
  <2> SUFFICES ASSUME NEW k \in 0..(q - 1) PROVE 3 * k + 1 \in Good(f)
    OBVIOUS
  <2>1. PICK e \in 1..MaxEvents : Holds(f, k, e)
    BY DEF Aligned, Whole
  <2> QED BY <2>1, LineAligned
<1>3. \A i \in Good(f) : \E k \in 0..q : i = 3 * k + 1
  BY StartsAligned DEF Good
<1>4. CASE 3 * q + 1 \in Good(f)
  <2>1. \A k \in 0..q : 3 * k + 1 \in Good(f)
    BY <1>1, <1>2, <1>4
  <2>2. Good(f) = Firsts(q + 1)
    BY <1>1, <1>3, <2>1 DEF Firsts
  <2> QED BY <1>1, <2>2
<1>5. CASE 3 * q + 1 \notin Good(f)
  <2>1. \A i \in Good(f) : \E k \in 0..(q - 1) : i = 3 * k + 1
    BY <1>1, <1>3, <1>5
  <2>2. Good(f) = Firsts(q)
    BY <1>2, <2>1 DEF Firsts
  <2> QED BY <1>1, <2>2
<1> QED BY <1>4, <1>5

LEMMA NthFirst ==
    ASSUME NEW f, NEW m \in Nat, Good(f) = Firsts(m)
    PROVE  /\ Cardinality(Good(f)) = m
           /\ \A n \in 1..m : Nth(f, n) = 3 * (n - 1) + 1
<1>1. Cardinality(Good(f)) = m
  BY FirstsCounted
<1>2. ASSUME NEW k \in 0..(m - 1)
      PROVE  Cardinality({j \in Good(f) : j <= 3 * k + 1}) = k + 1
  <2>1. {j \in Good(f) : j <= 3 * k + 1} = Firsts(k + 1)
    BY DEF Firsts
  <2> QED BY <2>1, FirstsCounted
<1>3. ASSUME NEW n \in 1..m PROVE Nth(f, n) = 3 * (n - 1) + 1
  <2> DEFINE i == 3 * (n - 1) + 1
             Rank(j) == Cardinality({h \in Good(f) : h <= j})
  <2>1. n - 1 \in 0..(m - 1) /\ (n - 1) + 1 = n
    OBVIOUS
  <2>2. i \in Good(f)
    BY <2>1 DEF Firsts
  <2>3. Rank(i) = n
    BY <1>2, <2>1
  <2>4. ASSUME NEW j \in Good(f), Rank(j) = n PROVE j = i
    <3>1. PICK k \in 0..(m - 1) : j = 3 * k + 1
      BY DEF Firsts
    <3>2. Rank(j) = k + 1
      BY <1>2, <3>1
    <3> HIDE DEF Rank
    <3> QED BY <2>4, <3>1, <3>2
  <2>5. Nth(f, n) = CHOOSE j \in Good(f) : Rank(j) = n
    BY DEF Nth
  <2> HIDE DEF i, Rank
  <2>6. Nth(f, n) = i
    BY <2>2, <2>3, <2>4, <2>5
  <2> QED BY <2>6 DEF i
<1> QED BY <1>1, <1>3

\* g is f with more behind it.
Extends(g, f) == Len(f) <= Len(g) /\ \A i \in 1..Len(f) : g[i] = f[i]

\* A line that parses goes on doing so when more is written behind it.
LEMMA GoodStays ==
    ASSUME NEW f, NEW q, Aligned(f, q), NEW g, NEW p, Aligned(g, p), Extends(g, f)
    PROVE  Good(f) \subseteq Good(g)
<1> SUFFICES ASSUME NEW i \in Good(f) PROVE i \in Good(g)
  OBVIOUS
<1>1. /\ f \in Seq(Chunks) /\ g \in Seq(Chunks) /\ Len(f) \in Nat /\ Len(g) \in Nat
      /\ p \in Nat /\ Len(g) <= 3 * p + 2 /\ Len(f) <= Len(g)
      /\ DOMAIN f = 1..Len(f) /\ DOMAIN g = 1..Len(g)
      /\ \A j \in 1..Len(f) : g[j] = f[j]
  BY DEF Aligned, Extends
<1>2. i \in Starts(f)
  BY DEF Good
<1>3. PICK e \in 1..MaxEvents : Spells(f, i, e)
  BY <1>1, <1>2, GoodLine
<1>4. PICK k \in 0..q : i = 3 * k + 1
  BY <1>2, StartsAligned
<1>5. k \in Nat /\ i + 1 \in 1..Len(f) /\ i \in 1..Len(f)
  BY <1>1, <1>3, <1>4 DEF Spells, Aligned
<1>6. CASE k < p
  <2>1. k \in 0..(p - 1)
    BY <1>1, <1>5, <1>6
  <2>2. PICK d \in 1..MaxEvents : Holds(g, k, d)
    BY <2>1 DEF Aligned, Whole
  <2> QED BY <1>4, <2>1, <2>2, LineAligned
<1>7. CASE ~(k < p)
  <2>1. Len(g) = Len(f)
    <3> DEFINE x == Len(f)
               y == Len(g)
    <3>1. /\ x \in Nat /\ y \in Nat /\ x <= y /\ i + 1 <= x /\ y <= 3 * p + 2
          /\ i = 3 * k + 1 /\ p <= k /\ p \in Nat /\ k \in Nat
      BY <1>1, <1>4, <1>5, <1>7
    <3> HIDE DEF x, y
    <3>2. y = x
      BY ONLY <3>1
    <3> QED BY <3>2 DEF x, y
  <2>2. g = f
    BY <1>1, <2>1, SeqEqual
  <2> QED BY <2>2
<1> QED BY <1>6, <1>7

LEMMA ParsedGrows ==
    ASSUME NEW f, NEW q, Aligned(f, q), NEW g, NEW p, Aligned(g, p), Extends(g, f)
    PROVE  IsPrefix(Parsed(f), Parsed(g))
<1>1. PICK m \in Nat : Good(f) = Firsts(m)
  BY GoodAligned
<1>2. PICK l \in Nat : Good(g) = Firsts(l)
  BY GoodAligned
<1>3. m <= l
  <2>1. CASE m = 0
    BY <2>1
  <2>2. CASE m # 0
    <3>1. 3 * (m - 1) + 1 \in Good(f)
      <4>1. m - 1 \in 0..(m - 1)
        BY <2>2
      <4> QED BY <1>1, <4>1 DEF Firsts
    <3>2. PICK k \in 0..(l - 1) : 3 * (m - 1) + 1 = 3 * k + 1
      BY <1>2, <3>1, GoodStays DEF Firsts
    <3> QED BY <3>2
  <2> QED BY <2>1, <2>2
<1>4. /\ Cardinality(Good(f)) = m /\ Cardinality(Good(g)) = l
      /\ \A n \in 1..m : Nth(f, n) = 3 * (n - 1) + 1
      /\ \A n \in 1..l : Nth(g, n) = 3 * (n - 1) + 1
  BY <1>1, <1>2, NthFirst
<1>5. Parsed(f) = [n \in 1..m |-> f[Nth(f, n)][1]] /\ Parsed(g) = [n \in 1..l |-> g[Nth(g, n)][1]]
  BY <1>4 DEF Parsed
<1>6. \A n \in 1..m : f[Nth(f, n)][1] = g[Nth(g, n)][1]
  <2> SUFFICES ASSUME NEW n \in 1..m PROVE f[Nth(f, n)][1] = g[Nth(g, n)][1]
    OBVIOUS
  <2> DEFINE i == 3 * (n - 1) + 1
  <2>1. Nth(f, n) = i /\ Nth(g, n) = i
    BY <1>3, <1>4
  <2>2. i \in Good(f)
    <3>1. n - 1 \in 0..(m - 1)
      OBVIOUS
    <3> QED BY <1>1, <3>1 DEF Firsts
  <2>3. i \in 1..Len(f)
    <3>1. f \in Seq(Chunks)
      BY DEF Aligned
    <3> HIDE DEF i
    <3> QED BY <2>2, <3>1 DEF Good, Starts
  <2> HIDE DEF i
  <2>4. g[i] = f[i]
    BY <2>3 DEF Extends
  <2> QED BY <2>1, <2>4
<1> DEFINE T == {f[Nth(f, n)][1] : n \in 1..m} \cup {g[Nth(g, n)][1] : n \in 1..l}
           s == Parsed(f)
           t == Parsed(g)
<1>7. s \in Seq(T) /\ t \in Seq(T) /\ Len(s) = m /\ Len(t) = l
  BY <1>5
<1>8. \A n \in 1..m : s[n] = t[n]
  BY <1>3, <1>5, <1>6
<1> HIDE DEF s, t, T
<1>9. /\ SubSeq(s, 1, m) \in Seq(T) /\ Len(SubSeq(s, 1, m)) = m
      /\ SubSeq(t, 1, m) \in Seq(T) /\ Len(SubSeq(t, 1, m)) = m
      /\ \A n \in 1..m : SubSeq(s, 1, m)[n] = s[n] /\ SubSeq(t, 1, m)[n] = t[n]
  BY <1>3, <1>7, Prefix
<1>10. SubSeq(s, 1, m) = SubSeq(t, 1, m)
  BY <1>8, <1>9, SeqEqual
<1> QED BY <1>3, <1>7, <1>10 DEF IsPrefix, s, t

\* Until power is lost the file only grows.
LEMMA FileGrows ==
    ASSUME TypeInv, [Next]_vars, lost' = lost PROVE Extends(file', file)
<1>1. file \in Seq(Chunks) /\ Len(file) \in Nat /\ lost \in Nat
  BY DEF TypeInv, TypeOK
<1>2. ~PowerLoss
  BY <1>1 DEF PowerLoss
<1>3. CASE UNCHANGED file
  BY <1>1, <1>3 DEF Extends
<1>4. ASSUME NEW w \in Writers, Write(w) PROVE Extends(file', file)
  <2>1. PICK n : WrittenTo(w, n)
    BY <1>4, WriteShape
  <2> QED BY <2>1 DEF WrittenTo, Extends
<1>5. UNCHANGED file \/ \E w \in Writers : Write(w)
  BY <1>2 DEF Next, Continue, Call, LockMutex, LockFile, WriteFails, Sync, SyncFails, Return,
              Die, vars
<1> QED BY <1>3, <1>4, <1>5

\* What one replay returned is the beginning of what a later one returns, until a
\* line is left unfinished or power is lost.
THEOREM ReplaysAgree == Spec => ReplayGrows
<1>1. ASSUME LedgerInv, LedgerInv', [Next]_vars, cuts' = 0, lost' = lost
      PROVE  IsPrefix(Parsed(file), Parsed(file'))
  <2>1. TypeInv
    BY <1>1 DEF LedgerInv
  <2>2. cuts = 0
    BY <1>1, <2>1, CutsStay
  <2>3. PICK q \in Nat : Aligned(file, q)
    BY <1>1, <2>2, SafeAligned
  <2>4. PICK p \in Nat : Aligned(file', p)
    BY <1>1, NextAligned
  <2>5. Extends(file', file)
    BY <1>1, <2>1, FileGrows
  <2> QED BY <2>3, <2>4, <2>5, ParsedGrows
<1>2. LedgerInv /\ LedgerInv' /\ [Next]_vars
        => [cuts' = 0 /\ lost' = lost => IsPrefix(Parsed(file), Parsed(file'))]_vars
  BY <1>1
<1> QED BY <1>2, LedgerSafe, PTL DEF ReplayGrows, Spec

=============================================================================
