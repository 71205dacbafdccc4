----------------------------- MODULE OrderProofs -----------------------------
(***************************************************************************)
(* The engine implements ForcedOrder: for every valid pipeline, every      *)
(* setting, and any number of crashes and lost appends.                    *)
(***************************************************************************)
EXTENDS EngineOrder, EngineProofs, FiniteSetTheorems

-----------------------------------------------------------------------------
(* Counting: the enabled sub-states numbered through.                      *)

Pairs(m) ==
    {q \in Macros \X UNION {Subs(n) : n \in Macros} :
        q[1] < m /\ q[2] \in EnabledSubs(q[1])}

\* The place of sub-state k among the enabled ones of its macro.
Upto(m, k) == {j \in EnabledSubs(m) : j <= k}
Rank(m, k) == Cardinality(Upto(m, k))

LEMMA MacroRange == Macros = 1..Len(Pipeline) /\ Len(Pipeline) \in Nat \ {0}
<1>1. Pipeline \in Seq(Macro) /\ Pipeline # <<>>
  BY ProfileAssumption DEF Runnable
<1> QED BY <1>1 DEF Macros

LEMMA EnabledFinite ==
    ASSUME NEW m \in Macros
    PROVE  /\ IsFiniteSet(EnabledSubs(m))
           /\ Cardinality(EnabledSubs(m)) \in Nat
<1>1. EnabledSubs(m) \in SUBSET (1..Trailing(m)) /\ Trailing(m) \in Int /\ 1 \in Int
  BY MacrosTyped
<1>2. IsFiniteSet(1..Trailing(m))
  BY <1>1, FS_Interval
<1> QED BY <1>1, <1>2, FS_Subset, FS_CardinalityType

LEMMA RankCounts ==
    ASSUME NEW m \in Macros, NEW k \in Nat
    PROVE  /\ IsFiniteSet(Upto(m, k))
           /\ Rank(m, k) \in Nat /\ Rank(m, k) <= Cardinality(EnabledSubs(m))
           /\ k \in EnabledSubs(m) => Rank(m, k) >= 1
<1>1. Upto(m, k) \in SUBSET EnabledSubs(m) /\ IsFiniteSet(EnabledSubs(m))
  BY EnabledFinite DEF Upto
<1>2. /\ IsFiniteSet(Upto(m, k)) /\ Rank(m, k) \in Nat
      /\ Rank(m, k) <= Cardinality(EnabledSubs(m))
  BY <1>1, FS_Subset, FS_CardinalityType DEF Rank
<1>3. ASSUME k \in EnabledSubs(m) PROVE Rank(m, k) >= 1
  <2>1. Upto(m, k) # {}
    BY <1>3 DEF Upto
  <2>2. Rank(m, k) # 0
    BY <1>2, <2>1, FS_EmptySet DEF Rank
  <2> QED BY <1>2, <2>2
<1> QED BY <1>2, <1>3

\* From one sub-state to a later one the rank grows.
LEMMA RankGrows ==
    ASSUME NEW m \in Macros, NEW k \in Nat, NEW l \in EnabledSubs(m), k < l
    PROVE  Rank(m, k) < Rank(m, l)
<1>0. l \in Nat
  BY MacrosTyped
<1>1. Upto(m, k) \in SUBSET Upto(m, l) /\ l \in Upto(m, l) /\ l \notin Upto(m, k)
  <2>1. \A j \in EnabledSubs(m) : j \in Nat
    BY MacrosTyped
  <2>2. l \in Upto(m, l) /\ l \notin Upto(m, k)
    BY <1>0 DEF Upto
  <2>3. \A j \in EnabledSubs(m) : j <= k => j <= l
    BY <1>0, <2>1
  <2>4. Upto(m, k) \subseteq Upto(m, l)
    BY <2>3 DEF Upto
  <2> QED BY <2>2, <2>4
<1>2. IsFiniteSet(Upto(m, l)) /\ Rank(m, l) \in Nat /\ Rank(m, k) \in Nat
  BY <1>0, RankCounts
<1>3. Rank(m, k) <= Rank(m, l) /\ Rank(m, k) # Rank(m, l)
  BY <1>1, <1>2, FS_Subset DEF Rank
<1> QED BY <1>2, <1>3

\* To the next sub-state it grows by one.
LEMMA RankNext ==
    ASSUME NEW m \in Macros, NEW k \in Nat, k < Trailing(m)
    PROVE  Rank(m, NextEnabled(m, k)) = Rank(m, k) + 1
<1> DEFINE n == NextEnabled(m, k)
<1>1. n \in EnabledSubs(m) /\ n > k /\ \A j \in EnabledSubs(m) : j > k => n <= j
  BY NextEnabledIsNext
<1>2. \A j \in EnabledSubs(m) : j \in Nat
  BY MacrosTyped
<1> HIDE DEF n
<1>3. Upto(m, n) = Upto(m, k) \cup {n} /\ n \notin Upto(m, k)
  BY <1>1, <1>2 DEF Upto
<1>4. IsFiniteSet(Upto(m, k))
  BY RankCounts
<1> QED BY <1>3, <1>4, FS_AddElement DEF Rank, n

LEMMA RankFirst == ASSUME NEW m \in Macros PROVE Rank(m, FirstEnabled(m)) = 1
<1> DEFINE f == FirstEnabled(m)
<1>1. f \in EnabledSubs(m) /\ \A j \in EnabledSubs(m) : f <= j
  BY FirstEnabledIsFirst
<1>2. \A j \in EnabledSubs(m) : j \in Nat
  BY MacrosTyped
<1> HIDE DEF f
<1>3. Upto(m, f) = {f}
  BY <1>1, <1>2 DEF Upto
<1> QED BY <1>3, FS_Singleton DEF Rank, f

LEMMA RankLast ==
    ASSUME NEW m \in Macros PROVE Rank(m, Trailing(m)) = Cardinality(EnabledSubs(m))
<1>1. Upto(m, Trailing(m)) = EnabledSubs(m)
  BY MacrosTyped DEF Upto
<1> QED BY <1>1 DEF Rank

LEMMA BeforeCounts ==
    ASSUME NEW m \in Nat
    PROVE  /\ Before(m) = Cardinality(Pairs(m))
           /\ IsFiniteSet(Pairs(m))
           /\ Before(m) \in Nat
<1> DEFINE lists == {Subs(n) : n \in Macros}
<1>1. IsFiniteSet(Macros)
  BY MacroRange, FS_Interval
<1>2. IsFiniteSet(lists)
  <2>1. [n \in Macros |-> Subs(n)] \in Surjection(Macros, lists)
    BY DEF Surjection
  <2> HIDE DEF lists
  <2> QED BY <1>1, <2>1, FS_Surjection
<1>3. \A T \in lists : IsFiniteSet(T)
  <2> SUFFICES ASSUME NEW n \in Macros PROVE IsFiniteSet(Subs(n))
    OBVIOUS
  <2>1. Subs(n) = 1..Trailing(n) /\ 1 \in Int /\ Trailing(n) \in Int
    BY MacrosTyped
  <2> QED BY <2>1, FS_Interval
<1> HIDE DEF lists
<1>4. IsFiniteSet(Macros \X UNION lists)
  BY <1>1, <1>2, <1>3, FS_UNION, FS_Product
<1>5. Pairs(m) \in SUBSET (Macros \X UNION lists)
  BY DEF Pairs, lists
<1>6. IsFiniteSet(Pairs(m)) /\ Cardinality(Pairs(m)) \in Nat
  BY <1>4, <1>5, FS_Subset, FS_CardinalityType
<1> QED BY <1>6 DEF Before, Pairs

LEMMA BeforeNext ==
    ASSUME NEW m \in Macros
    PROVE  Before(m + 1) = Before(m) + Cardinality(EnabledSubs(m))
<1> DEFINE own == {m} \X EnabledSubs(m)
<1>0. m \in Nat /\ m + 1 \in Nat /\ \A n \in Macros : n \in Nat
  BY MacrosTyped
<1>1. Pairs(m + 1) = Pairs(m) \cup own
  <2>1. \A k \in EnabledSubs(m) : k \in UNION {Subs(n) : n \in Macros}
    BY DEF EnabledSubs
  <2>2. \A n \in Macros : n < m + 1 <=> (n < m \/ n = m)
    BY <1>0
  <2>3. ASSUME NEW q \in Pairs(m + 1) PROVE q \in Pairs(m) \cup own
    BY <2>2, <2>3 DEF Pairs
  <2>4. ASSUME NEW q \in Pairs(m) PROVE q \in Pairs(m + 1)
    BY <2>2, <2>4 DEF Pairs
  <2>5. ASSUME NEW q \in own PROVE q \in Pairs(m + 1)
    BY <2>1, <2>2, <2>5 DEF Pairs
  <2> HIDE DEF own
  <2> QED BY <2>3, <2>4, <2>5
<1>2. Pairs(m) \cap own = {}
  BY <1>0 DEF Pairs
<1>3. IsFiniteSet(own) /\ Cardinality(own) = Cardinality(EnabledSubs(m))
  <2>1. IsFiniteSet({m}) /\ Cardinality({m}) = 1
    BY FS_Singleton
  <2>2. IsFiniteSet(own) /\ Cardinality(own) = Cardinality({m}) * Cardinality(EnabledSubs(m))
    BY <2>1, EnabledFinite, FS_Product
  <2>3. Cardinality(EnabledSubs(m)) \in Nat
    BY EnabledFinite
  <2> HIDE DEF own
  <2> QED BY <2>1, <2>2, <2>3
<1> HIDE DEF own
<1>4. IsFiniteSet(Pairs(m)) /\ Before(m) = Cardinality(Pairs(m)) /\ Before(m) \in Nat
      /\ Before(m + 1) = Cardinality(Pairs(m + 1))
  BY <1>0, BeforeCounts
<1>5. Cardinality(Pairs(m + 1)) = Cardinality(Pairs(m)) + Cardinality(own)
                                  - Cardinality(Pairs(m) \cap own)
  BY <1>1, <1>3, <1>4, FS_Union
<1>6. Cardinality(Pairs(m) \cap own) = 0
  BY <1>2, FS_EmptySet
<1>7. Cardinality(EnabledSubs(m)) \in Nat
  BY EnabledFinite
<1> QED BY <1>3, <1>4, <1>5, <1>6, <1>7

LEMMA BeforeGrows ==
    ASSUME NEW m \in Nat, NEW n \in Nat, m <= n PROVE Before(m) <= Before(n)
<1>1. \A l \in Macros : l \in Nat
  BY MacrosTyped
<1>2. Pairs(m) \in SUBSET Pairs(n)
  BY <1>1 DEF Pairs
<1> QED BY <1>2, BeforeCounts, FS_Subset

LEMMA BeforeFirst == Before(1) = 0
<1>1. Pairs(1) = {}
  <2>1. \A n \in Macros : n \in Nat /\ n # 0
    BY MacrosTyped
  <2> QED BY <2>1 DEF Pairs
<1> QED BY <1>1, BeforeCounts, FS_EmptySet

-----------------------------------------------------------------------------
(* Positions and the steps they are.                                       *)

OnStep(p) == p \in Positions /\ p.sub \in EnabledSubs(p.macro)

LEMMA OnStepAt ==
    ASSUME NEW m \in Macros, NEW k \in EnabledSubs(m)
    PROVE  /\ OnStep(At(m, k))
           /\ At(m, k).macro = m /\ At(m, k).sub = k
BY MacrosTyped DEF OnStep, At, Positions

LEMMA StepCounted ==
    ASSUME NEW p, OnStep(p)
    PROVE  /\ p.macro \in Macros /\ p.macro \in Nat /\ p.macro + 1 \in Nat
           /\ p.sub \in EnabledSubs(p.macro) /\ p.sub \in Nat
           /\ p = At(p.macro, p.sub)
           /\ StepAt(p) = Before(p.macro) + Rank(p.macro, p.sub)
           /\ StepAt(p) \in Nat
           /\ Before(p.macro) < StepAt(p)
           /\ StepAt(p) <= Before(p.macro + 1)
<1>1. /\ p.macro \in Macros /\ p.macro \in Nat /\ p.macro + 1 \in Nat
      /\ p.sub \in EnabledSubs(p.macro) /\ p.sub \in Nat
      /\ p = At(p.macro, p.sub)
  BY MacrosTyped DEF OnStep, Positions, At
<1>2. StepAt(p) = Before(p.macro) + Rank(p.macro, p.sub)
  BY DEF StepAt, Rank, Upto
<1>3. /\ Rank(p.macro, p.sub) \in Nat /\ Rank(p.macro, p.sub) >= 1
      /\ Rank(p.macro, p.sub) <= Cardinality(EnabledSubs(p.macro))
      /\ Cardinality(EnabledSubs(p.macro)) \in Nat
  BY <1>1, RankCounts, EnabledFinite
<1>4. /\ Before(p.macro) \in Nat
      /\ Before(p.macro + 1) = Before(p.macro) + Cardinality(EnabledSubs(p.macro))
  BY <1>1, BeforeCounts, BeforeNext
<1> QED BY <1>1, <1>2, <1>3, <1>4

\* A session on its way is at one of the steps.
LEMMA StepInRange ==
    ASSUME NEW p, OnStep(p) PROVE StepAt(p) \in 1..StepCount /\ StepCount \in Nat
<1>1. /\ p.macro \in 1..Len(Pipeline) /\ Len(Pipeline) \in Nat
      /\ p.macro + 1 \in Nat /\ Len(Pipeline) + 1 \in Nat
      /\ StepAt(p) \in Nat /\ Before(p.macro) < StepAt(p)
      /\ StepAt(p) <= Before(p.macro + 1)
  BY StepCounted, MacroRange
<1>2. Before(p.macro + 1) <= StepCount
  BY <1>1, BeforeGrows DEF StepCount
<1> DEFINE last == Len(Pipeline) + 1
           next == p.macro + 1
<1>3. last \in Nat /\ next \in Nat /\ p.macro \in Nat
  BY <1>1
<1> HIDE DEF last, next
<1>4. Before(last) \in Nat /\ Before(next) \in Nat /\ Before(p.macro) \in Nat
  BY <1>3, BeforeCounts
<1>5. StepCount \in Nat /\ Before(p.macro + 1) \in Nat
  BY <1>4 DEF StepCount, last, next
<1> QED BY <1>1, <1>2, <1>4, <1>5

LEMMA StepsApart ==
    ASSUME NEW p, OnStep(p), NEW q, OnStep(q),
           p.macro < q.macro \/ (p.macro = q.macro /\ p.sub < q.sub)
    PROVE  StepAt(p) < StepAt(q)
<1>1. CASE p.macro < q.macro
  <2>1. /\ p.macro + 1 <= q.macro /\ p.macro + 1 \in Nat /\ q.macro \in Nat
        /\ StepAt(p) <= Before(p.macro + 1) /\ Before(q.macro) < StepAt(q)
        /\ StepAt(p) \in Nat /\ StepAt(q) \in Nat
    BY <1>1, StepCounted
  <2>2. Before(p.macro + 1) <= Before(q.macro)
    BY <2>1, BeforeGrows
  <2>3. Before(p.macro + 1) \in Nat /\ Before(q.macro) \in Nat
    BY <2>1, BeforeCounts
  <2> QED BY <2>1, <2>2, <2>3
<1>2. CASE p.macro = q.macro /\ p.sub < q.sub
  <2>1. /\ q.macro \in Macros /\ q.macro \in Nat /\ p.sub \in Nat /\ q.sub \in Nat
        /\ q.sub \in EnabledSubs(q.macro)
        /\ StepAt(p) = Before(q.macro) + Rank(q.macro, p.sub)
        /\ StepAt(q) = Before(q.macro) + Rank(q.macro, q.sub)
    BY <1>2, StepCounted
  <2>2. Rank(q.macro, p.sub) < Rank(q.macro, q.sub)
    BY <1>2, <2>1, RankGrows
  <2>3. /\ Rank(q.macro, p.sub) \in Nat /\ Rank(q.macro, q.sub) \in Nat
        /\ Before(q.macro) \in Nat
    BY <2>1, RankCounts, BeforeCounts
  <2> QED BY <2>1, <2>2, <2>3
<1> QED BY <1>1, <1>2

LEMMA StepUnique ==
    ASSUME NEW p, OnStep(p), NEW q, OnStep(q), StepAt(p) = StepAt(q) PROVE p = q
<1>1. /\ p.macro \in Nat /\ q.macro \in Nat /\ p.sub \in Nat /\ q.sub \in Nat
      /\ p = At(p.macro, p.sub) /\ q = At(q.macro, q.sub)
      /\ StepAt(p) \in Nat /\ StepAt(q) \in Nat
  BY StepCounted
<1>2. ~ (StepAt(p) < StepAt(q)) /\ ~ (StepAt(q) < StepAt(p))
  BY <1>1
<1>3. ~ (p.macro < q.macro) /\ ~ (q.macro < p.macro)
  BY <1>2, StepsApart
<1>4. p.macro = q.macro
  BY <1>1, <1>3
<1>5. ~ (p.sub < q.sub) /\ ~ (q.sub < p.sub)
  BY <1>2, <1>4, StepsApart
<1> QED BY <1>1, <1>4, <1>5

LEMMA OnStepEnabled == \A p : p \in EnabledPositions <=> OnStep(p)
<1>1. ASSUME NEW p \in EnabledPositions PROVE OnStep(p)
  <2>1. PICK q \in Macros \X UNION {Subs(n) : n \in Macros} :
          q[2] \in EnabledSubs(q[1]) /\ p = At(q[1], q[2])
    BY DEF EnabledPositions
  <2> QED BY <2>1, OnStepAt
<1>2. ASSUME NEW p, OnStep(p) PROVE p \in EnabledPositions
  <2>1. p.macro \in Macros /\ p.sub \in EnabledSubs(p.macro) /\ p = At(p.macro, p.sub)
    BY <1>2, StepCounted
  <2>2. p.sub \in UNION {Subs(n) : n \in Macros}
    BY <2>1 DEF EnabledSubs
  <2>3. <<p.macro, p.sub>> \in Macros \X UNION {Subs(n) : n \in Macros}
    BY <2>1, <2>2
  <2> QED BY <2>1, <2>3 DEF EnabledPositions
<1> QED BY <1>1, <1>2

\* The gates of the abstract specification are the gates of the profile.
LEMMA GateStep ==
    ASSUME NEW p, OnStep(p)
    PROVE  StepAt(p) \in GateSteps <=> Kind(p.macro, p.sub) = "human_approval"
<1>1. ASSUME StepAt(p) \in GateSteps PROVE Kind(p.macro, p.sub) = "human_approval"
  <2>1. PICK q \in EnabledPositions :
          Kind(q.macro, q.sub) = "human_approval" /\ StepAt(p) = StepAt(q)
    BY <1>1 DEF GateSteps
  <2>2. p = q
    BY <2>1, OnStepEnabled, StepUnique
  <2> QED BY <2>1, <2>2
<1>2. ASSUME Kind(p.macro, p.sub) = "human_approval" PROVE StepAt(p) \in GateSteps
  BY <1>2, OnStepEnabled DEF GateSteps
<1> QED BY <1>1, <1>2

-----------------------------------------------------------------------------
(* Every move of a session is a move of the abstract specification.        *)

LEMMA StepStart == OnStep(Fresh.position) /\ StepAt(Fresh.position) = 1
<1>1. 1 \in Macros /\ FirstEnabled(1) \in EnabledSubs(1)
  BY NextMacro, FirstEnabledIsFirst
<1>2. Fresh.position = At(1, FirstEnabled(1))
  BY DEF Fresh
<1>3. OnStep(Fresh.position) /\ Fresh.position.macro = 1 /\ Fresh.position.sub = FirstEnabled(1)
  BY <1>1, <1>2, OnStepAt
<1>4. StepAt(Fresh.position) = Before(1) + Rank(1, FirstEnabled(1))
  BY <1>3, StepCounted
<1> QED BY <1>1, <1>3, <1>4, BeforeFirst, RankFirst

LEMMA StepPlain ==
    ASSUME NEW p, OnStep(p), p.sub < Trailing(p.macro),
           NEW n, n = At(p.macro, NextEnabled(p.macro, p.sub))
    PROVE  OnStep(n) /\ StepAt(n) = StepAt(p) + 1
<1>1. /\ p.macro \in Macros /\ p.macro \in Nat /\ p.sub \in Nat
      /\ StepAt(p) = Before(p.macro) + Rank(p.macro, p.sub)
  BY StepCounted
<1>2. NextEnabled(p.macro, p.sub) \in EnabledSubs(p.macro)
  BY <1>1, NextEnabledIsNext
<1>3. OnStep(n) /\ n.macro = p.macro /\ n.sub = NextEnabled(p.macro, p.sub)
  BY <1>1, <1>2, OnStepAt
<1>4. StepAt(n) = Before(p.macro) + Rank(p.macro, NextEnabled(p.macro, p.sub))
  BY <1>3, StepCounted
<1>5. Rank(p.macro, NextEnabled(p.macro, p.sub)) = Rank(p.macro, p.sub) + 1
  BY <1>1, RankNext
<1>6. Before(p.macro) \in Nat /\ Rank(p.macro, p.sub) \in Nat
  BY <1>1, BeforeCounts, RankCounts
<1> QED BY <1>1, <1>3, <1>4, <1>5, <1>6

LEMMA StepTrailing ==
    ASSUME NEW p, OnStep(p), p.sub = Trailing(p.macro)
    PROVE  StepAt(p) = Before(p.macro + 1)
<1>1. p.macro \in Macros /\ StepAt(p) = Before(p.macro) + Rank(p.macro, p.sub)
  BY StepCounted
<1> QED BY <1>1, RankLast, BeforeNext

LEMMA StepMacro ==
    ASSUME NEW p, OnStep(p), p.sub = Trailing(p.macro), ~IsFinal(p.macro),
           NEW n, n = At(p.macro + 1, FirstEnabled(p.macro + 1))
    PROVE  OnStep(n) /\ StepAt(n) = StepAt(p) + 1
<1>1. p.macro \in Macros
  BY StepCounted
<1>2. p.macro + 1 \in Macros /\ FirstEnabled(p.macro + 1) \in EnabledSubs(p.macro + 1)
  BY <1>1, NextMacro, FirstEnabledIsFirst
<1>3. OnStep(n) /\ n.macro = p.macro + 1 /\ n.sub = FirstEnabled(p.macro + 1)
  BY <1>2, OnStepAt
<1>4. StepAt(n) = Before(p.macro + 1) + 1
  BY <1>2, <1>3, StepCounted, RankFirst
<1> QED BY <1>3, <1>4, StepTrailing

LEMMA StepEnd ==
    ASSUME NEW p, OnStep(p), p.sub = Trailing(p.macro), IsFinal(p.macro)
    PROVE  StepAt(p) = StepCount
BY StepTrailing DEF IsFinal, StepCount

LEMMA StepBack ==
    ASSUME NEW p, OnStep(p), p.sub = Trailing(p.macro), p.macro \in LoopingMacros,
           NEW n, n = At(p.macro, FirstExecute(p.macro))
    PROVE  /\ OnStep(n)
           /\ StepAt(p) \in DOMAIN LoopTarget
           /\ LoopTarget[StepAt(p)] = StepAt(n)
<1> DEFINE ends == {StepAt(At(m, Trailing(m))) : m \in LoopingMacros}
           Of(i) == CHOOSE m \in LoopingMacros : StepAt(At(m, Trailing(m))) = i
<1>1. p.macro \in Macros /\ Pipeline[p.macro].loop /\ p = At(p.macro, Trailing(p.macro))
  BY StepCounted DEF LoopingMacros
<1>2. OnStep(n)
  BY <1>1, FirstExecuteIsExecute, OnStepAt
<1>3. StepAt(p) \in ends
  BY <1>1
<1>4. \A m \in LoopingMacros : StepAt(At(m, Trailing(m))) = StepAt(p) => m = p.macro
  <2> SUFFICES ASSUME NEW m \in LoopingMacros, StepAt(At(m, Trailing(m))) = StepAt(p)
               PROVE  m = p.macro
    OBVIOUS
  <2>1. m \in Macros /\ Trailing(m) \in EnabledSubs(m)
    BY MacrosTyped DEF LoopingMacros
  <2>2. OnStep(At(m, Trailing(m))) /\ At(m, Trailing(m)).macro = m
    BY <2>1, OnStepAt
  <2>3. At(m, Trailing(m)) = p
    BY <2>2, StepUnique
  <2> QED BY <2>2, <2>3
<1>5. Of(StepAt(p)) = p.macro
  BY <1>1, <1>4
<1>6. LoopTarget[StepAt(p)] = StepAt(At(Of(StepAt(p)), FirstExecute(Of(StepAt(p)))))
  BY <1>3 DEF LoopTarget
<1>7. DOMAIN LoopTarget = ends
  BY DEF LoopTarget
<1> QED BY <1>2, <1>3, <1>5, <1>6, <1>7


-----------------------------------------------------------------------------
(* The inductive invariant.                                                *)

KindAt(p) == Kind(p.macro, p.sub)

\* A session on its way is at a step; it holds a challenge, one of the first n
\* minted, at a gate only.
Placed(s, n) ==
    /\ s.position # None => OnStep(s.position)
    /\ s.pending_approval # None =>
         /\ s.position # None
         /\ KindAt(s.position) = "human_approval"
         /\ s.pending_approval.nonce <= n

\* The human has signed the challenge that s holds.
Consents(s) == s.pending_approval # None /\ s.pending_approval \in signed

HolderInv ==
    /\ \A s \in {session, durable} \ {None} : Placed(s, minted)
    /\ \A c \in signed : c.nonce <= minted

\* What a handler has established of s where it stands at `location'.
Fits(s, location) ==
    /\ location = "entering" => s.pending_approval = None
    /\ location = "approved" =>
         KindAt(s.position) = "human_approval" /\ Consents(s)
    /\ location \in {"rejected", "advancing", "accepting", "completing"} =>
         KindAt(s.position) = "checklist"
    /\ location \in {"accepting", "completing"} => IsFinal(s.position.macro)

\* Until protocol_start returns, nothing but the start has happened.
BirthInv ==
    /\ pc = "publishing" => ~published
    /\ ~published =>
         /\ pc \in {"idle", "entering", "publishing"}
         /\ signed = {}
         /\ session # None => session.position = Fresh.position
    /\ published => durable # None

PassageInv == HolderInv /\ Fits(session, pc) /\ BirthInv

Sound == "unsynced" \notin Faults /\ TypeInv /\ ReplayInv /\ PassageInv

-----------------------------------------------------------------------------
(* What the abstract specification sees of a session.                      *)

\* The session as the engine has it, or would have it after a recovery.
Known == IF session # None THEN session ELSE durable

StepOf(s) == IF s.position = None THEN StepCount + 1 ELSE StepAt(s.position)

Sight ==
    /\ published =>
         /\ Known # None
         /\ CurrentStep = StepOf(Known)
         /\ (published /\ durable.status = "Failed") <=> Known.status = "Failed"
         /\ Consented <=> Consents(Known)
    /\ ~published => CurrentStep = 0 /\ ~Consented

LEMMA Seen == Sound => Sight
<1> SUFFICES ASSUME Sound PROVE Sight
  OBVIOUS
<1>1. session # None => Stands(session, durable)
  BY DEF Sound, ReplayInv, StandsInv
<1>2. published => durable # None
  BY DEF Sound, PassageInv, BirthInv
<1>3. CASE published /\ session # None
  <2>1. Known = session
    BY <1>3 DEF Known
  <2>2. CurrentStep = StepOf(session)
    BY <1>1, <1>3 DEF CurrentStep, StepOf, Stands
  <2>3. Consented <=> Consents(session)
    BY <1>1, <1>3 DEF Consented, Consents, Stands
  <2> QED BY <1>1, <1>3, <2>1, <2>2, <2>3 DEF Stands, Sight
<1>4. CASE published /\ session = None
  <2>1. Known = durable
    BY <1>4 DEF Known
  <2>2. CurrentStep = StepOf(durable)
    BY <1>4 DEF CurrentStep, StepOf
  <2>3. Consented <=> Consents(durable)
    BY <1>2, <1>4 DEF Consented, Consents
  <2> QED BY <1>2, <1>4, <2>1, <2>2, <2>3 DEF Sight
<1>5. CASE ~published
  BY <1>5 DEF Sight, CurrentStep, Consented, Sound, PassageInv, BirthInv
<1> QED BY <1>3, <1>4, <1>5

LEMMA SeenNext == Sound' => Sight'
<1> QED BY Seen, PTL

-----------------------------------------------------------------------------
(* What a handler may do to a session s, that becomes t.                   *)

\* s stays where it is; a consent may be lost.
Stays(s, t) ==
    /\ t.position = s.position
    /\ t.status = s.status
    /\ Consents(t) => Consents(s)

\* It goes one step forward, past a gate with a consent only.
Advances(s, t) ==
    /\ s.position # None
    /\ KindAt(s.position) = "human_approval" => Consents(s)
    /\ s.status # "Failed" /\ t.status # "Failed"
    /\ StepOf(t) = StepOf(s) + 1
    /\ ~Consents(t)

\* It goes back to where its macro loops to.
Returns(s, t) ==
    /\ s.position # None
    /\ s.status # "Failed" /\ t.status # "Failed"
    /\ StepOf(s) \in DOMAIN LoopTarget
    /\ StepOf(t) = LoopTarget[StepOf(s)]
    /\ Consents(t) <=> Consents(s)

\* A breaker ends it.
Trips(s, t) ==
    /\ s.position # None /\ t.position = s.position
    /\ s.status # "Failed" /\ t.status = "Failed"
    /\ Consents(t) <=> Consents(s)

Turn(s, t) == Stays(s, t) \/ Advances(s, t) \/ Returns(s, t) \/ Trips(s, t)

AbstractStep == [Order!OrderNext]_(Order!orderVars)

\* Each of them is a step of the abstract specification.
LEMMA TurnSeen ==
    ASSUME Sound, Sound', published, published', signed' = signed,
           Turn(Known, Known')
    PROVE  AbstractStep
<1> DEFINE failed == published /\ durable.status = "Failed"
<1>1. Sight /\ Sight'
  BY Seen, SeenNext
<1>2. /\ CurrentStep = StepOf(Known) /\ CurrentStep' = StepOf(Known')
      /\ failed <=> Known.status = "Failed"
      /\ failed' <=> Known'.status = "Failed"
      /\ Consented <=> Consents(Known)
      /\ Consented' <=> Consents(Known')
      /\ Known # None
  BY <1>1 DEF Sight, StepOf, Consents
<1>3. Known.position # None =>
        /\ CurrentStep \in 1..StepCount
        /\ CurrentStep \in GateSteps <=> KindAt(Known.position) = "human_approval"
  <2>1. Known.position # None => OnStep(Known.position)
    BY <1>2 DEF Sound, PassageInv, HolderInv, Placed, Known
  <2> QED BY <1>2, <2>1, StepInRange, GateStep DEF StepOf, KindAt
<1>b. Consented \in BOOLEAN /\ Consented' \in BOOLEAN
  BY Zenon DEF Consented
<1>4. CASE Stays(Known, Known')
  <2>1. CurrentStep' = CurrentStep /\ (failed' <=> failed) /\ (Consented' => Consented)
    BY <1>2, <1>4 DEF Stays, StepOf
  <2>2. CASE Consented' <=> Consented
    BY <2>1, <2>2 DEF AbstractStep, Order!orderVars
  <2>3. CASE Consented /\ ~Consented'
    BY <2>1, <2>3 DEF AbstractStep, Order!OrderNext, Order!Lapse
  <2> QED BY <2>1, <2>2, <2>3
<1>5. CASE Advances(Known, Known')
  <2>1. /\ CurrentStep \in 1..StepCount /\ ~failed /\ ~failed'
        /\ CurrentStep \in GateSteps => Consented
        /\ CurrentStep' = CurrentStep + 1 /\ ~Consented'
    BY <1>2, <1>3, <1>5 DEF Advances
  <2> QED BY <2>1 DEF AbstractStep, Order!OrderNext, Order!Forward, Order!UnderWay
<1>6. CASE Returns(Known, Known')
  <2>1. /\ CurrentStep \in 1..StepCount /\ ~failed /\ ~failed'
        /\ CurrentStep \in DOMAIN LoopTarget
        /\ CurrentStep' = LoopTarget[CurrentStep] /\ (Consented' <=> Consented)
    BY <1>2, <1>3, <1>6 DEF Returns
  <2> QED BY <1>b, <2>1 DEF AbstractStep, Order!OrderNext, Order!Back, Order!UnderWay
<1>7. CASE Trips(Known, Known')
  <2>1. /\ CurrentStep \in 1..StepCount /\ ~failed /\ failed'
        /\ CurrentStep' = CurrentStep /\ (Consented' <=> Consented)
    BY <1>2, <1>3, <1>7 DEF Trips, StepOf
  <2> QED BY <1>b, <2>1 DEF AbstractStep, Order!OrderNext, Order!Fail, Order!UnderWay
<1> QED BY <1>4, <1>5, <1>6, <1>7 DEF Turn

-----------------------------------------------------------------------------
(* The handlers.                                                           *)

\* The session of a handler in progress, or of a client's call.
LEMMA AtWork ==
    ASSUME Sound, pc # "idle" \/ Active
    PROVE  /\ Held(session) /\ session # None /\ session.status = "Active"
           /\ session.position # None
           /\ session.position \in Positions
           /\ session.position.macro \in Macros
           /\ session.position.sub \in Nat
           /\ OnStep(session.position)
           /\ Placed(session, minted) /\ Fits(session, pc)
           /\ Known = session
           /\ Stands(session, durable)
           /\ pc \notin {"entering", "publishing"} => published
<1>1. /\ Held(session) /\ session # None /\ session.status = "Active"
      /\ session.position # None
      /\ session.position \in Positions
      /\ session.position.macro \in Macros
      /\ session.position.sub \in Nat
  BY Engaged DEF Sound
<1>2. Placed(session, minted) /\ Fits(session, pc)
  BY <1>1 DEF Sound, PassageInv, HolderInv
<1>3. pc \notin {"entering", "publishing"} => published
  BY DEF Sound, PassageInv, BirthInv, Active
<1>4. Stands(session, durable)
  BY <1>1 DEF Sound, ReplayInv, StandsInv
<1> QED BY <1>1, <1>2, <1>3, <1>4 DEF Known, Placed

\* Only the trailing sub-state of a macro is a checklist.
LEMMA ChecklistTrails ==
    ASSUME NEW p, OnStep(p)
    PROVE  /\ KindAt(p) = "checklist" <=> p.sub = Trailing(p.macro)
           /\ p.sub <= Trailing(p.macro)
<1>1. /\ p.macro \in Macros /\ p.sub \in Subs(p.macro)
      /\ Subs(p.macro) = 1..Trailing(p.macro) /\ Trailing(p.macro) \in Nat
  BY StepCounted, MacrosTyped
<1>2. KindAt(p) = "checklist" <=> p.sub = Trailing(p.macro)
  BY <1>1, ProfileAssumption DEF Runnable, KindAt, Kind, Macros, Subs, Trailing
<1> QED BY <1>1, <1>2

\* The next state's holders are in order when the next live session is.
LEMMA HoldersKept ==
    ASSUME Sound, ReplayInv', TypeInv', session' # None,
           signed' = signed, minted' >= minted, Placed(session', minted')
    PROVE  HolderInv' /\ durable' # None /\ Known' = session'
<1>1. Stands(session', durable')
  BY DEF Sound, ReplayInv, StandsInv
<1>2. Placed(durable', minted')
  BY <1>1 DEF Stands, Placed
<1>3. \A c \in signed' : c.nonce <= minted'
  <2>1. /\ minted \in Nat /\ minted' \in Nat
        /\ \A c \in signed : c.nonce \in Nat /\ c.nonce <= minted
    BY DEF Sound, TypeInv, WorldInv, PassageInv, HolderInv, Challenge
  <2> QED BY <2>1
<1> QED BY <1>1, <1>2, <1>3 DEF HolderInv, Known, Stands

\* An append of a published session is a turn of it, or leaves it as it was.
LEMMA AttemptTurns ==
    ASSUME Sound, TypeInv', ReplayInv', pc # "idle" \/ Active, published,
           NEW e, NEW before, NEW after, NEW next,
           Attempt(e, before, after, next),
           UNCHANGED <<published, signed>>, minted' >= minted,
           before # None, before.position = session.position,
           before.status = session.status,
           before.pending_approval = session.pending_approval,
           after # None, Placed(after, minted'), Fits(after, next),
           Turn(session, after), next # "publishing"
    PROVE  PassageInv' /\ AbstractStep
<1>1. /\ Placed(session, minted) /\ Known = session /\ session # None
  BY AtWork
<1>n. minted \in Nat /\ minted' \in Nat
  BY DEF Sound, TypeInv, WorldInv
<1>2. Placed(before, minted')
  <2>1. session.pending_approval # None => session.pending_approval.nonce \in Nat
    BY AtWork DEF Held, SessionState, Challenge
  <2> QED BY <1>1, <1>n, <2>1 DEF Placed
<1>3. Turn(session, before)
  BY DEF Turn, Stays, Consents
<1>4. Fits(before, "idle")
  BY DEF Fits
<1>5. \/ session' = after /\ pc' = next
      \/ session' = before /\ pc' = "idle"
  BY DEF Attempt
<1>6. session' # None /\ Placed(session', minted') /\ Turn(session, session')
      /\ Fits(session', pc')
  BY <1>2, <1>3, <1>4, <1>5
<1>7. HolderInv' /\ durable' # None /\ Known' = session'
  BY <1>6, HoldersKept
<1>8. Fits(session, pc)'
  BY <1>6 DEF Fits, Consents
<1>9. BirthInv'
  BY <1>5, <1>7 DEF BirthInv
<1>10. PassageInv'
  BY <1>7, <1>8, <1>9 DEF PassageInv
<1>11. Sound'
  BY <1>10 DEF Sound
<1> QED BY <1>1, <1>6, <1>7, <1>10, <1>11, TurnSeen

\* A step that touches neither the session nor its ledger.
LEMMA RestTurns ==
    ASSUME Sound, TypeInv', ReplayInv',
           UNCHANGED <<session, durable, published, signed, minted>>,
           Fits(session, pc'), pc' # pc => published /\ pc' # "publishing"
    PROVE  PassageInv' /\ AbstractStep
<1>1. HolderInv' /\ Fits(session, pc)'
  BY DEF Sound, PassageInv, HolderInv, Fits, Consents
<1>2. BirthInv'
  BY DEF Sound, PassageInv, BirthInv
<1>3. CurrentStep' = CurrentStep /\ (Consented <=> Consented')
  BY DEF CurrentStep, Consented
<1> QED BY <1>1, <1>2, <1>3 DEF PassageInv, AbstractStep, Order!orderVars

LEMMA PlainTurns ==
    ASSUME Sound, TypeInv', ReplayInv', pc # "idle" \/ Active, published,
           KindAt(session.position) # "checklist",
           KindAt(session.position) = "human_approval" => Consents(session),
           AdvancePlain
    PROVE  PassageInv' /\ AbstractStep
<1> DEFINE p == session.position
           next == At(p.macro, NextEnabled(p.macro, p.sub))
           e == SubStateAdvanced(p.sub, next.sub)
           moved == Repositioned(session, next)
<1>1. /\ Held(session) /\ session # None /\ session.status = "Active"
      /\ p # None /\ OnStep(p) /\ p.sub \in Nat
  BY AtWork
<1>2. p.sub < Trailing(p.macro)
  <2>1. p.sub # Trailing(p.macro) /\ p.sub <= Trailing(p.macro) /\ Trailing(p.macro) \in Nat
    BY <1>1, ChecklistTrails, StepCounted, MacrosTyped
  <2> QED BY <1>1, <2>1
<1>3. OnStep(next) /\ StepAt(next) = StepAt(p) + 1
  BY <1>1, <1>2, StepPlain
<1>4. Attempt(e, session, moved, Arrived(next))
      /\ UNCHANGED <<world, inflight, minted, deliverable>>
  BY DEF AdvancePlain
<1> HIDE DEF next, e
<1>5. next \in Positions /\ next # None
  BY <1>3, NoneAssumption DEF OnStep
<1>6. /\ Held(moved) /\ moved.status = "Active" /\ moved.position = next
      /\ moved.pending_approval = None
  BY <1>1, <1>5, RepositionedHeld DEF Repositioned, Held, SessionState
<1> HIDE DEF moved
<1>7. moved # None
  BY <1>6, HeldThere
<1>8. Placed(moved, minted')
  BY <1>3, <1>6 DEF Placed
<1>9. Arrived(next) \in {"entering", "idle"}
  BY DEF Arrived, Settled
<1>10. Fits(moved, Arrived(next))
  BY <1>6, <1>9 DEF Fits
<1>11. StepOf(moved) = StepOf(session) + 1
  BY <1>1, <1>3, <1>5, <1>6 DEF StepOf
<1>12. Turn(session, moved)
  BY <1>1, <1>6, <1>11 DEF Turn, Advances, Consents
<1>13. UNCHANGED <<published, signed>> /\ minted' >= minted
  BY <1>4 DEF world, Sound, TypeInv, WorldInv
<1> QED BY <1>1, <1>4, <1>7, <1>8, <1>9, <1>10, <1>12, <1>13, AttemptTurns

LEMMA TripTurns ==
    ASSUME Sound, TypeInv', ReplayInv', pc # "idle" \/ Active, published,
           NEW breaker, Trip(breaker),
           UNCHANGED <<world, inflight, minted, deliverable>>
    PROVE  PassageInv' /\ AbstractStep
<1> DEFINE ended == Failed(session)
           e == CircuitBreakerTriggered(breaker)
<1>1. /\ Held(session) /\ session # None /\ session.status = "Active"
      /\ session.position # None /\ Placed(session, minted)
  BY AtWork
<1>2. /\ Held(ended) /\ ended.status = "Failed"
      /\ ended.position = session.position
      /\ ended.pending_approval = session.pending_approval
  BY <1>1 DEF Failed, Held, SessionState, Status
<1>3. Attempt(e, session, ended, "idle")
  BY DEF Trip
<1> HIDE DEF ended, e
<1>4. ended # None /\ Placed(ended, minted') /\ Fits(ended, "idle")
  BY <1>1, <1>2, HeldThere DEF Placed, Fits
<1>5. Turn(session, ended)
  BY <1>1, <1>2 DEF Turn, Trips, Consents
<1>6. UNCHANGED <<published, signed>> /\ minted' >= minted
  BY DEF world, Sound, TypeInv, WorldInv
<1> QED BY <1>1, <1>3, <1>4, <1>5, <1>6, AttemptTurns

\* An append that leaves the session at its place, with what it holds.
LEMMA NoteTurns ==
    ASSUME Sound, TypeInv', ReplayInv', pc # "idle" \/ Active, published,
           NEW e, NEW before, Held(before), NEW after, Held(after), NEW next,
           Attempt(e, before, after, next),
           UNCHANGED <<world, minted>>,
           \A s \in {before, after} :
             /\ s.position = session.position
             /\ s.status = session.status
             /\ s.pending_approval = session.pending_approval,
           Fits(after, next), next # "publishing"
    PROVE  PassageInv' /\ AbstractStep
<1>1. Placed(session, minted)
  BY AtWork
<1>2. before # None /\ after # None /\ Placed(after, minted')
  BY <1>1, HeldThere DEF Placed
<1>3. Turn(session, after)
  BY DEF Turn, Stays, Consents
<1>4. UNCHANGED <<published, signed>> /\ minted' >= minted
  BY DEF world, Sound, TypeInv, WorldInv
<1> QED BY <1>2, <1>3, <1>4, AttemptTurns

LEMMA CountedKeepsPlace ==
    ASSUME NEW s, Held(s), NEW keys \in SUBSET Keys
    PROVE  LET t == RejectionCounted(s, keys)
           IN  /\ Held(t) /\ t.position = s.position /\ t.status = s.status
               /\ t.pending_approval = s.pending_approval
<1> DEFINE i == s.macro_iteration + 1
           n == IF s.identical_rejections > 0 /\ keys = s.last_keys
                  THEN s.identical_rejections + 1 ELSE 1
<1>1. RejectionCounted(s, keys) = [s EXCEPT !.macro_iteration = i, !.last_keys = keys,
                                            !.identical_rejections = n]
  BY DEF RejectionCounted, Held, SessionState
<1> HIDE DEF i, n
<1> QED BY <1>1, RejectionCountedHeld DEF Held, SessionState

LEMMA SubmissionTurns ==
    ASSUME Sound, TypeInv', ReplayInv', Submission PROVE PassageInv' /\ AbstractStep
<1>1. Active /\ pc = "idle"
  BY DEF Submission, GlobalTimeout, AdvanceUngated, AcceptApproval,
         RejectApproval, RejectChecklist, AcceptMilestone, ViolateOutput,
         WriteOutput, AcceptUncontracted, Completed, Submitted, Active
<1>2. /\ Held(session) /\ session # None /\ session.status = "Active"
      /\ Placed(session, minted) /\ published
  BY <1>1, AtWork
<1>3. CASE GlobalTimeout
  BY <1>1, <1>2, <1>3, TripTurns DEF GlobalTimeout
<1>4. CASE AdvanceUngated
  <2>1. KindAt(session.position) \notin {"checklist", "human_approval"}
    BY <1>4 DEF AdvanceUngated, Submitted, KindAt
  <2> QED BY <1>1, <1>2, <1>4, <2>1, PlainTurns DEF AdvanceUngated
<1>5. CASE AcceptApproval
  <2>1. PICK sig \in signed :
          Verifies(sig) /\ Attempt(ApprovalAccepted(sig), session, session, "approved")
    BY <1>5 DEF AcceptApproval
  <2>2. Fits(session, "approved")
    BY <1>5, <2>1 DEF AcceptApproval, Submitted, KindAt, Verifies, Consents, Fits
  <2>3. UNCHANGED <<world, minted>>
    BY <1>5 DEF AcceptApproval
  <2> QED BY <1>1, <1>2, <2>1, <2>2, <2>3, NoteTurns
<1>6. CASE RejectApproval
  <2>1. \E next \in {"tripping", "idle"} :
          Attempt(ApprovalRejected, session, Refused(session), next)
    BY <1>6 DEF RejectApproval
  <2>2. PICK next \in {"tripping", "idle"} :
          Attempt(ApprovalRejected, session, Refused(session), next)
    BY <2>1
  <2> DEFINE refused == Refused(session)
  <2>3. /\ Held(refused) /\ refused.position = session.position
        /\ refused.status = session.status
        /\ refused.pending_approval = session.pending_approval
    BY <1>2 DEF Refused, Held, SessionState
  <2>4. Fits(refused, next) /\ next # "publishing"
    BY DEF Fits
  <2>5. UNCHANGED <<world, minted>>
    BY <1>6 DEF RejectApproval
  <2> HIDE DEF refused
  <2>6. Attempt(ApprovalRejected, session, refused, next)
    BY <2>2 DEF refused
  <2> QED BY <1>1, <1>2, <2>3, <2>4, <2>5, <2>6, NoteTurns
<1>7. CASE RejectChecklist
  <2>1. PICK evidence \in Evidence :
          LET counted == RejectionCounted(session, CarriedKeys(evidence))
          IN  Attempt(MilestoneRejected(CarriedKeys(evidence), counted.macro_iteration),
                      counted, counted, "rejected")
    BY <1>7 DEF RejectChecklist
  <2> DEFINE keys == CarriedKeys(evidence)
             counted == RejectionCounted(session, keys)
             e == MilestoneRejected(keys, counted.macro_iteration)
  <2>2. keys \in SUBSET Keys
    BY DEF CarriedKeys
  <2>3. /\ Held(counted) /\ counted.position = session.position
        /\ counted.status = session.status
        /\ counted.pending_approval = session.pending_approval
    BY <1>2, <2>2, CountedKeepsPlace
  <2>4. Attempt(e, counted, counted, "rejected")
    BY <2>1
  <2>5. KindAt(session.position) = "checklist" /\ UNCHANGED <<world, minted>>
    BY <1>7 DEF RejectChecklist, Submitted, KindAt
  <2> HIDE DEF e, counted
  <2>6. Fits(counted, "rejected")
    BY <2>3, <2>5 DEF Fits
  <2> QED BY <1>1, <1>2, <2>3, <2>4, <2>5, <2>6, NoteTurns
<1>8. CASE AcceptMilestone
  <2>1. Fits(session, "advancing")
    BY <1>8 DEF AcceptMilestone, Completed, Submitted, KindAt, Fits
  <2>2. Attempt(MilestoneAccepted, session, session, "advancing") /\ UNCHANGED <<world, minted>>
    BY <1>8 DEF AcceptMilestone
  <2> QED BY <1>1, <1>2, <2>1, <2>2, NoteTurns
<1>9. CASE ViolateOutput
  <2>1. Fits(session, "idle")
    BY DEF Fits
  <2>2. Attempt(OutputContractViolated, session, session, "idle") /\ UNCHANGED <<world, minted>>
    BY <1>9 DEF ViolateOutput
  <2> QED BY <1>1, <1>2, <2>1, <2>2, NoteTurns
<1>10. CASE WriteOutput
  <2>1. Fits(session, "accepting")
    BY <1>10 DEF WriteOutput, Completed, Submitted, KindAt, Fits
  <2>2. pc' = "accepting" /\ UNCHANGED <<session, durable, published, signed, minted>>
    BY <1>10 DEF WriteOutput, world
  <2> QED BY <1>2, <2>1, <2>2, RestTurns
<1>11. CASE AcceptUncontracted
  <2>1. Fits(session, "completing")
    BY <1>11 DEF AcceptUncontracted, Completed, Submitted, KindAt, Fits
  <2>2. Attempt(MilestoneAccepted, session, session, "completing") /\ UNCHANGED <<world, minted>>
    BY <1>11 DEF AcceptUncontracted, AcceptFinal
  <2> QED BY <1>1, <1>2, <2>1, <2>2, NoteTurns
<1> QED BY <1>3, <1>4, <1>5, <1>6, <1>7, <1>8, <1>9, <1>10, <1>11 DEF Submission

LEMMA LoopTurns ==
    ASSUME Sound, TypeInv', ReplayInv', LoopBack PROVE PassageInv' /\ AbstractStep
<1> DEFINE p == session.position
           target == At(p.macro, FirstExecute(p.macro))
           e == MacroLoopedBack(p.sub, target.sub)
           looped == Looped(session, target)
<1>1. /\ pc = "rejected" /\ Held(session) /\ session # None
      /\ session.status = "Active" /\ p # None /\ OnStep(p)
      /\ Placed(session, minted) /\ Fits(session, pc) /\ published
  BY AtWork DEF LoopBack
<1>2. KindAt(p) = "checklist" /\ session.pending_approval = None
  BY <1>1 DEF Fits, Placed
<1>3. p.sub = Trailing(p.macro) /\ p.macro \in LoopingMacros
  <2>1. p.macro \in Macros
    BY <1>1, StepCounted
  <2> QED BY <1>1, <1>2, <2>1, ChecklistTrails DEF LoopBack, LoopEnabled, LoopingMacros
<1>4. /\ OnStep(target) /\ StepAt(p) \in DOMAIN LoopTarget
      /\ LoopTarget[StepAt(p)] = StepAt(target)
  BY <1>1, <1>3, StepBack
<1>5. Attempt(e, session, looped, "idle") /\ UNCHANGED <<world, inflight, minted, deliverable>>
  BY DEF LoopBack
<1> HIDE DEF target, e
<1>6. target \in Positions /\ target # None
  BY <1>4, NoneAssumption DEF OnStep
<1>7. /\ Held(looped) /\ looped.status = "Active" /\ looped.position = target
      /\ looped.pending_approval = None
  BY <1>1, <1>2, <1>6 DEF Looped, Held, SessionState
<1> HIDE DEF looped
<1>8. looped # None /\ Placed(looped, minted') /\ Fits(looped, "idle")
  BY <1>4, <1>7, HeldThere DEF Placed, Fits
<1>9. Turn(session, looped)
  BY <1>1, <1>2, <1>4, <1>6, <1>7 DEF Turn, Returns, Consents, StepOf
<1>10. UNCHANGED <<published, signed>> /\ minted' >= minted
  BY <1>5 DEF world, Sound, TypeInv, WorldInv
<1> QED BY <1>1, <1>5, <1>8, <1>9, <1>10, AttemptTurns

LEMMA MacroTurns ==
    ASSUME Sound, TypeInv', ReplayInv', AdvanceMacro PROVE PassageInv' /\ AbstractStep
<1> DEFINE p == session.position
           n == p.macro + 1
           next == At(n, FirstEnabled(n))
           e == MacroAdvanced(p.macro, n)
           stepped == Repositioned(session, next)
           moved == MacroReset(stepped)
<1>1. /\ pc = "advancing" /\ Held(session) /\ session # None
      /\ session.status = "Active" /\ p # None /\ OnStep(p)
      /\ Fits(session, pc) /\ published
  BY AtWork DEF AdvanceMacro
<1>2. KindAt(p) = "checklist" /\ p.sub = Trailing(p.macro) /\ ~IsFinal(p.macro)
  BY <1>1, ChecklistTrails DEF Fits, Sound, TypeInv, SessionInv
<1>3. OnStep(next) /\ StepAt(next) = StepAt(p) + 1
  BY <1>1, <1>2, StepMacro
<1>4. Attempt(e, session, moved, Arrived(next))
      /\ UNCHANGED <<world, inflight, minted, deliverable>>
  BY DEF AdvanceMacro
<1> HIDE DEF next, e
<1>5. next \in Positions /\ next # None
  BY <1>3, NoneAssumption DEF OnStep
<1>6. /\ Held(stepped) /\ stepped.status = "Active" /\ stepped.position = next
      /\ stepped.pending_approval = None
  BY <1>1, <1>5, RepositionedHeld DEF Repositioned, Held, SessionState
<1> HIDE DEF stepped
<1>7. /\ Held(moved) /\ moved.status = "Active" /\ moved.position = next
      /\ moved.pending_approval = None
  BY <1>6 DEF MacroReset, Held, SessionState
<1> HIDE DEF moved
<1>8. moved # None /\ Placed(moved, minted')
  BY <1>3, <1>7, HeldThere DEF Placed
<1>9. Arrived(next) \in {"entering", "idle"}
  BY <1>1 DEF Arrived, Settled
<1>10. Fits(moved, Arrived(next))
  BY <1>7, <1>9 DEF Fits
<1>11. Turn(session, moved)
  BY <1>1, <1>2, <1>3, <1>5, <1>7 DEF Turn, Advances, Consents, StepOf
<1>12. UNCHANGED <<published, signed>> /\ minted' >= minted
  BY <1>4 DEF world, Sound, TypeInv, WorldInv
<1> QED BY <1>1, <1>4, <1>8, <1>9, <1>10, <1>11, <1>12, AttemptTurns

LEMMA CompleteTurns ==
    ASSUME Sound, TypeInv', ReplayInv', Complete PROVE PassageInv' /\ AbstractStep
<1> DEFINE p == session.position
           e == SessionCompleted(inflight)
           done == [session EXCEPT !.status = "Completed", !.position = None]
<1>1. /\ pc = "completing" /\ Held(session) /\ session # None
      /\ session.status = "Active" /\ p # None /\ OnStep(p)
      /\ Placed(session, minted) /\ Fits(session, pc) /\ published
  BY AtWork DEF Complete
<1>2. /\ KindAt(p) = "checklist" /\ session.pending_approval = None
      /\ p.sub = Trailing(p.macro) /\ IsFinal(p.macro)
  BY <1>1, ChecklistTrails DEF Fits, Placed
<1>3. StepAt(p) = StepCount
  BY <1>1, <1>2, StepEnd
<1>4. Attempt(e, session, done, "idle") /\ UNCHANGED <<world, minted>>
  BY DEF Complete
<1>5. /\ Held(done) /\ done.status = "Completed" /\ done.position = None
      /\ done.pending_approval = None
  BY <1>1, <1>2 DEF Held, SessionState, Status
<1> HIDE DEF e, done
<1>6. done # None /\ Placed(done, minted') /\ Fits(done, "idle")
  BY <1>5, HeldThere DEF Placed, Fits
<1>7. Turn(session, done)
  BY <1>1, <1>2, <1>3, <1>5 DEF Turn, Advances, Consents, StepOf
<1>8. UNCHANGED <<published, signed>> /\ minted' >= minted
  BY <1>4 DEF world, Sound, TypeInv, WorldInv
<1> QED BY <1>1, <1>4, <1>6, <1>7, <1>8, AttemptTurns

-----------------------------------------------------------------------------
(* The start of a session.                                                 *)

LEMMA UnbornRests ==
    ASSUME Sound, Sound', ~published, ~published' PROVE AbstractStep
<1>1. /\ CurrentStep = 0 /\ CurrentStep' = 0
      /\ ~Consented /\ ~Consented'
  BY Seen, SeenNext DEF Sight
<1>2. Consented \in BOOLEAN /\ Consented' \in BOOLEAN
  BY Zenon DEF Consented
<1>3. Consented' = Consented
  BY <1>1, <1>2
<1>4. (published /\ durable.status = "Failed")' = (published /\ durable.status = "Failed")
  OBVIOUS
<1> QED BY <1>1, <1>3, <1>4 DEF AbstractStep, Order!orderVars

LEMMA AbortTurns ==
    ASSUME Sound, TypeInv', ReplayInv', ~published, StartAborted,
           UNCHANGED <<published, signed>>
    PROVE  PassageInv' /\ AbstractStep
<1>1. signed' = {} /\ session' = None /\ durable' = None /\ pc' = "idle"
  BY DEF StartAborted, Sound, PassageInv, BirthInv
<1>2. HolderInv' /\ Fits(session, pc)' /\ BirthInv'
  BY <1>1 DEF HolderInv, Fits, BirthInv
<1>3. PassageInv'
  BY <1>2 DEF PassageInv
<1>4. Sound'
  BY <1>3 DEF Sound
<1> QED BY <1>3, <1>4, UnbornRests

LEMMA StartTurns ==
    ASSUME Sound, TypeInv', ReplayInv', StartSession PROVE PassageInv' /\ AbstractStep
<1>1. ~published /\ UNCHANGED <<published, signed, minted>>
  BY DEF StartSession, Sound, PassageInv, BirthInv
<1>2. CASE StartAborted
  BY <1>1, <1>2, AbortTurns
<1>3. CASE session' = Fresh /\ pc' = Arrived(Fresh.position)
  <2>1. Fresh # None /\ OnStep(Fresh.position) /\ Fresh.pending_approval = None
    BY FreshHeld, HeldThere, StepStart DEF Fresh
  <2>2. Placed(Fresh, minted')
    BY <2>1 DEF Placed
  <2>3. minted' >= minted
    BY <1>1 DEF Sound, TypeInv, WorldInv
  <2>4. HolderInv'
    BY <1>1, <1>3, <2>1, <2>2, <2>3, HoldersKept
  <2>5. pc' \in {"entering", "publishing"}
    BY <1>1, <1>3 DEF Arrived, Settled
  <2>6. Fits(session, pc)'
    BY <1>3, <2>1, <2>5 DEF Fits
  <2>7. BirthInv'
    BY <1>1, <1>3, <2>5 DEF Sound, PassageInv, BirthInv
  <2>8. PassageInv'
    BY <2>4, <2>6, <2>7 DEF PassageInv
  <2>9. Sound'
    BY <2>8 DEF Sound
  <2> QED BY <1>1, <2>8, <2>9, UnbornRests
<1> QED BY <1>2, <1>3 DEF StartSession

LEMMA GateTurns ==
    ASSUME Sound, TypeInv', ReplayInv', EnterGate PROVE PassageInv' /\ AbstractStep
<1> DEFINE c == IssuedFor(session.position)
           e == ApprovalChallengeIssued(c)
           parked == [session EXCEPT !.pending_approval = c,
                                     !.approval_rejections = 0]
<1>1. /\ pc = "entering" /\ Held(session) /\ session # None
      /\ session.status = "Active" /\ session.position # None
      /\ session.position.macro \in Macros /\ session.position.sub \in Nat
      /\ Placed(session, minted)
      /\ session.pending_approval = None
  BY AtWork DEF EnterGate, Fits
<1>2. KindAt(session.position) = "human_approval"
  BY <1>1 DEF Sound, ReplayInv, PlaceInv, KindAt
<1>3. /\ minted' = minted + 1 /\ minted \in Nat /\ minted' >= minted
      /\ UNCHANGED <<published, signed>>
  BY DEF EnterGate, Sound, TypeInv, WorldInv, world
<1>4. c \in Challenge /\ c.nonce = minted + 1 /\ c.nonce <= minted'
  BY <1>1, <1>3 DEF IssuedFor, Challenge
<1>5. c \notin signed
  <2>1. \A d \in signed : d.nonce <= minted
    BY DEF Sound, PassageInv, HolderInv
  <2> HIDE DEF c
  <2> QED BY <1>3, <1>4, <2>1
<1>6. \/ published /\ Attempt(e, session, parked, Settled)
      \/ ~published /\ session' = parked /\ pc' = Settled
      \/ ~published /\ StartAborted
  BY DEF EnterGate
<1> HIDE DEF c, e
<1>7. /\ Held(parked) /\ parked.position = session.position
      /\ parked.status = "Active" /\ parked.pending_approval = c
  <2>1. c \in Challenge \cup {None} /\ 0 \in Nat
    BY <1>4
  <2>2. parked \in SessionState
    BY <1>1, <2>1 DEF Held, SessionState
  <2>3. /\ parked.position = session.position
        /\ parked.status = session.status /\ parked.pending_approval = c
    BY <1>1 DEF Held, SessionState
  <2> QED BY <1>1, <2>2, <2>3 DEF Held
<1> HIDE DEF parked
<1>8. parked # None /\ Placed(parked, minted')
  BY <1>1, <1>2, <1>4, <1>7, HeldThere DEF Placed
<1>9. CASE published /\ Attempt(e, session, parked, Settled)
  <2>1. Settled = "idle"
    BY <1>9 DEF Settled
  <2>2. Fits(parked, Settled) /\ Settled # "publishing"
    BY <2>1 DEF Fits
  <2>3. Turn(session, parked)
    BY <1>1, <1>5, <1>7 DEF Turn, Stays, Consents
  <2> QED BY <1>1, <1>3, <1>8, <1>9, <2>2, <2>3, AttemptTurns
<1>10. CASE ~published /\ session' = parked /\ pc' = Settled
  <2>1. HolderInv'
    BY <1>3, <1>8, <1>10, HoldersKept
  <2>2. pc' = "publishing"
    BY <1>10 DEF Settled
  <2>3. Fits(session, pc)'
    BY <2>2 DEF Fits
  <2>4. BirthInv'
    BY <1>1, <1>3, <1>7, <1>10, <2>2 DEF Sound, PassageInv, BirthInv
  <2>5. PassageInv'
    BY <2>1, <2>3, <2>4 DEF PassageInv
  <2>6. Sound'
    BY <2>5 DEF Sound
  <2> QED BY <1>3, <1>10, <2>5, <2>6, UnbornRests
<1>11. CASE ~published /\ StartAborted
  BY <1>3, <1>11, AbortTurns
<1> QED BY <1>6, <1>9, <1>10, <1>11

LEMMA PublishTurns ==
    ASSUME Sound, TypeInv', ReplayInv', Publish PROVE PassageInv' /\ AbstractStep
<1>1. /\ pc = "publishing" /\ published' = TRUE /\ pc' = "idle"
      /\ UNCHANGED <<session, durable, signed, minted>>
  BY DEF Publish
<1>2. /\ session # None /\ session.status = "Active"
      /\ session.position # None /\ Known = session
      /\ Stands(session, durable)
  BY <1>1, AtWork
<1>3. ~published /\ signed = {} /\ session.position = Fresh.position
  BY <1>1, <1>2 DEF Sound, PassageInv, BirthInv
<1>4. HolderInv' /\ Fits(session, pc)' /\ BirthInv'
  BY <1>1, <1>2 DEF Sound, PassageInv, HolderInv, Fits, BirthInv, Stands
<1>5. PassageInv'
  BY <1>4 DEF PassageInv
<1>6. Sound'
  BY <1>5 DEF Sound
<1>7. Sight /\ Sight'
  BY <1>6, Seen, SeenNext
<1>8. Known' = session
  BY <1>1, <1>2 DEF Known
<1>9. /\ CurrentStep = 0 /\ ~Consented
      /\ CurrentStep' = 1
      /\ ~ (published /\ durable.status = "Failed")
      /\ ~ (published /\ durable.status = "Failed")'
      /\ ~Consented'
  <2>1. CurrentStep' = StepOf(session)
    BY <1>1, <1>7, <1>8 DEF Sight, StepOf
  <2>2. StepOf(session) = 1
    BY <1>2, <1>3, StepStart DEF StepOf
  <2>3. ~Consented'
    BY <1>1, <1>3 DEF Consented
  <2> QED BY <1>1, <1>2, <1>3, <1>7, <2>1, <2>2, <2>3 DEF Sight, Stands
<1>10. Consented \in BOOLEAN /\ Consented' \in BOOLEAN
  BY Zenon DEF Consented
<1> QED BY <1>5, <1>9, <1>10 DEF AbstractStep, Order!OrderNext, Order!Begin

-----------------------------------------------------------------------------
(* Crashes, recoveries and the world outside.                              *)

LEMMA CrashTurns ==
    ASSUME Sound, TypeInv', ReplayInv', Crash PROVE PassageInv' /\ AbstractStep
<1>1. /\ session # None /\ session' = None /\ pc' = "idle"
      /\ UNCHANGED <<durable, published, signed, minted>>
  BY DEF Crash, world
<1>2. Stands(session, durable) /\ Known = session
  BY <1>1 DEF Sound, ReplayInv, StandsInv, Known
<1>3. HolderInv' /\ Fits(session, pc)' /\ BirthInv'
  BY <1>1, <1>2 DEF Sound, PassageInv, HolderInv, Fits, BirthInv, Stands
<1>4. PassageInv'
  BY <1>3 DEF PassageInv
<1>5. Sound'
  BY <1>4 DEF Sound
<1>6. Known' = durable
  BY <1>1 DEF Known
<1>7. Turn(Known, Known')
  BY <1>2, <1>6 DEF Turn, Stays, Consents, Stands
<1> QED BY <1>1, <1>4, <1>5, <1>7, TurnSeen, UnbornRests

LEMMA RecoverTurns ==
    ASSUME Sound, TypeInv', ReplayInv', Recover PROVE PassageInv' /\ AbstractStep
<1>1. /\ session = None /\ durable # None /\ session' = durable
      /\ pc = "idle" /\ published
      /\ UNCHANGED <<durable, published, signed, minted, pc>>
  BY DEF Recover, world
<1>2. HolderInv' /\ Fits(session, pc)' /\ BirthInv'
  BY <1>1 DEF Sound, PassageInv, HolderInv, Fits, BirthInv
<1>3. PassageInv'
  BY <1>2 DEF PassageInv
<1>4. Sound'
  BY <1>3 DEF Sound
<1>5. Known' = Known
  BY <1>1 DEF Known
<1>6. Turn(Known, Known')
  BY <1>5 DEF Turn, Stays
<1> QED BY <1>1, <1>3, <1>4, <1>6, TurnSeen

LEMMA SignTurns ==
    ASSUME Sound, TypeInv', ReplayInv', Sign PROVE PassageInv' /\ AbstractStep
<1>1. /\ published /\ UNCHANGED <<session, durable, pc, published, minted>>
  BY DEF Sign
<1>2. PICK s \in {session, durable} \ {None} :
        /\ s.pending_approval # None
        /\ s.pending_approval \notin signed
        /\ signed' = signed \cup {s.pending_approval}
  BY DEF Sign
<1>3. Sight
  BY Seen
<1>4. /\ Known # None /\ Known \in {session, durable}
      /\ Known.pending_approval = s.pending_approval
  <2>1. session # None => Stands(session, durable)
    BY DEF Sound, ReplayInv, StandsInv
  <2> QED BY <1>1, <1>2, <1>3, <2>1 DEF Sight, Known, Stands
<1>5. /\ Known.position # None /\ OnStep(Known.position)
      /\ KindAt(Known.position) = "human_approval"
      /\ s.pending_approval.nonce <= minted
  BY <1>2, <1>4 DEF Sound, PassageInv, HolderInv, Placed
<1>6. HolderInv' /\ Fits(session, pc)' /\ BirthInv'
  BY <1>1, <1>2, <1>5 DEF Sound, PassageInv, HolderInv, Fits, BirthInv, Consents
<1>7. PassageInv'
  BY <1>6 DEF PassageInv
<1>8. Sound'
  BY <1>7 DEF Sound
<1>9. Sight' /\ Known' = Known
  BY <1>1, <1>8, SeenNext DEF Known
<1>10. /\ CurrentStep' = CurrentStep /\ CurrentStep \in GateSteps
       /\ (published /\ durable.status = "Failed")'
            = (published /\ durable.status = "Failed")
       /\ ~Consented /\ Consented'
  <2>1. CurrentStep = StepAt(Known.position) /\ CurrentStep' = CurrentStep
    BY <1>1, <1>3, <1>5, <1>9 DEF Sight, StepOf, CurrentStep
  <2>2. CurrentStep \in GateSteps
    BY <1>5, <2>1, GateStep DEF KindAt
  <2>3. ~Consented
    BY <1>1, <1>2, <1>3, <1>4 DEF Sight, Consents
  <2>4. Consented'
    BY <1>1, <1>2 DEF Consented
  <2>5. (published /\ durable.status = "Failed")'
            = (published /\ durable.status = "Failed")
    BY <1>1
  <2> QED BY <2>1, <2>2, <2>3, <2>4, <2>5
<1>11. Consented \in BOOLEAN /\ Consented' \in BOOLEAN
  BY Zenon DEF Consented
<1> QED BY <1>7, <1>10, <1>11 DEF AbstractStep, Order!OrderNext, Order!Consent

LEMMA SurroundingsTurn ==
    ASSUME Sound, TypeInv', ReplayInv', StoreBlob \/ Expire \/ Tamper \/ StayRejected
    PROVE  PassageInv' /\ AbstractStep
<1>1. UNCHANGED <<session, durable, published, signed, minted>>
  BY DEF StoreBlob, Expire, Tamper, StayRejected, world
<1>2. \/ pc' = pc
      \/ pc' \in {"idle", "storing"} /\ published
  BY AtWork DEF StoreBlob, Expire, Tamper, StayRejected, Active
<1>3. Fits(session, pc')
  <2>1. Fits(session, pc)
    BY DEF Sound, PassageInv
  <2> QED BY <1>2, <2>1 DEF Fits
<1> QED BY <1>1, <1>2, <1>3, RestTurns

LEMMA ContinuationTurns ==
    ASSUME Sound, TypeInv', ReplayInv', Continuation PROVE PassageInv' /\ AbstractStep
<1>1. CASE AdvanceApproved
  <2>1. /\ KindAt(session.position) = "human_approval" /\ Consents(session)
        /\ published /\ pc # "idle" /\ AdvancePlain
    BY <1>1, AtWork DEF AdvanceApproved, Fits
  <2> QED BY <2>1, PlainTurns
<1>2. CASE TripApprovalLimit \/ TripMaxIterations \/ TripRepetitiveLoop
  <2>1. published /\ pc # "idle"
    BY <1>2, AtWork DEF TripApprovalLimit, TripMaxIterations, TripRepetitiveLoop
  <2> QED BY <1>2, <2>1, TripTurns
          DEF TripApprovalLimit, TripMaxIterations, TripRepetitiveLoop
<1>3. CASE AcceptDelivered
  <2>1. /\ pc = "accepting" /\ UNCHANGED <<world, minted>>
        /\ Attempt(MilestoneAccepted, session, session, "completing")
    BY <1>3 DEF AcceptDelivered, AcceptFinal
  <2>2. Held(session) /\ published /\ Fits(session, pc)
    BY <2>1, AtWork
  <2>3. Fits(session, "completing")
    BY <2>1, <2>2 DEF Fits
  <2> QED BY <2>1, <2>2, <2>3, NoteTurns
<1>4. CASE RecordArtifact
  <2> DEFINE e == ArtifactStored(inflight)
             tracked == [session EXCEPT !.artifacts = @ \cup {inflight}]
  <2>1. /\ pc = "storing" /\ UNCHANGED <<world, minted>>
        /\ Attempt(e, session, tracked, "idle")
    BY <1>4 DEF RecordArtifact
  <2>2. Held(session) /\ published /\ inflight \in Artifacts
    BY <2>1, AtWork DEF Sound, TypeInv, HandlerInv
  <2>3. /\ Held(tracked) /\ tracked.position = session.position
        /\ tracked.status = session.status
        /\ tracked.pending_approval = session.pending_approval
    BY <2>2 DEF Held, SessionState
  <2> HIDE DEF e, tracked
  <2>4. Fits(tracked, "idle")
    BY DEF Fits
  <2> QED BY <2>1, <2>2, <2>3, <2>4, NoteTurns
<1> QED BY <1>1, <1>2, <1>3, <1>4, GateTurns, PublishTurns, LoopTurns, MacroTurns,
           CompleteTurns, SurroundingsTurn DEF Continuation

\* Every step keeps the invariant and is a step of the abstract specification.
LEMMA StepTurns ==
    ASSUME Sound, TypeInv', ReplayInv', [Next]_vars PROVE PassageInv' /\ AbstractStep
<1>1. CASE UNCHANGED vars
  <2>1. /\ UNCHANGED <<session, durable, published, signed, minted>> /\ pc' = pc
        /\ Fits(session, pc)
    BY <1>1 DEF vars, Sound, PassageInv
  <2> QED BY <2>1, RestTurns
<1> QED BY <1>1, StartTurns, RecoverTurns, SubmissionTurns, ContinuationTurns,
           SurroundingsTurn, SignTurns, CrashTurns DEF Next, Environment

LEMMA PassageInvInit == Init => PassageInv
BY DEF Init, PassageInv, HolderInv, Fits, BirthInv

\* Whatever crashes, and whatever append is lost, the engine takes the steps of
\* the profile in their order, one at a time, goes back to a loop target only,
\* and passes a gate on a consent given at it, spent in passing.
THEOREM EngineImplementsForcedOrder ==
    "unsynced" \notin Faults /\ Spec => ImplementsForcedOrder
<1>1. CASE "unsynced" \in Faults
  BY <1>1
<1>2. CASE "unsynced" \notin Faults
  <2>1. Init => Order!OrderInit
    BY DEF Init, Order!OrderInit, CurrentStep, Consented
  <2>2. Init => PassageInv
    BY PassageInvInit
  <2>3. TypeInv /\ ReplayInv /\ TypeInv' /\ ReplayInv' /\ PassageInv /\ [Next]_vars
          => PassageInv'
    BY <1>2, StepTurns DEF Sound
  <2>4. TypeInv /\ ReplayInv /\ TypeInv' /\ ReplayInv' /\ PassageInv /\ [Next]_vars
          => [Order!OrderNext]_(Order!orderVars)
    BY <1>2, StepTurns DEF Sound, AbstractStep
  <2>5. Spec => ImplementsForcedOrder
    BY <2>1, <2>2, <2>3, <2>4, ReplayInvAlways, PTL
       DEF Spec, ImplementsForcedOrder, Order!OrderSpec
  <2> QED BY <2>5
<1> QED BY <1>1, <1>2

=============================================================================
