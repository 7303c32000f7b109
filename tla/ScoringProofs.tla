--------------------------- MODULE ScoringProofs ---------------------------
(***************************************************************************)
(* Facts about Scoring for every case and every list of calls: what a sum  *)
(* over a finite set is, that a harness's report of its own calls never    *)
(* raises a score, which trajectories have full marks, and between which   *)
(* bounds scores, factors, the gate and the composite lie.                 *)
(***************************************************************************)
EXTENDS Scoring, FiniteSetTheorems, WellFoundedInduction, TLAPS

-----------------------------------------------------------------------------
(* Sums *)

(* A set of naturals has a least element. *)
LEMMA LeastNatural ==
  ASSUME NEW T \in SUBSET Nat, T # {}
  PROVE  \E m \in T : \A k \in T : m <= k
  <1> DEFINE Smaller == {ss \in Nat \X Nat : ss[1] < ss[2]}
  <1>1. IsWellFoundedOn(Smaller, Nat)
    BY NatLessThanWellFounded DEF OpToRel
  <1> HIDE DEF Smaller
  <1>2. PICK m \in T : \A k \in T : ~(<<k, m>> \in Smaller)
    BY <1>1, WFMin
  <1>3. \A k \in T : ~(k < m)
    BY <1>2 DEF Smaller
  <1> QED  BY <1>3

(* A sum folds over the subsets of its domain. *)
LEMMA SumUnfolds ==
  ASSUME NEW g, NEW S
  PROVE  SumFunctionOnSet(g, S) =
           LET it == CHOOSE it : it = [s \in SUBSET S |->
                       IF s = {} THEN 0 ELSE g[CHOOSE x \in s : TRUE] + it[s \ {CHOOSE x \in s : TRUE}]]
           IN it[S]
  BY DEF SumFunctionOnSet, FoldFunctionOnSet, MapThenFoldSet

(* The sum of naturals is built one summand at a time, in the order in     *)
(* which Pick takes them, and is a natural: by the least number of summands *)
(* that would make it something else.                                      *)
Pick(s) == CHOOSE x \in s : TRUE
BuildsUp(it, g, S) ==
  \A s \in SUBSET S : /\ it[s] \in Nat
                      /\ s = {} => it[s] = 0
                      /\ s # {} => it[s] = g[Pick(s)] + it[s \ {Pick(s)}]
LEMMA SumFolds ==
  ASSUME NEW S, IsFiniteSet(S), NEW g, \A x \in S : g[x] \in Nat
  PROVE  \E it : SumFunctionOnSet(g, S) = it[S] /\ BuildsUp(it, g, S)
  <1> DEFINE pick(s) == CHOOSE x \in s : TRUE
             Rest(s) == s \ {pick(s)}
             Upto(n) == {s \in SUBSET S : Cardinality(s) <= n}
             Folds(h, n) == \A s \in Upto(n) :
               /\ s = {} => h[s] = 0
               /\ s # {} => h[s] = g[pick(s)] + h[Rest(s)]
               /\ h[s] \in Nat
  <1>1. ASSUME NEW s \in SUBSET S
        PROVE  /\ Cardinality(s) \in Nat /\ Cardinality(s) <= Cardinality(S) /\ (s = {} <=> Cardinality(s) = 0)
               /\ s # {} => /\ pick(s) \in S /\ Rest(s) \in SUBSET S
                            /\ Cardinality(Rest(s)) = Cardinality(s) - 1
    <2>1. IsFiniteSet(s) /\ Cardinality(s) <= Cardinality(S)
      BY FS_Subset
    <2>2. Cardinality(s) \in Nat /\ (s = {} <=> Cardinality(s) = 0)
      BY <2>1, FS_CardinalityType, FS_EmptySet
    <2>3. ASSUME s # {}
          PROVE  pick(s) \in s /\ Cardinality(s \ {pick(s)}) = Cardinality(s) - 1
      <3>1. pick(s) \in s
        BY <2>3
      <3> HIDE DEF pick
      <3> QED  BY <2>1, <3>1, FS_RemoveElement
    <2> HIDE DEF pick
    <2> QED  BY <2>1, <2>2, <2>3
  <1>a. \A s \in SUBSET S : Cardinality(s) \in Nat
    BY <1>1
  <1>b. ASSUME NEW s \in SUBSET S, Cardinality(s) = 0  PROVE s = {}
    BY <1>1, <1>b
  <1>c. ASSUME NEW s \in SUBSET S, s # {}
        PROVE  Cardinality(s) # 0 /\ Rest(s) \in SUBSET S /\ Cardinality(Rest(s)) = Cardinality(s) - 1 /\ g[pick(s)] \in Nat
    BY <1>1, <1>c
  <1> HIDE DEF pick
  <1>2. \A n \in Nat : \E h : Folds(h, n)
    <2> DEFINE Bad == {n \in Nat : ~ \E h : Folds(h, n)}
    <2> SUFFICES ASSUME Bad # {}  PROVE FALSE
      OBVIOUS
    <2>1. PICK n \in Bad : \A k \in Bad : n <= k
      <3>1. Bad \in SUBSET Nat
        OBVIOUS
      <3> HIDE DEF Bad
      <3> QED  BY <3>1, LeastNatural
    <2>2. n # 0
      <3> SUFFICES ASSUME n = 0  PROVE FALSE
        OBVIOUS
      <3>1. \A s \in Upto(0) : s = {}
        <4> SUFFICES ASSUME NEW s \in SUBSET S, Cardinality(s) <= 0  PROVE s = {}
          OBVIOUS
        <4>1. Cardinality(s) = 0
          BY <1>a
        <4> QED  BY <1>b, <4>1
      <3>2. Folds([s \in SUBSET S |-> 0], 0)
        <4> HIDE DEF Rest
        <4> QED  BY <3>1
      <3> HIDE DEF Folds
      <3> QED  BY <3>2
    <2>3. n \in Nat /\ n - 1 \in Nat /\ n - 1 \notin Bad
      <3>1. n \in Nat
        BY <2>1
      <3> HIDE DEF Bad
      <3> QED  BY <2>1, <2>2, <3>1
    <2>4. PICK h : Folds(h, n - 1)
      BY <2>3
    <2> DEFINE H == [s \in SUBSET S |-> IF Cardinality(s) <= n - 1 THEN h[s] ELSE g[pick(s)] + h[Rest(s)]]
    <2>5. \A s \in Upto(n - 1) : H[s] = h[s]
      OBVIOUS
    <2>6. ASSUME NEW s \in Upto(n)
          PROVE  /\ s = {} => H[s] = 0
                 /\ s # {} => H[s] = g[pick(s)] + H[Rest(s)]
                 /\ H[s] \in Nat
      <3>1. s \in SUBSET S /\ Cardinality(s) <= n
        OBVIOUS
      <3>2. s # {} => Rest(s) \in Upto(n - 1) /\ g[pick(s)] \in Nat
        BY <1>1, <2>3, <3>1
      <3>3. CASE s \in Upto(n - 1)
        BY <2>4, <2>5, <3>2, <3>3
      <3>4. CASE s \notin Upto(n - 1)
        <4>1. s # {} /\ H[s] = g[pick(s)] + h[Rest(s)]
          <5>1. Cardinality(s) \in Nat /\ ~(Cardinality(s) <= n - 1)
            BY <1>1, <3>1, <3>4
          <5>2. s # {}
            <6> SUFFICES ASSUME s = {}  PROVE FALSE
              OBVIOUS
            <6>1. Cardinality(s) = 0
              BY FS_EmptySet
            <6> QED  BY <2>3, <5>1, <6>1
          <5> QED  BY <3>1, <5>1, <5>2
        <4>2. H[Rest(s)] = h[Rest(s)] /\ h[Rest(s)] \in Nat /\ g[pick(s)] \in Nat
          BY <2>4, <2>5, <3>2, <4>1
        <4> HIDE DEF H, Rest
        <4> QED  BY <4>1, <4>2
      <3> QED  BY <3>3, <3>4
    <2>7. Folds(H, n)
      BY <2>6
    <2> HIDE DEF Folds
    <2> QED  BY <2>1, <2>7
  <1>3. Cardinality(S) \in Nat /\ \A s \in SUBSET S : s \in Upto(Cardinality(S))
    BY <1>1
  <1>4. PICK h : Folds(h, Cardinality(S))
    BY <1>2, <1>3
  <1> DEFINE Step(f) == [s \in SUBSET S |-> IF s = {} THEN 0 ELSE g[pick(s)] + f[Rest(s)]]
             whole == [s \in SUBSET S |-> h[s]]
             it == CHOOSE f : f = Step(f)
  <1>5. whole = Step(whole)
    BY <1>1, <1>3, <1>4
  <1>6. it = Step(it)
    <2> HIDE DEF Step, whole
    <2> QED  BY <1>5
  <1>7. \A s \in SUBSET S : /\ s = {} => it[s] = 0
                            /\ s # {} => it[s] = g[pick(s)] + it[Rest(s)]
    <2> HIDE DEF it
    <2> QED  BY <1>6
  <1> DEFINE Odd == {s \in SUBSET S : it[s] \notin Nat}
             Sizes == {Cardinality(s) : s \in Odd}
  <1>8. Odd = {}
    <2> HIDE DEF it
    <2> SUFFICES ASSUME Odd # {}  PROVE FALSE
      OBVIOUS
    <2>1. Sizes \in SUBSET Nat /\ Sizes # {}
      <3>1. \A x \in Sizes : x \in Nat
        BY <1>a
      <3>2. Sizes # {}
        OBVIOUS
      <3> HIDE DEF Sizes
      <3> QED  BY <3>1, <3>2
    <2>2. PICK m \in Sizes : \A k \in Sizes : m <= k
      <3> HIDE DEF Sizes
      <3> QED  BY <2>1, LeastNatural
    <2>3. PICK s \in Odd : m = Cardinality(s)
      BY <2>2
    <2>4. s \in SUBSET S /\ it[s] \notin Nat /\ s # {}
      BY <1>7
    <2>5. Rest(s) \in SUBSET S /\ Cardinality(Rest(s)) = m - 1 /\ m \in Nat /\ g[pick(s)] \in Nat
      BY <1>a, <1>c, <2>3, <2>4
    <2>6. Rest(s) \notin Odd
      <3> SUFFICES ASSUME Rest(s) \in Odd  PROVE FALSE
        OBVIOUS
      <3>1. m <= m - 1
        BY <2>2, <2>5
      <3> QED  BY <2>5, <3>1
    <2>7. it[Rest(s)] \in Nat
      BY <2>5, <2>6
    <2>8. it[s] = g[pick(s)] + it[Rest(s)]
      BY <1>7, <2>4
    <2> HIDE DEF Rest
    <2> QED  BY <2>4, <2>5, <2>7, <2>8
  <1>9. SumFunctionOnSet(g, S) = it[S]
    BY SumUnfolds DEF pick
  <1>10. BuildsUp(it, g, S)
    <2> HIDE DEF it
    <2> QED  BY <1>7, <1>8 DEF pick, Pick, BuildsUp
  <1> HIDE DEF it
  <1> QED  BY <1>9, <1>10

LEMMA SumIsNatural ==
  ASSUME NEW S, IsFiniteSet(S), NEW g, \A x \in S : g[x] \in Nat
  PROVE  SumFunctionOnSet(g, S) \in Nat
  <1>1. PICK it : SumFunctionOnSet(g, S) = it[S] /\ BuildsUp(it, g, S)
    BY SumFolds
  <1> QED  BY <1>1 DEF BuildsUp

(* Among subsets of a finite set there is one none of which is left when   *)
(* an element is taken out.                                                *)
LEMMA SmallestSubset ==
  ASSUME NEW S, IsFiniteSet(S), NEW B \in SUBSET (SUBSET S), B # {}
  PROVE  \E s \in B : \A x \in s : s \ {x} \notin B
  <1> DEFINE Sizes == {Cardinality(s) : s \in B}
  <1>1. \A s \in B : IsFiniteSet(s) /\ Cardinality(s) \in Nat
    BY FS_Subset, FS_CardinalityType
  <1>2. PICK m \in Sizes : \A k \in Sizes : m <= k
    <2>1. Sizes \in SUBSET Nat /\ Sizes # {}
      BY <1>1
    <2> HIDE DEF Sizes
    <2> QED  BY <2>1, LeastNatural
  <1>3. PICK s \in B : m = Cardinality(s)
    BY <1>2
  <1>4. ASSUME NEW x \in s, s \ {x} \in B
        PROVE  FALSE
    <2>1. Cardinality(s \ {x}) = m - 1 /\ m \in Nat
      BY <1>1, <1>3, FS_RemoveElement
    <2>2. m <= Cardinality(s \ {x})
      BY <1>2, <1>4
    <2> QED  BY <2>1, <2>2
  <1> QED  BY <1>4

(* A sum of smaller numbers is smaller, and equal only when all are.       *)
LEMMA SumsCompare ==
  ASSUME NEW S, IsFiniteSet(S), NEW g, NEW h,
         \A x \in S : g[x] \in Nat /\ h[x] \in Nat /\ g[x] <= h[x]
  PROVE  /\ SumFunctionOnSet(g, S) <= SumFunctionOnSet(h, S)
         /\ SumFunctionOnSet(g, S) = SumFunctionOnSet(h, S) <=> \A x \in S : g[x] = h[x]
  <1>1. PICK a : SumFunctionOnSet(g, S) = a[S] /\ BuildsUp(a, g, S)
    BY SumFolds
  <1>2. PICK b : SumFunctionOnSet(h, S) = b[S] /\ BuildsUp(b, h, S)
    BY SumFolds
  <1> DEFINE Good(s) == a[s] <= b[s] /\ (a[s] = b[s] <=> \A x \in s : g[x] = h[x])
             B == {s \in SUBSET S : ~Good(s)}
  <1>3. B = {}
    <2> SUFFICES ASSUME B # {}  PROVE FALSE
      OBVIOUS
    <2>1. PICK s \in B : \A x \in s : s \ {x} \notin B
      <3>1. B \in SUBSET (SUBSET S)
        OBVIOUS
      <3> HIDE DEF B
      <3> QED  BY <3>1, SmallestSubset
    <2>2. s # {}
      <3>1. a[{}] = 0 /\ b[{}] = 0
        BY <1>1, <1>2 DEF BuildsUp
      <3>2. Good({})
        BY <3>1
      <3> QED  BY <2>1, <3>2
    <2> DEFINE p == Pick(s)
               t == s \ {p}
    <2>3. p \in s /\ t \in SUBSET S /\ s \in SUBSET S
      BY <2>2 DEF Pick
    <2>4. Good(t)
      BY <2>1, <2>3
    <2>5. /\ a[s] = g[p] + a[t] /\ b[s] = h[p] + b[t] /\ g[p] \in Nat /\ h[p] \in Nat /\ g[p] <= h[p]
          /\ a[t] \in Nat /\ b[t] \in Nat
      BY <1>1, <1>2, <2>2, <2>3 DEF BuildsUp
    <2>6. (\A x \in s : g[x] = h[x]) <=> g[p] = h[p] /\ \A x \in t : g[x] = h[x]
      BY <2>3
    <2> HIDE DEF p, t
    <2>7. Good(s)
      BY <2>4, <2>5, <2>6
    <2> QED  BY <2>1, <2>7
  <1>4. Good(S)
    BY <1>3
  <1> QED  BY <1>1, <1>2, <1>4

(* The cardinality of a union of disjoint sets is a sum.                   *)
LEMMA SumsCount ==
  ASSUME NEW S, IsFiniteSet(S), NEW F, \A x \in S : IsFiniteSet(F[x]),
         \A x, y \in S : x # y => F[x] \cap F[y] = {}
  PROVE  LET whole == UNION {F[x] : x \in S}
         IN IsFiniteSet(whole) /\ SumFunctionOnSet([x \in S |-> Cardinality(F[x])], S) = Cardinality(whole)
  <1> DEFINE g == [x \in S |-> Cardinality(F[x])]
             U(s) == UNION {F[x] : x \in s}
  <1>0. \A x \in S : g[x] = Cardinality(F[x]) /\ g[x] \in Nat
    BY FS_CardinalityType
  <1> HIDE DEF g
  <1>1. PICK a : SumFunctionOnSet(g, S) = a[S] /\ BuildsUp(a, g, S)
    BY <1>0, SumFolds
  <1> DEFINE Good(s) == IsFiniteSet(U(s)) /\ a[s] = Cardinality(U(s))
             B == {s \in SUBSET S : ~Good(s)}
  <1>2. B = {}
    <2> SUFFICES ASSUME B # {}  PROVE FALSE
      OBVIOUS
    <2>1. PICK s \in B : \A x \in s : s \ {x} \notin B
      <3>1. B \in SUBSET (SUBSET S)
        OBVIOUS
      <3> HIDE DEF B
      <3> QED  BY <3>1, SmallestSubset
    <2>2. s # {}
      <3>1. U({}) = {}
        OBVIOUS
      <3> HIDE DEF U
      <3> QED  BY <1>1, <2>1, <3>1, FS_EmptySet DEF BuildsUp
    <2> DEFINE p == Pick(s)
               t == s \ {p}
    <2>3. p \in s /\ t \in SUBSET S /\ s \in SUBSET S /\ p \in S
      BY <2>2 DEF Pick
    <2>4. Good(t)
      BY <2>1, <2>3
    <2>5. a[s] = g[p] + a[t]
      BY <1>1, <2>2, <2>3 DEF BuildsUp
    <2>6. U(s) = U(t) \cup F[p] /\ U(t) \cap F[p] = {}
      BY <2>3
    <2>7. IsFiniteSet(F[p]) /\ g[p] = Cardinality(F[p])
      BY <1>0, <2>3
    <2> HIDE DEF p, t, U
    <2>8. /\ IsFiniteSet(U(t) \cup F[p]) /\ Cardinality(U(t) \cap F[p]) = 0
          /\ Cardinality(U(t) \cup F[p]) = Cardinality(U(t)) + Cardinality(F[p]) - Cardinality(U(t) \cap F[p])
      BY <2>4, <2>6, <2>7, FS_Union, FS_EmptySet
    <2>9. Cardinality(U(t)) \in Nat /\ Cardinality(F[p]) \in Nat
      BY <2>4, <2>7, FS_CardinalityType
    <2>10. Good(s)
      BY <2>4, <2>5, <2>6, <2>7, <2>8, <2>9
    <2> QED  BY <2>1, <2>10
  <1>3. Good(S)
    BY <1>2
  <1> QED  BY <1>1, <1>3 DEF g

LEMMA SumsAreNatural ==
  ASSUME NEW g, IsFiniteSet(DOMAIN g), \A x \in DOMAIN g : g[x] \in Nat
  PROVE  SumFunction(g) \in Nat
  BY SumIsNatural DEF SumFunction

-----------------------------------------------------------------------------
(* Lists and counts *)

LEMMA NamesAreAList ==
  ASSUME NEW s, IsList(s)
  PROVE  IsList(Names(s)) /\ Len(Names(s)) = Len(s) /\ \E S : Names(s) \in Seq(S)
  <1> DEFINE n == Len(s)
  <1>1. n \in Nat /\ DOMAIN s = 1 .. n
    BY DEF IsList
  <1> DEFINE S == {s[i].name : i \in 1 .. n}
  <1>2. Names(s) = [i \in 1 .. n |-> s[i].name]
    BY <1>1 DEF Names
  <1> HIDE DEF n
  <1>3. Names(s) \in Seq(S) /\ Len(Names(s)) = n /\ DOMAIN Names(s) = 1 .. n
    BY <1>1, <1>2
  <1> QED  BY <1>1, <1>3 DEF IsList, n

(* The positions of a list that meet a condition are finitely many. *)
LEMMA PositionsAreFinite ==
  ASSUME NEW s, IsList(s), NEW S \in SUBSET DOMAIN s
  PROVE  IsFiniteSet(S) /\ Cardinality(S) \in Nat
  <1>1. IsFiniteSet(DOMAIN s)
    BY FS_Interval DEF IsList
  <1>2. IsFiniteSet(S)
    BY <1>1, FS_Subset
  <1> QED  BY <1>2, FS_CardinalityType

LEMMA CountIsNatural ==
  ASSUME NEW s, IsList(s), NEW x
  PROVE  Count(x, s) \in Nat
  BY PositionsAreFinite DEF Count

LEMMA ListRangeIsFinite ==
  ASSUME NEW s, IsList(s)
  PROVE  IsFiniteSet(ToSet(s))
  <1>1. IsFiniteSet(DOMAIN s)
    BY FS_Interval DEF IsList
  <1> DEFINE g == [i \in DOMAIN s |-> s[i]]
  <1>2. g \in Surjection(DOMAIN s, ToSet(s))
    BY DEF ToSet, Surjection
  <1> HIDE DEF g
  <1> QED  BY <1>1, <1>2, FS_Surjection

-----------------------------------------------------------------------------
(* Ranks *)

(* The ranks in a finite set of numbers are the numbers up to its size,    *)
(* each that of one element.                                               *)
LEMMA RanksAreNumbers ==
  ASSUME NEW n \in Nat, NEW S \in SUBSET (1 .. n)
  PROVE  /\ Cardinality(S) \in Nat
         /\ \A i \in S : Cardinality({j \in S : j <= i}) \in 1 .. Cardinality(S)
         /\ \A k \in 1 .. Cardinality(S) : \E i \in S : Cardinality({j \in S : j <= i}) = k
         /\ \A i, j \in S : Cardinality({l \in S : l <= i}) = Cardinality({l \in S : l <= j}) => i = j
  <1> DEFINE UpTo(i) == {j \in S : j <= i}
             T == 1 .. Cardinality(S)
             rank == [i \in S |-> Cardinality(UpTo(i))]
  <1>1. IsFiniteSet(S) /\ Cardinality(S) \in Nat
    <2>1. IsFiniteSet(1 .. n)
      BY FS_Interval
    <2>2. IsFiniteSet(S)
      BY <2>1, FS_Subset
    <2> QED  BY <2>2, FS_CardinalityType
  <1>2. ASSUME NEW i \in S
        PROVE  IsFiniteSet(UpTo(i)) /\ Cardinality(UpTo(i)) \in T
    <2>1. UpTo(i) \in SUBSET S /\ i \in UpTo(i)
      OBVIOUS
    <2>2. IsFiniteSet(UpTo(i)) /\ Cardinality(UpTo(i)) <= Cardinality(S)
      BY <1>1, <2>1, FS_Subset
    <2>3. Cardinality(UpTo(i)) \in Nat /\ Cardinality(UpTo(i)) # 0
      BY <2>1, <2>2, FS_CardinalityType, FS_EmptySet, SMTT(60)
    <2> QED  BY <1>1, <2>2, <2>3
  <1>3. ASSUME NEW i \in S, NEW j \in S, i < j
        PROVE  Cardinality(UpTo(i)) # Cardinality(UpTo(j))
    <2>a. \A x \in S : x \in Int
      OBVIOUS
    <2>b. i \in Int /\ j \in Int /\ j \notin UpTo(i) /\ j \in UpTo(j)
      BY <1>3, <2>a
    <2>c. \A x \in S : x <= i => x <= j
      BY <1>3, <2>a, <2>b
    <2>1. UpTo(i) \in SUBSET UpTo(j) /\ j \in UpTo(j) /\ j \notin UpTo(i)
      BY <2>b, <2>c
    <2>2. IsFiniteSet(UpTo(j))
      BY <1>2
    <2> HIDE DEF UpTo
    <2>3. Cardinality(UpTo(j)) = Cardinality(UpTo(i)) => UpTo(j) = UpTo(i)
      BY <2>1, <2>2, FS_Subset
    <2> QED  BY <2>1, <2>3
  <1>4. \A i, j \in S : Cardinality(UpTo(i)) = Cardinality(UpTo(j)) => i = j
    BY <1>3
  <1>5. rank \in Injection(S, T)
    <2>1. rank \in [S -> T]
      BY <1>2
    <2>2. IsInjective(rank)
      BY <1>4 DEF IsInjective
    <2> QED  BY <2>1, <2>2 DEF Injection
  <1>6. rank \in Surjection(S, T)
    <2>1. IsFiniteSet(T) /\ Cardinality(T) = Cardinality(S)
      BY <1>1, FS_Interval
    <2> HIDE DEF rank, T
    <2> QED  BY <1>5, <2>1, FS_Injection
  <1>7. \A k \in T : \E i \in S : Cardinality(UpTo(i)) = k
    BY <1>6 DEF Surjection
  <1> QED  BY <1>1, <1>2, <1>4, <1>7

-----------------------------------------------------------------------------
(* Arithmetic of scores *)

LEMMA QuotientIsNatural ==
  ASSUME NEW a \in Nat, NEW b \in Nat \ {0}
  PROVE  a \div b \in Nat
  OBVIOUS

LEMMA ProductIsNatural ==
  ASSUME NEW a \in Nat, NEW b \in Nat
  PROVE  a * b \in Nat
  OBVIOUS

LEMMA ScaledIsNatural ==
  ASSUME NEW x \in Nat, NEW factor \in Nat
  PROVE  Scaled(x, factor) \in Nat
  BY ProductIsNatural, QuotientIsNatural DEF Scaled, One

LEMMA RatioIsNatural ==
  ASSUME NEW num \in Nat, NEW denom \in Int
  PROVE  Ratio(num, denom) \in Nat
  <1>1. num * One \in Nat
    BY DEF One
  <1>2. CASE denom <= 0
    BY <1>2 DEF Ratio
  <1>3. CASE ~(denom <= 0)
    BY <1>1, <1>3, QuotientIsNatural DEF Ratio
  <1> QED  BY <1>2, <1>3

LEMMA F1IsNatural ==
  ASSUME NEW hits \in Nat, NEW observed \in Nat, NEW expected \in Nat
  PROVE  F1(hits, observed, expected) \in Nat
  BY RatioIsNatural DEF F1

-----------------------------------------------------------------------------
(* The score of a trajectory *)

LEMMA OrderIsNatural ==
  ASSUME NEW expected, IsList(expected), NEW calls
  PROVE  OrderCredit(expected, calls) \in Nat
  <1> DEFINE InOrder(k) == LET a == FirstIndex(expected[k].name, calls)
                               b == FirstIndex(expected[k + 1].name, calls)
                           IN a # 0 /\ b # 0 /\ a < b
             pairs == 1 .. (Len(expected) - 1)
             good == {k \in pairs : InOrder(k)}
  <1>1. IsFiniteSet(pairs) /\ Cardinality(pairs) \in Nat
    <2>1. IsFiniteSet(pairs)
      BY FS_Interval DEF IsList
    <2> HIDE DEF pairs
    <2> QED  BY <2>1, FS_CardinalityType
  <1>2. Cardinality(good) \in Nat
    <2>1. good \in SUBSET pairs
      OBVIOUS
    <2> HIDE DEF good, pairs
    <2> QED  BY <1>1, <2>1, FS_Subset, FS_CardinalityType
  <1>3. OrderCredit(expected, calls) =
          IF Len(expected) < 2 THEN One ELSE Ratio(Cardinality(good), Cardinality(pairs))
    BY DEF OrderCredit
  <1> HIDE DEF good, pairs
  <1>4. Ratio(Cardinality(good), Cardinality(pairs)) \in Nat
    BY <1>1, <1>2, RatioIsNatural
  <1> QED  BY <1>3, <1>4 DEF One

LEMMA ArgumentsAreNatural ==
  ASSUME NEW c, ToolCaseTyped(c), NEW calls
  PROVE  ArgCorrectness(c.expected, calls) \in Nat
  <1> DEFINE expected == c.expected
             Found(k) == Cardinality(Present(expected, calls, k, DOMAIN expected[k].required))
                           + Cardinality(Present(expected, calls, k, expected[k].forbidden))
             wanted == SumFunction([k \in DOMAIN expected |-> Cardinality(DOMAIN expected[k].required)])
             found == SumFunction([k \in DOMAIN expected |-> Found(k)])
             right == SumFunction([k \in DOMAIN expected |-> Cardinality(Right(expected, calls, k))])
  <1>1. ArgCorrectness(expected, calls) =
          IF wanted = 0 /\ found = 0 THEN One ELSE F1(right, found, wanted)
    BY DEF ArgCorrectness
  <1>2. IsFiniteSet(DOMAIN expected)
    BY PositionsAreFinite DEF ToolCaseTyped
  <1>3. ASSUME NEW k \in DOMAIN expected
        PROVE  /\ Cardinality(DOMAIN expected[k].required) \in Nat /\ Found(k) \in Nat
               /\ Cardinality(Right(expected, calls, k)) \in Nat
    <2> DEFINE required == DOMAIN expected[k].required
               forbidden == expected[k].forbidden
    <2>1. IsFiniteSet(required) /\ IsFiniteSet(forbidden)
      BY DEF ToolCaseTyped
    <2>2. \A keys : Present(expected, calls, k, keys) \in SUBSET keys
      BY DEF Present
    <2>3. Right(expected, calls, k) \in SUBSET required
      BY <2>2 DEF Right
    <2>4. Found(k) = Cardinality(Present(expected, calls, k, required))
                       + Cardinality(Present(expected, calls, k, forbidden))
      OBVIOUS
    <2> HIDE DEF expected, required, forbidden, Found
    <2>5. /\ Cardinality(required) \in Nat /\ Cardinality(Right(expected, calls, k)) \in Nat
          /\ Cardinality(Present(expected, calls, k, required)) \in Nat
          /\ Cardinality(Present(expected, calls, k, forbidden)) \in Nat
      BY <2>1, <2>2, <2>3, FS_Subset, FS_CardinalityType
    <2> QED  BY <2>4, <2>5 DEF required
  <1> HIDE DEF expected, Found
  <1>4. wanted \in Nat /\ found \in Nat /\ right \in Nat
    BY <1>2, <1>3, SumsAreNatural
  <1> HIDE DEF wanted, found, right
  <1>5. F1(right, found, wanted) \in Nat
    BY <1>4, F1IsNatural
  <1>6. ArgCorrectness(expected, calls) \in Nat
    BY <1>1, <1>5 DEF One
  <1> QED  BY <1>6 DEF expected

LEMMA PenaltyIsAFraction ==
  ASSUME NEW c, ToolCaseTyped(c), NEW calls, IsList(calls), NEW strict \in BOOLEAN
  PROVE  ExtraCallPenalty(c, calls, strict) \in 0 .. One
  <1> DEFINE got == Names(calls)
             wanted == Names(c.expected)
             over == IF c.maxCalls > 0 /\ Len(got) > c.maxCalls
                     THEN Ratio(Len(got) - c.maxCalls, c.maxCalls) ELSE 0
             beyond == [n \in ToSet(got) |-> Most(0, Count(n, got) - Count(n, wanted))]
             penalty == Most(over, Ratio(SumFunction(beyond), Len(wanted)))
  <1>1. IsList(got) /\ IsList(wanted) /\ c.maxCalls \in Int
    BY NamesAreAList DEF ToolCaseTyped
  <1>2. Len(got) \in Nat /\ Len(wanted) \in Nat
    BY <1>1 DEF IsList
  <1>3. over \in Nat
    <2>1. ASSUME c.maxCalls > 0, Len(got) > c.maxCalls
          PROVE  Ratio(Len(got) - c.maxCalls, c.maxCalls) \in Nat
      <3>1. Len(got) - c.maxCalls \in Nat
        BY <1>1, <1>2, <2>1
      <3> HIDE DEF got
      <3> QED  BY <1>1, <3>1, RatioIsNatural
    <2> HIDE DEF got
    <2> QED  BY <2>1
  <1>4. SumFunction(beyond) \in Nat
    <2>1. IsFiniteSet(DOMAIN beyond)
      BY <1>1, ListRangeIsFinite
    <2>2. \A n \in ToSet(got) : Most(0, Count(n, got) - Count(n, wanted)) \in Nat
      <3> HIDE DEF got, wanted
      <3> QED  BY <1>1, CountIsNatural DEF Most
    <2>3. \A n \in DOMAIN beyond : beyond[n] \in Nat
      BY <2>2
    <2> HIDE DEF beyond
    <2> QED  BY <2>1, <2>3, SumsAreNatural
  <1>5. ExtraCallPenalty(c, calls, strict) =
          IF c.allowExtra THEN 0 ELSE Least(One, IF strict THEN 2 * penalty ELSE penalty)
    BY DEF ExtraCallPenalty
  <1> HIDE DEF got, wanted, over, beyond
  <1>6. penalty \in Nat
    <2>1. Ratio(SumFunction(beyond), Len(wanted)) \in Nat
      BY <1>2, <1>4, RatioIsNatural, SMTT(60)
    <2> QED  BY <1>3, <2>1 DEF Most
  <1> HIDE DEF penalty
  <1> QED  BY <1>5, <1>6 DEF Least, One

LEMMA TrajectoryScoreIsNatural ==
  ASSUME NEW c, ToolCaseTyped(c), NEW calls, IsList(calls), NEW strict \in BOOLEAN
  PROVE  DeterministicToolScoreStrict(c, calls, strict) \in Nat
  <1> DEFINE got == Names(calls)
             wanted == Names(c.expected)
             hit == [n \in ToSet(wanted) |-> Least(Count(n, got), Count(n, wanted))]
             truePositive == SumFunction(hit)
             nameScore == IF c.allowExtra THEN Ratio(truePositive, Len(wanted))
                          ELSE F1(truePositive, Len(got), Len(wanted))
             argScore == IF c.fuzzy THEN One ELSE ArgCorrectness(c.expected, calls)
             ordered == ~c.unordered /\ ~c.fuzzy
             order == IF ordered THEN OrderCredit(c.expected, calls) ELSE One
             trajectory == Scaled(order, One - ExtraCallPenalty(c, calls, strict))
             score == (4 * nameScore + 4 * argScore + 2 * trajectory) \div 10
  <1>1. IsList(got) /\ IsList(wanted) /\ Len(got) \in Nat /\ Len(wanted) \in Nat
    BY NamesAreAList DEF ToolCaseTyped, IsList
  <1>2. truePositive \in Nat
    <2>1. IsFiniteSet(DOMAIN hit)
      BY <1>1, ListRangeIsFinite
    <2>2. \A n \in ToSet(wanted) : Least(Count(n, got), Count(n, wanted)) \in Nat
      <3> HIDE DEF got, wanted
      <3> QED  BY <1>1, CountIsNatural DEF Least
    <2>3. \A n \in DOMAIN hit : hit[n] \in Nat
      BY <2>2
    <2> HIDE DEF hit
    <2> QED  BY <2>1, <2>3, SumsAreNatural
  <1>3. nameScore \in Nat
    <2> HIDE DEF truePositive, got, wanted
    <2>1. Ratio(truePositive, Len(wanted)) \in Nat
      <3>1. Len(wanted) \in Int
        BY <1>1
      <3> HIDE DEF truePositive
      <3> QED  BY <1>2, <3>1, RatioIsNatural
    <2>2. F1(truePositive, Len(got), Len(wanted)) \in Nat
      BY <1>1, <1>2, F1IsNatural
    <2> QED  BY <2>1, <2>2
  <1>4. argScore \in Nat
    BY ArgumentsAreNatural DEF One
  <1>5. order \in Nat
    BY OrderIsNatural DEF ToolCaseTyped, One
  <1>6. trajectory \in Nat
    <2>1. One - ExtraCallPenalty(c, calls, strict) \in Nat
      BY PenaltyIsAFraction, SMTT(60) DEF One
    <2> HIDE DEF order
    <2> QED  BY <1>5, <2>1, ScaledIsNatural
  <1>7. score \in Nat /\ Scaled(score, order) \in Nat
    <2> HIDE DEF nameScore, argScore, order, trajectory
    <2>1. score \in Nat
      BY <1>3, <1>4, <1>6
    <2> HIDE DEF score
    <2> QED  BY <1>5, <2>1, ScaledIsNatural
  <1> DEFINE refused == \/ strict /\ ForbiddenArgPresent(c.expected, calls)
                        \/ truePositive = 0
                        \/ c.fuzzy /\ truePositive < Len(wanted)
                        \/ c.fuzzy /\ ~RequiredOutcomesSatisfied(c.expected, calls)
  <1>8. DeterministicToolScoreStrict(c, calls, strict) =
          CASE refused -> 0
            [] ~refused /\ strict /\ ordered -> Scaled(score, order)
            [] OTHER -> score
    BY DEF DeterministicToolScoreStrict
  <1> HIDE DEF refused, score, order, ordered
  <1> QED  BY <1>7, <1>8

-----------------------------------------------------------------------------
(* What a self-report may change *)

LEMMA ToolScoreIsNatural ==
  ASSUME NEW c, ToolCaseTyped(c), NEW resp, IsList(resp.calls), NEW delivered, NEW strict \in BOOLEAN
  PROVE  ToolScore(c, resp, delivered, strict) \in Nat
  <1>1. DeterministicToolScoreStrict(c, resp.calls, strict) \in Nat
    BY TrajectoryScoreIsNatural
  <1> QED  BY <1>1 DEF ToolScore, One

(* The score of a case of tools before the ceiling of unobserved cases. *)
Composed(c, resp, delivered, observed, version) ==
  LET scored == ScoreToolCaseObserved(c, resp, delivered, observed, version)
  IN IF c.usage THEN ComposeResultUsage(version, scored, resp.says) ELSE FinishTool(scored)

(* The composition weighs the trajectory with what the answer says. *)
LEMMA CompositionWeighs ==
  ASSUME NEW cs, DOMAIN cs = DOMAIN ZeroScore, cs.toolScore \in Nat,
         NEW other, DOMAIN other = DOMAIN ZeroScore, other.toolScore \in Nat,
         cs.toolScore <= other.toolScore, NEW version \in Nat, NEW says
  PROVE  /\ ComposeResultUsage(version, cs, says).score \in Nat
         /\ ComposeResultUsage(version, cs, says).score <= ComposeResultUsage(version, other, says).score
         /\ FinishTool(cs).score \in Nat /\ FinishTool(cs).score <= FinishTool(other).score
         /\ DOMAIN ComposeResultUsage(version, cs, says) = DOMAIN ZeroScore
         /\ DOMAIN FinishTool(cs) = DOMAIN ZeroScore
  <1> DEFINE t == cs.toolScore
             u == other.toolScore
  <1>1. FinishTool(cs).score = t /\ FinishTool(other).score = u /\ DOMAIN FinishTool(cs) = DOMAIN ZeroScore
    BY DEF FinishTool, ZeroScore
  <1>2. \A k \in {0, One} : /\ (4 * t + 6 * k) \div 10 \in Nat
                           /\ (4 * t + 6 * k) \div 10 <= (4 * u + 6 * k) \div 10
    <2> HIDE DEF t, u
    <2> SUFFICES ASSUME t \in Nat, u \in Nat, t <= u
                 PROVE  \A k \in {0, One} : /\ (4 * t + 6 * k) \div 10 \in Nat
                                          /\ (4 * t + 6 * k) \div 10 <= (4 * u + 6 * k) \div 10
      BY DEF t, u
    <2> QED  BY DEF One
  <1>3. \A gate \in {0, One, V7.missGate} : Scaled(t, gate) \in Nat /\ Scaled(t, gate) <= Scaled(u, gate)
    <2> HIDE DEF t, u
    <2> SUFFICES ASSUME t \in Nat, u \in Nat, t <= u
                 PROVE  \A gate \in {0, One, 100} : Scaled(t, gate) \in Nat /\ Scaled(t, gate) <= Scaled(u, gate)
      BY DEF t, u, V7
    <2> QED  BY DEF One, Scaled
  <1>4. \A k : LET used == AnswerCarriesValue(says, "needle") /\ ~AnswerCarriesValue(says, "decoy")
               IN (IF used THEN One ELSE 0) \in {0, One}
    OBVIOUS
  <1>5. CASE version < 7
    <2> DEFINE k == IF AnswerCarriesValue(says, "needle") /\ ~AnswerCarriesValue(says, "decoy") THEN One ELSE 0
    <2>1. /\ ComposeResultUsage(version, cs, says) = [cs EXCEPT !.score = (4 * t + 6 * k) \div 10]
          /\ ComposeResultUsage(version, other, says) = [other EXCEPT !.score = (4 * u + 6 * k) \div 10]
      BY <1>5 DEF ComposeResultUsage, ComposeResultUsageWithDecoy
    <2>2. k \in {0, One}
      OBVIOUS
    <2> DEFINE a == (4 * t + 6 * k) \div 10
               b == (4 * u + 6 * k) \div 10
    <2>3. a \in Nat /\ a <= b
      <3> HIDE DEF k, t, u
      <3> QED  BY <1>2, <2>2
    <2> HIDE DEF a, b
    <2>4. /\ ComposeResultUsage(version, cs, says).score = a /\ ComposeResultUsage(version, other, says).score = b
          /\ DOMAIN ComposeResultUsage(version, cs, says) = DOMAIN ZeroScore
      BY <2>1 DEF ZeroScore, a, b
    <2> QED  BY <1>1, <2>3, <2>4
  <1>6. CASE ~(version < 7)
    <2> DEFINE gate == CASE AnswerCarriesValue(says, "decoy") -> 0
                         [] ~AnswerCarriesValue(says, "decoy") /\ AnswerCarriesValue(says, "needle") -> One
                         [] OTHER -> V7.missGate
               a == Scaled(t, gate)
               b == Scaled(u, gate)
    <2>1. gate \in {0, One, V7.missGate}
      OBVIOUS
    <2>2. /\ ComposeResultUsage(version, cs, says) = [cs EXCEPT !.score = a]
          /\ ComposeResultUsage(version, other, says) = [other EXCEPT !.score = b]
      BY <1>6 DEF ComposeResultUsage
    <2> HIDE DEF gate
    <2>3. a \in Nat /\ a <= b
      BY <1>3, <2>1
    <2> HIDE DEF a, b
    <2>4. /\ ComposeResultUsage(version, cs, says).score = a /\ ComposeResultUsage(version, other, says).score = b
          /\ DOMAIN ComposeResultUsage(version, cs, says) = DOMAIN ZeroScore
      BY <2>2 DEF ZeroScore
    <2> QED  BY <1>1, <2>3, <2>4
  <1> QED  BY <1>5, <1>6

(* A trajectory scored before composition is a row with a natural score. *)
LEMMA ScoredTrajectory ==
  ASSUME NEW c, ToolCaseTyped(c), NEW resp, DOMAIN resp = {"calls", "says"}, IsList(resp.calls),
         NEW delivered \in BOOLEAN, NEW observed, IsList(observed), NEW version \in Nat
  PROVE  /\ DOMAIN ScoreToolCaseObserved(c, resp, delivered, observed, version) = DOMAIN ZeroScore
         /\ ScoreToolCaseObserved(c, resp, delivered, observed, version).toolScore \in Nat
         /\ observed = <<>> =>
              ScoreToolCaseObserved(c, resp, delivered, observed, version).toolScore
                = ToolScore(c, resp, delivered, version >= 7)
  <1> DEFINE auth == IF observed # <<>> THEN [resp EXCEPT !.calls = observed] ELSE resp
             strict == version >= 7
  <1>1. IsList(auth.calls)
    BY DEF IsList
  <1>2. strict \in BOOLEAN
    OBVIOUS
  <1>3. ScoreToolCaseObserved(c, resp, delivered, observed, version) =
          [ScoreCaseStrict(c, auth, delivered, strict) EXCEPT !.observed = (observed # <<>>)]
    BY DEF ScoreToolCaseObserved
  <1> HIDE DEF auth, strict
  <1>4. ToolScore(c, auth, delivered, strict) \in Nat
    BY <1>1, <1>2, ToolScoreIsNatural
  <1>5. /\ DOMAIN ScoreCaseStrict(c, auth, delivered, strict) = DOMAIN ZeroScore
        /\ ScoreCaseStrict(c, auth, delivered, strict).toolScore = ToolScore(c, auth, delivered, strict)
    BY DEF ScoreCaseStrict, ZeroScore
  <1> DEFINE cs == [ScoreCaseStrict(c, auth, delivered, strict) EXCEPT !.observed = (observed # <<>>)]
  <1>6. DOMAIN cs = DOMAIN ZeroScore /\ cs.toolScore = ToolScore(c, auth, delivered, strict)
    BY <1>5 DEF ZeroScore
  <1> HIDE DEF cs
  <1>7. ScoreToolCaseObserved(c, resp, delivered, observed, version) = cs
    BY <1>3 DEF cs
  <1>8. observed = <<>> => auth = resp
    BY DEF auth
  <1> QED  BY <1>4, <1>6, <1>7, <1>8 DEF strict

LEMMA CeilingIsNatural ==
  ASSUME NEW scope, NEW version \in Nat
  PROVE  UnobservedCeiling(scope, version) \in Nat
  BY DEF UnobservedCeiling, UnobservedCeilingFor, V7

(* On a case with an observed call, or with served tools only, the score   *)
(* is at most that of the silent harness, or the ceiling.                  *)
LEMMA SelfReportsNeverPay ==
  ASSUME NEW c, ToolCaseTyped(c), NEW resp, DOMAIN resp = {"calls", "says"}, IsList(resp.calls),
         NEW silent, DOMAIN silent = {"calls", "says"}, silent = [resp EXCEPT !.calls = <<>>],
         NEW delivered \in BOOLEAN, NEW observed, IsList(observed), NEW scope, NEW version \in Nat,
         observed # <<>> \/ ToSet(Names(c.expected)) \cap MemoryTools = {}
  PROVE  GradeToolCase(c, resp, delivered, observed, scope, version).score <=
           Most(GradeToolCase(c, silent, delivered, observed, scope, version).score,
                IF observed = <<>> THEN UnobservedCeiling(scope, version) ELSE 0)
  <1> DEFINE first(r) == ScoreToolCaseObserved(c, r, delivered, observed, version)
             whole(r) == Composed(c, r, delivered, observed, version)
             weighed(r) == ApplyTrajectoryMismatch(version, c, whole(r), r.calls, observed)
             grade(r) == GradeToolCase(c, r, delivered, observed, scope, version)
             ceiling == UnobservedCeiling(scope, version)
  <1>1. silent.calls = <<>> /\ silent.says = resp.says /\ IsList(silent.calls)
    BY DEF IsList
  <1>2. /\ grade(resp) = IF Capped(c, observed) THEN CapUnobserved(weighed(resp), scope, version) ELSE weighed(resp)
        /\ grade(silent) = IF Capped(c, observed) THEN CapUnobserved(weighed(silent), scope, version) ELSE weighed(silent)
    BY DEF GradeToolCase, Composed
  <1>3. /\ DOMAIN first(resp) = DOMAIN ZeroScore /\ first(resp).toolScore \in Nat
        /\ DOMAIN first(silent) = DOMAIN ZeroScore /\ first(silent).toolScore \in Nat
    BY <1>1, ScoredTrajectory
  <1>4. ASSUME NEW r \in {resp, silent}
        PROVE  /\ whole(r) = IF c.usage THEN ComposeResultUsage(version, first(r), resp.says) ELSE FinishTool(first(r))
               /\ whole(r).score \in Nat /\ DOMAIN whole(r) = DOMAIN ZeroScore
    <2>1. whole(r) = IF c.usage THEN ComposeResultUsage(version, first(r), resp.says) ELSE FinishTool(first(r))
      BY <1>1 DEF Composed
    <2>2. DOMAIN first(r) = DOMAIN ZeroScore /\ first(r).toolScore \in Nat /\ first(r).toolScore <= first(r).toolScore
      BY <1>3
    <2> HIDE DEF first, whole
    <2>3. /\ ComposeResultUsage(version, first(r), resp.says).score \in Nat
          /\ FinishTool(first(r)).score \in Nat
          /\ DOMAIN ComposeResultUsage(version, first(r), resp.says) = DOMAIN ZeroScore
          /\ DOMAIN FinishTool(first(r)) = DOMAIN ZeroScore
      BY <2>2, CompositionWeighs, SMTT(60)
    <2> QED  BY <2>1, <2>3
  <1>5. first(resp).toolScore <= first(silent).toolScore => whole(resp).score <= whole(silent).score
    <2> SUFFICES ASSUME first(resp).toolScore <= first(silent).toolScore
                 PROVE  whole(resp).score <= whole(silent).score
      OBVIOUS
    <2> HIDE DEF first, whole
    <2>1. /\ ComposeResultUsage(version, first(resp), resp.says).score
               <= ComposeResultUsage(version, first(silent), resp.says).score
          /\ FinishTool(first(resp)).score <= FinishTool(first(silent)).score
      BY <1>3, CompositionWeighs
    <2> QED  BY <1>4, <2>1
  <1> HIDE DEF first, whole
  <1>6. weighed(silent) = whole(silent) /\ (observed = <<>> => weighed(resp) = whole(resp))
    BY <1>1 DEF ApplyTrajectoryMismatch
  <1>7. ceiling \in Nat
    BY CeilingIsNatural
  <1>8. CASE observed # <<>>
    <2>1. ~Capped(c, observed)
      BY <1>8 DEF Capped
    <2>2. [silent EXCEPT !.calls = observed] = [resp EXCEPT !.calls = observed]
      OBVIOUS
    <2>3. first(silent) = first(resp)
      BY <1>8, <2>2 DEF first, ScoreToolCaseObserved
    <2>4. whole(silent) = whole(resp)
      BY <1>4, <2>3
    <2>5. weighed(resp).score <= whole(resp).score
      <3>1. weighed(resp) = whole(resp) \/ weighed(resp) = [whole(resp) EXCEPT !.score = Scaled(@, V7.mismatch)]
        BY DEF ApplyTrajectoryMismatch
      <3>2. whole(resp).score \in Nat /\ "score" \in DOMAIN whole(resp)
        BY <1>4 DEF ZeroScore
      <3>3. ASSUME NEW x \in Nat  PROVE Scaled(x, V7.mismatch) <= x
        BY DEF Scaled, V7, One
      <3> HIDE DEF weighed
      <3>4. CASE weighed(resp) = whole(resp)
        BY <3>2, <3>4
      <3>5. CASE weighed(resp) = [whole(resp) EXCEPT !.score = Scaled(@, V7.mismatch)]
        <4>1. weighed(resp).score = Scaled(whole(resp).score, V7.mismatch)
          BY <3>2, <3>5
        <4> QED  BY <3>2, <3>3, <4>1
      <3> QED  BY <3>1, <3>4, <3>5
    <2>6. grade(resp).score <= grade(silent).score /\ grade(silent).score \in Nat
      <3>1. grade(resp) = weighed(resp) /\ grade(silent) = whole(resp)
        BY <1>2, <1>6, <2>1, <2>4
      <3> HIDE DEF grade, weighed
      <3> QED  BY <1>4, <2>5, <3>1
    <2> HIDE DEF grade
    <2>7. Most(grade(silent).score, 0) = grade(silent).score
      BY <2>6 DEF Most
    <2>8. grade(resp).score <= Most(grade(silent).score, IF observed = <<>> THEN ceiling ELSE 0)
      BY <1>8, <2>6, <2>7
    <2> QED  BY <2>8 DEF grade
  <1>9. CASE observed = <<>> /\ Observable(c)
    <2>1. Capped(c, observed)
      BY <1>9 DEF Capped
    <2>2. /\ grade(resp) = CapUnobserved(whole(resp), scope, version)
          /\ grade(silent) = CapUnobserved(whole(silent), scope, version)
      BY <1>2, <1>6, <1>9, <2>1
    <2>3. ASSUME NEW r \in {resp, silent}
          PROVE  /\ CapUnobserved(whole(r), scope, version).score \in Nat
                 /\ CapUnobserved(whole(r), scope, version).score <= ceiling
      <3>1. CapUnobserved(whole(r), scope, version).score = Least(whole(r).score, ceiling)
        BY <1>4 DEF CapUnobserved, ZeroScore
      <3> HIDE DEF ceiling
      <3> QED  BY <1>4, <1>7, <3>1 DEF Least
    <2>4. grade(resp).score \in Nat /\ grade(resp).score <= ceiling /\ grade(silent).score \in Nat
      <3> HIDE DEF grade, ceiling
      <3> QED  BY <2>2, <2>3
    <2> HIDE DEF grade, ceiling
    <2>5. grade(resp).score <= Most(grade(silent).score, ceiling)
      BY <1>7, <2>4 DEF Most
    <2>6. grade(resp).score <= Most(grade(silent).score, IF observed = <<>> THEN ceiling ELSE 0)
      BY <1>9, <2>5
    <2> QED  BY <2>6 DEF grade, ceiling
  <1>10. CASE observed = <<>> /\ ~Observable(c)
    <2>1. ~Capped(c, observed) /\ c.expected = <<>>
      BY <1>10 DEF Capped, Observable
    <2>2. grade(resp) = whole(resp) /\ grade(silent) = whole(silent)
      BY <1>2, <1>6, <1>10, <2>1
    <2>3. /\ first(resp).toolScore = ToolScore(c, resp, delivered, version >= 7)
          /\ first(silent).toolScore = ToolScore(c, silent, delivered, version >= 7)
      BY <1>1, <1>10, ScoredTrajectory DEF first
    <2>4. ToolScore(c, resp, delivered, version >= 7) <= ToolScore(c, silent, delivered, version >= 7)
      <3>1. silent.calls = <<>> /\ DOMAIN silent.calls = {}
        BY <1>1
      <3>a. c.expected = <<>> /\ ~AllMemory(Names(c.expected))
        <4>1. c.expected = <<>>
          BY <2>1
        <4>2. Names(c.expected) = <<>>
          BY <4>1 DEF Names
        <4> QED  BY <4>1, <4>2 DEF AllMemory
      <3>2. ASSUME NEW r \in {resp, silent}, delivered
            PROVE  ToolScore(c, r, delivered, version >= 7)
                     = IF \E i \in DOMAIN r.calls : r.calls[i].name \notin MemoryTools THEN 0 ELSE One
        BY <3>a, <3>2 DEF ToolScore
      <3>3. ASSUME NEW r \in {resp, silent}, ~delivered
            PROVE  ToolScore(c, r, delivered, version >= 7) = 0
        BY <3>a, <3>3 DEF ToolScore
      <3>4. CASE delivered
        <4>1. ToolScore(c, silent, delivered, version >= 7) = One
          <5>1. ~\E i \in DOMAIN silent.calls : silent.calls[i].name \notin MemoryTools
            BY <3>1
          <5> QED  BY <3>2, <3>4, <5>1
        <4>2. ToolScore(c, resp, delivered, version >= 7) \in {0, One}
          BY <3>2, <3>4
        <4> QED  BY <4>1, <4>2 DEF One
      <3>5. CASE ~delivered
        BY <3>3, <3>5
      <3> QED  BY <3>4, <3>5
    <2>5. grade(resp).score <= grade(silent).score /\ grade(resp).score \in Nat /\ grade(silent).score \in Nat
      <3> HIDE DEF grade
      <3> QED  BY <1>4, <1>5, <2>2, <2>3, <2>4
    <2> HIDE DEF grade, ceiling
    <2>6. grade(resp).score <= Most(grade(silent).score, ceiling)
      BY <1>7, <2>5 DEF Most
    <2>7. grade(resp).score <= Most(grade(silent).score, IF observed = <<>> THEN ceiling ELSE 0)
      BY <1>10, <2>6
    <2> QED  BY <2>7 DEF grade, ceiling
  <1> QED  BY <1>8, <1>9, <1>10

-----------------------------------------------------------------------------
(* Full marks *)

(* A quotient of a part and its whole is a fraction, and one only for all. *)
LEMMA RatioIsAFraction ==
  ASSUME NEW num \in Nat, NEW denom \in Nat \ {0}, num <= denom
  PROVE  Ratio(num, denom) \in 0 .. One /\ (Ratio(num, denom) = One <=> num = denom)
  <1>1. Ratio(num, denom) = (num * 1000) \div denom
    BY DEF Ratio, One
  <1> DEFINE q == (num * 1000) \div denom
  <1>2. q \in Int /\ denom * q <= num * 1000 /\ num * 1000 < denom * q + denom
    OBVIOUS
  <1> HIDE DEF q
  <1>3. q >= 0
    <2> SUFFICES ASSUME q <= -1  PROVE FALSE
      BY <1>2
    <2>1. denom * q <= -denom
      BY <1>2
    <2> QED  BY <1>2, <2>1
  <1>4. q <= 1000
    <2> SUFFICES ASSUME q >= 1001  PROVE FALSE
      BY <1>2
    <2>1. denom * q >= denom * 1001
      BY <1>2
    <2> QED  BY <1>2, <2>1
  <1>5. q = 1000 <=> num = denom
    <2>1. ASSUME q = 1000  PROVE num = denom
      BY <1>2, <2>1
    <2>2. ASSUME num = denom, q <= 999  PROVE FALSE
      <3>1. denom * q <= denom * 999
        BY <1>2, <2>2
      <3> QED  BY <1>2, <2>2, <3>1
    <2> QED  BY <1>2, <1>4, <2>1, <2>2
  <1> QED  BY <1>1, <1>2, <1>3, <1>4, <1>5 DEF One, q

LEMMA F1IsAFraction ==
  ASSUME NEW hits \in Nat, NEW observed \in Nat, NEW expected \in Nat,
         hits <= observed, hits <= expected, observed + expected # 0
  PROVE  /\ F1(hits, observed, expected) \in 0 .. One
         /\ F1(hits, observed, expected) = One <=> hits = observed /\ hits = expected
  <1>1. 2 * hits \in Nat /\ observed + expected \in Nat \ {0} /\ 2 * hits <= observed + expected
    OBVIOUS
  <1>2. 2 * hits = observed + expected <=> hits = observed /\ hits = expected
    OBVIOUS
  <1> QED  BY <1>1, <1>2, RatioIsAFraction DEF F1

(* The positions of a list at which a value is.                            *)
Places(x, s) == {i \in DOMAIN s : s[i] = x}

LEMMA PlacesAreCounted ==
  ASSUME NEW s, IsList(s), NEW x
  PROVE  /\ IsFiniteSet(Places(x, s)) /\ Cardinality(Places(x, s)) = Count(x, s) /\ Count(x, s) \in Nat
         /\ Count(x, s) = 0 <=> x \notin ToSet(s)
  <1>1. Places(x, s) \in SUBSET DOMAIN s
    BY DEF Places
  <1>2. IsFiniteSet(Places(x, s)) /\ Cardinality(Places(x, s)) = Count(x, s) /\ Count(x, s) \in Nat
    BY <1>1, PositionsAreFinite DEF Count, Places
  <1>3. Places(x, s) = {} <=> x \notin ToSet(s)
    BY DEF Places, ToSet
  <1> QED  BY <1>2, <1>3, FS_EmptySet

(* The counts of some values add up to the number of positions they have.  *)
LEMMA CountsAddUp ==
  ASSUME NEW s, IsList(s), NEW X, IsFiniteSet(X)
  PROVE  /\ SumFunctionOnSet([x \in X |-> Count(x, s)], X) <= Len(s)
         /\ SumFunctionOnSet([x \in X |-> Count(x, s)], X) = Len(s) <=> ToSet(s) \subseteq X
  <1> DEFINE F == [x \in X |-> Places(x, s)]
             whole == UNION {F[x] : x \in X}
  <1>1. \A x \in X : IsFiniteSet(F[x]) /\ Cardinality(F[x]) = Count(x, s)
    BY PlacesAreCounted
  <1>2. \A x, y \in X : x # y => F[x] \cap F[y] = {}
    BY DEF Places
  <1>3. [x \in X |-> Cardinality(F[x])] = [x \in X |-> Count(x, s)]
    BY <1>1
  <1>4. whole \in SUBSET DOMAIN s /\ (whole = DOMAIN s <=> ToSet(s) \subseteq X)
    BY DEF Places, ToSet
  <1> HIDE DEF F
  <1>5. IsFiniteSet(whole) /\ SumFunctionOnSet([x \in X |-> Count(x, s)], X) = Cardinality(whole)
    BY <1>1, <1>2, <1>3, SumsCount
  <1> HIDE DEF whole
  <1>6. IsFiniteSet(DOMAIN s) /\ Cardinality(DOMAIN s) = Len(s)
    <2>1. DOMAIN s = 1 .. Len(s) /\ Len(s) \in Nat
      BY DEF IsList
    <2> DEFINE n == Len(s)
    <2> HIDE DEF n
    <2>2. n \in Nat => IsFiniteSet(1 .. n) /\ Cardinality(1 .. n) = n
      BY FS_Interval
    <2> QED  BY <2>1, <2>2 DEF n
  <1>7. Cardinality(whole) <= Len(s) /\ (Cardinality(whole) = Len(s) <=> whole = DOMAIN s)
    BY <1>4, <1>6, FS_Subset
  <1> QED  BY <1>4, <1>5, <1>7

(* The names called are those expected, as often as expected, exactly when *)
(* the hits are as many as the calls and as the expectations.              *)
LEMMA NamesAreHit ==
  ASSUME NEW got, IsList(got), NEW wanted, IsList(wanted)
  PROVE  LET hits == SumFunction([n \in ToSet(wanted) |-> Least(Count(n, got), Count(n, wanted))])
         IN /\ hits \in Nat /\ hits <= Len(got) /\ hits <= Len(wanted)
            /\ hits = Len(got) /\ hits = Len(wanted) <=> \A n : Count(n, got) = Count(n, wanted)
  <1> DEFINE X == ToSet(wanted)
             least == [n \in X |-> Least(Count(n, got), Count(n, wanted))]
             ofGot == [n \in X |-> Count(n, got)]
             ofWanted == [n \in X |-> Count(n, wanted)]
             hits == SumFunctionOnSet(least, X)
  <1>1. IsFiniteSet(X)
    BY ListRangeIsFinite
  <1>2. \A n : Count(n, got) \in Nat /\ Count(n, wanted) \in Nat
    BY CountIsNatural
  <1>3. \A n \in X : /\ least[n] = Least(Count(n, got), Count(n, wanted)) /\ least[n] \in Nat
                     /\ ofGot[n] = Count(n, got) /\ ofGot[n] \in Nat /\ least[n] <= ofGot[n]
                     /\ ofWanted[n] = Count(n, wanted) /\ ofWanted[n] \in Nat /\ least[n] <= ofWanted[n]
    BY <1>2 DEF Least
  <1>4. /\ SumFunctionOnSet(ofGot, X) <= Len(got)
        /\ SumFunctionOnSet(ofGot, X) = Len(got) <=> ToSet(got) \subseteq X
    BY <1>1, CountsAddUp
  <1>5. SumFunctionOnSet(ofWanted, X) = Len(wanted)
    BY <1>1, CountsAddUp
  <1> HIDE DEF least, ofGot, ofWanted
  <1>6. /\ hits <= SumFunctionOnSet(ofGot, X)
        /\ hits = SumFunctionOnSet(ofGot, X) <=> \A n \in X : least[n] = ofGot[n]
    BY <1>1, <1>3, SumsCompare
  <1>7. /\ hits <= SumFunctionOnSet(ofWanted, X)
        /\ hits = SumFunctionOnSet(ofWanted, X) <=> \A n \in X : least[n] = ofWanted[n]
    BY <1>1, <1>3, SumsCompare
  <1>8. hits \in Nat /\ SumFunctionOnSet(ofGot, X) \in Nat /\ Len(got) \in Nat /\ Len(wanted) \in Nat
    BY <1>1, <1>3, SumIsNatural DEF IsList
  <1> HIDE DEF hits
  <1>9. hits = Len(got) /\ hits = Len(wanted)
          <=> (\A n \in X : least[n] = ofGot[n] /\ least[n] = ofWanted[n]) /\ ToSet(got) \subseteq X
    BY <1>4, <1>5, <1>6, <1>7, <1>8
  <1>10. (\A n : Count(n, got) = Count(n, wanted))
           <=> (\A n \in X : least[n] = ofGot[n] /\ least[n] = ofWanted[n]) /\ ToSet(got) \subseteq X
    <2>1. ASSUME \A n : Count(n, got) = Count(n, wanted)
          PROVE  (\A n \in X : least[n] = ofGot[n] /\ least[n] = ofWanted[n]) /\ ToSet(got) \subseteq X
      <3>1. \A n \in X : least[n] = ofGot[n] /\ least[n] = ofWanted[n]
        BY <1>2, <1>3, <2>1 DEF Least
      <3>2. \A n \in ToSet(got) : n \in X
        BY <2>1, PlacesAreCounted
      <3> QED  BY <3>1, <3>2
    <2>2. ASSUME \A n \in X : least[n] = ofGot[n] /\ least[n] = ofWanted[n], ToSet(got) \subseteq X, NEW n
          PROVE  Count(n, got) = Count(n, wanted)
      <3>1. CASE n \in X
        BY <1>3, <2>2, <3>1
      <3>2. CASE n \notin X
        <4>1. n \notin ToSet(got) /\ n \notin ToSet(wanted)
          BY <2>2, <3>2
        <4> QED  BY <4>1, PlacesAreCounted
      <3> QED  BY <3>1, <3>2
    <2> QED  BY <2>1, <2>2
  <1>11. hits = SumFunction([n \in ToSet(wanted) |-> Least(Count(n, got), Count(n, wanted))])
    BY DEF hits, least, SumFunction
  <1>12. hits <= Len(got) /\ hits <= Len(wanted)
    BY <1>4, <1>5, <1>6, <1>7, <1>8
  <1> HIDE DEF X
  <1> QED  BY <1>8, <1>9, <1>10, <1>11, <1>12

(* All arguments are right exactly when every required one is carried and  *)
(* right, and no forbidden one is carried, by the calls matched.           *)
LEMMA ArgumentsAreRight ==
  ASSUME NEW c, ToolCaseTyped(c), NEW calls
  PROVE  /\ ArgCorrectness(c.expected, calls) \in 0 .. One
         /\ ArgCorrectness(c.expected, calls) = One <=>
              \A k \in DOMAIN c.expected : /\ Right(c.expected, calls, k) = DOMAIN c.expected[k].required
                                           /\ Present(c.expected, calls, k, c.expected[k].forbidden) = {}
  <1> DEFINE expected == c.expected
             K == DOMAIN expected
             required(k) == DOMAIN expected[k].required
             forbidden(k) == expected[k].forbidden
             held(k) == Present(expected, calls, k, required(k))
             barred(k) == Present(expected, calls, k, forbidden(k))
             good(k) == Right(expected, calls, k)
             W == [k \in K |-> Cardinality(required(k))]
             F == [k \in K |-> Cardinality(held(k)) + Cardinality(barred(k))]
             R == [k \in K |-> Cardinality(good(k))]
             wanted == SumFunction(W)
             found == SumFunction(F)
             right == SumFunction(R)
  <1>1. ArgCorrectness(expected, calls) = IF wanted = 0 /\ found = 0 THEN One ELSE F1(right, found, wanted)
    BY DEF ArgCorrectness
  <1>2. IsFiniteSet(K)
    BY PositionsAreFinite DEF ToolCaseTyped
  <1>3. ASSUME NEW k \in K
        PROVE  /\ W[k] \in Nat /\ F[k] \in Nat /\ R[k] \in Nat /\ R[k] <= W[k] /\ R[k] <= F[k]
               /\ R[k] = W[k] /\ R[k] = F[k] <=> good(k) = required(k) /\ barred(k) = {}
    <2>1. IsFiniteSet(required(k)) /\ IsFiniteSet(forbidden(k))
      BY DEF ToolCaseTyped
    <2>2. held(k) \in SUBSET required(k) /\ barred(k) \in SUBSET forbidden(k) /\ good(k) \in SUBSET held(k)
      BY DEF Present, Right
    <2> DEFINE w == Cardinality(required(k))
               h == Cardinality(held(k))
               b == Cardinality(barred(k))
               r == Cardinality(good(k))
    <2>3. W[k] = w /\ F[k] = h + b /\ R[k] = r
      OBVIOUS
    <2> HIDE DEF K, W, F, R, required, forbidden, held, barred, good
    <2>4. IsFiniteSet(held(k)) /\ IsFiniteSet(barred(k)) /\ IsFiniteSet(good(k)) /\ h <= w /\ r <= h
      BY <2>1, <2>2, FS_Subset
    <2>5. w \in Nat /\ h \in Nat /\ b \in Nat /\ r \in Nat
      BY <2>1, <2>4, FS_CardinalityType
    <2>6. (h = w => held(k) = required(k)) /\ (r = h => good(k) = held(k)) /\ (b = 0 <=> barred(k) = {})
      BY <2>1, <2>2, <2>4, FS_Subset, FS_EmptySet
    <2>7. ASSUME good(k) = required(k), barred(k) = {}
          PROVE  r = w /\ h = w /\ b = 0
      <3>1. held(k) = required(k)
        BY <2>2, <2>7
      <3> QED  BY <2>6, <2>7, <3>1
    <2> HIDE DEF w, h, b, r
    <2> QED  BY <2>3, <2>4, <2>5, <2>6, <2>7
  <1>4. DOMAIN W = K /\ DOMAIN F = K /\ DOMAIN R = K
    OBVIOUS
  <1> HIDE DEF K, W, F, R, required, forbidden, held, barred, good
  <1>5. wanted \in Nat /\ found \in Nat /\ right \in Nat
    BY <1>2, <1>3, <1>4, SumsAreNatural
  <1>6. /\ right <= wanted /\ (right = wanted <=> \A k \in K : R[k] = W[k])
        /\ right <= found /\ (right = found <=> \A k \in K : R[k] = F[k])
    BY <1>2, <1>3, <1>4, SumsCompare DEF SumFunction
  <1> HIDE DEF wanted, found, right
  <1>7. right = wanted /\ right = found <=> \A k \in K : good(k) = required(k) /\ barred(k) = {}
    BY <1>3, <1>6
  <1>8. /\ ArgCorrectness(expected, calls) \in 0 .. One
        /\ ArgCorrectness(expected, calls) = One <=> right = wanted /\ right = found
    <2>1. CASE wanted = 0 /\ found = 0
      BY <1>1, <1>5, <1>6, <2>1 DEF One
    <2>2. CASE ~(wanted = 0 /\ found = 0)
      <3>1. found + wanted # 0
        BY <1>5, <2>2
      <3> QED  BY <1>1, <1>5, <1>6, <2>2, <3>1, F1IsAFraction
    <2> QED  BY <2>1, <2>2
  <1> QED  BY <1>7, <1>8, SMTT(60) DEF expected, K, good, required, barred, forbidden

(* The rank of a position among those of its value.                        *)
LEMMA PrefixesRank ==
  ASSUME NEW S, NEW s \in Seq(S), NEW x, NEW i \in DOMAIN s
  PROVE  Count(x, SubSeq(s, 1, i)) = Cardinality({j \in Places(x, s) : j <= i})
  <1>1. i \in 1 .. Len(s) /\ Len(s) \in Nat /\ DOMAIN s = 1 .. Len(s)
    OBVIOUS
  <1>2. SubSeq(s, 1, i) = [j \in 1 .. i |-> s[j]]
    BY <1>1
  <1>3. {j \in DOMAIN SubSeq(s, 1, i) : SubSeq(s, 1, i)[j] = x} = {j \in Places(x, s) : j <= i}
    BY <1>1, <1>2 DEF Places
  <1> QED  BY <1>3 DEF Count

(* Where the names called are those expected, as often as expected, each   *)
(* expectation is matched with one call, and no two with the same.         *)
LEMMA MatchesAreUnique ==
  ASSUME NEW expected, IsList(expected), NEW calls, IsList(calls),
         \A n : Count(n, Names(calls)) = Count(n, Names(expected))
  PROVE  /\ \A k \in DOMAIN expected :
              \E i \in DOMAIN calls : MatchedCalls(expected, calls, k) = {i} /\ calls[i].name = expected[k].name
         /\ \A k, l \in DOMAIN expected :
              MatchedCalls(expected, calls, k) = MatchedCalls(expected, calls, l) => k = l
  <1> DEFINE got == Names(calls)
             wanted == Names(expected)
             Rank(s, i) == Cardinality({j \in Places(s[i], s) : j <= i})
  <1>1. /\ IsList(got) /\ DOMAIN got = DOMAIN calls /\ \A i \in DOMAIN calls : got[i] = calls[i].name
        /\ IsList(wanted) /\ DOMAIN wanted = DOMAIN expected
        /\ \A k \in DOMAIN expected : wanted[k] = expected[k].name
    BY NamesAreAList DEF Names
  <1>a. (\E S : got \in Seq(S)) /\ \E S : wanted \in Seq(S)
    BY NamesAreAList
  <1> HIDE DEF got, wanted
  <1>2. ASSUME NEW s, IsList(s), NEW x
        PROVE  /\ \A i \in Places(x, s) : Rank(s, i) \in 1 .. Count(x, s)
               /\ \A k \in 1 .. Count(x, s) : \E i \in Places(x, s) : Rank(s, i) = k
               /\ \A i, j \in Places(x, s) : Rank(s, i) = Rank(s, j) => i = j
    <2>1. Len(s) \in Nat /\ Places(x, s) \in SUBSET (1 .. Len(s)) /\ Cardinality(Places(x, s)) = Count(x, s)
      BY <1>2, PlacesAreCounted DEF Places, IsList
    <2> DEFINE n == Len(s)
               S == Places(x, s)
    <2>2. \A i \in S : s[i] = x
      BY DEF Places
    <2> HIDE DEF n, S
    <2>3. /\ \A i \in S : Cardinality({j \in S : j <= i}) \in 1 .. Cardinality(S)
          /\ \A k \in 1 .. Cardinality(S) : \E i \in S : Cardinality({j \in S : j <= i}) = k
          /\ \A i, j \in S : Cardinality({l \in S : l <= i}) = Cardinality({l \in S : l <= j}) => i = j
      BY <2>1, RanksAreNumbers, ZenonT(60) DEF n, S
    <2>4. \A i \in S : Rank(s, i) = Cardinality({j \in S : j <= i})
      BY <2>2 DEF S
    <2> HIDE DEF Rank
    <2>5. Count(x, s) = Cardinality(S)
      BY <2>1 DEF S
    <2> QED  BY <2>3, <2>4, <2>5, ZenonT(60) DEF S
  <1>3. ASSUME NEW k \in DOMAIN expected
        PROVE  MatchedCalls(expected, calls, k) =
                 {i \in Places(wanted[k], got) : Rank(got, i) = Rank(wanted, k)}
    <2>1. Count(wanted[k], SubSeq(wanted, 1, k)) = Rank(wanted, k)
      <3>1. PICK S : wanted \in Seq(S)
        BY <1>a
      <3>2. k \in DOMAIN wanted
        BY <1>1
      <3> QED  BY <3>1, <3>2, PrefixesRank
    <2>2. \A i \in Places(wanted[k], got) : Count(wanted[k], SubSeq(got, 1, i)) = Rank(got, i)
      <3>1. PICK S : got \in Seq(S)
        BY <1>a
      <3>2. ASSUME NEW i \in Places(wanted[k], got)
            PROVE  i \in DOMAIN got /\ got[i] = wanted[k]
        BY DEF Places
      <3> QED  BY <3>1, <3>2, PrefixesRank
    <2> HIDE DEF Rank
    <2>3. MatchedCalls(expected, calls, k) =
            {i \in DOMAIN calls : /\ calls[i].name = expected[k].name
                                 /\ Count(expected[k].name, SubSeq(got, 1, i)) =
                                      Count(expected[k].name, SubSeq(wanted, 1, k))}
      BY DEF MatchedCalls, got, wanted
    <2> QED  BY <1>1, <2>1, <2>2, <2>3 DEF Places
  <1> HIDE DEF Rank
  <1>4. ASSUME NEW k \in DOMAIN expected
        PROVE  \E i \in Places(wanted[k], got) : MatchedCalls(expected, calls, k) = {i} /\ Rank(got, i) = Rank(wanted, k)
    <2>1. k \in Places(wanted[k], wanted)
      BY <1>1 DEF Places
    <2>2. Rank(wanted, k) \in 1 .. Count(wanted[k], wanted)
      BY <1>1, <1>2, <2>1
    <2>3. Count(wanted[k], got) = Count(wanted[k], wanted)
      BY DEF got, wanted
    <2>4. PICK i \in Places(wanted[k], got) : Rank(got, i) = Rank(wanted, k)
      BY <1>1, <1>2, <2>2, <2>3
    <2>5. \A j \in Places(wanted[k], got) : Rank(got, j) = Rank(got, i) => j = i
      BY <1>1, <1>2
    <2> QED  BY <1>3, <2>4, <2>5
  <1>5. \A k \in DOMAIN expected :
          \E i \in DOMAIN calls : MatchedCalls(expected, calls, k) = {i} /\ calls[i].name = expected[k].name
    BY <1>1, <1>4 DEF Places
  <1>6. ASSUME NEW k \in DOMAIN expected, NEW l \in DOMAIN expected,
               MatchedCalls(expected, calls, k) = MatchedCalls(expected, calls, l)
        PROVE  k = l
    <2>1. PICK i \in Places(wanted[k], got) : MatchedCalls(expected, calls, k) = {i} /\ Rank(got, i) = Rank(wanted, k)
      BY <1>4
    <2>2. i \in Places(wanted[l], got) /\ Rank(got, i) = Rank(wanted, l)
      BY <1>4, <1>6, <2>1
    <2>3. wanted[k] = wanted[l]
      BY <2>1, <2>2 DEF Places
    <2>4. k \in Places(wanted[k], wanted) /\ l \in Places(wanted[k], wanted) /\ Rank(wanted, k) = Rank(wanted, l)
      BY <1>1, <2>1, <2>2, <2>3 DEF Places
    <2> QED  BY <1>1, <1>2, <2>4
  <1> QED  BY <1>5, <1>6

(* The first call of a tool, 0 where it was not called.                    *)
LEMMA FirstIndexIsFirst ==
  ASSUME NEW calls, IsList(calls), NEW name
  PROVE  /\ FirstIndex(name, calls) \in 0 .. Len(calls)
         /\ FirstIndex(name, calls) = 0 <=> \A i \in DOMAIN calls : calls[i].name # name
         /\ FirstIndex(name, calls) # 0 =>
              /\ calls[FirstIndex(name, calls)].name = name
              /\ \A i \in DOMAIN calls : calls[i].name = name => FirstIndex(name, calls) <= i
  <1> DEFINE n == Len(calls)
             I == {i \in 1 .. n : calls[i].name = name}
  <1>1. n \in Nat /\ DOMAIN calls = 1 .. n
    BY DEF IsList
  <1>2. IsList(Names(calls)) /\ Len(Names(calls)) = n /\ \A i \in 1 .. n : Names(calls)[i] = calls[i].name
    <2>1. IsList(Names(calls)) /\ Len(Names(calls)) = n
      BY NamesAreAList
    <2> QED  BY <1>1, <2>1 DEF Names
  <1>3. FirstIndex(name, calls) = IF I # {} THEN Min(I) ELSE 0
    <2>1. {i \in 1 .. Len(Names(calls)) : Names(calls)[i] = name} = I
      BY <1>2
    <2> HIDE DEF I
    <2> QED  BY <2>1 DEF FirstIndex, SelectInSeq
  <1> HIDE DEF n
  <1>4. ASSUME I # {}
        PROVE  Min(I) \in I /\ \A i \in I : Min(I) <= i
    <2>1. I \in SUBSET Nat
      BY <1>1
    <2> HIDE DEF I
    <2>2. \E m \in I : \A i \in I : m <= i
      BY <1>4, <2>1, LeastNatural
    <2> QED  BY <2>2 DEF Min
  <1>5. CASE I = {}
    BY <1>1, <1>3, <1>5 DEF n
  <1>6. CASE I # {}
    <2> DEFINE f == Min(I)
    <2>1. f \in 1 .. n /\ calls[f].name = name /\ \A i \in 1 .. n : calls[i].name = name => f <= i
      BY <1>4, <1>6
    <2>2. FirstIndex(name, calls) = f
      BY <1>3, <1>6
    <2> HIDE DEF f, I
    <2> QED  BY <1>1, <2>1, <2>2 DEF n
  <1> QED  BY <1>5, <1>6

(* The order has full credit exactly when every tool was called, and first *)
(* called before the tool expected after it.                               *)
LEMMA OrderIsKept ==
  ASSUME NEW expected, IsList(expected), NEW calls
  PROVE  /\ OrderCredit(expected, calls) \in 0 .. One
         /\ OrderCredit(expected, calls) = One <=>
              \A k \in 1 .. (Len(expected) - 1) :
                /\ FirstIndex(expected[k].name, calls) # 0 /\ FirstIndex(expected[k + 1].name, calls) # 0
                /\ FirstIndex(expected[k].name, calls) < FirstIndex(expected[k + 1].name, calls)
  <1> DEFINE m == Len(expected)
             InOrder(k) == LET a == FirstIndex(expected[k].name, calls)
                               b == FirstIndex(expected[k + 1].name, calls)
                           IN a # 0 /\ b # 0 /\ a < b
             pairs == 1 .. (m - 1)
             good == {k \in pairs : InOrder(k)}
  <1>1. m \in Nat
    BY DEF IsList
  <1>2. OrderCredit(expected, calls) = IF m < 2 THEN One ELSE Ratio(Cardinality(good), Cardinality(pairs))
    BY DEF OrderCredit
  <1>3. good = pairs <=> \A k \in pairs : InOrder(k)
    OBVIOUS
  <1> HIDE DEF InOrder, m
  <1>4. CASE m < 2
    <2>1. pairs = {}
      BY <1>1, <1>4
    <2> HIDE DEF pairs
    <2>2. \A k \in pairs : InOrder(k)
      BY <2>1
    <2> QED  BY <1>2, <1>4, <2>2 DEF One, pairs, InOrder, m
  <1>5. CASE ~(m < 2)
    <2>1. IsFiniteSet(pairs) /\ Cardinality(pairs) = m - 1
      <3>1. m - 1 \in Int /\ 1 <= m - 1
        BY <1>1, <1>5
      <3> DEFINE q == m - 1
      <3> HIDE DEF q
      <3>2. q \in Int /\ 1 <= q => IsFiniteSet(1 .. q) /\ Cardinality(1 .. q) = q
        BY FS_Interval
      <3> QED  BY <3>1, <3>2 DEF q
    <2>2. good \in SUBSET pairs
      OBVIOUS
    <2> HIDE DEF good, pairs
    <2>3. IsFiniteSet(good) /\ Cardinality(good) <= Cardinality(pairs)
          /\ (Cardinality(good) = Cardinality(pairs) <=> good = pairs)
      BY <2>1, <2>2, FS_Subset
    <2>4. Cardinality(good) \in Nat /\ Cardinality(pairs) \in Nat \ {0}
      BY <1>1, <1>5, <2>1, <2>3, FS_CardinalityType
    <2>5. /\ Ratio(Cardinality(good), Cardinality(pairs)) \in 0 .. One
          /\ Ratio(Cardinality(good), Cardinality(pairs)) = One <=> good = pairs
      BY <2>3, <2>4, RatioIsAFraction
    <2>6. /\ OrderCredit(expected, calls) \in 0 .. One
          /\ OrderCredit(expected, calls) = One <=> \A k \in pairs : InOrder(k)
      BY <1>2, <1>3, <1>5, <2>5
    <2> QED  BY <2>6 DEF pairs, InOrder, m
  <1> QED  BY <1>4, <1>5

(* Numbers that rise and leave no room are the identity.                   *)
LEMMA RisingIsIdentity ==
  ASSUME NEW m \in Nat, NEW a \in [1 .. m -> 1 .. m], \A k \in 1 .. (m - 1) : a[k] < a[k + 1]
  PROVE  \A k \in 1 .. m : a[k] = k
  <1> DEFINE Low == {k \in 1 .. m : a[k] < k}
             High == {j \in 0 .. (m - 1) : a[m - j] > m - j}
  <1>1. Low = {}
    <2> SUFFICES ASSUME Low # {}  PROVE FALSE
      OBVIOUS
    <2>1. PICK k \in Low : \A j \in Low : k <= j
      <3>1. Low \in SUBSET Nat
        OBVIOUS
      <3> HIDE DEF Low
      <3> QED  BY <3>1, LeastNatural
    <2>2. k \in 1 .. m /\ a[k] < k /\ a[k] \in 1 .. m
      BY <2>1
    <2>3. k - 1 \in 1 .. (m - 1) /\ k - 1 \notin Low
      BY <2>1, <2>2
    <2>4. a[k - 1] < a[k] /\ a[k - 1] \in 1 .. m /\ ~(a[k - 1] < k - 1)
      <3>1. (k - 1) + 1 = k /\ k - 1 \in 1 .. m
        BY <2>2, <2>3
      <3>2. a[k - 1] < a[(k - 1) + 1]
        BY <2>3
      <3> QED  BY <2>3, <3>1, <3>2
    <2> QED  BY <2>2, <2>4, SMTT(60)
  <1>2. High = {}
    <2> SUFFICES ASSUME High # {}  PROVE FALSE
      OBVIOUS
    <2>1. PICK j \in High : \A i \in High : j <= i
      <3>1. High \in SUBSET Nat
        OBVIOUS
      <3> HIDE DEF High
      <3> QED  BY <3>1, LeastNatural
    <2> DEFINE k == m - j
    <2>2. j \in 0 .. (m - 1) /\ k \in 1 .. m /\ a[k] > k /\ a[k] \in 1 .. m
      BY <2>1
    <2>3. j # 0 /\ k \in 1 .. (m - 1) /\ k + 1 \in 1 .. m
      <3>1. k # m
        <4> HIDE DEF k
        <4> QED  BY <2>2
      <3>2. j # 0
        BY <3>1
      <3>3. k \in 1 .. (m - 1) /\ k + 1 \in 1 .. m
        <4> HIDE DEF k
        <4> QED  BY <2>2, <3>1
      <3> QED  BY <3>2, <3>3
    <2>4. j - 1 \notin High /\ j - 1 \in 0 .. (m - 1) /\ m - (j - 1) = k + 1
      <3>1. j \in 0 .. (m - 1) /\ j # 0
        <4> HIDE DEF k
        <4> QED  BY <2>2, <2>3
      <3>2. j - 1 \in 0 .. (m - 1) /\ ~(j <= j - 1) /\ m - (j - 1) = (m - j) + 1
        BY <3>1
      <3>3. j - 1 \notin High
        <4> HIDE DEF High
        <4> QED  BY <2>1, <3>2
      <3> QED  BY <3>2, <3>3 DEF k
    <2>5. ~(a[k + 1] > k + 1) /\ a[k + 1] \in 1 .. m /\ a[k] < a[k + 1]
      BY <2>3, <2>4
    <2> HIDE DEF k
    <2> QED  BY <2>2, <2>5, SMTT(60)
  <1>3. ASSUME NEW k \in 1 .. m
        PROVE  ~(a[k] > k)
    <2>1. m - k \in 0 .. (m - 1) /\ m - (m - k) = k
      OBVIOUS
    <2> QED  BY <1>2, <2>1
  <1>4. ASSUME NEW k \in 1 .. m
        PROVE  ~(a[k] < k)
    BY <1>1
  <1> QED  BY <1>3, <1>4

LEMMA ScaledIsAFraction ==
  ASSUME NEW x \in 0 .. One, NEW factor \in 0 .. One
  PROVE  Scaled(x, factor) \in 0 .. One /\ (Scaled(x, factor) = One <=> x = One /\ factor = One)
  <1>1. x \in 0 .. 1000 /\ factor \in 0 .. 1000 /\ Scaled(x, factor) = (x * factor) \div 1000
    BY DEF One, Scaled
  <1>2. x * factor \in Nat /\ x * factor <= x * 1000 /\ x * factor <= 1000 * factor
    BY <1>1
  <1>3. x * factor >= 1000 * 1000 <=> x = 1000 /\ factor = 1000
    BY <1>1, <1>2, SMTT(60)
  <1> DEFINE y == x * factor
  <1>4. y \in Nat /\ y <= 1000000
    <2>1. 1000 * factor <= 1000000
      BY <1>1
    <2>2. y \in Nat /\ y <= 1000 * factor
      BY <1>2
    <2> HIDE DEF y
    <2> QED  BY <1>1, <2>1, <2>2
  <1> HIDE DEF y
  <1>5. y \div 1000 \in 0 .. 1000 /\ (y \div 1000 = 1000 <=> y >= 1000 * 1000)
    <2> DEFINE q == y \div 1000
    <2>1. q \in Int /\ 1000 * q <= y /\ y < 1000 * q + 1000
      BY <1>4
    <2> HIDE DEF q
    <2>2. q \in 0 .. 1000 /\ (q = 1000 <=> y >= 1000 * 1000)
      BY <1>4, <2>1
    <2> QED  BY <2>2 DEF q
  <1> QED  BY <1>1, <1>3, <1>5 DEF y, One

(* A trajectory has full marks exactly when nothing is taken off by any of *)
(* the four things the scorer looks at: names, arguments, order, extras.   *)
LEMMA FullScore ==
  ASSUME NEW c, ToolCaseTyped(c), c.expected # <<>>, ~c.fuzzy, ~c.allowExtra,
         NEW calls, IsList(calls), NEW strict \in BOOLEAN
  PROVE  DeterministicToolScoreStrict(c, calls, strict) = One <=>
           /\ ~(strict /\ ForbiddenArgPresent(c.expected, calls))
           /\ \A n : Count(n, Names(calls)) = Count(n, Names(c.expected))
           /\ ArgCorrectness(c.expected, calls) = One
           /\ ~c.unordered => OrderCredit(c.expected, calls) = One
           /\ ExtraCallPenalty(c, calls, strict) = 0
  <1> DEFINE got == Names(calls)
             wanted == Names(c.expected)
             hits == SumFunction([n \in ToSet(wanted) |-> Least(Count(n, got), Count(n, wanted))])
             nameScore == F1(hits, Len(got), Len(wanted))
             argScore == ArgCorrectness(c.expected, calls)
             ordered == ~c.unordered /\ ~c.fuzzy
             order == IF ordered THEN OrderCredit(c.expected, calls) ELSE One
             penalty == ExtraCallPenalty(c, calls, strict)
             trajectory == Scaled(order, One - penalty)
             score == (4 * nameScore + 4 * argScore + 2 * trajectory) \div 10
             refused == \/ strict /\ ForbiddenArgPresent(c.expected, calls)
                        \/ hits = 0
                        \/ c.fuzzy /\ hits < Len(wanted)
                        \/ c.fuzzy /\ ~RequiredOutcomesSatisfied(c.expected, calls)
             named == \A n : Count(n, got) = Count(n, wanted)
  <1>1. IsList(got) /\ IsList(wanted) /\ Len(got) \in Nat /\ Len(wanted) \in Nat \ {0}
    <2>1. IsList(c.expected) /\ Len(c.expected) # 0
      <3>1. IsList(c.expected)
        BY DEF ToolCaseTyped
      <3>2. Len(c.expected) # 0
        BY DEF ToolCaseTyped
      <3> QED  BY <3>1, <3>2
    <2> QED  BY <2>1, NamesAreAList DEF IsList
  <1>2. /\ hits \in Nat /\ hits <= Len(got) /\ hits <= Len(wanted)
        /\ hits = Len(got) /\ hits = Len(wanted) <=> named
    BY <1>1, NamesAreHit
  <1>3. DeterministicToolScoreStrict(c, calls, strict) =
          CASE refused -> 0
            [] ~refused /\ strict /\ ordered -> Scaled(score, order)
            [] OTHER -> score
    BY DEF DeterministicToolScoreStrict
  <1> HIDE DEF hits, got, wanted, named
  <1>4. nameScore \in 0 .. One /\ (nameScore = One <=> named)
    BY <1>1, <1>2, F1IsAFraction
  <1>5. argScore \in 0 .. One
    BY ArgumentsAreRight
  <1>6. order \in 0 .. One /\ (order = One <=> (~c.unordered => OrderCredit(c.expected, calls) = One))
    <2>1. IsList(c.expected)
      BY DEF ToolCaseTyped
    <2>2. OrderCredit(c.expected, calls) \in 0 .. One
      BY <2>1, OrderIsKept
    <2> HIDE DEF wanted
    <2>3. CASE c.unordered
      BY <2>3 DEF One
    <2>4. CASE ~c.unordered
      BY <2>2, <2>4
    <2> QED  BY <2>3, <2>4
  <1>7. penalty \in 0 .. One
    BY PenaltyIsAFraction
  <1> HIDE DEF order, penalty, nameScore, argScore
  <1>8. trajectory \in 0 .. One /\ (trajectory = One <=> order = One /\ penalty = 0)
    <2>1. One - penalty \in 0 .. One /\ (One - penalty = One <=> penalty = 0)
      BY <1>7 DEF One
    <2> QED  BY <1>6, <2>1, ScaledIsAFraction
  <1> HIDE DEF trajectory
  <1>9. score \in 0 .. One /\ (score = One <=> nameScore = One /\ argScore = One /\ trajectory = One)
    BY <1>4, <1>5, <1>8, SMTT(60) DEF One
  <1> HIDE DEF score
  <1>10. Scaled(score, order) = One <=> score = One /\ order = One
    BY <1>6, <1>9, ScaledIsAFraction
  <1>11. refused <=> (strict /\ ForbiddenArgPresent(c.expected, calls)) \/ hits = 0
    OBVIOUS
  <1>12. named => hits # 0
    BY <1>1, <1>2
  <1> HIDE DEF refused, ordered
  <1>13. DeterministicToolScoreStrict(c, calls, strict) = One <=>
           ~refused /\ named /\ argScore = One /\ order = One /\ penalty = 0
    <2>1. CASE refused
      BY <1>3, <2>1 DEF One
    <2>2. CASE ~refused
      <3>1. CASE strict /\ ordered
        BY <1>3, <1>4, <1>8, <1>9, <1>10, <2>2, <3>1
      <3>2. CASE ~(strict /\ ordered)
        BY <1>3, <1>4, <1>8, <1>9, <2>2, <3>2
      <3> QED  BY <3>1, <3>2
    <2> QED  BY <2>1, <2>2
  <1> QED  BY <1>6, <1>11, <1>12, <1>13 DEF named, argScore, penalty, got, wanted

(* Nothing is taken off for extra calls where there are none.              *)
LEMMA NoExtraCalls ==
  ASSUME NEW c, ToolCaseTyped(c), NEW calls, IsList(calls), NEW strict \in BOOLEAN,
         \A n : Count(n, Names(calls)) = Count(n, Names(c.expected)),
         ~(c.maxCalls > 0 /\ Len(calls) > c.maxCalls)
  PROVE  ExtraCallPenalty(c, calls, strict) = 0
  <1> DEFINE got == Names(calls)
             wanted == Names(c.expected)
             X == ToSet(got)
             beyond == [n \in X |-> Most(0, Count(n, got) - Count(n, wanted))]
             extras == SumFunction(beyond)
             over == IF c.maxCalls > 0 /\ Len(got) > c.maxCalls
                     THEN Ratio(Len(got) - c.maxCalls, c.maxCalls) ELSE 0
             penalty == Most(over, Ratio(extras, Len(wanted)))
  <1>1. ExtraCallPenalty(c, calls, strict) =
          IF c.allowExtra THEN 0 ELSE Least(One, IF strict THEN 2 * penalty ELSE penalty)
    BY DEF ExtraCallPenalty
  <1>2. IsList(got) /\ Len(got) = Len(calls) /\ IsList(wanted) /\ Len(wanted) \in Nat
    BY NamesAreAList DEF ToolCaseTyped, IsList
  <1>3. over = 0
    BY <1>2
  <1>4. \A n \in X : beyond[n] = 0
    <2>1. \A n : Most(0, Count(n, got) - Count(n, wanted)) = 0
      <3> HIDE DEF got, wanted
      <3>1. \A n : Count(n, got) \in Nat /\ Count(n, wanted) = Count(n, got)
        BY <1>2, CountIsNatural DEF got, wanted
      <3> QED  BY <3>1 DEF Most
    <2> QED  BY <2>1
  <1>5. IsFiniteSet(X) /\ DOMAIN beyond = X
    BY <1>2, ListRangeIsFinite
  <1> HIDE DEF beyond, X
  <1>6. SumFunctionOnSet(beyond, X) = 0
    <2>1. PICK it : SumFunctionOnSet(beyond, X) = it[X] /\ BuildsUp(it, beyond, X)
      BY <1>4, <1>5, SumFolds
    <2> DEFINE B == {s \in SUBSET X : it[s] # 0}
    <2>2. B = {}
      <3> SUFFICES ASSUME B # {}  PROVE FALSE
        OBVIOUS
      <3>1. PICK s \in B : \A x \in s : s \ {x} \notin B
        <4>1. B \in SUBSET (SUBSET X)
          OBVIOUS
        <4> HIDE DEF B
        <4> QED  BY <1>5, <4>1, SmallestSubset, ZenonT(60)
      <3>2. s \in SUBSET X /\ s # {} /\ it[s] # 0
        BY <2>1 DEF BuildsUp
      <3>3. Pick(s) \in s /\ it[s] = beyond[Pick(s)] + it[s \ {Pick(s)}]
        BY <2>1, <3>2 DEF BuildsUp, Pick
      <3>4. it[s \ {Pick(s)}] = 0 /\ beyond[Pick(s)] = 0
        BY <1>4, <3>1, <3>2, <3>3
      <3> QED  BY <3>2, <3>3, <3>4
    <2> QED  BY <2>1, <2>2
  <1>7. extras = 0
    BY <1>5, <1>6 DEF SumFunction
  <1>8. Ratio(0, Len(wanted)) = 0
    <2> DEFINE m == Len(wanted)
    <2>1. m \in Nat
      BY <1>2
    <2> HIDE DEF m
    <2>2. m # 0 => (0 * One) \div m = 0
      BY <2>1 DEF One
    <2>3. Ratio(0, m) = 0
      BY <2>1, <2>2 DEF Ratio
    <2> QED  BY <2>3 DEF m
  <1> HIDE DEF over, extras, wanted
  <1>9. penalty = 0
    BY <1>3, <1>7, <1>8 DEF Most
  <1> HIDE DEF penalty
  <1> QED  BY <1>1, <1>9 DEF Least, One

-----------------------------------------------------------------------------
(* Fractions *)

(* Weights only scale down, and the more the smaller they are.             *)
LEMMA ScaledGrows ==
  ASSUME NEW a \in Nat, NEW b \in Nat, NEW x \in Nat, NEW y \in Nat, a <= x, b <= y
  PROVE  Scaled(a, b) \in Nat /\ Scaled(x, y) \in Nat /\ Scaled(a, b) <= Scaled(x, y)
  <1> DEFINE p == a * b
             q == x * y
  <1>1. p \in Nat /\ q \in Nat /\ p <= q
    <2>1. a * b <= x * b /\ x * b <= x * y /\ a * b \in Nat /\ x * b \in Nat /\ x * y \in Nat
      BY ProductIsNatural
    <2> QED  BY <2>1
  <1>2. Scaled(a, b) = p \div 1000 /\ Scaled(x, y) = q \div 1000
    BY DEF Scaled, One
  <1> HIDE DEF p, q
  <1>3. p \div 1000 \in Nat /\ q \div 1000 \in Nat /\ p \div 1000 <= q \div 1000
    BY <1>1
  <1> QED  BY <1>2, <1>3

LEMMA FullWeightKeeps ==
  ASSUME NEW x \in Nat
  PROVE  Scaled(x, One) = x /\ Scaled(One, x) = x
  BY DEF Scaled, One

(* Values between two floors and one have a product between theirs and one. *)
LEMMA ProductIsBetween ==
  ASSUME NEW a \in 0 .. One, NEW b \in 0 .. One, NEW x \in a .. One, NEW y \in b .. One
  PROVE  /\ Scaled(a, b) \in 0 .. One /\ Scaled(x, y) \in 0 .. One
         /\ Scaled(x, y) \in Scaled(a, b) .. One
  <1>1. /\ a \in Nat /\ b \in Nat /\ x \in Nat /\ y \in Nat /\ a <= x /\ b <= y
        /\ x \in 0 .. One /\ y \in 0 .. One
    BY DEF One
  <1>2. Scaled(a, b) \in 0 .. One /\ Scaled(x, y) \in 0 .. One
    BY <1>1, ScaledIsAFraction
  <1>3. Scaled(a, b) <= Scaled(x, y)
    BY <1>1, ScaledGrows
  <1> QED  BY <1>2, <1>3, SMTT(60) DEF One

LEMMA Product3IsBetween ==
  ASSUME NEW a \in 0 .. One, NEW b \in 0 .. One, NEW c \in 0 .. One,
         NEW x \in a .. One, NEW y \in b .. One, NEW z \in c .. One
  PROVE  Product3(a, b, c) \in 0 .. One /\ Product3(x, y, z) \in Product3(a, b, c) .. One
  <1>1. Scaled(a, b) \in 0 .. One /\ Scaled(x, y) \in Scaled(a, b) .. One
    BY ProductIsBetween
  <1> QED  BY <1>1, ProductIsBetween DEF Product3

(* What is left after a penalty of at most some share is taken off.        *)
LEMMA TakenOff ==
  ASSUME NEW x \in 0 .. One, NEW most \in 0 .. One
  PROVE  /\ One - Scaled(x, most) \in (One - most) .. One /\ One - most \in 0 .. One
         /\ One - Scaled(x, most) \in 0 .. One
  <1>1. x \in Nat /\ most \in Nat /\ One \in Nat /\ x <= One /\ most <= most
    BY DEF One
  <1>2. Scaled(x, most) \in Nat /\ Scaled(x, most) <= Scaled(One, most) /\ Scaled(One, most) = most
    BY <1>1, ScaledGrows, FullWeightKeeps
  <1> QED  BY <1>1, <1>2, SMTT(60) DEF One

LEMMA ShareIsAFraction ==
  ASSUME NEW num \in Nat, NEW denom \in Nat, num <= denom
  PROVE  Ratio(num, denom) \in 0 .. One
  <1>1. CASE denom = 0
    BY <1>1 DEF Ratio, One
  <1>2. CASE denom # 0
    <2>1. denom \in Nat \ {0}
      BY <1>2
    <2> QED  BY <2>1, RatioIsAFraction
  <1> QED  BY <1>1, <1>2

LEMMA PartIsAFraction ==
  ASSUME NEW T, IsFiniteSet(T), NEW P \in SUBSET T
  PROVE  Ratio(Cardinality(P), Cardinality(T)) \in 0 .. One
  <1>1. /\ Cardinality(P) \in Nat /\ Cardinality(T) \in Nat
        /\ Cardinality(P) <= Cardinality(T)
    BY FS_Subset, FS_CardinalityType
  <1> QED  BY <1>1, ShareIsAFraction

(* The mean of some fractions is one.                                      *)
LEMMA MeanIsAFraction ==
  ASSUME NEW S, IsFiniteSet(S), S # {}, NEW g, DOMAIN g = S, \A x \in S : g[x] \in 0 .. One
  PROVE  SumFunction(g) \div Cardinality(S) \in 0 .. One
  <1> DEFINE n == Cardinality(S)
  <1>1. \A x \in S : g[x] \in Nat /\ g[x] <= 1000
    BY SMTT(60) DEF One
  <1>2. PICK a : SumFunctionOnSet(g, S) = a[S] /\ BuildsUp(a, g, S)
    BY <1>1, SumFolds
  <1> DEFINE Good(s) == a[s] \in Nat /\ a[s] <= 1000 * Cardinality(s)
             B == {s \in SUBSET S : ~Good(s)}
  <1>3. B = {}
    <2> SUFFICES ASSUME B # {}  PROVE FALSE
      OBVIOUS
    <2>1. PICK s \in B : \A x \in s : s \ {x} \notin B
      <3>1. B \in SUBSET (SUBSET S)
        OBVIOUS
      <3> HIDE DEF B
      <3> QED  BY <3>1, SmallestSubset, ZenonT(60)
    <2>2. s # {}
      <3>1. a[{}] = 0 /\ Cardinality({}) = 0
        BY <1>2, FS_EmptySet, ZenonT(60) DEF BuildsUp
      <3>2. s \in B => ~Good(s)
        OBVIOUS
      <3>3. Good({})
        BY <3>1
      <3> HIDE DEF Good, B
      <3> QED  BY <2>1, <3>2, <3>3
    <2> DEFINE p == Pick(s)
               t == s \ {p}
    <2>3. p \in s /\ t \in SUBSET S /\ s \in SUBSET S /\ p \in S
      BY <2>2 DEF Pick
    <2>4. Good(t)
      BY <2>1, <2>3
    <2>5. a[s] = g[p] + a[t]
      BY <1>2, <2>2, <2>3, ZenonT(60) DEF BuildsUp
    <2>6. IsFiniteSet(s) /\ Cardinality(s) \in Nat /\ Cardinality(t) = Cardinality(s) - 1
      BY <2>3, FS_Subset, FS_CardinalityType, FS_RemoveElement, SMTT(60)
    <2>7. g[p] \in Nat /\ g[p] <= 1000
      BY <1>1, <2>3
    <2> HIDE DEF p, t
    <2>8. Good(s)
      BY <2>4, <2>5, <2>6, <2>7
    <2> QED  BY <2>1, <2>8
  <1>4. Good(S)
    BY <1>3
  <1>5. n \in Nat \ {0}
    BY FS_CardinalityType, FS_EmptySet
  <1> DEFINE sum == SumFunction(g)
  <1>6. sum \in Nat /\ sum <= 1000 * n
    BY <1>2, <1>4 DEF SumFunction
  <1> HIDE DEF sum, n
  <1> DEFINE q == sum \div n
  <1>7. q \in Int /\ n * q <= sum /\ sum < n * q + n
    BY <1>5, <1>6
  <1> HIDE DEF q
  <1>8. q >= 0
    <2> SUFFICES ASSUME q <= -1  PROVE FALSE
      BY <1>7
    <2>1. n * q <= -n
      BY <1>5, <1>7
    <2> QED  BY <1>5, <1>6, <1>7, <2>1
  <1>9. q <= 1000
    <2> SUFFICES ASSUME q >= 1001  PROVE FALSE
      BY <1>7
    <2>1. n * q >= n * 1001
      BY <1>5, <1>7
    <2> QED  BY <1>5, <1>6, <1>7, <2>1
  <1> QED  BY <1>7, <1>8, <1>9, SMTT(60) DEF One, q, sum, n

-----------------------------------------------------------------------------
(* Scores that are fractions *)

(* A case score whose number is a fraction, and a run of such scores.      *)
IsScored(row) == row.score \in 0 .. One /\ IsList(row.called) /\ IsList(row.expected)
IsScoredRun(rows) == IsList(rows) /\ \A i \in DOMAIN rows : IsScored(rows[i])

LEMMA RowsAreFinite ==
  ASSUME NEW rows, IsScoredRun(rows)
  PROVE  IsFiniteSet(Rows(rows)) /\ \A S \in SUBSET Rows(rows) : IsFiniteSet(S) /\ Cardinality(S) \in Nat
  <1>1. IsFiniteSet(Rows(rows))
    BY FS_Interval DEF IsScoredRun, IsList, Rows
  <1> QED  BY <1>1, FS_Subset, FS_CardinalityType

(* The groups of a run are no more than its rows.                          *)
LEMMA TwinsAreFinite ==
  ASSUME NEW rows, IsScoredRun(rows)
  PROVE  IsFiniteSet({rows[i].twin : i \in Rows(rows)})
  <1> DEFINE T == {rows[i].twin : i \in Rows(rows)}
             g == [i \in Rows(rows) |-> rows[i].twin]
  <1>1. IsFiniteSet(Rows(rows))
    BY RowsAreFinite
  <1>2. g \in Surjection(Rows(rows), T)
    BY DEF Surjection
  <1> HIDE DEF g, T
  <1>3. IsFiniteSet(T)
    BY <1>1, <1>2, FS_Surjection
  <1> QED  BY <1>3 DEF T

LEMMA EfficiencyIsAFraction ==
  ASSUME NEW expected \in Nat, NEW actual \in Nat, NEW p \in {V7.efficiency, LegacyEff}
  PROVE  OvershootEfficiency(expected, actual, p) \in 0 .. One
  <1> DEFINE over == actual - expected - p.free
             gap == p.full - p.free
             r == Ratio(over, gap)
             reach == Least(One, r)
  <1>1. p.free \in Nat /\ gap \in Int /\ p.maxPenalty \in 0 .. One
    BY DEF V7, LegacyEff, One
  <1>2. OvershootEfficiency(expected, actual, p) = IF over <= 0 THEN One ELSE One - Scaled(reach, p.maxPenalty)
    BY DEF OvershootEfficiency
  <1>3. CASE over <= 0
    BY <1>2, <1>3 DEF One
  <1>4. CASE ~(over <= 0)
    <2>1. over \in Nat
      BY <1>1, <1>4
    <2> HIDE DEF over, gap
    <2>2. r \in Nat
      BY <1>1, <2>1, RatioIsNatural
    <2> HIDE DEF r
    <2>3. reach \in 0 .. One
      BY <2>2 DEF Least, One
    <2> HIDE DEF reach
    <2>4. One - Scaled(reach, p.maxPenalty) \in 0 .. One
      BY <1>1, <2>3, TakenOff
    <2> QED  BY <1>2, <1>4, <2>4
  <1> QED  BY <1>3, <1>4

LEMMA ToolEfficiencyIsAFraction ==
  ASSUME NEW rows, IsScoredRun(rows), NEW version \in Nat
  PROVE  ToolEfficiencyFactor(rows, version) \in 0 .. One
  <1> DEFINE p == IF version >= 7 THEN V7.efficiency ELSE LegacyEff
             counted == {i \in Rows(rows) :
                           LET cs == rows[i] IN
                           /\ cs.kind = "tool" /\ cs.observed
                           /\ ~AllMemory(cs.expected) /\ ~cs.allowExtra
                           /\ cs.expected # <<>> /\ cs.score >= p.gate}
             g == [i \in counted |-> OvershootEfficiency(Len(rows[i].expected), Len(rows[i].called), p)]
  <1>1. ToolEfficiencyFactor(rows, version) =
          IF counted = {} THEN One ELSE SumFunction(g) \div Cardinality(counted)
    BY DEF ToolEfficiencyFactor, MeanOver
  <1>2. counted \in SUBSET Rows(rows)
    OBVIOUS
  <1>3. \A i \in Rows(rows) : Len(rows[i].expected) \in Nat /\ Len(rows[i].called) \in Nat
    BY DEF IsScoredRun, IsScored, IsList, Rows
  <1>4. p \in {V7.efficiency, LegacyEff}
    OBVIOUS
  <1> HIDE DEF counted, p
  <1>5. DOMAIN g = counted /\ \A i \in counted : g[i] \in 0 .. One
    BY <1>2, <1>3, <1>4, EfficiencyIsAFraction
  <1> HIDE DEF g
  <1>6. counted # {} => SumFunction(g) \div Cardinality(counted) \in 0 .. One
    BY <1>2, <1>5, RowsAreFinite, MeanIsAFraction
  <1> QED  BY <1>1, <1>6 DEF One

LEMMA OverCallIsBetween ==
  ASSUME NEW rows, IsScoredRun(rows), NEW most \in 0 .. One
  PROVE  MemoryOverCallFactor(rows, most) \in 0 .. One
  <1> DEFINE watched == {i \in Rows(rows) : /\ rows[i].kind = "memory" /\ rows[i].observed
                                           /\ rows[i].category # "lifecycle_write"}
             over == {i \in watched : ToSet(rows[i].called) \ MemoryTools # {}}
             r == Ratio(Cardinality(over), Cardinality(watched))
  <1>1. MemoryOverCallFactor(rows, most) = One - Scaled(r, most)
    BY DEF MemoryOverCallFactor
  <1>2. watched \in SUBSET Rows(rows) /\ over \in SUBSET watched
    OBVIOUS
  <1> HIDE DEF watched, over
  <1>3. r \in 0 .. One
    BY <1>2, RowsAreFinite, PartIsAFraction
  <1> HIDE DEF r
  <1> QED  BY <1>1, <1>3, TakenOff

LEMMA MetamorphicIsBetween ==
  ASSUME NEW rows, IsScoredRun(rows), NEW most \in 0 .. One
  PROVE  MetamorphicFactor(rows, most) \in 0 .. One
  <1> DEFINE Verdicts(twin) == {rows[i].correct : i \in {j \in Rows(rows) : rows[j].twin = twin}}
             families == Families(rows)
             agreeing == {twin \in families : Cardinality(Verdicts(twin)) = 1}
             rate == MetamorphicConsistency(rows)
  <1>1. rate = IF families = {} THEN None ELSE Ratio(Cardinality(agreeing), Cardinality(families))
    BY DEF MetamorphicConsistency
  <1>2. families \in SUBSET {rows[i].twin : i \in Rows(rows)} /\ agreeing \in SUBSET families
    BY DEF Families
  <1>3. IsFiniteSet(families)
    <2> DEFINE T == {rows[i].twin : i \in Rows(rows)}
    <2>1. IsFiniteSet(T) /\ families \in SUBSET T
      BY <1>2, TwinsAreFinite
    <2> HIDE DEF T, families
    <2> QED  BY <2>1, FS_Subset
  <1> HIDE DEF families, agreeing
  <1>4. Ratio(Cardinality(agreeing), Cardinality(families)) \in 0 .. One
    BY <1>2, <1>3, PartIsAFraction
  <1>5. rate = None \/ rate \in 0 .. One
    BY <1>1, <1>4
  <1>6. MetamorphicFactor(rows, most) = IF rate = None THEN One ELSE One - Scaled(One - rate, most)
    BY DEF MetamorphicFactor
  <1> HIDE DEF rate
  <1>7. CASE rate = None
    BY <1>6, <1>7 DEF One
  <1>8. CASE rate # None /\ rate \in 0 .. One
    <2>1. One - rate \in 0 .. One
      BY <1>8 DEF One
    <2>2. One - Scaled(One - rate, most) \in 0 .. One
      BY <2>1, TakenOff
    <2> QED  BY <1>6, <1>8, <2>2
  <1> QED  BY <1>5, <1>7, <1>8

(* What happened in a run sets the floor of a factor that answers for it.  *)
Floor(happened, least) == IF happened THEN least ELSE One
Leaked(rows) == \E i \in DOMAIN rows : rows[i].leak
Talked(rows) == \E i \in DOMAIN rows : rows[i].category \in ConversationalSlices
Audited(rows) == \E i \in DOMAIN rows : rows[i].half # ""

LEMMA CanaryIsBetween ==
  ASSUME NEW rows, NEW leak \in 0 .. One
  PROVE  CanaryFactor(rows, leak) \in Floor(Leaked(rows), leak) .. One
  <1> DEFINE charged == \E i \in Rows(rows) : /\ rows[i].kind = "memory" /\ IsCanary(rows[i])
                                             /\ 2 * rows[i].score < One /\ rows[i].leak
  <1>1. CanaryFactor(rows, leak) = IF charged THEN leak ELSE One
    BY DEF CanaryFactor
  <1>2. charged => Leaked(rows)
    BY DEF Leaked, Rows
  <1> HIDE DEF charged
  <1> QED  BY <1>1, <1>2 DEF Floor, One

(* A slice that ran has a fraction of its questions right.                 *)
LEMMA SlicesAreFractions ==
  ASSUME NEW rows, IsScoredRun(rows), NEW category
  PROVE  /\ SliceMean(rows, category) = None \/ SliceMean(rows, category) \in 0 .. One
         /\ SliceMean(rows, category) # None => \E i \in DOMAIN rows : rows[i].category = category
  <1> DEFINE slice == {i \in Rows(rows) : rows[i].kind = "memory" /\ rows[i].category = category}
             right == {i \in slice : rows[i].correct}
  <1>1. SliceMean(rows, category) = IF slice = {} THEN None ELSE Ratio(Cardinality(right), Cardinality(slice))
    BY DEF SliceMean
  <1>2. slice \in SUBSET Rows(rows) /\ right \in SUBSET slice
    OBVIOUS
  <1>3. slice # {} => \E i \in DOMAIN rows : rows[i].category = category
    BY DEF Rows
  <1> HIDE DEF slice, right
  <1>4. Ratio(Cardinality(right), Cardinality(slice)) \in 0 .. One
    BY <1>2, RowsAreFinite, PartIsAFraction
  <1> QED  BY <1>1, <1>3, <1>4

LEMMA RootIsAFraction ==
  ASSUME NEW n \in 1 .. 3, NEW p \in Nat
  PROVE  FloorRoot[n][p] \in 0 .. One
  <1> DEFINE Power(r) == CASE n = 1 -> r [] n = 2 -> r * r [] n = 3 -> r * r * r
             Roots == {k \in 0 .. One : Power(One - k) <= p}
  <1>1. FloorRoot[n][p] = CHOOSE r \in 0 .. One : Power(r) <= p /\ \A s \in (r + 1) .. One : Power(s) > p
    BY DEF FloorRoot
  <1>2. Power(0) = 0
    OBVIOUS
  <1>3. ASSUME NEW r \in 0 .. One
        PROVE  Power(r) \in Nat
    <2> DEFINE square == r * r
               cube == square * r
    <2>1. r \in Nat
      BY DEF One
    <2>2. square \in Nat
      BY <2>1, ProductIsNatural
    <2> HIDE DEF square
    <2>3. cube \in Nat
      BY <2>1, <2>2, ProductIsNatural
    <2>4. Power(r) = CASE n = 1 -> r [] n = 2 -> square [] n = 3 -> cube
      BY DEF square
    <2> HIDE DEF cube, Power
    <2>5. n = 1 \/ n = 2 \/ n = 3
      OBVIOUS
    <2> QED  BY <2>1, <2>2, <2>3, <2>4, <2>5
  <1> HIDE DEF Power
  <1>4. One \in Roots /\ Roots \in SUBSET Nat
    BY <1>2, SMTT(60) DEF One
  <1>5. PICK m \in Roots : \A k \in Roots : m <= k
    <2> HIDE DEF Roots
    <2> QED  BY <1>4, LeastNatural
  <1> DEFINE r == One - m
  <1>6. r \in 0 .. One /\ Power(r) <= p /\ m \in 0 .. One
    BY <1>5 DEF One
  <1>7. ASSUME NEW s \in (r + 1) .. One
        PROVE  Power(s) > p
    <2>1. One - s \in 0 .. One /\ One - (One - s) = s /\ ~(m <= One - s) /\ s \in 0 .. One
      BY <1>6 DEF One
    <2>2. One - s \notin Roots
      BY <1>5, <2>1
    <2>3. ~(Power(s) <= p)
      BY <2>1, <2>2
    <2> QED  BY <1>3, <2>1, <2>3
  <1> HIDE DEF r
  <1> QED  BY <1>1, <1>6, <1>7

-----------------------------------------------------------------------------
(* The factors of the gate *)

LEMMA SlicesAreThree ==
  ASSUME NEW ran \in SUBSET ConversationalSlices, ran # {}
  PROVE  Cardinality(ran) \in 1 .. 3
  <1> DEFINE a == {"chitchat"}
             b == a \cup {"declarative_ack"}
             d == b \cup {"declarative_behavior"}
  <1>1. IsFiniteSet(a) /\ Cardinality(a) = 1
    BY FS_Singleton
  <1>2. IsFiniteSet(b) /\ Cardinality(b) = 2
    <2>1. "declarative_ack" \notin a
      OBVIOUS
    <2> HIDE DEF a
    <2> QED  BY <1>1, <2>1, FS_AddElement
  <1>3. IsFiniteSet(d) /\ Cardinality(d) = 3
    <2>1. "declarative_behavior" \notin b
      OBVIOUS
    <2> HIDE DEF b
    <2> QED  BY <1>2, <2>1, FS_AddElement
  <1>4. ran \in SUBSET d
    BY DEF ConversationalSlices
  <1> HIDE DEF d
  <1>5. IsFiniteSet(ran) /\ Cardinality(ran) <= 3
    BY <1>3, <1>4, FS_Subset
  <1>6. Cardinality(ran) \in Nat /\ Cardinality(ran) # 0
    BY <1>5, FS_CardinalityType, FS_EmptySet
  <1> QED  BY <1>5, <1>6

LEMMA SanityIsAFraction ==
  ASSUME NEW rows, IsScoredRun(rows)
  PROVE  /\ ConversationalSanity(rows) = None \/ ConversationalSanity(rows) \in 0 .. One
         /\ ConversationalSanity(rows) # None => Talked(rows)
  <1> DEFINE ran == {s \in ConversationalSlices : SliceMean(rows, s) # None}
             Part(s) == IF s \in ran THEN SliceMean(rows, s) ELSE 1
             product == Part("chitchat") * Part("declarative_ack") * Part("declarative_behavior")
             sanity == ConversationalSanity(rows)
  <1>1. sanity = CASE ran = {} -> None
                   [] ran # {} /\ product = 0 -> 0
                   [] OTHER -> FloorRoot[Cardinality(ran)][product]
    BY DEF ConversationalSanity
  <1>2. ran \in SUBSET ConversationalSlices
    OBVIOUS
  <1>3. ran # {} => Talked(rows)
    <2> SUFFICES ASSUME NEW s \in ran  PROVE Talked(rows)
      OBVIOUS
    <2> QED  BY SlicesAreFractions DEF Talked
  <1>4. \A s : Part(s) \in Nat
    <2> SUFFICES ASSUME NEW s  PROVE Part(s) \in Nat
      OBVIOUS
    <2>1. SliceMean(rows, s) = None \/ SliceMean(rows, s) \in 0 .. One
      BY SlicesAreFractions
    <2> QED  BY <2>1, SMTT(60) DEF One
  <1> HIDE DEF Part
  <1>5. product \in Nat
    <2>1. Part("chitchat") * Part("declarative_ack") \in Nat
      BY <1>4, ProductIsNatural
    <2> QED  BY <1>4, <2>1, ProductIsNatural
  <1> HIDE DEF ran, product
  <1>6. ran # {} => FloorRoot[Cardinality(ran)][product] \in 0 .. One
    BY <1>2, <1>5, SlicesAreThree, RootIsAFraction
  <1> HIDE DEF sanity
  <1>7. CASE ran = {}
    BY <1>1, <1>7 DEF sanity
  <1>8. CASE ran # {} /\ product = 0
    BY <1>1, <1>3, <1>8 DEF One, sanity
  <1>9. CASE ran # {} /\ product # 0
    BY <1>1, <1>3, <1>6, <1>9 DEF sanity
  <1> QED  BY <1>7, <1>8, <1>9

LEMMA ConversationIsBetween ==
  ASSUME NEW rows, IsScoredRun(rows), NEW floor \in 0 .. One
  PROVE  ConversationalFactor(rows, floor) \in Floor(Talked(rows), floor) .. One
  <1> DEFINE rate == ConversationalSanity(rows)
  <1>1. ConversationalFactor(rows, floor) = IF rate = None THEN One ELSE floor + Scaled(One - floor, rate)
    BY DEF ConversationalFactor
  <1>2. (rate = None \/ rate \in 0 .. One) /\ (rate # None => Talked(rows))
    BY SanityIsAFraction
  <1> HIDE DEF rate
  <1>3. CASE rate = None
    BY <1>1, <1>3 DEF Floor, One
  <1>4. CASE rate # None
    <2>1. rate \in Nat /\ One - floor \in Nat /\ rate <= One /\ One - floor <= One - floor /\ One \in Nat
      BY <1>2, <1>4, SMTT(60) DEF One
    <2>2. Scaled(One - floor, rate) \in Nat /\ Scaled(One - floor, rate) <= Scaled(One - floor, One)
      BY <2>1, ScaledGrows
    <2>3. Scaled(One - floor, One) = One - floor
      BY <2>1, FullWeightKeeps
    <2>4. floor + Scaled(One - floor, rate) \in floor .. One
      BY <2>1, <2>2, <2>3
    <2> QED  BY <1>1, <1>2, <1>4, <2>4 DEF Floor
  <1> QED  BY <1>3, <1>4

(* An audit that was not run has no pairs.                                 *)
LEMMA AuditsAreCounted ==
  ASSUME NEW rows, IsScoredRun(rows)
  PROVE  LET pairs == AuditPairs(rows) IN
         /\ pairs.both \in Nat /\ pairs.baseOnly \in Nat /\ pairs.transformOnly \in Nat /\ pairs.neither \in Nat
         /\ ~Audited(rows) => AuditTotal(pairs) = 0
  <1> DEFINE twins == {rows[i].twin : i \in Rows(rows)}
             Tallied(base, xform) == {twin \in {t \in twins : IsAuditGroup(t)} :
                                        /\ AuditSide(rows, twin, FALSE) = base
                                        /\ AuditSide(rows, twin, TRUE) = xform}
             Tally(base, xform) == Cardinality(Tallied(base, xform))
             pairs == AuditPairs(rows)
  <1>1. /\ pairs.both = Tally("right", "right") /\ pairs.baseOnly = Tally("right", "wrong")
        /\ pairs.transformOnly = Tally("wrong", "right") /\ pairs.neither = Tally("wrong", "wrong")
    BY DEF AuditPairs
  <1>2. IsFiniteSet(twins)
    BY TwinsAreFinite
  <1> HIDE DEF twins, pairs
  <1>3. \A base, xform : Tally(base, xform) \in Nat
    <2> SUFFICES ASSUME NEW base, NEW xform  PROVE Tally(base, xform) \in Nat
      OBVIOUS
    <2>1. Tallied(base, xform) \in SUBSET twins
      OBVIOUS
    <2> HIDE DEF Tallied
    <2> QED  BY <1>2, <2>1, FS_Subset, FS_CardinalityType
  <1>4. ASSUME ~Audited(rows), NEW base \in {"right", "wrong"}, NEW xform
        PROVE  Tally(base, xform) = 0
    <2>1. \A twin : AuditSide(rows, twin, FALSE) = "missing"
      BY <1>4 DEF AuditSide, Audited, Rows
    <2>2. Tallied(base, xform) = {}
      BY <2>1
    <2> HIDE DEF Tallied
    <2> QED  BY <2>2, FS_EmptySet
  <1> HIDE DEF Tally
  <1>5. /\ pairs.both \in Nat /\ pairs.baseOnly \in Nat /\ pairs.transformOnly \in Nat /\ pairs.neither \in Nat
    BY <1>1, <1>3
  <1>6. ~Audited(rows) => AuditTotal(pairs) = 0
    BY <1>1, <1>4 DEF AuditTotal
  <1> QED  BY <1>5, <1>6 DEF pairs

LEMMA AuditIsBetween ==
  ASSUME NEW rows, IsScoredRun(rows), NEW enforced, NEW most \in 0 .. One
  PROVE  TransformAuditFactor(rows, enforced, most) \in Floor(Audited(rows) /\ enforced, One - most) .. One
  <1> DEFINE pairs == AuditPairs(rows)
             excess == pairs.baseOnly - pairs.transformOnly
             r == Ratio(excess, LegacyAudit.saturate)
             charged == enforced /\ AuditTotal(pairs) >= LegacyAudit.minPairs /\ excess > 0
  <1>1. TransformAuditFactor(rows, enforced, most) = IF charged THEN One - Scaled(Least(One, r), most) ELSE One
    BY DEF TransformAuditFactor
  <1>2. charged => Audited(rows) /\ enforced
    <2>1. ~Audited(rows) => AuditTotal(pairs) = 0
      BY AuditsAreCounted
    <2> HIDE DEF pairs
    <2> QED  BY <2>1 DEF LegacyAudit
  <1>3. ASSUME charged  PROVE One - Scaled(Least(One, r), most) \in (One - most) .. One
    <2>1. pairs.baseOnly \in Nat /\ pairs.transformOnly \in Nat
      BY AuditsAreCounted
    <2>2. excess \in Nat
      <3> HIDE DEF pairs
      <3> QED  BY <1>3, <2>1
    <2> HIDE DEF excess
    <2>3. r \in Nat
      <3>1. LegacyAudit.saturate \in Int
        BY DEF LegacyAudit
      <3> QED  BY <2>2, <3>1, RatioIsNatural
    <2> HIDE DEF r
    <2>4. Least(One, r) \in 0 .. One
      BY <2>3 DEF Least, One
    <2> QED  BY <2>4, TakenOff
  <1>4. One - most \in 0 .. One
    BY TakenOff
  <1> HIDE DEF charged, r
  <1>5. CASE charged
    BY <1>1, <1>2, <1>3, <1>5 DEF Floor
  <1>6. CASE ~charged
    BY <1>1, <1>4, <1>6 DEF Floor, One
  <1> QED  BY <1>5, <1>6

-----------------------------------------------------------------------------
(* The gate and the report *)

LEMMA FloorIsAFraction ==
  ASSUME NEW happened, NEW least \in 0 .. One
  PROVE  Floor(happened, least) \in 0 .. One
  BY DEF Floor, One

(* The three style penalties are stopped at a floor of their own.          *)
LEMMA StylePenaltiesStop ==
  ASSUME NEW x \in 0 .. One, NEW y \in 0 .. One, NEW z \in 0 .. One, NEW floor \in 0 .. One
  PROVE  Most(Product3(x, y, z), floor) \in floor .. One
  <1>1. Scaled(x, y) \in 0 .. One
    BY ScaledIsAFraction
  <1> DEFINE p == Product3(x, y, z)
  <1>2. p \in 0 .. One
    BY <1>1, ScaledIsAFraction DEF Product3
  <1> HIDE DEF p
  <1>3. Most(p, floor) \in floor .. One
    BY <1>2 DEF Most, One
  <1> QED  BY <1>3 DEF p

LEMMA LegacyGateIsBetween ==
  ASSUME NEW rows, IsScoredRun(rows)
  PROVE  /\ CompositeGate(rows) \in Scaled(Legacy.bounded, Floor(Leaked(rows), LegacyCanaryLeak)) .. One
         /\ Scaled(Legacy.bounded, Floor(Leaked(rows), LegacyCanaryLeak)) \in 0 .. One
  <1> DEFINE style == Product3(ToolEfficiencyFactor(rows, 6), MetamorphicFactor(rows, LegacyMetamorphic),
                               MemoryOverCallFactor(rows, Legacy.overCall))
             leak == Floor(Leaked(rows), LegacyCanaryLeak)
  <1>1. /\ LegacyMetamorphic \in 0 .. One /\ Legacy.overCall \in 0 .. One /\ Legacy.bounded \in 0 .. One
        /\ LegacyCanaryLeak \in 0 .. One
    BY DEF LegacyMetamorphic, Legacy, LegacyCanaryLeak, One
  <1>2. /\ ToolEfficiencyFactor(rows, 6) \in 0 .. One
        /\ MetamorphicFactor(rows, LegacyMetamorphic) \in 0 .. One
        /\ MemoryOverCallFactor(rows, Legacy.overCall) \in 0 .. One
    BY <1>1, ToolEfficiencyIsAFraction, MetamorphicIsBetween, OverCallIsBetween
  <1>3. Most(style, Legacy.bounded) \in Legacy.bounded .. One
    BY <1>1, <1>2, StylePenaltiesStop
  <1>4. leak \in 0 .. One /\ CanaryFactor(rows, LegacyCanaryLeak) \in leak .. One
    BY <1>1, FloorIsAFraction, CanaryIsBetween
  <1>5. CompositeGate(rows) = Scaled(Most(style, Legacy.bounded), CanaryFactor(rows, LegacyCanaryLeak))
    BY DEF CompositeGate
  <1> HIDE DEF style, leak
  <1>6. /\ Scaled(Most(style, Legacy.bounded), CanaryFactor(rows, LegacyCanaryLeak))
             \in Scaled(Legacy.bounded, leak) .. One
        /\ Scaled(Legacy.bounded, leak) \in 0 .. One
    BY <1>1, <1>3, <1>4, ProductIsBetween
  <1> QED  BY <1>5, <1>6 DEF leak

LEMMA MiddleGateIsBetween ==
  ASSUME NEW rows, IsScoredRun(rows)
  PROVE  LET floor == Product3(Scaled(Legacy.bounded, Floor(Leaked(rows), LegacyCanaryLeak)),
                               Floor(Talked(rows), LegacySanity),
                               Floor(Audited(rows) /\ AuditEnforced, One - LegacyAudit.maxPenalty))
         IN /\ floor \in 0 .. One
            /\ Product3(CompositeGate(rows), ConversationalFactor(rows, LegacySanity),
                        TransformAuditFactor(rows, LegacyAudit.enforced, LegacyAudit.maxPenalty)) \in floor .. One
  <1> DEFINE a == Scaled(Legacy.bounded, Floor(Leaked(rows), LegacyCanaryLeak))
             b == Floor(Talked(rows), LegacySanity)
             c == Floor(Audited(rows) /\ AuditEnforced, One - LegacyAudit.maxPenalty)
  <1>1. LegacySanity \in 0 .. One /\ LegacyAudit.maxPenalty \in 0 .. One /\ LegacyAudit.enforced = AuditEnforced
    BY DEF LegacySanity, LegacyAudit, One
  <1>2. CompositeGate(rows) \in a .. One /\ a \in 0 .. One
    BY LegacyGateIsBetween
  <1>3. ConversationalFactor(rows, LegacySanity) \in b .. One /\ b \in 0 .. One
    BY <1>1, ConversationIsBetween, FloorIsAFraction
  <1>4. TransformAuditFactor(rows, LegacyAudit.enforced, LegacyAudit.maxPenalty) \in c .. One
    BY <1>1, AuditIsBetween
  <1>5. c \in 0 .. One
    <2>1. One - LegacyAudit.maxPenalty \in 0 .. One
      BY <1>1, SMTT(60) DEF One
    <2> QED  BY <2>1, FloorIsAFraction
  <1> HIDE DEF a, b, c
  <1>6. /\ Product3(a, b, c) \in 0 .. One
        /\ Product3(CompositeGate(rows), ConversationalFactor(rows, LegacySanity),
                    TransformAuditFactor(rows, LegacyAudit.enforced, LegacyAudit.maxPenalty)) \in Product3(a, b, c) .. One
    BY <1>2, <1>3, <1>4, <1>5, Product3IsBetween
  <1> QED  BY <1>6 DEF a, b, c

LEMMA GateV7IsBetween ==
  ASSUME NEW rows, IsScoredRun(rows)
  PROVE  LET floor == Scaled(Product3(V7.bounded, Floor(Leaked(rows), V7.leak), Floor(Talked(rows), V7.sanity)),
                             Floor(Audited(rows), One - V7.audit))
         IN floor \in 0 .. One /\ CompositeGateV7(rows) \in floor .. One
  <1> DEFINE style == Product3(ToolEfficiencyFactor(rows, 7), MetamorphicFactor(rows, V7.metamorphic),
                               MemoryOverCallFactor(rows, V7.overCall))
             a == V7.bounded
             b == Floor(Leaked(rows), V7.leak)
             c == Floor(Talked(rows), V7.sanity)
             d == Floor(Audited(rows), One - V7.audit)
  <1>1. /\ V7.metamorphic \in 0 .. One /\ V7.overCall \in 0 .. One /\ V7.bounded \in 0 .. One
        /\ V7.leak \in 0 .. One /\ V7.sanity \in 0 .. One /\ V7.audit \in 0 .. One /\ One - V7.audit \in 0 .. One
    BY DEF V7, One
  <1>2. /\ ToolEfficiencyFactor(rows, 7) \in 0 .. One
        /\ MetamorphicFactor(rows, V7.metamorphic) \in 0 .. One
        /\ MemoryOverCallFactor(rows, V7.overCall) \in 0 .. One
    BY <1>1, ToolEfficiencyIsAFraction, MetamorphicIsBetween, OverCallIsBetween
  <1>3. Most(style, a) \in a .. One /\ a \in 0 .. One
    BY <1>1, <1>2, StylePenaltiesStop
  <1>4. b \in 0 .. One /\ CanaryFactor(rows, V7.leak) \in b .. One
    BY <1>1, FloorIsAFraction, CanaryIsBetween
  <1>5. c \in 0 .. One /\ ConversationalFactor(rows, V7.sanity) \in c .. One
    BY <1>1, FloorIsAFraction, ConversationIsBetween
  <1>6. d \in 0 .. One /\ TransformAuditFactor(rows, TRUE, V7.audit) \in d .. One
    <2>1. Floor(Audited(rows) /\ TRUE, One - V7.audit) = d
      BY DEF Floor
    <2>2. TransformAuditFactor(rows, TRUE, V7.audit) \in Floor(Audited(rows) /\ TRUE, One - V7.audit) .. One
      BY <1>1, AuditIsBetween
    <2> QED  BY <1>1, <2>1, <2>2, FloorIsAFraction
  <1>7. CompositeGateV7(rows) =
          Scaled(Product3(Most(style, a), CanaryFactor(rows, V7.leak), ConversationalFactor(rows, V7.sanity)),
                 TransformAuditFactor(rows, TRUE, V7.audit))
    BY DEF CompositeGateV7
  <1> HIDE DEF style, a, b, c, d
  <1>8. /\ Product3(a, b, c) \in 0 .. One
        /\ Product3(Most(style, a), CanaryFactor(rows, V7.leak), ConversationalFactor(rows, V7.sanity))
             \in Product3(a, b, c) .. One
    BY <1>3, <1>4, <1>5, Product3IsBetween
  <1> DEFINE floor == Product3(a, b, c)
             earned == Product3(Most(style, a), CanaryFactor(rows, V7.leak), ConversationalFactor(rows, V7.sanity))
  <1>9. /\ Scaled(floor, d) \in 0 .. One
        /\ Scaled(earned, TransformAuditFactor(rows, TRUE, V7.audit)) \in Scaled(floor, d) .. One
    <2> HIDE DEF floor, earned
    <2> QED  BY <1>6, <1>8, ProductIsBetween DEF floor, earned
  <1> QED  BY <1>7, <1>9 DEF a, b, c, d


(* The least gate of a version, by what the run gave occasion for.         *)
GateFloor(rows, version) ==
  CASE version >= 7 -> Scaled(Product3(V7.bounded, Floor(Leaked(rows), V7.leak), Floor(Talked(rows), V7.sanity)),
                              Floor(Audited(rows), One - V7.audit))
    [] version \in 5 .. 6 -> Product3(Scaled(Legacy.bounded, Floor(Leaked(rows), LegacyCanaryLeak)),
                                      Floor(Talked(rows), LegacySanity),
                                      Floor(Audited(rows) /\ AuditEnforced, One - LegacyAudit.maxPenalty))
    [] version \in 3 .. 4 -> Scaled(Legacy.bounded, Floor(Leaked(rows), LegacyCanaryLeak))
    [] OTHER -> One

LEMMA GateIsBetween ==
  ASSUME NEW rows, IsScoredRun(rows), NEW version \in Nat
  PROVE  LET gate == IF version >= 3 THEN CompositeGateForVersion(rows, version) ELSE One
         IN gate \in GateFloor(rows, version) .. One /\ gate \in 0 .. One
  <1> DEFINE gate == IF version >= 3 THEN CompositeGateForVersion(rows, version) ELSE One
             floor == GateFloor(rows, version)
  <1>1. CASE version >= 7
    <2>1. gate = CompositeGateV7(rows)
      BY <1>1 DEF CompositeGateForVersion
    <2>2. floor = Scaled(Product3(V7.bounded, Floor(Leaked(rows), V7.leak), Floor(Talked(rows), V7.sanity)),
                         Floor(Audited(rows), One - V7.audit))
      BY <1>1 DEF GateFloor
    <2> HIDE DEF gate, floor
    <2>3. floor \in 0 .. One /\ gate \in floor .. One
      BY <2>1, <2>2, GateV7IsBetween
    <2> QED  BY <2>3, SMTT(60) DEF One, gate, floor
  <1>2. CASE version \in 5 .. 6
    <2>1. gate = Product3(CompositeGate(rows), ConversationalFactor(rows, LegacySanity),
                          TransformAuditFactor(rows, LegacyAudit.enforced, LegacyAudit.maxPenalty))
      BY <1>2 DEF CompositeGateForVersion
    <2>2. floor = Product3(Scaled(Legacy.bounded, Floor(Leaked(rows), LegacyCanaryLeak)),
                           Floor(Talked(rows), LegacySanity),
                           Floor(Audited(rows) /\ AuditEnforced, One - LegacyAudit.maxPenalty))
      BY <1>2 DEF GateFloor
    <2> HIDE DEF gate, floor
    <2>3. floor \in 0 .. One /\ gate \in floor .. One
      BY <2>1, <2>2, MiddleGateIsBetween
    <2> QED  BY <2>3, SMTT(60) DEF One, gate, floor
  <1>3. CASE version \in 3 .. 4
    <2>1. gate = CompositeGate(rows)
      BY <1>3 DEF CompositeGateForVersion
    <2>2. floor = Scaled(Legacy.bounded, Floor(Leaked(rows), LegacyCanaryLeak))
      BY <1>3 DEF GateFloor
    <2> HIDE DEF gate, floor
    <2>3. floor \in 0 .. One /\ gate \in floor .. One
      BY <2>1, <2>2, LegacyGateIsBetween
    <2> QED  BY <2>3, SMTT(60) DEF One, gate, floor
  <1>4. CASE version \in 0 .. 2
    <2>1. gate = One
      BY <1>4
    <2>2. floor = One
      BY <1>4 DEF GateFloor
    <2> HIDE DEF gate, floor
    <2>3. gate \in floor .. One /\ gate \in 0 .. One
      BY <2>1, <2>2 DEF One
    <2> QED  BY <2>3 DEF gate, floor
  <1>5. version >= 7 \/ version \in 5 .. 6 \/ version \in 3 .. 4 \/ version \in 0 .. 2
    OBVIOUS
  <1> QED  BY <1>1, <1>2, <1>3, <1>4, <1>5

(* The mean of a run is between half and all of its two means.             *)
LEMMA AggregateIsBetween ==
  ASSUME NEW rows, IsScoredRun(rows), NEW version \in Nat
  PROVE  LET scores == Aggregate(rows, version)
             half == (scores.toolMean + scores.memoryMean) \div 2
         IN /\ scores.toolMean \in 0 .. One /\ scores.memoryMean \in 0 .. One
            /\ scores.gate \in GateFloor(rows, version) .. One /\ scores.gate \in 0 .. One
            /\ scores.composite \in Scaled(half, scores.gate) .. Most(scores.toolMean, scores.memoryMean)
            /\ Scaled(half, scores.gate) \in Nat
            /\ DOMAIN scores = {"composite", "gate", "toolMean", "memoryMean", "n", "perCase", "sanity"}
  <1> DEFINE memory == {i \in Rows(rows) : rows[i].kind = "memory"}
             tool == Rows(rows) \ memory
             OfTool == [i \in tool |-> rows[i].score]
             OfMemory == [i \in memory |-> rows[i].score]
             ofTool == SumFunction(OfTool) \div Cardinality(tool)
             ofMemory == SumFunction(OfMemory) \div Cardinality(memory)
             toolMean == IF tool = {} THEN 0 ELSE ofTool
             memMean == IF memory = {} THEN 0 ELSE ofMemory
             mean == IF tool # {} /\ memory # {} THEN (toolMean + memMean) \div 2 ELSE toolMean + memMean
             gate == IF version >= 3 THEN CompositeGateForVersion(rows, version) ELSE One
             scores == Aggregate(rows, version)
  <1>1. /\ scores.toolMean = toolMean /\ scores.memoryMean = memMean /\ scores.gate = gate
        /\ scores.composite = Scaled(mean, gate)
        /\ DOMAIN scores = {"composite", "gate", "toolMean", "memoryMean", "n", "perCase", "sanity"}
    BY DEF Aggregate, MeanOver
  <1>2. gate \in GateFloor(rows, version) .. One /\ gate \in 0 .. One
    BY GateIsBetween
  <1>3. tool \in SUBSET Rows(rows) /\ memory \in SUBSET Rows(rows)
    OBVIOUS
  <1>4. \A i \in Rows(rows) : rows[i].score \in 0 .. One
    BY DEF IsScoredRun, IsScored, Rows
  <1> HIDE DEF tool, memory, gate, scores
  <1>5. tool # {} => ofTool \in 0 .. One
    <2>1. DOMAIN OfTool = tool /\ \A i \in tool : OfTool[i] \in 0 .. One
      BY <1>3, <1>4
    <2> HIDE DEF OfTool
    <2> QED  BY <1>3, <2>1, RowsAreFinite, MeanIsAFraction
  <1>6. memory # {} => ofMemory \in 0 .. One
    <2>1. DOMAIN OfMemory = memory /\ \A i \in memory : OfMemory[i] \in 0 .. One
      BY <1>3, <1>4, SMTT(60)
    <2> HIDE DEF OfMemory
    <2> QED  BY <1>3, <2>1, RowsAreFinite, MeanIsAFraction
  <1> DEFINE half == (toolMean + memMean) \div 2
             better == Most(toolMean, memMean)
  <1>7. /\ toolMean \in 0 .. One /\ memMean \in 0 .. One
        /\ tool = {} => toolMean = 0
        /\ memory = {} => memMean = 0
    <2> HIDE DEF ofTool, ofMemory
    <2>1. 0 \in 0 .. One
      BY DEF One
    <2> QED  BY <1>5, <1>6, <2>1, Zenon
  <1> HIDE DEF toolMean, memMean
  <1>8. half \in Nat /\ mean \in Nat /\ better \in Nat /\ half <= mean /\ mean <= better
    BY <1>7 DEF Most, One
  <1> HIDE DEF half, mean, better
  <1>9. /\ Scaled(half, gate) \in Nat /\ Scaled(mean, gate) \in Nat
        /\ Scaled(half, gate) <= Scaled(mean, gate) /\ Scaled(mean, gate) <= mean
    <2>1. gate \in Nat /\ gate <= gate /\ gate <= One /\ One \in Nat /\ mean <= mean
      BY <1>2, <1>8 DEF One
    <2>2. Scaled(mean, gate) <= Scaled(mean, One) /\ Scaled(mean, One) = mean
      BY <1>8, <2>1, ScaledGrows, FullWeightKeeps
    <2> QED  BY <1>8, <2>1, <2>2, ScaledGrows
  <1>10. Scaled(mean, gate) \in Scaled(half, gate) .. better
    BY <1>8, <1>9
  <1> QED  BY <1>1, <1>2, <1>7, <1>9, <1>10 DEF half, better, One, scores

(* The tokens a run used cost it a tenth at most.                          *)
LEMMA TokensCostATenth ==
  ASSUME NEW u, u.total \in Nat, NEW allowed, \A b \in allowed : b.total \in Nat
  PROVE  TokenMultiplier(u, allowed) \in 900 .. One
  <1> DEFINE b == CHOOSE x \in allowed : TRUE
  <1>1. CASE ~ValidUsage(u) \/ allowed = {}
    BY <1>1 DEF TokenMultiplier, One
  <1>2. CASE ~(~ValidUsage(u) \/ allowed = {})
    <2>1. TokenMultiplier(u, allowed) =
            IF u.total <= b.total THEN One ELSE Most(900, One - (100 * (u.total - b.total)) \div u.total)
      BY <1>2 DEF TokenMultiplier
    <2>2. b.total \in Nat /\ u.total \in Nat \ {0}
      BY <1>2 DEF ValidUsage
    <2> DEFINE t == u.total
               a == b.total
    <2>3. a \in Nat /\ t \in Nat \ {0}
      BY <2>2
    <2> HIDE DEF b, t, a
    <2>4. ASSUME ~(t <= a)  PROVE Most(900, One - (100 * (t - a)) \div t) \in 900 .. One
      <3>1. 100 * (t - a) \in Nat
        BY <2>3, <2>4
      <3> DEFINE y == 100 * (t - a)
                 q == y \div t
      <3>2. q \in Nat
        BY <2>3, <3>1, QuotientIsNatural
      <3> HIDE DEF q
      <3>3. Most(900, One - q) \in 900 .. One
        BY <3>2 DEF Most, One
      <3> QED  BY <3>3 DEF q, y
    <2>5. One \in 900 .. One
      BY DEF One
    <2> QED  BY <2>1, <2>4, <2>5 DEF t, a
  <1> QED  BY <1>1, <1>2

(* The token contract leaves nine tenths of a composite, and adds nothing. *)
LEMMA ContractIsBetween ==
  ASSUME NEW rows, IsScoredRun(rows), NEW version \in Nat, NEW size, NEW usage, usage.total \in Nat,
         NEW baselines, \A b \in baselines : b.total \in Nat
  PROVE  LET scores == ApplyTokenContract(Aggregate(rows, version), version, size, usage, baselines)
             half == (scores.toolMean + scores.memoryMean) \div 2
         IN /\ scores.toolMean \in 0 .. One /\ scores.memoryMean \in 0 .. One
            /\ scores.gate \in GateFloor(rows, version) .. One
            /\ scores.composite \in Scaled(Scaled(half, scores.gate), 900)
                                      .. Most(scores.toolMean, scores.memoryMean)
  <1> DEFINE first == Aggregate(rows, version)
             scores == ApplyTokenContract(first, version, size, usage, baselines)
             multiplier == IF version >= 7 THEN One
                           ELSE TokenMultiplier(usage, Lookup(baselines, version, size, usage))
             half == (first.toolMean + first.memoryMean) \div 2
             floor == Scaled(half, first.gate)
  <1>1. /\ first.toolMean \in 0 .. One /\ first.memoryMean \in 0 .. One
        /\ first.gate \in GateFloor(rows, version) .. One
        /\ first.composite \in floor .. Most(first.toolMean, first.memoryMean) /\ floor \in Nat
        /\ DOMAIN first = {"composite", "gate", "toolMean", "memoryMean", "n", "perCase", "sanity"}
    BY AggregateIsBetween
  <1>2. scores = IF version < 5 THEN first
                 ELSE [first EXCEPT !.composite = Scaled(first.composite, multiplier)]
    BY DEF ApplyTokenContract
  <1>3. multiplier \in 900 .. One
    <2>1. \A b \in Lookup(baselines, version, size, usage) : b.total \in Nat
      BY DEF Lookup
    <2>2. TokenMultiplier(usage, Lookup(baselines, version, size, usage)) \in 900 .. One
      BY <2>1, TokensCostATenth
    <2> QED  BY <2>2 DEF One
  <1> HIDE DEF first, multiplier, scores
  <1>4. /\ scores.toolMean = first.toolMean /\ scores.memoryMean = first.memoryMean /\ scores.gate = first.gate
        /\ scores.composite = IF version < 5 THEN first.composite ELSE Scaled(first.composite, multiplier)
    BY <1>1, <1>2
  <1> DEFINE x == first.composite
             best == Most(first.toolMean, first.memoryMean)
  <1>5. best \in Nat /\ x \in Nat /\ floor \in Nat /\ floor <= x /\ x <= best
    <2>1. first.toolMean \in Nat /\ first.memoryMean \in Nat
      BY <1>1
    <2>2. best \in Nat
      BY <2>1 DEF Most
    <2> HIDE DEF best, floor
    <2> QED  BY <1>1, <2>2 DEF best, floor
  <1> HIDE DEF x, best, floor
  <1>6. \A m \in {multiplier, One} : Scaled(x, m) \in Scaled(floor, 900) .. best
    <2> SUFFICES ASSUME NEW m \in 900 .. One
                 PROVE  Scaled(x, m) \in Scaled(floor, 900) .. best
      BY <1>3 DEF One
    <2> DEFINE least == 900
    <2>1. m \in Nat /\ least <= m /\ m <= One /\ One \in Nat /\ least \in Nat /\ x <= x
      BY <1>5 DEF One
    <2> HIDE DEF least
    <2>2. Scaled(floor, least) \in Nat /\ Scaled(floor, least) <= Scaled(x, m)
      BY <1>5, <2>1, ScaledGrows, ZenonT(60)
    <2>3. Scaled(x, m) \in Nat /\ Scaled(x, m) <= Scaled(x, One) /\ Scaled(x, One) = x
      BY <1>5, <2>1, ScaledGrows, FullWeightKeeps, ZenonT(60)
    <2> QED  BY <1>5, <2>2, <2>3 DEF least
  <1>7. Scaled(x, One) = x
    BY <1>5, FullWeightKeeps
  <1>8. scores.composite \in Scaled(floor, 900) .. best
    BY <1>4, <1>6, <1>7 DEF x
  <1> QED  BY <1>1, <1>4, <1>8 DEF floor, best, scores, first

-----------------------------------------------------------------------------
(* The scores of cases *)

LEMMA TrajectoryScoreIsAFraction ==
  ASSUME NEW c, ToolCaseTyped(c), NEW calls, IsList(calls), NEW strict \in BOOLEAN
  PROVE  DeterministicToolScoreStrict(c, calls, strict) \in 0 .. One
  <1> DEFINE got == Names(calls)
             wanted == Names(c.expected)
             hits == SumFunction([n \in ToSet(wanted) |-> Least(Count(n, got), Count(n, wanted))])
             nameScore == IF c.allowExtra THEN Ratio(hits, Len(wanted)) ELSE F1(hits, Len(got), Len(wanted))
             argScore == IF c.fuzzy THEN One ELSE ArgCorrectness(c.expected, calls)
             ordered == ~c.unordered /\ ~c.fuzzy
             order == IF ordered THEN OrderCredit(c.expected, calls) ELSE One
             penalty == ExtraCallPenalty(c, calls, strict)
             trajectory == Scaled(order, One - penalty)
             score == (4 * nameScore + 4 * argScore + 2 * trajectory) \div 10
             refused == \/ strict /\ ForbiddenArgPresent(c.expected, calls)
                        \/ hits = 0
                        \/ c.fuzzy /\ hits < Len(wanted)
                        \/ c.fuzzy /\ ~RequiredOutcomesSatisfied(c.expected, calls)
  <1>1. IsList(got) /\ IsList(wanted) /\ Len(got) \in Nat /\ Len(wanted) \in Nat
    BY NamesAreAList DEF ToolCaseTyped, IsList
  <1>2. hits \in Nat /\ hits <= Len(got) /\ hits <= Len(wanted)
    BY <1>1, NamesAreHit
  <1>3. DeterministicToolScoreStrict(c, calls, strict) =
          CASE refused -> 0
            [] ~refused /\ strict /\ ordered -> Scaled(score, order)
            [] OTHER -> score
    BY DEF DeterministicToolScoreStrict
  <1> HIDE DEF hits, got, wanted, ordered, refused
  <1>4. nameScore \in 0 .. One
    <2>1. Ratio(hits, Len(wanted)) \in 0 .. One
      BY <1>1, <1>2, ShareIsAFraction
    <2>2. F1(hits, Len(got), Len(wanted)) \in 0 .. One
      <3> DEFINE whole == Len(got) + Len(wanted)
                 twice == 2 * hits
      <3>1. whole \in Nat /\ twice \in Nat /\ twice <= whole
        BY <1>1, <1>2
      <3> HIDE DEF whole, twice
      <3>2. Ratio(twice, whole) \in 0 .. One
        BY <3>1, ShareIsAFraction
      <3> QED  BY <3>2 DEF F1, whole, twice
    <2> QED  BY <2>1, <2>2
  <1>5. argScore \in 0 .. One
    <2>1. ArgCorrectness(c.expected, calls) \in 0 .. One
      BY ArgumentsAreRight, SMTT(60)
    <2> QED  BY <2>1 DEF One
  <1>6. order \in 0 .. One
    <2>1. OrderCredit(c.expected, calls) \in 0 .. One
      BY OrderIsKept DEF ToolCaseTyped
    <2> QED  BY <2>1 DEF One
  <1>7. penalty \in 0 .. One
    BY PenaltyIsAFraction
  <1> HIDE DEF order, penalty, nameScore, argScore
  <1>8. trajectory \in 0 .. One
    <2>1. One - penalty \in 0 .. One
      BY <1>7 DEF One
    <2> QED  BY <1>6, <2>1, ScaledIsAFraction
  <1> HIDE DEF trajectory
  <1>9. score \in 0 .. One
    BY <1>4, <1>5, <1>8, SMTT(60) DEF One
  <1> HIDE DEF score
  <1>10. Scaled(score, order) \in 0 .. One
    BY <1>6, <1>9, ScaledIsAFraction
  <1>11. 0 \in 0 .. One
    BY DEF One
  <1> QED  BY <1>3, <1>9, <1>10, <1>11

LEMMA ToolScoreIsAFraction ==
  ASSUME NEW c, ToolCaseTyped(c), NEW resp, IsList(resp.calls), NEW delivered, NEW strict \in BOOLEAN
  PROVE  ToolScore(c, resp, delivered, strict) \in 0 .. One
  <1>1. DeterministicToolScoreStrict(c, resp.calls, strict) \in 0 .. One
    BY TrajectoryScoreIsAFraction
  <1>2. 0 \in 0 .. One /\ One \in 0 .. One
    BY DEF One
  <1> QED  BY <1>1, <1>2 DEF ToolScore

(* A score of a tool case: what is expected and was called, and a fraction *)
(* for the trajectory; then one for the case.                              *)
IsTrajectory(row) ==
  /\ DOMAIN row = DOMAIN ZeroScore /\ row.toolScore \in 0 .. One
  /\ IsList(row.called) /\ IsList(row.expected)
IsFinished(row) == IsTrajectory(row) /\ row.score \in 0 .. One

LEMMA TrajectoryIsOne ==
  ASSUME NEW c, ToolCaseTyped(c), NEW resp, DOMAIN resp = {"calls", "says"}, IsList(resp.calls),
         NEW delivered \in BOOLEAN, NEW observed, IsList(observed), NEW version \in Nat
  PROVE  IsTrajectory(ScoreToolCaseObserved(c, resp, delivered, observed, version))
  <1> DEFINE auth == IF observed # <<>> THEN [resp EXCEPT !.calls = observed] ELSE resp
             strict == version >= 7
             first == ScoreCaseStrict(c, auth, delivered, strict)
             cs == [first EXCEPT !.observed = (observed # <<>>)]
  <1>1. IsList(auth.calls) /\ strict \in BOOLEAN
    OBVIOUS
  <1>2. ScoreToolCaseObserved(c, resp, delivered, observed, version) = cs
    BY DEF ScoreToolCaseObserved
  <1>3. IsList(Names(auth.calls)) /\ IsList(Names(c.expected))
    BY <1>1, NamesAreAList DEF ToolCaseTyped
  <1> HIDE DEF auth, strict
  <1>4. ToolScore(c, auth, delivered, strict) \in 0 .. One
    BY <1>1, ToolScoreIsAFraction
  <1>5. /\ DOMAIN first = DOMAIN ZeroScore
        /\ first.toolScore = ToolScore(c, auth, delivered, strict)
        /\ first.called = Names(auth.calls) /\ first.expected = Names(c.expected)
    BY DEF ScoreCaseStrict, ZeroScore
  <1> HIDE DEF first
  <1>6. /\ DOMAIN cs = DOMAIN ZeroScore /\ cs.toolScore = first.toolScore
        /\ cs.called = first.called /\ cs.expected = first.expected
    BY <1>5 DEF ZeroScore
  <1> HIDE DEF cs
  <1> QED  BY <1>2, <1>3, <1>4, <1>5, <1>6 DEF IsTrajectory

(* Giving a trajectory a score between nothing and one finishes it.        *)
LEMMA FinishedWith ==
  ASSUME NEW cs, IsTrajectory(cs), NEW x \in 0 .. One
  PROVE  IsFinished([cs EXCEPT !.score = x])
  BY DEF IsTrajectory, IsFinished, ZeroScore

LEMMA ToolCaseIsScored ==
  ASSUME NEW c, ToolCaseTyped(c), NEW resp, DOMAIN resp = {"calls", "says"}, IsList(resp.calls),
         NEW delivered \in BOOLEAN, NEW observed, IsList(observed), NEW scope, NEW version \in Nat
  PROVE  IsScored(GradeToolCase(c, resp, delivered, observed, scope, version))
  <1> DEFINE first == ScoreToolCaseObserved(c, resp, delivered, observed, version)
             whole == Composed(c, resp, delivered, observed, version)
             weighed == ApplyTrajectoryMismatch(version, c, whole, resp.calls, observed)
             capped == CapUnobserved(weighed, scope, version)
  <1>1. GradeToolCase(c, resp, delivered, observed, scope, version)
          = IF Capped(c, observed) THEN capped ELSE weighed
    BY DEF GradeToolCase, Composed
  <1>2. IsTrajectory(first)
    BY TrajectoryIsOne
  <1>3. whole = IF c.usage THEN ComposeResultUsage(version, first, resp.says) ELSE FinishTool(first)
    BY DEF Composed
  <1> HIDE DEF first
  <1> DEFINE t == first.toolScore
  <1>4. t \in 0 .. One
    BY <1>2 DEF IsTrajectory
  <1>5. IsFinished(FinishTool(first))
    BY <1>2, <1>4, FinishedWith DEF FinishTool
  <1>6. IsFinished(ComposeResultUsage(version, first, resp.says))
    <2>1. CASE version < 7
      <3> DEFINE k == IF AnswerCarriesValue(resp.says, "needle") /\ ~AnswerCarriesValue(resp.says, "decoy")
                      THEN One ELSE 0
                 x == (4 * t + 6 * k) \div 10
      <3>1. ComposeResultUsage(version, first, resp.says) = [first EXCEPT !.score = x]
        BY <2>1 DEF ComposeResultUsage, ComposeResultUsageWithDecoy
      <3>2. k \in 0 .. One
        BY DEF One
      <3> HIDE DEF t, k
      <3>3. x \in 0 .. One
        BY <1>4, <3>2 DEF One
      <3> HIDE DEF x
      <3> QED  BY <1>2, <3>1, <3>3, FinishedWith
    <2>2. CASE ~(version < 7)
      <3> DEFINE gate == CASE AnswerCarriesValue(resp.says, "decoy") -> 0
                           [] ~AnswerCarriesValue(resp.says, "decoy") /\ AnswerCarriesValue(resp.says, "needle") -> One
                           [] OTHER -> V7.missGate
                 x == Scaled(t, gate)
      <3>1. ComposeResultUsage(version, first, resp.says) = [first EXCEPT !.score = x]
        BY <2>2 DEF ComposeResultUsage
      <3>2. gate \in 0 .. One
        BY DEF V7, One
      <3> HIDE DEF t, gate
      <3>3. x \in 0 .. One
        BY <1>4, <3>2, ScaledIsAFraction
      <3> HIDE DEF x
      <3> QED  BY <1>2, <3>1, <3>3, FinishedWith
    <2> QED  BY <2>1, <2>2
  <1> HIDE DEF whole
  <1>7. IsFinished(whole)
    BY <1>3, <1>5, <1>6
  <1>8. IsFinished(weighed)
    <2>1. weighed = whole \/ weighed = [whole EXCEPT !.score = Scaled(whole.score, V7.mismatch)]
      BY DEF ApplyTrajectoryMismatch
    <2>2. V7.mismatch \in 0 .. One /\ whole.score \in 0 .. One /\ IsTrajectory(whole)
      BY <1>7 DEF V7, One, IsFinished
    <2>3. Scaled(whole.score, V7.mismatch) \in 0 .. One
      BY <2>2, ScaledIsAFraction
    <2> HIDE DEF weighed
    <2> QED  BY <1>7, <2>1, <2>2, <2>3, FinishedWith
  <1> HIDE DEF weighed
  <1>9. IsFinished(capped)
    <2>1. UnobservedCeiling(scope, version) \in Nat /\ weighed.score \in 0 .. One /\ IsTrajectory(weighed)
      BY <1>8, CeilingIsNatural DEF IsFinished
    <2> DEFINE score == weighed.score
               ceiling == UnobservedCeiling(scope, version)
    <2>2. Least(score, ceiling) \in 0 .. One
      <3> HIDE DEF score, ceiling
      <3> SUFFICES ASSUME ceiling \in Nat, score \in 0 .. One  PROVE Least(score, ceiling) \in 0 .. One
        BY <2>1 DEF score, ceiling
      <3> QED  BY DEF Least, One
    <2> QED  BY <2>1, <2>2, FinishedWith DEF CapUnobserved
  <1> HIDE DEF capped
  <1> QED  BY <1>1, <1>8, <1>9 DEF IsFinished, IsTrajectory, IsScored

LEMMA MemoryCaseIsScored ==
  ASSUME NEW mc, NEW resp, DOMAIN resp = {"calls", "says"}, IsList(resp.calls),
         NEW delivered \in BOOLEAN, NEW observed, IsList(observed)
  PROVE  IsScored(GradeMemoryCase(mc, resp, delivered, observed))
  <1> DEFINE kept == WithObservedTrajectory(resp, observed)
             first == GradeMemory(mc, kept)
             row == GradeMemoryCase(mc, resp, delivered, observed)
  <1>1. IsList(kept.calls)
    BY DEF WithObservedTrajectory
  <1>2. IsList(Names(kept.calls)) /\ IsList(<<>>)
    BY <1>1, NamesAreAList DEF IsList
  <1>3. MemoryVerdict(mc, kept) \in 0 .. One
    BY DEF MemoryVerdict, One
  <1> HIDE DEF kept
  <1>4. /\ first.score = MemoryVerdict(mc, kept) /\ first.called = Names(kept.calls) /\ first.expected = <<>>
        /\ DOMAIN first = DOMAIN ZeroScore
    BY DEF GradeMemory, ZeroScore
  <1>5. row = [first EXCEPT !.undelivered = ~delivered, !.observed = observed # <<>>]
    BY DEF GradeMemoryCase, kept
  <1> HIDE DEF first, row
  <1>6. row.score = first.score /\ row.called = first.called /\ row.expected = first.expected
    BY <1>4, <1>5 DEF ZeroScore
  <1> QED  BY <1>2, <1>3, <1>4, <1>6 DEF IsScored, row

=============================================================================
