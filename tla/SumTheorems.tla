---------------------------- MODULE SumTheorems -----------------------------
(***************************************************************************)
(* What SumFunctionOnSet computes for every finite set.  It is a fold, a   *)
(* recursive function on the subsets of the set; the proofs go by          *)
(* well-founded induction on those.  Induction is over a set C of subsets, *)
(* and not over a predicate, so that it needs no operator as parameter.    *)
(***************************************************************************)
EXTENDS Integers, Functions, FiniteSetTheorems, WellFoundedInduction, TLAPS

(* A set of subsets of a finite S that contains each subset whose strict   *)
(* subsets it contains is the set of all.                                  *)
LEMMA SubsetInduction ==
  ASSUME NEW S, IsFiniteSet(S), NEW C,
         \A T \in SUBSET S : (\A U \in SUBSET T : U # T => U \in C) => T \in C
  PROVE  SUBSET S \subseteq C
<1> DEFINE Bad == {T \in SUBSET S : T \notin C}
<1>1. IsWellFoundedOn(StrictSubsetOrdering(S), FiniteSubsetsOf(S))
  BY FS_StrictSubsetOrderingWellFounded
<1>2. Bad \subseteq FiniteSubsetsOf(S)
  BY FS_FiniteSubsetsOfFinite
<1>3. CASE Bad # {}
  <2> HIDE DEF Bad
  <2>1. PICK T \in Bad : \A U \in Bad : ~(<<U, T>> \in StrictSubsetOrdering(S))
    BY <1>1, <1>2, <1>3, WFMin
  <2>2. \A U \in SUBSET T : U # T => U \in C
    BY <2>1 DEF StrictSubsetOrdering, Bad
  <2> QED
    BY <2>1, <2>2 DEF Bad
<1> QED
  BY <1>3

-----------------------------------------------------------------------------
(* The recursion equation of the fold, for the functions g on the subsets  *)
(* of S.                                                                   *)
Picked(s)     == CHOOSE x \in s : TRUE
FoldTurn(f, s, g) == IF s = {} THEN 0 ELSE f[Picked(s)] + g[s \ {Picked(s)}]
IsFold(f, S, g) == g = [s \in SUBSET S |-> FoldTurn(f, s, g)]

LEMMA PickedIsIn == \A s : s # {} => Picked(s) \in s
  BY DEF Picked

LEMMA SumIsChoice ==
  ASSUME NEW f, NEW S
  PROVE  SumFunctionOnSet(f, S) = (CHOOSE g : IsFold(f, S, g))[S]
  BY Zenon DEF SumFunctionOnSet, FoldFunctionOnSet, MapThenFoldSet, FoldTurn, IsFold, Picked

(* Two solutions agree where both are defined.                             *)
LEMMA FoldUnique ==
  ASSUME NEW f, NEW S, IsFiniteSet(S), NEW g, NEW h, IsFold(f, S, g), IsFold(f, S, h)
  PROVE  g[S] = h[S]
<1> DEFINE C == {s \in SUBSET S : g[s] = h[s]}
<1>1. ASSUME NEW s \in SUBSET S, \A u \in SUBSET s : u # s => u \in C
      PROVE  s \in C
  <2>1. g[s] = FoldTurn(f, s, g) /\ h[s] = FoldTurn(f, s, h)
    BY DEF IsFold
  <2>2. CASE s = {}
    BY <2>1, <2>2 DEF FoldTurn
  <2>3. CASE s # {}
    BY <1>1, <2>1, <2>3, PickedIsIn DEF FoldTurn
  <2> QED
    BY <2>2, <2>3
<1>2. SUBSET S \subseteq C
  <2> HIDE DEF C
  <2> QED
    BY <1>1, SubsetInduction
<1> QED
  BY <1>2

(* The sum satisfies the equation: sums of the subsets are a solution.     *)
LEMMA SumUnfolds ==
  ASSUME NEW f, NEW S, IsFiniteSet(S)
  PROVE  SumFunctionOnSet(f, S) =
           IF S = {} THEN 0
           ELSE f[Picked(S)] + SumFunctionOnSet(f, S \ {Picked(S)})
<1> DEFINE Eq(s) == IF s = {} THEN 0
                    ELSE f[Picked(s)] + SumFunctionOnSet(f, s \ {Picked(s)})
           C == {s \in SUBSET S : SumFunctionOnSet(f, s) = Eq(s)}
<1>1. ASSUME NEW s \in SUBSET S, \A u \in SUBSET s : u # s => u \in C
      PROVE  s \in C
  <2> DEFINE h == [u \in SUBSET s |-> IF u = s THEN Eq(s) ELSE SumFunctionOnSet(f, u)]
             g == CHOOSE g : IsFold(f, s, g)
  <2>1. ASSUME NEW u \in SUBSET s PROVE h[u] = FoldTurn(f, u, h)
    <3>1. CASE u = {}
      <4>1. u = s => Eq(s) = 0
        BY <3>1
      <4>2. u # s => SumFunctionOnSet(f, u) = 0
        BY <3>1, <1>1
      <4> QED
        BY <3>1, <4>1, <4>2 DEF FoldTurn
    <3>2. CASE u # {}
      <4>1. Picked(u) \in u
        BY <3>2, PickedIsIn
      <4>2. u \ {Picked(u)} \in SUBSET s /\ u \ {Picked(u)} # s
        BY <4>1
      <4>3. h[u \ {Picked(u)}] = SumFunctionOnSet(f, u \ {Picked(u)})
        BY <4>2
      <4>4. h[u] = f[Picked(u)] + SumFunctionOnSet(f, u \ {Picked(u)})
        BY <3>2, <1>1
      <4> QED
        BY <3>2, <4>3, <4>4 DEF FoldTurn
    <3> QED
      BY <3>1, <3>2
  <2>2. IsFold(f, s, h)
    <3> HIDE DEF h
    <3>1. h = [u \in SUBSET s |-> h[u]]
      BY DEF h
    <3> QED
      BY <2>1, <3>1 DEF IsFold
  <2>3. IsFold(f, s, g)
    BY <2>2
  <2>4. IsFiniteSet(s)
    BY FS_Subset
  <2>5. SumFunctionOnSet(f, s) = h[s]
    <3> HIDE DEF h, g
    <3> QED
      BY <2>2, <2>3, <2>4, FoldUnique, SumIsChoice DEF g
  <2> QED
    BY <2>5
<1>2. SUBSET S \subseteq C
  <2> HIDE DEF C
  <2> QED
    BY <1>1, SubsetInduction
<1> QED
  BY <1>2

-----------------------------------------------------------------------------
LEMMA SumEmpty == \A f : SumFunctionOnSet(f, {}) = 0
  BY SumUnfolds, FS_EmptySet

LEMMA SumInt ==
  ASSUME NEW S, IsFiniteSet(S), NEW f, \A x \in S : f[x] \in Int
  PROVE  SumFunctionOnSet(f, S) \in Int
<1> DEFINE C == {s \in SUBSET S : SumFunctionOnSet(f, s) \in Int}
<1>1. ASSUME NEW s \in SUBSET S, \A u \in SUBSET s : u # s => u \in C
      PROVE  s \in C
  <2>1. IsFiniteSet(s)
    BY FS_Subset
  <2>2. CASE s = {}
    BY <2>2, SumEmpty
  <2>3. CASE s # {}
    <3>1. Picked(s) \in s
      BY <2>3, PickedIsIn
    <3>2. SumFunctionOnSet(f, s \ {Picked(s)}) \in Int
      BY <1>1, <3>1
    <3> QED
      BY <2>1, <2>3, <3>1, <3>2, SumUnfolds
  <2> QED
    BY <2>2, <2>3
<1>2. SUBSET S \subseteq C
  <2> HIDE DEF C
  <2> QED
    BY <1>1, SubsetInduction
<1> QED
  BY <1>2

(* Whichever element is taken out first: the sum does not depend on the     *)
(* order in which the fold picks them.                                      *)
LEMMA SumRemove ==
  ASSUME NEW S, IsFiniteSet(S), NEW f, \A x \in S : f[x] \in Int, NEW a \in S
  PROVE  SumFunctionOnSet(f, S) = f[a] + SumFunctionOnSet(f, S \ {a})
<1> DEFINE Sum(s) == SumFunctionOnSet(f, s)
           C == {s \in SUBSET S : \A x \in s : Sum(s) = f[x] + Sum(s \ {x})}
<1>1. ASSUME NEW s \in SUBSET S, \A u \in SUBSET s : u # s => u \in C, NEW x \in s
      PROVE  Sum(s) = f[x] + Sum(s \ {x})
  <2> DEFINE c == Picked(s)
  <2>1. IsFiniteSet(s) /\ IsFiniteSet(s \ {x}) /\ c \in s
    BY FS_Subset, PickedIsIn
  <2>2. Sum(s) = f[c] + Sum(s \ {c})
    BY <2>1, SumUnfolds
  <2>3. CASE c # x
    <3>1. s \ {c} \in C /\ s \ {x} \in C
      BY <1>1, <2>1
    <3>2. Sum(s \ {c}) = f[x] + Sum((s \ {c}) \ {x})
      BY <2>3, <3>1
    <3>3. Sum(s \ {x}) = f[c] + Sum((s \ {x}) \ {c})
      BY <2>1, <2>3, <3>1
    <3>4. (s \ {c}) \ {x} = (s \ {x}) \ {c}
      OBVIOUS
    <3>5. Sum((s \ {x}) \ {c}) \in Int
      BY <2>1, FS_Subset, SumInt
    <3>6. f[c] \in Int /\ f[x] \in Int
      BY <2>1
    <3>7. Sum(s) = f[c] + (f[x] + Sum((s \ {x}) \ {c}))
      BY <2>2, <3>2, <3>4, Zenon
    <3>8. Sum(s) = f[x] + (f[c] + Sum((s \ {x}) \ {c}))
      <4> HIDE DEF c, Sum
      <4> QED
        BY <3>5, <3>6, <3>7
    <3> QED
      BY <3>3, <3>8, Zenon
  <2> QED
    BY <2>2, <2>3
<1>2. SUBSET S \subseteq C
  <2>1. ASSUME NEW s \in SUBSET S, \A u \in SUBSET s : u # s => u \in C
        PROVE  s \in C
    BY <1>1, <2>1
  <2> HIDE DEF C
  <2> QED
    BY <2>1, SubsetInduction
<1> QED
  BY <1>2

LEMMA SumAdd ==
  ASSUME NEW S, IsFiniteSet(S), NEW a, a \notin S, NEW f, \A x \in S \cup {a} : f[x] \in Int
  PROVE  SumFunctionOnSet(f, S \cup {a}) = f[a] + SumFunctionOnSet(f, S)
<1>1. IsFiniteSet(S \cup {a}) /\ (S \cup {a}) \ {a} = S
  BY FS_AddElement
<1> QED
  BY <1>1, SumRemove

LEMMA SumSingleton ==
  ASSUME NEW a, NEW f, f[a] \in Int
  PROVE  SumFunctionOnSet(f, {a}) = f[a]
<1>1. {} \cup {a} = {a} /\ IsFiniteSet({})
  BY FS_EmptySet
<1> QED
  BY <1>1, SumAdd, SumEmpty

LEMMA SumTwo ==
  ASSUME NEW a, NEW b, a # b, NEW f, f[a] \in Int, f[b] \in Int
  PROVE  SumFunctionOnSet(f, {a, b}) = f[a] + f[b]
<1>1. {a} \cup {b} = {a, b} /\ b \notin {a} /\ \A x \in {a} \cup {b} : f[x] \in Int
  OBVIOUS
<1>2. IsFiniteSet({a})
  <2>1. {} \cup {a} = {a}
    OBVIOUS
  <2> QED
    BY <2>1, FS_EmptySet, FS_AddElement
<1>3. SumFunctionOnSet(f, {a, b}) = f[b] + SumFunctionOnSet(f, {a})
  BY <1>1, <1>2, SumAdd
<1>4. SumFunctionOnSet(f, {a}) = f[a]
  BY SumSingleton
<1> QED
  BY <1>3, <1>4

(* The sum depends on the values on the set only, and grows with them.     *)
LEMMA SumLeq ==
  ASSUME NEW S, IsFiniteSet(S), NEW f, NEW g,
         \A x \in S : f[x] \in Int /\ g[x] \in Int /\ f[x] <= g[x]
  PROVE  SumFunctionOnSet(f, S) <= SumFunctionOnSet(g, S)
<1> DEFINE C == {s \in SUBSET S : SumFunctionOnSet(f, s) <= SumFunctionOnSet(g, s)}
<1>1. ASSUME NEW s \in SUBSET S, \A u \in SUBSET s : u # s => u \in C
      PROVE  s \in C
  <2>1. IsFiniteSet(s)
    BY FS_Subset
  <2>2. CASE s = {}
    BY <2>2, SumEmpty
  <2>3. CASE s # {}
    <3>1. PICK x \in s : TRUE
      BY <2>3
    <3>2. /\ SumFunctionOnSet(f, s) = f[x] + SumFunctionOnSet(f, s \ {x})
          /\ SumFunctionOnSet(g, s) = g[x] + SumFunctionOnSet(g, s \ {x})
      BY <2>1, SumRemove
    <3>3. SumFunctionOnSet(f, s \ {x}) <= SumFunctionOnSet(g, s \ {x})
      BY <1>1, <3>1
    <3>4. SumFunctionOnSet(f, s \ {x}) \in Int /\ SumFunctionOnSet(g, s \ {x}) \in Int
      BY <2>1, FS_Subset, SumInt
    <3> QED
      BY <3>2, <3>3, <3>4
  <2> QED
    BY <2>2, <2>3
<1>2. SUBSET S \subseteq C
  <2> HIDE DEF C
  <2> QED
    BY <1>1, SubsetInduction
<1> QED
  BY <1>2

LEMMA SumEqual ==
  ASSUME NEW S, IsFiniteSet(S), NEW f, NEW g, \A x \in S : f[x] \in Int /\ f[x] = g[x]
  PROVE  SumFunctionOnSet(f, S) = SumFunctionOnSet(g, S)
<1>1. /\ SumFunctionOnSet(f, S) <= SumFunctionOnSet(g, S)
      /\ SumFunctionOnSet(g, S) <= SumFunctionOnSet(f, S)
  BY SumLeq
<1> QED
  BY <1>1, SumInt

LEMMA SumZero ==
  ASSUME NEW S, IsFiniteSet(S), NEW f, \A x \in S : f[x] = 0
  PROVE  SumFunctionOnSet(f, S) = 0
<1> DEFINE C == {s \in SUBSET S : SumFunctionOnSet(f, s) = 0}
<1>1. ASSUME NEW s \in SUBSET S, \A u \in SUBSET s : u # s => u \in C
      PROVE  s \in C
  <2>1. IsFiniteSet(s)
    BY FS_Subset
  <2>2. CASE s # {}
    <3>1. Picked(s) \in s
      BY <2>2, PickedIsIn
    <3>2. SumFunctionOnSet(f, s \ {Picked(s)}) = 0
      BY <1>1, <3>1
    <3>3. SumFunctionOnSet(f, s) = f[Picked(s)] + SumFunctionOnSet(f, s \ {Picked(s)})
      BY <2>1, <2>2, SumUnfolds
    <3>4. f[Picked(s)] = 0
      BY <3>1
    <3> QED
      BY <3>2, <3>3, <3>4
  <2> QED
    BY <2>2, SumEmpty
<1>2. SUBSET S \subseteq C
  <2> HIDE DEF C
  <2> QED
    BY <1>1, SubsetInduction
<1> QED
  BY <1>2

LEMMA SumNat ==
  ASSUME NEW S, IsFiniteSet(S), NEW f, \A x \in S : f[x] \in Nat
  PROVE  SumFunctionOnSet(f, S) \in Nat
<1> DEFINE z == [x \in S |-> 0]
<1>1. SumFunctionOnSet(z, S) = 0
  BY SumZero
<1>2. SumFunctionOnSet(z, S) <= SumFunctionOnSet(f, S)
  BY SumLeq
<1> QED
  BY <1>1, <1>2, SumInt

(* The sum over a set in two parts is the sum of the sums.                 *)
LEMMA SumUnion ==
  ASSUME NEW S, IsFiniteSet(S), NEW T, IsFiniteSet(T), S \cap T = {},
         NEW f, \A x \in S \cup T : f[x] \in Int
  PROVE  SumFunctionOnSet(f, S \cup T) = SumFunctionOnSet(f, S) + SumFunctionOnSet(f, T)
<1> DEFINE Sum(s) == SumFunctionOnSet(f, s)
           C == {s \in SUBSET S : Sum(s \cup T) = Sum(s) + Sum(T)}
<1>1. ASSUME NEW s \in SUBSET S, \A u \in SUBSET s : u # s => u \in C
      PROVE  s \in C
  <2>1. IsFiniteSet(s) /\ IsFiniteSet(s \cup T) /\ Sum(T) \in Int
    BY FS_Subset, FS_Union, SumInt
  <2>2. CASE s = {}
    <3>1. s \cup T = T
      BY <2>2
    <3> QED
      BY <2>1, <2>2, <3>1, SumEmpty
  <2>3. CASE s # {}
    <3>1. PICK x \in s : TRUE
      BY <2>3
    <3>2. Sum(s) = f[x] + Sum(s \ {x}) /\ Sum(s \cup T) = f[x] + Sum((s \cup T) \ {x})
      BY <2>1, SumRemove
    <3>3. (s \cup T) \ {x} = (s \ {x}) \cup T
      BY <3>1
    <3>4. Sum((s \ {x}) \cup T) = Sum(s \ {x}) + Sum(T)
      BY <1>1, <3>1
    <3>5. Sum(s \ {x}) \in Int /\ f[x] \in Int
      BY <2>1, FS_Subset, SumInt
    <3>6. Sum(s \cup T) = f[x] + (Sum(s \ {x}) + Sum(T))
      BY <3>2, <3>3, <3>4, Zenon
    <3>7. Sum(s \cup T) = (f[x] + Sum(s \ {x})) + Sum(T)
      <4> HIDE DEF Sum
      <4> QED
        BY <2>1, <3>5, <3>6
    <3> QED
      BY <3>2, <3>7, Zenon
  <2> QED
    BY <2>2, <2>3
<1>2. SUBSET S \subseteq C
  <2> HIDE DEF C
  <2> QED
    BY <1>1, SubsetInduction
<1>3. S \in C
  BY <1>2
<1> QED
  BY <1>3

(* The sum of the sums of two functions is the sum of the values' sums.    *)
LEMMA SumPlus ==
  ASSUME NEW S, IsFiniteSet(S), NEW f, NEW g, NEW h,
         \A x \in S : f[x] \in Int /\ g[x] \in Int /\ h[x] = f[x] + g[x]
  PROVE  SumFunctionOnSet(h, S) = SumFunctionOnSet(f, S) + SumFunctionOnSet(g, S)
<1> DEFINE C == {s \in SUBSET S : SumFunctionOnSet(h, s)
                                    = SumFunctionOnSet(f, s) + SumFunctionOnSet(g, s)}
<1>1. ASSUME NEW s \in SUBSET S, \A u \in SUBSET s : u # s => u \in C
      PROVE  s \in C
  <2>1. IsFiniteSet(s)
    BY FS_Subset
  <2>2. CASE s = {}
    BY <2>2, SumEmpty
  <2>3. CASE s # {}
    <3>1. PICK x \in s : TRUE
      BY <2>3
    <3>2. /\ SumFunctionOnSet(f, s) = f[x] + SumFunctionOnSet(f, s \ {x})
          /\ SumFunctionOnSet(g, s) = g[x] + SumFunctionOnSet(g, s \ {x})
          /\ SumFunctionOnSet(h, s) = h[x] + SumFunctionOnSet(h, s \ {x})
      BY <2>1, SumRemove
    <3>3. s \ {x} \in C
      BY <1>1, <3>1
    <3>4. SumFunctionOnSet(f, s \ {x}) \in Int /\ SumFunctionOnSet(g, s \ {x}) \in Int
      BY <2>1, FS_Subset, SumInt
    <3> QED
      BY <3>2, <3>3, <3>4
  <2> QED
    BY <2>2, <2>3
<1>2. SUBSET S \subseteq C
  <2> HIDE DEF C
  <2> QED
    BY <1>1, SubsetInduction
<1> QED
  BY <1>2

(* A common factor.                                                        *)
LEMMA SumScale ==
  ASSUME NEW S, IsFiniteSet(S), NEW c \in Int, NEW f, NEW g,
         \A x \in S : f[x] \in Int /\ g[x] = c * f[x]
  PROVE  SumFunctionOnSet(g, S) = c * SumFunctionOnSet(f, S)
<1> DEFINE C == {s \in SUBSET S : SumFunctionOnSet(g, s) = c * SumFunctionOnSet(f, s)}
<1>1. ASSUME NEW s \in SUBSET S, \A u \in SUBSET s : u # s => u \in C
      PROVE  s \in C
  <2>1. IsFiniteSet(s)
    BY FS_Subset
  <2>2. CASE s = {}
    BY <2>2, SumEmpty
  <2>3. CASE s # {}
    <3>1. PICK x \in s : TRUE
      BY <2>3
    <3> DEFINE F == SumFunctionOnSet(f, s \ {x})
    <3>2. \A y \in S : g[y] \in Int
      OBVIOUS
    <3>3. /\ SumFunctionOnSet(f, s) = f[x] + F
          /\ SumFunctionOnSet(g, s) = g[x] + SumFunctionOnSet(g, s \ {x})
      BY <2>1, <3>2, SumRemove
    <3>4. SumFunctionOnSet(g, s \ {x}) = c * F
      BY <1>1, <3>1
    <3>5. F \in Int /\ f[x] \in Int /\ g[x] = c * f[x]
      BY <2>1, FS_Subset, SumInt
    <3>6. \A a, b \in Int : c * a + c * b = c * (a + b)
      OBVIOUS
    <3> HIDE DEF F
    <3>7. SumFunctionOnSet(g, s) = c * (f[x] + F)
      BY <3>3, <3>4, <3>5, <3>6
    <3> QED
      BY <3>3, <3>7
  <2> QED
    BY <2>2, <2>3
<1>2. SUBSET S \subseteq C
  <2> HIDE DEF C
  <2> QED
    BY <1>1, SubsetInduction
<1> QED
  BY <1>2

(* A sum of equal terms.                                                   *)
LEMMA SumOnes ==
  ASSUME NEW S, IsFiniteSet(S), NEW f, \A x \in S : f[x] = 1
  PROVE  SumFunctionOnSet(f, S) = Cardinality(S)
<1> DEFINE C == {s \in SUBSET S : SumFunctionOnSet(f, s) = Cardinality(s)}
<1>1. ASSUME NEW s \in SUBSET S, \A u \in SUBSET s : u # s => u \in C
      PROVE  s \in C
  <2>1. IsFiniteSet(s) /\ Cardinality(s) \in Nat
    BY FS_Subset, FS_CardinalityType
  <2>2. CASE s = {}
    BY <2>2, SumEmpty, FS_EmptySet
  <2>3. CASE s # {}
    <3>1. PICK x \in s : TRUE
      BY <2>3
    <3>2. \A y \in s : f[y] \in Int
      OBVIOUS
    <3>3. SumFunctionOnSet(f, s) = f[x] + SumFunctionOnSet(f, s \ {x})
      BY <2>1, <3>2, SumRemove
    <3>4. SumFunctionOnSet(f, s \ {x}) = Cardinality(s \ {x})
      BY <1>1, <3>1
    <3>5. Cardinality(s \ {x}) = Cardinality(s) - 1
      BY <2>1, <3>1, FS_RemoveElement
    <3>6. f[x] = 1
      BY <3>1
    <3> QED
      BY <2>1, <3>3, <3>4, <3>5, <3>6
  <2> QED
    BY <2>2, <2>3
<1>2. SUBSET S \subseteq C
  <2> HIDE DEF C
  <2> QED
    BY <1>1, SubsetInduction
<1> QED
  BY <1>2

LEMMA SumConstant ==
  ASSUME NEW S, IsFiniteSet(S), NEW c \in Int, NEW f, \A x \in S : f[x] = c
  PROVE  SumFunctionOnSet(f, S) = c * Cardinality(S)
<1> DEFINE ones == [x \in S |-> 1]
<1>1. \A x \in S : ones[x] \in Int /\ ones[x] = 1 /\ f[x] = c * ones[x]
  OBVIOUS
<1> HIDE DEF ones
<1>2. SumFunctionOnSet(ones, S) = Cardinality(S)
  BY <1>1, SumOnes
<1>3. SumFunctionOnSet(f, S) = c * SumFunctionOnSet(ones, S)
  BY <1>1, SumScale
<1> QED
  BY <1>2, <1>3

(* Summing group by group: key[x] is the group of x.                       *)
LEMMA SumByKey ==
  ASSUME NEW S, IsFiniteSet(S), NEW K, IsFiniteSet(K), NEW key, \A x \in S : key[x] \in K,
         NEW f, \A x \in S : f[x] \in Int
  PROVE  SumFunctionOnSet(f, S) =
           SumFunctionOnSet([k \in K |-> SumFunctionOnSet(f, {x \in S : key[x] = k})], K)
<1> DEFINE Group(k) == {x \in S : key[x] = k}
           Of(L) == {x \in S : key[x] \in L}
           h == [k \in K |-> SumFunctionOnSet(f, Group(k))]
           C == {L \in SUBSET K : SumFunctionOnSet(f, Of(L)) = SumFunctionOnSet(h, L)}
<1>1. ASSUME NEW L \in SUBSET K, \A U \in SUBSET L : U # L => U \in C
      PROVE  L \in C
  <2>1. IsFiniteSet(L) /\ \A k \in K : h[k] \in Int
    BY FS_Subset, SumInt
  <2>2. CASE L = {}
    <3>1. Of(L) = {}
      BY <2>2
    <3> QED
      BY <2>2, <3>1, SumEmpty
  <2>3. CASE L # {}
    <3>1. PICK k \in L : TRUE
      BY <2>3
    <3>2. Of(L) = Of(L \ {k}) \cup Group(k) /\ Of(L \ {k}) \cap Group(k) = {}
      BY <3>1
    <3>3. IsFiniteSet(Of(L \ {k})) /\ IsFiniteSet(Group(k))
      BY FS_Subset
    <3>4. SumFunctionOnSet(f, Of(L \ {k}) \cup Group(k))
            = SumFunctionOnSet(f, Of(L \ {k})) + SumFunctionOnSet(f, Group(k))
      <4>1. \A x \in Of(L \ {k}) \cup Group(k) : f[x] \in Int
        OBVIOUS
      <4> HIDE DEF Of, Group
      <4> QED
        BY <3>2, <3>3, <4>1, SumUnion
    <3>5. SumFunctionOnSet(f, Of(L \ {k})) = SumFunctionOnSet(h, L \ {k})
      BY <1>1, <3>1
    <3>6. SumFunctionOnSet(h, L) = h[k] + SumFunctionOnSet(h, L \ {k})
      <4> HIDE DEF h
      <4> QED
        BY <2>1, <3>1, SumRemove
    <3>7. SumFunctionOnSet(h, L \ {k}) \in Int /\ h[k] \in Int
          /\ h[k] = SumFunctionOnSet(f, Group(k))
      <4>1. h[k] = SumFunctionOnSet(f, Group(k))
        BY <3>1
      <4> HIDE DEF h
      <4> QED
        BY <2>1, <3>1, <4>1, FS_Subset, SumInt
    <3> HIDE DEF h, Of, Group
    <3>8. SumFunctionOnSet(f, Of(L)) = SumFunctionOnSet(h, L)
      BY <3>2, <3>4, <3>5, <3>6, <3>7
    <3> QED
      BY <3>8
  <2> QED
    BY <2>2, <2>3
<1>2. SUBSET K \subseteq C
  <2> HIDE DEF C
  <2> QED
    BY <1>1, SubsetInduction
<1>3. Of(K) = S
  OBVIOUS
<1>4. SumFunctionOnSet(f, Of(K)) = SumFunctionOnSet(h, K)
  <2>1. K \in C
    BY <1>2
  <2> HIDE DEF h, Of
  <2> QED
    BY <2>1
<1> HIDE DEF Of
<1> QED
  BY <1>3, <1>4
=============================================================================
