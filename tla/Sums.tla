-------------------------------- MODULE Sums --------------------------------
(* What the proofs need of sums over finite sets, of listings in order and of
   counting.  A sum is a fold, and a fold is a recursive function: the first
   part shows that the recursion has a solution on a finite set, and from there
   on a sum is known by two facts, TotalEmpty and TotalInsert.  The library's
   induction theorems take an operator as parameter; the inductions here are
   over a set of numbers, or a set of sets.                                  *)
EXTENDS Integers, Sequences, FiniteSets, FiniteSetsExt, FiniteSetTheorems, TLAPS

-----------------------------------------------------------------------------
\* Induction

\* A set of naturals with 0 that is closed under successor holds them all: the
\* least number outside of it would have a predecessor inside.
LEMMA Induction ==
  ASSUME NEW T, T \subseteq Nat, 0 \in T, \A n \in T : n + 1 \in T
  PROVE  T = Nat
<1> DEFINE R == OpToRel(<, Nat)
<1> DEFINE U == Nat \ T
<1>1. IsWellFoundedOn(R, Nat)
  BY NatLessThanWellFounded
<1>2. \A x, y \in Nat : <<x, y>> \in R <=> x < y
  BY DEF OpToRel
<1>3. SUFFICES ASSUME U # {} PROVE FALSE
  OBVIOUS
<1>4. \E x \in U : \A y \in U : ~(<<y, x>> \in R)
  BY <1>1, <1>3, WFMin
<1> HIDE DEF R
<1>5. PICK x \in U : \A y \in U : ~(<<y, x>> \in R)
  BY <1>4
<1>6. x \in Nat /\ x # 0 /\ x - 1 \in Nat /\ x - 1 < x /\ x - 1 + 1 = x
  BY <1>5
<1>7. x - 1 \notin U
  BY <1>2, <1>5, <1>6
<1> QED BY <1>5, <1>6, <1>7

\* A family of subsets of a finite set that has the empty one and is closed
\* under adding an element has the set itself.
LEMMA SetInduction ==
  ASSUME NEW S, IsFiniteSet(S), NEW T, {} \in T,
         \A s \in T : \A x \in S \ s : s \in SUBSET S => s \cup {x} \in T
  PROVE  S \in T
<1> DEFINE N == {n \in Nat : \A s \in SUBSET S : Cardinality(s) = n => s \in T}
<1>1. \A s \in SUBSET S : IsFiniteSet(s) /\ Cardinality(s) \in Nat
  BY FS_Subset, FS_CardinalityType
<1>2. 0 \in N
  <2>1. \A s \in SUBSET S : Cardinality(s) = 0 => s = {}
    BY <1>1, FS_EmptySet
  <2> QED BY <2>1
<1>3. ASSUME NEW n \in N PROVE n + 1 \in N
  <2> SUFFICES ASSUME NEW s \in SUBSET S, Cardinality(s) = n + 1 PROVE s \in T
    OBVIOUS
  <2>1. PICK x \in s : TRUE
    <3>1. Cardinality({}) = 0
      BY FS_EmptySet
    <3>2. s # {}
      BY <3>1
    <3> QED BY <3>2
  <2>2. Cardinality(s \ {x}) = n
    <3>1. Cardinality(s \ {x}) = Cardinality(s) - 1
      BY <1>1, FS_RemoveElement
    <3> QED BY <3>1
  <2>3. s \ {x} \in T /\ s \ {x} \in SUBSET S
    BY <1>3, <2>2
  <2>4. (s \ {x}) \cup {x} = s /\ x \in S \ (s \ {x})
    OBVIOUS
  <2> QED BY <2>3, <2>4
<1>4. N = Nat
  <2>1. N \subseteq Nat
    OBVIOUS
  <2> HIDE DEF N
  <2> QED BY <1>2, <1>3, <2>1, Induction
<1> QED BY <1>1, <1>4

-----------------------------------------------------------------------------
\* Sums

\* The sum of f over S, as MapThenSumSet and FoldFunctionOnSet compute it.
Total(f, S) == MapThenSumSet(LAMBDA x : f[x], S)

\* The row a fold over s takes first.
First(s) == CHOOSE x \in s : TRUE

\* The subsets of S with at most n elements.
Below(S, n) == {s \in SUBSET S : Cardinality(s) <= n}

\* g gives each set of D its sum, by the recursion of MapThenFoldSet.
AddsUp(f, g, D) ==
  g = [s \in D |-> IF s = {} THEN 0 ELSE f[First(s)] + g[s \ {First(s)}]]

\* The recursive function MapThenFoldSet chooses.
Iter(f, S) == CHOOSE g : AddsUp(f, g, SUBSET S)

\* Total, its definition unfolded down to the recursive function of the fold.
LEMMA TotalUnfolds ==
  ASSUME NEW f, NEW S
  PROVE  Total(f, S) = Iter(f, S)[S]
BY DEF Total, MapThenSumSet, MapThenFoldSet, Iter, AddsUp, First

\* Taking the first row off a set leaves one row less.
LEMMA FirstIsThere ==
  ASSUME NEW s, s # {}, IsFiniteSet(s)
  PROVE  /\ First(s) \in s
         /\ IsFiniteSet(s \ {First(s)})
         /\ Cardinality(s \ {First(s)}) = Cardinality(s) - 1
         /\ Cardinality(s) \in Nat \ {0}
<1>1. First(s) \in s
  BY DEF First
<1>2. Cardinality(s) \in Nat /\ Cardinality(s) # 0
  BY FS_CardinalityType, FS_EmptySet
<1> QED BY <1>1, <1>2, FS_RemoveElement

\* The recursion has a solution on the subsets of a finite set, by induction on
\* their size.
LEMMA AddsUpExists ==
  ASSUME NEW f, NEW S, IsFiniteSet(S), NEW n \in Nat
  PROVE  \E g : AddsUp(f, g, Below(S, n))
<1> DEFINE T == {m \in Nat : \E g : AddsUp(f, g, Below(S, m))}
<1>0. \A s \in SUBSET S : IsFiniteSet(s) /\ Cardinality(s) \in Nat
  BY FS_Subset, FS_CardinalityType
<1>1. 0 \in T
  <2> DEFINE g == [s \in Below(S, 0) |-> 0]
  <2>1. \A s \in Below(S, 0) : s = {}
    BY <1>0, FS_EmptySet DEF Below
  <2>2. AddsUp(f, g, Below(S, 0))
    BY <2>1 DEF AddsUp
  <2> QED BY <2>2
<1>2. ASSUME NEW m \in T PROVE m + 1 \in T
  <2>1. PICK g : AddsUp(f, g, Below(S, m))
    BY <1>2
  <2> DEFINE h == [s \in Below(S, m + 1) |-> IF s = {} THEN 0 ELSE f[First(s)] + g[s \ {First(s)}]]
  <2>2. \A s \in Below(S, m + 1) : s # {} => s \ {First(s)} \in Below(S, m)
    <3> SUFFICES ASSUME NEW s \in Below(S, m + 1), s # {}
                 PROVE  s \ {First(s)} \in Below(S, m)
      OBVIOUS
    <3>1. s \in SUBSET S /\ Cardinality(s) <= m + 1 /\ IsFiniteSet(s)
      BY <1>0 DEF Below
    <3>2. Cardinality(s \ {First(s)}) = Cardinality(s) - 1 /\ Cardinality(s) \in Nat
      BY <3>1, FirstIsThere
    <3>3. s \ {First(s)} \in SUBSET S
      BY <3>1
    <3> HIDE DEF h
    <3> QED BY <3>1, <3>2, <3>3 DEF Below
  <2>3. \A s \in Below(S, m) : s \in Below(S, m + 1) /\ h[s] = g[s]
    <3> SUFFICES ASSUME NEW s \in Below(S, m) PROVE s \in Below(S, m + 1) /\ h[s] = g[s]
      OBVIOUS
    <3>1. s \in Below(S, m + 1)
      BY <1>0 DEF Below
    <3>2. g[s] = IF s = {} THEN 0 ELSE f[First(s)] + g[s \ {First(s)}]
      BY <2>1 DEF AddsUp
    <3> QED BY <3>1, <3>2
  <2>4. \A s \in Below(S, m + 1) : s # {} => h[s \ {First(s)}] = g[s \ {First(s)}]
    BY <2>2, <2>3
  <2>5. AddsUp(f, h, Below(S, m + 1))
    BY <2>4 DEF AddsUp
  <2> QED BY <2>5
<1>3. T = Nat
  <2> HIDE DEF T
  <2>1. T \subseteq Nat
    BY DEF T
  <2> QED BY <1>1, <1>2, <2>1, Induction
<1> QED BY <1>3

\* So what the fold chooses is one.
LEMMA IterAddsUp ==
  ASSUME NEW f, NEW S, IsFiniteSet(S)
  PROVE  AddsUp(f, Iter(f, S), SUBSET S)
<1>1. Cardinality(S) \in Nat /\ \A s \in SUBSET S : Cardinality(s) <= Cardinality(S)
  BY FS_CardinalityType, FS_Subset
<1>2. Below(S, Cardinality(S)) = SUBSET S
  BY <1>1 DEF Below
<1>3. \E g : AddsUp(f, g, SUBSET S)
  BY <1>1, <1>2, AddsUpExists
<1> QED BY <1>3 DEF Iter

\* The fold over a subset computes what the fold over the set computes for it.
LEMMA IterAgrees ==
  ASSUME NEW f, NEW S, IsFiniteSet(S), NEW R \in SUBSET S
  PROVE  Iter(f, R)[R] = Iter(f, S)[R]
<1> DEFINE T == {n \in Nat : \A s \in SUBSET R : Cardinality(s) <= n => Iter(f, R)[s] = Iter(f, S)[s]}
<1>0. IsFiniteSet(R) /\ Cardinality(R) \in Nat
  BY FS_Subset, FS_CardinalityType
<1>1. \A s \in SUBSET R : IsFiniteSet(s) /\ Cardinality(s) \in Nat
  BY <1>0, FS_Subset, FS_CardinalityType
<1>2. \A s \in SUBSET R :
         /\ Iter(f, R)[s] = IF s = {} THEN 0 ELSE f[First(s)] + Iter(f, R)[s \ {First(s)}]
         /\ Iter(f, S)[s] = IF s = {} THEN 0 ELSE f[First(s)] + Iter(f, S)[s \ {First(s)}]
  <2>1. AddsUp(f, Iter(f, R), SUBSET R) /\ AddsUp(f, Iter(f, S), SUBSET S)
    BY <1>0, IterAddsUp
  <2> QED BY <2>1 DEF AddsUp
<1>3. 0 \in T
  <2>1. \A s \in SUBSET R : Cardinality(s) <= 0 => s = {}
    BY <1>1, FS_EmptySet
  <2> QED BY <1>2, <2>1
<1>4. ASSUME NEW n \in T PROVE n + 1 \in T
  <2> SUFFICES ASSUME NEW s \in SUBSET R, Cardinality(s) <= n + 1
               PROVE  Iter(f, R)[s] = Iter(f, S)[s]
    OBVIOUS
  <2>1. CASE s = {}
    BY <1>2, <2>1
  <2>2. CASE s # {}
    <3>1. Cardinality(s \ {First(s)}) = Cardinality(s) - 1 /\ Cardinality(s) \in Nat
      BY <1>1, <2>2, FirstIsThere
    <3>2. Iter(f, R)[s \ {First(s)}] = Iter(f, S)[s \ {First(s)}]
      BY <1>4, <3>1
    <3>3. /\ Iter(f, R)[s] = f[First(s)] + Iter(f, R)[s \ {First(s)}]
          /\ Iter(f, S)[s] = f[First(s)] + Iter(f, S)[s \ {First(s)}]
      BY <1>2, <2>2
    <3> QED BY <3>2, <3>3
  <2> QED BY <2>1, <2>2
<1>5. T = Nat
  <2>1. T \subseteq Nat
    OBVIOUS
  <2> HIDE DEF T
  <2> QED BY <1>3, <1>4, <2>1, Induction
<1>6. Cardinality(R) \in T
  BY <1>0, <1>5
<1> QED BY <1>0, <1>6

\* A sum is the first row's amount and the sum of the others.
LEMMA TotalFirst ==
  ASSUME NEW f, NEW S, IsFiniteSet(S)
  PROVE  Total(f, S) = IF S = {} THEN 0 ELSE f[First(S)] + Total(f, S \ {First(S)})
<1>1. Iter(f, S)[S] = IF S = {} THEN 0 ELSE f[First(S)] + Iter(f, S)[S \ {First(S)}]
  <2>1. AddsUp(f, Iter(f, S), SUBSET S)
    BY IterAddsUp
  <2> QED BY <2>1 DEF AddsUp
<1>2. Iter(f, S \ {First(S)})[S \ {First(S)}] = Iter(f, S)[S \ {First(S)}]
  BY IterAgrees
<1> QED BY <1>1, <1>2, TotalUnfolds

\* Whatever satisfies the recursion of a fold is its sum.
LEMMA TotalIsAny ==
  ASSUME NEW f, NEW S, IsFiniteSet(S), NEW g, AddsUp(f, g, SUBSET S)
  PROVE  g[S] = Total(f, S)
<1> DEFINE N == {n \in Nat : \A s \in SUBSET S : Cardinality(s) = n => g[s] = Total(f, s)}
<1>1. \A s \in SUBSET S : IsFiniteSet(s) /\ Cardinality(s) \in Nat
  BY FS_Subset, FS_CardinalityType
<1>2. \A s \in SUBSET S : g[s] = IF s = {} THEN 0 ELSE f[First(s)] + g[s \ {First(s)}]
  BY DEF AddsUp
<1>3. \A s \in SUBSET S : Total(f, s) = IF s = {} THEN 0 ELSE f[First(s)] + Total(f, s \ {First(s)})
  BY <1>1, TotalFirst
<1>4. 0 \in N
  <2>1. \A s \in SUBSET S : Cardinality(s) = 0 => s = {}
    BY <1>1, FS_EmptySet
  <2> QED BY <1>2, <1>3, <2>1
<1>5. ASSUME NEW n \in N PROVE n + 1 \in N
  <2> SUFFICES ASSUME NEW s \in SUBSET S, Cardinality(s) = n + 1 PROVE g[s] = Total(f, s)
    OBVIOUS
  <2>1. s # {}
    <3>1. Cardinality({}) = 0
      BY FS_EmptySet
    <3> QED BY <3>1
  <2>2. Cardinality(s \ {First(s)}) = n
    BY <1>1, <2>1, FirstIsThere
  <2>3. g[s \ {First(s)}] = Total(f, s \ {First(s)})
    BY <1>5, <2>2
  <2> QED BY <1>2, <1>3, <2>1, <2>3
<1>6. N = Nat
  <2>1. N \subseteq Nat
    OBVIOUS
  <2> HIDE DEF N
  <2> QED BY <1>4, <1>5, <2>1, Induction
<1> QED BY <1>1, <1>6

\* The sum over the empty set.
LEMMA TotalEmpty ==
  ASSUME NEW f
  PROVE  Total(f, {}) = 0
BY TotalFirst, FS_EmptySet

\* A sum of integers is one.
LEMMA TotalInt ==
  ASSUME NEW f, NEW S, IsFiniteSet(S), \A x \in S : f[x] \in Int
  PROVE  Total(f, S) \in Int
<1> DEFINE N == {n \in Nat : \A s \in SUBSET S : Cardinality(s) = n => Total(f, s) \in Int}
<1>1. \A s \in SUBSET S : IsFiniteSet(s) /\ Cardinality(s) \in Nat
  BY FS_Subset, FS_CardinalityType
<1>2. 0 \in N
  <2>1. \A s \in SUBSET S : Cardinality(s) = 0 => s = {}
    BY <1>1, FS_EmptySet
  <2> QED BY <2>1, TotalEmpty
<1>3. ASSUME NEW n \in N PROVE n + 1 \in N
  <2> SUFFICES ASSUME NEW s \in SUBSET S, Cardinality(s) = n + 1 PROVE Total(f, s) \in Int
    OBVIOUS
  <2>1. s # {}
    <3>1. Cardinality({}) = 0
      BY FS_EmptySet
    <3> QED BY <3>1
  <2>2. First(s) \in s /\ Cardinality(s \ {First(s)}) = n
    BY <1>1, <2>1, FirstIsThere
  <2>3. Total(f, s \ {First(s)}) \in Int
    BY <1>3, <2>2
  <2>4. Total(f, s) = f[First(s)] + Total(f, s \ {First(s)})
    BY <1>1, <2>1, TotalFirst
  <2> QED BY <2>2, <2>3, <2>4
<1>4. N = Nat
  <2>1. N \subseteq Nat
    OBVIOUS
  <2> HIDE DEF N
  <2> QED BY <1>2, <1>3, <2>1, Induction
<1> QED BY <1>1, <1>4

\* Which element is taken first does not matter.
LEMMA TotalRemove ==
  ASSUME NEW f, NEW S, IsFiniteSet(S), \A x \in S : f[x] \in Int, NEW y \in S
  PROVE  Total(f, S) = f[y] + Total(f, S \ {y})
<1> DEFINE N == {n \in Nat : \A s \in SUBSET S : Cardinality(s) = n =>
                      \A x \in s : Total(f, s) = f[x] + Total(f, s \ {x})}
<1>1. \A s \in SUBSET S : IsFiniteSet(s) /\ Cardinality(s) \in Nat
  BY FS_Subset, FS_CardinalityType
<1>2. 0 \in N
  <2>1. \A s \in SUBSET S : Cardinality(s) = 0 => s = {}
    BY <1>1, FS_EmptySet
  <2> QED BY <2>1
<1>3. ASSUME NEW n \in N PROVE n + 1 \in N
  <2> SUFFICES ASSUME NEW s \in SUBSET S, Cardinality(s) = n + 1, NEW x \in s
               PROVE  Total(f, s) = f[x] + Total(f, s \ {x})
    OBVIOUS
  <2> DEFINE c == First(s)
  <2>1. c \in s /\ Cardinality(s \ {c}) = n
    BY <1>1, FirstIsThere
  <2>2. Total(f, s) = f[c] + Total(f, s \ {c})
    BY <1>1, TotalFirst
  <2>3. CASE x = c
    BY <2>2, <2>3
  <2>4. CASE x # c
    <3>1. Total(f, s \ {c}) = f[x] + Total(f, (s \ {c}) \ {x})
      <4>1. s \ {c} \in SUBSET S /\ x \in s \ {c}
        BY <2>4
      <4> HIDE DEF c
      <4> QED BY <1>3, <2>1, <4>1
    <3>2. Total(f, s \ {x}) = f[c] + Total(f, (s \ {x}) \ {c})
      <4>1. Cardinality(s \ {x}) = n
        BY <1>1, FS_RemoveElement
      <4>2. s \ {x} \in SUBSET S /\ c \in s \ {x}
        BY <2>1, <2>4
      <4> HIDE DEF c
      <4> QED BY <1>3, <4>1, <4>2
    <3>3. (s \ {c}) \ {x} = (s \ {x}) \ {c}
      OBVIOUS
    <3>4. Total(f, (s \ {c}) \ {x}) \in Int /\ f[c] \in Int /\ f[x] \in Int
      <4>1. (s \ {c}) \ {x} \in SUBSET S
        OBVIOUS
      <4> QED BY <1>1, <2>1, <4>1, TotalInt
    <3>5. Total(f, s \ {x}) = f[c] + Total(f, (s \ {c}) \ {x})
      BY <3>2, <3>3
    <3> HIDE DEF c
    <3> QED BY <2>2, <3>1, <3>4, <3>5
  <2> QED BY <2>3, <2>4
<1>4. N = Nat
  <2>1. N \subseteq Nat
    OBVIOUS
  <2> HIDE DEF N
  <2> QED BY <1>2, <1>3, <2>1, Induction
<1> QED BY <1>1, <1>4

\* One element more adds its own amount.
LEMMA TotalInsert ==
  ASSUME NEW f, NEW S, IsFiniteSet(S), \A x \in S : f[x] \in Int,
         NEW y, y \notin S, f[y] \in Int
  PROVE  Total(f, S \cup {y}) = f[y] + Total(f, S)
<1>1. IsFiniteSet(S \cup {y})
  BY FS_AddElement
<1>2. (S \cup {y}) \ {y} = S
  OBVIOUS
<1> QED BY <1>1, <1>2, TotalRemove

\* A sum depends only on the amounts of its own elements.
LEMMA TotalSame ==
  ASSUME NEW f, NEW g, NEW S, IsFiniteSet(S),
         \A x \in S : f[x] \in Int /\ g[x] = f[x]
  PROVE  Total(g, S) = Total(f, S)
<1> DEFINE T == {s \in SUBSET S : Total(g, s) = Total(f, s)}
<1>1. {} \in T
  BY TotalEmpty
<1>2. ASSUME NEW s \in T, NEW x \in S \ s PROVE s \cup {x} \in T
  <2>1. IsFiniteSet(s) /\ s \in SUBSET S
    BY FS_Subset
  <2>2. Total(f, s \cup {x}) = f[x] + Total(f, s) /\ Total(g, s \cup {x}) = g[x] + Total(g, s)
    BY <2>1, TotalInsert
  <2> QED BY <2>1, <2>2
<1>3. S \in T
  <2> HIDE DEF T
  <2> QED BY <1>1, <1>2, SetInduction
<1> QED BY <1>3

\* The sum over two sets that share nothing.
LEMMA TotalUnion ==
  ASSUME NEW f, NEW R, IsFiniteSet(R), NEW S, IsFiniteSet(S), R \cap S = {},
         \A x \in R \cup S : f[x] \in Int
  PROVE  Total(f, R \cup S) = Total(f, R) + Total(f, S)
<1> DEFINE T == {s \in SUBSET S : Total(f, R \cup s) = Total(f, R) + Total(f, s)}
<1>0. Total(f, R) \in Int
  BY TotalInt
<1>1. {} \in T
  <2>1. R \cup {} = R
    OBVIOUS
  <2> QED BY <1>0, <2>1, TotalEmpty
<1>2. ASSUME NEW s \in T, NEW x \in S \ s PROVE s \cup {x} \in T
  <2>1. IsFiniteSet(s) /\ s \in SUBSET S /\ IsFiniteSet(R \cup s)
    BY FS_Subset, FS_Union
  <2>2. Total(f, s \cup {x}) = f[x] + Total(f, s)
    BY <2>1, TotalInsert
  <2>3. Total(f, (R \cup s) \cup {x}) = f[x] + Total(f, R \cup s)
    <3>1. x \notin R \cup s /\ f[x] \in Int /\ \A y \in R \cup s : f[y] \in Int
      OBVIOUS
    <3> QED BY <2>1, <3>1, TotalInsert
  <2>4. R \cup (s \cup {x}) = (R \cup s) \cup {x}
    OBVIOUS
  <2>5. Total(f, s) \in Int /\ f[x] \in Int
    BY <2>1, TotalInt
  <2>6. Total(f, R \cup s) = Total(f, R) + Total(f, s)
    OBVIOUS
  <2>7. Total(f, R \cup (s \cup {x})) = Total(f, R) + Total(f, s \cup {x})
    <3>1. Total(f, R \cup (s \cup {x})) = f[x] + (Total(f, R) + Total(f, s))
      BY <2>3, <2>4, <2>6
    <3> HIDE DEF T
    <3> QED BY <1>0, <2>2, <2>5, <3>1
  <2> QED BY <2>1, <2>7
<1>3. S \in T
  <2> HIDE DEF T
  <2> QED BY <1>1, <1>2, SetInduction
<1> QED BY <1>3

\* Sums of the same set add up element by element.
LEMMA TotalPlus ==
  ASSUME NEW f, NEW g, NEW h, NEW S, IsFiniteSet(S),
         \A x \in S : f[x] \in Int /\ g[x] \in Int /\ h[x] = f[x] + g[x]
  PROVE  Total(h, S) = Total(f, S) + Total(g, S)
<1> DEFINE T == {s \in SUBSET S : Total(h, s) = Total(f, s) + Total(g, s)}
<1>1. {} \in T
  BY TotalEmpty
<1>2. ASSUME NEW s \in T, NEW x \in S \ s PROVE s \cup {x} \in T
  <2>1. IsFiniteSet(s) /\ s \in SUBSET S
    BY FS_Subset
  <2>2. \A y \in S : h[y] \in Int
    OBVIOUS
  <2>3. /\ Total(f, s \cup {x}) = f[x] + Total(f, s)
        /\ Total(g, s \cup {x}) = g[x] + Total(g, s)
        /\ Total(h, s \cup {x}) = h[x] + Total(h, s)
    BY <2>1, <2>2, TotalInsert
  <2>4. Total(f, s) \in Int /\ Total(g, s) \in Int
    BY <2>1, TotalInt
  <2>5. f[x] \in Int /\ g[x] \in Int /\ h[x] = f[x] + g[x] /\ Total(h, s) = Total(f, s) + Total(g, s)
    OBVIOUS
  <2>6. Total(h, s \cup {x}) = Total(f, s \cup {x}) + Total(g, s \cup {x})
    <3> HIDE DEF T
    <3> QED BY <2>3, <2>4, <2>5
  <2> QED BY <2>1, <2>6
<1>3. S \in T
  <2> HIDE DEF T
  <2> QED BY <1>1, <1>2, SetInduction
<1> QED BY <1>3

\* A sum of amounts none of which is larger is not larger.
LEMMA TotalAtMost ==
  ASSUME NEW f, NEW g, NEW S, IsFiniteSet(S),
         \A x \in S : f[x] \in Int /\ g[x] \in Int /\ f[x] <= g[x]
  PROVE  Total(f, S) <= Total(g, S)
<1> DEFINE T == {s \in SUBSET S : Total(f, s) <= Total(g, s)}
<1>1. {} \in T
  BY TotalEmpty
<1>2. ASSUME NEW s \in T, NEW x \in S \ s PROVE s \cup {x} \in T
  <2>1. IsFiniteSet(s) /\ s \in SUBSET S
    BY FS_Subset
  <2>2. Total(f, s \cup {x}) = f[x] + Total(f, s) /\ Total(g, s \cup {x}) = g[x] + Total(g, s)
    BY <2>1, TotalInsert
  <2>3. Total(f, s) \in Int /\ Total(g, s) \in Int
    BY <2>1, TotalInt
  <2>4. f[x] \in Int /\ g[x] \in Int /\ f[x] <= g[x] /\ Total(f, s) <= Total(g, s)
    OBVIOUS
  <2>5. Total(f, s \cup {x}) <= Total(g, s \cup {x})
    <3> HIDE DEF T
    <3> QED BY <2>2, <2>3, <2>4
  <2> QED BY <2>1, <2>5
<1>3. S \in T
  <2> HIDE DEF T
  <2> QED BY <1>1, <1>2, SetInduction
<1> QED BY <1>3

\* A sum of nothing but zeros.
LEMMA TotalZero ==
  ASSUME NEW f, NEW S, IsFiniteSet(S), \A x \in S : f[x] = 0
  PROVE  Total(f, S) = 0
<1> DEFINE T == {s \in SUBSET S : Total(f, s) = 0}
<1>1. {} \in T
  BY TotalEmpty
<1>2. ASSUME NEW s \in T, NEW x \in S \ s PROVE s \cup {x} \in T
  <2>1. IsFiniteSet(s) /\ s \in SUBSET S
    BY FS_Subset
  <2>2. Total(f, s \cup {x}) = f[x] + Total(f, s)
    BY <2>1, TotalInsert
  <2> QED BY <2>1, <2>2
<1>3. S \in T
  <2> HIDE DEF T
  <2> QED BY <1>1, <1>2, SetInduction
<1> QED BY <1>3

\* A sum of natural numbers is one.
LEMMA TotalNat ==
  ASSUME NEW f, NEW S, IsFiniteSet(S), \A x \in S : f[x] \in Nat
  PROVE  Total(f, S) \in Nat
<1> DEFINE T == {s \in SUBSET S : Total(f, s) \in Nat}
<1>1. {} \in T
  BY TotalEmpty
<1>2. ASSUME NEW s \in T, NEW x \in S \ s PROVE s \cup {x} \in T
  <2>1. IsFiniteSet(s) /\ s \in SUBSET S
    BY FS_Subset
  <2>2. Total(f, s \cup {x}) = f[x] + Total(f, s)
    BY <2>1, TotalInsert
  <2> QED BY <2>1, <2>2
<1>3. S \in T
  <2> HIDE DEF T
  <2> QED BY <1>1, <1>2, SetInduction
<1> QED BY <1>3

\* A sum of natural numbers grows with its set, whatever adds nothing to the
\* smaller set apart.
LEMMA TotalWithin ==
  ASSUME NEW f, NEW S, IsFiniteSet(S), NEW R, IsFiniteSet(R),
         \A x \in R \cup S : f[x] \in Nat,
         \A x \in R \ S : f[x] = 0
  PROVE  /\ Total(f, R) <= Total(f, S)
         /\ \A y \in S \ R : Total(f, R) + f[y] <= Total(f, S)
<1>1. IsFiniteSet(R \cap S) /\ IsFiniteSet(R \ S) /\ IsFiniteSet(S \ R)
  BY FS_Subset
<1>2. /\ (R \cap S) \cup (R \ S) = R /\ (R \cap S) \cap (R \ S) = {}
      /\ (R \cap S) \cup (S \ R) = S /\ (R \cap S) \cap (S \ R) = {}
  OBVIOUS
<1>3. /\ Total(f, R) = Total(f, R \cap S) + Total(f, R \ S)
      /\ Total(f, S) = Total(f, R \cap S) + Total(f, S \ R)
  BY <1>1, <1>2, TotalUnion
<1>4. Total(f, R \ S) = 0
  BY <1>1, TotalZero
<1>5. Total(f, R \cap S) \in Nat /\ Total(f, S \ R) \in Nat
  BY <1>1, TotalNat
<1>6. ASSUME NEW y \in S \ R PROVE f[y] <= Total(f, S \ R)
  <2>1. Total(f, S \ R) = f[y] + Total(f, (S \ R) \ {y})
    BY <1>1, TotalRemove
  <2>2. Total(f, (S \ R) \ {y}) \in Nat
    <3>1. IsFiniteSet((S \ R) \ {y})
      BY <1>1, FS_RemoveElement
    <3> QED BY <3>1, TotalNat
  <2> QED BY <2>1, <2>2
<1>7. Total(f, R) <= Total(f, S)
  BY <1>3, <1>4, <1>5
<1>8. ASSUME NEW y \in S \ R PROVE Total(f, R) + f[y] <= Total(f, S)
  <2>1. f[y] \in Nat
    OBVIOUS
  <2> QED BY <1>3, <1>4, <1>5, <1>6, <2>1
<1> QED BY <1>7, <1>8

\* In particular, a sum of natural numbers grows with its set.
LEMMA TotalMonotone ==
  ASSUME NEW f, NEW S, IsFiniteSet(S), \A x \in S : f[x] \in Nat, NEW R \in SUBSET S
  PROVE  Total(f, R) <= Total(f, S)
<1>1. IsFiniteSet(R)
  BY FS_Subset
<1> QED BY <1>1, TotalWithin

\* A set sorted into bins: the sums of the bins sum to the sum of the set.
LEMMA Bins ==
  ASSUME NEW f, NEW F, IsFiniteSet(F), \A x \in F : f[x] \in Int,
         NEW L, IsFiniteSet(L), NEW w \in [F -> L],
         NEW b \in [L -> SUBSET F], \A l \in L : \A x \in F : x \in b[l] <=> w[x] = l,
         NEW g, \A l \in L : g[l] = Total(f, b[l])
  PROVE  Total(g, L) = Total(f, F)
<1> DEFINE Bin(l) == b[l]
           Upto(s) == {x \in F : w[x] \in s}
           T == {s \in SUBSET L : Total(g, s) = Total(f, Upto(s))}
<1>1. {} \in T
  <2>1. Upto({}) = {}
    OBVIOUS
  <2> HIDE DEF Upto
  <2> QED BY <2>1, TotalEmpty
<1>2. ASSUME NEW s \in T, NEW l \in L \ s PROVE s \cup {l} \in T
  <2>1. Total(g, s) = Total(f, Upto(s)) /\ s \in SUBSET L
    OBVIOUS
  <2>2. /\ Upto(s \cup {l}) = Upto(s) \cup Bin(l) /\ Upto(s) \cap Bin(l) = {}
        /\ Upto(s) \subseteq F /\ Bin(l) \subseteq F
    OBVIOUS
  <2>3. \A m \in L : g[m] = Total(f, Bin(m))
    OBVIOUS
  <2>4. \A m \in L : Bin(m) \subseteq F
    OBVIOUS
  <2> HIDE DEF Upto, Bin, T
  <2>5. IsFiniteSet(Upto(s)) /\ IsFiniteSet(Bin(l)) /\ IsFiniteSet(s)
    BY <2>1, <2>2, FS_Subset
  <2>6. Total(f, Upto(s) \cup Bin(l)) = Total(f, Upto(s)) + Total(f, Bin(l))
    BY <2>2, <2>5, TotalUnion
  <2>7. \A m \in L : g[m] \in Int
    <3> SUFFICES ASSUME NEW m \in L PROVE g[m] \in Int
      OBVIOUS
    <3>1. IsFiniteSet(Bin(m)) /\ \A x \in Bin(m) : f[x] \in Int
      BY <2>4, FS_Subset
    <3> QED BY <2>3, <3>1, TotalInt
  <2>8. Total(g, s \cup {l}) = g[l] + Total(g, s)
    BY <2>1, <2>5, <2>7, TotalInsert
  <2>9. Total(g, s) \in Int
    BY <2>1, <2>5, <2>7, TotalInt
  <2>10. Total(g, s \cup {l}) = Total(f, Upto(s \cup {l}))
    <3>1. Total(f, Upto(s \cup {l})) = Total(g, s) + g[l]
      BY <2>1, <2>2, <2>3, <2>6
    <3>2. g[l] \in Int
      BY <2>7
    <3> QED BY <2>8, <2>9, <3>1, <3>2
  <2> QED BY <2>1, <2>10 DEF T
<1>3. L \in T
  <2> HIDE DEF T
  <2> QED BY <1>1, <1>2, SetInduction
<1>4. Upto(L) = F
  OBVIOUS
<1> QED BY <1>3, <1>4

\* A row more, the others unchanged.
LEMMA TotalAdded ==
  ASSUME NEW f, NEW g, NEW S, IsFiniteSet(S), \A x \in S : f[x] \in Int /\ g[x] = f[x],
         NEW y, y \notin S, g[y] \in Int
  PROVE  Total(g, S \cup {y}) = Total(f, S) + g[y]
<1>1. Total(g, S) = Total(f, S) /\ Total(f, S) \in Int
  BY TotalSame, TotalInt
<1>2. \A x \in S : g[x] \in Int
  OBVIOUS
<1>3. Total(g, S \cup {y}) = g[y] + Total(g, S)
  BY <1>2, TotalInsert
<1> QED BY <1>1, <1>3

\* What is zero outside of a subset sums to the sum over the subset.
LEMMA TotalRestrict ==
  ASSUME NEW S, IsFiniteSet(S), NEW R \in SUBSET S, NEW f, \A x \in R : f[x] \in Int,
         NEW c, \A x \in S : c[x] = IF x \in R THEN f[x] ELSE 0
  PROVE  Total(c, S) = Total(f, R)
<1>1. IsFiniteSet(R) /\ IsFiniteSet(S \ R) /\ R \cap (S \ R) = {} /\ R \cup (S \ R) = S
  BY FS_Subset
<1>2. \A x \in R \cup (S \ R) : c[x] \in Int
  OBVIOUS
<1>3. Total(c, R \cup (S \ R)) = Total(c, R) + Total(c, S \ R)
  BY <1>1, <1>2, TotalUnion
<1>4. Total(c, S \ R) = 0
  BY <1>1, TotalZero
<1>5. Total(c, R) = Total(f, R)
  BY <1>1, TotalSame
<1>6. Total(f, R) \in Int
  BY <1>1, TotalInt
<1>7. Total(c, S) = Total(c, R) + Total(c, S \ R)
  BY <1>1, <1>3
<1> QED BY <1>4, <1>5, <1>6, <1>7

\* The sum over a set whose members are renamed one to one.
LEMMA TotalRenamed ==
  ASSUME NEW D, IsFiniteSet(D), NEW F, IsFiniteSet(F),
         NEW w \in [F -> D], NEW v \in [D -> F],
         \A x \in D : w[v[x]] = x, \A p \in F : v[w[p]] = p,
         NEW g, NEW h, \A x \in D : h[x] \in Int /\ g[v[x]] = h[x]
  PROVE  Total(g, F) = Total(h, D)
<1> DEFINE b == [x \in D |-> {} \cup {v[x]}]
<1>1. \A p \in F : g[p] \in Int
  OBVIOUS
<1>2. ASSUME NEW x \in D PROVE h[x] = Total(g, b[x])
  <2>1. Total(g, {} \cup {v[x]}) = g[v[x]] + Total(g, {})
    <3>1. IsFiniteSet({}) /\ g[v[x]] \in Int
      BY FS_EmptySet
    <3> QED BY <3>1, TotalInsert
  <2>2. Total(g, {}) = 0
    BY TotalEmpty
  <2>3. b[x] = {} \cup {v[x]}
    OBVIOUS
  <2> HIDE DEF b
  <2> QED BY <2>1, <2>2, <2>3
<1>3. b \in [D -> SUBSET F] /\ \A x \in D : \A p \in F : p \in b[x] <=> w[p] = x
  OBVIOUS
<1> HIDE DEF b
<1> QED BY <1>1, <1>2, <1>3, Bins

\* A common factor comes out of a sum.
LEMMA TotalScaled ==
  ASSUME NEW f, NEW c \in Int, NEW g, NEW S, IsFiniteSet(S),
         \A x \in S : f[x] \in Int /\ g[x] = f[x] * c
  PROVE  Total(g, S) = Total(f, S) * c
<1> DEFINE T == {s \in SUBSET S : Total(g, s) = Total(f, s) * c}
<1>1. {} \in T
  BY TotalEmpty
<1>2. ASSUME NEW s \in T, NEW x \in S \ s PROVE s \cup {x} \in T
  <2>1. IsFiniteSet(s) /\ s \in SUBSET S
    BY FS_Subset
  <2>0. \A y \in S : g[y] \in Int
    OBVIOUS
  <2>2. Total(f, s \cup {x}) = f[x] + Total(f, s) /\ Total(g, s \cup {x}) = g[x] + Total(g, s)
    BY <2>0, <2>1, TotalInsert
  <2>3. Total(f, s) \in Int /\ f[x] \in Int /\ g[x] = f[x] * c /\ Total(g, s) = Total(f, s) * c
    BY <2>1, TotalInt
  <2>4. Total(g, s \cup {x}) = Total(f, s \cup {x}) * c
    <3> HIDE DEF T
    <3> QED BY <2>2, <2>3
  <2> QED BY <2>1, <2>4
<1>3. S \in T
  <2> HIDE DEF T
  <2> QED BY <1>1, <1>2, SetInduction
<1> QED BY <1>3

-----------------------------------------------------------------------------
\* Listings

\* lt, a set of pairs, orders the elements of S in a line.
InLine(lt, S) ==
  /\ \A x \in S : <<x, x>> \notin lt
  /\ \A x, y \in S : x = y \/ <<x, y>> \in lt \/ <<y, x>> \in lt
  /\ \A x, y, z \in S : <<x, y>> \in lt /\ <<y, z>> \in lt => <<x, z>> \in lt

LeftOf(lt, S, x) == {y \in S : <<y, x>> \in lt}
Place(lt, S, x) == Cardinality(LeftOf(lt, S, x))

\* The element with i - 1 others before it is the i-th.
Listing(lt, S) == [i \in 1 .. Cardinality(S) |-> CHOOSE x \in S : Place(lt, S, x) = i - 1]

\* Who stands further left has fewer before them.
LEMMA PlaceGrows ==
  ASSUME NEW S, IsFiniteSet(S), NEW lt, InLine(lt, S), NEW x \in S, NEW y \in S
  PROVE  /\ Place(lt, S, x) \in 0 .. Cardinality(S) - 1
         /\ <<x, y>> \in lt <=> Place(lt, S, x) < Place(lt, S, y)
<1>0. \A u \in S : /\ LeftOf(lt, S, u) \in SUBSET S /\ u \notin LeftOf(lt, S, u)
                   /\ IsFiniteSet(LeftOf(lt, S, u))
                   /\ Place(lt, S, u) \in Nat
  <2> SUFFICES ASSUME NEW u \in S
               PROVE  /\ LeftOf(lt, S, u) \in SUBSET S /\ u \notin LeftOf(lt, S, u)
                      /\ IsFiniteSet(LeftOf(lt, S, u))
                      /\ Place(lt, S, u) \in Nat
    OBVIOUS
  <2>1. LeftOf(lt, S, u) \in SUBSET S /\ u \notin LeftOf(lt, S, u)
    BY DEF LeftOf, InLine
  <2> QED BY <2>1, FS_Subset, FS_CardinalityType DEF Place
<1>1. ASSUME NEW u \in S, NEW v \in S, <<u, v>> \in lt
      PROVE  Place(lt, S, u) < Place(lt, S, v)
  <2>1. LeftOf(lt, S, u) \in SUBSET LeftOf(lt, S, v) /\ u \in LeftOf(lt, S, v)
    BY <1>1 DEF LeftOf, InLine
  <2>2. LeftOf(lt, S, u) # LeftOf(lt, S, v)
    BY <1>0, <2>1
  <2>3. Cardinality(LeftOf(lt, S, u)) <= Cardinality(LeftOf(lt, S, v))
    BY <1>0, <2>1, FS_Subset
  <2>4. Cardinality(LeftOf(lt, S, v)) # Cardinality(LeftOf(lt, S, u))
    BY <1>0, <2>1, <2>2, FS_Subset
  <2> QED BY <1>0, <2>3, <2>4 DEF Place
<1>2. Place(lt, S, x) \in 0 .. Cardinality(S) - 1
  <2>1. LeftOf(lt, S, x) # S
    BY <1>0
  <2>2. Cardinality(S) \in Nat
    BY FS_CardinalityType
  <2> QED BY <1>0, <2>1, <2>2, FS_Subset DEF Place
<1>3. x = y \/ <<x, y>> \in lt \/ <<y, x>> \in lt
  BY DEF InLine
<1> QED BY <1>0, <1>1, <1>2, <1>3

\* No two have the same place.
LEMMA PlaceOfOne ==
  ASSUME NEW S, IsFiniteSet(S), NEW lt, InLine(lt, S), NEW x \in S, NEW y \in S,
         Place(lt, S, x) = Place(lt, S, y)
  PROVE  x = y
<1>1. Place(lt, S, x) \in 0 .. Cardinality(S) - 1
  BY PlaceGrows
<1>2. <<x, y>> \in lt <=> Place(lt, S, x) < Place(lt, S, y)
  BY PlaceGrows
<1>3. <<y, x>> \in lt <=> Place(lt, S, y) < Place(lt, S, x)
  BY PlaceGrows
<1>4. <<x, y>> \notin lt /\ <<y, x>> \notin lt
  BY <1>1, <1>2, <1>3
<1> QED BY <1>4 DEF InLine

\* Every place is taken.
LEMMA PlaceTaken ==
  ASSUME NEW S, IsFiniteSet(S), NEW lt, InLine(lt, S), NEW i \in 1 .. Cardinality(S)
  PROVE  \E x \in S : Place(lt, S, x) = i - 1
<1> DEFINE N == 0 .. Cardinality(S) - 1
           f == [x \in S |-> Place(lt, S, x)]
<1>1. Cardinality(S) \in Nat
  BY FS_CardinalityType
<1>2. f \in Injection(S, N)
  <2>1. \A u \in S : Place(lt, S, u) \in N
    BY PlaceGrows
  <2>2. \A u, v \in S : Place(lt, S, u) = Place(lt, S, v) => u = v
    BY PlaceOfOne
  <2> QED BY <2>1, <2>2 DEF Injection, IsInjective
<1>3. IsFiniteSet(N) /\ Cardinality(N) = Cardinality(S)
  <2>1. 0 \in Int /\ Cardinality(S) - 1 \in Int
    BY <1>1
  <2>2. IsFiniteSet(N) /\ Cardinality(N) = IF 0 > Cardinality(S) - 1 THEN 0 ELSE Cardinality(S) - 1 - 0 + 1
    BY <2>1, FS_Interval
  <2> QED BY <1>1, <2>2
<1>4. f \in Surjection(S, N)
  <2> HIDE DEF f, N
  <2> QED BY <1>2, <1>3, FS_Injection
<1>5. i - 1 \in N
  BY <1>1
<1> QED BY <1>4, <1>5 DEF Surjection

\* The listing has every element once, in the order of lt.
LEMMA ListingInOrder ==
  ASSUME NEW S, IsFiniteSet(S), NEW lt, InLine(lt, S), NEW i \in 1 .. Cardinality(S)
  PROVE  /\ Listing(lt, S)[i] \in S
         /\ Place(lt, S, Listing(lt, S)[i]) = i - 1
         /\ \A j \in 1 .. Cardinality(S) :
              /\ Listing(lt, S)[j] = Listing(lt, S)[i] <=> j = i
              /\ <<Listing(lt, S)[j], Listing(lt, S)[i]>> \in lt <=> j < i
<1>1. \A j \in 1 .. Cardinality(S) : /\ Listing(lt, S)[j] \in S
                                     /\ Place(lt, S, Listing(lt, S)[j]) = j - 1
  BY PlaceTaken DEF Listing
<1>2. \A j \in 1 .. Cardinality(S) : j \in Int
  BY FS_CardinalityType
<1> QED BY <1>1, <1>2, PlaceGrows

\* A listing of a set has all of its members.
LEMMA ListingHasAll ==
  ASSUME NEW S, IsFiniteSet(S), NEW lt, InLine(lt, S), NEW x \in S
  PROVE  \E i \in 1 .. Cardinality(S) : Listing(lt, S)[i] = x
<1>1. Place(lt, S, x) \in 0 .. Cardinality(S) - 1 /\ Cardinality(S) \in Nat
  BY PlaceGrows, FS_CardinalityType
<1> DEFINE i == Place(lt, S, x) + 1
<1>2. i \in 1 .. Cardinality(S) /\ i - 1 = Place(lt, S, x)
  BY <1>1
<1>3. Listing(lt, S)[i] \in S /\ Place(lt, S, Listing(lt, S)[i]) = i - 1
  BY <1>2, ListingInOrder
<1>4. Listing(lt, S)[i] = x
  <2> HIDE DEF i
  <2>1. Place(lt, S, Listing(lt, S)[i]) = Place(lt, S, x)
    BY <1>2, <1>3
  <2> QED BY <1>3, <2>1, PlaceOfOne
<1> QED BY <1>2, <1>4

-----------------------------------------------------------------------------
\* Extremes

\* A set of naturals below n has a greatest one ...
LEMMA Greatest ==
  ASSUME NEW S, S \subseteq Nat, S # {}, NEW n \in Nat, \A x \in S : x <= n
  PROVE  \E m \in S : \A x \in S : x <= m
<1> DEFINE T == {k \in Nat : \A R \in SUBSET Nat : R # {} /\ (\A x \in R : x <= k) =>
                              \E m \in R : \A x \in R : x <= m}
<1>1. 0 \in T
  <2> SUFFICES ASSUME NEW R \in SUBSET Nat, R # {}, \A x \in R : x <= 0
               PROVE  \E m \in R : \A x \in R : x <= m
    OBVIOUS
  <2>1. PICK m \in R : TRUE
    OBVIOUS
  <2>2. \A x \in R : x <= m
    OBVIOUS
  <2> QED BY <2>2
<1>2. ASSUME NEW k \in T PROVE k + 1 \in T
  <2> SUFFICES ASSUME NEW R \in SUBSET Nat, R # {}, \A x \in R : x <= k + 1
               PROVE  \E m \in R : \A x \in R : x <= m
    OBVIOUS
  <2>1. CASE k + 1 \in R
    BY <2>1
  <2>2. CASE k + 1 \notin R
    <3>1. \A x \in R : x <= k
      BY <2>2
    <3> QED BY <3>1
  <2> QED BY <2>1, <2>2
<1>3. T = Nat
  <2>1. T \subseteq Nat
    OBVIOUS
  <2> HIDE DEF T
  <2> QED BY <1>1, <1>2, <2>1, Induction
<1>4. n \in T
  BY <1>3
<1> QED BY <1>4

\* ... and every set of naturals a least one.
LEMMA Least ==
  ASSUME NEW S, S \subseteq Nat, S # {}
  PROVE  \E m \in S : \A x \in S : m <= x
<1> DEFINE R == OpToRel(<, Nat)
<1>1. IsWellFoundedOn(R, Nat)
  BY NatLessThanWellFounded
<1>2. \A x, y \in Nat : <<x, y>> \in R <=> x < y
  BY DEF OpToRel
<1>3. \E x \in S : \A y \in S : ~(<<y, x>> \in R)
  BY <1>1, WFMin
<1> HIDE DEF R
<1>4. PICK x \in S : \A y \in S : ~(<<y, x>> \in R)
  BY <1>3
<1>5. ASSUME NEW y \in S PROVE x <= y
  <2>1. x \in Nat /\ y \in Nat
    OBVIOUS
  <2>2. ~(y < x)
    BY <1>2, <1>4, <2>1
  <2> QED BY <2>1, <2>2
<1> QED BY <1>5
=============================================================================
