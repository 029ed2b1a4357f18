------------------------ MODULE FiniteChoice_proofs ------------------------
(* Facts about choices from finite sets and about finite sums, which the   *)
(* proofs of the components rest on: a finite set has a minimal element    *)
(* for any strict order, Min and Max are what they should be, the n-th of  *)
(* a set of numbers exists, and a sum of integers is an integer.  Each is  *)
(* shown from a minimal counterexample, because the library's induction    *)
(* theorems take operators as parameters.                                  *)
EXTENDS Selection, FiniteSetsExt, Functions,
        FiniteSetTheorems, WellFoundedInduction, TLAPS

(* The pairs of a strict order on a set. *)
StrictOrder(R, S) ==
    /\ \A x \in S : <<x, x>> \notin R
    /\ \A x, y, z \in S : <<x, y>> \in R /\ <<y, z>> \in R => <<x, z>> \in R

(* A finite set has an element that nothing goes before. *)
LEMMA MinimalExists ==
  ASSUME NEW S, IsFiniteSet(S), S # {}, NEW R, StrictOrder(R, S)
  PROVE  \E x \in S : \A y \in S : <<y, x>> \notin R
<1>. DEFINE before == [x \in S |-> {y \in S : <<y, x>> \in R}]
            F == {before[x] : x \in S}
            O == StrictSubsetOrdering(S)
<1>1. IsWellFoundedOn(O, FiniteSubsetsOf(S))
  BY FS_StrictSubsetOrderingWellFounded
<1>2. F \subseteq FiniteSubsetsOf(S) /\ F # {}
  <2>1. FiniteSubsetsOf(S) = SUBSET S  BY FS_FiniteSubsetsOfFinite
  <2>2. \A x \in S : before[x] \in SUBSET S  OBVIOUS
  <2>. HIDE DEF before
  <2>. QED  BY <2>1, <2>2
<1>3. PICK A \in F : \A B \in F : <<B, A>> \notin O
  <2>. HIDE DEF F, O
  <2>. QED  BY <1>1, <1>2, WFMin
<1>4. PICK x \in S : A = before[x]  OBVIOUS
<1>5. ASSUME NEW y \in S, <<y, x>> \in R PROVE FALSE
  <2>1. before[y] \subseteq before[x] /\ y \in before[x] /\ y \notin before[y]
    BY <1>5 DEF StrictOrder
  <2>2. <<before[y], before[x]>> \in O
    BY <2>1 DEF StrictSubsetOrdering
  <2>. QED  BY <2>2, <1>3, <1>4
<1>. QED  BY <1>5

(* A set of numbers that is not empty has a least one. *)
LEMMA LeastExists ==
  ASSUME NEW S \in SUBSET Nat, S # {}
  PROVE  \E x \in S : \A y \in S : x <= y
<1>1. PICK x \in S : \A y \in S : ~(<<y, x>> \in OpToRel(<, Nat))
  BY NatLessThanWellFounded, WFMin
<1>2. ASSUME NEW y \in S PROVE x <= y
  <2>1. x \in Nat /\ y \in Nat  OBVIOUS
  <2>2. ~(y < x)  BY <1>1, <2>1, Zenon DEF OpToRel
  <2>. QED  BY <2>1, <2>2
<1>. QED  BY <1>2

(* The numbers from 1 to n. *)
LEMMA IndicesAreFinite ==
  ASSUME NEW n \in Nat
  PROVE  /\ IsFiniteSet(1..n)
         /\ Cardinality(1..n) = n
         /\ 1..n \in SUBSET Nat
<1>1. 1 \in Int /\ n \in Int  OBVIOUS
<1>2. IsFiniteSet(1..n) /\ Cardinality(1..n) = IF 1 > n THEN 0 ELSE n - 1 + 1
  BY <1>1, FS_Interval, Zenon
<1>. QED  BY <1>2

LEMMA MinOfNaturals ==
  ASSUME NEW S \in SUBSET Nat, S # {}
  PROVE  Min(S) \in S /\ \A y \in S : Min(S) <= y
BY LeastExists DEF Min

LEMMA MaxOfTwo ==
  ASSUME NEW a \in Int, NEW b \in Int
  PROVE  /\ Max({a, b}) \in {a, b}
         /\ Max({a, b}) >= a
         /\ Max({a, b}) >= b
<1>1. \E x \in {a, b} : \A y \in {a, b} : x >= y
  <2>1. CASE a >= b  BY <2>1
  <2>2. CASE b >= a  BY <2>2
  <2>. QED  BY <2>1, <2>2
<1>. QED  BY <1>1 DEF Max

LEMMA MinOfTwo ==
  ASSUME NEW a \in Int, NEW b \in Int
  PROVE  /\ Min({a, b}) \in {a, b}
         /\ Min({a, b}) <= a
         /\ Min({a, b}) <= b
<1>1. \E x \in {a, b} : \A y \in {a, b} : x <= y
  <2>1. CASE a <= b  BY <2>1
  <2>2. CASE b <= a  BY <2>2
  <2>. QED  BY <2>1, <2>2
<1>. QED  BY <1>1 DEF Min

(***************************************************************************)
(* Finite sets of functions, and images.                                   *)
(***************************************************************************)
LEMMA ImageIsFinite ==
  ASSUME NEW S, IsFiniteSet(S), NEW f, DOMAIN f = S
  PROVE  IsFiniteSet({f[x] : x \in S})
<1>. DEFINE T == {f[x] : x \in S}
            g == [x \in S |-> f[x]]
<1>1. g \in Surjection(S, T)
  BY DEF Surjection
<1>. HIDE DEF g, T
<1>2. IsFiniteSet(T)  BY <1>1, FS_Surjection
<1>. QED  BY <1>2 DEF T

LEMMA FunctionsAreFinite ==
  ASSUME NEW S, IsFiniteSet(S), NEW T, IsFiniteSet(T)
  PROVE  IsFiniteSet([S -> T])
<1>. DEFINE F == [S -> T]
            graph == [f \in F |-> {p \in S \X T : p[2] = f[p[1]]}]
<1>1. IsFiniteSet(SUBSET (S \X T))
  BY FS_Product, FS_SUBSET
<1>2. graph \in [F -> SUBSET (S \X T)]  OBVIOUS
<1>3. ASSUME NEW f \in F, NEW g \in F, graph[f] = graph[g] PROVE f = g
  <2>1. ASSUME NEW x \in S PROVE f[x] = g[x]
    <3>1. <<x, f[x]>> \in graph[f]  OBVIOUS
    <3>2. <<x, f[x]>> \in graph[g]  BY <1>3, <3>1
    <3>. QED  BY <3>2
  <2>. QED  BY <2>1
<1>4. graph \in Injection(F, SUBSET (S \X T))
  <2>. HIDE DEF graph, F
  <2>. QED  BY <1>2, <1>3 DEF Injection, IsInjective
<1>. HIDE DEF graph
<1>. QED  BY <1>1, <1>4, FS_Injection

(***************************************************************************)
(* The place of a number in a finite set of numbers.                       *)
(***************************************************************************)
Place(S, m) == Cardinality({n \in S : n <= m})

LEMMA PlaceRange ==
  ASSUME NEW S \in SUBSET Nat, IsFiniteSet(S), NEW m \in S
  PROVE  Place(S, m) \in 1..Cardinality(S)
<1>. DEFINE B == {n \in S : n <= m}
<1>1. B \in SUBSET S /\ m \in B  OBVIOUS
<1>2. IsFiniteSet(B) /\ Cardinality(B) <= Cardinality(S)
  BY <1>1, FS_Subset
<1>3. Cardinality(B) \in Nat /\ Cardinality(S) \in Nat
  BY <1>2, FS_CardinalityType
<1>4. Cardinality(B) # 0  BY <1>1, <1>2, FS_EmptySet
<1>. QED  BY <1>2, <1>3, <1>4 DEF Place

LEMMA PlaceGrows ==
  ASSUME NEW S \in SUBSET Nat, IsFiniteSet(S), NEW m \in S, NEW n \in S, m < n
  PROVE  Place(S, m) < Place(S, n)
<1>. DEFINE A == {k \in S : k <= m}  B == {k \in S : k <= n}
<1>0. m \in Nat /\ n \in Nat /\ \A k \in S : k \in Nat  OBVIOUS
<1>1. A \subseteq B
  <2>1. \A k \in S : k <= m => k <= n  BY <1>0
  <2>. QED  BY <2>1
<1>2. n \in B /\ n \notin A
  <2>1. n <= n /\ ~(n <= m)  BY <1>0
  <2>. QED  BY <2>1
<1>3. IsFiniteSet(B)  BY FS_Subset
<1>4. IsFiniteSet(A) /\ Cardinality(A) <= Cardinality(B)
      /\ (Cardinality(B) = Cardinality(A) => B = A)
  BY <1>1, <1>3, FS_Subset
<1>5. Cardinality(A) \in Nat /\ Cardinality(B) \in Nat
  BY <1>3, <1>4, FS_CardinalityType
<1>. QED  BY <1>2, <1>4, <1>5 DEF Place

(* Every place up to the size of the set is taken. *)
LEMMA PlaceIsTaken ==
  ASSUME NEW S \in SUBSET Nat, IsFiniteSet(S), NEW t \in 1..Cardinality(S)
  PROVE  \E m \in S : Place(S, m) = t
<1>. DEFINE T == 1..Cardinality(S)  f == [m \in S |-> Place(S, m)]
<1>1. Cardinality(S) \in Nat  BY FS_CardinalityType
<1>2. IsFiniteSet(T) /\ Cardinality(T) = Cardinality(S)
  <2>1. 1 \in Int /\ Cardinality(S) \in Int  BY <1>1
  <2>2. IsFiniteSet(T) /\ Cardinality(T) = IF 1 > Cardinality(S) THEN 0 ELSE Cardinality(S) - 1 + 1
    BY <2>1, FS_Interval, Zenon
  <2>. QED  BY <1>1, <2>2
<1>3. f \in [S -> T]  BY PlaceRange
<1>4. \A m, n \in S : f[m] = f[n] => m = n
  <2>1. SUFFICES ASSUME NEW m \in S, NEW n \in S, m # n PROVE Place(S, m) # Place(S, n)
    OBVIOUS
  <2>2. m \in Nat /\ n \in Nat  OBVIOUS
  <2>3. Place(S, m) \in Nat /\ Place(S, n) \in Nat  BY PlaceRange, <1>1
  <2>4. CASE m < n  BY <2>3, <2>4, PlaceGrows
  <2>5. CASE n < m  BY <2>3, <2>5, PlaceGrows
  <2>. QED  BY <2>1, <2>2, <2>4, <2>5
<1>5. f \in Injection(S, T)
  BY <1>3, <1>4 DEF Injection, IsInjective
<1>6. f \in Surjection(S, T)
  <2>. HIDE DEF f, T
  <2>. QED  BY <1>2, <1>5, FS_Injection
<1>7. \E m \in S : f[m] = t
  <2>1. t \in T  OBVIOUS
  <2>. HIDE DEF f, T
  <2>. QED  BY <1>6, <2>1 DEF Surjection
<1>. QED  BY <1>7

(***************************************************************************)
(* Selections from sequences.                                              *)
(***************************************************************************)
(* The elements of a selection are those at the selected places. *)
LEMMA AtElements ==
  ASSUME NEW T, NEW q \in Seq(T), NEW I \in SUBSET DOMAIN q
  PROVE  /\ At(q, I) \in Seq(T)
         /\ Len(At(q, I)) = Cardinality(I)
         /\ Cardinality(I) \in Nat
         /\ \A k \in DOMAIN At(q, I) : \E i \in I : At(q, I)[k] = q[i]
         /\ \A i \in I : \E k \in DOMAIN At(q, I) : At(q, I)[k] = q[i]
<1>. DEFINE n == Cardinality(I)
            place(k) == CHOOSE i \in I : Place(I, i) = k
<1>1. I \in SUBSET Nat /\ IsFiniteSet(I) /\ n \in Nat
  <2>1. Len(q) \in Nat /\ DOMAIN q = 1..Len(q)  OBVIOUS
  <2>2. IsFiniteSet(1..Len(q)) /\ 1..Len(q) \in SUBSET Nat
    BY <2>1, IndicesAreFinite
  <2>3. IsFiniteSet(I)  BY <2>1, <2>2, FS_Subset
  <2>. QED  BY <2>1, <2>2, <2>3, FS_CardinalityType
<1>2. At(q, I) = [k \in 1..n |-> q[place(k)]]
  BY DEF At, Place
<1>3. ASSUME NEW k \in 1..n PROVE place(k) \in I /\ Place(I, place(k)) = k
  <2>1. \E i \in I : Place(I, i) = k  BY <1>1, PlaceIsTaken
  <2>. QED  BY <2>1
<1>4. ASSUME NEW i \in I PROVE Place(I, i) \in 1..n /\ place(Place(I, i)) = i
  <2>1. Place(I, i) \in 1..n  BY <1>1, PlaceRange
  <2>. DEFINE j == place(Place(I, i))
  <2>2. j \in I /\ Place(I, j) = Place(I, i)  BY <1>3, <2>1
  <2>. HIDE DEF j
  <2>3. i \in Nat /\ j \in Nat /\ Place(I, i) \in Nat  BY <1>1, <2>1, <2>2
  <2>4. ~(i < j) /\ ~(j < i)
    <3>1. i < j => Place(I, i) < Place(I, j)  BY <1>1, <2>2, PlaceGrows
    <3>2. j < i => Place(I, j) < Place(I, i)  BY <1>1, <2>2, PlaceGrows
    <3>. QED  BY <2>2, <2>3, <3>1, <3>2
  <2>5. i = j  BY <2>3, <2>4
  <2>. QED  BY <2>1, <2>5 DEF j
<1>. HIDE DEF place, n
<1>5. At(q, I) \in [1..n -> T]
  <2>1. \A k \in 1..n : q[place(k)] \in T  BY <1>3
  <2>. QED  BY <1>2, <2>1
<1>6. At(q, I) \in Seq(T) /\ Len(At(q, I)) = n /\ DOMAIN At(q, I) = 1..n
  BY <1>1, <1>5
<1>7. \A k \in 1..n : At(q, I)[k] = q[place(k)]  BY <1>2
<1>. QED  BY <1>1, <1>3, <1>4, <1>6, <1>7 DEF n

(***************************************************************************)
(* Sums over a finite set.                                                 *)
(***************************************************************************)
(* One step of SumFunction, and what it computes with: the sums of f over  *)
(* all sets of indices.                                                    *)
SumStep(f, g, s) ==
    IF s = {} THEN 0
    ELSE f[CHOOSE x \in s : TRUE] + g[s \ {CHOOSE x \in s : TRUE}]

PartialSums(f) == CHOOSE g : g = [s \in SUBSET DOMAIN f |-> SumStep(f, g, s)]

LEMMA SumIsPartialSum ==
  ASSUME NEW f
  PROVE  SumFunction(f) = PartialSums(f)[DOMAIN f]
BY DEF SumFunction, SumFunctionOnSet, FoldFunctionOnSet, MapThenFoldSet, PartialSums, SumStep

LEMMA SmallerSet ==
  ASSUME NEW s, IsFiniteSet(s), s # {}
  PROVE  LET x == CHOOSE y \in s : TRUE
         IN  /\ x \in s
             /\ IsFiniteSet(s \ {x})
             /\ Cardinality(s) \in Nat
             /\ Cardinality(s \ {x}) = Cardinality(s) - 1
             /\ Cardinality(s \ {x}) \in Nat
<1>. DEFINE x == CHOOSE y \in s : TRUE
<1>1. x \in s  OBVIOUS
<1>. HIDE DEF x
<1>2. IsFiniteSet(s \ {x}) /\ Cardinality(s \ {x}) = Cardinality(s) - 1
  BY <1>1, FS_RemoveElement
<1>3. Cardinality(s) \in Nat /\ Cardinality(s \ {x}) \in Nat
  BY <1>2, FS_CardinalityType
<1>. QED  BY <1>1, <1>2, <1>3 DEF x

(* There are such sums, and they are integers, if f's values are. *)
LEMMA SumsExist ==
  ASSUME NEW f, IsFiniteSet(DOMAIN f), f \in [DOMAIN f -> Int]
  PROVE  \E g : g = [s \in SUBSET DOMAIN f |-> SumStep(f, g, s)]
<1>. DEFINE D == DOMAIN f
            Good(n) == \E g \in [SUBSET D -> Int] :
                          \A s \in SUBSET D : Cardinality(s) <= n => g[s] = SumStep(f, g, s)
            Bad == {n \in Nat : ~Good(n)}
<1>1. \A s \in SUBSET D : IsFiniteSet(s) /\ Cardinality(s) \in Nat
                           /\ Cardinality(s) <= Cardinality(D)
  BY FS_Subset, FS_CardinalityType
<1>2. Good(0)
  <2>. DEFINE g == [s \in SUBSET D |-> 0]
  <2>1. ASSUME NEW s \in SUBSET D, Cardinality(s) <= 0 PROVE g[s] = SumStep(f, g, s)
    <3>1. s = {}  BY <1>1, <2>1, FS_EmptySet
    <3>. QED  BY <3>1 DEF SumStep
  <2>2. g \in [SUBSET D -> Int]  OBVIOUS
  <2>. HIDE DEF g
  <2>. QED  BY <2>1, <2>2
<1>3. ASSUME NEW n \in Nat, Good(n) PROVE Good(n + 1)
  <2>1. PICK g \in [SUBSET D -> Int] :
          \A s \in SUBSET D : Cardinality(s) <= n => g[s] = SumStep(f, g, s)
    BY <1>3
  <2>. DEFINE h == [s \in SUBSET D |-> SumStep(f, g, s)]
  <2>2. ASSUME NEW s \in SUBSET D PROVE SumStep(f, g, s) \in Int
    <3>1. CASE s = {}  BY <3>1 DEF SumStep
    <3>2. CASE s # {}
      <4>. DEFINE x == CHOOSE y \in s : TRUE
      <4>1. x \in D /\ s \ {x} \in SUBSET D  BY <3>2
      <4>2. SumStep(f, g, s) = f[x] + g[s \ {x}]  BY <3>2 DEF SumStep
      <4>. HIDE DEF x
      <4>3. f[x] \in Int /\ g[s \ {x}] \in Int  BY <4>1
      <4>. QED  BY <4>2, <4>3
    <3>. QED  BY <3>1, <3>2
  <2>3. h \in [SUBSET D -> Int]  BY <2>2
  <2>4. ASSUME NEW s \in SUBSET D, Cardinality(s) <= n + 1 PROVE h[s] = SumStep(f, h, s)
    <3>1. CASE s = {}  BY <3>1 DEF SumStep
    <3>2. CASE s # {}
      <4>. DEFINE x == CHOOSE y \in s : TRUE
                  t == s \ {x}
      <4>1. t \in SUBSET D /\ Cardinality(t) <= n
        BY <1>1, <2>4, <3>2, SmallerSet
      <4>2. h[s] = f[x] + g[t] /\ SumStep(f, h, s) = f[x] + h[t]
        BY <3>2 DEF SumStep
      <4>. HIDE DEF x, t, h
      <4>3. g[t] = SumStep(f, g, t)  BY <2>1, <4>1
      <4>4. h[t] = SumStep(f, g, t)  BY <4>1 DEF h
      <4>. QED  BY <4>2, <4>3, <4>4
    <3>. QED  BY <3>1, <3>2
  <2>. HIDE DEF h
  <2>. QED  BY <2>3, <2>4
<1>4. Bad = {}
  <2>1. SUFFICES ASSUME Bad # {} PROVE FALSE  OBVIOUS
  <2>2. PICK m \in Bad : \A k \in Bad : m <= k
    <3>1. Bad \in SUBSET Nat  OBVIOUS
    <3>. HIDE DEF Bad
    <3>. QED  BY <2>1, <3>1, LeastExists
  <2>3. m \in Nat /\ m # 0 /\ ~Good(m)
    <3>. HIDE DEF Good
    <3>. QED  BY <1>2
  <2>4. m - 1 \in Nat /\ ~(m <= m - 1) /\ m - 1 + 1 = m  BY <2>3
  <2>5. Good(m - 1)
    <3>. HIDE DEF Good
    <3>. QED  BY <2>2, <2>4
  <2>6. Good(m - 1 + 1)
    <3>. HIDE DEF Good
    <3>. QED  BY <1>3, <2>4, <2>5
  <2>. HIDE DEF Good
  <2>. QED  BY <2>3, <2>4, <2>6
<1>5. Good(Cardinality(D))
  <2>1. Cardinality(D) \in Nat  BY FS_CardinalityType
  <2>. HIDE DEF Good
  <2>. QED  BY <1>4, <2>1
<1>6. PICK g \in [SUBSET D -> Int] : \A s \in SUBSET D : g[s] = SumStep(f, g, s)
  BY <1>1, <1>5
<1>7. g = [s \in SUBSET D |-> SumStep(f, g, s)]  BY <1>6
<1>. QED  BY <1>7

LEMMA SumsAreIntegers ==
  ASSUME NEW f, IsFiniteSet(DOMAIN f), f \in [DOMAIN f -> Int]
  PROVE  \A s \in SUBSET DOMAIN f :
            /\ PartialSums(f)[s] \in Int
            /\ PartialSums(f)[s] = SumStep(f, PartialSums(f), s)
<1>. DEFINE D == DOMAIN f
            g == PartialSums(f)
            Bad == {n \in Nat : \E s \in SUBSET D : Cardinality(s) = n /\ g[s] \notin Int}
<1>1. g = [s \in SUBSET D |-> SumStep(f, g, s)]
  BY SumsExist DEF PartialSums
<1>. HIDE DEF g
<1>2. \A s \in SUBSET D : g[s] = SumStep(f, g, s)  BY <1>1
<1>3. Bad = {}
  <2>1. SUFFICES ASSUME Bad # {} PROVE FALSE  OBVIOUS
  <2>2. PICK m \in Bad : \A k \in Bad : m <= k
    <3>1. Bad \in SUBSET Nat  OBVIOUS
    <3>. HIDE DEF Bad
    <3>. QED  BY <2>1, <3>1, LeastExists
  <2>3. PICK s \in SUBSET D : Cardinality(s) = m /\ g[s] \notin Int  OBVIOUS
  <2>4. CASE s = {}
    BY <1>2, <2>3, <2>4 DEF SumStep
  <2>5. CASE s # {}
    <3>. DEFINE x == CHOOSE y \in s : TRUE
                t == s \ {x}
    <3>1. IsFiniteSet(s)  BY FS_Subset
    <3>2. x \in s /\ Cardinality(t) = m - 1 /\ Cardinality(t) \in Nat /\ m \in Nat
      BY <2>3, <2>5, <3>1, SmallerSet
    <3>3. g[s] = f[x] + g[t]
      BY <1>2, <2>5 DEF SumStep
    <3>4. t \in SUBSET D  OBVIOUS
    <3>. HIDE DEF x, t
    <3>5. f[x] \in Int  BY <3>2
    <3>6. g[t] \notin Int  BY <2>3, <3>3, <3>5
    <3>7. Cardinality(t) \in Bad  BY <3>2, <3>4, <3>6
    <3>. QED  BY <2>2, <3>2, <3>7
  <2>. QED  BY <2>4, <2>5
<1>4. ASSUME NEW s \in SUBSET D PROVE g[s] \in Int
  <2>1. IsFiniteSet(s)  BY FS_Subset
  <2>2. Cardinality(s) \in Nat  BY <2>1, FS_CardinalityType
  <2>. QED  BY <1>3, <2>2
<1>. QED  BY <1>2, <1>4 DEF g

(* A sum of integers is an integer. *)
LEMMA SumType ==
  ASSUME NEW f, IsFiniteSet(DOMAIN f), f \in [DOMAIN f -> Int]
  PROVE  SumFunction(f) \in Int
BY SumIsPartialSum, SumsAreIntegers

(* The sum of one value is that value. *)
LEMMA SumOfOne ==
  ASSUME NEW x, NEW f \in [{x} -> Int]
  PROVE  SumFunction(f) = f[x]
<1>1. DOMAIN f = {x} /\ IsFiniteSet({x})  BY FS_Singleton
<1>2. \A s \in SUBSET {x} : PartialSums(f)[s] = SumStep(f, PartialSums(f), s)
  BY <1>1, SumsAreIntegers
<1>3. PartialSums(f)[{}] = 0
  BY <1>2 DEF SumStep
<1>4. (CHOOSE y \in {x} : TRUE) = x /\ {x} \ {x} = {}
  OBVIOUS
<1>5. PartialSums(f)[{x}] = f[x] + PartialSums(f)[{}]
  BY <1>2, <1>4 DEF SumStep
<1>6. f[x] \in Int  OBVIOUS
<1>. QED  BY <1>1, <1>3, <1>5, <1>6, SumIsPartialSum

(***************************************************************************)
(* Recursive functions and greatest elements.                              *)
(***************************************************************************)
(* What holds of x when it holds of all that is smaller, holds everywhere. *)
LEMMA NoFirstException ==
  ASSUME NEW X, NEW m \in [X -> Nat], NEW P,
         \A x \in X : (\A y \in X : m[y] < m[x] => y \in P) => x \in P
  PROVE  X \subseteq P
<1>. DEFINE Bad == {m[x] : x \in X \ P}
<1>1. SUFFICES ASSUME NEW e \in X, e \notin P PROVE FALSE  OBVIOUS
<1>2. Bad \in SUBSET Nat /\ Bad # {}  BY <1>1
<1>3. PICK n \in Bad : \A k \in Bad : n <= k
  <2>. HIDE DEF Bad
  <2>. QED  BY <1>2, LeastExists
<1>4. PICK x \in X : x \notin P /\ m[x] = n  OBVIOUS
<1>5. ASSUME NEW y \in X, m[y] < m[x], y \notin P PROVE FALSE
  <2>1. m[y] \in Bad  BY <1>5
  <2>2. m[y] \in Nat /\ n \in Nat /\ m[x] = n /\ n <= m[y]  BY <1>2, <1>3, <1>4, <2>1
  <2>. QED  BY <1>5, <2>2
<1>. QED  BY <1>4, <1>5

(* A recursive definition: a function is built from a function, and what   *)
(* it is at an argument depends on smaller arguments only.  The size of an *)
(* argument is m's, up to N.                                               *)
IsRecursion(G, m, N, X, Y) ==
    /\ Y # {}
    /\ N \in Nat
    /\ m \in [X -> 0..N]
    /\ G \in [[X -> Y] -> [X -> Y]]
    /\ \A f, h \in [X -> Y] : \A x \in X :
          (\A y \in X : m[y] < m[x] => f[y] = h[y]) => G[f][x] = G[h][x]

(* Some function is what it defines. *)
LEMMA RecursionExists ==
  ASSUME NEW X, NEW Y, NEW N, NEW m, NEW G, IsRecursion(G, m, N, X, Y)
  PROVE  \E f \in [X -> Y] : f = G[f]
<1>0. /\ N \in Nat /\ m \in [X -> 0..N]
      /\ G \in [[X -> Y] -> [X -> Y]]
      /\ \A x \in X : m[x] \in Nat
      /\ \E y0 : y0 \in Y
  BY DEF IsRecursion
<1>. DEFINE Good == {n \in Nat : \E f \in [X -> Y] : \A x \in X : m[x] <= n => f[x] = G[f][x]}
<1>1. ASSUME NEW n \in Int, NEW f \in [X -> Y], \A x \in X : m[x] <= n => f[x] = G[f][x]
      PROVE  \A x \in X : m[x] <= n + 1 => G[f][x] = G[G[f]][x]
  <2>1. TAKE x \in X
  <2>2. HAVE m[x] <= n + 1
  <2>3. ASSUME NEW y \in X, m[y] < m[x] PROVE f[y] = G[f][y]
    <3>1. m[x] \in Nat /\ m[y] \in Nat  BY <1>0
    <3>2. m[y] <= n  BY <2>2, <2>3, <3>1
    <3>. QED  BY <1>1, <3>2
  <2>4. G[f] \in [X -> Y]  BY <1>0
  <2>. QED  BY <2>3, <2>4 DEF IsRecursion
<1>2. 0 \in Good
  <2>0. PICK y0 \in Y : TRUE  BY <1>0
  <2>. DEFINE f == [x \in X |-> y0]
  <2>1. f \in [X -> Y]  BY <2>0
  <2>. HIDE DEF f
  <2>2. \A x \in X : m[x] <= -1 => f[x] = G[f][x]
    BY <1>0
  <2>3. \A x \in X : m[x] <= -1 + 1 => G[f][x] = G[G[f]][x]  BY <1>1, <2>1, <2>2
  <2>4. G[f] \in [X -> Y]  BY <1>0, <2>1
  <2>. QED  BY <2>3, <2>4
<1>3. ASSUME NEW n \in Good PROVE n + 1 \in Good
  <2>1. PICK f \in [X -> Y] : \A x \in X : m[x] <= n => f[x] = G[f][x]  OBVIOUS
  <2>2. n \in Nat /\ n \in Int /\ n + 1 \in Nat  OBVIOUS
  <2>3. \A x \in X : m[x] <= n + 1 => G[f][x] = G[G[f]][x]  BY <1>1, <2>1, <2>2
  <2>4. G[f] \in [X -> Y]  BY <1>0
  <2>. QED  BY <2>2, <2>3, <2>4
<1>. HIDE DEF Good
<1>4. Nat \subseteq Good
  <2>. DEFINE id == [n \in Nat |-> n]
  <2>1. id \in [Nat -> Nat]  OBVIOUS
  <2>2. ASSUME NEW n \in Nat, \A k \in Nat : id[k] < id[n] => k \in Good PROVE n \in Good
    <3>1. CASE n = 0  BY <1>2, <3>1
    <3>2. CASE n # 0
      <4>1. n - 1 \in Nat /\ n - 1 < n /\ n - 1 + 1 = n  BY <3>2
      <4>2. n - 1 \in Good  BY <2>2, <4>1
      <4>. QED  BY <1>3, <4>1, <4>2
    <3>. QED  BY <3>1, <3>2
  <2>. HIDE DEF id
  <2>. QED  BY <2>1, <2>2, NoFirstException
<1>5. N \in Good  BY <1>0, <1>4
<1>6. PICK f \in [X -> Y] : \A x \in X : m[x] <= N => f[x] = G[f][x]
  BY <1>5 DEF Good
<1>7. \A x \in X : f[x] = G[f][x]
  <2>1. \A x \in X : m[x] \in 0..N  BY <1>0
  <2>. QED  BY <1>0, <1>6, <2>1
<1>8. G[f] \in [X -> Y]  BY <1>0
<1>. QED  BY <1>7, <1>8

(* One of finitely many has the greatest value. *)
LEMMA GreatestExists ==
  ASSUME NEW S, IsFiniteSet(S), S # {}, NEW v \in [S -> Int]
  PROVE  \E x \in S : \A y \in S : v[y] <= v[x]
<1>. DEFINE R == {p \in S \X S : v[p[1]] > v[p[2]]}
<1>1. \A x, y \in S : <<x, y>> \in R <=> v[x] > v[y]  OBVIOUS
<1>2. \A x \in S : v[x] \in Int  OBVIOUS
<1>. HIDE DEF R
<1>3. StrictOrder(R, S)
  BY <1>1, <1>2 DEF StrictOrder
<1>4. PICK x \in S : \A y \in S : <<y, x>> \notin R  BY <1>3, MinimalExists
<1>5. \A y \in S : ~(v[y] > v[x]) /\ v[y] \in Int /\ v[x] \in Int  BY <1>1, <1>2, <1>4
<1>6. \A y \in S : v[y] <= v[x]  BY <1>5
<1>. QED  BY <1>6

LEMMA MaxOfIntegers ==
  ASSUME NEW S \in SUBSET Int, IsFiniteSet(S), S # {}
  PROVE  Max(S) \in S /\ \A y \in S : y <= Max(S)
<1>. DEFINE v == [x \in S |-> x]
<1>1. v \in [S -> Int]  OBVIOUS
<1>2. \A x \in S : v[x] = x  OBVIOUS
<1>. HIDE DEF v
<1>3. PICK x \in S : \A y \in S : v[y] <= v[x]  BY <1>1, GreatestExists
<1>4. \A y \in S : x >= y
  <2>1. x \in Int /\ \A y \in S : y \in Int  OBVIOUS
  <2>. QED  BY <1>2, <1>3, <2>1
<1>5. Max(S) \in S /\ \A y \in S : Max(S) >= y  BY <1>4 DEF Max
<1>6. \A y \in S : y \in Int  OBVIOUS
<1>. QED  BY <1>5, <1>6

(* The value at any place may be added last.                               *)
LEMMA SumWithout ==
  ASSUME NEW f, IsFiniteSet(DOMAIN f), f \in [DOMAIN f -> Int]
  PROVE  \A s \in SUBSET DOMAIN f : \A x \in s :
            PartialSums(f)[s] = f[x] + PartialSums(f)[s \ {x}]
<1>. DEFINE D == DOMAIN f
            X == SUBSET D
            g == PartialSums(f)
            P == {s \in X : \A x \in s : g[s] = f[x] + g[s \ {x}]}
            m == [s \in X |-> Cardinality(s)]
<1>1. \A s \in X : g[s] \in Int /\ g[s] = SumStep(f, g, s)
  BY SumsAreIntegers
<1>2. \A s \in X : IsFiniteSet(s) /\ Cardinality(s) \in Nat
  BY FS_Subset, FS_CardinalityType
<1>. HIDE DEF g
<1>3. \A s \in X : \A x \in s : s \ {x} \in X /\ m[s \ {x}] < m[s]
  <2>1. TAKE s \in X
  <2>2. TAKE x \in s
  <2>3. Cardinality(s \ {x}) = Cardinality(s) - 1  BY <1>2, FS_RemoveElement
  <2>4. Cardinality(s \ {x}) < Cardinality(s)  BY <1>2, <2>3
  <2>. QED  BY <2>4
<1>4. m \in [X -> Nat]  BY <1>2
<1>5. \A s \in X : (\A r \in X : m[r] < m[s] => r \in P) => s \in P
  <2>1. TAKE s \in X
  <2>2. HAVE \A r \in X : m[r] < m[s] => r \in P
  <2>3. ASSUME NEW x \in s PROVE g[s] = f[x] + g[s \ {x}]
    <3>. DEFINE y == CHOOSE z \in s : TRUE
    <3>1. y \in s  OBVIOUS
    <3>2. g[s] = f[y] + g[s \ {y}]  BY <1>1 DEF SumStep
    <3>. HIDE DEF y
    <3>3. CASE x = y  BY <3>2, <3>3
    <3>4. CASE x # y
      <4>1. s \ {x} \in P /\ s \ {y} \in P
        <5>. HIDE DEF P, m
        <5>. QED  BY <1>3, <2>2, <3>1
      <4>2. x \in s \ {y} /\ y \in s \ {x}  BY <3>1, <3>4
      <4>3. g[s \ {y}] = f[x] + g[(s \ {y}) \ {x}]  BY <4>1, <4>2
      <4>4. g[s \ {x}] = f[y] + g[(s \ {x}) \ {y}]  BY <4>1, <4>2
      <4>t. PICK t : t = (s \ {x}) \ {y}  OBVIOUS
      <4>5. t = (s \ {y}) \ {x} /\ t \in X  BY <4>t
      <4>6. f[x] \in Int /\ f[y] \in Int /\ g[t] \in Int  BY <1>1, <3>1, <4>5
      <4>7. g[s] = f[y] + (f[x] + g[t])  BY <3>2, <4>3, <4>5
      <4>8. g[s \ {x}] = f[y] + g[t]  BY <4>4, <4>t
      <4>. QED  BY <4>6, <4>7, <4>8
    <3>. QED  BY <3>3, <3>4
  <2>. QED  BY <2>3
<1>6. X \subseteq P
  <2>. HIDE DEF X, P, m
  <2>. QED  BY <1>4, <1>5, NoFirstException
<1>. QED  BY <1>6 DEF g

(* The sum of a sequence is its head and the sum of its tail.              *)
LEMMA SumOfSequence ==
  ASSUME NEW n \in Nat, NEW f \in [1..(n + 1) -> Int], NEW g \in [1..n -> Int],
         \A k \in 1..n : f[k + 1] = g[k]
  PROVE  SumFunction(f) = f[1] + SumFunction(g)
<1>. DEFINE F == PartialSums(f)
            G == PartialSums(g)
            P == {j \in Nat : j <= n => F[2..(j + 1)] = G[1..j]}
            id == [j \in Nat |-> j]
<1>1. DOMAIN f = 1..(n + 1) /\ DOMAIN g = 1..n  OBVIOUS
<1>2. IsFiniteSet(1..(n + 1)) /\ IsFiniteSet(1..n)
  <2>1. n + 1 \in Nat  OBVIOUS
  <2>. QED  BY <2>1, IndicesAreFinite
<1>3. /\ \A s \in SUBSET (1..(n + 1)) : \A x \in s : F[s] = f[x] + F[s \ {x}]
      /\ \A s \in SUBSET (1..n) : \A x \in s : G[s] = g[x] + G[s \ {x}]
  <2>1. IsFiniteSet(DOMAIN f) /\ f \in [DOMAIN f -> Int]  BY <1>1, <1>2
  <2>2. IsFiniteSet(DOMAIN g) /\ g \in [DOMAIN g -> Int]  BY <1>1, <1>2
  <2>3. \A s \in SUBSET DOMAIN f : \A x \in s : F[s] = f[x] + F[s \ {x}]
    BY <2>1, SumWithout
  <2>4. \A s \in SUBSET DOMAIN g : \A x \in s : G[s] = g[x] + G[s \ {x}]
    BY <2>2, SumWithout
  <2>. HIDE DEF F, G
  <2>. QED  BY <1>1, <2>3, <2>4
<1>4. F[{}] = 0 /\ G[{}] = 0
  BY <1>1, <1>2, SumsAreIntegers DEF SumStep
<1>5. SumFunction(f) = F[1..(n + 1)] /\ SumFunction(g) = G[1..n]
  BY <1>1, SumIsPartialSum
<1>. HIDE DEF F, G
<1>6. ASSUME NEW j \in Nat, \A i \in Nat : id[i] < id[j] => i \in P PROVE j \in P
  <2>1. CASE j = 0
    <3>1. 2..(j + 1) = {} /\ 1..j = {}  BY <2>1
    <3>. QED  BY <1>4, <3>1
  <2>2. CASE j # 0
    <3>0. SUFFICES ASSUME j <= n PROVE F[2..(j + 1)] = G[1..j]  OBVIOUS
    <3>1. j - 1 \in Nat /\ j - 1 < j /\ j - 1 + 1 = j /\ j - 1 <= n  BY <2>2, <3>0
    <3>2. F[2..j] = G[1..(j - 1)]
      <4>1. j - 1 \in P
        <5>1. id[j - 1] < id[j]  BY <3>1
        <5>. HIDE DEF P, id
        <5>. QED  BY <1>6, <3>1, <5>1
      <4>2. F[2..(j - 1 + 1)] = G[1..(j - 1)]  BY <3>1, <4>1
      <4>. QED  BY <3>1, <4>2
    <3>3. /\ 2..(j + 1) \in SUBSET (1..(n + 1)) /\ j + 1 \in 2..(j + 1)
          /\ (2..(j + 1)) \ {j + 1} = 2..j
      BY <2>2, <3>0
    <3>4. 1..j \in SUBSET (1..n) /\ j \in 1..j /\ (1..j) \ {j} = 1..(j - 1)
      BY <2>2, <3>0
    <3>5. F[2..(j + 1)] = f[j + 1] + F[2..j]  BY <1>3, <3>3
    <3>6. G[1..j] = g[j] + G[1..(j - 1)]  BY <1>3, <3>4
    <3>7. f[j + 1] = g[j]  BY <3>0, <3>4
    <3>. QED  BY <3>2, <3>5, <3>6, <3>7
  <2>. QED  BY <2>1, <2>2
<1>7. id \in [Nat -> Nat]  OBVIOUS
<1>8. Nat \subseteq P
  <2>. HIDE DEF P, id
  <2>. QED  BY <1>6, <1>7, NoFirstException
<1>9. F[2..(n + 1)] = G[1..n]  BY <1>8
<1>10. 1..(n + 1) \in SUBSET (1..(n + 1)) /\ 1 \in 1..(n + 1) /\ (1..(n + 1)) \ {1} = 2..(n + 1)
  OBVIOUS
<1>11. F[1..(n + 1)] = f[1] + F[2..(n + 1)]
  <2>s. PICK s : s = 1..(n + 1)  OBVIOUS
  <2>1. \A x \in s : F[s] = f[x] + F[s \ {x}]  BY <1>3, <1>10, <2>s
  <2>2. F[s] = f[1] + F[s \ {1}]  BY <1>10, <2>1, <2>s
  <2>. QED  BY <1>10, <2>2, <2>s
<1>. QED  BY <1>5, <1>9, <1>11

(* A sum of naturals is at least any two of them, and zero if all are.     *)
LEMMA SumOfNaturals ==
  ASSUME NEW f, IsFiniteSet(DOMAIN f), f \in [DOMAIN f -> Nat]
  PROVE  /\ SumFunction(f) \in Nat
         /\ \A x, y \in DOMAIN f : x # y => f[x] + f[y] <= SumFunction(f)
         /\ (\A x \in DOMAIN f : f[x] = 0) => SumFunction(f) = 0
<1>. DEFINE D == DOMAIN f
            X == SUBSET D
            g == PartialSums(f)
            P == {s \in X : g[s] \in Nat}
            Z == {s \in X : (\A x \in D : f[x] = 0) => g[s] = 0}
            m == [s \in X |-> Cardinality(s)]
<1>0. f \in [DOMAIN f -> Int]  OBVIOUS
<1>1. \A s \in X : g[s] \in Int /\ g[s] = SumStep(f, g, s)
  BY <1>0, SumsAreIntegers
<1>2. \A s \in X : \A x \in s : g[s] = f[x] + g[s \ {x}]
  BY <1>0, SumWithout
<1>3. SumFunction(f) = g[D]  BY SumIsPartialSum
<1>. HIDE DEF g
<1>4. m \in [X -> Nat]
  <2>1. \A s \in X : Cardinality(s) \in Nat  BY FS_Subset, FS_CardinalityType
  <2>. QED  BY <2>1
<1>5. \A s \in X : \A x \in s : s \ {x} \in X /\ m[s \ {x}] < m[s]
  <2>1. TAKE s \in X
  <2>2. TAKE x \in s
  <2>3. IsFiniteSet(s)  BY FS_Subset
  <2>4. Cardinality(s \ {x}) = Cardinality(s) - 1 /\ Cardinality(s) \in Nat
    BY <2>3, FS_RemoveElement, FS_CardinalityType
  <2>5. Cardinality(s \ {x}) < Cardinality(s)  BY <2>4
  <2>. QED  BY <2>5
<1>6. g[{}] = 0
  <2>1. {} \in X  OBVIOUS
  <2>. QED  BY <1>1, <2>1 DEF SumStep
<1>7. \A s \in X : (\A r \in X : m[r] < m[s] => r \in P) => s \in P
  <2>1. TAKE s \in X
  <2>2. HAVE \A r \in X : m[r] < m[s] => r \in P
  <2>3. CASE s = {}  BY <1>6, <2>3
  <2>4. ASSUME NEW x \in s PROVE s \in P
    <3>1. s \ {x} \in P
      <4>. HIDE DEF P, m
      <4>. QED  BY <1>5, <2>2
    <3>2. g[s] = f[x] + g[s \ {x}] /\ f[x] \in Nat  BY <1>2
    <3>. QED  BY <3>1, <3>2
  <2>. QED  BY <2>3, <2>4
<1>8. X \subseteq P
  <2>. HIDE DEF X, P, m
  <2>. QED  BY <1>4, <1>7, NoFirstException
<1>9. \A s \in X : (\A r \in X : m[r] < m[s] => r \in Z) => s \in Z
  <2>1. TAKE s \in X
  <2>2. HAVE \A r \in X : m[r] < m[s] => r \in Z
  <2>3. CASE s = {}  BY <1>6, <2>3
  <2>4. ASSUME NEW x \in s PROVE s \in Z
    <3>1. s \ {x} \in Z
      <4>. HIDE DEF Z, m
      <4>. QED  BY <1>5, <2>2
    <3>2. g[s] = f[x] + g[s \ {x}]  BY <1>2
    <3>. QED  BY <3>1, <3>2
  <2>. QED  BY <2>3, <2>4
<1>10. X \subseteq Z
  <2>. HIDE DEF X, Z, m
  <2>. QED  BY <1>4, <1>9, NoFirstException
<1>11. D \in X  OBVIOUS
<1>12. g[D] \in Nat  BY <1>8, <1>11
<1>13. ASSUME NEW x \in D, NEW y \in D, x # y PROVE f[x] + f[y] <= g[D]
  <2>t. PICK t : t = (D \ {x}) \ {y}  OBVIOUS
  <2>1. t \in X /\ D \ {x} \in X /\ y \in D \ {x}  BY <1>13, <2>t
  <2>2. g[D] = f[x] + g[D \ {x}]  BY <1>2, <1>11
  <2>3. g[D \ {x}] = f[y] + g[t]  BY <1>2, <2>1, <2>t
  <2>4. g[t] \in Nat  BY <1>8, <2>1
  <2>5. f[x] \in Nat /\ f[y] \in Nat  OBVIOUS
  <2>. QED  BY <2>2, <2>3, <2>4, <2>5
<1>14. (\A x \in D : f[x] = 0) => g[D] = 0  BY <1>10, <1>11
<1>. QED  BY <1>3, <1>12, <1>13, <1>14
=============================================================================
