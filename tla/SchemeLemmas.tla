----------------------------- MODULE SchemeLemmas -----------------------------
(***************************************************************************)
(* What the proofs about the schemes rest on: induction over the naturals  *)
(* and over finite sets, with a set in place of a predicate; the sums of   *)
(* Vectors, SumFunctionOnSet, which the library defines by recursion over  *)
(* the subsets of an index set; remainders; inner products, of vectors     *)
(* under a mask too; the searches for logarithms of SchemeGroups; how the  *)
(* masks of the Damgard and the DDH scheme cancel; and sums of what        *)
(* several clients contribute.                                             *)
(***************************************************************************)
EXTENDS DdhMultiSchemes, FiniteSetTheorems, WellFoundedInduction, TLAPS

-----------------------------------------------------------------------------
(* Induction *)

\* A set of naturals has a least element.
LEMMA LeastElement ==
  ASSUME NEW T \in SUBSET Nat, T # {}
  PROVE  \E x \in T : \A y \in T : x <= y
<1>1. \A x, y \in Nat : y < x => <<y, x>> \in OpToRel(<, Nat)
  BY DEF OpToRel
<1>2. PICK R : IsWellFoundedOn(R, Nat) /\ \A x, y \in Nat : y < x => <<y, x>> \in R
  BY <1>1, NatLessThanWellFounded
<1>3. PICK x \in T : \A y \in T : ~ (<<y, x>> \in R)
  BY <1>2, WFMin
<1>4. ASSUME NEW y \in T PROVE x <= y
  <2>1. x \in Nat /\ y \in Nat
    OBVIOUS
  <2>2. ~(y < x)
    BY <1>2, <1>3, <2>1
  <2> QED BY <2>1, <2>2
<1> QED BY <1>4

\* Induction over the naturals: P is the set of those that have the property.
LEMMA InductionOnNat ==
  ASSUME NEW P, 0 \in P, \A n \in Nat : n \in P => n + 1 \in P
  PROVE  Nat \subseteq P
<1>1. SUFFICES ASSUME Nat \ P # {} PROVE FALSE
  OBVIOUS
<1>2. PICK n \in Nat \ P : \A y \in Nat \ P : n <= y
  BY <1>1, LeastElement
<1>3. n # 0
  OBVIOUS
<1>4. n - 1 \in Nat /\ ~(n <= n - 1) /\ (n - 1) + 1 = n
  BY <1>3
<1>5. n - 1 \in P
  BY <1>2, <1>4
<1> QED BY <1>4, <1>5

\* Induction over the subsets of a finite set by their size: P holds the sets that
\* have the property.
LEMMA InductionOnSize ==
  ASSUME NEW S, IsFiniteSet(S), NEW P,
         \A T \in SUBSET S :
           (\A U \in SUBSET S : Cardinality(U) < Cardinality(T) => U \in P) => T \in P
  PROVE  SUBSET S \subseteq P
<1> DEFINE Sizes == {n \in Nat : \E T \in SUBSET S : T \notin P /\ Cardinality(T) = n}
<1>1. SUFFICES ASSUME NEW T \in SUBSET S, T \notin P PROVE FALSE
  OBVIOUS
<1>2. \A U \in SUBSET S : IsFiniteSet(U) /\ Cardinality(U) \in Nat
  BY FS_Subset, FS_CardinalityType
<1>3. Sizes \in SUBSET Nat /\ Cardinality(T) \in Sizes
  BY <1>1, <1>2
<1>4. PICK n \in Sizes : \A y \in Sizes : n <= y
  BY <1>3, LeastElement
<1>5. PICK V \in SUBSET S : V \notin P /\ Cardinality(V) = n
  BY <1>4
<1>6. ASSUME NEW U \in SUBSET S, Cardinality(U) < Cardinality(V) PROVE U \in P
  <2>1. Cardinality(U) \in Nat /\ Cardinality(V) \in Nat
    BY <1>2
  <2>2. Cardinality(U) \notin Sizes
    BY <2>1, <1>4, <1>5, <1>6
  <2> QED BY <2>1, <2>2
<1> QED BY <1>5, <1>6

\* Induction over a finite set, one element at a time.
LEMMA InductionOnSet ==
  ASSUME NEW S, NEW P, IsFiniteSet(S), {} \in P,
         \A T \in SUBSET S : \A x \in T : T \ {x} \in P => T \in P
  PROVE  S \in P
<1>1. ASSUME NEW T \in SUBSET S,
             \A U \in SUBSET S : Cardinality(U) < Cardinality(T) => U \in P
      PROVE  T \in P
  <2>1. CASE T = {}
    BY <2>1
  <2>2. CASE T # {}
    <3>1. PICK x \in T : TRUE
      BY <2>2
    <3>2. IsFiniteSet(T) /\ Cardinality(T) \in Nat
      BY FS_Subset, FS_CardinalityType
    <3>3. Cardinality(T \ {x}) = Cardinality(T) - 1
      BY <3>2, FS_RemoveElement
    <3>4. T \ {x} \in P
      BY <1>1, <3>2, <3>3
    <3> QED BY <3>4
  <2> QED BY <2>1, <2>2
<1>2. SUBSET S \subseteq P
  BY <1>1, InductionOnSize
<1> QED BY <1>2

-----------------------------------------------------------------------------
(* The recursion behind a sum *)

\* g is the function that the fold of the library takes for the sums of f over
\* the subsets of S.
IsSummation(g, f, S) ==
  g = [s \in SUBSET S |->
         IF s = {} THEN 0
         ELSE LET x == CHOOSE x \in s : TRUE IN f[x] + g[s \ {x}]]

\* What a sum is by the definitions of the library.
LEMMA SumDefinition ==
  ASSUME NEW f, NEW S
  PROVE  SumFunctionOnSet(f, S) = (CHOOSE g : IsSummation(g, f, S))[S]
BY DEF SumFunctionOnSet, FoldFunctionOnSet, MapThenFoldSet, IsSummation

\* How such a function is read.
LEMMA SummationOfNone ==
  ASSUME NEW f, NEW S, NEW g, IsSummation(g, f, S)
  PROVE  g[{}] = 0
BY DEF IsSummation

\* On a subset with members it takes one out and adds its value to the rest.
LEMMA SummationStep ==
  ASSUME NEW f, NEW S, NEW g, NEW s, IsSummation(g, f, S), s \in SUBSET S, s # {}
  PROVE  g[s] = f[CHOOSE x \in s : TRUE] + g[s \ {CHOOSE x \in s : TRUE}]
BY DEF IsSummation

\* There is only one, and on fewer subsets it is the same.
LEMMA SummationUnique ==
  ASSUME NEW f, NEW S, NEW T, NEW g, NEW k, NEW t,
         IsFiniteSet(S), T \subseteq S, t \subseteq T, IsSummation(g, f, S), IsSummation(k, f, T)
  PROVE  g[t] = k[t]
<1> DEFINE P == {s \in SUBSET T : g[s] = k[s]}
<1>1. ASSUME NEW s \in SUBSET T,
             \A u \in SUBSET T : Cardinality(u) < Cardinality(s) => u \in P
      PROVE  s \in P
  <2>1. CASE s = {}
    BY <2>1, SummationOfNone
  <2>2. CASE s # {}
    <3> DEFINE x == CHOOSE x \in s : TRUE
    <3>1. x \in s
      BY <2>2
    <3>2. IsFiniteSet(s) /\ Cardinality(s) \in Nat
      BY FS_Subset, FS_CardinalityType
    <3>3. Cardinality(s \ {x}) = Cardinality(s) - 1
      BY <3>1, <3>2, FS_RemoveElement
    <3>4. g[s \ {x}] = k[s \ {x}]
      BY <1>1, <3>2, <3>3
    <3>5. g[s] = f[x] + g[s \ {x}]
      <4>1. s \in SUBSET S
        OBVIOUS
      <4> QED BY <2>2, <4>1, SummationStep
    <3>6. k[s] = f[x] + k[s \ {x}]
      BY <2>2, SummationStep
    <3> QED BY <3>4, <3>5, <3>6
  <2> QED BY <2>1, <2>2
<1>2. IsFiniteSet(T)
  BY FS_Subset
<1>3. SUBSET T \subseteq P
  BY <1>1, <1>2, InductionOnSize
<1> QED BY <1>3

\* There is one on every finite set.
LEMMA SummationExists ==
  ASSUME NEW f, NEW S, IsFiniteSet(S)
  PROVE  \E g : IsSummation(g, f, S)
<1> DEFINE P == {T \in SUBSET S : \E g : IsSummation(g, f, T)}
           G(T) == CHOOSE g : IsSummation(g, f, T)
           C(T) == CHOOSE x \in T : TRUE
<1>1. ASSUME NEW T \in SUBSET S,
             \A u \in SUBSET S : Cardinality(u) < Cardinality(T) => u \in P
      PROVE  T \in P
  <2> DEFINE g == [s \in SUBSET T |-> IF s = {} THEN 0 ELSE f[C(s)] + G(s \ {C(s)})[s \ {C(s)}]]
  <2>1. ASSUME NEW s \in SUBSET T, s # {}
        PROVE  g[s \ {C(s)}] = G(s \ {C(s)})[s \ {C(s)}]
    <3> DEFINE u == s \ {C(s)}
    <3>1. C(s) \in s
      BY <2>1
    <3>2. IsFiniteSet(T) /\ IsFiniteSet(s) /\ Cardinality(s) \in Nat /\ Cardinality(T) \in Nat
      BY FS_Subset, FS_CardinalityType
    <3>3. Cardinality(u) = Cardinality(s) - 1 /\ Cardinality(s) <= Cardinality(T)
      BY <3>1, <3>2, FS_RemoveElement, FS_Subset
    <3>4. IsFiniteSet(u) /\ u \in SUBSET T
      BY <3>2, FS_Subset
    <3>5. u \in P
      BY <1>1, <3>2, <3>3, <3>4
    <3>6. IsSummation(G(u), f, u)
      BY <3>5
    <3>7. CASE u = {}
      <4>1. G(u)[u] = 0
        BY <3>6, <3>7, SummationOfNone
      <4> QED BY <3>4, <3>7, <4>1
    <3>8. CASE u # {}
      <4> DEFINE w == u \ {C(u)}
      <4>1. C(u) \in u
        BY <3>8
      <4>2. Cardinality(w) = Cardinality(u) - 1 /\ w \in SUBSET u /\ Cardinality(u) \in Nat
        BY <3>4, <4>1, FS_RemoveElement, FS_CardinalityType
      <4>3. w \in P
        BY <1>1, <3>2, <3>3, <3>4, <4>2
      <4>4. IsSummation(G(w), f, w)
        BY <4>3
      <4>5. G(u)[w] = G(w)[w]
        <5> HIDE DEF G, w, u
        <5> QED BY <3>4, <3>6, <4>2, <4>4, SummationUnique
      <4>6. G(u)[u] = f[C(u)] + G(u)[w]
        BY <3>6, <3>8, SummationStep
      <4>7. g[u] = f[C(u)] + G(w)[w]
        BY <3>4, <3>8
      <4> QED BY <4>5, <4>6, <4>7
    <3> QED BY <3>7, <3>8
  <2>2. IsSummation(g, f, T)
    <3> DEFINE k == [s \in SUBSET T |-> IF s = {} THEN 0 ELSE f[C(s)] + g[s \ {C(s)}]]
    <3>1. ASSUME NEW s \in SUBSET T PROVE g[s] = k[s]
      <4>1. CASE s = {}
        BY <4>1
      <4>2. CASE s # {}
        <5>1. g[s] = f[C(s)] + G(s \ {C(s)})[s \ {C(s)}]
          BY <4>2
        <5>2. k[s] = f[C(s)] + g[s \ {C(s)}]
          BY <4>2
        <5>3. g[s \ {C(s)}] = G(s \ {C(s)})[s \ {C(s)}]
          BY <2>1, <4>2
        <5> QED BY <5>1, <5>2, <5>3
      <4> QED BY <4>1, <4>2
    <3>2. g = k
      <4>1. g = [s \in SUBSET T |-> g[s]] /\ k = [s \in SUBSET T |-> k[s]]
        OBVIOUS
      <4> HIDE DEF g, k
      <4> QED BY <3>1, <4>1
    <3> QED BY <3>2 DEF IsSummation
  <2> QED BY <2>2
<1>2. SUBSET S \subseteq P
  <2> HIDE DEF P
  <2> QED BY <1>1, InductionOnSize
<1> QED BY <1>2

-----------------------------------------------------------------------------
(* Sums *)

\* Such a function holds the sums.
LEMMA SummationValue ==
  ASSUME NEW f, NEW S, NEW T, NEW g, IsFiniteSet(S), T \subseteq S, IsSummation(g, f, S)
  PROVE  g[T] = SumFunctionOnSet(f, T)
<1>1. IsFiniteSet(T)
  BY FS_Subset
<1>2. PICK k : k = CHOOSE c : IsSummation(c, f, T)
  OBVIOUS
<1>3. IsSummation(k, f, T)
  BY <1>1, <1>2, SummationExists
<1>4. g[T] = k[T]
  BY <1>3, SummationUnique
<1>5. SumFunctionOnSet(f, T) = k[T]
  BY <1>2, SumDefinition
<1> QED BY <1>4, <1>5

\* The empty sum.
LEMMA SumEmpty == ASSUME NEW f PROVE SumFunctionOnSet(f, {}) = 0
<1>1. IsFiniteSet({})
  BY FS_EmptySet
<1>2. PICK g : IsSummation(g, f, {})
  BY <1>1, SummationExists
<1>3. g[{}] = 0
  BY <1>2, SummationOfNone
<1>4. g[{}] = SumFunctionOnSet(f, {})
  BY <1>1, <1>2, SummationValue
<1> QED BY <1>3, <1>4

\* The element that the library takes first.
First(S) == CHOOSE x \in S : TRUE

\* The sum over a set with members is the value of its first one and the rest.
LEMMA SumFirst ==
  ASSUME NEW f, NEW S, IsFiniteSet(S), S # {}
  PROVE  /\ First(S) \in S
         /\ SumFunctionOnSet(f, S) = f[First(S)] + SumFunctionOnSet(f, S \ {First(S)})
<1>1. First(S) \in S
  BY DEF First
<1>2. PICK g : IsSummation(g, f, S)
  BY SummationExists
<1>3. S \ {First(S)} \subseteq S
  OBVIOUS
<1>4. g[S] = f[First(S)] + g[S \ {First(S)}]
  BY <1>2, <1>3, SummationStep DEF First
<1>5. g[S] = SumFunctionOnSet(f, S)
  BY <1>2, <1>3, SummationValue
<1>6. g[S \ {First(S)}] = SumFunctionOnSet(f, S \ {First(S)})
  BY <1>2, <1>3, SummationValue
<1> QED BY <1>1, <1>4, <1>5, <1>6

\* Two functions with the same values have the same sum.
LEMMA SumCongruence ==
  ASSUME NEW S, NEW f, NEW g, IsFiniteSet(S), \A x \in S : f[x] = g[x]
  PROVE  SumFunctionOnSet(f, S) = SumFunctionOnSet(g, S)
<1> DEFINE P == {T \in SUBSET S : SumFunctionOnSet(f, T) = SumFunctionOnSet(g, T)}
<1>1. ASSUME NEW T \in SUBSET S,
             \A u \in SUBSET S : Cardinality(u) < Cardinality(T) => u \in P
      PROVE  T \in P
  <2>1. CASE T = {}
    BY <2>1, SumEmpty
  <2>2. CASE T # {}
    <3> DEFINE U == T \ {First(T)}
    <3>1. IsFiniteSet(T) /\ Cardinality(T) \in Nat
      BY FS_Subset, FS_CardinalityType
    <3>2. First(T) \in T
      BY <2>2, <3>1, SumFirst
    <3>3. Cardinality(U) = Cardinality(T) - 1
      BY <3>1, <3>2, FS_RemoveElement
    <3>4. U \in P
      BY <1>1, <3>1, <3>3
    <3>5. f[First(T)] = g[First(T)] /\ SumFunctionOnSet(f, U) = SumFunctionOnSet(g, U)
      BY <3>2, <3>4
    <3>6. /\ SumFunctionOnSet(f, T) = f[First(T)] + SumFunctionOnSet(f, U)
          /\ SumFunctionOnSet(g, T) = g[First(T)] + SumFunctionOnSet(g, U)
      BY <2>2, <3>1, SumFirst
    <3> QED BY <3>5, <3>6
  <2> QED BY <2>1, <2>2
<1>2. SUBSET S \subseteq P
  <2> HIDE DEF P
  <2> QED BY <1>1, InductionOnSize
<1> QED BY <1>2

\* A sum of integers is an integer.
LEMMA SumIsInt ==
  ASSUME NEW S, NEW f, IsFiniteSet(S), \A x \in S : f[x] \in Int
  PROVE  SumFunctionOnSet(f, S) \in Int
<1> DEFINE P == {T \in SUBSET S : SumFunctionOnSet(f, T) \in Int}
<1>1. ASSUME NEW T \in SUBSET S,
             \A u \in SUBSET S : Cardinality(u) < Cardinality(T) => u \in P
      PROVE  T \in P
  <2>1. CASE T = {}
    BY <2>1, SumEmpty
  <2>2. CASE T # {}
    <3> DEFINE U == T \ {First(T)}
    <3>1. IsFiniteSet(T) /\ Cardinality(T) \in Nat
      BY FS_Subset, FS_CardinalityType
    <3>2. First(T) \in T /\ SumFunctionOnSet(f, T) = f[First(T)] + SumFunctionOnSet(f, U)
      BY <2>2, <3>1, SumFirst
    <3>3. Cardinality(U) = Cardinality(T) - 1
      BY <3>1, <3>2, FS_RemoveElement
    <3>4. U \in P
      BY <1>1, <3>1, <3>3
    <3>5. f[First(T)] \in Int /\ SumFunctionOnSet(f, U) \in Int
      BY <3>2, <3>4
    <3> QED BY <3>2, <3>5
  <2> QED BY <2>1, <2>2
<1>2. SUBSET S \subseteq P
  <2> HIDE DEF P
  <2> QED BY <1>1, InductionOnSize
<1> QED BY <1>2

\* A sum does not depend on the element that is taken first.
LEMMA SumRemove ==
  ASSUME NEW S, NEW f, NEW a, IsFiniteSet(S), \A x \in S : f[x] \in Int, a \in S
  PROVE  SumFunctionOnSet(f, S) = f[a] + SumFunctionOnSet(f, S \ {a})
<1> DEFINE P == {T \in SUBSET S :
                   \A x \in T : SumFunctionOnSet(f, T) = f[x] + SumFunctionOnSet(f, T \ {x})}
<1>1. ASSUME NEW T \in SUBSET S,
             \A u \in SUBSET S : Cardinality(u) < Cardinality(T) => u \in P
      PROVE  T \in P
  <2>1. SUFFICES ASSUME NEW x \in T
                 PROVE  SumFunctionOnSet(f, T) = f[x] + SumFunctionOnSet(f, T \ {x})
    OBVIOUS
  <2> DEFINE y == First(T)
  <2>2. IsFiniteSet(T) /\ Cardinality(T) \in Nat
    BY FS_Subset, FS_CardinalityType
  <2>3. y \in T /\ SumFunctionOnSet(f, T) = f[y] + SumFunctionOnSet(f, T \ {y})
    BY <2>2, SumFirst
  <2>4. CASE x = y
    BY <2>3, <2>4
  <2>5. CASE x # y
    <3> HIDE DEF y
    <3> DEFINE U == (T \ {x}) \ {y}
    <3>1. Cardinality(T \ {x}) = Cardinality(T) - 1 /\ Cardinality(T \ {y}) = Cardinality(T) - 1
      BY <2>2, <2>3, FS_RemoveElement
    <3>2. T \ {x} \in P /\ T \ {y} \in P
      BY <1>1, <2>2, <3>1
    <3>3. U = (T \ {y}) \ {x}
      OBVIOUS
    <3>4. SumFunctionOnSet(f, T \ {y}) = f[x] + SumFunctionOnSet(f, U)
      BY <2>5, <3>2, <3>3
    <3>5. SumFunctionOnSet(f, T \ {x}) = f[y] + SumFunctionOnSet(f, U)
      BY <2>3, <2>5, <3>2
    <3>6. f[x] \in Int /\ f[y] \in Int
      BY <2>3
    <3>7. SumFunctionOnSet(f, U) \in Int
      <4>1. IsFiniteSet(U) /\ \A u \in U : f[u] \in Int
        BY FS_Subset
      <4> QED BY <4>1, SumIsInt
    <3> QED BY <2>3, <3>4, <3>5, <3>6, <3>7
  <2> QED BY <2>4, <2>5
<1>2. SUBSET S \subseteq P
  <2> HIDE DEF P
  <2> QED BY <1>1, InductionOnSize
<1> QED BY <1>2

-----------------------------------------------------------------------------
(* Sums of sums *)

\* The sum of two functions.
LEMMA SumPointwise ==
  ASSUME NEW S, NEW f, NEW g, NEW k, IsFiniteSet(S),
         \A x \in S : f[x] \in Int /\ g[x] \in Int /\ k[x] = f[x] + g[x]
  PROVE  SumFunctionOnSet(k, S) = SumFunctionOnSet(f, S) + SumFunctionOnSet(g, S)
<1> DEFINE P == {T \in SUBSET S :
                   SumFunctionOnSet(k, T) = SumFunctionOnSet(f, T) + SumFunctionOnSet(g, T)}
<1>1. {} \in P
  BY SumEmpty
<1>2. ASSUME NEW T \in SUBSET S, NEW x \in T, T \ {x} \in P
      PROVE  T \in P
  <2> DEFINE U == T \ {x}
  <2>1. IsFiniteSet(T) /\ IsFiniteSet(U)
    BY FS_Subset
  <2>2. \A y \in T : f[y] \in Int /\ g[y] \in Int /\ k[y] \in Int
    OBVIOUS
  <2>3. /\ SumFunctionOnSet(f, T) = f[x] + SumFunctionOnSet(f, U)
        /\ SumFunctionOnSet(g, T) = g[x] + SumFunctionOnSet(g, U)
        /\ SumFunctionOnSet(k, T) = k[x] + SumFunctionOnSet(k, U)
    BY <2>1, <2>2, SumRemove
  <2>4. SumFunctionOnSet(f, U) \in Int /\ SumFunctionOnSet(g, U) \in Int
    BY <2>1, <2>2, SumIsInt
  <2>5. SumFunctionOnSet(k, U) = SumFunctionOnSet(f, U) + SumFunctionOnSet(g, U)
    BY <1>2
  <2>6. f[x] \in Int /\ g[x] \in Int /\ k[x] = f[x] + g[x]
    OBVIOUS
  <2>7. SumFunctionOnSet(k, T) = SumFunctionOnSet(f, T) + SumFunctionOnSet(g, T)
    <3> HIDE DEF U
    <3> QED BY <2>3, <2>4, <2>5, <2>6
  <2> QED BY <2>7
<1>3. S \in P
  <2> HIDE DEF P
  <2> QED BY <1>1, <1>2, InductionOnSet
<1> QED BY <1>3

\* A multiple of a function.
LEMMA SumScaled ==
  ASSUME NEW S, NEW f, NEW k, NEW c, IsFiniteSet(S), c \in Int,
         \A x \in S : f[x] \in Int /\ k[x] = c * f[x]
  PROVE  SumFunctionOnSet(k, S) = c * SumFunctionOnSet(f, S)
<1> DEFINE P == {T \in SUBSET S : SumFunctionOnSet(k, T) = c * SumFunctionOnSet(f, T)}
<1>1. {} \in P
  <2>1. c * 0 = 0
    OBVIOUS
  <2> QED BY <2>1, SumEmpty
<1>2. ASSUME NEW T \in SUBSET S, NEW x \in T, T \ {x} \in P
      PROVE  T \in P
  <2> DEFINE U == T \ {x}
  <2>1. IsFiniteSet(T) /\ IsFiniteSet(U)
    BY FS_Subset
  <2>2. \A y \in T : f[y] \in Int /\ k[y] \in Int
    OBVIOUS
  <2>3. /\ SumFunctionOnSet(f, T) = f[x] + SumFunctionOnSet(f, U)
        /\ SumFunctionOnSet(k, T) = k[x] + SumFunctionOnSet(k, U)
    BY <2>1, <2>2, SumRemove
  <2>4. SumFunctionOnSet(f, U) \in Int
    BY <2>1, <2>2, SumIsInt
  <2>5. SumFunctionOnSet(k, U) = c * SumFunctionOnSet(f, U) /\ f[x] \in Int /\ k[x] = c * f[x]
    BY <1>2
  <2>6. SumFunctionOnSet(k, T) = c * SumFunctionOnSet(f, T)
    <3> HIDE DEF U
    <3> QED BY <2>3, <2>4, <2>5
  <2> QED BY <2>6
<1>3. S \in P
  <2> HIDE DEF P
  <2> QED BY <1>1, <1>2, InductionOnSet
<1> QED BY <1>3

\* A sum of zeros.
LEMMA SumOfZeros ==
  ASSUME NEW S, NEW f, IsFiniteSet(S), \A x \in S : f[x] = 0
  PROVE  SumFunctionOnSet(f, S) = 0
<1> DEFINE P == {T \in SUBSET S : SumFunctionOnSet(f, T) = 0}
<1>1. {} \in P
  BY SumEmpty
<1>2. ASSUME NEW T \in SUBSET S, NEW x \in T, T \ {x} \in P
      PROVE  T \in P
  <2>1. IsFiniteSet(T) /\ \A y \in T : f[y] \in Int
    BY FS_Subset
  <2>2. SumFunctionOnSet(f, T) = f[x] + SumFunctionOnSet(f, T \ {x})
    BY <2>1, SumRemove
  <2> QED BY <1>2, <2>2
<1>3. S \in P
  <2> HIDE DEF P
  <2> QED BY <1>1, <1>2, InductionOnSet
<1> QED BY <1>3

\* A sum with one term.
LEMMA SumSingle ==
  ASSUME NEW S, NEW f, NEW a, IsFiniteSet(S), a \in S, f[a] \in Int,
         \A x \in S : x # a => f[x] = 0
  PROVE  SumFunctionOnSet(f, S) = f[a]
<1>1. \A x \in S : f[x] \in Int
  OBVIOUS
<1>2. IsFiniteSet(S \ {a}) /\ \A x \in S \ {a} : f[x] = 0
  BY FS_Subset
<1>3. SumFunctionOnSet(f, S \ {a}) = 0
  BY <1>2, SumOfZeros
<1>4. SumFunctionOnSet(f, S) = f[a] + SumFunctionOnSet(f, S \ {a})
  BY <1>1, SumRemove
<1> QED BY <1>3, <1>4

\* The sum over two sets that are apart.
LEMMA SumOfUnion ==
  ASSUME NEW S, NEW R, NEW f, IsFiniteSet(S), IsFiniteSet(R), S \cap R = {},
         \A x \in S \cup R : f[x] \in Int
  PROVE  /\ IsFiniteSet(S \cup R)
         /\ SumFunctionOnSet(f, S \cup R) = SumFunctionOnSet(f, S) + SumFunctionOnSet(f, R)
<1> DEFINE P == {T \in SUBSET R :
                   SumFunctionOnSet(f, S \cup T) = SumFunctionOnSet(f, S) + SumFunctionOnSet(f, T)}
<1>0. SumFunctionOnSet(f, S) \in Int /\ IsFiniteSet(S \cup R)
  BY SumIsInt, FS_Union
<1>1. {} \in P
  BY <1>0, SumEmpty
<1>2. ASSUME NEW T \in SUBSET R, NEW x \in T, T \ {x} \in P
      PROVE  T \in P
  <2> DEFINE U == T \ {x}
             V == S \cup T
  <2>1. IsFiniteSet(T) /\ IsFiniteSet(U) /\ \A y \in T : f[y] \in Int
    BY FS_Subset
  <2>2. /\ SumFunctionOnSet(f, T) = f[x] + SumFunctionOnSet(f, U)
        /\ SumFunctionOnSet(f, U) \in Int
    BY <2>1, SumRemove, SumIsInt
  <2>3. IsFiniteSet(V) /\ x \in V /\ \A y \in V : f[y] \in Int
    BY <1>0, FS_Subset
  <2>4. SumFunctionOnSet(f, V) = f[x] + SumFunctionOnSet(f, V \ {x})
    <3> HIDE DEF V
    <3> QED BY <2>3, SumRemove
  <2>5. SumFunctionOnSet(f, V \ {x}) = SumFunctionOnSet(f, S \cup U)
    <3>1. V \ {x} = S \cup U
      OBVIOUS
    <3> QED BY <3>1, Zenon
  <2>6. SumFunctionOnSet(f, S \cup U) = SumFunctionOnSet(f, S) + SumFunctionOnSet(f, U) /\ f[x] \in Int
    BY <1>2
  <2>7. SumFunctionOnSet(f, V) = SumFunctionOnSet(f, S) + SumFunctionOnSet(f, T)
    <3> HIDE DEF U, V
    <3> QED BY <1>0, <2>2, <2>4, <2>5, <2>6
  <2> QED BY <2>7
<1>3. R \in P
  <2> HIDE DEF P
  <2> QED BY <1>1, <1>2, InductionOnSet
<1> QED BY <1>0, <1>3

\* The matrix b of integers is the transpose of a; r has the sums of the rows of a.
AreTransposed(a, b, S, R) == \A i \in S : \A j \in R : a[i][j] \in Int /\ b[j][i] = a[i][j]
AreRowSums(r, a, S, R) == \A i \in S : r[i] = SumFunctionOnSet(a[i], R)

\* The order of summation: r holds the sums of the rows of the matrix a, and c those of
\* its transpose b.
LEMMA SumExchange ==
  ASSUME NEW S, NEW R, NEW a, NEW b, NEW r, NEW c, IsFiniteSet(S), IsFiniteSet(R),
         AreTransposed(a, b, S, R), AreRowSums(r, a, S, R), AreRowSums(c, b, R, S)
  PROVE  SumFunctionOnSet(r, S) = SumFunctionOnSet(c, R)
<1> USE DEF AreTransposed, AreRowSums
<1> DEFINE col(j) == [i \in S |-> a[i][j]]
           cols(T) == [j \in R |-> SumFunctionOnSet(col(j), T)]
           P == {T \in SUBSET S : SumFunctionOnSet(r, T) = SumFunctionOnSet(cols(T), R)}
<1>0. \A i \in S : r[i] \in Int
  <2>1. ASSUME NEW i \in S PROVE r[i] \in Int
    <3>1. \A j \in R : a[i][j] \in Int
      OBVIOUS
    <3> QED BY <3>1, SumIsInt
  <2> QED BY <2>1
<1>1. {} \in P
  <2>1. \A j \in R : cols({})[j] = 0
    BY SumEmpty
  <2>2. SumFunctionOnSet(cols({}), R) = 0
    BY <2>1, SumOfZeros
  <2> QED BY <2>2, SumEmpty
<1>2. ASSUME NEW T \in SUBSET S, NEW x \in T, T \ {x} \in P
      PROVE  T \in P
  <2> DEFINE U == T \ {x}
  <2>1. IsFiniteSet(T) /\ IsFiniteSet(U)
    BY FS_Subset
  <2>2. SumFunctionOnSet(r, T) = r[x] + SumFunctionOnSet(r, U)
    <3>1. \A i \in T : r[i] \in Int
      BY <1>0
    <3> QED BY <2>1, <3>1, SumRemove
  <2>3. ASSUME NEW j \in R
        PROVE  a[x][j] \in Int /\ cols(U)[j] \in Int /\ cols(T)[j] = a[x][j] + cols(U)[j]
    <3>1. /\ \A i \in T : col(j)[i] \in Int
          /\ \A i \in U : col(j)[i] \in Int
      OBVIOUS
    <3>2. /\ SumFunctionOnSet(col(j), T) = col(j)[x] + SumFunctionOnSet(col(j), U)
          /\ SumFunctionOnSet(col(j), U) \in Int
      <4> HIDE DEF col, U
      <4>1. U = T \ {x}
        BY DEF U
      <4> QED BY <2>1, <3>1, <4>1, SumRemove, SumIsInt
    <3> QED BY <3>2
  <2>4. PICK tT : tT = cols(T)
    OBVIOUS
  <2>5. PICK tU : tU = cols(U)
    OBVIOUS
  <2>6. SumFunctionOnSet(tT, R) = SumFunctionOnSet(a[x], R) + SumFunctionOnSet(tU, R)
    <3>1. \A j \in R : a[x][j] \in Int /\ tU[j] \in Int /\ tT[j] = a[x][j] + tU[j]
      BY <2>3, <2>4, <2>5
    <3> QED BY <3>1, SumPointwise
  <2>7. r[x] = SumFunctionOnSet(a[x], R) /\ SumFunctionOnSet(r, U) = SumFunctionOnSet(cols(U), R)
    BY <1>2
  <2>8. SumFunctionOnSet(r, T) = SumFunctionOnSet(cols(T), R)
    <3> HIDE DEF cols, U
    <3> QED BY <2>2, <2>4, <2>5, <2>6, <2>7
  <2> QED BY <2>8
<1>3. S \in P
  <2> HIDE DEF P
  <2> QED BY <1>1, <1>2, InductionOnSet
<1>4. SumFunctionOnSet(cols(S), R) = SumFunctionOnSet(c, R)
  <2>1. ASSUME NEW j \in R PROVE cols(S)[j] = c[j]
    <3>1. \A i \in S : col(j)[i] = b[j][i]
      OBVIOUS
    <3>2. cols(S)[j] = SumFunctionOnSet(col(j), S) /\ c[j] = SumFunctionOnSet(b[j], S)
      OBVIOUS
    <3> HIDE DEF cols, col
    <3> QED BY <3>1, <3>2, SumCongruence
  <2> HIDE DEF cols
  <2> QED BY <2>1, SumCongruence
<1> QED BY <1>3, <1>4
-----------------------------------------------------------------------------
(* Remainders *)

\* a and b differ by a multiple of n.
Congruent(a, b, n) == \E c \in Int : a = b + n * c

\* What a division returns.
LEMMA Division ==
  ASSUME NEW n \in Nat, n # 0, NEW a \in Int
  PROVE  /\ a % n \in 0..(n - 1)
         /\ \E c \in Int : a = (n * c) + (a % n)
<1>1. a = (n * (a \div n)) + (a % n) /\ a % n \in 0..(n - 1)
  OBVIOUS
<1>2. a \div n \in Int
  OBVIOUS
<1> QED BY <1>1, <1>2

\* A number is determined by a remainder and a multiple of n.
LEMMA DivisionUnique ==
  ASSUME NEW n \in Nat, NEW c \in Int, NEW r \in 0..(n - 1)
  PROVE  ((n * c) + r) % n = r
<1> DEFINE a == (n * c) + r
<1>0. n # 0 /\ a \in Int
  OBVIOUS
<1>1. PICK d \in Int : a = (n * d) + (a % n)
  <2> HIDE DEF a
  <2> QED BY <1>0, Division
<1>2. a % n \in 0..(n - 1)
  <2> HIDE DEF a
  <2> QED BY <1>0, Division
<1>3. n * (c - d) = (a % n) - r
  <2>1. n * (c - d) = n * c - n * d
    OBVIOUS
  <2>2. (n * c) + r = (n * d) + (a % n)
    BY <1>1
  <2> HIDE DEF a
  <2> QED BY <2>1, <2>2, <1>2
<1>4. c - d = 0
  <2>1. PICK k \in Int : k = c - d
    OBVIOUS
  <2>2. n * k < n /\ n * k > -n
    BY <1>2, <1>3, <2>1
  <2>3. ~(k >= 1)
    <3>1. ASSUME k >= 1 PROVE n * k >= n
      BY <3>1
    <3> QED BY <2>2, <3>1
  <2>4. ~(k <= -1)
    <3>1. ASSUME k <= -1 PROVE n * k <= -n
      BY <3>1
    <3> QED BY <2>2, <3>1
  <2> QED BY <2>1, <2>3, <2>4
<1>5. n * (c - d) = 0
  BY <1>4
<1> QED BY <1>2, <1>3, <1>5

\* Congruence is an equivalence, and keeps sums, differences and products.
LEMMA CongruentRefl ==
  ASSUME NEW n \in Nat, NEW a \in Int PROVE Congruent(a, a, n)
<1>1. a = a + n * 0
  OBVIOUS
<1> QED BY <1>1 DEF Congruent

\* It is symmetric.
LEMMA CongruentSym ==
  ASSUME NEW n \in Nat, NEW a \in Int, NEW b \in Int, Congruent(a, b, n)
  PROVE  Congruent(b, a, n)
<1>1. PICK c \in Int : a = b + n * c
  BY DEF Congruent
<1>2. b = a + n * (-c)
  <2>1. n * (-c) = -(n * c)
    OBVIOUS
  <2> QED BY <1>1, <2>1
<1> QED BY <1>2 DEF Congruent

\* It is transitive.
LEMMA CongruentTrans ==
  ASSUME NEW n \in Nat, NEW a \in Int, NEW b \in Int, NEW c \in Int,
         Congruent(a, b, n), Congruent(b, c, n)
  PROVE  Congruent(a, c, n)
<1>1. PICK d \in Int : a = b + n * d
  BY DEF Congruent
<1>2. PICK e \in Int : b = c + n * e
  BY DEF Congruent
<1>3. a = c + n * (d + e)
  <2>1. n * (d + e) = n * d + n * e
    OBVIOUS
  <2> QED BY <1>1, <1>2, <2>1
<1>4. d + e \in Int
  OBVIOUS
<1> QED BY <1>3, <1>4 DEF Congruent

\* It is kept by sums,
LEMMA CongruentAdd ==
  ASSUME NEW n \in Nat, NEW a \in Int, NEW b \in Int, NEW c \in Int, NEW d \in Int,
         Congruent(a, b, n), Congruent(c, d, n)
  PROVE  Congruent(a + c, b + d, n)
<1>1. PICK e \in Int : a = b + n * e
  BY DEF Congruent
<1>2. PICK f \in Int : c = d + n * f
  BY DEF Congruent
<1>3. a + c = (b + d) + n * (e + f)
  <2>1. n * (e + f) = n * e + n * f
    OBVIOUS
  <2> QED BY <1>1, <1>2, <2>1
<1>4. e + f \in Int
  OBVIOUS
<1> QED BY <1>3, <1>4 DEF Congruent

\* by differences,
LEMMA CongruentSub ==
  ASSUME NEW n \in Nat, NEW a \in Int, NEW b \in Int, NEW c \in Int, NEW d \in Int,
         Congruent(a, b, n), Congruent(c, d, n)
  PROVE  Congruent(a - c, b - d, n)
<1>1. PICK e \in Int : a = b + n * e
  BY DEF Congruent
<1>2. PICK f \in Int : c = d + n * f
  BY DEF Congruent
<1>3. a - c = (b - d) + n * (e - f)
  <2>1. n * (e - f) = n * e - n * f
    OBVIOUS
  <2> QED BY <1>1, <1>2, <2>1
<1>4. e - f \in Int
  OBVIOUS
<1> QED BY <1>3, <1>4 DEF Congruent

\* and by products.
LEMMA CongruentMul ==
  ASSUME NEW n \in Nat, NEW a \in Int, NEW b \in Int, NEW c \in Int, NEW d \in Int,
         Congruent(a, b, n), Congruent(c, d, n)
  PROVE  Congruent(a * c, b * d, n)
<1>1. PICK e \in Int : a = b + n * e
  BY DEF Congruent
<1>2. PICK f \in Int : c = d + n * f
  BY DEF Congruent
<1>3. a * c = b * d + n * (e * d + b * f + n * (e * f))
  <2>1. a * c = b * d + (n * e) * d + b * (n * f) + (n * e) * (n * f)
    <3>1. PICK u, v \in Int : u = n * e /\ v = n * f
      OBVIOUS
    <3>2. (b + u) * (d + v) = b * d + u * d + b * v + u * v
      OBVIOUS
    <3> QED BY <1>1, <1>2, <3>1, <3>2
  <2>2. (n * e) * d = n * (e * d) /\ b * (n * f) = n * (b * f)
        /\ (n * e) * (n * f) = n * (n * (e * f))
    OBVIOUS
  <2>3. PICK x, y, z \in Int : x = e * d /\ y = b * f /\ z = n * (e * f)
    OBVIOUS
  <2>4. n * (x + y + z) = n * x + n * y + n * z
    OBVIOUS
  <2> QED BY <2>1, <2>2, <2>3, <2>4
<1>4. e * d + b * f + n * (e * f) \in Int
  OBVIOUS
<1> QED BY <1>3, <1>4 DEF Congruent

\* A remainder is congruent to the number, by the factors of the divisor too.
LEMMA CongruentRemainder ==
  ASSUME NEW n \in Nat, NEW m \in Nat, NEW k \in Nat, NEW a \in Int, k # 0, k = n * m
  PROVE  a % k \in 0..(k - 1) /\ a % k \in Int /\ Congruent(a % k, a, n)
<1>1. a % k \in 0..(k - 1) /\ \E c \in Int : a = (k * c) + (a % k)
  BY Division
<1>2. PICK c \in Int : a = (k * c) + (a % k)
  BY <1>1
<1>3. PICK r \in 0..(k - 1) : r = a % k
  BY <1>1
<1>4. r = a + n * (-(m * c))
  <2>1. n * (-(m * c)) = -((n * m) * c)
    OBVIOUS
  <2> QED BY <1>2, <1>3, <2>1
<1>5. -(m * c) \in Int /\ r \in Int
  OBVIOUS
<1>6. Congruent(r, a, n)
  BY <1>4, <1>5 DEF Congruent
<1> QED BY <1>1, <1>3, <1>5, <1>6

\* In particular modulo n itself.
LEMMA CongruentMod ==
  ASSUME NEW n \in Nat, NEW a \in Int, n # 0
  PROVE  a % n \in 0..(n - 1) /\ a % n \in Int /\ Congruent(a % n, a, n)
<1>1. n = n * 1
  OBVIOUS
<1> QED BY <1>1, CongruentRemainder

\* Congruent numbers have the same remainder.
LEMMA SameRemainder ==
  ASSUME NEW n \in Nat, n # 0, NEW a \in Int, NEW b \in Int, Congruent(a, b, n)
  PROVE  a % n = b % n
<1>1. PICK c \in Int : a = b + n * c
  BY DEF Congruent
<1>2. PICK d \in Int : b = (n * d) + (b % n)
  BY Division
<1>3. b % n \in 0..(n - 1)
  BY Division
<1>4. PICK r \in 0..(n - 1) : r = b % n
  BY <1>3
<1>5. a = (n * (c + d)) + r
  <2>1. n * (c + d) = n * c + n * d
    OBVIOUS
  <2>2. b = (n * d) + r
    BY <1>2, <1>4
  <2> QED BY <1>1, <2>1, <2>2
<1>6. PICK e \in Int : e = c + d
  OBVIOUS
<1>7. ((n * e) + r) % n = r
  BY DivisionUnique
<1> QED BY <1>4, <1>5, <1>6, <1>7

-----------------------------------------------------------------------------
(* Sums of remainders, and inner products *)

\* Sums of congruent numbers are congruent.
LEMMA SumCongruent ==
  ASSUME NEW n \in Nat, NEW S, NEW f, NEW g, IsFiniteSet(S),
         \A x \in S : f[x] \in Int /\ g[x] \in Int /\ Congruent(f[x], g[x], n)
  PROVE  Congruent(SumFunctionOnSet(f, S), SumFunctionOnSet(g, S), n)
<1> DEFINE P == {T \in SUBSET S :
                   Congruent(SumFunctionOnSet(f, T), SumFunctionOnSet(g, T), n)}
<1>1. {} \in P
  BY SumEmpty, CongruentRefl
<1>2. ASSUME NEW T \in SUBSET S, NEW x \in T, T \ {x} \in P
      PROVE  T \in P
  <2> DEFINE U == T \ {x}
  <2>1. IsFiniteSet(T) /\ IsFiniteSet(U)
    BY FS_Subset
  <2>2. \A y \in T : f[y] \in Int /\ g[y] \in Int
    OBVIOUS
  <2>3. /\ SumFunctionOnSet(f, T) = f[x] + SumFunctionOnSet(f, U)
        /\ SumFunctionOnSet(g, T) = g[x] + SumFunctionOnSet(g, U)
    BY <2>1, <2>2, SumRemove
  <2>4. SumFunctionOnSet(f, U) \in Int /\ SumFunctionOnSet(g, U) \in Int
    BY <2>1, <2>2, SumIsInt
  <2>5. Congruent(SumFunctionOnSet(f, U), SumFunctionOnSet(g, U), n)
    BY <1>2
  <2>6. f[x] \in Int /\ g[x] \in Int /\ Congruent(f[x], g[x], n)
    OBVIOUS
  <2>7. Congruent(SumFunctionOnSet(f, T), SumFunctionOnSet(g, T), n)
    <3> HIDE DEF U
    <3> QED BY <2>3, <2>4, <2>5, <2>6, CongruentAdd
  <2> QED BY <2>7
<1>3. S \in P
  <2> HIDE DEF P
  <2> QED BY <1>1, <1>2, InductionOnSet
<1> QED BY <1>3

\* A sum of numbers between -c and c.
LEMMA SumBounded ==
  ASSUME NEW S, NEW f, NEW c \in Nat, IsFiniteSet(S), \A x \in S : f[x] \in (-c)..c
  PROVE  SumFunctionOnSet(f, S) \in (-(c * Cardinality(S)))..(c * Cardinality(S))
<1> DEFINE P == {T \in SUBSET S : SumFunctionOnSet(f, T)
                                    \in (-(c * Cardinality(T)))..(c * Cardinality(T))}
<1>1. {} \in P
  <2>1. Cardinality({}) = 0 /\ c * 0 = 0
    BY FS_EmptySet
  <2> QED BY <2>1, SumEmpty
<1>2. ASSUME NEW T \in SUBSET S, NEW x \in T, T \ {x} \in P
      PROVE  T \in P
  <2> DEFINE U == T \ {x}
  <2>1. IsFiniteSet(T) /\ IsFiniteSet(U)
    BY FS_Subset
  <2>2. \A y \in T : f[y] \in Int
    OBVIOUS
  <2>3. SumFunctionOnSet(f, T) = f[x] + SumFunctionOnSet(f, U)
    BY <2>1, <2>2, SumRemove
  <2>4. SumFunctionOnSet(f, U) \in Int
    BY <2>1, <2>2, SumIsInt
  <2>5. SumFunctionOnSet(f, U) \in (-(c * Cardinality(U)))..(c * Cardinality(U))
    BY <1>2
  <2>6. PICK m \in Nat : m = Cardinality(U)
    BY <2>1, FS_CardinalityType
  <2>7. Cardinality(T) = m + 1
    BY <2>1, <2>6, FS_RemoveElement, FS_CardinalityType
  <2>8. c * (m + 1) = c * m + c
    OBVIOUS
  <2>9. SumFunctionOnSet(f, T) \in (-(c * (m + 1)))..(c * (m + 1))
    <3>1. f[x] \in (-c)..c
      OBVIOUS
    <3>2. PICK d \in Int : d = c * m
      OBVIOUS
    <3>3. SumFunctionOnSet(f, U) \in (-d)..d
      BY <2>5, <2>6, <3>2
    <3> HIDE DEF U
    <3>4. SumFunctionOnSet(f, T) \in (-(d + c))..(d + c)
      BY <2>3, <2>4, <3>1, <3>3
    <3> QED BY <2>8, <3>2, <3>4
  <2> QED BY <2>7, <2>9
<1>3. S \in P
  <2> HIDE DEF P
  <2> QED BY <1>1, <1>2, InductionOnSet
<1> QED BY <1>3

\* An inner product as a sum over the indices.
LEMMA DotIsSum ==
  ASSUME NEW D, NEW x, NEW y, NEW f, IsFiniteSet(D), x \in [D -> Int], y \in [D -> Int],
         f = [k \in D |-> x[k] * y[k]]
  PROVE  Dot(x, y) = SumFunctionOnSet(f, D) /\ SumFunctionOnSet(f, D) \in Int
<1>1. Dot(x, y) = SumFunctionOnSet(f, D)
  <2>1. DOMAIN x = D /\ DOMAIN f = D
    OBVIOUS
  <2> QED BY <2>1, Zenon DEF Dot, SumFunction
<1>2. \A k \in D : f[k] \in Int
  OBVIOUS
<1>3. SumFunctionOnSet(f, D) \in Int
  BY <1>2, SumIsInt
<1> QED BY <1>1, <1>3

\* It is a number.
LEMMA DotIsInt ==
  ASSUME NEW D, NEW x, NEW y, IsFiniteSet(D), x \in [D -> Int], y \in [D -> Int]
  PROVE  Dot(x, y) \in Int
<1>1. PICK f : f = [k \in D |-> x[k] * y[k]]
  OBVIOUS
<1>2. Dot(x, y) = SumFunctionOnSet(f, D) /\ SumFunctionOnSet(f, D) \in Int
  BY <1>1, DotIsSum
<1> QED BY <1>2

\* Inner products of congruent vectors are congruent.
LEMMA DotCongruent ==
  ASSUME NEW n \in Nat, NEW D, NEW x, NEW u, NEW y, IsFiniteSet(D),
         x \in [D -> Int], u \in [D -> Int], y \in [D -> Int], \A k \in D : Congruent(x[k], u[k], n)
  PROVE  Congruent(Dot(x, y), Dot(u, y), n)
<1> DEFINE f == [k \in D |-> x[k] * y[k]]
           g == [k \in D |-> u[k] * y[k]]
<1>1. ASSUME NEW k \in D
      PROVE  f[k] \in Int /\ g[k] \in Int /\ Congruent(f[k], g[k], n)
  <2>1. x[k] \in Int /\ u[k] \in Int /\ y[k] \in Int /\ Congruent(x[k], u[k], n)
    OBVIOUS
  <2>2. Congruent(y[k], y[k], n)
    BY <2>1, CongruentRefl
  <2>3. Congruent(x[k] * y[k], u[k] * y[k], n)
    BY <2>1, <2>2, CongruentMul
  <2> QED BY <2>1, <2>3
<1>2. Congruent(SumFunctionOnSet(f, D), SumFunctionOnSet(g, D), n)
  <2> HIDE DEF f, g
  <2> QED BY <1>1, SumCongruent
<1>3. Dot(x, y) = SumFunctionOnSet(f, D) /\ Dot(u, y) = SumFunctionOnSet(g, D)
  BY DotIsSum
<1> QED BY <1>2, <1>3

\* The vector w is u plus c times v.
IsCombination(w, u, c, v, D) == \A k \in D : w[k] = u[k] + c * v[k]

\* The inner product is linear.
LEMMA DotLinear ==
  ASSUME NEW c \in Int, NEW D, NEW u, NEW v, NEW w, NEW y, IsFiniteSet(D),
         u \in [D -> Int], v \in [D -> Int], w \in [D -> Int], y \in [D -> Int],
         IsCombination(w, u, c, v, D)
  PROVE  Dot(w, y) = Dot(u, y) + c * Dot(v, y)
<1> DEFINE f == [k \in D |-> u[k] * y[k]]
           g == [k \in D |-> v[k] * y[k]]
           cg == [k \in D |-> c * g[k]]
           h == [k \in D |-> w[k] * y[k]]
<1>1. ASSUME NEW k \in D
      PROVE  f[k] \in Int /\ g[k] \in Int /\ cg[k] \in Int /\ cg[k] = c * g[k] /\ h[k] = f[k] + cg[k]
  <2>1. u[k] \in Int /\ v[k] \in Int /\ y[k] \in Int /\ w[k] = u[k] + c * v[k]
    BY DEF IsCombination
  <2>2. (u[k] + c * v[k]) * y[k] = u[k] * y[k] + c * (v[k] * y[k])
    <3>1. PICK a, b, d \in Int : a = u[k] /\ b = v[k] /\ d = y[k]
      BY <2>1
    <3>2. (a + c * b) * d = a * d + c * (b * d)
      OBVIOUS
    <3> QED BY <3>1, <3>2
  <2>3. f[k] = u[k] * y[k] /\ g[k] = v[k] * y[k] /\ cg[k] = c * (v[k] * y[k]) /\ h[k] = w[k] * y[k]
    OBVIOUS
  <2>4. h[k] = f[k] + cg[k]
    BY <2>1, <2>2, <2>3
  <2>5. f[k] \in Int /\ g[k] \in Int /\ cg[k] \in Int
    BY <2>1, <2>3
  <2> QED BY <2>3, <2>4, <2>5
<1>2. /\ Dot(u, y) = SumFunctionOnSet(f, D) /\ Dot(v, y) = SumFunctionOnSet(g, D)
      /\ Dot(w, y) = SumFunctionOnSet(h, D)
  BY DotIsSum
<1> HIDE DEF f, g, cg, h
<1>3. SumFunctionOnSet(cg, D) = c * SumFunctionOnSet(g, D)
  BY <1>1, SumScaled
<1>4. SumFunctionOnSet(h, D) = SumFunctionOnSet(f, D) + SumFunctionOnSet(cg, D)
  BY <1>1, SumPointwise
<1>5. SumFunctionOnSet(f, D) \in Int /\ SumFunctionOnSet(g, D) \in Int
  BY <1>1, SumIsInt
<1> QED BY <1>2, <1>3, <1>4, <1>5

\* The inner product of vectors of l numbers between -b and b.
LEMMA DotBoundedOn ==
  ASSUME NEW D, NEW l \in Nat, NEW b \in Nat, IsFiniteSet(D), Cardinality(D) = l,
         NEW x \in [D -> Int], NEW y \in [D -> Int], Bounded(x, b), Bounded(y, b)
  PROVE  Dot(x, y) \in (-(b * b * l))..(b * b * l)
<1> DEFINE f == [k \in D |-> x[k] * y[k]]
<1>2. ASSUME NEW k \in D PROVE f[k] \in (-(b * b))..(b * b)
  <2>1. x[k] \in (-b)..b /\ y[k] \in (-b)..b
    BY DEF Bounded
  <2>2. PICK u, v \in (-b)..b : u = x[k] /\ v = y[k]
    BY <2>1
  <2>3. u * v <= b * b /\ u * v >= -(b * b)
    <3>0. \A m, n \in Nat : m * n >= 0
      OBVIOUS
    <3>1. (b - u) * (b + v) >= 0 /\ (b + u) * (b - v) >= 0
          /\ (b - u) * (b - v) >= 0 /\ (b + u) * (b + v) >= 0
      <4>1. b - u \in Nat /\ b + u \in Nat /\ b - v \in Nat /\ b + v \in Nat
        OBVIOUS
      <4> QED BY <3>0, <4>1
    <3>2. /\ (b - u) * (b + v) = b * b - u * b + b * v - u * v
          /\ (b + u) * (b - v) = b * b + u * b - b * v - u * v
          /\ (b - u) * (b - v) = b * b - u * b - b * v + u * v
          /\ (b + u) * (b + v) = b * b + u * b + b * v + u * v
      OBVIOUS
    <3> QED BY <3>1, <3>2
  <2>4. u * v \in Int
    OBVIOUS
  <2> QED BY <2>2, <2>3, <2>4
<1>3. SumFunctionOnSet(f, D) \in (-((b * b) * l))..((b * b) * l)
  <2>1. b * b \in Nat
    OBVIOUS
  <2> HIDE DEF f
  <2> QED BY <1>2, <2>1, SumBounded
<1>4. Dot(x, y) = SumFunctionOnSet(f, D)
  BY DotIsSum
<1> QED BY <1>3, <1>4

\* In particular of vectors of length l.
LEMMA DotBounded ==
  ASSUME NEW l \in Nat, NEW b \in Nat, NEW x \in [1..l -> Int], NEW y \in [1..l -> Int],
         Bounded(x, b), Bounded(y, b)
  PROVE  Dot(x, y) \in (-(b * b * l))..(b * b * l)
<1>1. PICK D : D = 1..l
  OBVIOUS
<1>2. IsFiniteSet(D) /\ Cardinality(D) = l
  BY <1>1, FS_Interval
<1>3. x \in [D -> Int] /\ y \in [D -> Int]
  BY <1>1
<1> QED BY <1>2, <1>3, DotBoundedOn

\* The bound of the inner products of matrices, one of whose rows belongs to each client.
LEMMA MatDotBounded ==
  ASSUME NEW P, NEW n \in Nat, NEW l \in Nat, NEW b \in Nat, IsFiniteSet(P), Cardinality(P) = n,
         NEW x, NEW y \in [P -> [1..l -> Int]], DOMAIN x = P, \A i \in P : x[i] \in [1..l -> Int],
         MatBounded(x, b), MatBounded(y, b)
  PROVE  MatDot(x, y) \in (-(b * b * n * l))..(b * b * n * l)
<1> DEFINE f == [i \in P |-> Dot(x[i], y[i])]
<1>1. PICK c \in Nat, d \in Nat : c = b * b /\ d = c * l
  <2>1. PICK c \in Nat : c = b * b
    OBVIOUS
  <2>2. c * l \in Nat
    OBVIOUS
  <2> QED BY <2>1, <2>2
<1>2. ASSUME NEW i \in P PROVE f[i] \in (-d)..d
  <2>1. PICK u, v : u = x[i] /\ v = y[i]
    OBVIOUS
  <2>2. u \in [1..l -> Int] /\ v \in [1..l -> Int] /\ Bounded(u, b) /\ Bounded(v, b)
    BY <2>1 DEF MatBounded
  <2>3. Dot(u, v) \in (-(b * b * l))..(b * b * l)
    BY <2>2, DotBounded
  <2> QED BY <1>1, <2>1, <2>3
<1>3. MatDot(x, y) = SumFunctionOnSet(f, P)
  BY DEF MatDot, SumFunction
<1>4. SumFunctionOnSet(f, P) \in (-(d * n))..(d * n)
  <2> HIDE DEF f
  <2> QED BY <1>2, SumBounded
<1>5. d * n = b * b * n * l
  <2>1. (c * l) * n = (c * n) * l
    OBVIOUS
  <2> QED BY <1>1, <2>1
<1> QED BY <1>3, <1>4, <1>5

\* The form of every ciphertext vector: data x, masked by a multiple of a key that is
\* known modulo q.
IsMasked(c, x, r, u, q, D) ==
  \A k \in D : \E m \in Int : Congruent(m, u[k], q) /\ c[k] = (m * r + x[k]) % q

\* Its inner product with y is that of the data and that of the mask.
LEMMA MaskedDot ==
  ASSUME NEW q \in Nat, NEW r \in Int, NEW D, NEW x, NEW u, NEW y, NEW c,
         IsFiniteSet(D), q # 0, x \in [D -> Int], u \in [D -> Int], c \in [D -> Int],
         y \in [D -> Int], IsMasked(c, x, r, u, q, D)
  PROVE  /\ Dot(c, y) \in Int /\ Dot(x, y) \in Int /\ Dot(u, y) \in Int
         /\ Congruent(Dot(c, y), Dot(x, y) + r * Dot(u, y), q)
<1> DEFINE w == [k \in D |-> x[k] + r * u[k]]
<1>1. ASSUME NEW k \in D PROVE x[k] + r * u[k] \in Int /\ Congruent(c[k], x[k] + r * u[k], q)
  <2>1. PICK a, b \in Int : a = x[k] /\ b = u[k]
    OBVIOUS
  <2>2. PICK m \in Int : Congruent(m, b, q) /\ c[k] = (m * r + a) % q
    BY <2>1 DEF IsMasked
  <2>3. PICK g \in Int : g = m * r + a
    OBVIOUS
  <2>4. g % q \in Int /\ Congruent(g % q, g, q)
    BY CongruentMod
  <2>5. Congruent(m * r + a, b * r + a, q)
    <3>1. Congruent(m * r, b * r, q) /\ m * r \in Int /\ b * r \in Int
      BY <2>2, CongruentRefl, CongruentMul
    <3> QED BY <3>1, CongruentRefl, CongruentAdd
  <2>6. b * r + a = a + r * b /\ a + r * b \in Int
    OBVIOUS
  <2>7. PICK d \in Int : d = a + r * b /\ Congruent(g, d, q)
    BY <2>3, <2>5, <2>6
  <2>8. Congruent(g % q, d, q)
    BY <2>4, <2>7, CongruentTrans
  <2> QED BY <2>1, <2>2, <2>3, <2>7, <2>8
<1>2. w \in [D -> Int] /\ IsCombination(w, x, r, u, D) /\ \A k \in D : Congruent(c[k], w[k], q)
  BY <1>1 DEF IsCombination
<1> HIDE DEF w
<1>3. Dot(w, y) = Dot(x, y) + r * Dot(u, y)
  BY <1>2, DotLinear
<1>4. Congruent(Dot(c, y), Dot(w, y), q)
  BY <1>2, DotCongruent
<1>5. Dot(c, y) \in Int /\ Dot(x, y) \in Int /\ Dot(u, y) \in Int
  BY DotIsInt
<1> QED BY <1>3, <1>4, <1>5

-----------------------------------------------------------------------------
(* The search of the schemes *)

\* The integer square root exists.
LEMMA ISqrtValue ==
  ASSUME NEW n \in Nat
  PROVE  /\ ISqrt(n) \in Nat
         /\ ISqrt(n) * ISqrt(n) <= n /\ n < (ISqrt(n) + 1) * (ISqrt(n) + 1)
<1> DEFINE Above == {k \in Nat : n < (k + 1) * (k + 1)}
<1>1. n \in Above
  <2>1. (n + 1) * (n + 1) = n * n + n + n + 1 /\ n * n >= 0
    OBVIOUS
  <2> QED BY <2>1
<1>2. PICK k \in Above : \A j \in Above : k <= j
  <2>1. Above \in SUBSET Nat /\ Above # {}
    BY <1>1
  <2> HIDE DEF Above
  <2> QED BY <2>1, LeastElement
<1>3. k \in Nat /\ n < (k + 1) * (k + 1)
  OBVIOUS
<1>4. k * k <= n
  <2>1. CASE k = 0
    BY <2>1
  <2>2. CASE k # 0
    <3>1. k - 1 \in Nat /\ (k - 1) + 1 = k /\ ~(k <= k - 1)
      BY <1>3, <2>2
    <3>2. k - 1 \notin Above
      BY <1>2, <3>1
    <3>3. ~(n < k * k)
      BY <3>1, <3>2
    <3>4. k * k \in Nat
      BY <1>3
    <3> QED BY <3>3, <3>4
  <2> QED BY <2>1, <2>2
<1>5. k \in 0..n
  <2>1. CASE k = 0
    BY <2>1
  <2>2. CASE k # 0
    <3>1. k * k >= k
      BY <1>3, <2>2
    <3> QED BY <1>3, <1>4, <3>1
  <2> QED BY <2>1, <2>2
<1>6. \E j \in 0..n : j * j <= n /\ n < (j + 1) * (j + 1)
  BY <1>3, <1>4, <1>5
<1>7. PICK j : j = ISqrt(n)
  OBVIOUS
<1>8. j \in 0..n /\ j * j <= n /\ n < (j + 1) * (j + 1)
  <2>1. j = CHOOSE i \in 0..n : i * i <= n /\ n < (i + 1) * (i + 1)
    BY <1>7 DEF ISqrt
  <2> QED BY <1>6, <2>1
<1> QED BY <1>7, <1>8

\* The loops of a search meet every value up to the bound.
LEMMA StepsReach ==
  ASSUME NEW bound \in Nat
  PROVE  /\ Steps(bound) \in Nat \ {0} /\ Steps(bound) * Steps(bound) \in Nat
         /\ bound < Steps(bound) * Steps(bound)
<1>1. PICK k \in Nat : k = ISqrt(bound) /\ bound < (k + 1) * (k + 1)
  BY ISqrtValue
<1>2. k + 1 \in Nat \ {0} /\ (k + 1) * (k + 1) \in Nat
  OBVIOUS
<1> QED BY <1>1, <1>2 DEF Steps

\* A search finds the exponent itself, or nothing, when the loops end before they
\* have gone round the group.
LEMMA SearchOfExponent ==
  ASSUME NEW grp, NEW bound \in Nat, NEW e \in Nat, grp.q \in Nat, e < grp.q,
         Steps(bound) * Steps(bound) <= grp.q
  PROVE  BabyGiant(grp, e, bound) =
           IF e < Steps(bound) * Steps(bound) /\ ~PassedOver(grp, e, bound)
           THEN Done(e) ELSE Failed("DLOG_NOT_FOUND")
<1>1. PICK N \in Nat : N = Steps(bound) * Steps(bound)
  BY StepsReach
<1>2. PICK met : met = {v \in 0..(N - 1) : v % grp.q = e /\ ~PassedOver(grp, v, bound)}
  OBVIOUS
<1>3. BabyGiant(grp, e, bound) =
        IF met = {} THEN Failed("DLOG_NOT_FOUND") ELSE Done(Min(met))
  BY <1>1, <1>2, Zenon DEF BabyGiant
<1>4. \A v \in 0..(N - 1) : v % grp.q = v
  <2>1. PICK q \in Nat : q = grp.q
    OBVIOUS
  <2>2. \A v \in 0..(N - 1) : v \in 0..(q - 1) /\ (q * 0) + v = v
    BY <1>1, <2>1
  <2>3. \A v \in 0..(q - 1) : ((q * 0) + v) % q = v
    BY DivisionUnique
  <2> QED BY <2>1, <2>2, <2>3
<1>5. CASE e < N /\ ~PassedOver(grp, e, bound)
  <2>1. met = {e}
    BY <1>2, <1>4, <1>5
  <2>2. Min({e}) = e
    BY DEF Min
  <2> QED BY <1>1, <1>3, <1>5, <2>1, <2>2
<1>6. CASE ~(e < N /\ ~PassedOver(grp, e, bound))
  <2>1. met = {}
    BY <1>2, <1>4, <1>6
  <2> QED BY <1>1, <1>3, <1>6, <2>1
<1> QED BY <1>5, <1>6

\* Of the power v of the generator, the search in both directions returns v, or it
\* fails at a value that it overlooks.
LEMMA SearchOfPower ==
  ASSUME NEW grp, NEW bound \in Nat, NEW v \in (-bound)..bound, NEW r,
         grp.q \in Nat, grp.q # 0, Unambiguous(grp, bound),
         r = BabyGiantWithNeg(grp, v % grp.q, bound)
  PROVE  \/ r.err = "NONE" /\ r.res = v
         \/ r.err = "DLOG_NOT_FOUND" /\ Overlooked(grp, v, bound)
<1>1. PICK q \in Nat : q = grp.q /\ q # 0
  OBVIOUS
<1>2. PICK N \in Nat : N = Steps(bound) * Steps(bound) /\ bound < N
  BY StepsReach
<1>3. N + bound <= q
  BY <1>1, <1>2 DEF Unambiguous
<1>4. \A e \in 0..(q - 1) : BabyGiant(grp, e, bound) =
           IF e < N /\ ~PassedOver(grp, e, bound)
           THEN Done(e) ELSE Failed("DLOG_NOT_FOUND")
  BY <1>1, <1>2, <1>3, SearchOfExponent
<1>0. PICK mirror : mirror = Mirror(grp) /\ mirror.q = q
  <2>1. \A f : [q |-> grp.q, limbs |-> f].q = grp.q
    OBVIOUS
  <2>2. Mirror(grp).q = grp.q
    BY <2>1, Zenon DEF Mirror
  <2> QED BY <1>1, <2>2
<1>11. \A e \in 0..(q - 1) : BabyGiant(mirror, e, bound) =
           IF e < N /\ ~PassedOver(mirror, e, bound)
           THEN Done(e) ELSE Failed("DLOG_NOT_FOUND")
  <2>1. mirror.q \in Nat /\ mirror.q # 0 /\ Unambiguous(mirror, bound)
    BY <1>0, <1>1, <1>2, <1>3 DEF Unambiguous
  <2> QED BY <1>0, <1>1, <1>2, <1>3, <2>1, SearchOfExponent
<1>5. PICK first, second :
        /\ first = BabyGiant(grp, v % q, bound)
        /\ second = BabyGiant(mirror, (-(v % q)) % q, bound)
        /\ r = IF first.err = "NONE" THEN first ELSE [second EXCEPT !.res = -@]
  BY <1>0, <1>1 DEF BabyGiantWithNeg
<1>6. \A e \in 0..(q - 1) : e % q = e
  <2>1. \A e \in 0..(q - 1) : (q * 0) + e = e
    OBVIOUS
  <2> QED BY <2>1, DivisionUnique
<1>7. \A e \in 1..(q - 1) : (-e) % q = q - e
  <2>1. ASSUME NEW e \in 1..(q - 1) PROVE (-e) % q = q - e
    <3>1. PICK f \in 0..(q - 1) : f = q - e
      OBVIOUS
    <3>2. (q * (-1)) + f = -e
      BY <3>1
    <3>3. ((q * (-1)) + f) % q = f
      BY DivisionUnique
    <3> QED BY <3>1, <3>2, <3>3
  <2> QED BY <2>1
<1>8. CASE v = 0
  <2>1. v % q = 0
    BY <1>1, <1>6, <1>8
  <2>2. ~PassedOver(grp, 0, bound)
    <3>1. PICK n \in Nat : n = Steps(bound) /\ n # 0
      BY StepsReach
    <3>2. 0 \div n = 0
      BY <3>1
    <3>3. 0..(0 \div n - 1) = {}
      BY <3>2
    <3> QED BY <3>1, <3>3 DEF PassedOver
  <2>3. first = Done(0)
    BY <1>1, <1>2, <1>4, <1>5, <2>1, <2>2
  <2> QED BY <1>5, <1>8, <2>3 DEF Done
<1>9. CASE v > 0
  <2>1. v \in 1..(q - 1) /\ v < N /\ ~(q - v < N) /\ q - v \in 1..(q - 1)
    BY <1>2, <1>3, <1>9
  <2>2. v % q = v /\ (-v) % q = q - v
    BY <1>6, <1>7, <2>1
  <2>3. second = Failed("DLOG_NOT_FOUND")
    BY <1>5, <1>11, <2>1, <2>2
  <2>4. CASE PassedOver(grp, v, bound)
    <3>1. first = Failed("DLOG_NOT_FOUND")
      BY <1>4, <1>5, <2>1, <2>2, <2>4
    <3>2. r.err = "DLOG_NOT_FOUND"
      BY <1>5, <2>3, <3>1 DEF Failed
    <3> QED BY <1>9, <2>4, <3>2 DEF Overlooked
  <2>5. CASE ~PassedOver(grp, v, bound)
    <3>1. first = Done(v)
      BY <1>4, <1>5, <2>1, <2>2, <2>5
    <3> QED BY <1>5, <3>1 DEF Done
  <2> QED BY <2>4, <2>5
<1>10. CASE v < 0
  <2>1. PICK w \in Nat : w = -v
    BY <1>10
  <2>2. w \in 1..(q - 1) /\ w < N /\ ~(q - w < N) /\ q - w \in 1..(q - 1) /\ -w = v
    BY <1>2, <1>3, <1>10, <2>1
  <2>3. v % q = q - w
    BY <1>7, <2>2
  <2>4. (-(q - w)) % q = w
    <3>1. PICK f \in 1..(q - 1) : f = q - w
      BY <2>2
    <3>2. (-f) % q = q - f
      BY <1>7
    <3> QED BY <2>2, <3>1, <3>2
  <2>5. first = Failed("DLOG_NOT_FOUND")
    BY <1>4, <1>5, <2>2, <2>3
  <2>6. r = [second EXCEPT !.res = -@]
    BY <1>5, <2>5 DEF Failed
  <2>7. CASE PassedOver(mirror, w, bound)
    <3>1. second = Failed("DLOG_NOT_FOUND")
      BY <1>5, <1>11, <2>2, <2>3, <2>4, <2>7
    <3>2. r.err = "DLOG_NOT_FOUND"
      BY <2>6, <3>1 DEF Failed
    <3> QED BY <1>0, <1>10, <2>1, <2>7, <3>2 DEF Overlooked
  <2>8. CASE ~PassedOver(mirror, w, bound)
    <3>1. second = Done(w)
      BY <1>5, <1>11, <2>2, <2>3, <2>4, <2>8
    <3>2. r.err = "NONE" /\ r.res = -w
      BY <2>6, <3>1 DEF Done
    <3> QED BY <2>2, <3>2
  <2> QED BY <2>7, <2>8
<1> QED BY <1>8, <1>9, <1>10

\* The search in the target group of the pairing finds every value up to its bound, when
\* no two values that it meets are the same element.
LEMMA SearchGTOfPower ==
  ASSUME NEW q \in Nat, NEW bound \in Nat, NEW v \in (-bound)..bound, UnambiguousGT(q, bound)
  PROVE  SearchGT(q, v % q, bound) = Done(v)
<1>1. PICK k \in Nat : k = Size(bound) /\ k # 0 /\ bound < k * k
  <2>1. PICK i \in Nat : i = ISqrt(bound) /\ bound < (i + 1) * (i + 1)
    BY ISqrtValue
  <2> QED BY <2>1 DEF Size
<1>2. PICK F \in Nat : F = Farthest(bound) /\ bound <= F /\ 2 * F < q
  <2>1. PICK c \in Nat : c = k * k
    OBVIOUS
  <2>2. Farthest(bound) = c + k
    BY <1>1, <2>1 DEF Farthest
  <2>3. c + k \in Nat /\ bound <= c + k
    BY <1>1, <2>1
  <2> QED BY <2>2, <2>3 DEF UnambiguousGT
<1>3. q # 0 /\ v \in (-F)..F
  BY <1>2
<1>4. ASSUME NEW u \in (-F)..F, u % q = v % q PROVE u = v
  <2>0. u % q \in Int /\ Congruent(u % q, u, q) /\ v % q \in Int /\ Congruent(v % q, v, q)
    <3>1. q # 0 /\ u \in Int /\ v \in Int
      BY <1>3
    <3> QED BY <3>1, CongruentMod
  <2>1. PICK r, s \in Int : r = u % q /\ s = v % q /\ Congruent(r, u, q) /\ Congruent(s, v, q)
    BY <2>0
  <2>2. Congruent(u, s, q)
    BY <1>4, <2>1, CongruentSym
  <2>3. Congruent(u, v, q)
    BY <2>1, <2>2, CongruentTrans
  <2>4. PICK c \in Int : u = v + q * c
    BY <2>3 DEF Congruent
  <2>5. c = 0
    <3>1. CASE c >= 1
      <4>1. q * c >= q
        BY <1>3, <3>1
      <4> QED BY <1>2, <1>3, <2>4, <4>1
    <3>2. CASE c <= -1
      <4>1. q * c <= -q
        BY <1>3, <3>2
      <4> QED BY <1>2, <1>3, <2>4, <4>1
    <3> QED BY <3>1, <3>2
  <2> QED BY <2>4, <2>5
<1>5. {u \in (-F)..F : u % q = v % q} = {v}
  BY <1>3, <1>4
<1>6. CASE v % q = 0
  <2>1. 0 \in (-F)..F /\ 0 % q = 0
    <3>1. PICK z \in Int : z = 0 /\ z \in 0..(q - 1)
      BY <1>3
    <3>2. ((q * 0) + z) % q = z
      BY <3>1, DivisionUnique
    <3>3. (q * 0) + z = 0
      BY <3>1
    <3> QED BY <3>1, <3>2, <3>3
  <2>2. v = 0
    BY <1>4, <1>6, <2>1
  <2> QED BY <1>6, <2>2 DEF SearchGT
<1>7. CASE v % q # 0
  <2>1. Round(v, bound) \in Int
    <3>1. PICK a \in Int : a = IF v >= 0 THEN v ELSE -v
      OBVIOUS
    <3>2. (a - 1) \div k \in Int
      BY <1>1
    <3> QED BY <1>1, <3>1, <3>2 DEF Round
  <2>2. {u \in {v} : \A w \in {v} : Round(u, bound) <= Round(w, bound)} = {v}
    BY <2>1
  <2>3. PICK met, first, preferred :
          /\ met = {u \in (-F)..F : u % q = v % q}
          /\ first = {u \in met : \A w \in met : Round(u, bound) <= Round(w, bound)}
          /\ preferred = IF \E u \in first : u >= 0 THEN {u \in first : u >= 0} ELSE first
    OBVIOUS
  <2>4. met = {v} /\ first = {v} /\ preferred = {v}
    BY <1>5, <2>2, <2>3
  <2>5. SearchGT(q, v % q, bound) = Done(CHOOSE u \in preferred : TRUE)
    BY <1>2, <1>7, <2>3, <2>4 DEF SearchGT
  <2> QED BY <2>4, <2>5
<1> QED BY <1>6, <1>7

\* The codes that this search returns.
LEMMA SearchGTCodes ==
  ASSUME NEW q, NEW e, NEW bound
  PROVE  SearchGT(q, e, bound).err \in {"NONE", "DLOG_NOT_FOUND"}
BY DEF SearchGT, Done, Failed

\* The codes that a search returns.
LEMMA SearchCodes ==
  ASSUME NEW grp, NEW e, NEW bound
  PROVE  BabyGiantWithNeg(grp, e, bound).err \in {"NONE", "DLOG_NOT_FOUND"}
<1>1. \A g, f : BabyGiant(g, f, bound).err \in {"NONE", "DLOG_NOT_FOUND"}
  BY DEF BabyGiant, Done, Failed
<1>2. PICK second : second = BabyGiant(Mirror(grp), (-e) % grp.q, bound)
  OBVIOUS
<1>3. \E v : second = Done(v) \/ second = Failed("DLOG_NOT_FOUND")
  BY <1>2 DEF BabyGiant
<1>4. [second EXCEPT !.res = -@].err \in {"NONE", "DLOG_NOT_FOUND"}
  BY <1>3 DEF Done, Failed
<1> QED BY <1>1, <1>2, <1>4 DEF BabyGiantWithNeg

-----------------------------------------------------------------------------
(* The masks of the schemes cancel *)

\* A Damgard ciphertext hides the data under two secrets, the second one under h.
IsDamgardMasked(c, x, r, ms, mt, h, q, D) ==
  \A k \in D : c[k] = (((ms[k] + h * mt[k]) % q) * r + x[k]) % q

\* What its inner product C is then, modulo q.
IsDamgardSum(C, X, S, T, r, h, q) == Congruent(C, X + r * (S + h * T), q)

\* That is how they are summed up.
LEMMA DamgardDot ==
  ASSUME NEW q \in Nat, NEW r \in Int, NEW h \in Int, NEW D, NEW ms, NEW mt, NEW x, NEW y, NEW c,
         IsFiniteSet(D), q # 0, ms \in [D -> Int], mt \in [D -> Int], x \in [D -> Int],
         c \in [D -> Int], y \in [D -> Int], IsDamgardMasked(c, x, r, ms, mt, h, q, D)
  PROVE  /\ Dot(c, y) \in Int /\ Dot(x, y) \in Int /\ Dot(ms, y) \in Int /\ Dot(mt, y) \in Int
         /\ IsDamgardSum(Dot(c, y), Dot(x, y), Dot(ms, y), Dot(mt, y), r, h, q)
<1> DEFINE u == [k \in D |-> ms[k] + h * mt[k]]
<1>1. ASSUME NEW k \in D PROVE u[k] \in Int /\ u[k] = ms[k] + h * mt[k]
  <2>1. PICK a, b \in Int : a = ms[k] /\ b = mt[k]
    OBVIOUS
  <2>2. a + h * b \in Int
    OBVIOUS
  <2> QED BY <2>1, <2>2
<1>2. u \in [D -> Int] /\ IsCombination(u, ms, h, mt, D)
  BY <1>1 DEF IsCombination
<1>3. IsMasked(c, x, r, u, q, D)
  <2>1. ASSUME NEW k \in D
        PROVE  \E m \in Int : Congruent(m, u[k], q) /\ c[k] = (m * r + x[k]) % q
    <3>1. PICK d \in Int : d = u[k]
      BY <1>1
    <3>2. d % q \in Int /\ Congruent(d % q, d, q)
      BY CongruentMod
    <3>3. c[k] = ((d % q) * r + x[k]) % q
      <4>1. c[k] = (((ms[k] + h * mt[k]) % q) * r + x[k]) % q
        BY DEF IsDamgardMasked
      <4>2. d = ms[k] + h * mt[k]
        BY <1>1, <3>1
      <4> QED BY <4>1, <4>2
    <3> QED BY <3>1, <3>2, <3>3
  <2> QED BY <2>1 DEF IsMasked
<1> HIDE DEF u
<1>4. /\ Dot(c, y) \in Int /\ Dot(x, y) \in Int /\ Dot(u, y) \in Int
      /\ Congruent(Dot(c, y), Dot(x, y) + r * Dot(u, y), q)
  BY <1>2, <1>3, MaskedDot
<1>5. Dot(u, y) = Dot(ms, y) + h * Dot(mt, y)
  BY <1>2, DotLinear
<1>6. Dot(ms, y) \in Int /\ Dot(mt, y) \in Int
  BY DotIsInt
<1> QED BY <1>4, <1>5, <1>6 DEF IsDamgardSum

\* The two halves of a Damgard key take both masks away.
LEMMA DamgardMasks ==
  ASSUME NEW q \in Nat, NEW C \in Int, NEW X \in Int, NEW S \in Int, NEW T \in Int,
         NEW r \in Int, NEW h \in Int, NEW g \in Int, NEW k1 \in Int, NEW k2 \in Int, NEW c0 \in Int, NEW c1 \in Int,
         NEW E \in Int, E = C - c0 * k1 - c1 * k2, g = h * r, IsDamgardSum(C, X, S, T, r, h, q),
         Congruent(k1, S, q), Congruent(k2, T, q), Congruent(c0, r, q), Congruent(c1, g, q)
  PROVE  Congruent(E, X, q)
<1>1. PICK W, a, b, u, v \in Int :
        /\ W = X + r * (S + h * T)
        /\ a = c0 * k1 /\ b = c1 * k2 /\ u = r * S /\ v = g * T
  OBVIOUS
<1>2. Congruent(a, u, q) /\ Congruent(b, v, q)
  BY <1>1, CongruentMul
<1>3. Congruent(C - a, W - u, q)
  <2>1. Congruent(C, W, q)
    BY <1>1 DEF IsDamgardSum
  <2> QED BY <1>2, <2>1, CongruentSub
<1>4. PICK d, e \in Int : d = C - a /\ e = W - u
  OBVIOUS
<1>5. Congruent(d - b, e - v, q)
  BY <1>2, <1>3, <1>4, CongruentSub
<1>6. e - v = X
  <2>1. r * (S + h * T) = r * S + (h * r) * T
    OBVIOUS
  <2> QED BY <1>1, <1>4, <2>1
<1>7. d - b = E
  BY <1>1, <1>4
<1> QED BY <1>5, <1>6, <1>7

\* What a Damgard decryption takes the logarithm of is the inner product modulo q.
LEMMA DamgardCancels ==
  ASSUME NEW sch, NEW mk, NEW x, NEW y, NEW r \in Int, NEW ct, NEW key,
         sch.grp.q \in Nat, sch.grp.q # 0, sch.l \in Nat, sch.hexp \in Int,
         mk.s \in [1..sch.l -> Int], mk.t \in [1..sch.l -> Int],
         x \in [1..sch.l -> Int], y \in [1..sch.l -> Int],
         DamgardEncrypt(sch, x, DamgardPublicKey(sch, mk), r) = Done(ct),
         DamgardDeriveFeKey(sch, mk, y) = Done(key)
  PROVE  Unmask(sch, ct, key, y) = Dot(x, y) % sch.grp.q
<1>1. PICK q \in Nat, l \in Nat, h \in Int : q = sch.grp.q /\ l = sch.l /\ h = sch.hexp /\ q # 0
  OBVIOUS
<1>2. PICK ms, mt : ms = mk.s /\ mt = mk.t /\ ms \in [1..l -> Int] /\ mt \in [1..l -> Int]
  BY <1>1, SMTT(30)
<1>3. /\ ct.c0 = r % q /\ ct.c1 = (h * r) % q
      /\ ct.c = [k \in 1..l |-> (((ms[k] + h * mt[k]) % q) * r + x[k]) % q]
  <2>1. CheckBound(x, sch.bound)
    BY DEF DamgardEncrypt, Done, Failed
  <2>2. ct = [c0 |-> r % sch.grp.q, c1 |-> (sch.hexp * r) % sch.grp.q,
              c |-> [k \in 1..sch.l |-> (DamgardPublicKey(sch, mk)[k] * r + x[k]) % sch.grp.q]]
    BY <2>1 DEF DamgardEncrypt, Done
  <2>3. DamgardPublicKey(sch, mk) = [k \in 1..l |-> (ms[k] + h * mt[k]) % q]
    BY <1>1, <1>2 DEF DamgardPublicKey
  <2> QED BY <1>1, <2>2, <2>3
<1>4. key.key1 = Dot(ms, y) % (q * 2) /\ key.key2 = Dot(mt, y) % (q * 2)
  <2>1. CheckBound(y, sch.bound)
    BY DEF DamgardDeriveFeKey, Done, Failed
  <2>2. Modulus(sch.grp) - 1 = q * 2
    BY <1>1 DEF Modulus
  <2> QED BY <1>2, <2>1, <2>2 DEF DamgardDeriveFeKey, Done
<1>5. PICK c : c = ct.c /\ c \in [1..l -> Int]
                   /\ IsDamgardMasked(c, x, r, ms, mt, h, q, 1..l)
  <2>1. ASSUME NEW k \in 1..l PROVE (((ms[k] + h * mt[k]) % q) * r + x[k]) % q \in Int
    <3>1. PICK a, b, d \in Int : a = ms[k] /\ b = mt[k] /\ d = x[k]
      BY <1>1, <1>2
    <3>2. PICK e \in Int : e = a + h * b
      OBVIOUS
    <3>3. PICK t \in Int : t = e % q
      BY <1>1, CongruentMod
    <3>5. PICK f \in Int : f = t * r + d
      OBVIOUS
    <3>4. f % q \in Int
      BY <1>1, CongruentMod
    <3> QED BY <3>1, <3>2, <3>3, <3>4, <3>5
  <2> QED BY <1>3, <2>1 DEF IsDamgardMasked
<1>6. IsFiniteSet(1..l) /\ x \in [1..l -> Int] /\ y \in [1..l -> Int]
  <2>1. IsFiniteSet(1..l)
    BY FS_Interval
  <2> QED BY <1>1, <2>1
<1>7. PICK C, X, S, T \in Int :
         /\ C = Dot(c, y) /\ X = Dot(x, y) /\ S = Dot(ms, y) /\ T = Dot(mt, y)
         /\ IsDamgardSum(C, X, S, T, r, h, q)
  <2>1. PICK D : D = 1..l
    OBVIOUS
  <2>2. /\ IsFiniteSet(D) /\ q # 0 /\ ms \in [D -> Int] /\ mt \in [D -> Int] /\ x \in [D -> Int]
        /\ c \in [D -> Int] /\ y \in [D -> Int] /\ IsDamgardMasked(c, x, r, ms, mt, h, q, D)
    BY <1>1, <1>2, <1>5, <1>6, <2>1
  <2>3. /\ Dot(c, y) \in Int /\ Dot(x, y) \in Int /\ Dot(ms, y) \in Int /\ Dot(mt, y) \in Int
        /\ IsDamgardSum(Dot(c, y), Dot(x, y), Dot(ms, y), Dot(mt, y), r, h, q)
    BY <2>2, DamgardDot
  <2> QED BY <2>3
<1>8. PICK q2 \in Nat, g \in Int : q2 = q * 2 /\ g = h * r /\ q2 # 0
  BY <1>1, SMTT(30)
<1>9. PICK k1, k2, c0, c1 \in Int :
         /\ k1 = key.key1 /\ k2 = key.key2 /\ c0 = ct.c0 /\ c1 = ct.c1
         /\ Congruent(k1, S, q) /\ Congruent(k2, T, q)
         /\ Congruent(c0, r, q) /\ Congruent(c1, g, q)
  <2>2. /\ S % q2 \in Int /\ Congruent(S % q2, S, q)
        /\ T % q2 \in Int /\ Congruent(T % q2, T, q)
    BY <1>8, CongruentRemainder
  <2>3. /\ r % q \in Int /\ Congruent(r % q, r, q)
        /\ g % q \in Int /\ Congruent(g % q, g, q)
    BY <1>1, CongruentMod
  <2> QED BY <1>3, <1>4, <1>7, <1>8, <2>2, <2>3
<1>10. PICK E \in Int : E = C - c0 * k1 - c1 * k2
  OBVIOUS
<1>11. Congruent(E, X, q)
  <2>1. /\ IsDamgardSum(C, X, S, T, r, h, q) /\ Congruent(k1, S, q) /\ Congruent(k2, T, q)
        /\ Congruent(c0, r, q) /\ Congruent(c1, g, q)
    BY <1>7, <1>9
  <2>2. g = h * r
    BY <1>8
  <2> QED BY <1>10, <2>1, <2>2, DamgardMasks
<1>12. E % q = X % q
  BY <1>1, <1>11, SameRemainder, SMTT(30)
<1> QED BY <1>1, <1>5, <1>7, <1>9, <1>10, <1>12 DEF Unmask

\* What a DDH decryption takes the logarithm of.
DdhUnmask(sch, ct, key, y) == (Dot(ct.c, y) - ct.c0 * key) % sch.grp.q

\* It is the inner product modulo q.
LEMMA DdhCancels ==
  ASSUME NEW sch, NEW mk, NEW x, NEW y, NEW r \in Int, NEW ct, NEW key,
         sch.grp.q \in Nat, sch.grp.q # 0, sch.l \in Nat, mk \in [1..sch.l -> Int],
         x \in [1..sch.l -> Int], y \in [1..sch.l -> Int],
         DdhEncrypt(sch, x, DdhPublicKey(sch, mk), r) = Done(ct),
         DdhDeriveFeKey(sch, mk, y) = Done(key)
  PROVE  DdhUnmask(sch, ct, key, y) = Dot(x, y) % sch.grp.q
<1>1. PICK q \in Nat, l \in Nat : q = sch.grp.q /\ l = sch.l /\ q # 0
  BY SMTT(30)
<1>2. ct.c0 = r /\ ct.c = [k \in 1..l |-> ((mk[k] % q) * r + x[k]) % q]
  <2>1. CheckBound(x, sch.bound)
    BY DEF DdhEncrypt, Done, Failed
  <2>2. ct = [c0 |-> r,
              c |-> [k \in 1..sch.l |-> (DdhPublicKey(sch, mk)[k] * r + x[k]) % sch.grp.q]]
    BY <2>1 DEF DdhEncrypt, Done
  <2>3. DdhPublicKey(sch, mk) = [k \in 1..l |-> mk[k] % q]
    BY <1>1 DEF DdhPublicKey
  <2> QED BY <1>1, <2>2, <2>3
<1>3. key = Dot(mk, y) % q
  <2>1. CheckBound(y, sch.bound)
    BY DEF DdhDeriveFeKey, Done, Failed
  <2> QED BY <1>1, <2>1 DEF DdhDeriveFeKey, Done
<1>4. ASSUME NEW k \in 1..l
      PROVE  /\ ((mk[k] % q) * r + x[k]) % q \in Int
             /\ \E m \in Int : Congruent(m, mk[k], q)
                               /\ ((mk[k] % q) * r + x[k]) % q = (m * r + x[k]) % q
  <2>1. PICK a, d \in Int : a = mk[k] /\ d = x[k]
    BY <1>1
  <2>2. PICK t \in Int : t = a % q /\ Congruent(t, a, q)
    BY <1>1, CongruentMod
  <2>3. PICK f \in Int : f = t * r + d
    OBVIOUS
  <2>4. f % q \in Int
    BY <1>1, CongruentMod
  <2> QED BY <2>1, <2>2, <2>3, <2>4
<1>5. PICK c : c = ct.c /\ c \in [1..l -> Int] /\ IsMasked(c, x, r, mk, q, 1..l)
  <2>1. ct.c \in [1..l -> Int] /\ \A k \in 1..l : ct.c[k] = ((mk[k] % q) * r + x[k]) % q
    BY <1>2, <1>4
  <2>2. IsMasked(ct.c, x, r, mk, q, 1..l)
    BY <1>4, <2>1 DEF IsMasked
  <2> QED BY <2>1, <2>2
<1>6. PICK C, X, S \in Int :
         /\ C = Dot(c, y) /\ X = Dot(x, y) /\ S = Dot(mk, y)
         /\ Congruent(C, X + r * S, q)
  <2>1. PICK D : D = 1..l
    OBVIOUS
  <2>2. IsFiniteSet(1..l)
    BY FS_Interval
  <2>3. /\ IsFiniteSet(D) /\ mk \in [D -> Int] /\ x \in [D -> Int]
        /\ c \in [D -> Int] /\ y \in [D -> Int] /\ IsMasked(c, x, r, mk, q, D)
    BY <1>1, <1>5, <2>1, <2>2
  <2>4. /\ Dot(c, y) \in Int /\ Dot(x, y) \in Int /\ Dot(mk, y) \in Int
        /\ Congruent(Dot(c, y), Dot(x, y) + r * Dot(mk, y), q)
    BY <1>1, <2>3, MaskedDot
  <2> QED BY <2>4
<1>7. PICK k1 \in Int : k1 = key /\ Congruent(k1, S, q)
  BY <1>1, <1>3, <1>6, CongruentMod
<1>8. PICK u, v, W, E \in Int : u = r * k1 /\ v = r * S /\ W = X + v /\ E = C - u
  OBVIOUS
<1>9. Congruent(E, X, q)
  <2>1. Congruent(C, W, q)
    BY <1>6, <1>8
  <2>2. Congruent(u, v, q)
    <3>1. Congruent(k1, S, q) /\ Congruent(r, r, q)
      BY <1>7, CongruentRefl
    <3>2. Congruent(r * k1, r * S, q)
      BY <3>1, CongruentMul
    <3> QED BY <1>8, <3>2
  <2>3. Congruent(C - u, W - v, q)
    BY <2>1, <2>2, CongruentSub
  <2>4. W - v = X
    BY <1>8
  <2> QED BY <1>8, <2>3, <2>4
<1>10. E % q = X % q
  BY <1>1, <1>9, SameRemainder
<1>11. (C - r * k1) % q = X % q
  BY <1>8, <1>10
<1> QED BY <1>1, <1>2, <1>5, <1>6, <1>7, <1>11 DEF DdhUnmask

-----------------------------------------------------------------------------
(* Several clients *)

\* The inner product of a vector that is hidden under a pad.
LEMMA DotOfPadded ==
  ASSUME NEW q \in Nat, NEW D, NEW x, NEW p, NEW y, q # 0, IsFiniteSet(D),
         x \in [D -> Int], p \in [D -> Int], y \in [D -> Int]
  PROVE  /\ VecMod(VecAdd(x, p), q) \in [D -> Int]
         /\ Dot(x, y) \in Int /\ Dot(p, y) \in Int
         /\ Congruent(Dot(VecMod(VecAdd(x, p), q), y), Dot(x, y) + Dot(p, y), q)
<1>1. PICK s : s = VecAdd(x, p)
  OBVIOUS
<1>2. s \in [D -> Int] /\ \A k \in D : s[k] = x[k] + p[k]
  <2>1. s = [k \in D |-> x[k] + p[k]]
    BY <1>1 DEF VecAdd
  <2>2. \A k \in D : x[k] + p[k] \in Int
    OBVIOUS
  <2> QED BY <2>1, <2>2
<1>3. PICK w : w = VecMod(s, q)
  OBVIOUS
<1>4. w \in [D -> Int] /\ \A k \in D : Congruent(w[k], s[k], q)
  <2>1. w = [k \in D |-> s[k] % q]
    BY <1>2, <1>3 DEF VecMod
  <2>2. ASSUME NEW k \in D PROVE s[k] % q \in Int /\ Congruent(s[k] % q, s[k], q)
    <3>1. PICK a \in Int : a = s[k]
      BY <1>2
    <3>2. a % q \in Int /\ Congruent(a % q, a, q)
      BY CongruentMod
    <3> QED BY <3>1, <3>2
  <2> QED BY <2>1, <2>2
<1>5. Congruent(Dot(w, y), Dot(s, y), q)
  BY <1>2, <1>4, DotCongruent
<1>6. IsCombination(s, x, 1, p, D)
  BY <1>2 DEF IsCombination
<1>7. Dot(s, y) = Dot(x, y) + 1 * Dot(p, y)
  BY <1>2, <1>6, DotLinear
<1>8. PICK a, b \in Int : a = Dot(x, y) /\ b = Dot(p, y)
  BY DotIsInt
<1>9. Dot(s, y) = a + b
  BY <1>7, <1>8
<1> QED BY <1>1, <1>3, <1>4, <1>5, <1>8, <1>9

\* What the decryption of a padded vector leaves: the inner product, and that of the pad.
LEMMA PaddedUnmask ==
  ASSUME NEW sch, NEW mk, NEW x, NEW p, NEW y, NEW r \in Int, NEW ct, NEW key,
         sch.grp.q \in Nat, sch.grp.q # 0, sch.l \in Nat, sch.hexp \in Int,
         mk.s \in [1..sch.l -> Int], mk.t \in [1..sch.l -> Int],
         x \in [1..sch.l -> Int], p \in [1..sch.l -> Int], y \in [1..sch.l -> Int],
         DamgardEncrypt(sch, VecMod(VecAdd(x, p), sch.grp.q), DamgardPublicKey(sch, mk), r) = Done(ct),
         DamgardDeriveFeKey(sch, mk, y) = Done(key)
  PROVE  /\ Unmask(sch, ct, key, y) \in Int /\ Dot(x, y) \in Int /\ Dot(p, y) \in Int
         /\ Congruent(Unmask(sch, ct, key, y), Dot(x, y) + Dot(p, y), sch.grp.q)
<1>1. PICK q, D : q \in Nat /\ q = sch.grp.q /\ q # 0 /\ D = 1..sch.l
  OBVIOUS
<1>2. IsFiniteSet(D)
  <2>1. PICK l \in Nat : l = sch.l
    OBVIOUS
  <2>2. IsFiniteSet(1..l)
    BY FS_Interval
  <2> QED BY <1>1, <2>1, <2>2
<1>3. PICK w : w = VecMod(VecAdd(x, p), q)
  OBVIOUS
<1>4. /\ w \in [D -> Int] /\ Dot(x, y) \in Int /\ Dot(p, y) \in Int
      /\ Congruent(Dot(w, y), Dot(x, y) + Dot(p, y), q)
  <2>1. x \in [D -> Int] /\ p \in [D -> Int] /\ y \in [D -> Int]
    BY <1>1
  <2> QED BY <1>1, <1>2, <1>3, <2>1, DotOfPadded
<1>5. Unmask(sch, ct, key, y) = Dot(w, y) % q
  <2>1. DamgardEncrypt(sch, w, DamgardPublicKey(sch, mk), r) = Done(ct) /\ w \in [1..sch.l -> Int]
    BY <1>1, <1>3, <1>4
  <2> QED BY <1>1, <2>1, DamgardCancels
<1>6. PICK a, b, c \in Int : a = Dot(w, y) /\ b = Dot(x, y) /\ c = Dot(p, y)
  <2>1. y \in [D -> Int]
    BY <1>1
  <2> QED BY <1>2, <1>4, <2>1, DotIsInt
<1>7. a % q \in Int /\ Congruent(a % q, a, q) /\ Congruent(a, b + c, q)
  BY <1>1, <1>4, <1>6, CongruentMod
<1>8. PICK d, e \in Int : d = a % q /\ e = b + c
  BY <1>7
<1>9. Congruent(d, e, q)
  BY <1>1, <1>7, <1>8, CongruentTrans
<1> QED BY <1>1, <1>5, <1>6, <1>8, <1>9

\* The values e of the clients, each what is left of the vectors x[i] under pads p[i].
ArePadded(e, x, p, y, q, P) ==
  \A i \in P : /\ e[i] \in Int /\ Dot(x[i], y[i]) \in Int /\ Dot(p[i], y[i]) \in Int
               /\ Congruent(e[i], Dot(x[i], y[i]) + Dot(p[i], y[i]), q)

\* Their sum is the sum of the inner products, and that of the pads.
LEMMA SumOfPadded ==
  ASSUME NEW q \in Nat, NEW P, NEW e, NEW x, NEW p, NEW y,
         IsFiniteSet(P), DOMAIN x = P, DOMAIN p = P, ArePadded(e, x, p, y, q, P)
  PROVE  /\ SumFunctionOnSet(e, P) \in Int /\ MatDot(x, y) \in Int /\ MatDot(p, y) \in Int
         /\ Congruent(SumFunctionOnSet(e, P), MatDot(x, y) + MatDot(p, y), q)
<1> DEFINE f == [i \in P |-> Dot(x[i], y[i])]
           g == [i \in P |-> Dot(p[i], y[i])]
           k == [i \in P |-> f[i] + g[i]]
<1>1. ASSUME NEW i \in P
      PROVE  /\ e[i] \in Int /\ f[i] \in Int /\ g[i] \in Int
             /\ k[i] = f[i] + g[i] /\ k[i] \in Int /\ Congruent(e[i], k[i], q)
  <2>1. e[i] \in Int /\ f[i] \in Int /\ g[i] \in Int /\ k[i] = f[i] + g[i]
        /\ Congruent(e[i], k[i], q)
    BY DEF ArePadded
  <2> QED BY <2>1
<1>2. MatDot(x, y) = SumFunctionOnSet(f, P) /\ MatDot(p, y) = SumFunctionOnSet(g, P)
  BY DEF MatDot, SumFunction
<1> HIDE DEF f, g, k
<1>3. SumFunctionOnSet(e, P) \in Int /\ SumFunctionOnSet(f, P) \in Int /\ SumFunctionOnSet(g, P) \in Int
  BY <1>1, SumIsInt
<1>4. SumFunctionOnSet(k, P) = SumFunctionOnSet(f, P) + SumFunctionOnSet(g, P)
  BY <1>1, SumPointwise
<1>5. Congruent(SumFunctionOnSet(e, P), SumFunctionOnSet(k, P), q)
  BY <1>1, SumCongruent
<1> QED BY <1>2, <1>3, <1>4, <1>5

\* The numbers d are the inner products of the vectors v[i] with w.
AreDots(d, v, w, P) == \A i \in P : d[i] = Dot(v[i], w)

\* Vectors v whose coordinates have the sums t, which are zero modulo n.
AreZeroSums(t, v, P, C, n) ==
  /\ \A i \in P : v[i] \in [C -> Int]
  /\ \A c \in C : t[c] \in Int /\ Congruent(t[c], 0, n)
  /\ \E u : AreTransposed(v, u, P, C) /\ AreRowSums(t, u, C, P)

\* Vectors that are zero together have inner products that are.
LEMMA DotsOfZeros ==
  ASSUME NEW n \in Nat, NEW P, NEW C, NEW v, NEW w, NEW d, NEW t,
         IsFiniteSet(P), IsFiniteSet(C), w \in [C -> Int],
         AreDots(d, v, w, P), AreZeroSums(t, v, P, C, n)
  PROVE  /\ \A i \in P : d[i] \in Int
         /\ SumFunctionOnSet(d, P) \in Int /\ Congruent(SumFunctionOnSet(d, P), 0, n)
<1>0. PICK u : AreTransposed(v, u, P, C) /\ AreRowSums(t, u, C, P)
  BY DEF AreZeroSums
<1> DEFINE a == [i \in P |-> [c \in C |-> v[i][c] * w[c]]]
           b == [c \in C |-> [i \in P |-> w[c] * u[c][i]]]
           r == [c \in C |-> w[c] * t[c]]
           z == [c \in C |-> 0]
<1>1. \A i \in P : \A c \in C : /\ a[i][c] = v[i][c] * w[c] /\ b[c][i] = w[c] * u[c][i]
                                /\ u[c][i] = v[i][c] /\ v[i][c] \in Int /\ w[c] \in Int
  BY <1>0 DEF AreZeroSums, AreTransposed
<1>2. AreTransposed(a, b, P, C)
  <2> SUFFICES ASSUME NEW i \in P, NEW c \in C PROVE a[i][c] \in Int /\ b[c][i] = a[i][c]
    BY DEF AreTransposed
  <2>1. PICK x, y \in Int : x = v[i][c] /\ y = w[c]
    BY <1>1
  <2>2. a[i][c] = x * y /\ b[c][i] = y * x
    BY <1>1, <2>1
  <2> HIDE DEF a, b
  <2> QED BY <2>2
<1>3. \A i \in P : d[i] = SumFunctionOnSet(a[i], C) /\ d[i] \in Int
  <2> TAKE i \in P
  <2>1. PICK x, f : x = v[i] /\ f = [c \in C |-> x[c] * w[c]]
    OBVIOUS
  <2>2. x \in [C -> Int] /\ a[i] = f /\ d[i] = Dot(x, w)
    BY <2>1 DEF AreZeroSums, AreDots
  <2> HIDE DEF a
  <2>3. Dot(x, w) = SumFunctionOnSet(f, C) /\ SumFunctionOnSet(f, C) \in Int
    BY <2>1, <2>2, DotIsSum
  <2> QED BY <2>2, <2>3
<1>4. \A c \in C : /\ r[c] = SumFunctionOnSet(b[c], P) /\ r[c] \in Int /\ z[c] \in Int
                   /\ Congruent(r[c], z[c], n)
  <2> TAKE c \in C
  <2>1. PICK x, y, f, g : x \in Int /\ y \in Int /\ x = w[c] /\ y = t[c] /\ f = u[c] /\ g = b[c]
    BY DEF AreZeroSums
  <2>2. /\ y = SumFunctionOnSet(f, P) /\ Congruent(y, 0, n)
        /\ \A i \in P : f[i] \in Int /\ g[i] = x * f[i]
    BY <1>0, <1>1, <2>1 DEF AreRowSums, AreZeroSums
  <2>3. r[c] = x * y /\ z[c] = 0
    BY <2>1
  <2> HIDE DEF b, r, z
  <2>4. SumFunctionOnSet(g, P) = x * SumFunctionOnSet(f, P)
    BY <2>1, <2>2, SumScaled
  <2>5. Congruent(x * y, x * 0, n)
    BY <2>1, <2>2, CongruentMul, CongruentRefl
  <2>6. x * y \in Int /\ x * 0 = 0
    BY <2>1
  <2> QED BY <2>1, <2>2, <2>3, <2>4, <2>5, <2>6
<1>5. \A c \in C : z[c] = 0
  OBVIOUS
<1> HIDE DEF a, b, r, z
<1>6. AreRowSums(d, a, P, C) /\ AreRowSums(r, b, C, P)
  BY <1>3, <1>4 DEF AreRowSums
<1>7. SumFunctionOnSet(d, P) = SumFunctionOnSet(r, C)
  BY <1>2, <1>6, SumExchange
<1>8. SumFunctionOnSet(z, C) = 0
  BY <1>5, SumOfZeros
<1>9. Congruent(SumFunctionOnSet(r, C), SumFunctionOnSet(z, C), n)
  BY <1>4, SumCongruent
<1>10. SumFunctionOnSet(d, P) \in Int
  BY <1>3, SumIsInt
<1> QED BY <1>3, <1>7, <1>8, <1>9, <1>10

\* The same for matrices: entry [r][c] of the sum of the matrices a[i] is zero.
AreZeroMatrices(a, P, R, C, n) ==
  \A r \in R : \E v, t : /\ \A i \in P : v[i] = a[i][r]
                         /\ AreZeroSums(t, v, P, C, n)

\* Matrices that are zero together have inner products with y that are.
LEMMA MatDotsOfZeros ==
  ASSUME NEW n \in Nat, NEW P, NEW R, NEW C, NEW a, NEW y, NEW d,
         IsFiniteSet(P), IsFiniteSet(R), IsFiniteSet(C),
         \A i \in P : DOMAIN a[i] = R /\ d[i] = MatDot(a[i], y),
         \A r \in R : y[r] \in [C -> Int], AreZeroMatrices(a, P, R, C, n)
  PROVE  /\ \A i \in P : d[i] \in Int
         /\ SumFunctionOnSet(d, P) \in Int /\ Congruent(SumFunctionOnSet(d, P), 0, n)
<1> DEFINE e == [i \in P |-> [r \in R |-> Dot(a[i][r], y[r])]]
           f == [r \in R |-> [i \in P |-> Dot(a[i][r], y[r])]]
           s == [r \in R |-> SumFunctionOnSet(f[r], P)]
           z == [r \in R |-> 0]
<1>1. ASSUME NEW r \in R
      PROVE  /\ \A i \in P : f[r][i] \in Int
             /\ s[r] \in Int /\ Congruent(s[r], 0, n)
  <2>1. PICK v, t : (\A i \in P : v[i] = a[i][r]) /\ AreZeroSums(t, v, P, C, n)
    BY DEF AreZeroMatrices
  <2>2. PICK w : w = y[r] /\ w \in [C -> Int]
    OBVIOUS
  <2>3. PICK g : g = f[r] /\ s[r] = SumFunctionOnSet(g, P)
    OBVIOUS
  <2>4. AreDots(g, v, w, P)
    BY <2>1, <2>2, <2>3 DEF AreDots
  <2> HIDE DEF f, s
  <2>5. /\ \A i \in P : g[i] \in Int
        /\ SumFunctionOnSet(g, P) \in Int /\ Congruent(SumFunctionOnSet(g, P), 0, n)
    BY <2>1, <2>2, <2>4, DotsOfZeros
  <2> QED BY <2>3, <2>5
<1>2. AreTransposed(e, f, P, R)
  <2> SUFFICES ASSUME NEW i \in P, NEW r \in R PROVE e[i][r] \in Int /\ f[r][i] = e[i][r]
    BY DEF AreTransposed
  <2>1. e[i][r] = f[r][i]
    OBVIOUS
  <2> HIDE DEF e, f
  <2> QED BY <1>1, <2>1
<1>3. \A i \in P : d[i] = SumFunctionOnSet(e[i], R) /\ d[i] \in Int
  <2> TAKE i \in P
  <2>1. PICK g : g = e[i] /\ g = [r \in R |-> Dot(a[i][r], y[r])]
    OBVIOUS
  <2>2. MatDot(a[i], y) = SumFunctionOnSet(g, R)
    BY <2>1 DEF MatDot, SumFunction
  <2>3. \A r \in R : g[r] \in Int
    BY <1>2, <2>1 DEF AreTransposed
  <2> HIDE DEF e
  <2>4. SumFunctionOnSet(g, R) \in Int
    BY <2>3, SumIsInt
  <2> QED BY <2>1, <2>2, <2>4
<1>4. AreRowSums(d, e, P, R)
  BY <1>3 DEF AreRowSums
<1>5. AreRowSums(s, f, R, P)
  BY DEF AreRowSums
<1>6. \A r \in R : z[r] = 0
  OBVIOUS
<1> HIDE DEF e, f, s, z
<1>7. SumFunctionOnSet(d, P) = SumFunctionOnSet(s, R)
  BY <1>2, <1>4, <1>5, SumExchange
<1>8. SumFunctionOnSet(z, R) = 0
  BY <1>6, SumOfZeros
<1>9. Congruent(SumFunctionOnSet(s, R), SumFunctionOnSet(z, R), n)
  <2>1. \A r \in R : s[r] \in Int /\ z[r] \in Int /\ Congruent(s[r], z[r], n)
    BY <1>1, <1>6
  <2> QED BY <2>1, SumCongruent
<1>10. SumFunctionOnSet(d, P) \in Int
  BY <1>3, SumIsInt
<1> QED BY <1>3, <1>7, <1>8, <1>9, <1>10

\* What is left when one of two sums that are congruent to a sum is taken away.
LEMMA CongruentLess ==
  ASSUME NEW n \in Nat, NEW a \in Int, NEW b \in Int, NEW c \in Int, NEW d \in Int, n # 0,
         Congruent(a, b + c, n), Congruent(d, c, n)
  PROVE  (a - d) % n = b % n
<1>2. PICK s, t \in Int : s = b + c /\ t = a - d
  OBVIOUS
<1>3. Congruent(a - d, s - c, n)
  BY <1>2, CongruentSub
<1>4. s - c = b
  BY <1>2
<1>5. Congruent(t, b, n)
  BY <1>2, <1>3, <1>4
<1> QED BY <1>2, <1>5, SameRemainder

\* The clients of a scheme.
LEMMA ClientsAreFinite ==
  ASSUME NEW n \in Nat
  PROVE  IsFiniteSet(0..(n - 1)) /\ Cardinality(0..(n - 1)) = n
<1>1. PICK z, k \in Int : z = 0 /\ k = n - 1
  OBVIOUS
<1>2. IsFiniteSet(z..k) /\ Cardinality(z..k) = IF z > k THEN 0 ELSE k - z + 1
  BY FS_Interval
<1> QED BY <1>1, <1>2

\* The parameters of a multi-input scheme, as its set-up makes them.
IsMulti(m) ==
  /\ m.n \in Nat /\ m.scheme.l \in Nat /\ m.scheme.grp.q \in Nat /\ m.scheme.grp.q # 0
  /\ m.bound \in Nat /\ m.scheme.bound \in Int /\ m.bound <= m.scheme.bound

\* The master key sk of the Damgard scheme m with clients P, their data xs, what they have
\* sent and the functional key for y.
AreDamgardInputs(m, P, sk, xs, y, cs, key) ==
  /\ IsMulti(m) /\ m.scheme.hexp \in Int /\ P = DamgardMultiClients(m)
  /\ DOMAIN xs = P /\ DOMAIN sk.otp = P /\ y \in [P -> [1..m.scheme.l -> Int]]
  /\ \A i \in P :
       /\ sk.msk[i].s \in [1..m.scheme.l -> Int] /\ sk.msk[i].t \in [1..m.scheme.l -> Int]
       /\ sk.otp[i] \in [1..m.scheme.l -> Int] /\ xs[i] \in [1..m.scheme.l -> Int]
       /\ \E n \in Int :
            DamgardMultiEncrypt(m, xs[i], DamgardMultiPublicKey(m, sk, i), sk.otp[i], n) = Done(cs[i])
  /\ DamgardMultiDeriveFeKey(m, sk, y) = Done(key)

\* What a client contributes to a decryption: the inner products of its data and of its pad.
LEMMA DamgardInput ==
  ASSUME NEW m, NEW P, NEW sk, NEW xs, NEW y, NEW cs, NEW key,
         AreDamgardInputs(m, P, sk, xs, y, cs, key), NEW i \in P
  PROVE  /\ Unmask(m.scheme, cs[i], key.keys[i], y[i]) \in Int
         /\ Dot(xs[i], y[i]) \in Int /\ Dot(sk.otp[i], y[i]) \in Int
         /\ Congruent(Unmask(m.scheme, cs[i], key.keys[i], y[i]),
                      Dot(xs[i], y[i]) + Dot(sk.otp[i], y[i]), m.scheme.grp.q)
<1>1. PICK sch, w, x, p, mk, c : /\ sch = m.scheme /\ w = y[i] /\ x = xs[i] /\ p = sk.otp[i]
                                 /\ mk = sk.msk[i] /\ c = cs[i]
  OBVIOUS
<1>2. /\ sch.grp.q \in Nat /\ sch.grp.q # 0 /\ sch.l \in Nat /\ sch.hexp \in Int
      /\ mk.s \in [1..sch.l -> Int] /\ mk.t \in [1..sch.l -> Int]
      /\ x \in [1..sch.l -> Int] /\ p \in [1..sch.l -> Int] /\ w \in [1..sch.l -> Int]
  BY <1>1 DEF AreDamgardInputs, IsMulti
<1>3. PICK n \in Int :
        DamgardMultiEncrypt(m, x, DamgardMultiPublicKey(m, sk, i), p, n) = Done(c)
  BY <1>1 DEF AreDamgardInputs
<1>4. DamgardEncrypt(sch, VecMod(VecAdd(x, p), sch.grp.q), DamgardPublicKey(sch, mk), n) = Done(c)
  <2>1. CheckBound(x, m.bound)
    BY <1>3 DEF DamgardMultiEncrypt, Done, Failed
  <2> QED BY <1>1, <1>3, <2>1 DEF DamgardMultiEncrypt, DamgardMultiPublicKey
<1>5. MatCheckBound(y, m.bound) /\ key.keys[i] = DamgardDeriveFeKey(sch, mk, w).res
  <2>1. DamgardMultiDeriveFeKey(m, sk, y) = Done(key) /\ i \in DamgardMultiClients(m)
    BY DEF AreDamgardInputs
  <2>2. MatCheckBound(y, m.bound)
    BY <2>1 DEF DamgardMultiDeriveFeKey, Done, Failed
  <2>3. key.keys = [j \in DamgardMultiClients(m) |-> DamgardDeriveFeKey(m.scheme, sk.msk[j], y[j]).res]
    BY <2>1, <2>2 DEF DamgardMultiDeriveFeKey, Done
  <2> QED BY <1>1, <2>1, <2>2, <2>3
<1>6. CheckBound(w, sch.bound)
  <2>1. PICK b, c0 \in Int : b = m.bound /\ c0 = sch.bound /\ b <= c0
    BY <1>1 DEF AreDamgardInputs, IsMulti
  <2>2. \A j \in 1..sch.l : w[j] \in Int /\ w[j] <= b
    BY <1>1, <1>2, <1>5, <2>1 DEF MatCheckBound, CheckBound, AreDamgardInputs
  <2>3. \A j \in 1..sch.l : w[j] <= c0
    BY <2>1, <2>2
  <2> QED BY <1>2, <2>1, <2>3 DEF CheckBound
<1>7. DamgardDeriveFeKey(sch, mk, w) = Done(key.keys[i])
  BY <1>5, <1>6 DEF DamgardDeriveFeKey, Done
<1>8. /\ Unmask(sch, c, key.keys[i], w) \in Int /\ Dot(x, w) \in Int /\ Dot(p, w) \in Int
      /\ Congruent(Unmask(sch, c, key.keys[i], w), Dot(x, w) + Dot(p, w), sch.grp.q)
  BY <1>2, <1>4, <1>7, PaddedUnmask
<1> QED BY <1>1, <1>8

\* With an authority, the masks and pads of all clients cancel: the search is for the sum
\* of the inner products.
LEMMA DamgardMultiCancels ==
  ASSUME NEW m, NEW P, NEW sk, NEW xs, NEW y, NEW cs, NEW key,
         AreDamgardInputs(m, P, sk, xs, y, cs, key)
  PROVE  /\ MatDot(xs, y) \in Int
         /\ DamgardMultiDecrypt(m, cs, key, y)
              = BabyGiantWithNeg(m.scheme.grp, MatDot(xs, y) % m.scheme.grp.q, DamgardMultiReach(m))
<1> DEFINE e == [i \in DamgardMultiClients(m) |-> Unmask(m.scheme, cs[i], key.keys[i], y[i])]
<1>1. PICK q \in Nat : q = m.scheme.grp.q /\ q # 0
  BY DEF AreDamgardInputs, IsMulti
<1>2. P = DamgardMultiClients(m) /\ IsFiniteSet(P) /\ DOMAIN xs = P /\ DOMAIN sk.otp = P
  <2>1. P = 0..(m.n - 1) /\ m.n \in Nat /\ DOMAIN xs = P /\ DOMAIN sk.otp = P
    BY DEF AreDamgardInputs, IsMulti, DamgardMultiClients
  <2>2. IsFiniteSet(0..(m.n - 1))
    BY <2>1, ClientsAreFinite
  <2> QED BY <2>1, <2>2 DEF DamgardMultiClients
<1>3. MatCheckBound(y, m.bound) /\ key.z = MatDot(sk.otp, y) % q
  <2>1. DamgardMultiDeriveFeKey(m, sk, y) = Done(key)
    BY DEF AreDamgardInputs
  <2>2. MatCheckBound(y, m.bound)
    BY <2>1 DEF DamgardMultiDeriveFeKey, Done, Failed
  <2> QED BY <1>1, <2>1, <2>2 DEF DamgardMultiDeriveFeKey, Done
<1>4. ArePadded(e, xs, sk.otp, y, q, P)
  <2>1. \A i \in P : e[i] = Unmask(m.scheme, cs[i], key.keys[i], y[i])
    BY <1>2
  <2> HIDE DEF e
  <2> QED BY <1>1, <2>1, DamgardInput DEF ArePadded
<1>5. /\ SumFunctionOnSet(e, P) \in Int /\ MatDot(xs, y) \in Int /\ MatDot(sk.otp, y) \in Int
      /\ Congruent(SumFunctionOnSet(e, P), MatDot(xs, y) + MatDot(sk.otp, y), q)
  <2> HIDE DEF e
  <2> QED BY <1>2, <1>4, SumOfPadded
<1>6. SumFunction(e) = SumFunctionOnSet(e, P)
  BY <1>2 DEF SumFunction
<1>7. (SumFunction(e) - key.z) % q = MatDot(xs, y) % q
  <2>1. PICK a, b, c, d \in Int : /\ a = SumFunction(e) /\ b = MatDot(xs, y) /\ c = MatDot(sk.otp, y)
                                  /\ d = c % q /\ Congruent(d, c, q)
    BY <1>1, <1>5, <1>6, CongruentMod
  <2>2. Congruent(a, b + c, q) /\ Congruent(d, c, q)
    BY <1>5, <1>6, <2>1
  <2>3. (a - d) % q = b % q
    BY <1>1, <2>2, CongruentLess
  <2> QED BY <1>3, <2>1, <2>3
<1>8. DamgardMultiDecrypt(m, cs, key, y)
        = BabyGiantWithNeg(m.scheme.grp, (SumFunction(e) - key.z) % m.scheme.grp.q, DamgardMultiReach(m))
  BY <1>3 DEF DamgardMultiDecrypt
<1> QED BY <1>1, <1>5, <1>7, <1>8

\* The multi-input Damgard scheme decrypts bounded data of all clients to the sum, for
\* every group, number of clients and length, or fails at a logarithm that the search
\* overlooks (damgard_multi.c:107-211).
THEOREM DamgardMultiDecrypts ==
  ASSUME NEW m, NEW P, NEW sk, NEW xs, NEW y, NEW cs, NEW key, NEW r,
         AreDamgardInputs(m, P, sk, xs, y, cs, key), r = DamgardMultiDecrypt(m, cs, key, y),
         MatBounded(xs, m.bound), MatBounded(y, m.bound),
         Unambiguous(m.scheme.grp, DamgardMultiReach(m))
  PROVE  \/ r.err = "NONE" /\ r.res = MatDot(xs, y)
         \/ /\ r.err = "DLOG_NOT_FOUND"
            /\ Overlooked(m.scheme.grp, MatDot(xs, y), DamgardMultiReach(m))
<1>1. PICK grp : grp = m.scheme.grp /\ grp.q \in Nat /\ grp.q # 0
  BY DEF AreDamgardInputs, IsMulti
<1>2. PICK b \in Nat, l \in Nat, c \in Nat, B \in Nat :
         /\ b = m.bound /\ l = m.scheme.l /\ c = m.n /\ B = b * b * c * l
  <2>1. PICK b \in Nat, l \in Nat, c \in Nat : b = m.bound /\ l = m.scheme.l /\ c = m.n
    BY DEF AreDamgardInputs, IsMulti
  <2>2. PICK d \in Nat : d = b * b
    OBVIOUS
  <2>3. PICK e \in Nat : e = d * c
    OBVIOUS
  <2>4. e * l \in Nat
    OBVIOUS
  <2> QED BY <2>1, <2>2, <2>3, <2>4
<1>3. DamgardMultiReach(m) = B
  BY <1>2 DEF DamgardMultiReach
<1>4. PICK v \in (-B)..B : v = MatDot(xs, y)
  <2>1. /\ y \in [P -> [1..l -> Int]] /\ DOMAIN xs = P /\ \A i \in P : xs[i] \in [1..l -> Int]
    BY <1>2 DEF AreDamgardInputs
  <2>2. IsFiniteSet(P) /\ Cardinality(P) = c
    <3>1. P = 0..(c - 1)
      BY <1>2 DEF AreDamgardInputs, DamgardMultiClients
    <3> QED BY <3>1, ClientsAreFinite
  <2>3. MatBounded(xs, b) /\ MatBounded(y, b)
    BY <1>2
  <2>4. MatDot(xs, y) \in (-(b * b * c * l))..(b * b * c * l)
    BY <2>1, <2>2, <2>3, MatDotBounded
  <2> QED BY <1>2, <2>4
<1>5. r = BabyGiantWithNeg(grp, v % grp.q, B) /\ Unambiguous(grp, B)
  BY <1>1, <1>3, <1>4, DamgardMultiCancels
<1>6. \/ r.err = "NONE" /\ r.res = v
      \/ r.err = "DLOG_NOT_FOUND" /\ Overlooked(grp, v, B)
  BY <1>1, <1>5, SearchOfPower
<1> QED BY <1>1, <1>3, <1>4, <1>6

\* The master key sk of the DDH scheme m with clients P, their data xs, what they have sent
\* and the functional key for y.
AreDdhInputs(m, P, sk, xs, y, cs, key) ==
  /\ IsMulti(m) /\ m.bound # 0 /\ m.scheme.bound = m.bound /\ P = Slots(m)
  /\ DOMAIN xs = P /\ DOMAIN sk.otp = P /\ y \in [P -> [1..m.scheme.l -> Int]]
  /\ \A i \in P :
       /\ sk.msk[i] \in [1..m.scheme.l -> Int]
       /\ sk.otp[i] \in [1..m.scheme.l -> Int] /\ xs[i] \in [1..m.scheme.l -> Int]
       /\ \E n \in Int :
            DdhMultiEncrypt(m, xs[i], DdhMultiPublicKey(m, sk, i), sk.otp[i], n) = Done(cs[i])
  /\ DdhMultiDeriveFeKey(m, sk, y) = Done(key)

\* The padded data of a client is bounded, and the search of its slot is for the inner
\* product with it.
LEMMA DdhSlot ==
  ASSUME NEW m, NEW P, NEW sk, NEW xs, NEW y, NEW cs, NEW key,
         AreDdhInputs(m, P, sk, xs, y, cs, key), NEW i \in P, NEW x, x = Padded(m, xs[i], sk.otp[i])
  PROVE  /\ x \in [1..m.scheme.l -> Int] /\ Bounded(x, m.bound)
         /\ Dot(xs[i], y[i]) \in Int /\ Dot(sk.otp[i], y[i]) \in Int
         /\ Congruent(Dot(x, y[i]), Dot(xs[i], y[i]) + Dot(sk.otp[i], y[i]), m.bound)
         /\ DdhDecrypt(m.scheme, cs[i], key.keys[i], y[i])
              = BabyGiantWithNeg(m.scheme.grp, Dot(x, y[i]) % m.scheme.grp.q, DdhReach(m.scheme))
<1>1. PICK sch, w, v, p, mk, c : /\ sch = m.scheme /\ w = y[i] /\ v = xs[i] /\ p = sk.otp[i]
                                 /\ mk = sk.msk[i] /\ c = cs[i]
  OBVIOUS
<1>2. PICK b, D : b \in Nat /\ b = m.bound /\ b # 0 /\ sch.bound = b /\ D = 1..sch.l
  BY <1>1 DEF AreDdhInputs, IsMulti
<1>3. /\ sch.grp.q \in Nat /\ sch.grp.q # 0 /\ sch.l \in Nat
      /\ mk \in [D -> Int] /\ v \in [D -> Int] /\ p \in [D -> Int] /\ w \in [D -> Int]
  BY <1>1, <1>2 DEF AreDdhInputs, IsMulti
<1>4. IsFiniteSet(D)
  <2>1. PICK l \in Nat : l = sch.l
    BY <1>3
  <2>2. IsFiniteSet(1..l)
    BY FS_Interval
  <2> QED BY <1>2, <2>1, <2>2
<1>5. x = VecMod(VecAdd(v, p), b)
  BY <1>1, <1>2 DEF Padded
<1>6. /\ x \in [D -> Int] /\ Dot(v, w) \in Int /\ Dot(p, w) \in Int
      /\ Congruent(Dot(x, w), Dot(v, w) + Dot(p, w), b)
  <2>1. b \in Nat /\ b # 0
    BY <1>2
  <2> QED BY <1>3, <1>4, <1>5, <2>1, DotOfPadded
<1>7. Bounded(x, b)
  <2>1. ASSUME NEW k \in D PROVE x[k] \in (-b)..b
    <3>1. PICK s \in Int : s = v[k] + p[k]
      BY <1>3
    <3>2. s % b \in 0..(b - 1)
      BY <1>2, CongruentMod
    <3>3. x[k] = s % b
      BY <1>3, <1>5, <3>1 DEF VecMod, VecAdd
    <3> QED BY <1>2, <3>2, <3>3
  <2>2. DOMAIN x = D
    BY <1>6
  <2> QED BY <2>1, <2>2 DEF Bounded
<1>8. PICK n \in Int : DdhEncrypt(sch, x, DdhPublicKey(sch, mk), n) = Done(c)
  <2>1. PICK n \in Int : DdhMultiEncrypt(m, v, DdhMultiPublicKey(m, sk, i), p, n) = Done(c)
    BY <1>1 DEF AreDdhInputs
  <2>2. CheckBound(v, m.bound)
    BY <2>1 DEF DdhMultiEncrypt, Done, Failed
  <2> QED BY <1>1, <2>1, <2>2 DEF DdhMultiEncrypt, DdhMultiPublicKey
<1>9. MatCheckBound(y, m.bound) /\ key.keys[i] = DdhDeriveFeKey(sch, mk, w).res
  <2>1. DdhMultiDeriveFeKey(m, sk, y) = Done(key) /\ i \in Slots(m)
    BY DEF AreDdhInputs
  <2>2. MatCheckBound(y, m.bound)
    BY <2>1 DEF DdhMultiDeriveFeKey, Done, Failed
  <2>3. key.keys = [j \in Slots(m) |-> DdhDeriveFeKey(m.scheme, sk.msk[j], y[j]).res]
    BY <2>1, <2>2 DEF DdhMultiDeriveFeKey, Done
  <2> QED BY <1>1, <2>1, <2>2, <2>3
<1>10. CheckBound(w, sch.bound)
  <2>1. y \in [P -> [1..m.scheme.l -> Int]]
    BY DEF AreDdhInputs
  <2> QED BY <1>1, <1>2, <1>9, <2>1 DEF MatCheckBound
<1>11. DdhDeriveFeKey(sch, mk, w) = Done(key.keys[i])
  BY <1>9, <1>10 DEF DdhDeriveFeKey, Done
<1>12. DdhUnmask(sch, c, key.keys[i], w) = Dot(x, w) % sch.grp.q
  <2>1. /\ mk \in [1..sch.l -> Int] /\ x \in [1..sch.l -> Int] /\ w \in [1..sch.l -> Int]
    BY <1>2, <1>3, <1>6
  <2> QED BY <1>3, <1>8, <1>11, <2>1, DdhCancels
<1>13. DdhDecrypt(sch, c, key.keys[i], w)
         = BabyGiantWithNeg(sch.grp, DdhUnmask(sch, c, key.keys[i], w), DdhReach(sch))
  BY <1>10 DEF DdhDecrypt, DdhUnmask
<1> QED BY <1>1, <1>2, <1>6, <1>7, <1>12, <1>13

\* The slot of a client whose y is bounded returns the inner product with its padded data,
\* or fails at a logarithm that the search overlooks.
LEMMA DdhSlotFinds ==
  ASSUME NEW m, NEW P, NEW sk, NEW xs, NEW y, NEW cs, NEW key,
         AreDdhInputs(m, P, sk, xs, y, cs, key), NEW i \in P, NEW r,
         r = DdhDecrypt(m.scheme, cs[i], key.keys[i], y[i]),
         MatBounded(y, m.bound), Unambiguous(m.scheme.grp, DdhReach(m.scheme)),
         NEW v, v = Dot(Padded(m, xs[i], sk.otp[i]), y[i])
  PROVE  \/ r.err = "NONE" /\ r.res = v
         \/ /\ r.err = "DLOG_NOT_FOUND"
            /\ Overlooked(m.scheme.grp, v, DdhReach(m.scheme))
<1>1. PICK grp, x, w : /\ grp = m.scheme.grp /\ grp.q \in Nat /\ grp.q # 0
                       /\ x = Padded(m, xs[i], sk.otp[i]) /\ w = y[i]
  BY DEF AreDdhInputs, IsMulti
<1>2. PICK b \in Nat, l \in Nat, B \in Nat : b = m.bound /\ l = m.scheme.l /\ B = b * b * l
  <2>1. PICK b \in Nat, l \in Nat : b = m.bound /\ l = m.scheme.l
    BY DEF AreDdhInputs, IsMulti
  <2>2. PICK d \in Nat : d = b * b
    OBVIOUS
  <2>3. d * l \in Nat
    OBVIOUS
  <2> QED BY <2>1, <2>2, <2>3
<1>3. DdhReach(m.scheme) = B
  BY <1>2 DEF DdhReach, AreDdhInputs
<1>4. /\ x \in [1..l -> Int] /\ Bounded(x, b)
      /\ r = BabyGiantWithNeg(grp, Dot(x, w) % grp.q, B)
  <2>1. /\ x \in [1..m.scheme.l -> Int] /\ Bounded(x, m.bound)
        /\ DdhDecrypt(m.scheme, cs[i], key.keys[i], y[i])
             = BabyGiantWithNeg(m.scheme.grp, Dot(x, y[i]) % m.scheme.grp.q, DdhReach(m.scheme))
    BY <1>1, DdhSlot
  <2> QED BY <1>1, <1>2, <1>3, <2>1
<1>5. w \in [1..l -> Int] /\ Bounded(w, b)
  BY <1>1, <1>2 DEF AreDdhInputs, MatBounded
<1>6. PICK d \in (-B)..B : d = Dot(x, w)
  <2>1. Dot(x, w) \in (-(b * b * l))..(b * b * l)
    BY <1>4, <1>5, DotBounded
  <2> QED BY <1>2, <2>1
<1>7. r = BabyGiantWithNeg(grp, d % grp.q, B) /\ Unambiguous(grp, B)
  BY <1>1, <1>3, <1>4, <1>6
<1>8. \/ r.err = "NONE" /\ r.res = d
      \/ r.err = "DLOG_NOT_FOUND" /\ Overlooked(grp, d, B)
  BY <1>1, <1>7, SearchOfPower
<1> QED BY <1>1, <1>3, <1>6, <1>8

\* The least of the slots that fail is one of them.
LEMMA LeastOfSlots ==
  ASSUME NEW S, S \subseteq Nat, S # {}
  PROVE  Min(S) \in S
<1>1. PICK x \in S : \A y \in S : x <= y
  BY LeastElement
<1> QED BY <1>1 DEF Min

\* The multi-input DDH scheme decrypts any data of all clients to the sum modulo the bound,
\* for every group, number of clients and length, or fails at a logarithm that the search
\* of a slot overlooks (ddh_multi.c:104-178).
THEOREM DdhMultiDecrypts ==
  ASSUME NEW m, NEW P, NEW sk, NEW xs, NEW y, NEW cs, NEW key, NEW r,
         AreDdhInputs(m, P, sk, xs, y, cs, key), r = DdhMultiDecrypt(m, cs, key, y),
         MatBounded(y, m.bound), Unambiguous(m.scheme.grp, DdhReach(m.scheme))
  PROVE  \/ r.err = "NONE" /\ r.res = MatDot(xs, y) % m.bound
         \/ /\ r.err = "DLOG_NOT_FOUND"
            /\ \E i \in P : Overlooked(m.scheme.grp, Dot(Padded(m, xs[i], sk.otp[i]), y[i]),
                                     DdhReach(m.scheme))
<1> DEFINE slot == [i \in Slots(m) |-> DdhDecrypt(m.scheme, cs[i], key.keys[i], y[i])]
           failed == {i \in Slots(m) : slot[i].err # "NONE"}
           found == {i \in Slots(m) : \A j \in 0..i : j \notin failed}
           e == [i \in found |-> slot[i].res]
<1>1. PICK b \in Nat : b = m.bound /\ b # 0
  BY DEF AreDdhInputs, IsMulti
<1>2. /\ P = Slots(m) /\ IsFiniteSet(P) /\ P \subseteq Nat
      /\ DOMAIN xs = P /\ DOMAIN sk.otp = P
  <2>1. P = 0..(m.n - 1) /\ m.n \in Nat /\ P = Slots(m) /\ DOMAIN xs = P /\ DOMAIN sk.otp = P
    BY DEF AreDdhInputs, IsMulti, Slots
  <2>2. IsFiniteSet(0..(m.n - 1))
    BY <2>1, ClientsAreFinite
  <2> QED BY <2>1, <2>2
<1>3. MatCheckBound(y, m.bound) /\ key.z = MatDot(sk.otp, y) % b
  <2>1. DdhMultiDeriveFeKey(m, sk, y) = Done(key)
    BY DEF AreDdhInputs
  <2>2. MatCheckBound(y, m.bound)
    BY <2>1 DEF DdhMultiDeriveFeKey, Done, Failed
  <2> QED BY <1>1, <2>1, <2>2 DEF DdhMultiDeriveFeKey, Done
<1>4. r = [err |-> IF failed = {} THEN "NONE" ELSE slot[Min(failed)].err,
           res |-> (SumFunction(e) - key.z) % b]
  BY <1>1, <1>3 DEF DdhMultiDecrypt
<1>5. ASSUME NEW i \in P PROVE slot[i] = DdhDecrypt(m.scheme, cs[i], key.keys[i], y[i])
  <2> HIDE DEF failed, found, e
  <2> QED BY <1>2
<1>6. ASSUME NEW i \in P PROVE i \in failed <=> slot[i].err # "NONE"
  <2> HIDE DEF slot, found, e
  <2> QED BY <1>2
<1>7. failed \subseteq P
  BY <1>2
<1>8. failed = {} => found = P /\ DOMAIN e = P /\ \A i \in P : e[i] = slot[i].res
  BY <1>2
<1> HIDE DEF slot, failed, found, e
<1>9. CASE failed # {}
  <2>1. PICK i \in P : i = Min(failed) /\ i \in failed
    BY <1>2, <1>7, <1>9, LeastOfSlots
  <2>2. r.err = slot[i].err /\ slot[i].err # "NONE"
    BY <1>4, <1>6, <1>9, <2>1
  <2>3. PICK s, v : s = slot[i] /\ v = Dot(Padded(m, xs[i], sk.otp[i]), y[i])
    OBVIOUS
  <2>4. \/ s.err = "NONE" /\ s.res = v
        \/ /\ s.err = "DLOG_NOT_FOUND"
           /\ Overlooked(m.scheme.grp, v, DdhReach(m.scheme))
    BY <1>5, <2>3, DdhSlotFinds
  <2> QED BY <2>2, <2>3, <2>4
<1>10. CASE failed = {}
  <2>1. ArePadded(e, xs, sk.otp, y, b, P)
    <3>1. ASSUME NEW i \in P
          PROVE  /\ e[i] \in Int /\ Dot(xs[i], y[i]) \in Int /\ Dot(sk.otp[i], y[i]) \in Int
                 /\ Congruent(e[i], Dot(xs[i], y[i]) + Dot(sk.otp[i], y[i]), b)
      <4>1. PICK s, x, v : s = slot[i] /\ x = Padded(m, xs[i], sk.otp[i]) /\ v = Dot(x, y[i])
        OBVIOUS
      <4>2. s.err = "NONE" /\ e[i] = s.res
        BY <1>6, <1>8, <1>10, <4>1
      <4>3. \/ s.err = "NONE" /\ s.res = v
            \/ /\ s.err = "DLOG_NOT_FOUND"
               /\ Overlooked(m.scheme.grp, v, DdhReach(m.scheme))
        BY <1>5, <4>1, DdhSlotFinds
      <4>4. /\ x \in [1..m.scheme.l -> Int]
            /\ Dot(xs[i], y[i]) \in Int /\ Dot(sk.otp[i], y[i]) \in Int
            /\ Congruent(v, Dot(xs[i], y[i]) + Dot(sk.otp[i], y[i]), m.bound)
        BY <4>1, DdhSlot
      <4>5. v \in Int
        <5>1. PICK l \in Nat : l = m.scheme.l
          BY DEF AreDdhInputs, IsMulti
        <5>2. IsFiniteSet(1..l)
          BY FS_Interval
        <5>3. PICK D : D = 1..l
          OBVIOUS
        <5>4. x \in [D -> Int] /\ y[i] \in [D -> Int]
          BY <4>4, <5>1, <5>3 DEF AreDdhInputs
        <5> QED BY <4>1, <5>2, <5>3, <5>4, DotIsInt
      <4> QED BY <1>1, <4>2, <4>3, <4>4, <4>5
    <3> QED BY <3>1 DEF ArePadded
  <2>2. /\ SumFunctionOnSet(e, P) \in Int /\ MatDot(xs, y) \in Int /\ MatDot(sk.otp, y) \in Int
        /\ Congruent(SumFunctionOnSet(e, P), MatDot(xs, y) + MatDot(sk.otp, y), b)
    BY <1>2, <2>1, SumOfPadded
  <2>3. SumFunction(e) = SumFunctionOnSet(e, P)
    BY <1>8, <1>10 DEF SumFunction
  <2>4. PICK a, c, d, z \in Int : /\ a = SumFunction(e) /\ c = MatDot(xs, y) /\ d = MatDot(sk.otp, y)
                                  /\ z = d % b /\ Congruent(z, d, b)
    BY <1>1, <2>2, <2>3, CongruentMod
  <2>5. Congruent(a, c + d, b) /\ Congruent(z, d, b)
    BY <2>2, <2>3, <2>4
  <2>6. (a - z) % b = c % b
    BY <1>1, <2>5, CongruentLess
  <2> QED BY <1>1, <1>3, <1>4, <1>10, <2>4, <2>6
<1> QED BY <1>9, <1>10

-----------------------------------------------------------------------------
(* Products with matrices, and the rounding of the schemes from lattices *)

\* An inner product does not depend on the order of its factors.
LEMMA DotCommutes ==
  ASSUME NEW D, NEW x, NEW y, IsFiniteSet(D), x \in [D -> Int], y \in [D -> Int]
  PROVE  Dot(x, y) = Dot(y, x)
<1> DEFINE f == [k \in D |-> x[k] * y[k]]
           g == [k \in D |-> y[k] * x[k]]
<1>1. Dot(x, y) = SumFunctionOnSet(f, D) /\ Dot(y, x) = SumFunctionOnSet(g, D)
  BY DotIsSum
<1>2. \A k \in D : f[k] = g[k]
  OBVIOUS
<1>3. SumFunctionOnSet(f, D) = SumFunctionOnSet(g, D)
  <2> HIDE DEF f, g
  <2> QED BY <1>2, SumCongruence
<1> QED BY <1>1, <1>3

\* Two vectors that may be swapped.
AreVectors(x, y, D) == IsFiniteSet(D) /\ x \in [D -> Int] /\ y \in [D -> Int]

\* The same, for vectors over a set that is known.
LEMMA DotSwap == ASSUME NEW D, NEW x, NEW y, AreVectors(x, y, D) PROVE Dot(x, y) = Dot(y, x)
BY DotCommutes DEF AreVectors

\* Vectors that are congruent on both sides.
LEMMA DotsCongruent ==
  ASSUME NEW n \in Nat, NEW D, NEW x, NEW u, NEW y, NEW z, IsFiniteSet(D),
         x \in [D -> Int], u \in [D -> Int], y \in [D -> Int], z \in [D -> Int],
         \A k \in D : Congruent(x[k], u[k], n), \A k \in D : Congruent(y[k], z[k], n)
  PROVE  Congruent(Dot(x, y), Dot(u, z), n)
<1>1. Congruent(Dot(x, y), Dot(u, y), n)
  BY DotCongruent
<1>2. Congruent(Dot(y, u), Dot(z, u), n)
  BY DotCongruent
<1>3. Dot(y, u) = Dot(u, y) /\ Dot(z, u) = Dot(u, z)
  BY DotCommutes
<1>4. Dot(x, y) \in Int /\ Dot(u, y) \in Int /\ Dot(u, z) \in Int
  BY DotIsInt
<1> QED BY <1>1, <1>2, <1>3, <1>4, CongruentTrans

\* The vector w is u plus v, modulo n.
IsSumOf(w, u, v, n, D) == \A k \in D : Congruent(w[k], u[k] + v[k], n)

\* Its inner product is the sum of theirs.
LEMMA DotOfSum ==
  ASSUME NEW n \in Nat, NEW D, NEW w, NEW u, NEW v, NEW y, IsFiniteSet(D),
         w \in [D -> Int], u \in [D -> Int], v \in [D -> Int], y \in [D -> Int], IsSumOf(w, u, v, n, D)
  PROVE  Congruent(Dot(w, y), Dot(u, y) + Dot(v, y), n)
<1> DEFINE z == [k \in D |-> u[k] + v[k]]
<1>1. z \in [D -> Int] /\ \A k \in D : Congruent(w[k], z[k], n)
  BY DEF IsSumOf
<1>2. IsCombination(z, u, 1, v, D)
  BY DEF IsCombination
<1> HIDE DEF z
<1>3. Dot(z, y) = Dot(u, y) + 1 * Dot(v, y)
  BY <1>1, <1>2, DotLinear
<1>4. Dot(u, y) \in Int /\ Dot(v, y) \in Int
  BY DotIsInt
<1>5. Dot(z, y) = Dot(u, y) + Dot(v, y)
  BY <1>3, <1>4
<1>6. Congruent(Dot(w, y), Dot(z, y), n)
  BY <1>1, DotCongruent
<1> QED BY <1>5, <1>6

\* A matrix with the rows R and the columns C, transposed, and a matrix times a vector.
Flip(A, R, C) == [j \in C |-> [i \in R |-> A[i][j]]]
Times(A, v, R) == [i \in R |-> Dot(A[i], v)]

\* The transpose is a matrix.
LEMMA FlipType ==
  ASSUME NEW R, NEW C, NEW A \in [R -> [C -> Int]]
  PROVE  Flip(A, R, C) \in [C -> [R -> Int]]
BY DEF Flip

\* What a product with a vector is.
IsProduct(t, A, v, R) == t \in [R -> Int] /\ \A i \in R : t[i] = Dot(A[i], v)

\* Times is such a product.
LEMMA TimesType ==
  ASSUME NEW R, NEW C, IsFiniteSet(C), NEW A \in [R -> [C -> Int]], NEW v \in [C -> Int]
  PROVE  IsProduct(Times(A, v, R), A, v, R)
<1>1. ASSUME NEW i \in R PROVE Dot(A[i], v) \in Int
  BY DotIsInt
<1> QED BY <1>1 DEF Times, IsProduct

\* p = A v, and t = A^T u.
AreAdjoint(p, u, t, v, A, R, C) ==
  /\ IsFiniteSet(R) /\ IsFiniteSet(C) /\ A \in [R -> [C -> Int]]
  /\ u \in [R -> Int] /\ v \in [C -> Int]
  /\ p = Times(A, v, R) /\ t = Times(Flip(A, R, C), u, C)

\* (A v) u = (A^T u) v.
LEMMA AdjointDots ==
  ASSUME NEW R, NEW C, NEW A, NEW u, NEW v, NEW p, NEW t, AreAdjoint(p, u, t, v, A, R, C)
  PROVE  Dot(p, u) = Dot(t, v)
<1>1. /\ IsFiniteSet(R) /\ IsFiniteSet(C) /\ A \in [R -> [C -> Int]]
      /\ u \in [R -> Int] /\ v \in [C -> Int]
  BY DEF AreAdjoint
<1>2. PICK B : B = Flip(A, R, C) /\ p = Times(A, v, R) /\ t = Times(B, u, C)
  BY DEF AreAdjoint
<1>3. /\ B \in [C -> [R -> Int]] /\ p \in [R -> Int] /\ t \in [C -> Int]
      /\ \A i \in R : p[i] = Dot(A[i], v)
      /\ \A j \in C : t[j] = Dot(B[j], u)
  <2>1. B \in [C -> [R -> Int]]
    BY <1>1, <1>2, FlipType
  <2>2. IsProduct(p, A, v, R)
    BY <1>1, <1>2, TimesType
  <2>3. IsProduct(t, B, u, C)
    BY <1>1, <1>2, <2>1, TimesType
  <2> QED BY <2>1, <2>2, <2>3 DEF IsProduct
<1>4. \A i \in R : \A j \in C : A[i][j] \in Int /\ B[j][i] = A[i][j]
  BY <1>1, <1>2 DEF Flip
<1> DEFINE a == [i \in R |-> [j \in C |-> u[i] * (A[i][j] * v[j])]]
           b == [j \in C |-> [i \in R |-> v[j] * (B[j][i] * u[i])]]
           r == [i \in R |-> p[i] * u[i]]
           c == [j \in C |-> t[j] * v[j]]
<1>5. AreTransposed(a, b, R, C)
  <2>1. ASSUME NEW i \in R, NEW j \in C PROVE a[i][j] \in Int /\ b[j][i] = a[i][j]
    <3>1. PICK x, y, z \in Int : x = u[i] /\ y = v[j] /\ z = A[i][j]
      BY <1>1, <1>4
    <3>2. a[i][j] = x * (z * y) /\ b[j][i] = y * (z * x)
      BY <1>4, <3>1
    <3>3. x * (z * y) = y * (z * x) /\ x * (z * y) \in Int
      OBVIOUS
    <3> QED BY <3>2, <3>3
  <2> HIDE DEF a, b
  <2> QED BY <2>1 DEF AreTransposed
<1>6. AreRowSums(r, a, R, C)
  <2>1. ASSUME NEW i \in R PROVE r[i] = SumFunctionOnSet(a[i], C)
    <3>1. PICK f : f = [j \in C |-> A[i][j] * v[j]]
      OBVIOUS
    <3>2. Dot(A[i], v) = SumFunctionOnSet(f, C) /\ SumFunctionOnSet(f, C) \in Int
      <4>1. A[i] \in [C -> Int]
        BY <1>1
      <4> QED BY <1>1, <3>1, <4>1, DotIsSum
    <3>3. \A j \in C : f[j] \in Int /\ a[i][j] = u[i] * f[j]
      BY <1>1, <3>1
    <3>4. PICK g : g = a[i]
      OBVIOUS
    <3>5. u[i] \in Int /\ \A j \in C : f[j] \in Int /\ g[j] = u[i] * f[j]
      BY <1>1, <3>3, <3>4
    <3>6. SumFunctionOnSet(g, C) = u[i] * SumFunctionOnSet(f, C)
      BY <1>1, <3>5, SumScaled
    <3>7. r[i] = p[i] * u[i] /\ p[i] = SumFunctionOnSet(f, C)
      BY <1>3, <3>2
    <3>8. r[i] = u[i] * SumFunctionOnSet(f, C)
      BY <3>2, <3>5, <3>7
    <3> HIDE DEF a
    <3> QED BY <3>4, <3>6, <3>8
  <2> HIDE DEF a, r
  <2> QED BY <2>1 DEF AreRowSums
<1>7. AreRowSums(c, b, C, R)
  <2>1. ASSUME NEW j \in C PROVE c[j] = SumFunctionOnSet(b[j], R)
    <3>1. PICK f : f = [i \in R |-> B[j][i] * u[i]]
      OBVIOUS
    <3>2. Dot(B[j], u) = SumFunctionOnSet(f, R) /\ SumFunctionOnSet(f, R) \in Int
      <4>1. B[j] \in [R -> Int]
        BY <1>3
      <4> QED BY <1>1, <3>1, <4>1, DotIsSum
    <3>3. \A i \in R : f[i] \in Int /\ b[j][i] = v[j] * f[i]
      BY <1>1, <1>3, <3>1
    <3>4. PICK g : g = b[j]
      OBVIOUS
    <3>5. v[j] \in Int /\ \A i \in R : f[i] \in Int /\ g[i] = v[j] * f[i]
      BY <1>1, <3>3, <3>4
    <3>6. SumFunctionOnSet(g, R) = v[j] * SumFunctionOnSet(f, R)
      BY <1>1, <3>5, SumScaled
    <3>7. c[j] = t[j] * v[j] /\ t[j] = SumFunctionOnSet(f, R)
      BY <1>3, <3>2
    <3>8. c[j] = v[j] * SumFunctionOnSet(f, R)
      BY <3>2, <3>5, <3>7
    <3> HIDE DEF b
    <3> QED BY <3>4, <3>6, <3>8
  <2> HIDE DEF b, c
  <2> QED BY <2>1 DEF AreRowSums
<1>8. Dot(p, u) = SumFunctionOnSet(r, R) /\ Dot(t, v) = SumFunctionOnSet(c, C)
  <2>1. Dot(p, u) = SumFunctionOnSet(r, R)
    BY <1>1, <1>3, DotIsSum
  <2>2. Dot(t, v) = SumFunctionOnSet(c, C)
    BY <1>1, <1>3, DotIsSum
  <2> QED BY <2>1, <2>2
<1>9. SumFunctionOnSet(r, R) = SumFunctionOnSet(c, C)
  <2> HIDE DEF a, b, r, c
  <2> QED BY <1>1, <1>5, <1>6, <1>7, SumExchange
<1> QED BY <1>8, <1>9

\* A sum of two congruences, with what is added on the right.
LEMMA CongruentSum ==
  ASSUME NEW n \in Nat, NEW a \in Int, NEW b \in Int, NEW c \in Int, NEW d \in Int,
         Congruent(a, b + c, n), Congruent(b, d, n)
  PROVE  Congruent(a, d + c, n)
<1>1. b + c \in Int /\ d + c \in Int
  OBVIOUS
<1>2. Congruent(c, c, n)
  BY CongruentRefl
<1>3. Congruent(b + c, d + c, n)
  BY <1>2, CongruentAdd
<1> QED BY <1>1, <1>3, CongruentTrans

\* The products of a matrix A with the columns of S.
IsMatProduct(P, A, S, M, N, L) ==
  /\ IsFiniteSet(M) /\ IsFiniteSet(N) /\ IsFiniteSet(L)
  /\ A \in [M -> [N -> Int]] /\ S \in [N -> [L -> Int]] /\ P \in [M -> [L -> Int]]
  /\ \A i \in M : P[i] = Times(Flip(S, N, L), A[i], L)

\* There is such a product, and (A S) y = A (S y).
LEMMA MatProductType ==
  ASSUME NEW M, NEW N, NEW L, IsFiniteSet(M), IsFiniteSet(N), IsFiniteSet(L),
         NEW A \in [M -> [N -> Int]], NEW S \in [N -> [L -> Int]],
         NEW P, P = [i \in M |-> Times(Flip(S, N, L), A[i], L)]
  PROVE  IsMatProduct(P, A, S, M, N, L)
<1>1. PICK B : B = Flip(S, N, L)
  OBVIOUS
<1>2. B \in [L -> [N -> Int]]
  BY <1>1, FlipType
<1>3. ASSUME NEW i \in M PROVE Times(B, A[i], L) \in [L -> Int]
  <2>1. A[i] \in [N -> Int]
    OBVIOUS
  <2>2. IsProduct(Times(B, A[i], L), B, A[i], L)
    BY <1>2, <2>1, TimesType
  <2> QED BY <2>2 DEF IsProduct
<1> QED BY <1>1, <1>3 DEF IsMatProduct

\* Multiplication with matrices is associative.
LEMMA MatProductTimes ==
  ASSUME NEW M, NEW N, NEW L, NEW A, NEW S, NEW P, IsMatProduct(P, A, S, M, N, L),
         NEW y \in [L -> Int]
  PROVE  Times(P, y, M) = Times(A, Times(S, y, N), M)
<1>0. /\ IsFiniteSet(M) /\ IsFiniteSet(N) /\ IsFiniteSet(L)
      /\ A \in [M -> [N -> Int]] /\ S \in [N -> [L -> Int]]
  BY DEF IsMatProduct
<1>1. PICK B, s : B = Flip(S, N, L) /\ s = Times(S, y, N)
  OBVIOUS
<1>2. IsProduct(s, S, y, N)
  BY <1>0, <1>1, TimesType
<1>3. ASSUME NEW i \in M PROVE Dot(P[i], y) = Dot(A[i], s)
  <2>1. A[i] \in [N -> Int] /\ s \in [N -> Int]
    BY <1>0, <1>2 DEF IsProduct
  <2>2. P[i] = Times(B, A[i], L)
    BY <1>1 DEF IsMatProduct
  <2>3. PICK w, z : w = A[i] /\ z = Times(B, w, L)
    OBVIOUS
  <2>5. AreAdjoint(s, w, z, y, S, N, L)
    BY <1>0, <1>1, <2>1, <2>3 DEF AreAdjoint
  <2>6. Dot(s, w) = Dot(z, y)
    BY <2>5, AdjointDots
  <2>4. Dot(s, A[i]) = Dot(A[i], s)
    BY <1>0, <2>1, DotCommutes
  <2> QED BY <1>1, <2>2, <2>3, <2>4, <2>6
<1> QED BY <1>1, <1>3, Zenon DEF Times

\* (A S)^T r . y = A^T r . (S y).
LEMMA MatProductDot ==
  ASSUME NEW M, NEW N, NEW L, NEW A, NEW S, NEW P, IsMatProduct(P, A, S, M, N, L),
         NEW r \in [M -> Int], NEW y \in [L -> Int]
  PROVE  Dot(Times(Flip(P, M, L), r, L), y) = Dot(Times(Flip(A, M, N), r, N), Times(S, y, N))
<1>0. /\ IsFiniteSet(M) /\ IsFiniteSet(N) /\ IsFiniteSet(L)
      /\ A \in [M -> [N -> Int]] /\ S \in [N -> [L -> Int]]
  BY DEF IsMatProduct
<1>1. PICK s, z, v, f : /\ s = Times(S, y, N) /\ z = Times(P, y, M)
                        /\ v = Times(Flip(P, M, L), r, L) /\ f = Times(Flip(A, M, N), r, N)
  OBVIOUS
<1>2. s \in [N -> Int] /\ P \in [M -> [L -> Int]]
  <2>1. IsProduct(s, S, y, N)
    BY <1>0, <1>1, TimesType
  <2> QED BY <2>1 DEF IsProduct, IsMatProduct
<1>3. z = Times(A, s, M)
  <2>1. Times(P, y, M) = Times(A, Times(S, y, N), M)
    BY MatProductTimes
  <2> QED BY <1>1, <2>1
<1>4. AreAdjoint(z, r, v, y, P, M, L) /\ AreAdjoint(z, r, f, s, A, M, N)
  BY <1>0, <1>1, <1>2, <1>3 DEF AreAdjoint
<1>5. Dot(z, r) = Dot(v, y) /\ Dot(z, r) = Dot(f, s)
  BY <1>4, AdjointDots
<1> QED BY <1>1, <1>5

\* A public key is A S + E, the matrix behind a ciphertext: modulo q.
IsMatSum(K, P, E, q, M, L) ==
  \A i \in M : \A j \in L : Congruent(K[i][j], P[i][j] + E[i][j], q)

\* A ciphertext of the LWE scheme with the parts f and t, made with the public key K and
\* the randomness r, and the functional key k for y; the noise e goes with them.
IsLweCall(t, f, e, c, k, A, S, E, P, K, r, y, q, M, N, L) ==
  /\ q \in Nat /\ IsFiniteSet(M) /\ IsFiniteSet(N) /\ IsFiniteSet(L)
  /\ A \in [M -> [N -> Int]] /\ S \in [N -> [L -> Int]] /\ E \in [M -> [L -> Int]]
  /\ K \in [M -> [L -> Int]] /\ IsMatProduct(P, A, S, M, N, L) /\ IsMatSum(K, P, E, q, M, L)
  /\ r \in [M -> Int] /\ y \in [L -> Int] /\ c \in [L -> Int] /\ t \in [L -> Int]
  /\ IsSumOf(t, Times(Flip(K, M, L), r, L), c, q, L)
  /\ k \in [N -> Int] /\ \A i \in N : Congruent(k[i], Dot(S[i], y), q)
  /\ f = Times(Flip(A, M, N), r, N) /\ e = Times(Flip(E, M, L), r, L)

\* LWE: what decryption computes before it rounds is the product with what is encrypted,
\* and the product with the noise (lwe.c:270-329).
LEMMA LweSum ==
  ASSUME NEW t, NEW f, NEW e, NEW c, NEW k, NEW A, NEW S, NEW E, NEW P, NEW K, NEW r, NEW y, NEW q,
         NEW M, NEW N, NEW L, IsLweCall(t, f, e, c, k, A, S, E, P, K, r, y, q, M, N, L)
  PROVE  Congruent(Dot(t, y) - Dot(f, k), Dot(e, y) + Dot(c, y), q)
<1>0. /\ q \in Nat /\ IsFiniteSet(M) /\ IsFiniteSet(N) /\ IsFiniteSet(L)
      /\ A \in [M -> [N -> Int]] /\ S \in [N -> [L -> Int]] /\ E \in [M -> [L -> Int]]
      /\ K \in [M -> [L -> Int]] /\ IsMatProduct(P, A, S, M, N, L) /\ IsMatSum(K, P, E, q, M, L)
      /\ r \in [M -> Int] /\ y \in [L -> Int] /\ c \in [L -> Int] /\ t \in [L -> Int]
      /\ IsSumOf(t, Times(Flip(K, M, L), r, L), c, q, L)
      /\ k \in [N -> Int] /\ \A i \in N : Congruent(k[i], Dot(S[i], y), q)
      /\ f = Times(Flip(A, M, N), r, N) /\ e = Times(Flip(E, M, L), r, L)
  BY DEF IsLweCall
<1> USE <1>0
<1>1. PICK A1, E1, K1, P1 : /\ A1 = Flip(A, M, N) /\ E1 = Flip(E, M, L)
                            /\ K1 = Flip(K, M, L) /\ P1 = Flip(P, M, L)
  OBVIOUS
<1>2. P \in [M -> [L -> Int]]
  BY DEF IsMatProduct
<1>3. /\ A1 \in [N -> [M -> Int]] /\ E1 \in [L -> [M -> Int]]
      /\ K1 \in [L -> [M -> Int]] /\ P1 \in [L -> [M -> Int]]
  BY <1>1, <1>2, FlipType
<1>4. PICK u, v, s : /\ f = Times(A1, r, N) /\ e = Times(E1, r, L) /\ u = Times(K1, r, L)
                     /\ v = Times(P1, r, L) /\ s = Times(S, y, N)
  BY <1>1
<1>5. /\ IsProduct(f, A1, r, N) /\ IsProduct(e, E1, r, L) /\ IsProduct(u, K1, r, L)
      /\ IsProduct(v, P1, r, L) /\ IsProduct(s, S, y, N)
  <2>1. IsProduct(f, A1, r, N) /\ IsProduct(e, E1, r, L)
    BY <1>1, <1>3, TimesType
  <2>2. IsProduct(u, K1, r, L) /\ IsProduct(v, P1, r, L)
    BY <1>3, <1>4, TimesType
  <2>3. IsProduct(s, S, y, N)
    BY <1>4, TimesType
  <2> QED BY <2>1, <2>2, <2>3
<1>6. /\ f \in [N -> Int] /\ e \in [L -> Int] /\ u \in [L -> Int] /\ v \in [L -> Int]
      /\ s \in [N -> Int]
  BY <1>5 DEF IsProduct
<1>7. IsSumOf(u, v, e, q, L)
  <2>1. ASSUME NEW j \in L PROVE Congruent(u[j], v[j] + e[j], q)
    <3>1. K1[j] \in [M -> Int] /\ P1[j] \in [M -> Int] /\ E1[j] \in [M -> Int]
      BY <1>3
    <3>2. IsSumOf(K1[j], P1[j], E1[j], q, M)
      BY <1>1 DEF IsSumOf, IsMatSum, Flip
    <3>3. Congruent(Dot(K1[j], r), Dot(P1[j], r) + Dot(E1[j], r), q)
      BY <3>1, <3>2, DotOfSum
    <3> QED BY <1>5, <3>3 DEF IsProduct
  <2> QED BY <2>1 DEF IsSumOf
<1>8. PICK g : g = [j \in L |-> v[j] + e[j]]
  OBVIOUS
<1>9. g \in [L -> Int] /\ IsSumOf(g, v, e, q, L) /\ IsSumOf(t, g, c, q, L)
  <2>1. g \in [L -> Int]
    BY <1>6, <1>8
  <2>2. ASSUME NEW j \in L PROVE Congruent(g[j], v[j] + e[j], q)
    <3>1. g[j] = v[j] + e[j] /\ g[j] \in Int
      BY <1>8, <2>1
    <3>2. Congruent(g[j], g[j], q)
      BY <3>1, CongruentRefl
    <3> QED BY <3>1, <3>2
  <2>3. ASSUME NEW j \in L PROVE Congruent(t[j], g[j] + c[j], q)
    <3>1. t[j] \in Int /\ u[j] \in Int /\ c[j] \in Int /\ g[j] \in Int /\ g[j] = v[j] + e[j]
      BY <1>6, <1>8, <2>1
    <3>2. Congruent(t[j], u[j] + c[j], q) /\ Congruent(u[j], v[j] + e[j], q)
      BY <1>1, <1>4, <1>7 DEF IsSumOf
    <3>3. Congruent(u[j], g[j], q)
      BY <3>1, <3>2
    <3> QED BY <3>1, <3>2, <3>3, CongruentSum
  <2> QED BY <2>1, <2>2, <2>3 DEF IsSumOf
<1>10. PICK dt, dg, dv, de, dc, df, ds \in Int :
         /\ dt = Dot(t, y) /\ dg = Dot(g, y) /\ dv = Dot(v, y) /\ de = Dot(e, y) /\ dc = Dot(c, y)
         /\ df = Dot(f, k) /\ ds = Dot(f, s)
  <2>1. Dot(t, y) \in Int /\ Dot(g, y) \in Int /\ Dot(v, y) \in Int /\ Dot(e, y) \in Int /\ Dot(c, y) \in Int
    BY <1>6, <1>9, DotIsInt
  <2>2. Dot(f, k) \in Int /\ Dot(f, s) \in Int
    BY <1>6, DotIsInt
  <2> QED BY <2>1, <2>2
<1>11. Congruent(dt, dg + dc, q) /\ Congruent(dg, dv + de, q)
  <2>1. Congruent(Dot(t, y), Dot(g, y) + Dot(c, y), q)
    BY <1>9, DotOfSum
  <2>2. Congruent(Dot(g, y), Dot(v, y) + Dot(e, y), q)
    BY <1>6, <1>9, DotOfSum
  <2> QED BY <1>10, <2>1, <2>2
<1>12. dv = ds
  <2>1. Dot(Times(Flip(P, M, L), r, L), y) = Dot(Times(Flip(A, M, N), r, N), Times(S, y, N))
    BY MatProductDot
  <2> QED BY <1>1, <1>4, <1>10, <2>1
<1>13. Congruent(df, ds, q)
  <2>1. \A i \in N : Congruent(k[i], s[i], q)
    BY <1>5 DEF IsProduct
  <2>2. \A i \in N : Congruent(f[i], f[i], q)
    BY <1>6, CongruentRefl
  <2> QED BY <1>6, <1>10, <2>1, <2>2, DotsCongruent
<1>14. Congruent(dt, ds + de + dc, q)
  <2>1. Congruent(dt, (dv + de) + dc, q)
    <3>1. dv + de \in Int
      OBVIOUS
    <3> QED BY <1>11, <3>1, CongruentSum
  <2> QED BY <1>12, <2>1
<1>15. Congruent(dt - df, (ds + de + dc) - ds, q)
  <2>1. ds + de + dc \in Int
    OBVIOUS
  <2> QED BY <1>13, <1>14, <2>1, CongruentSub
<1>16. (ds + de + dc) - ds = de + dc
  OBVIOUS
<1> QED BY <1>1, <1>4, <1>10, <1>15, <1>16

\* A ciphertext of the fully secure scheme with the parts c0 and c1, the latter from the
\* masks g and the scaled plaintext w, and the functional key k, which is s modulo q.
IsLweFsCall(c1, c0, g, w, k, s, A, S, P, K, r, e0, e1, y, q, M, N, L) ==
  /\ q \in Nat /\ IsMatProduct(P, S, A, L, M, N)
  /\ K \in [L -> [N -> Int]] /\ \A i \in L : \A j \in N : Congruent(K[i][j], P[i][j], q)
  /\ r \in [N -> Int] /\ e0 \in [M -> Int] /\ e1 \in [L -> Int]
  /\ w \in [L -> Int] /\ y \in [L -> Int]
  /\ c0 \in [M -> Int] /\ IsSumOf(c0, Times(A, r, M), e0, q, M)
  /\ g \in [L -> Int] /\ IsSumOf(g, Times(K, r, L), e1, q, L)
  /\ c1 \in [L -> Int] /\ IsSumOf(c1, g, w, q, L)
  /\ s = Times(Flip(S, L, M), y, M) /\ k \in [M -> Int] /\ \A j \in M : Congruent(k[j], s[j], q)

\* Fully secure LWE: the same, with the public key S A and noise in both parts of a
\* ciphertext (lwe_fs.c:286-330).
LEMMA LweFsSum ==
  ASSUME NEW c1, NEW c0, NEW g, NEW w, NEW k, NEW s, NEW A, NEW S, NEW P, NEW K, NEW r, NEW e0, NEW e1,
         NEW y, NEW q, NEW M, NEW N, NEW L,
         IsLweFsCall(c1, c0, g, w, k, s, A, S, P, K, r, e0, e1, y, q, M, N, L)
  PROVE  Congruent(Dot(c1, y) - Dot(k, c0), (Dot(y, e1) - Dot(s, e0)) + Dot(w, y), q)
<1>0. /\ q \in Nat /\ IsMatProduct(P, S, A, L, M, N)
      /\ K \in [L -> [N -> Int]] /\ \A i \in L : \A j \in N : Congruent(K[i][j], P[i][j], q)
      /\ r \in [N -> Int] /\ e0 \in [M -> Int] /\ e1 \in [L -> Int]
      /\ w \in [L -> Int] /\ y \in [L -> Int]
      /\ c0 \in [M -> Int] /\ IsSumOf(c0, Times(A, r, M), e0, q, M)
      /\ g \in [L -> Int] /\ IsSumOf(g, Times(K, r, L), e1, q, L)
      /\ c1 \in [L -> Int] /\ IsSumOf(c1, g, w, q, L)
      /\ s = Times(Flip(S, L, M), y, M) /\ k \in [M -> Int] /\ \A j \in M : Congruent(k[j], s[j], q)
  BY DEF IsLweFsCall
<1> USE <1>0
<1>1. /\ IsFiniteSet(M) /\ IsFiniteSet(N) /\ IsFiniteSet(L)
      /\ A \in [M -> [N -> Int]] /\ S \in [L -> [M -> Int]] /\ P \in [L -> [N -> Int]]
  BY DEF IsMatProduct
<1>2. PICK S1, t, u, v : /\ S1 = Flip(S, L, M) /\ t = Times(A, r, M) /\ u = Times(K, r, L)
                         /\ v = Times(S, t, L)
  OBVIOUS
<1>3. t \in [M -> Int] /\ u \in [L -> Int] /\ s \in [M -> Int] /\ v \in [L -> Int]
  <2>1. IsProduct(t, A, r, M) /\ IsProduct(u, K, r, L)
    BY <1>1, <1>2, TimesType
  <2>2. t \in [M -> Int] /\ u \in [L -> Int]
    BY <2>1 DEF IsProduct
  <2>3. S1 \in [M -> [L -> Int]]
    BY <1>1, <1>2, FlipType
  <2>4. IsProduct(s, S1, y, M) /\ IsProduct(v, S, t, L)
    BY <1>1, <1>2, <2>2, <2>3, TimesType
  <2> QED BY <2>2, <2>4 DEF IsProduct
<1>4. \A i \in L : Congruent(u[i], v[i], q)
  <2>1. v = Times(P, r, L)
    <3>1. Times(P, r, L) = Times(S, Times(A, r, M), L)
      BY MatProductTimes
    <3> QED BY <1>2, <3>1
  <2>2. ASSUME NEW i \in L PROVE Congruent(u[i], v[i], q)
    <3>1. K[i] \in [N -> Int] /\ P[i] \in [N -> Int]
      BY <1>1
    <3>2. \A j \in N : Congruent(K[i][j], P[i][j], q)
      OBVIOUS
    <3>3. Congruent(Dot(K[i], r), Dot(P[i], r), q)
      BY <1>1, <3>1, <3>2, DotCongruent
    <3> QED BY <1>2, <2>1, <3>3 DEF Times
  <2> QED BY <2>2
<1>5. PICK d1, dg, dw, du, dv, de, d0, dt, ds, dk, df \in Int :
        /\ d1 = Dot(c1, y) /\ dg = Dot(g, y) /\ dw = Dot(w, y) /\ du = Dot(u, y) /\ dv = Dot(v, y)
        /\ de = Dot(e1, y) /\ d0 = Dot(c0, k) /\ dt = Dot(t, k) /\ ds = Dot(s, t)
        /\ dk = Dot(e0, k) /\ df = Dot(s, e0)
  <2>1. /\ Dot(c1, y) \in Int /\ Dot(g, y) \in Int /\ Dot(w, y) \in Int /\ Dot(u, y) \in Int
        /\ Dot(v, y) \in Int /\ Dot(e1, y) \in Int
    BY <1>1, <1>3, DotIsInt
  <2>2. /\ Dot(c0, k) \in Int /\ Dot(t, k) \in Int /\ Dot(s, t) \in Int
        /\ Dot(e0, k) \in Int /\ Dot(s, e0) \in Int
    BY <1>1, <1>3, DotIsInt
  <2> QED BY <2>1, <2>2
<1>6. Congruent(d1, dg + dw, q) /\ Congruent(dg, du + de, q) /\ Congruent(du, dv, q)
  <2>1. Congruent(Dot(c1, y), Dot(g, y) + Dot(w, y), q)
    BY <1>1, DotOfSum
  <2>2. Congruent(Dot(g, y), Dot(u, y) + Dot(e1, y), q)
    BY <1>1, <1>2, <1>3, DotOfSum
  <2>3. Congruent(Dot(u, y), Dot(v, y), q)
    BY <1>1, <1>3, <1>4, DotCongruent
  <2> QED BY <1>5, <2>1, <2>2, <2>3
<1>7. dv = ds
  <2>1. AreAdjoint(v, y, s, t, S, L, M)
    BY <1>1, <1>2, <1>3 DEF AreAdjoint
  <2> QED BY <1>5, <2>1, AdjointDots
<1>8. Congruent(d0, dt + dk, q) /\ Congruent(dt, ds, q) /\ Congruent(dk, df, q)
  <2>1. Congruent(Dot(c0, k), Dot(t, k) + Dot(e0, k), q)
    BY <1>1, <1>2, <1>3, DotOfSum
  <2>2. Congruent(Dot(k, t), Dot(s, t), q) /\ Congruent(Dot(k, e0), Dot(s, e0), q)
    <3>1. Congruent(Dot(k, t), Dot(s, t), q)
      BY <1>1, <1>3, DotCongruent
    <3>2. Congruent(Dot(k, e0), Dot(s, e0), q)
      BY <1>1, <1>3, DotCongruent
    <3> QED BY <3>1, <3>2
  <2>3. Dot(k, t) = Dot(t, k)
    <3>1. AreVectors(k, t, M)
      BY <1>1, <1>3 DEF AreVectors
    <3> QED BY <3>1, DotSwap
  <2>4. Dot(k, e0) = Dot(e0, k)
    <3>1. AreVectors(k, e0, M)
      BY <1>1 DEF AreVectors
    <3> QED BY <3>1, DotSwap
  <2> QED BY <1>5, <2>1, <2>2, <2>3, <2>4
<1>9. Congruent(d1 - d0, ((ds + de) + dw) - (ds + df), q)
  <2>1. Congruent(d1, (ds + de) + dw, q)
    <3>1. Congruent(du, ds, q)
      BY <1>6, <1>7
    <3>2. Congruent(dg, ds + de, q)
      BY <1>6, <3>1, CongruentSum
    <3>3. ds + de \in Int
      OBVIOUS
    <3> QED BY <1>6, <3>2, <3>3, CongruentSum
  <2>2. Congruent(d0, ds + df, q)
    <3>1. Congruent(dt + dk, ds + df, q)
      BY <1>8, CongruentAdd
    <3>2. dt + dk \in Int /\ ds + df \in Int
      OBVIOUS
    <3> QED BY <1>8, <3>1, <3>2, CongruentTrans
  <2>3. (ds + de) + dw \in Int /\ ds + df \in Int
    OBVIOUS
  <2> QED BY <2>1, <2>2, <2>3, CongruentSub
<1>10. ((ds + de) + dw) - (ds + df) = (de - df) + dw
  OBVIOUS
<1>11. Dot(c0, k) = Dot(k, c0)
  <2>1. AreVectors(c0, k, M)
    BY <1>1 DEF AreVectors
  <2> QED BY <2>1, DotSwap
<1>12. Dot(e1, y) = Dot(y, e1)
  <2>1. AreVectors(e1, y, L)
    BY <1>1 DEF AreVectors
  <2> QED BY <2>1, DotSwap
<1> QED BY <1>5, <1>9, <1>10, <1>11, <1>12

-----------------------------------------------------------------------------
(* Polynomials modulo x^n + 1 *)

\* A permutation of D and its inverse.
AreInverse(s, t, D) ==
  s \in [D -> D] /\ t \in [D -> D] /\ \A x \in D : s[t[x]] = x /\ t[s[x]] = x

\* A sum does not depend on how its terms are numbered.
LEMMA SumReindex ==
  ASSUME NEW D, IsFiniteSet(D), NEW s, NEW t, AreInverse(s, t, D), NEW f, NEW g,
         \A x \in D : f[x] \in Int /\ g[x] = f[s[x]]
  PROVE  SumFunctionOnSet(g, D) = SumFunctionOnSet(f, D)
<1> DEFINE a == [x \in D |-> [y \in D |-> IF y = s[x] THEN f[y] ELSE 0]]
           b == [y \in D |-> [x \in D |-> IF y = s[x] THEN f[y] ELSE 0]]
<1>0. \A x \in D : s[x] \in D /\ t[x] \in D /\ s[t[x]] = x /\ t[s[x]] = x
  BY DEF AreInverse
<1>1. AreTransposed(a, b, D, D)
  BY DEF AreTransposed
<1>2. AreRowSums(g, a, D, D)
  <2>1. ASSUME NEW x \in D PROVE g[x] = SumFunctionOnSet(a[x], D)
    <3>1. PICK u : u = a[x]
      OBVIOUS
    <3>2. \A y \in D : u[y] = IF y = s[x] THEN f[y] ELSE 0
      BY <3>1
    <3>3. s[x] \in D /\ u[s[x]] \in Int /\ u[s[x]] = f[s[x]] /\ \A y \in D : y # s[x] => u[y] = 0
      BY <1>0, <3>2
    <3>4. SumFunctionOnSet(u, D) = u[s[x]]
      BY <3>3, SumSingle
    <3> HIDE DEF a
    <3> QED BY <3>1, <3>3, <3>4
  <2> HIDE DEF a
  <2> QED BY <2>1 DEF AreRowSums
<1>3. AreRowSums(f, b, D, D)
  <2>1. ASSUME NEW y \in D PROVE f[y] = SumFunctionOnSet(b[y], D)
    <3>1. PICK u : u = b[y]
      OBVIOUS
    <3>2. \A x \in D : u[x] = IF y = s[x] THEN f[y] ELSE 0
      BY <3>1
    <3>3. t[y] \in D /\ u[t[y]] \in Int /\ u[t[y]] = f[y] /\ \A x \in D : x # t[y] => u[x] = 0
      BY <1>0, <3>2
    <3>4. SumFunctionOnSet(u, D) = u[t[y]]
      BY <3>3, SumSingle
    <3> HIDE DEF b
    <3> QED BY <3>1, <3>3, <3>4
  <2> HIDE DEF b
  <2> QED BY <2>1 DEF AreRowSums
<1> HIDE DEF a, b
<1> QED BY <1>1, <1>2, <1>3, SumExchange

-----------------------------------------------------------------------------
(* Products of polynomials modulo x^n + 1 *)

\* The coefficient that comes to place i when x^j is multiplied, and its sign.
Back(i, j, n) == IF j <= i THEN i - j ELSE i - j + n
Turn(i, j) == IF j <= i THEN 1 ELSE -1

\* What is done to the indices is undone.
Ahead(k, j, n) == IF k + j < n THEN k + j ELSE k + j - n

\* Indices stay in their range, and Back from i is its own inverse.
LEMMA BackTwice ==
  ASSUME NEW n \in Nat, NEW i \in 0..(n - 1), NEW j \in 0..(n - 1)
  PROVE  /\ Back(i, j, n) \in 0..(n - 1) /\ Turn(i, j) \in Int
         /\ Back(i, Back(i, j, n), n) = j /\ Turn(i, Back(i, j, n)) = Turn(i, j)
BY DEF Back, Turn

\* Back by j is the inverse of Ahead by j.
LEMMA BackAhead ==
  ASSUME NEW n \in Nat, NEW k \in 0..(n - 1), NEW j \in 0..(n - 1)
  PROVE  /\ Ahead(k, j, n) \in 0..(n - 1)
         /\ Back(Ahead(k, j, n), j, n) = k /\ Ahead(Back(k, j, n), j, n) = k
BY DEF Back, Ahead

\* Two steps back are one.
LEMMA BackBy ==
  ASSUME NEW n \in Nat, NEW i \in 0..(n - 1), NEW j \in 0..(n - 1), NEW m \in 0..(n - 1),
         NEW k, k = Back(m, j, n), NEW b, b = Back(i, j, n)
  PROVE  /\ Back(b, k, n) = Back(i, m, n)
         /\ Turn(i, j) * Turn(b, k) = Turn(i, m) * Turn(m, j)
<1>1. k = (IF j <= m THEN m - j ELSE m - j + n) /\ b = (IF j <= i THEN i - j ELSE i - j + n)
  BY DEF Back
<1>2. k \in Int /\ b \in Int
  BY <1>1
<1>3. Back(b, k, n) = Back(i, m, n)
  BY <1>1, <1>2 DEF Back
<1>4. Turn(i, j) * Turn(b, k) = Turn(i, m) * Turn(m, j)
  BY <1>1, <1>2 DEF Turn
<1> QED BY <1>3, <1>4

\* The remainder by which the code finds the coefficient.
LEMMA BackRemainder ==
  ASSUME NEW n \in Nat, NEW i \in 0..(n - 1), NEW j \in 0..(n - 1)
  PROVE  (i - j) % n = Back(i, j, n)
<1>1. CASE j <= i
  <2>1. i - j \in 0..(n - 1) /\ 0 \in Int /\ (n * 0) + (i - j) = i - j
    BY <1>1
  <2>2. ((n * 0) + (i - j)) % n = i - j
    BY <2>1, DivisionUnique
  <2> QED BY <1>1, <2>1, <2>2 DEF Back
<1>2. CASE ~(j <= i)
  <2>1. i - j + n \in 0..(n - 1) /\ -1 \in Int /\ (n * (-1)) + (i - j + n) = i - j
    BY <1>2
  <2>2. ((n * (-1)) + (i - j + n)) % n = i - j + n
    BY <2>1, DivisionUnique
  <2> QED BY <1>2, <2>1, <2>2 DEF Back
<1> QED BY <1>1, <1>2

\* The row of coefficients that place i of a product is the inner product with, and the
\* matrix of these rows.
Rot(v, n) == [i \in 0..(n - 1) |-> [j \in 0..(n - 1) |-> Turn(i, j) * v[Back(i, j, n)]]]
PolyProd(v, w, n) == Times(Rot(v, n), w, 0..(n - 1))

\* Polynomials of n coefficients.
Polys(n) == [0..(n - 1) -> Int]

\* Their matrices are matrices.
LEMMA RotType ==
  ASSUME NEW n \in Nat, NEW v \in Polys(n)
  PROVE  /\ IsFiniteSet(0..(n - 1)) /\ Rot(v, n) \in [0..(n - 1) -> Polys(n)]
         /\ \A i, j \in 0..(n - 1) : Rot(v, n)[i][j] = Turn(i, j) * v[Back(i, j, n)]
<1>1. IsFiniteSet(0..(n - 1))
  BY FS_Interval
<1>2. ASSUME NEW i \in 0..(n - 1), NEW j \in 0..(n - 1)
      PROVE  Turn(i, j) * v[Back(i, j, n)] \in Int
  <2>1. Back(i, j, n) \in 0..(n - 1) /\ Turn(i, j) \in Int
    BY BackTwice
  <2>2. v[Back(i, j, n)] \in Int
    BY <2>1 DEF Polys
  <2> QED BY <2>1, <2>2
<1> QED BY <1>1, <1>2 DEF Rot, Polys

\* A product is a polynomial.
LEMMA PolyProdType ==
  ASSUME NEW n \in Nat, NEW v \in Polys(n), NEW w \in Polys(n)
  PROVE  IsProduct(PolyProd(v, w, n), Rot(v, n), w, 0..(n - 1))
<1>1. PICK D : D = 0..(n - 1)
  OBVIOUS
<1>2. IsFiniteSet(D) /\ Rot(v, n) \in [D -> [D -> Int]] /\ w \in [D -> Int]
  BY <1>1, RotType DEF Polys
<1>3. IsProduct(Times(Rot(v, n), w, D), Rot(v, n), w, D)
  BY <1>2, TimesType
<1> QED BY <1>1, <1>3 DEF PolyProd

\* It does not depend on the order of the factors.
LEMMA PolyCommutes ==
  ASSUME NEW n \in Nat, NEW v \in Polys(n), NEW w \in Polys(n)
  PROVE  PolyProd(v, w, n) = PolyProd(w, v, n)
<1>1. PICK D : D = 0..(n - 1)
  OBVIOUS
<1>2. PICK A, B : A = Rot(v, n) /\ B = Rot(w, n)
  OBVIOUS
<1>3. /\ IsFiniteSet(D) /\ A \in [D -> [D -> Int]] /\ B \in [D -> [D -> Int]]
      /\ v \in [D -> Int] /\ w \in [D -> Int]
      /\ \A i, j \in D : /\ A[i][j] = Turn(i, j) * v[Back(i, j, n)]
                         /\ B[i][j] = Turn(i, j) * w[Back(i, j, n)]
  BY <1>1, <1>2, RotType DEF Polys
<1>4. ASSUME NEW i \in D PROVE Dot(A[i], w) = Dot(B[i], v)
  <2> DEFINE f == [j \in D |-> A[i][j] * w[j]]
             g == [j \in D |-> B[i][j] * v[j]]
             s == [j \in D |-> Back(i, j, n)]
  <2>1. AreInverse(s, s, D)
    <3>1. ASSUME NEW j \in D PROVE Back(i, j, n) \in D /\ Back(i, Back(i, j, n), n) = j
      BY <1>1, BackTwice
    <3> QED BY <3>1 DEF AreInverse
  <2>2. ASSUME NEW j \in D PROVE f[j] \in Int /\ g[j] = f[s[j]]
    <3>1. PICK k : k = Back(i, j, n)
      OBVIOUS
    <3>2. k \in D /\ Back(i, k, n) = j /\ Turn(i, k) = Turn(i, j) /\ Turn(i, j) \in Int
      BY <1>1, <3>1, BackTwice
    <3>3. PICK x, y, z \in Int : x = Turn(i, j) /\ y = v[j] /\ z = w[k]
      BY <1>3, <3>2
    <3>4. B[i][j] = x * z /\ A[i][k] = x * y
      BY <1>3, <3>1, <3>2, <3>3
    <3>5. g[j] = (x * z) * y /\ f[k] = (x * y) * z /\ s[j] = k
      BY <3>1, <3>2, <3>3, <3>4
    <3>6. (x * z) * y = (x * y) * z
      OBVIOUS
    <3>7. A[i][j] \in Int /\ w[j] \in Int
      BY <1>3
    <3> QED BY <3>5, <3>6, <3>7
  <2>3. A[i] \in [D -> Int] /\ B[i] \in [D -> Int]
    BY <1>3
  <2>4. Dot(A[i], w) = SumFunctionOnSet(f, D) /\ Dot(B[i], v) = SumFunctionOnSet(g, D)
    <3>1. Dot(A[i], w) = SumFunctionOnSet(f, D)
      BY <1>3, <2>3, DotIsSum
    <3>2. Dot(B[i], v) = SumFunctionOnSet(g, D)
      BY <1>3, <2>3, DotIsSum
    <3> QED BY <3>1, <3>2
  <2> HIDE DEF f, g, s
  <2>5. SumFunctionOnSet(g, D) = SumFunctionOnSet(f, D)
    BY <1>3, <2>1, <2>2, SumReindex
  <2> QED BY <2>4, <2>5
<1> QED BY <1>1, <1>2, <1>4, Zenon DEF PolyProd, Times

\* The matrix of a product is the product of the matrices.
LEMMA RotOfProduct ==
  ASSUME NEW n \in Nat, NEW s \in Polys(n), NEW a \in Polys(n)
  PROVE  IsMatProduct(Rot(PolyProd(s, a, n), n), Rot(s, n), Rot(a, n),
                      0..(n - 1), 0..(n - 1), 0..(n - 1))
<1>0. PICK D : D = 0..(n - 1)
  OBVIOUS
<1>1. PICK p, S, A, P : p = PolyProd(s, a, n) /\ S = Rot(s, n) /\ A = Rot(a, n) /\ P = Rot(p, n)
  OBVIOUS
<1>2. p \in Polys(n) /\ \A i \in D : p[i] = Dot(S[i], a)
  <2>1. IsProduct(p, S, a, D)
    BY <1>0, <1>1, PolyProdType
  <2> QED BY <1>0, <2>1 DEF IsProduct, Polys
<1>3. /\ IsFiniteSet(D) /\ S \in [D -> [D -> Int]] /\ A \in [D -> [D -> Int]] /\ P \in [D -> [D -> Int]]
      /\ s \in [D -> Int] /\ a \in [D -> Int] /\ p \in [D -> Int]
      /\ \A i, j \in D : /\ S[i][j] = Turn(i, j) * s[Back(i, j, n)]
                         /\ A[i][j] = Turn(i, j) * a[Back(i, j, n)]
                         /\ P[i][j] = Turn(i, j) * p[Back(i, j, n)]
  BY <1>0, <1>1, <1>2, RotType DEF Polys
<1>4. PICK T : T = Flip(A, D, D)
  OBVIOUS
<1>5. T \in [D -> [D -> Int]] /\ \A i, j \in D : T[j][i] = A[i][j]
  BY <1>3, <1>4 DEF Flip
<1>6. ASSUME NEW i \in D, NEW j \in D PROVE P[i][j] = Dot(T[j], S[i])
  <2>1. PICK b : b = Back(i, j, n)
    OBVIOUS
  <2>2. b \in D /\ Turn(i, j) \in Int
    BY <1>0, <2>1, BackTwice
  <2> DEFINE e == [k \in D |-> S[b][k] * a[k]]
             f == [k \in D |-> Turn(i, j) * e[k]]
             g == [m \in D |-> T[j][m] * S[i][m]]
             to == [m \in D |-> Back(m, j, n)]
             from == [k \in D |-> Ahead(k, j, n)]
  <2>3. AreInverse(to, from, D)
    <3>1. ASSUME NEW k \in D
          PROVE  /\ Back(k, j, n) \in D /\ Ahead(k, j, n) \in D
                 /\ Back(Ahead(k, j, n), j, n) = k /\ Ahead(Back(k, j, n), j, n) = k
      BY <1>0, BackAhead, BackTwice
    <3> QED BY <3>1 DEF AreInverse
  <2>4. ASSUME NEW k \in D PROVE e[k] \in Int /\ f[k] = Turn(i, j) * e[k] /\ f[k] \in Int
    <3>1. S[b][k] \in Int /\ a[k] \in Int
      BY <1>3, <2>2
    <3>2. e[k] \in Int
      BY <3>1
    <3> QED BY <2>2, <3>2
  <2>5. ASSUME NEW m \in D PROVE g[m] = f[to[m]]
    <3>1. PICK k : k = Back(m, j, n)
      OBVIOUS
    <3>2. k \in D /\ Turn(m, j) \in Int /\ Turn(i, m) \in Int /\ Turn(b, k) \in Int
          /\ Back(i, m, n) \in D
      BY <1>0, <2>2, <3>1, BackTwice
    <3>3. Back(b, k, n) = Back(i, m, n) /\ Turn(i, j) * Turn(b, k) = Turn(i, m) * Turn(m, j)
      BY <1>0, <2>1, <3>1, BackBy
    <3>4. PICK x, y, z, w, c, d \in Int :
            /\ x = Turn(i, j) /\ y = Turn(b, k) /\ z = Turn(i, m) /\ w = Turn(m, j)
            /\ c = s[Back(i, m, n)] /\ d = a[k]
      BY <1>3, <2>2, <3>2
    <3>5. S[b][k] = y * c
      <4>1. S[b][k] = Turn(b, k) * s[Back(b, k, n)]
        BY <1>3, <2>2, <3>2
      <4> QED BY <3>3, <3>4, <4>1
    <3>6. S[i][m] = z * c
      BY <1>3, <3>4
    <3>9. T[j][m] = w * d
      <4>1. A[m][j] = Turn(m, j) * a[Back(m, j, n)] /\ T[j][m] = A[m][j]
        BY <1>3, <1>5
      <4> QED BY <3>1, <3>4, <4>1
    <3>10. f[k] = x * ((y * c) * d)
      BY <3>2, <3>4, <3>5
    <3>11. g[m] = (w * d) * (z * c) /\ to[m] = k
      BY <3>1, <3>6, <3>9
    <3>7. x * ((y * c) * d) = (x * y) * (c * d) /\ (w * d) * (z * c) = (z * w) * (c * d)
      OBVIOUS
    <3>8. x * y = z * w
      BY <3>3, <3>4
    <3> HIDE DEF f, g, to
    <3> QED BY <3>7, <3>8, <3>10, <3>11
  <2>6. S[b] \in [D -> Int] /\ T[j] \in [D -> Int] /\ S[i] \in [D -> Int]
    BY <1>3, <1>5, <2>2
  <2>7. Dot(S[b], a) = SumFunctionOnSet(e, D)
    <3>1. PICK u : u = S[b]
      OBVIOUS
    <3>2. u \in [D -> Int] /\ e = [k \in D |-> u[k] * a[k]] /\ a \in [D -> Int] /\ IsFiniteSet(D)
      BY <1>3, <2>6, <3>1
    <3> HIDE DEF e, f, g, to, from
    <3> QED BY <3>1, <3>2, DotIsSum
  <2>8. Dot(T[j], S[i]) = SumFunctionOnSet(g, D)
    <3>1. PICK u, v : u = T[j] /\ v = S[i]
      OBVIOUS
    <3>2. u \in [D -> Int] /\ v \in [D -> Int] /\ g = [m \in D |-> u[m] * v[m]] /\ IsFiniteSet(D)
      BY <1>3, <2>6, <3>1
    <3> HIDE DEF e, f, g, to, from
    <3> QED BY <3>1, <3>2, DotIsSum
  <2>9. P[i][j] = Turn(i, j) * Dot(S[b], a)
    <3>1. P[i][j] = Turn(i, j) * p[b]
      BY <1>3, <2>1
    <3>2. p[b] = Dot(S[b], a)
      BY <1>2, <2>2
    <3> QED BY <3>1, <3>2
  <2> HIDE DEF e, f, g, to, from
  <2>10. SumFunctionOnSet(f, D) = Turn(i, j) * SumFunctionOnSet(e, D)
    BY <1>3, <2>2, <2>4, SumScaled
  <2>11. SumFunctionOnSet(g, D) = SumFunctionOnSet(f, D)
    BY <1>3, <2>3, <2>4, <2>5, SumReindex
  <2> QED BY <2>7, <2>8, <2>9, <2>10, <2>11
<1>7. ASSUME NEW i \in D PROVE P[i] = Times(T, S[i], D)
  <2>1. P[i] = [j \in D |-> P[i][j]]
    BY <1>3
  <2> QED BY <1>6, <2>1 DEF Times
<1> QED BY <1>0, <1>1, <1>3, <1>4, <1>7 DEF IsMatProduct

\* Multiplication is associative.
LEMMA PolyAssociates ==
  ASSUME NEW n \in Nat, NEW s \in Polys(n), NEW a \in Polys(n), NEW r \in Polys(n)
  PROVE  PolyProd(PolyProd(s, a, n), r, n) = PolyProd(s, PolyProd(a, r, n), n)
<1>1. PICK D : D = 0..(n - 1)
  OBVIOUS
<1>2. PICK S, A, P : S = Rot(s, n) /\ A = Rot(a, n) /\ P = Rot(PolyProd(s, a, n), n)
  OBVIOUS
<1>3. IsMatProduct(P, S, A, D, D, D)
  BY <1>1, <1>2, RotOfProduct
<1>4. r \in [D -> Int]
  BY <1>1 DEF Polys
<1>5. Times(P, r, D) = Times(S, Times(A, r, D), D)
  BY <1>3, <1>4, MatProductTimes
<1> QED BY <1>1, <1>2, <1>5 DEF PolyProd

\* A coefficient of a product of polynomials.
LEMMA PolyAt ==
  ASSUME NEW n \in Nat, NEW v \in Polys(n), NEW w \in Polys(n), NEW i \in 0..(n - 1),
         NEW p, p = PolyProd(v, w, n)
  PROVE  /\ p \in Polys(n) /\ Rot(v, n)[i] \in Polys(n) /\ Rot(w, n)[i] \in Polys(n)
         /\ p[i] = Dot(Rot(v, n)[i], w) /\ p[i] = Dot(Rot(w, n)[i], v)
<1>1. IsProduct(p, Rot(v, n), w, 0..(n - 1)) /\ IsProduct(PolyProd(w, v, n), Rot(w, n), v, 0..(n - 1))
  BY PolyProdType
<1>2. PolyProd(w, v, n) = p
  BY PolyCommutes
<1>3. Rot(v, n) \in [0..(n - 1) -> Polys(n)] /\ Rot(w, n) \in [0..(n - 1) -> Polys(n)]
  BY RotType
<1> QED BY <1>1, <1>2, <1>3 DEF IsProduct, Polys

\* A product with a sum.
LEMMA PolyOfSum ==
  ASSUME NEW q \in Nat, NEW n \in Nat, NEW w \in Polys(n), NEW u \in Polys(n), NEW v \in Polys(n),
         NEW r \in Polys(n), IsSumOf(w, u, v, q, 0..(n - 1)), NEW i \in 0..(n - 1)
  PROVE  Congruent(PolyProd(w, r, n)[i], PolyProd(u, r, n)[i] + PolyProd(v, r, n)[i], q)
<1>1. PICK D : D = 0..(n - 1)
  OBVIOUS
<1>2. PICK z : z = Rot(r, n)[i]
  OBVIOUS
<1>3. /\ IsFiniteSet(D) /\ z \in [D -> Int] /\ w \in [D -> Int] /\ u \in [D -> Int] /\ v \in [D -> Int]
      /\ IsSumOf(w, u, v, q, D)
  BY <1>1, <1>2, RotType, FS_Interval DEF Polys
<1>4. Congruent(Dot(w, z), Dot(u, z) + Dot(v, z), q)
  BY <1>3, DotOfSum
<1>5. AreVectors(z, w, D) /\ AreVectors(z, u, D) /\ AreVectors(z, v, D)
  BY <1>3 DEF AreVectors
<1>6. Dot(z, w) = Dot(w, z) /\ Dot(z, u) = Dot(u, z) /\ Dot(z, v) = Dot(v, z)
  BY <1>5, DotSwap
<1>7. PolyProd(w, r, n)[i] = Dot(z, w) /\ PolyProd(u, r, n)[i] = Dot(z, u) /\ PolyProd(v, r, n)[i] = Dot(z, v)
  BY <1>2, PolyAt
<1> QED BY <1>4, <1>6, <1>7

\* A product with a congruent polynomial.
LEMMA PolyCongruent ==
  ASSUME NEW q \in Nat, NEW n \in Nat, NEW b \in Polys(n), NEW k \in Polys(n), NEW s \in Polys(n),
         \A j \in 0..(n - 1) : Congruent(k[j], s[j], q), NEW i \in 0..(n - 1)
  PROVE  Congruent(PolyProd(b, k, n)[i], PolyProd(b, s, n)[i], q)
<1>1. PICK D : D = 0..(n - 1)
  OBVIOUS
<1>2. PICK z : z = Rot(b, n)[i]
  OBVIOUS
<1>3. /\ IsFiniteSet(D) /\ z \in [D -> Int] /\ k \in [D -> Int] /\ s \in [D -> Int]
      /\ \A j \in D : Congruent(k[j], s[j], q)
  BY <1>1, <1>2, RotType, FS_Interval DEF Polys
<1>4. Congruent(Dot(k, z), Dot(s, z), q)
  BY <1>3, DotCongruent
<1>5. AreVectors(z, k, D) /\ AreVectors(z, s, D)
  BY <1>3 DEF AreVectors
<1>6. Dot(z, k) = Dot(k, z) /\ Dot(z, s) = Dot(s, z)
  BY <1>5, DotSwap
<1>7. PolyProd(b, k, n)[i] = Dot(z, k) /\ PolyProd(b, s, n)[i] = Dot(z, s)
  BY <1>2, PolyAt
<1> QED BY <1>4, <1>6, <1>7

\* Every row of K is the one of P plus the one of E, modulo q.
AreRowsOf(K, P, E, q, n, R) ==
  /\ K \in [R -> Polys(n)] /\ P \in [R -> Polys(n)] /\ E \in [R -> Polys(n)]
  /\ \A k \in R : IsSumOf(K[k], P[k], E[k], q, 0..(n - 1))

\* The rows of X times the polynomial r; and coefficient i of every row.
RowsTimes(X, r, n, R) == [k \in R |-> PolyProd(X[k], r, n)]
Coefficients(X, i, R) == [k \in R |-> X[k][i]]

\* What the masks of the rows of a ciphertext sum up to.
LEMMA MasksSum ==
  ASSUME NEW n \in Nat, NEW R, IsFiniteSet(R), NEW S \in [R -> Polys(n)], NEW a \in Polys(n),
         NEW r \in Polys(n), NEW y \in [R -> Int], NEW i \in 0..(n - 1),
         NEW U, U = RowsTimes(RowsTimes(S, a, n, R), r, n, R),
         NEW s, s = Times(Flip(S, R, 0..(n - 1)), y, 0..(n - 1))
  PROVE  /\ s \in Polys(n) /\ RowsTimes(S, a, n, R) \in [R -> Polys(n)] /\ U \in [R -> Polys(n)]
         /\ Dot(Coefficients(U, i, R), y) = PolyProd(PolyProd(a, r, n), s, n)[i]
<1>1. PICK D : D = 0..(n - 1)
  OBVIOUS
<1>2. PICK b : b = PolyProd(a, r, n)
  OBVIOUS
<1>3. PICK v : v = Rot(b, n)[i]
  OBVIOUS
<1>4. b \in Polys(n) /\ v \in Polys(n)
  <2>1. b \in Polys(n)
    BY <1>2, PolyAt
  <2> QED BY <1>3, <2>1, PolyAt
<1>5. IsFiniteSet(D) /\ S \in [R -> [D -> Int]] /\ v \in [D -> Int]
  BY <1>1, <1>4, FS_Interval DEF Polys
<1>6. s \in [D -> Int]
  <2>1. PICK T : T = Flip(S, R, D)
    OBVIOUS
  <2>2. T \in [D -> [R -> Int]]
    BY <1>5, <2>1, FlipType
  <2>3. IsProduct(s, T, y, D)
    BY <1>1, <2>1, <2>2, TimesType
  <2> QED BY <2>3 DEF IsProduct
<1>7. ASSUME NEW k \in R
      PROVE  /\ PolyProd(S[k], a, n) \in Polys(n) /\ PolyProd(PolyProd(S[k], a, n), r, n) \in Polys(n)
             /\ PolyProd(PolyProd(S[k], a, n), r, n)[i] = Dot(S[k], v)
  <2>1. S[k] \in Polys(n)
    OBVIOUS
  <2>2. PICK p : p = PolyProd(S[k], a, n)
    OBVIOUS
  <2>3. p \in Polys(n)
    BY <2>1, <2>2, PolyAt
  <2>4. PICK t : t = PolyProd(p, r, n)
    OBVIOUS
  <2>5. t \in Polys(n)
    BY <2>3, <2>4, PolyAt
  <2>6. t = PolyProd(S[k], b, n)
    BY <1>2, <2>1, <2>2, <2>4, PolyAssociates
  <2>7. t[i] = Dot(v, S[k])
    BY <1>3, <1>4, <2>1, <2>6, PolyAt
  <2>8. AreVectors(v, S[k], D)
    BY <1>5 DEF AreVectors
  <2>9. Dot(v, S[k]) = Dot(S[k], v)
    BY <2>8, DotSwap
  <2> QED BY <2>2, <2>3, <2>4, <2>5, <2>7, <2>9
<1>8. /\ RowsTimes(S, a, n, R) \in [R -> Polys(n)] /\ U \in [R -> Polys(n)]
      /\ \A k \in R : U[k] = PolyProd(PolyProd(S[k], a, n), r, n)
  BY <1>7 DEF RowsTimes
<1>9. Coefficients(U, i, R) = Times(S, v, R)
  BY <1>7, <1>8 DEF Coefficients, Times
<1>10. PICK u : u = Coefficients(U, i, R)
  OBVIOUS
<1>11. AreAdjoint(u, y, s, v, S, R, D)
  BY <1>1, <1>5, <1>9, <1>10 DEF AreAdjoint
<1>12. Dot(u, y) = Dot(s, v)
  BY <1>11, AdjointDots
<1>13. Dot(s, v) = Dot(v, s)
  <2>1. AreVectors(s, v, D)
    BY <1>5, <1>6 DEF AreVectors
  <2> QED BY <2>1, DotSwap
<1>14. s \in Polys(n)
  BY <1>1, <1>6 DEF Polys
<1>15. PolyProd(b, s, n)[i] = Dot(v, s)
  BY <1>3, <1>4, <1>14, PolyAt
<1> QED BY <1>2, <1>8, <1>10, <1>12, <1>13, <1>14, <1>15

\* The columns of such rows are sums, too.
LEMMA ColumnsSum ==
  ASSUME NEW q \in Nat, NEW n \in Nat, NEW R, IsFiniteSet(R), NEW K, NEW P, NEW E,
         AreRowsOf(K, P, E, q, n, R), NEW y \in [R -> Int], NEW i \in 0..(n - 1)
  PROVE  /\ Dot(Coefficients(K, i, R), y) \in Int /\ Dot(Coefficients(P, i, R), y) \in Int
         /\ Dot(Coefficients(E, i, R), y) \in Int
         /\ Congruent(Dot(Coefficients(K, i, R), y),
                      Dot(Coefficients(P, i, R), y) + Dot(Coefficients(E, i, R), y), q)
<1>1. PICK k, p, e : k = Coefficients(K, i, R) /\ p = Coefficients(P, i, R) /\ e = Coefficients(E, i, R)
  OBVIOUS
<1>2. k \in [R -> Int] /\ p \in [R -> Int] /\ e \in [R -> Int] /\ IsSumOf(k, p, e, q, R)
  BY <1>1 DEF AreRowsOf, Coefficients, Polys, IsSumOf
<1>3. Dot(k, y) \in Int /\ Dot(p, y) \in Int /\ Dot(e, y) \in Int
  BY <1>2, DotIsInt
<1>4. Congruent(Dot(k, y), Dot(p, y) + Dot(e, y), q)
  BY <1>2, DotOfSum
<1> QED BY <1>1, <1>3, <1>4

\* Rows that are sums, times a polynomial.
LEMMA RowsOfSum ==
  ASSUME NEW q \in Nat, NEW n \in Nat, NEW R, NEW K, NEW P, NEW E, AreRowsOf(K, P, E, q, n, R),
         NEW r \in Polys(n)
  PROVE  AreRowsOf(RowsTimes(K, r, n, R), RowsTimes(P, r, n, R), RowsTimes(E, r, n, R), q, n, R)
<1>0. /\ K \in [R -> Polys(n)] /\ P \in [R -> Polys(n)] /\ E \in [R -> Polys(n)]
      /\ \A k \in R : IsSumOf(K[k], P[k], E[k], q, 0..(n - 1))
  BY DEF AreRowsOf
<1>1. ASSUME NEW X \in [R -> Polys(n)] PROVE RowsTimes(X, r, n, R) \in [R -> Polys(n)]
  <2>1. ASSUME NEW k \in R PROVE PolyProd(X[k], r, n) \in Polys(n)
    <3>1. X[k] \in Polys(n)
      OBVIOUS
    <3>2. IsProduct(PolyProd(X[k], r, n), Rot(X[k], n), r, 0..(n - 1))
      BY <3>1, PolyProdType
    <3> QED BY <3>2 DEF IsProduct, Polys
  <2> QED BY <2>1 DEF RowsTimes
<1>2. ASSUME NEW k \in R
      PROVE  IsSumOf(PolyProd(K[k], r, n), PolyProd(P[k], r, n), PolyProd(E[k], r, n), q, 0..(n - 1))
  <2>1. K[k] \in Polys(n) /\ P[k] \in Polys(n) /\ E[k] \in Polys(n) /\ IsSumOf(K[k], P[k], E[k], q, 0..(n - 1))
    BY <1>0
  <2> QED BY <2>1, PolyOfSum DEF IsSumOf
<1> QED BY <1>0, <1>1, <1>2 DEF AreRowsOf, RowsTimes

-----------------------------------------------------------------------------
(* Sums of the ring-LWE scheme, and the number closest to 0 *)

\* What went into a ciphertext of ring-LWE and a functional key, modulo q: the public key K
\* of the secret rows S and the noise E, the masked rows C of the plaintext X, the last
\* row, and the key with the sum s of the secret rows.
IsRingCall(C, last, key, X, K, S, E, M, F, a, r, e, s, y, q, n, R) ==
  /\ q \in Nat /\ n \in Nat /\ IsFiniteSet(R) /\ y \in [R -> Int]
  /\ S \in [R -> Polys(n)] /\ a \in Polys(n) /\ r \in Polys(n) /\ e \in Polys(n)
  /\ last \in Polys(n) /\ key \in Polys(n) /\ s = Times(Flip(S, R, 0..(n - 1)), y, 0..(n - 1))
  /\ AreRowsOf(K, RowsTimes(S, a, n, R), E, q, n, R)
  /\ AreRowsOf(M, RowsTimes(K, r, n, R), F, q, n, R)
  /\ AreRowsOf(C, M, X, q, n, R)
  /\ IsSumOf(last, PolyProd(a, r, n), e, q, 0..(n - 1))
  /\ \A j \in 0..(n - 1) : Congruent(key[j], s[j], q)

\* Ring-LWE: every coefficient that decryption computes before it rounds is that of the
\* product with what is encrypted, and of the product with the noise (ring_lwe.c:243-310).
LEMMA RingSum ==
  ASSUME NEW C, NEW last, NEW key, NEW X, NEW K, NEW S, NEW E, NEW M, NEW F, NEW a, NEW r, NEW e,
         NEW s, NEW y, NEW q, NEW n, NEW R,
         IsRingCall(C, last, key, X, K, S, E, M, F, a, r, e, s, y, q, n, R),
         NEW i \in 0..(n - 1),
         NEW G, AreRowsOf(G, RowsTimes(E, r, n, R), F, q, n, R)
  PROVE  /\ Dot(Coefficients(C, i, R), y) \in Int /\ PolyProd(last, key, n)[i] \in Int
         /\ Dot(Coefficients(G, i, R), y) \in Int /\ PolyProd(e, s, n)[i] \in Int
         /\ Dot(Coefficients(X, i, R), y) \in Int
         /\ Congruent(Dot(Coefficients(C, i, R), y) - PolyProd(last, key, n)[i],
                      (Dot(Coefficients(G, i, R), y) - PolyProd(e, s, n)[i])
                        + Dot(Coefficients(X, i, R), y), q)
<1>1. /\ q \in Nat /\ n \in Nat /\ IsFiniteSet(R) /\ y \in [R -> Int]
      /\ S \in [R -> Polys(n)] /\ a \in Polys(n) /\ r \in Polys(n) /\ e \in Polys(n)
      /\ last \in Polys(n) /\ key \in Polys(n) /\ s = Times(Flip(S, R, 0..(n - 1)), y, 0..(n - 1))
  BY DEF IsRingCall
<1>2. PICK T, U, V, W, b : /\ T = RowsTimes(S, a, n, R) /\ U = RowsTimes(T, r, n, R)
                           /\ V = RowsTimes(K, r, n, R) /\ W = RowsTimes(E, r, n, R)
                           /\ b = PolyProd(a, r, n)
  OBVIOUS
<1>3. /\ AreRowsOf(K, T, E, q, n, R) /\ AreRowsOf(M, V, F, q, n, R) /\ AreRowsOf(C, M, X, q, n, R)
      /\ AreRowsOf(G, W, F, q, n, R)
      /\ IsSumOf(last, b, e, q, 0..(n - 1)) /\ \A j \in 0..(n - 1) : Congruent(key[j], s[j], q)
  BY <1>2 DEF IsRingCall
<1>4. AreRowsOf(V, U, W, q, n, R)
  BY <1>1, <1>2, <1>3, RowsOfSum
<1>5. /\ s \in Polys(n) /\ Dot(Coefficients(U, i, R), y) = PolyProd(b, s, n)[i]
  BY <1>1, <1>2, MasksSum
<1>6. PICK dc, dm, dx, dv, df, du, dw, dg :
        /\ dc = Dot(Coefficients(C, i, R), y) /\ dm = Dot(Coefficients(M, i, R), y)
        /\ dx = Dot(Coefficients(X, i, R), y) /\ dv = Dot(Coefficients(V, i, R), y)
        /\ df = Dot(Coefficients(F, i, R), y) /\ du = Dot(Coefficients(U, i, R), y)
        /\ dw = Dot(Coefficients(W, i, R), y) /\ dg = Dot(Coefficients(G, i, R), y)
  OBVIOUS
<1>7. dc \in Int /\ dm \in Int /\ dx \in Int /\ Congruent(dc, dm + dx, q)
  BY <1>1, <1>3, <1>6, ColumnsSum
<1>8. dv \in Int /\ df \in Int /\ Congruent(dm, dv + df, q)
  BY <1>1, <1>3, <1>6, ColumnsSum
<1>9. du \in Int /\ dw \in Int /\ Congruent(dv, du + dw, q)
  BY <1>1, <1>4, <1>6, ColumnsSum
<1>10. dg \in Int /\ Congruent(dg, dw + df, q)
  BY <1>1, <1>3, <1>6, ColumnsSum
<1>11. PICK pl, pb, pe, ps, pt : /\ pl = PolyProd(last, key, n)[i] /\ pb = PolyProd(b, key, n)[i]
                                 /\ pe = PolyProd(e, key, n)[i] /\ ps = PolyProd(b, s, n)[i]
                                 /\ pt = PolyProd(e, s, n)[i]
  OBVIOUS
<1>12. b \in Polys(n)
  BY <1>1, <1>2, PolyAt
<1>13. pl \in Int /\ pb \in Int /\ pe \in Int /\ ps \in Int /\ pt \in Int
  <2>1. ASSUME NEW v \in Polys(n), NEW w \in Polys(n) PROVE PolyProd(v, w, n)[i] \in Int
    <3>1. PolyProd(v, w, n) \in Polys(n)
      BY <1>1, PolyAt
    <3> QED BY <3>1 DEF Polys
  <2> QED BY <1>1, <1>5, <1>11, <1>12, <2>1
<1>14. Congruent(pl, pb + pe, q)
  BY <1>1, <1>3, <1>11, <1>12, PolyOfSum
<1>15. Congruent(pb, ps, q) /\ Congruent(pe, pt, q)
  <2>1. Congruent(pb, ps, q)
    BY <1>1, <1>3, <1>5, <1>11, <1>12, PolyCongruent
  <2>2. Congruent(pe, pt, q)
    BY <1>1, <1>3, <1>5, <1>11, PolyCongruent
  <2> QED BY <2>1, <2>2
<1>16. du = ps
  BY <1>5, <1>6, <1>11
<1>17. Congruent(dc, ((du + dw) + df) + dx, q)
  <2>1. Congruent(dm, (du + dw) + df, q)
    <3>1. du + dw \in Int
      BY <1>9
    <3> QED BY <1>1, <1>7, <1>8, <1>9, <3>1, CongruentSum
  <2>2. (du + dw) + df \in Int
    BY <1>8, <1>9
  <2> QED BY <1>1, <1>7, <2>1, <2>2, CongruentSum
<1>18. Congruent(pl, ps + pt, q)
  <2>1. Congruent(pb + pe, ps + pt, q)
    BY <1>1, <1>13, <1>15, CongruentAdd
  <2>2. pb + pe \in Int /\ ps + pt \in Int
    BY <1>13
  <2> QED BY <1>1, <1>13, <1>14, <2>1, <2>2, CongruentTrans
<1>19. Congruent(dc - pl, (dg - pt) + dx, q)
  <2>1. Congruent(dw + df, dg, q)
    <3>1. dw + df \in Int
      BY <1>8, <1>9
    <3> QED BY <1>1, <1>10, <3>1, CongruentSym
  <2>2. PICK z \in Int : z = dw + df
    BY <1>8, <1>9
  <2>3. PICK o \in Int : o = dx - pt
    BY <1>7, <1>13
  <2>4. Congruent(dc - pl, z + o, q)
    <3>1. ((((du + dw) + df) + dx) - (ps + pt)) = z + o
      BY <1>7, <1>8, <1>9, <1>13, <1>16, <2>2, <2>3
    <3>2. ((du + dw) + df) + dx \in Int /\ ps + pt \in Int
      BY <1>7, <1>8, <1>9, <1>13
    <3>3. Congruent(dc - pl, (((du + dw) + df) + dx) - (ps + pt), q)
      BY <1>1, <1>7, <1>13, <1>17, <1>18, <3>2, CongruentSub
    <3> QED BY <3>1, <3>3
  <2>5. dc - pl \in Int
    BY <1>7, <1>13
  <2>6. Congruent(dc - pl, dg + o, q)
    BY <1>1, <1>10, <2>1, <2>2, <2>3, <2>4, <2>5, CongruentSum
  <2>7. dg + o = (dg - pt) + dx
    BY <1>7, <1>10, <1>13, <2>3
  <2> QED BY <2>6, <2>7
<1> QED BY <1>6, <1>7, <1>10, <1>11, <1>13, <1>19

-----------------------------------------------------------------------------
(* Rounding *)

\* The number that is closest to 0, of those that have the remainder d.
CentreOf(d, q) == IF d > q \div 2 THEN d - q ELSE d

\* D is small next to q, and z is congruent to it.
IsCentre(D, z, q) == /\ q \in Nat /\ D \in Int /\ z \in Int /\ Congruent(z, D, q)
                     /\ 2 * D < q /\ -2 * D < q

\* A number that is small next to q is found from its remainder.
LEMMA CentredNumber ==
  ASSUME NEW q, NEW D, NEW z, IsCentre(D, z, q) PROVE CentreOf(z % q, q) = D
<1>0. /\ q \in Nat /\ D \in Int /\ z \in Int /\ Congruent(z, D, q)
      /\ 2 * D < q /\ -2 * D < q
  BY DEF IsCentre
<1>d. PICK d : d = z % q
  OBVIOUS
<1>1. q # 0
  BY <1>0
<1>2. d = D % q
  BY <1>0, <1>1, <1>d, SameRemainder
<1>3. D % q = IF D >= 0 THEN D ELSE D + q
  <2>1. CASE D >= 0
    <3>1. D \in 0..(q - 1) /\ 0 \in Int /\ (q * 0) + D = D
      BY <1>0, <2>1
    <3>2. ((q * 0) + D) % q = D
      BY <1>0, <3>1, DivisionUnique
    <3> QED BY <2>1, <3>1, <3>2
  <2>2. CASE ~(D >= 0)
    <3>1. D + q \in 0..(q - 1) /\ -1 \in Int /\ (q * (-1)) + (D + q) = D
      BY <1>0, <2>2
    <3>2. ((q * (-1)) + (D + q)) % q = D + q
      BY <1>0, <3>1, DivisionUnique
    <3> QED BY <2>2, <3>1, <3>2
  <2> QED BY <2>1, <2>2
<1>4. PICK h \in Int : h = q \div 2 /\ 2 * h <= q /\ q <= 2 * h + 1
  BY <1>0
<1>5. d = IF D >= 0 THEN D ELSE D + q
  BY <1>2, <1>3
<1> QED BY <1>0, <1>4, <1>5, <1>d DEF CentreOf

\* A quotient that is known up to less than a divisor.
LEMMA QuotientIs ==
  ASSUME NEW n \in Nat, n # 0, NEW c \in Int, NEW r \in 0..(n - 1), NEW a, a = (n * c) + r
  PROVE  a \div n = c
<1>1. a \in Int
  OBVIOUS
<1>2. PICK d \in Int : d = a \div n
  BY <1>1
<1>3. a = (n * d) + (a % n) /\ a % n \in 0..(n - 1)
  BY <1>1, <1>2
<1>4. a % n = r
  BY DivisionUnique
<1>5. n * c = n * d
  <2>1. PICK x, y \in Int : x = n * c /\ y = n * d
    OBVIOUS
  <2> QED BY <1>3, <1>4, <2>1
<1>6. n * (c - d) = 0
  <2>1. n * (c - d) = n * c - n * d /\ n * c \in Int
    OBVIOUS
  <2> QED BY <1>5, <2>1
<1>7. c - d = 0
  <2>1. PICK k \in Int : k = c - d
    OBVIOUS
  <2>2. n * k = 0
    BY <1>6, <2>1
  <2>3. ~(k >= 1)
    <3>1. ASSUME k >= 1 PROVE n * k >= n
      BY <3>1
    <3> QED BY <2>2, <3>1
  <2>4. ~(k <= -1)
    <3>1. ASSUME k <= -1 PROVE n * k <= -n
      BY <3>1
    <3> QED BY <2>2, <3>1
  <2> QED BY <2>1, <2>3, <2>4
<1> QED BY <1>2, <1>7

-----------------------------------------------------------------------------
(* Rounding *)

\* Sums keep an order that holds term by term.
LEMMA SumMonotone ==
  ASSUME NEW S, NEW f, NEW g, IsFiniteSet(S),
         \A x \in S : f[x] \in Int /\ g[x] \in Int /\ f[x] <= g[x]
  PROVE  SumFunctionOnSet(f, S) <= SumFunctionOnSet(g, S)
<1> DEFINE P == {T \in SUBSET S : SumFunctionOnSet(f, T) <= SumFunctionOnSet(g, T)}
<1>1. {} \in P
  BY SumEmpty
<1>2. ASSUME NEW T \in SUBSET S, NEW x \in T, T \ {x} \in P
      PROVE  T \in P
  <2> DEFINE U == T \ {x}
  <2>1. IsFiniteSet(T) /\ IsFiniteSet(U)
    BY FS_Subset
  <2>2. \A y \in T : f[y] \in Int /\ g[y] \in Int
    OBVIOUS
  <2>3. /\ SumFunctionOnSet(f, T) = f[x] + SumFunctionOnSet(f, U)
        /\ SumFunctionOnSet(g, T) = g[x] + SumFunctionOnSet(g, U)
    BY <2>1, <2>2, SumRemove
  <2>4. SumFunctionOnSet(f, U) \in Int /\ SumFunctionOnSet(g, U) \in Int
    BY <2>1, <2>2, SumIsInt
  <2>5. SumFunctionOnSet(f, U) <= SumFunctionOnSet(g, U)
    BY <1>2
  <2>6. f[x] \in Int /\ g[x] \in Int /\ f[x] <= g[x]
    OBVIOUS
  <2>7. SumFunctionOnSet(f, T) <= SumFunctionOnSet(g, T)
    <3> HIDE DEF U
    <3> QED BY <2>3, <2>4, <2>5, <2>6
  <2> QED BY <2>7
<1>3. S \in P
  <2> HIDE DEF P
  <2> QED BY <1>1, <1>2, InductionOnSet
<1> QED BY <1>3

\* The inner product with the multiples of a vector.
LEMMA DotScaled ==
  ASSUME NEW c \in Int, NEW D, IsFiniteSet(D), NEW x \in [D -> Int], NEW y \in [D -> Int],
         NEW w, w = [k \in D |-> x[k] * c]
  PROVE  w \in [D -> Int] /\ Dot(w, y) = c * Dot(x, y) /\ Dot(x, y) \in Int
<1> DEFINE f == [k \in D |-> x[k] * y[k]]
           g == [k \in D |-> w[k] * y[k]]
<1>1. w \in [D -> Int]
  OBVIOUS
<1>2. ASSUME NEW k \in D PROVE f[k] \in Int /\ g[k] = c * f[k]
  <2>1. PICK u, v \in Int : u = x[k] /\ v = y[k]
    OBVIOUS
  <2>2. (u * c) * v = c * (u * v) /\ u * v \in Int
    OBVIOUS
  <2> QED BY <2>1, <2>2
<1>3. Dot(x, y) = SumFunctionOnSet(f, D) /\ SumFunctionOnSet(f, D) \in Int
  BY DotIsSum
<1>4. Dot(w, y) = SumFunctionOnSet(g, D)
  BY <1>1, DotIsSum
<1> HIDE DEF f, g
<1>5. SumFunctionOnSet(g, D) = c * SumFunctionOnSet(f, D)
  BY <1>2, SumScaled
<1> QED BY <1>1, <1>3, <1>4, <1>5

\* The size of a number, and the sum of the sizes of the coordinates.
Magnitude(v) == IF v < 0 THEN -v ELSE v
MagnitudeSum(y) == SumFunction([i \in DOMAIN y |-> Magnitude(y[i])])

\* A quotient and a remainder.
LEMMA QuotientOf ==
  ASSUME NEW n \in Nat, n # 0, NEW a \in Int
  PROVE  a = (n * (a \div n)) + (a % n) /\ a % n \in 0..(n - 1) /\ a \div n \in Int
OBVIOUS

\* m has the multiples of q / p that belong to x, rounded down.
AreCut(m, x, p, q, D) ==
  /\ m \in [D -> Int] /\ x \in [D -> Int]
  /\ \A k \in D : m[k] = (x[k] * q) \div p

\* Rounding down takes away less than p in each coordinate.
LEMMA CutOff ==
  ASSUME NEW p \in Nat, p # 0, NEW q \in Nat, NEW D, IsFiniteSet(D), NEW x, NEW m, AreCut(m, x, p, q, D),
         NEW y \in [D -> Int]
  PROVE  /\ MagnitudeSum(y) \in Int /\ Dot(m, y) \in Int /\ Dot(x, y) \in Int
         /\ \E z \in Int : /\ p * Dot(m, y) = q * Dot(x, y) + z
                           /\ z <= p * MagnitudeSum(y) /\ -z <= p * MagnitudeSum(y)
<1>1. m \in [D -> Int] /\ x \in [D -> Int]
  BY DEF AreCut
<1> DEFINE o == [k \in D |-> p * m[k] - q * x[k]]
           w == [k \in D |-> x[k] * q]
           v == [k \in D |-> m[k] * p]
           a == [k \in D |-> Magnitude(y[k])]
           b == [k \in D |-> p * a[k]]
           c == [k \in D |-> (-p) * a[k]]
           f == [k \in D |-> o[k] * y[k]]
<1>2. ASSUME NEW k \in D PROVE m[k] \in Int /\ x[k] \in Int /\ o[k] \in Int /\ o[k] <= 0 /\ -p < o[k]
  <2>1. PICK e \in Int : e = x[k] * q
    BY <1>1
  <2>2. e = (p * (e \div p)) + (e % p) /\ e % p \in 0..(p - 1) /\ e \div p \in Int
    <3> HIDE DEF o, w, v, a, b, c, f
    <3> QED BY QuotientOf
  <2>3. m[k] = e \div p
    BY <2>1 DEF AreCut
  <2>4. PICK g, h, i \in Int : g = m[k] /\ h = p * g /\ i = q * x[k] /\ i = e
    BY <1>1, <2>1
  <2>5. o[k] = h - i
    BY <2>4
  <2>6. e = h + (e % p)
    BY <2>2, <2>3, <2>4
  <2>7. PICK r \in 0..(p - 1) : r = e % p
    BY <2>2
  <2> HIDE DEF o
  <2> QED BY <1>1, <2>4, <2>5, <2>6, <2>7
<1>3. o \in [D -> Int]
  BY <1>2
<1>4. ASSUME NEW k \in D
      PROVE  /\ a[k] \in Int /\ b[k] \in Int /\ c[k] \in Int /\ f[k] \in Int
             /\ b[k] = p * a[k] /\ c[k] = (-p) * a[k] /\ c[k] <= f[k] /\ f[k] <= b[k]
  <2>1. PICK t, u \in Int : t = y[k] /\ u = o[k] /\ u <= 0 /\ -p < u
    BY <1>2
  <2>2. PICK s \in Nat : s = a[k] /\ (t = s \/ t = -s)
    BY <2>1 DEF Magnitude
  <2>3. b[k] = p * s /\ c[k] = (-p) * s /\ f[k] = u * t
    BY <2>1, <2>2
  <2>4. p * s \in Int /\ (-p) * s \in Int /\ u * t \in Int /\ (-p) * s = -(p * s)
    OBVIOUS
  <2>5. u * s <= p * s /\ -(u * s) <= p * s
    <3>1. \A g, h \in Nat : g * h >= 0
      OBVIOUS
    <3>2. (p - u) * s >= 0 /\ (p + u) * s >= 0
      <4>1. p - u \in Nat /\ p + u \in Nat
        BY <2>1
      <4> QED BY <3>1, <4>1
    <3>3. (p - u) * s = p * s - u * s /\ (p + u) * s = p * s + u * s
      OBVIOUS
    <3>4. p * s \in Int /\ u * s \in Int
      OBVIOUS
    <3> QED BY <3>2, <3>3, <3>4
  <2>6. u * t = u * s \/ u * t = -(u * s)
    <3>1. u * (-s) = -(u * s)
      OBVIOUS
    <3> QED BY <2>2, <3>1
  <2>7. u * s \in Int
    OBVIOUS
  <2> QED BY <2>2, <2>3, <2>4, <2>5, <2>6, <2>7
<1>5. MagnitudeSum(y) = SumFunctionOnSet(a, D)
  <2>1. DOMAIN y = D /\ DOMAIN a = D
    OBVIOUS
  <2> QED BY <2>1, Zenon DEF MagnitudeSum, SumFunction
<1>6. Dot(w, y) = q * Dot(x, y) /\ Dot(x, y) \in Int /\ w \in [D -> Int]
  BY <1>1, DotScaled
<1>7. Dot(v, y) = p * Dot(m, y) /\ Dot(m, y) \in Int /\ v \in [D -> Int]
  BY <1>1, DotScaled
<1>8. IsCombination(v, w, 1, o, D)
  <2>1. ASSUME NEW k \in D PROVE v[k] = w[k] + 1 * o[k]
    <3>1. PICK g, h \in Int : g = m[k] /\ h = x[k]
      BY <1>2
    <3>2. v[k] = g * p /\ w[k] = h * q /\ o[k] = p * g - q * h
      BY <3>1
    <3>3. g * p = h * q + 1 * (p * g - q * h)
      OBVIOUS
    <3> QED BY <3>2, <3>3
  <2> HIDE DEF v, w, o
  <2> QED BY <2>1 DEF IsCombination
<1>9. Dot(o, y) = SumFunctionOnSet(f, D) /\ SumFunctionOnSet(f, D) \in Int
  BY <1>3, DotIsSum
<1> HIDE DEF o, v, w, a, b, c, f
<1>10. Dot(v, y) = Dot(w, y) + 1 * Dot(o, y)
  BY <1>3, <1>6, <1>7, <1>8, DotLinear
<1>11. SumFunctionOnSet(b, D) = p * SumFunctionOnSet(a, D) /\ SumFunctionOnSet(a, D) \in Int
  <2>1. SumFunctionOnSet(b, D) = p * SumFunctionOnSet(a, D)
    BY <1>4, SumScaled
  <2>2. SumFunctionOnSet(a, D) \in Int
    BY <1>4, SumIsInt
  <2> QED BY <2>1, <2>2
<1>12. SumFunctionOnSet(c, D) = (-p) * SumFunctionOnSet(a, D)
  <2>1. -p \in Int
    OBVIOUS
  <2> QED BY <1>4, <2>1, SumScaled
<1>13. SumFunctionOnSet(f, D) <= SumFunctionOnSet(b, D)
  BY <1>4, SumMonotone
<1>14. SumFunctionOnSet(c, D) <= SumFunctionOnSet(f, D)
  BY <1>4, SumMonotone
<1>15. PICK z, A \in Int : z = Dot(o, y) /\ A = MagnitudeSum(y)
  BY <1>5, <1>9, <1>11
<1>16. z <= p * A /\ (-p) * A <= z
  BY <1>5, <1>9, <1>11, <1>12, <1>13, <1>14, <1>15
<1>17. (-p) * A = -(p * A) /\ p * A \in Int
  OBVIOUS
<1>18. -z <= p * A
  BY <1>16, <1>17
<1>19. p * Dot(m, y) = q * Dot(x, y) + z
  <2>1. q * Dot(x, y) \in Int
    BY <1>6
  <2> QED BY <1>6, <1>7, <1>9, <1>10, <1>15, <2>1
<1> QED BY <1>6, <1>7, <1>15, <1>16, <1>18, <1>19

\* A multiple of q / p with less than half of q between it and the number times p.
LEMMA RoundedIs ==
  ASSUME NEW p \in Nat, p # 0, NEW q \in Nat, NEW D \in Int, NEW S \in Int, NEW t \in Int,
         p * D = q * S + t, 2 * t < q, -2 * t < q, 2 * S < p, -2 * S < p
  PROVE  2 * D < q /\ -2 * D < q /\ (D * p + q \div 2) \div q = S
<1>0. \A m, n \in Nat : m * n >= 0
  OBVIOUS
<1>1. PICK a, b, c \in Int : a = p * D /\ b = q * S /\ c = q * p
  OBVIOUS
<1>2. 2 * b <= c - q /\ -2 * b <= c - q
  <2>1. q * ((p - 1) - 2 * S) >= 0 /\ q * ((p - 1) + 2 * S) >= 0
    <3>1. (p - 1) - 2 * S \in Nat /\ (p - 1) + 2 * S \in Nat
      OBVIOUS
    <3> QED BY <1>0, <3>1
  <2>2. /\ q * ((p - 1) - 2 * S) = q * p - q - 2 * (q * S)
        /\ q * ((p - 1) + 2 * S) = q * p - q + 2 * (q * S)
    OBVIOUS
  <2> QED BY <1>1, <2>1, <2>2
<1>3. 2 * a < c /\ -2 * a < c
  BY <1>1, <1>2
<1>4. 2 * D < q /\ -2 * D < q
  <2>1. ASSUME 2 * D >= q PROVE FALSE
    <3>1. p * (2 * D - q) >= 0
      <4>1. 2 * D - q \in Nat
        BY <2>1
      <4> QED BY <1>0, <4>1
    <3>2. p * (2 * D - q) = 2 * (p * D) - q * p
      OBVIOUS
    <3> QED BY <1>1, <1>3, <3>1, <3>2
  <2>2. ASSUME -2 * D >= q PROVE FALSE
    <3>1. p * ((-2 * D) - q) >= 0
      <4>1. (-2 * D) - q \in Nat
        BY <2>2
      <4> QED BY <1>0, <4>1
    <3>2. p * ((-2 * D) - q) = -2 * (p * D) - q * p
      OBVIOUS
    <3> QED BY <1>1, <1>3, <3>1, <3>2
  <2> QED BY <2>1, <2>2
<1>5. PICK h \in Int : h = q \div 2 /\ 2 * h <= q /\ q <= 2 * h + 1
  OBVIOUS
<1>6. t + h \in 0..(q - 1) /\ q # 0
  BY <1>5
<1>7. PICK e \in Int : e = D * p + h
  OBVIOUS
<1>8. e = (q * S) + (t + h)
  <2>1. D * p = p * D
    OBVIOUS
  <2> QED BY <1>1, <1>7, <2>1
<1>9. e \div q = S
  <2>1. PICK r \in 0..(q - 1) : r = t + h
    BY <1>6
  <2> QED BY <1>6, <1>8, <2>1, QuotientIs
<1> QED BY <1>4, <1>5, <1>7, <1>9

\* What LWE and ring-LWE make of a number z modulo q that holds the multiples of q / p for the
\* vector x, and noise: the inner product with x.
IsTolerated(noise, y, p, q) == 2 * p * (Magnitude(noise) + MagnitudeSum(y)) < q

LEMMA RoundingFinds ==
  ASSUME NEW p \in Nat, p # 0, NEW q \in Nat, NEW D, IsFiniteSet(D), NEW x, NEW m, AreCut(m, x, p, q, D),
         NEW y \in [D -> Int], NEW noise \in Int, IsTolerated(noise, y, p, q),
         2 * Dot(x, y) < p, -2 * Dot(x, y) < p,
         NEW z \in Int, Congruent(z, noise + Dot(m, y), q), NEW d, d = CentreOf(z % q, q)
  PROVE  (d * p + q \div 2) \div q = Dot(x, y)
<1>1. PICK A, B, S, n \in Int : A = MagnitudeSum(y) /\ B = Dot(m, y) /\ S = Dot(x, y) /\ n = noise
  BY CutOff
<1>2. PICK o \in Int : p * B = q * S + o /\ o <= p * A /\ -o <= p * A
  BY <1>1, CutOff
<1>3. PICK s \in Nat : s = Magnitude(n) /\ (n = s \/ n = -s)
  BY DEF Magnitude
<1>4. 2 * (p * s + p * A) < q
  <2>1. 2 * p * (s + A) < q
    BY <1>1, <1>3 DEF IsTolerated
  <2>2. 2 * p * (s + A) = 2 * (p * s + p * A)
    OBVIOUS
  <2> QED BY <2>1, <2>2
<1>5. PICK t, u, v, w \in Int : t = u + o /\ u = p * n /\ v = p * s /\ w = p * A
  OBVIOUS
<1>6. u = v \/ u = -v
  <2>1. p * (-s) = -(p * s)
    OBVIOUS
  <2> QED BY <1>3, <1>5, <2>1
<1>7. v >= 0
  <2>1. p * s >= 0
    OBVIOUS
  <2> QED BY <1>5, <2>1
<1>8. 2 * t < q /\ -2 * t < q
  BY <1>2, <1>4, <1>5, <1>6, <1>7
<1>9. PICK T \in Int : T = n + B
  OBVIOUS
<1>10. p * T = q * S + t
  <2>1. p * (n + B) = p * n + p * B
    OBVIOUS
  <2>2. q * S \in Int
    OBVIOUS
  <2> QED BY <1>2, <1>5, <1>9, <2>1, <2>2
<1>11. 2 * S < p /\ -2 * S < p
  BY <1>1
<1>12. 2 * T < q /\ -2 * T < q /\ (T * p + q \div 2) \div q = S
  BY <1>8, <1>10, <1>11, RoundedIs
<1>13. Congruent(z, T, q)
  BY <1>1, <1>9
<1>14. d = T
  <2>1. IsCentre(T, z, q)
    BY <1>12, <1>13 DEF IsCentre
  <2> QED BY <2>1, CentredNumber
<1> QED BY <1>1, <1>12, <1>14

\* What the fully secure scheme makes of a multiple of q / K with noise.
IsFsSum(z, d, noise, S, u, w, K, q) ==
  /\ q \in Nat /\ K \in Nat /\ K # 0 /\ u = q \div K /\ w = q \div (2 * K)
  /\ noise \in Int /\ Magnitude(noise) < w /\ S \in Int /\ 2 * S < K /\ -2 * S < K
  /\ z \in Int /\ Congruent(z, noise + u * S, q) /\ d = CentreOf(z % q, q)

LEMMA RoundingFsFinds ==
  ASSUME NEW q, NEW K, NEW u, NEW w, NEW noise, NEW S, NEW z, NEW d, IsFsSum(z, d, noise, S, u, w, K, q)
  PROVE  (d + w) \div u = S
<1> /\ q \in Nat /\ K \in Nat /\ K # 0 /\ u = q \div K /\ w = q \div (2 * K)
    /\ noise \in Int /\ Magnitude(noise) < w /\ S \in Int /\ 2 * S < K /\ -2 * S < K
    /\ z \in Int /\ Congruent(z, noise + u * S, q) /\ d = CentreOf(z % q, q)
  BY DEF IsFsSum
<1>0. \A m, n \in Nat : m * n >= 0
  OBVIOUS
<1>1. u \in Int /\ \E r \in 0..(K - 1) : q = (K * u) + r
  <2>1. q = (K * (q \div K)) + (q % K) /\ q % K \in 0..(K - 1) /\ q \div K \in Int
    OBVIOUS
  <2> QED BY <2>1
<1>2. w \in Int /\ \E r \in 0..(2 * K - 1) : q = ((2 * K) * w) + r
  <2>1. PICK k \in Nat \ {0} : k = 2 * K
    OBVIOUS
  <2>2. q = (k * (q \div k)) + (q % k) /\ q % k \in 0..(k - 1) /\ q \div k \in Int
    BY QuotientOf
  <2> QED BY <2>1, <2>2
<1>3. 2 * w <= u
  <2>1. SUFFICES ASSUME 2 * w >= u + 1 PROVE FALSE
    BY <1>1, <1>2
  <2>2. K * (2 * w - (u + 1)) >= 0
    <3>1. 2 * w - (u + 1) \in Nat
      BY <1>1, <1>2, <2>1
    <3> QED BY <1>0, <3>1
  <2>3. K * (2 * w - (u + 1)) = (2 * K) * w - K * u - K
    BY <1>1, <1>2
  <2>4. PICK r \in 0..(K - 1) : q = (K * u) + r
    BY <1>1
  <2>5. (2 * K) * w <= q
    BY <1>2
  <2>6. K * u \in Int /\ (2 * K) * w \in Int
    BY <1>1, <1>2
  <2> QED BY <2>2, <2>3, <2>4, <2>5, <2>6
<1>4. noise < w /\ -noise < w /\ w >= 1 /\ u \in Nat /\ u # 0
  BY <1>1, <1>2, <1>3 DEF Magnitude
<1>5. PICK b, c \in Int : b = u * S /\ c = K * u
  BY <1>4
<1>6. c <= q
  BY <1>1, <1>5
<1>7. 2 * b <= c - u /\ -2 * b <= c - u
  <2>1. u * ((K - 1) - 2 * S) >= 0 /\ u * ((K - 1) + 2 * S) >= 0
    <3>1. (K - 1) - 2 * S \in Nat /\ (K - 1) + 2 * S \in Nat
      OBVIOUS
    <3> QED BY <1>0, <1>4, <3>1
  <2>2. /\ u * ((K - 1) - 2 * S) = K * u - u - 2 * (u * S)
        /\ u * ((K - 1) + 2 * S) = K * u - u + 2 * (u * S)
    BY <1>4
  <2> QED BY <1>4, <1>5, <2>1, <2>2
<1>8. PICK D \in Int : D = noise + b
  OBVIOUS
<1>9. 2 * D < q /\ -2 * D < q
  BY <1>2, <1>3, <1>4, <1>6, <1>7, <1>8
<1>10. Congruent(z, D, q)
  BY <1>5, <1>8
<1>11. d = D
  <2>1. IsCentre(D, z, q)
    BY <1>9, <1>10 DEF IsCentre
  <2> QED BY <2>1, CentredNumber
<1>12. PICK r \in 0..(u - 1) : r = noise + w
  BY <1>2, <1>3, <1>4
<1>13. PICK e \in Int : e = D + w
  <2>1. PICK v \in Int : v = w
    BY <1>2
  <2>2. D + v \in Int
    OBVIOUS
  <2> QED BY <2>1, <2>2
<1>14. e = (u * S) + r
  BY <1>5, <1>8, <1>12, <1>13, <1>2
<1>15. e \div u = S
  BY <1>4, <1>14, QuotientIs
<1> QED BY <1>11, <1>13, <1>15

-----------------------------------------------------------------------------
(* Powers of two *)

\* A set with one more element has twice as many subsets.
LEMMA TwiceAsMany ==
  ASSUME NEW S, IsFiniteSet(S), NEW a, a \notin S
  PROVE  /\ IsFiniteSet(SUBSET (S \cup {a})) /\ IsFiniteSet(SUBSET S)
         /\ Cardinality(SUBSET (S \cup {a})) = 2 * Cardinality(SUBSET S)
<1> DEFINE T == {U \cup {a} : U \in SUBSET S}
           f == [U \in SUBSET S |-> U \cup {a}]
<1>1. IsFiniteSet(SUBSET S)
  BY FS_SUBSET
<1>2. ExistsBijection(SUBSET S, T)
  <2>1. f \in [SUBSET S -> T]
    OBVIOUS
  <2>2. \A U, V \in SUBSET S : f[U] = f[V] => U = V
    OBVIOUS
  <2>3. \A V \in T : \E U \in SUBSET S : f[U] = V
    OBVIOUS
  <2> QED BY <2>1, <2>2, <2>3 DEF ExistsBijection, Bijection, Injection, IsInjective, Surjection
<1>3. IsFiniteSet(T) /\ Cardinality(T) = Cardinality(SUBSET S)
  BY <1>1, <1>2, FS_Bijection
<1>4. SUBSET (S \cup {a}) = (SUBSET S) \cup T
  <2>1. ASSUME NEW U \in SUBSET (S \cup {a}) PROVE U \in SUBSET S \/ U \in T
    <3>1. CASE a \in U
      <4>1. U \ {a} \in SUBSET S /\ U = (U \ {a}) \cup {a}
        BY <3>1
      <4> QED BY <4>1
    <3>2. CASE a \notin U
      BY <3>2
    <3> QED BY <3>1, <3>2
  <2> QED BY <2>1
<1>5. (SUBSET S) \cap T = {}
  OBVIOUS
<1> HIDE DEF T
<1>6. /\ IsFiniteSet((SUBSET S) \cup T)
      /\ Cardinality((SUBSET S) \cup T)
           = Cardinality(SUBSET S) + Cardinality(T) - Cardinality((SUBSET S) \cap T)
  BY <1>1, <1>3, FS_Union
<1>7. Cardinality((SUBSET S) \cap T) = 0
  BY <1>5, FS_EmptySet
<1>8. Cardinality(SUBSET S) \in Nat
  BY <1>1, FS_CardinalityType
<1>9. Cardinality((SUBSET S) \cup T) = 2 * Cardinality(SUBSET S)
  BY <1>3, <1>6, <1>7, <1>8
<1> QED BY <1>1, <1>4, <1>6, <1>9

\* Powers of two count the subsets of a set.
LEMMA TwoToNext ==
  ASSUME NEW n \in Nat
  PROVE  2^n \in Nat /\ 2^0 = 1 /\ 2^(n + 1) = 2 * 2^n
<1>1. IsFiniteSet(1..n) /\ Cardinality(1..n) = n
  BY FS_Interval
<1>2. 1..(n + 1) = (1..n) \cup {n + 1} /\ n + 1 \notin 1..n
  OBVIOUS
<1>3. IsFiniteSet(1..(n + 1)) /\ Cardinality(1..(n + 1)) = n + 1
  BY FS_Interval
<1>4. Cardinality(SUBSET (1..n)) = 2^n /\ IsFiniteSet(SUBSET (1..n))
  <2>1. IsFiniteSet(SUBSET (1..n)) /\ Cardinality(SUBSET (1..n)) = 2^Cardinality(1..n)
    BY <1>1, FS_SUBSET
  <2> QED BY <1>1, <2>1, Zenon
<1>5. Cardinality(SUBSET (1..(n + 1))) = 2^(n + 1)
  <2>1. Cardinality(SUBSET (1..(n + 1))) = 2^Cardinality(1..(n + 1))
    BY <1>3, FS_SUBSET
  <2> QED BY <1>3, <2>1, Zenon
<1>6. Cardinality(SUBSET (1..(n + 1))) = 2 * Cardinality(SUBSET (1..n))
  <2>1. Cardinality(SUBSET ((1..n) \cup {n + 1})) = 2 * Cardinality(SUBSET (1..n))
    BY <1>1, <1>2, TwiceAsMany
  <2> QED BY <1>2, <2>1
<1>7. Cardinality(SUBSET (1..n)) \in Nat
  BY <1>4, FS_CardinalityType
<1>8. 2^0 = 1
  <2>1. Cardinality(SUBSET {}) = 2^Cardinality({}) /\ Cardinality({}) = 0
    BY FS_EmptySet, FS_SUBSET
  <2>2. SUBSET {} = {{}}
    OBVIOUS
  <2>3. Cardinality({{}}) = 1
    BY FS_Singleton
  <2> QED BY <2>1, <2>2, <2>3, Zenon
<1> QED BY <1>4, <1>5, <1>6, <1>7, <1>8

\* Powers of two are positive, and outgrow their exponents.
LEMMA TwoToGrows ==
  ASSUME NEW n \in Nat PROVE 2^n \in Nat /\ 2^n > n
<1> DEFINE P == {k \in Nat : 2^k > k}
<1>1. 0 \in P
  BY TwoToNext
<1>2. ASSUME NEW k \in Nat, k \in P PROVE k + 1 \in P
  <2>1. 2^k \in Nat /\ 2^k > k /\ 2^(k + 1) = 2 * 2^k
    BY <1>2, TwoToNext
  <2>2. PICK a, b : a = 2^k /\ b = 2^(k + 1)
    OBVIOUS
  <2>3. a \in Nat /\ a > k /\ b = 2 * a
    BY <2>1, <2>2
  <2>4. b > k + 1
    BY <2>3
  <2> QED BY <2>2, <2>4
<1>3. Nat \subseteq P
  <2> HIDE DEF P
  <2> QED BY <1>1, <1>2, InductionOnNat
<1> QED BY <1>3, TwoToNext

\* Exponents are added.
LEMMA TwoToSum ==
  ASSUME NEW a \in Nat, NEW b \in Nat PROVE 2^(a + b) = 2^a * 2^b
<1> DEFINE P == {k \in Nat : 2^(a + k) = 2^a * 2^k}
<1>1. 0 \in P
  <2>1. 2^0 = 1 /\ 2^a \in Nat
    BY TwoToNext
  <2>2. a + 0 = a
    OBVIOUS
  <2>3. PICK x : x = 2^a
    OBVIOUS
  <2>4. x * 1 = x
    BY <2>1, <2>3
  <2> QED BY <2>1, <2>2, <2>3, <2>4
<1>2. ASSUME NEW k \in Nat, k \in P PROVE k + 1 \in P
  <2>1. PICK x, y, z, u, v : x = 2^a /\ y = 2^k /\ z = 2^(k + 1) /\ u = 2^(a + k) /\ v = 2^((a + k) + 1)
    OBVIOUS
  <2>2. x \in Nat /\ y \in Nat /\ z = 2 * y
    BY <2>1, TwoToNext
  <2>3. a + k \in Nat
    OBVIOUS
  <2>4. v = 2 * u
    BY <2>1, <2>3, TwoToNext
  <2>5. u = x * y
    BY <1>2, <2>1
  <2>6. 2 * (x * y) = x * (2 * y)
    BY <2>2
  <2>7. v = x * z
    BY <2>2, <2>4, <2>5, <2>6
  <2>8. a + (k + 1) = (a + k) + 1
    OBVIOUS
  <2> QED BY <2>1, <2>7, <2>8
<1>3. Nat \subseteq P
  <2> HIDE DEF P
  <2> QED BY <1>1, <1>2, InductionOnNat
<1> QED BY <1>3

\* The number of bits of v.
HasBits(v, b) == b \in Nat \ {0} /\ v < 2^b /\ (b = 1 \/ 2^(b - 1) <= v)

\* Every number has one, not above v + 1.
LEMMA BitsExist ==
  ASSUME NEW v \in Nat PROVE \E b \in 1..(v + 1) : HasBits(v, b)
<1> DEFINE T == {b \in Nat \ {0} : v < 2^b}
<1>1. v + 1 \in T
  <2>1. 2^(v + 1) \in Nat /\ 2^(v + 1) > v + 1
    BY TwoToGrows
  <2>2. PICK x : x = 2^(v + 1)
    OBVIOUS
  <2>3. v < x
    BY <2>1, <2>2
  <2> QED BY <2>2, <2>3
<1>2. PICK b \in T : \A c \in T : b <= c
  <2>1. T \in SUBSET Nat /\ T # {}
    BY <1>1
  <2> HIDE DEF T
  <2> QED BY <2>1, LeastElement
<1>3. b \in 1..(v + 1)
  BY <1>1, <1>2
<1>4. b = 1 \/ 2^(b - 1) <= v
  <2>1. SUFFICES ASSUME b # 1 PROVE 2^(b - 1) <= v
    OBVIOUS
  <2>2. b - 1 \in Nat \ {0} /\ ~(b <= b - 1)
    BY <1>3, <2>1
  <2>3. ~(v < 2^(b - 1))
    BY <1>2, <2>2
  <2>4. 2^(b - 1) \in Nat
    BY <2>2, TwoToNext
  <2>5. PICK x : x = 2^(b - 1)
    OBVIOUS
  <2>6. x <= v
    BY <2>3, <2>4, <2>5
  <2> QED BY <2>5, <2>6
<1> QED BY <1>2, <1>3, <1>4 DEF HasBits

\* A number with the bits of a product and two more is above twice the product.
LEMMA BitsOfProduct ==
  ASSUME NEW x \in Nat, NEW y \in Nat, NEW z \in Nat, NEW v \in Nat, NEW a, NEW b, NEW c,
         HasBits(x, a), HasBits(y, b), HasBits(z, c), NEW d, d = a + b + c + 2, HasBits(v, d)
  PROVE  2 * (x * y * z) < v
<1>1. a \in Nat /\ b \in Nat /\ c \in Nat /\ d \in Nat /\ d # 1 /\ d - 1 = ((a + b) + c) + 1
      /\ a + b \in Nat /\ (a + b) + c \in Nat
  BY DEF HasBits
<1>2. PICK A, B, C, E, F, V : /\ A = 2^a /\ B = 2^b /\ C = 2^c /\ E = 2^(a + b) /\ F = 2^((a + b) + c)
                              /\ V = 2^(d - 1)
  OBVIOUS
<1>3. A \in Nat /\ B \in Nat /\ C \in Nat /\ V = 2 * F /\ E = A * B /\ F = E * C
  <2>1. A \in Nat /\ B \in Nat /\ C \in Nat
    BY <1>1, <1>2, TwoToNext
  <2>2. V = 2 * F
    BY <1>1, <1>2, TwoToNext
  <2>3. E = A * B
    BY <1>1, <1>2, TwoToSum
  <2>4. F = E * C
    BY <1>1, <1>2, TwoToSum
  <2> QED BY <2>1, <2>2, <2>3, <2>4
<1>4. x < A /\ y < B /\ z < C /\ V <= v
  BY <1>1, <1>2 DEF HasBits
<1>5. ASSUME NEW g \in Nat, NEW h \in Nat, NEW m \in Nat, NEW n \in Nat, g < m, h < n
      PROVE  g * h < m * n /\ g * h \in Nat /\ m * n \in Nat
  <2>1. \A s, t \in Nat : s * t \in Nat
    OBVIOUS
  <2>2. PICK i, j \in Nat : m = g + 1 + i /\ n = h + 1 + j
    <3>1. m - g - 1 \in Nat /\ n - h - 1 \in Nat /\ m = g + 1 + (m - g - 1) /\ n = h + 1 + (n - h - 1)
      BY <1>5
    <3> QED BY <3>1
  <2>3. m * n = g * h + g * (1 + j) + (1 + i) * h + (1 + i) * (1 + j)
    BY <2>2
  <2>4. (1 + i) * (1 + j) = 1 + i + j + i * j
    OBVIOUS
  <2>5. g * (1 + j) \in Nat /\ (1 + i) * h \in Nat /\ i * j \in Nat /\ g * h \in Nat /\ m * n \in Nat
    <3>1. 1 + j \in Nat /\ 1 + i \in Nat
      OBVIOUS
    <3> QED BY <2>1, <3>1
  <2>6. PICK p, q, r, s, t \in Nat : /\ p = g * h /\ q = g * (1 + j) /\ r = (1 + i) * h /\ s = i * j
                                    /\ t = m * n
    BY <2>5
  <2>7. t = p + q + r + (1 + i + j + s)
    BY <2>3, <2>4, <2>6
  <2>8. p < t
    BY <2>6, <2>7
  <2> QED BY <2>5, <2>6, <2>8
<1>6. x * y < E /\ x * y \in Nat /\ E \in Nat
  BY <1>3, <1>4, <1>5
<1>7. PICK p \in Nat : p = x * y
  BY <1>6
<1>8. p * z < F /\ p * z \in Nat /\ F \in Nat
  BY <1>3, <1>4, <1>5, <1>6, <1>7
<1>9. PICK w \in Nat : w = p * z
  BY <1>8
<1>10. x * y * z = w
  BY <1>7, <1>9
<1> QED BY <1>3, <1>4, <1>8, <1>9, <1>10

\* The inner product of vectors with different bounds.
LEMMA DotBoundedBy ==
  ASSUME NEW D, IsFiniteSet(D), NEW l \in Nat, Cardinality(D) = l, NEW a \in Nat, NEW b \in Nat,
         NEW x \in [D -> Int], NEW y \in [D -> Int], Bounded(x, a), Bounded(y, b)
  PROVE  Dot(x, y) \in Int /\ Dot(x, y) <= a * b * l /\ -Dot(x, y) <= a * b * l
<1> DEFINE f == [k \in D |-> x[k] * y[k]]
<1>1. PICK c \in Nat : c = a * b
  OBVIOUS
<1>2. ASSUME NEW k \in D PROVE f[k] \in (-c)..c
  <2>1. PICK u, v \in Int : u = x[k] /\ v = y[k] /\ u \in (-a)..a /\ v \in (-b)..b
    BY DEF Bounded
  <2>2. \A m, n \in Nat : m * n >= 0
    OBVIOUS
  <2>3. (a - u) * (b + v) >= 0 /\ (a + u) * (b - v) >= 0
        /\ (a - u) * (b - v) >= 0 /\ (a + u) * (b + v) >= 0
    <3>1. a - u \in Nat /\ a + u \in Nat /\ b - v \in Nat /\ b + v \in Nat
      BY <2>1
    <3> QED BY <2>2, <3>1
  <2>4. /\ (a - u) * (b + v) = a * b - u * b + a * v - u * v
        /\ (a + u) * (b - v) = a * b + u * b - a * v - u * v
        /\ (a - u) * (b - v) = a * b - u * b - a * v + u * v
        /\ (a + u) * (b + v) = a * b + u * b + a * v + u * v
    OBVIOUS
  <2>5. PICK g, h, i \in Int : g = u * b /\ h = a * v /\ i = u * v
    OBVIOUS
  <2>6. i \in (-c)..c
    BY <1>1, <2>3, <2>4, <2>5
  <2> QED BY <2>1, <2>5, <2>6
<1>3. Dot(x, y) = SumFunctionOnSet(f, D)
  BY DotIsSum
<1>4. SumFunctionOnSet(f, D) \in (-(c * l))..(c * l)
  <2> HIDE DEF f
  <2> QED BY <1>2, SumBounded
<1>5. PICK d \in Int : d = c * l
  OBVIOUS
<1>6. PICK s \in Int : s = Dot(x, y) /\ s \in (-d)..d
  BY <1>3, <1>4, <1>5
<1>7. a * b * l = d
  BY <1>1, <1>5
<1> QED BY <1>6, <1>7

=============================================================================
