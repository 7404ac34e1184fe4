------------------------- MODULE GaussSolver_proofs -------------------------
(***************************************************************************)
(* Proofs about the solver of linear systems (src/data/mat.c:544-657), for *)
(* systems of every size and every prime modulus.                          *)
(***************************************************************************)
EXTENDS GaussSolver, SchemeLemmas

-----------------------------------------------------------------------------
(* Arithmetic modulo a prime *)

\* The least positive number that a multiple of x leaves modulo n divides n, and is 1
\* when n is a prime: x has an inverse.
LEMMA InverseExists ==
  ASSUME NEW n \in Nat, IsPrime(n), NEW x \in 1..(n - 1)
  PROVE  \E y \in Int : (x * y) % n = 1
<1>1. n \in Nat /\ n > 1 /\ \A d \in 2..(n - 1) : n % d # 0
  BY DEF IsPrime
<1>2. PICK T \in SUBSET (1..(n - 1)) :
        \A d \in 1..(n - 1) : d \in T <=> \E y \in Int : (x * y) % n = d
  <2> DEFINE S == {d \in 1..(n - 1) : \E y \in Int : (x * y) % n = d}
  <2>1. S \in SUBSET (1..(n - 1)) /\ \A d \in 1..(n - 1) : d \in S <=> \E y \in Int : (x * y) % n = d
    OBVIOUS
  <2> HIDE DEF S
  <2> QED BY <2>1
<1>3. x \in T
  <2>1. ((n * 0) + x) % n = x
    BY <1>1, DivisionUnique
  <2>2. (x * 1) % n = x
    <3>1. (n * 0) + x = x * 1
      BY <1>1
    <3> QED BY <2>1, <3>1
  <2>3. \E y \in Int : (x * y) % n = x
    <3>1. 1 \in Int
      OBVIOUS
    <3> QED BY <2>2, <3>1, Zenon
  <2> QED BY <1>2, <2>3
<1>4. PICK d \in T : \A e \in T : d <= e
  <2>1. T \in SUBSET Nat /\ T # {}
    BY <1>3
  <2> QED BY <2>1, LeastElement
<1>5. PICK y \in Int : (x * y) % n = d /\ d \in 1..(n - 1)
  BY <1>2, <1>4
<1>6. n % d = 0
  <2>1. PICK r \in 0..(d - 1) : r = n % d /\ \E c \in Int : n = (d * c) + r
    <3>1. d \in Nat /\ d # 0 /\ n \in Int
      BY <1>1, <1>5
    <3>2. n % d \in 0..(d - 1) /\ \E c \in Int : n = (d * c) + (n % d)
      BY <3>1, Division
    <3> QED BY <3>2
  <2>2. CASE r = 0
    BY <2>1, <2>2
  <2>3. CASE r # 0
    <3>1. PICK c \in Int : n = (d * c) + r
      BY <2>1
    <3>2. PICK e \in Int : x * y = (n * e) + d
      <4>1. \E e \in Int : x * y = (n * e) + ((x * y) % n)
        <5>1. x * y \in Int /\ n \in Nat /\ n # 0
          BY <1>1, <1>5
        <5> QED BY <5>1, Division
      <4> QED BY <1>5, <4>1
    <3>3. x * ((-c) * y) = (n * ((-c) * e - 1)) + r
      <4>1. x * ((-c) * y) = (-c) * (x * y)
        BY <1>5, <3>1
      <4>2. (-c) * ((n * e) + d) = n * ((-c) * e) - c * d
        BY <1>1, <1>5, <3>1, <3>2
      <4>3. n * ((-c) * e - 1) = n * ((-c) * e) - n
        BY <1>1, <3>1, <3>2
      <4>4. d * c = c * d
        BY <1>5, <3>1
      <4>5. PICK s, t, u \in Int : s = n * ((-c) * e) /\ t = c * d /\ u = n * ((-c) * e - 1)
        BY <1>1, <1>5, <3>1, <3>2
      <4>6. x * ((-c) * y) = s - t
        BY <3>2, <4>1, <4>2, <4>5
      <4>7. u = s - n /\ n = t + r
        BY <3>1, <4>3, <4>4, <4>5
      <4>8. s - t = u + r
        <5>1. r \in Int
          BY <1>5
        <5>2. u = s - n /\ n = t + r
          BY <4>7
        <5> QED BY <5>1, <5>2
      <4> QED BY <4>5, <4>6, <4>8
    <3>4. r \in T
      <4>1. r \in 0..(n - 1) /\ (-c) * e - 1 \in Int /\ (-c) * y \in Int
        BY <1>1, <1>5, <2>1, <3>1, <3>2
      <4>2. (x * ((-c) * y)) % n = r
        BY <1>1, <3>3, <4>1, DivisionUnique
      <4>3. r \in 1..(n - 1)
        BY <2>3, <4>1
      <4> QED BY <1>2, <4>1, <4>2, <4>3
    <3> QED BY <1>4, <1>5, <2>1, <3>4
  <2> QED BY <2>2, <2>3
<1>7. d = 1
  BY <1>1, <1>5, <1>6
<1> QED BY <1>5, <1>7

\* mpz_invert finds it (mat.c:590, 645).
LEMMA InverseOfResidue ==
  ASSUME NEW n \in Nat, IsPrime(n), NEW x \in 1..(n - 1)
  PROVE  InverseMod(x, n) \in Residues(n) /\ Congruent(x * InverseMod(x, n), 1, n)
<1>1. n > 1 /\ n # 0
  BY DEF IsPrime
<1>2. 1 % n = 1
  <2>1. ((n * 0) + 1) % n = 1
    BY <1>1, DivisionUnique
  <2> QED BY <1>1, <2>1
<1>3. \E y \in Residues(n) : (x * y) % n = 1
  <2>1. PICK y \in Int : (x * y) % n = 1
    BY InverseExists
  <2>2. PICK r \in Int : r = y % n /\ r \in 0..(n - 1) /\ Congruent(r, y, n)
    <3>1. y % n \in 0..(n - 1) /\ y % n \in Int /\ Congruent(y % n, y, n)
      BY <1>1, CongruentMod
    <3> QED BY <3>1
  <2>3. Congruent(x * r, x * y, n)
    <3>1. x \in Int
      BY <1>1
    <3> QED BY <1>1, <2>2, <3>1, CongruentMul, CongruentRefl
  <2>4. (x * r) % n = (x * y) % n
    <3>1. PICK s, t \in Int : s = x * r /\ t = x * y /\ Congruent(s, t, n)
      BY <2>3
    <3>2. s % n = t % n
      BY <1>1, <3>1, SameRemainder
    <3> QED BY <3>1, <3>2
  <2> QED BY <2>1, <2>2, <2>4 DEF Residues
<1>4. PICK y : y = InverseMod(x, n) /\ y \in Residues(n) /\ (x * y) % n = 1
  <2>1. \E y \in Residues(n) : (x * y) % n = 1 % n
    BY <1>2, <1>3
  <2> QED BY <1>2, <2>1 DEF InverseMod
<1>5. Congruent(x * y, 1, n)
  <2>1. PICK s \in Int : s = x * y
    BY <1>1, <1>4 DEF Residues
  <2>2. Congruent(1, s, n)
    BY <1>1, <1>4, <2>1, CongruentMod
  <2> QED BY <1>1, <2>1, <2>2, CongruentSym
<1> QED BY <1>4, <1>5

\* A residue other than 0 does not divide 0.
LEMMA NoZeroDivisors ==
  ASSUME NEW n \in Nat, IsPrime(n), NEW x \in 1..(n - 1), NEW y \in Int, Congruent(y * x, 0, n)
  PROVE  Congruent(y, 0, n)
<1>1. n > 1 /\ n # 0
  BY DEF IsPrime
<1>2. PICK z \in Int : z \in Residues(n) /\ Congruent(x * z, 1, n)
  <2>1. Residues(n) \subseteq Int
    BY <1>1 DEF Residues
  <2> QED BY <2>1, InverseOfResidue
<1>3. Congruent(y * (x * z), y * 1, n)
  <2>1. PICK s \in Int : s = x * z
    BY <1>1
  <2> QED BY <1>1, <1>2, <2>1, CongruentMul, CongruentRefl
<1>4. Congruent((y * x) * z, 0 * z, n)
  <2>1. PICK s \in Int : s = y * x
    BY <1>1
  <2> QED BY <1>1, <1>2, <2>1, CongruentMul, CongruentRefl
<1>5. PICK s \in Int : s = y * (x * z) /\ s = (y * x) * z
  BY <1>1
<1>6. Congruent(s, y, n) /\ Congruent(s, 0, n)
  BY <1>2, <1>3, <1>4, <1>5
<1>7. Congruent(y, s, n)
  BY <1>1, <1>5, <1>6, CongruentSym
<1> QED BY <1>1, <1>5, <1>6, <1>7, CongruentTrans

\* Congruent residues are equal.
LEMMA EqualResidues ==
  ASSUME NEW n \in Nat, NEW x \in Residues(n), NEW y \in Residues(n), Congruent(x, y, n)
  PROVE  x = y
<1>1. x \in 0..(n - 1) /\ y \in 0..(n - 1) /\ n # 0 /\ x \in Int /\ y \in Int
  BY DEF Residues
<1>2. x % n = y % n
  BY <1>1, SameRemainder
<1>3. ((n * 0) + x) % n = x /\ ((n * 0) + y) % n = y
  BY <1>1, DivisionUnique
<1>4. (n * 0) + x = x /\ (n * 0) + y = y
  BY <1>1
<1> QED BY <1>2, <1>3, <1>4

\* Numbers with the same remainder are congruent.
LEMMA CongruentWhenSame ==
  ASSUME NEW n \in Nat, n # 0, NEW x \in Int, NEW y \in Int
  PROVE  x % n = y % n <=> Congruent(x, y, n)
<1>1. ASSUME x % n = y % n PROVE Congruent(x, y, n)
  <2>1. PICK r \in Int : r = x % n /\ r = y % n /\ Congruent(r, x, n) /\ Congruent(r, y, n)
    BY <1>1, CongruentMod
  <2>2. Congruent(x, r, n)
    BY <2>1, CongruentSym
  <2> QED BY <2>1, <2>2, CongruentTrans
<1> QED BY <1>1, SameRemainder

-----------------------------------------------------------------------------
(* Rows *)

\* f has the terms of the inner product of y and a.
AreTerms(f, y, a, D) == f = [j \in D |-> y[j] * a[j]]

\* A row of a system with one term apart.
LEMMA DotSplit ==
  ASSUME NEW D, NEW c, NEW y, NEW a, NEW f, IsFiniteSet(D), c \in D,
         y \in [D -> Int], a \in [D -> Int], AreTerms(f, y, a, D)
  PROVE  /\ SumFunctionOnSet(f, D \ {c}) \in Int
         /\ Dot(y, a) = y[c] * a[c] + SumFunctionOnSet(f, D \ {c})
<1>1. \A j \in D : f[j] \in Int
  BY DEF AreTerms
<1>2. Dot(y, a) = SumFunctionOnSet(f, D)
  BY DotIsSum DEF AreTerms
<1>3. SumFunctionOnSet(f, D) = f[c] + SumFunctionOnSet(f, D \ {c})
  BY <1>1, SumRemove
<1>4. SumFunctionOnSet(f, D \ {c}) \in Int
  <2>1. IsFiniteSet(D \ {c})
    BY FS_RemoveElement
  <2>2. \A j \in D \ {c} : f[j] \in Int
    BY <1>1
  <2> QED BY <2>1, <2>2, SumIsInt
<1>5. f[c] = y[c] * a[c]
  BY DEF AreTerms
<1> QED BY <1>2, <1>3, <1>4, <1>5

\* The rest does not depend on this coefficient.
LEMMA DotReplaced ==
  ASSUME NEW D, NEW c, NEW y, NEW z, NEW a, NEW f, IsFiniteSet(D), c \in D,
         y \in [D -> Int], z \in [D -> Int], a \in [D -> Int], AreTerms(f, y, a, D),
         \A j \in D : j # c => z[j] = y[j]
  PROVE  Dot(z, a) = z[c] * a[c] + SumFunctionOnSet(f, D \ {c})
<1>1. PICK g : AreTerms(g, z, a, D)
  BY DEF AreTerms
<1>2. Dot(z, a) = z[c] * a[c] + SumFunctionOnSet(g, D \ {c})
  BY <1>1, DotSplit
<1>3. PICK E : E = D \ {c} /\ IsFiniteSet(E)
  BY FS_RemoveElement
<1>4. \A j \in E : g[j] = f[j]
  BY <1>1, <1>3 DEF AreTerms
<1>5. SumFunctionOnSet(g, E) = SumFunctionOnSet(f, E)
  BY <1>3, <1>4, SumCongruence
<1> QED BY <1>2, <1>3, <1>5

\* Coefficients matter only in columns that are not 0.
LEMMA DotUnchanged ==
  ASSUME NEW D, NEW y, NEW z, NEW a, IsFiniteSet(D),
         y \in [D -> Int], z \in [D -> Int], a \in [D -> Int],
         \A j \in D : y[j] = z[j] \/ a[j] = 0
  PROVE  Dot(y, a) = Dot(z, a)
<1>1. PICK f, g : f = [j \in D |-> y[j] * a[j]] /\ g = [j \in D |-> z[j] * a[j]]
  OBVIOUS
<1>2. Dot(y, a) = SumFunctionOnSet(f, D) /\ Dot(z, a) = SumFunctionOnSet(g, D)
  BY <1>1, DotIsSum
<1>3. \A j \in D : f[j] = g[j]
  <2>1. SUFFICES ASSUME NEW j \in D PROVE y[j] * a[j] = z[j] * a[j]
    BY <1>1
  <2>2. y[j] \in Int /\ z[j] \in Int /\ a[j] \in Int
    OBVIOUS
  <2>3. \A s \in Int : s * 0 = 0
    OBVIOUS
  <2> QED BY <2>2, <2>3
<1> QED BY <1>2, <1>3, SumCongruence

\* Columns without a coefficient count as columns with the coefficient 0.
LEMMA DotSubset ==
  ASSUME NEW D, NEW K, NEW x, NEW y, NEW a, IsFiniteSet(D), K \subseteq D,
         x \in [K -> Int], y \in [D -> Int], a \in [D -> Int],
         \A j \in K : x[j] = y[j], \A j \in D : j \notin K => y[j] = 0
  PROVE  Dot(x, a) = Dot(y, a)
<1>1. PICK f, g : f = [j \in K |-> x[j] * a[j]] /\ g = [j \in D |-> y[j] * a[j]]
  OBVIOUS
<1>2. Dot(x, a) = SumFunctionOnSet(f, K)
  BY <1>1 DEF Dot, SumFunction
<1>3. Dot(y, a) = SumFunctionOnSet(g, D) /\ \A j \in D : g[j] \in Int
  BY <1>1, DotIsSum
<1>4. IsFiniteSet(K) /\ IsFiniteSet(D \ K)
  BY FS_Subset
<1>5. SumFunctionOnSet(f, K) = SumFunctionOnSet(g, K)
  <2>1. \A j \in K : f[j] = g[j]
    BY <1>1
  <2> QED BY <1>4, <2>1, SumCongruence
<1>6. SumFunctionOnSet(g, D \ K) = 0
  <2>1. \A j \in D \ K : g[j] = 0
    <3>1. SUFFICES ASSUME NEW j \in D \ K PROVE y[j] * a[j] = 0
      BY <1>1
    <3>2. y[j] = 0 /\ a[j] \in Int
      OBVIOUS
    <3> QED BY <3>2
  <2> QED BY <1>4, <2>1, SumOfZeros
<1>7. SumFunctionOnSet(g, D) = SumFunctionOnSet(g, K) + SumFunctionOnSet(g, D \ K)
  <2>1. K \cup (D \ K) = D /\ K \cap (D \ K) = {}
    OBVIOUS
  <2>2. PICK E : E = D \ K
    OBVIOUS
  <2>3. SumFunctionOnSet(g, K \cup E) = SumFunctionOnSet(g, K) + SumFunctionOnSet(g, E)
    BY <1>3, <1>4, <2>1, <2>2, SumOfUnion
  <2> QED BY <2>1, <2>2, <2>3
<1>8. SumFunctionOnSet(g, K) \in Int
  BY <1>3, <1>4, SumIsInt
<1> QED BY <1>2, <1>3, <1>5, <1>6, <1>7, <1>8

\* Subtracting a multiple of one row from another one, with remainders, subtracts it from
\* what they say (mat.c:597-617).
LEMMA RowElimination ==
  ASSUME NEW n \in Nat, n # 0, NEW e \in Int, NEW D, NEW y, NEW a, NEW b, NEW z, IsFiniteSet(D),
         y \in [D -> Int], a \in [D -> Int], b \in [D -> Int], z \in [D -> Int],
         \A j \in D : Congruent(z[j], a[j] - b[j] * e, n)
  PROVE  /\ {Dot(y, z), Dot(y, a), Dot(y, b)} \subseteq Int
         /\ Congruent(Dot(y, z), Dot(y, a) - Dot(y, b) * e, n)
<1>1. PICK c \in Int : c = -e
  OBVIOUS
<1>2. PICK u \in [D -> Int] : \A j \in D : u[j] = a[j] + c * b[j] /\ u[j] = a[j] - b[j] * e
  <2> DEFINE w == [j \in D |-> a[j] + c * b[j]]
  <2>1. \A s, t \in Int : s + c * t = s - t * e /\ s + c * t \in Int
    BY <1>1
  <2>2. \A j \in D : a[j] \in Int /\ b[j] \in Int
    OBVIOUS
  <2>3. \A j \in D : a[j] + c * b[j] = a[j] - b[j] * e /\ a[j] + c * b[j] \in Int
    BY <2>1, <2>2
  <2>4. w \in [D -> Int] /\ \A j \in D : w[j] = a[j] + c * b[j] /\ w[j] = a[j] - b[j] * e
    BY <2>3
  <2> HIDE DEF w
  <2> QED BY <2>4
<1>3. Dot(u, y) = Dot(a, y) + c * Dot(b, y)
  <2>1. IsCombination(u, a, c, b, D)
    BY <1>2 DEF IsCombination
  <2> QED BY <2>1, DotLinear
<1>4. Congruent(Dot(z, y), Dot(u, y), n)
  <2>1. \A j \in D : Congruent(z[j], u[j], n)
    BY <1>2
  <2> QED BY <2>1, DotCongruent
<1>5. Dot(y, z) = Dot(z, y) /\ Dot(y, a) = Dot(a, y) /\ Dot(y, b) = Dot(b, y)
  BY DotCommutes
<1>6. Dot(a, y) \in Int /\ Dot(b, y) \in Int /\ Dot(z, y) \in Int
  BY DotIsInt
<1>7. PICK s, t \in Int : s = Dot(a, y) /\ t = Dot(b, y)
  BY <1>6
<1>8. s + c * t = s - t * e
  BY <1>1
<1> QED BY <1>3, <1>4, <1>5, <1>6, <1>7, <1>8

\* The coefficient u follows from w, the sum S of the other terms and the entry x.
IsSubstituted(u, w, S, x, n) == u = ((w - S) * InverseMod(x, n)) % n

\* What the substitution computes makes the row true (mat.c:632-648).
LEMMA SubstitutionSolves ==
  ASSUME NEW n \in Nat, IsPrime(n), NEW w \in Int, NEW u \in Int,
         NEW D, NEW c, NEW y, NEW z, NEW a, NEW f, IsFiniteSet(D), c \in D,
         y \in [D -> Int], z \in [D -> Int], a \in [D -> Int], a[c] \in 1..(n - 1),
         AreTerms(f, y, a, D), z[c] = u, \A j \in D : j # c => z[j] = y[j],
         IsSubstituted(u, w, SumFunctionOnSet(f, D \ {c}), a[c], n)
  PROVE  u \in Residues(n) /\ Congruent(Dot(z, a), w, n)
<1>1. n > 1 /\ n # 0
  BY DEF IsPrime
<1>2. PICK S \in Int : S = SumFunctionOnSet(f, D \ {c})
  BY DotSplit
<1>3. PICK x \in Int : x = a[c] /\ x \in 1..(n - 1)
  OBVIOUS
<1>4. PICK i \in Int : i = InverseMod(x, n) /\ Congruent(x * i, 1, n)
  <2>1. InverseMod(x, n) \in Residues(n) /\ Congruent(x * InverseMod(x, n), 1, n)
    BY <1>3, InverseOfResidue
  <2>2. InverseMod(x, n) \in Int
    BY <2>1 DEF Residues
  <2> QED BY <2>1, <2>2
<1>5. PICK t \in Int : t = (w - S) * i
  OBVIOUS
<1>6. u = t % n
  BY <1>2, <1>3, <1>4, <1>5 DEF IsSubstituted
<1>7. u \in Residues(n) /\ Congruent(u, t, n)
  <2>1. t % n \in 0..(n - 1) /\ Congruent(t % n, t, n)
    BY <1>1, CongruentMod
  <2> QED BY <1>6, <2>1 DEF Residues
<1>8. Dot(z, a) = z[c] * a[c] + SumFunctionOnSet(f, D \ {c})
  BY DotReplaced
<1>9. Dot(z, a) = u * x + S
  BY <1>2, <1>3, <1>8
<1>10. Congruent(u * x, w - S, n)
  <2>1. Congruent(u * x, t * x, n)
    BY <1>7, CongruentMul, CongruentRefl
  <2>2. PICK d \in Int : d = w - S
    OBVIOUS
  <2>3. Congruent(d * (x * i), d * 1, n)
    <3>1. PICK e \in Int : e = x * i
      OBVIOUS
    <3> QED BY <1>4, <3>1, CongruentMul, CongruentRefl
  <2>4. t * x = d * (x * i) /\ d * 1 = d
    BY <1>5, <2>2
  <2>5. PICK e, g \in Int : e = u * x /\ g = t * x
    OBVIOUS
  <2>6. Congruent(e, g, n) /\ Congruent(g, d, n)
    BY <2>1, <2>3, <2>4, <2>5
  <2>7. Congruent(e, d, n)
    BY <2>6, CongruentTrans
  <2> QED BY <2>2, <2>5, <2>7
<1>11. Congruent(u * x + S, (w - S) + S, n)
  <2>1. PICK e, g \in Int : e = u * x /\ g = w - S
    OBVIOUS
  <2>2. Congruent(e + S, g + S, n)
    BY <1>10, <2>1, CongruentAdd, CongruentRefl
  <2> QED BY <2>1, <2>2
<1>12. (w - S) + S = w
  OBVIOUS
<1> QED BY <1>7, <1>9, <1>11, <1>12

\* A row determines a coefficient when the others are given (the columns where it is 0
\* aside).
LEMMA OneUnknown ==
  ASSUME NEW n \in Nat, IsPrime(n), NEW D, NEW c, NEW y, NEW z, NEW a, IsFiniteSet(D), c \in D,
         y \in [D -> Residues(n)], z \in [D -> Residues(n)], a \in [D -> Int],
         a[c] \in 1..(n - 1), \A j \in D : j = c \/ y[j] = z[j] \/ a[j] = 0,
         Congruent(Dot(y, a), Dot(z, a), n)
  PROVE  y[c] = z[c]
<1>1. n > 1 /\ n # 0 /\ Residues(n) \subseteq Int
  BY DEF IsPrime, Residues
<1>2. PICK s, t, x \in Int : /\ s = y[c] /\ t = z[c] /\ x = a[c] /\ x \in 1..(n - 1)
                             /\ s \in Residues(n) /\ t \in Residues(n)
  BY <1>1
<1>3. y \in [D -> Int] /\ z \in [D -> Int]
  BY <1>1
<1>4. PICK u \in [D -> Int] : u[c] = t /\ \A j \in D : j # c => u[j] = y[j]
  <2>1. [y EXCEPT ![c] = t] \in [D -> Int]
    BY <1>3
  <2> QED BY <1>3, <2>1
<1>5. \A j \in D : u[j] = z[j] \/ a[j] = 0
  BY <1>2, <1>4
<1>6. Dot(u, a) = Dot(z, a)
  BY <1>3, <1>5, DotUnchanged
<1>7. PICK S \in Int : Dot(y, a) = s * x + S /\ Dot(u, a) = t * x + S
  <2>1. PICK f : AreTerms(f, y, a, D)
    BY DEF AreTerms
  <2>2. SumFunctionOnSet(f, D \ {c}) \in Int /\ Dot(y, a) = y[c] * a[c] + SumFunctionOnSet(f, D \ {c})
    BY <1>3, <2>1, DotSplit
  <2>3. Dot(u, a) = u[c] * a[c] + SumFunctionOnSet(f, D \ {c})
    BY <1>3, <1>4, <2>1, DotReplaced
  <2> QED BY <1>2, <1>4, <2>2, <2>3
<1>8. Congruent(s * x + S, t * x + S, n)
  BY <1>6, <1>7
<1>9. Congruent((s - t) * x, 0, n)
  <2>1. PICK d, e \in Int : d = s * x /\ e = t * x
    OBVIOUS
  <2>2. PICK f \in Int : d + S = e + S + n * f
    BY <1>8, <2>1 DEF Congruent
  <2>3. (s - t) * x = d - e
    BY <2>1
  <2>4. d - e = 0 + n * f
    <3>1. PICK g \in Int : g = n * f
      OBVIOUS
    <3> QED BY <2>2, <3>1
  <2> QED BY <2>3, <2>4 DEF Congruent
<1>10. PICK d \in Int : d = s - t
  OBVIOUS
<1>11. Congruent(d, 0, n)
  BY <1>2, <1>9, <1>10, NoZeroDivisors
<1>12. Congruent(s, t, n)
  <2>1. PICK f \in Int : d = 0 + n * f
    BY <1>11 DEF Congruent
  <2>2. s = t + n * f
    <3>1. PICK g \in Int : g = n * f
      OBVIOUS
    <3> QED BY <1>10, <2>1, <3>1
  <2> QED BY <2>2 DEF Congruent
<1> QED BY <1>2, <1>12, EqualResidues

\* Where no column has both a coefficient and an entry there is nothing to sum.
LEMMA DotZero ==
  ASSUME NEW D, NEW y, NEW a, IsFiniteSet(D), y \in [D -> Int], a \in [D -> Int],
         \A j \in D : y[j] = 0 \/ a[j] = 0
  PROVE  Dot(y, a) = 0
<1>1. PICK f : f = [j \in D |-> y[j] * a[j]]
  OBVIOUS
<1>2. Dot(y, a) = SumFunctionOnSet(f, D)
  BY <1>1, DotIsSum
<1>3. \A j \in D : f[j] = 0
  <2>1. SUFFICES ASSUME NEW j \in D PROVE y[j] * a[j] = 0
    BY <1>1
  <2>2. y[j] \in Int /\ a[j] \in Int
    OBVIOUS
  <2>3. \A s \in Int : s * 0 = 0 /\ 0 * s = 0
    OBVIOUS
  <2> QED BY <2>2, <2>3
<1> QED BY <1>2, <1>3, SumOfZeros

\* A column is a combination of others when these and the column taken n - 1 times are 0
\* together.
LEMMA ColumnOut ==
  ASSUME NEW n \in Nat, n > 0, NEW D, NEW c, NEW x, NEW y, NEW a, IsFiniteSet(D), c \in D,
         x \in [D -> Int], y \in [D -> Int], a \in [D -> Int],
         y[c] = 0, x[c] = n - 1, \A j \in D : j # c => x[j] = y[j]
  PROVE  Congruent(Dot(x, a), 0, n) <=> Congruent(Dot(y, a), a[c], n)
<1>1. PICK f : AreTerms(f, y, a, D)
  BY DEF AreTerms
<1>2. PICK S \in Int : S = SumFunctionOnSet(f, D \ {c}) /\ Dot(y, a) = y[c] * a[c] + S
  <2>1. /\ SumFunctionOnSet(f, D \ {c}) \in Int
        /\ Dot(y, a) = y[c] * a[c] + SumFunctionOnSet(f, D \ {c})
    BY <1>1, DotSplit
  <2> QED BY <2>1
<1>3. Dot(x, a) = x[c] * a[c] + S
  BY <1>1, <1>2, DotReplaced
<1>4. PICK e \in Int : e = a[c]
  OBVIOUS
<1>5. Dot(y, a) = S /\ Dot(x, a) = (n - 1) * e + S
  BY <1>2, <1>3, <1>4
<1>6. PICK d \in Int : d = n * e /\ (n - 1) * e + S = d - e + S
  OBVIOUS
<1>7. ASSUME Congruent(d - e + S, 0, n) PROVE Congruent(S, e, n)
  <2>1. PICK b \in Int : d - e + S = 0 + n * b
    BY <1>7 DEF Congruent
  <2>2. S = e + n * (b - e)
    <3>1. PICK g \in Int : g = n * b
      OBVIOUS
    <3>2. n * (b - e) = g - d
      BY <1>6, <3>1
    <3> QED BY <2>1, <3>1, <3>2
  <2>3. b - e \in Int
    OBVIOUS
  <2> QED BY <2>2, <2>3 DEF Congruent
<1>8. ASSUME Congruent(S, e, n) PROVE Congruent(d - e + S, 0, n)
  <2>1. PICK b \in Int : S = e + n * b
    BY <1>8 DEF Congruent
  <2>2. d - e + S = 0 + n * (b + e)
    <3>1. PICK g \in Int : g = n * b
      OBVIOUS
    <3>2. n * (b + e) = g + d
      BY <1>6, <3>1
    <3> QED BY <2>1, <3>1, <3>2
  <2>3. b + e \in Int
    OBVIOUS
  <2> QED BY <2>2, <2>3 DEF Congruent
<1> QED BY <1>4, <1>5, <1>6, <1>7, <1>8

\* What a row says, as a congruence.
LEMMA RowCongruent ==
  ASSUME NEW n \in Nat, n > 0, NEW K, NEW D, NEW R, NEW A, NEW x, NEW w, NEW i, IsFiniteSet(D),
         K \subseteq D, i \in R, A[i] \in [D -> Int], x \in [K -> Int], w[i] \in Int
  PROVE  Dot(x, A[i]) \in Int /\ (RowHolds(A, x, w, i, n) <=> Congruent(Dot(x, A[i]), w[i], n))
<1>1. PICK y \in [D -> Int] : /\ \A j \in K : x[j] = y[j]
                              /\ \A j \in D : j \notin K => y[j] = 0
  <2>1. [j \in D |-> IF j \in K THEN x[j] ELSE 0] \in [D -> Int]
    OBVIOUS
  <2> QED BY <2>1
<1>2. Dot(x, A[i]) = Dot(y, A[i])
  BY <1>1, DotSubset
<1>3. Dot(y, A[i]) \in Int
  BY DotIsInt
<1>4. PICK s, t \in Int : s = Dot(x, A[i]) /\ t = w[i]
  BY <1>2, <1>3
<1>5. s % n = t % n <=> Congruent(s, t, n)
  <2>1. n # 0
    OBVIOUS
  <2> QED BY <2>1, CongruentWhenSame
<1> QED BY <1>4, <1>5 DEF RowHolds

-----------------------------------------------------------------------------
(* The system and its echelon form *)

\* The shapes of the system that is solved.
LEMMA Shapes ==
  ASSUME TypeOK
  PROVE  /\ p \in Nat /\ p > 1 /\ p # 0 /\ IsPrime(p) /\ Residues(p) \subseteq Int
         /\ arg.rows \in Nat /\ arg.rows # 0 /\ arg.cols \in Nat
         /\ IsFiniteSet(Rows) /\ IsFiniteSet(Cols)
         /\ DOMAIN m = Rows /\ DOMAIN arg.mat = Rows
         /\ \A i \in Rows : /\ m[i] \in [Cols -> Residues(p)] /\ m[i] \in [Cols -> Int]
                            /\ v[i] \in Residues(p) /\ v[i] \in Int
                            /\ arg.mat[i] \in [Cols -> Int] /\ arg.vec[i] \in Int
<1>1. /\ p \in Nat /\ p > 1 /\ p # 0 /\ IsPrime(p)
      /\ arg.rows \in Nat /\ arg.rows # 0 /\ arg.cols \in Nat
  BY DEF TypeOK, IsInput, p, IsPrime
<1>2. Residues(p) \subseteq Int
  BY <1>1 DEF Residues
<1>3. IsFiniteSet(Rows) /\ IsFiniteSet(Cols)
  <2>1. PICK a, b \in Int : a = arg.rows - 1 /\ b = arg.cols - 1
    BY <1>1
  <2>2. IsFiniteSet(0..a) /\ IsFiniteSet(0..b)
    BY FS_Interval
  <2> QED BY <2>1, <2>2 DEF Rows, Cols
<1>4. DOMAIN m = Rows /\ \A i \in Rows : m[i] \in [Cols -> Residues(p)] /\ v[i] \in Residues(p)
  BY DEF TypeOK
<1>5. arg.mat \in [Rows -> [Cols -> Int]] /\ arg.vec \in [Rows -> Int]
  BY DEF TypeOK, IsInput, Rows, Cols
<1>6. \A i \in Rows : m[i] \in [Cols -> Int] /\ v[i] \in Int
  BY <1>2, <1>4
<1> QED BY <1>1, <1>2, <1>3, <1>4, <1>5, <1>6

\* The columns before c that lead a row suffice: with coefficients for them alone, y makes
\* the rows from t on hold that begin there.
IsBack(y, w, n, lead, c, t) ==
  /\ y \in [Cols -> Residues(p)]
  /\ \A j \in Cols : y[j] = 0 \/ \E i \in 0..(n - 1) : lead[i] = j /\ j < c
  /\ \A i \in 0..(n - 1) : i >= t /\ lead[i] < c => Congruent(Dot(y, m[i]), w[i], p)

\* One row more: its leading column gets what the substitution computes.
LEMMA BackStep ==
  ASSUME TypeOK, NEW n \in 0..arg.rows, NEW lead, Echelon(n, arg.cols, lead),
         NEW w, \A i \in Rows : w[i] \in Int, NEW c \in Int, NEW t \in 0..(n - 1),
         NEW y, IsBack(y, w, n, lead, c, t + 1)
  PROVE  \E z : IsBack(z, w, n, lead, c, t)
<1>1. PICK q \in Nat : q = p /\ q > 1 /\ IsPrime(q) /\ Residues(q) \subseteq Int
  BY Shapes
<1>2. IsFiniteSet(Cols) /\ y \in [Cols -> Residues(q)] /\ y \in [Cols -> Int] /\ arg.rows \in Nat
  BY <1>1, Shapes DEF IsBack
<1>3. \A i \in 0..(n - 1) : i \in Rows /\ m[i] \in [Cols -> Residues(q)] /\ m[i] \in [Cols -> Int]
  BY <1>1, <1>2, Shapes DEF Rows
<1>4. CASE ~(lead[t] < c)
  <2>1. \A i \in 0..(n - 1) : i >= t /\ lead[i] < c => i >= t + 1
    BY <1>4
  <2> QED BY <2>1 DEF IsBack
<1>5. CASE lead[t] < c
  <2>1. PICK b \in Cols : b = lead[t] /\ m[t][b] # 0
    BY <1>2, Shapes DEF Echelon, Cols
  <2>2. PICK a \in [Cols -> Int] : a = m[t] /\ a[b] \in 1..(q - 1)
    BY <1>1, <1>3, <2>1 DEF Residues
  <2>3. PICK f : AreTerms(f, y, a, Cols)
    BY DEF AreTerms
  <2>4. PICK S \in Int : S = SumFunctionOnSet(f, Cols \ {b})
    BY <1>2, <2>3, DotSplit
  <2>5. PICK e \in Int : e = w[t]
    BY <1>3
  <2>6. PICK u \in Int : IsSubstituted(u, e, S, a[b], q)
    <3>1. InverseMod(a[b], q) \in Int
      BY <1>1, <2>2, InverseOfResidue
    <3>2. PICK x \in Int : x = (e - S) * InverseMod(a[b], q)
      BY <3>1
    <3>3. x % q \in Int
      BY <1>1, CongruentMod
    <3> QED BY <3>2, <3>3 DEF IsSubstituted
  <2>7. PICK z \in [Cols -> Int] : z[b] = u /\ \A j \in Cols : j # b => z[j] = y[j]
    <3>1. [y EXCEPT ![b] = u] \in [Cols -> Int]
      BY <1>2
    <3> QED BY <1>2, <3>1
  <2>8. u \in Residues(q) /\ Congruent(Dot(z, a), e, q)
    <3>1. IsSubstituted(u, e, SumFunctionOnSet(f, Cols \ {b}), a[b], q)
      BY <2>4, <2>6
    <3> QED BY <1>1, <1>2, <2>2, <2>3, <2>7, <3>1, SubstitutionSolves
  <2>9. z \in [Cols -> Residues(p)]
    BY <1>1, <1>2, <2>7, <2>8
  <2>10. \A j \in Cols : z[j] = 0 \/ \E i \in 0..(n - 1) : lead[i] = j /\ j < c
    BY <1>5, <2>1, <2>7 DEF IsBack
  <2>11. ASSUME NEW i \in 0..(n - 1), i >= t, lead[i] < c PROVE Congruent(Dot(z, m[i]), w[i], p)
    <3>1. CASE i = t
      BY <1>1, <2>2, <2>5, <2>8, <3>1
    <3>2. CASE i # t
      <4>1. i >= t + 1 /\ t < i
        BY <2>11, <3>2
      <4>2. Congruent(Dot(y, m[i]), w[i], p)
        BY <2>11, <4>1 DEF IsBack
      <4>3. m[i][b] = 0
        BY <2>1, <4>1 DEF Echelon, Cols
      <4>4. Dot(z, m[i]) = Dot(y, m[i])
        <5>1. \A j \in Cols : z[j] = y[j] \/ m[i][j] = 0
          BY <2>7, <4>3
        <5>2. PICK d \in [Cols -> Int] : d = m[i]
          BY <1>3
        <5>3. Dot(z, d) = Dot(y, d)
          BY <1>2, <2>7, <5>1, <5>2, DotUnchanged
        <5> QED BY <5>2, <5>3
      <4> QED BY <4>2, <4>4
    <3> QED BY <3>1, <3>2
  <2>12. IsBack(z, w, n, lead, c, t)
    BY <2>9, <2>10, <2>11 DEF IsBack
  <2> QED BY <2>12
<1> QED BY <1>4, <1>5

\* So a system in echelon form has a solution that is zero outside the leading columns.
LEMMA BackExists ==
  ASSUME TypeOK, NEW n \in 0..arg.rows, NEW lead, Echelon(n, arg.cols, lead),
         NEW w, \A i \in Rows : w[i] \in Int, NEW c \in Int
  PROVE  \E y : IsBack(y, w, n, lead, c, 0)
<1>1. n \in Nat
  BY Shapes
<1>2. PICK P \in SUBSET Nat : \A d \in Nat : d \in P <=> (d <= n => \E y : IsBack(y, w, n, lead, c, n - d))
  <2> DEFINE S == {d \in Nat : d <= n => \E y : IsBack(y, w, n, lead, c, n - d)}
  <2>1. S \in SUBSET Nat /\ \A d \in Nat : d \in S <=> (d <= n => \E y : IsBack(y, w, n, lead, c, n - d))
    OBVIOUS
  <2> HIDE DEF S
  <2> QED BY <2>1
<1>3. 0 \in P
  <2>1. PICK y : y = [j \in Cols |-> 0]
    OBVIOUS
  <2>2. 0 \in Residues(p)
    BY Shapes DEF Residues
  <2>3. \A i \in 0..(n - 1) : ~(i >= n - 0)
    BY <1>1
  <2>4. IsBack(y, w, n, lead, c, n - 0)
    BY <2>1, <2>2, <2>3 DEF IsBack
  <2> QED BY <1>2, <2>4
<1>4. ASSUME NEW d \in Nat, d \in P PROVE d + 1 \in P
  <2>1. SUFFICES ASSUME d + 1 <= n PROVE \E y : IsBack(y, w, n, lead, c, n - (d + 1))
    BY <1>2
  <2>2. PICK t \in 0..(n - 1) : t = n - (d + 1) /\ t + 1 = n - d
    BY <1>1, <2>1
  <2>3. PICK y : IsBack(y, w, n, lead, c, t + 1)
    BY <1>1, <1>2, <1>4, <2>1, <2>2
  <2>4. \E z : IsBack(z, w, n, lead, c, t)
    BY <2>3, BackStep
  <2> QED BY <2>2, <2>4
<1>5. n \in P
  <2>1. Nat \subseteq P
    BY <1>3, <1>4, InductionOnNat
  <2> QED BY <1>1, <2>1
<1>6. \E y : IsBack(y, w, n, lead, c, n - n)
  BY <1>1, <1>2, <1>5
<1>7. n - n = 0
  BY <1>1
<1> QED BY <1>6, <1>7

\* The column c is a combination y of the columns before it.
IsSpannedBy(y, A, c) ==
  /\ y \in [Cols -> Residues(p)] /\ \A j \in Cols : j >= c => y[j] = 0
  /\ \A i \in Rows : Congruent(Dot(y, A[i]), A[i][c], p)

\* Columns that lead no row are combinations of the columns before them.
LEMMA OthersAreSpanned ==
  ASSUME TypeOK, NEW n \in 0..arg.rows, NEW lead, Echelon(n, arg.cols, lead),
         NEW c \in Cols, \A i \in 0..(n - 1) : lead[i] # c
  PROVE  \E y : IsSpannedBy(y, m, c)
<1>1. n \in Nat /\ c \in Int /\ IsFiniteSet(Cols) /\ p \in Nat /\ Residues(p) \subseteq Int
  BY Shapes DEF Cols
<1>2. \A i \in 0..(n - 1) : lead[i] \in Int /\ lead[i] \in Cols
  BY Shapes DEF Echelon, Cols
<1>3. PICK w : \A i \in Rows : w[i] = m[i][c] /\ w[i] \in Int
  <2>1. PICK w : w = [i \in Rows |-> m[i][c]]
    OBVIOUS
  <2>2. \A i \in Rows : m[i][c] \in Int
    BY Shapes
  <2> QED BY <2>1, <2>2
<1>4. PICK y : IsBack(y, w, n, lead, c, 0)
  BY <1>1, <1>3, BackExists
<1>5. y \in [Cols -> Residues(p)] /\ y \in [Cols -> Int]
  BY <1>1, <1>4 DEF IsBack
<1>6. \A j \in Cols : j >= c => y[j] = 0
  <2>1. \A j \in Cols : j \in Int
    BY DEF Cols
  <2> QED BY <1>1, <1>4, <2>1 DEF IsBack
<1>7. ASSUME NEW i \in Rows, \A j \in Cols : j <= c => m[i][j] = 0
      PROVE  Congruent(Dot(y, m[i]), m[i][c], p)
  <2>1. \A j \in Cols : y[j] = 0 \/ m[i][j] = 0
    <3>1. \A j \in Cols : j >= c \/ j <= c
      BY DEF Cols
    <3> QED BY <1>6, <1>7, <3>1
  <2>2. Dot(y, m[i]) = 0
    <3>1. PICK a \in [Cols -> Int] : a = m[i]
      BY Shapes
    <3>2. Dot(y, a) = 0
      BY <1>1, <1>5, <2>1, <3>1, DotZero
    <3> QED BY <3>1, <3>2
  <2>3. m[i][c] = 0
    BY <1>1, <1>7
  <2> QED BY <1>1, <2>2, <2>3, CongruentRefl
<1>8. ASSUME NEW i \in Rows PROVE Congruent(Dot(y, m[i]), m[i][c], p)
  <2>1. CASE i \in 0..(n - 1) /\ lead[i] < c
    <3>1. i >= 0
      BY <1>1, <2>1
    <3> QED BY <1>3, <1>4, <2>1, <3>1 DEF IsBack
  <2>2. CASE i \in 0..(n - 1) /\ lead[i] > c
    <3>1. \A j \in Cols : j <= c => j \in 0..(lead[i] - 1)
      BY <1>1, <1>2, <2>2 DEF Cols
    <3>2. \A j \in Cols : j <= c => m[i][j] = 0
      BY <2>2, <3>1 DEF Echelon
    <3> QED BY <1>7, <3>2
  <2>3. CASE i \notin 0..(n - 1)
    <3>1. i >= n
      BY <1>1, <2>3, Shapes DEF Rows
    <3>2. \A j \in Cols : m[i][j] = 0
      BY <3>1 DEF Echelon, Cols
    <3> QED BY <1>7, <3>2
  <2>4. i \in 0..(n - 1) => lead[i] < c \/ lead[i] > c
    BY <1>1, <1>2
  <2> QED BY <2>1, <2>2, <2>3, <2>4
<1> QED BY <1>5, <1>6, <1>8 DEF IsSpannedBy

\* Columns that lead a row are not.
LEMMA LeadsAreNotSpanned ==
  ASSUME TypeOK, NEW n \in 0..arg.rows, NEW lead, Echelon(n, arg.cols, lead),
         NEW i \in 0..(n - 1), NEW y, IsSpannedBy(y, m, lead[i])
  PROVE  FALSE
<1>1. n \in Nat /\ IsFiniteSet(Cols) /\ p \in Nat /\ p > 1 /\ Residues(p) \subseteq Int
  BY Shapes
<1>2. i \in Rows
  BY Shapes DEF Rows
<1>3. PICK c \in Cols : c = lead[i] /\ m[i][c] # 0 /\ \A j \in Cols : j < c => m[i][j] = 0
  <2>1. arg.cols \in Nat
    BY Shapes
  <2>2. lead[i] \in 0..(arg.cols - 1) /\ m[i][lead[i]] # 0 /\ \A j \in 0..(lead[i] - 1) : m[i][j] = 0
    BY DEF Echelon
  <2>3. PICK c \in 0..(arg.cols - 1) : c = lead[i]
    BY <2>2
  <2>4. \A j \in 0..(arg.cols - 1) : j < c => j \in 0..(c - 1)
    BY <2>1
  <2>5. c \in Cols /\ m[i][c] # 0 /\ \A j \in Cols : j < c => m[i][j] = 0
    BY <2>2, <2>3, <2>4 DEF Cols
  <2> QED BY <2>3, <2>5
<1>4. PICK a \in [Cols -> Int] : a = m[i] /\ a[c] \in Residues(p) /\ a[c] # 0
  BY <1>2, <1>3, Shapes
<1>5. \A j \in Cols : y[j] = 0 \/ a[j] = 0
  <2>1. \A j \in Cols : j >= c \/ j < c
    BY DEF Cols
  <2> QED BY <1>3, <1>4, <2>1 DEF IsSpannedBy
<1>6. Dot(y, a) = 0
  <2>1. y \in [Cols -> Int]
    BY <1>1 DEF IsSpannedBy
  <2> QED BY <1>1, <1>5, <2>1, DotZero
<1>7. Congruent(0, a[c], p)
  BY <1>2, <1>3, <1>4, <1>6 DEF IsSpannedBy
<1>8. 0 \in Residues(p)
  BY <1>1 DEF Residues
<1> QED BY <1>1, <1>4, <1>7, <1>8, EqualResidues

\* The operations on rows keep which columns are combinations of which.
LEMMA SameSpans ==
  ASSUME TypeOK, SameSolutions, NEW c \in Cols, NEW y
  PROVE  IsSpannedBy(y, m, c) <=> IsSpannedBy(y, arg.mat, c)
<1>1. IsFiniteSet(Cols) /\ p \in Nat /\ p > 1 /\ Residues(p) \subseteq Int /\ c \in Int
  BY Shapes DEF Cols
<1>2. SUFFICES ASSUME y \in [Cols -> Residues(p)], \A j \in Cols : j >= c => y[j] = 0
               PROVE  (\A i \in Rows : Congruent(Dot(y, m[i]), m[i][c], p))
                        <=> (\A i \in Rows : Congruent(Dot(y, arg.mat[i]), arg.mat[i][c], p))
  BY DEF IsSpannedBy
<1>3. y \in [Cols -> Int] /\ y[c] = 0
  BY <1>1, <1>2
<1>4. PICK x \in [Cols -> Residues(p)] : x[c] = p - 1 /\ \A j \in Cols : j # c => x[j] = y[j]
  <2>1. p - 1 \in Residues(p)
    BY <1>1 DEF Residues
  <2>2. [y EXCEPT ![c] = p - 1] \in [Cols -> Residues(p)]
    BY <1>2, <2>1
  <2> QED BY <1>2, <2>2
<1>5. x \in [Cols -> Int]
  BY <1>1
<1>6. ASSUME NEW A, DOMAIN A = Rows, \A i \in Rows : A[i] \in [Cols -> Int]
      PROVE  Solves(A, x, Zeros, p) <=> \A i \in Rows : Congruent(Dot(y, A[i]), A[i][c], p)
  <2>1. SUFFICES ASSUME NEW i \in Rows
                 PROVE  RowHolds(A, x, Zeros, i, p) <=> Congruent(Dot(y, A[i]), A[i][c], p)
    BY <1>6 DEF Solves
  <2>2. PICK a \in [Cols -> Int] : a = A[i]
    BY <1>6
  <2>3. Zeros[i] = 0
    BY DEF Zeros
  <2>4. RowHolds(A, x, Zeros, i, p) <=> Congruent(Dot(x, a), 0, p)
    <3>1. p > 0 /\ A[i] \in [Cols -> Int] /\ Zeros[i] \in Int /\ Cols \subseteq Cols
      BY <1>1, <1>6, <2>3
    <3>2. RowHolds(A, x, Zeros, i, p) <=> Congruent(Dot(x, A[i]), Zeros[i], p)
      BY <1>1, <1>5, <3>1, RowCongruent
    <3> QED BY <2>2, <2>3, <3>2
  <2>5. Congruent(Dot(x, a), 0, p) <=> Congruent(Dot(y, a), a[c], p)
    <3>1. p > 0
      BY <1>1
    <3> QED BY <1>1, <1>3, <1>4, <1>5, <3>1, ColumnOut
  <2> QED BY <2>2, <2>4, <2>5
<1>7. /\ Solves(m, x, Zeros, p) <=> \A i \in Rows : Congruent(Dot(y, m[i]), m[i][c], p)
      /\ Solves(arg.mat, x, Zeros, p)
           <=> \A i \in Rows : Congruent(Dot(y, arg.mat[i]), arg.mat[i][c], p)
  BY <1>6, Shapes
<1> QED BY <1>4, <1>7 DEF SameSolutions

\* What LinearSystem calls a combination.
LEMMA SpannedMeaning ==
  ASSUME TypeOK, NEW c \in Cols
  PROVE  Spanned(arg.mat, 0..(c - 1), [i \in DOMAIN arg.mat |-> arg.mat[i][c]], p)
           <=> \E y : IsSpannedBy(y, arg.mat, c)
<1>1. PICK K, w : K = 0..(c - 1) /\ w = [i \in DOMAIN arg.mat |-> arg.mat[i][c]]
  OBVIOUS
<1>2. IsFiniteSet(Cols) /\ p \in Nat /\ p > 0 /\ Residues(p) \subseteq Int /\ DOMAIN arg.mat = Rows
      /\ 0 \in Residues(p)
  BY Shapes DEF Residues
<1>3. K \subseteq Cols /\ \A j \in Cols : j \in K <=> ~(j >= c)
  BY <1>1, Shapes DEF Cols
<1>4. \A i \in Rows : w[i] = arg.mat[i][c] /\ w[i] \in Int /\ arg.mat[i] \in [Cols -> Int]
  BY <1>1, <1>2, Shapes
<1>5. ASSUME NEW x \in [K -> Residues(p)], NEW y \in [Cols -> Residues(p)],
             \A j \in K : x[j] = y[j], \A j \in Cols : j \notin K => y[j] = 0
      PROVE  Solves(arg.mat, x, w, p) <=> IsSpannedBy(y, arg.mat, c)
  <2>1. x \in [K -> Int] /\ y \in [Cols -> Int]
    BY <1>2
  <2>2. ASSUME NEW i \in Rows
        PROVE  RowHolds(arg.mat, x, w, i, p) <=> Congruent(Dot(y, arg.mat[i]), arg.mat[i][c], p)
    <3>1. RowHolds(arg.mat, x, w, i, p) <=> Congruent(Dot(x, arg.mat[i]), w[i], p)
      BY <1>2, <1>3, <1>4, <2>1, RowCongruent
    <3>2. Dot(x, arg.mat[i]) = Dot(y, arg.mat[i])
      <4>1. PICK a \in [Cols -> Int] : a = arg.mat[i]
        BY <1>4
      <4>2. Dot(x, a) = Dot(y, a)
        BY <1>2, <1>3, <1>5, <2>1, DotSubset
      <4> QED BY <4>1, <4>2
    <3> QED BY <1>4, <3>1, <3>2
  <2>3. \A j \in Cols : j >= c => y[j] = 0
    BY <1>3, <1>5
  <2> QED BY <1>2, <2>2, <2>3 DEF Solves, IsSpannedBy
<1>6. ASSUME Spanned(arg.mat, K, w, p) PROVE \E y : IsSpannedBy(y, arg.mat, c)
  <2>1. PICK x \in [K -> Residues(p)] : Solves(arg.mat, x, w, p)
    BY <1>6 DEF Spanned
  <2>2. PICK y \in [Cols -> Residues(p)] : /\ \A j \in K : x[j] = y[j]
                                           /\ \A j \in Cols : j \notin K => y[j] = 0
    <3>1. [j \in Cols |-> IF j \in K THEN x[j] ELSE 0] \in [Cols -> Residues(p)]
      BY <1>2
    <3> QED BY <1>3, <3>1
  <2>3. IsSpannedBy(y, arg.mat, c)
    BY <1>5, <2>1, <2>2
  <2> QED BY <2>3
<1>7. ASSUME NEW y, IsSpannedBy(y, arg.mat, c) PROVE Spanned(arg.mat, K, w, p)
  <2>1. y \in [Cols -> Residues(p)] /\ \A j \in Cols : j \notin K => y[j] = 0
    BY <1>3, <1>7 DEF IsSpannedBy
  <2>2. PICK x \in [K -> Residues(p)] : \A j \in K : x[j] = y[j]
    <3>1. [j \in K |-> y[j]] \in [K -> Residues(p)]
      BY <1>3, <2>1
    <3> QED BY <3>1
  <2>3. Solves(arg.mat, x, w, p)
    BY <1>5, <1>7, <2>1, <2>2
  <2> QED BY <2>3 DEF Spanned
<1> QED BY <1>1, <1>6, <1>7

\* The pivots of the system are the columns that lead a row of the echelon form.
LEMMA PivotsAreLeads ==
  ASSUME TypeOK, SameSolutions, NEW n \in 0..arg.rows, NEW lead, Echelon(n, arg.cols, lead)
  PROVE  /\ Pivots(arg.mat, arg.cols, p) \subseteq Cols
         /\ \A c \in Cols : c \in Pivots(arg.mat, arg.cols, p) <=> \E i \in 0..(n - 1) : lead[i] = c
<1>1. /\ Pivots(arg.mat, arg.cols, p) \subseteq Cols
      /\ \A c \in Cols : c \in Pivots(arg.mat, arg.cols, p)
           <=> ~Spanned(arg.mat, 0..(c - 1), [i \in DOMAIN arg.mat |-> arg.mat[i][c]], p)
  BY DEF Pivots, Cols
<1>2. \A c \in Cols : c \in Pivots(arg.mat, arg.cols, p) <=> ~\E y : IsSpannedBy(y, m, c)
  BY <1>1, SpannedMeaning, SameSpans
<1>3. \A c \in Cols : (\A i \in 0..(n - 1) : lead[i] # c) => \E y : IsSpannedBy(y, m, c)
  BY OthersAreSpanned
<1>4. \A i \in 0..(n - 1) : ~\E y : IsSpannedBy(y, m, lead[i])
  BY LeadsAreNotSpanned
<1> QED BY <1>1, <1>2, <1>3, <1>4

\* The rows of an echelon form determine the coefficients of the leading columns.
LEMMA EchelonDetermines ==
  ASSUME TypeOK, NEW n \in 0..arg.rows, NEW lead, Echelon(n, arg.cols, lead),
         NEW y \in [Cols -> Residues(p)], NEW z \in [Cols -> Residues(p)],
         \A j \in Cols : y[j] = z[j] \/ \E i \in 0..(n - 1) : lead[i] = j,
         \A i \in 0..(n - 1) : Congruent(Dot(y, m[i]), Dot(z, m[i]), p)
  PROVE  y = z
<1>1. n \in Nat /\ arg.rows \in Nat /\ arg.cols \in Nat /\ IsFiniteSet(Cols)
  BY Shapes
<1>2. PICK q \in Nat : q = p /\ IsPrime(q) /\ Residues(q) \subseteq Int
  BY Shapes
<1>3. PICK P \in SUBSET Nat :
        \A d \in Nat : d \in P <=> \A i \in 0..(n - 1) : i >= n - d => y[lead[i]] = z[lead[i]]
  <2> DEFINE S == {d \in Nat : \A i \in 0..(n - 1) : i >= n - d => y[lead[i]] = z[lead[i]]}
  <2>1. /\ S \in SUBSET Nat
        /\ \A d \in Nat : d \in S <=> \A i \in 0..(n - 1) : i >= n - d => y[lead[i]] = z[lead[i]]
    OBVIOUS
  <2> HIDE DEF S
  <2> QED BY <2>1
<1>4. 0 \in P
  <2>1. \A i \in 0..(n - 1) : ~(i >= n - 0)
    BY <1>1
  <2> QED BY <1>3, <2>1
<1>5. ASSUME NEW d \in Nat, d \in P PROVE d + 1 \in P
  <2>1. SUFFICES ASSUME NEW t \in 0..(n - 1), t >= n - (d + 1) PROVE y[lead[t]] = z[lead[t]]
    BY <1>3
  <2>2. t \in Rows /\ t \in Int
    BY <1>1 DEF Rows
  <2>3. PICK c \in Cols : /\ c = lead[t] /\ m[t][c] # 0
                          /\ \A j \in Cols : j < c => m[t][j] = 0
    <3>1. /\ lead[t] \in 0..(arg.cols - 1) /\ m[t][lead[t]] # 0
          /\ \A j \in 0..(lead[t] - 1) : m[t][j] = 0
      BY DEF Echelon
    <3>2. PICK c \in 0..(arg.cols - 1) : c = lead[t]
      BY <3>1
    <3>3. \A j \in 0..(arg.cols - 1) : j < c => j \in 0..(c - 1)
      BY <1>1
    <3>4. c \in Cols /\ m[t][c] # 0 /\ \A j \in Cols : j < c => m[t][j] = 0
      BY <3>1, <3>2, <3>3 DEF Cols
    <3> QED BY <3>2, <3>4
  <2>4. ASSUME NEW j \in Cols, j # c, m[t][j] # 0 PROVE y[j] = z[j]
    <3>1. SUFFICES ASSUME NEW i \in 0..(n - 1), lead[i] = j PROVE y[j] = z[j]
      OBVIOUS
    <3>2. j > c
      BY <2>3, <2>4 DEF Cols
    <3>3. t < i
      <4>1. i < t => lead[i] < lead[t]
        BY DEF Echelon
      <4>2. i = t \/ i < t \/ t < i
        BY <1>1
      <4>3. ~(j < c)
        BY <3>2 DEF Cols
      <4> QED BY <2>3, <2>4, <3>1, <4>1, <4>2, <4>3
    <3>4. i >= n - d
      BY <1>1, <2>1, <3>3
    <3> QED BY <1>3, <1>5, <3>1, <3>4
  <2>5. PICK a \in [Cols -> Int] : a = m[t] /\ a[c] \in 1..(q - 1)
    <3>1. m[t] \in [Cols -> Int] /\ m[t][c] \in Residues(q)
      BY <1>2, <2>2, Shapes
    <3>2. m[t][c] \in 1..(q - 1)
      BY <1>2, <2>3, <3>1 DEF Residues
    <3> QED BY <3>1, <3>2
  <2>6. \A j \in Cols : j = c \/ y[j] = z[j] \/ a[j] = 0
    BY <2>4, <2>5
  <2>7. Congruent(Dot(y, a), Dot(z, a), q)
    BY <1>2, <2>5
  <2>8. y \in [Cols -> Residues(q)] /\ z \in [Cols -> Residues(q)]
    BY <1>2
  <2>9. y[c] = z[c]
    BY <1>1, <1>2, <2>5, <2>6, <2>7, <2>8, OneUnknown
  <2> QED BY <2>3, <2>9
<1>6. n \in P
  <2>1. Nat \subseteq P
    BY <1>4, <1>5, InductionOnNat
  <2> QED BY <1>1, <2>1
<1>7. \A i \in 0..(n - 1) : y[lead[i]] = z[lead[i]]
  <2>1. \A i \in 0..(n - 1) : i >= n - n
    BY <1>1
  <2> QED BY <1>1, <1>3, <1>6, <2>1
<1>8. \A j \in Cols : y[j] = z[j]
  BY <1>7
<1> QED BY <1>8

\* y gives the columns K the coefficients of x, and the others none.
Extends(y, x, K) ==
  /\ y \in [Cols -> Residues(p)]
  /\ \A j \in K : y[j] = x[j]
  /\ \A j \in Cols : j \notin K => y[j] = 0

\* It solves what x solves.
LEMMA ExtendedSolves ==
  ASSUME TypeOK, NEW K \in SUBSET Cols, NEW x \in [K -> Residues(p)], NEW y, Extends(y, x, K)
  PROVE  Solves(arg.mat, x, arg.vec, p) <=> Solves(arg.mat, y, arg.vec, p)
<1>1. /\ IsFiniteSet(Cols) /\ p \in Nat /\ p > 0 /\ Residues(p) \subseteq Int
      /\ DOMAIN arg.mat = Rows /\ Cols \subseteq Cols
  BY Shapes
<1>2. x \in [K -> Int] /\ y \in [Cols -> Int]
  BY <1>1 DEF Extends
<1>3. ASSUME NEW i \in Rows
      PROVE  RowHolds(arg.mat, x, arg.vec, i, p) <=> RowHolds(arg.mat, y, arg.vec, i, p)
  <2>1. PICK a \in [Cols -> Int] : a = arg.mat[i]
    BY Shapes
  <2>2. \A j \in K : x[j] = y[j]
    BY DEF Extends
  <2>3. \A j \in Cols : j \notin K => y[j] = 0
    BY DEF Extends
  <2>4. Dot(x, a) = Dot(y, a)
    BY <1>1, <1>2, <2>1, <2>2, <2>3, DotSubset
  <2> QED BY <2>1, <2>4 DEF RowHolds
<1> QED BY <1>1, <1>3 DEF Solves

\* A row of zeros with another number in the vector: no solution.
LEMMA Contradiction ==
  ASSUME TypeOK, SameSolutions, NEW i \in Rows, v[i] # 0, \A j \in Cols : m[i][j] = 0,
         NEW y \in [Cols -> Residues(p)]
  PROVE  ~Solves(arg.mat, y, arg.vec, p)
<1>1. SUFFICES ASSUME Solves(m, y, v, p) PROVE FALSE
  BY DEF SameSolutions
<1>2. /\ IsFiniteSet(Cols) /\ p \in Nat /\ p > 0 /\ Residues(p) \subseteq Int
      /\ DOMAIN m = Rows /\ Cols \subseteq Cols
  BY Shapes
<1>3. y \in [Cols -> Int] /\ m[i] \in [Cols -> Int] /\ v[i] \in Int /\ v[i] \in Residues(p)
  BY <1>2, Shapes
<1>4. RowHolds(m, y, v, i, p)
  BY <1>1, <1>2 DEF Solves
<1>5. Congruent(Dot(y, m[i]), v[i], p)
  BY <1>2, <1>3, <1>4, RowCongruent
<1>6. Dot(y, m[i]) = 0
  <2>1. PICK a \in [Cols -> Int] : a = m[i]
    BY <1>3
  <2>2. \A j \in Cols : y[j] = 0 \/ a[j] = 0
    BY <2>1
  <2> QED BY <1>2, <1>3, <2>1, <2>2, DotZero
<1>7. 0 \in Residues(p)
  BY <1>2 DEF Residues
<1> QED BY <1>2, <1>3, <1>5, <1>6, <1>7, EqualResidues

-----------------------------------------------------------------------------
(* What the invariant says of a result *)

\* The back substitution that has passed all columns leaves a solution, with coefficients
\* for leading columns alone.
LEMMA LastSubstitution ==
  ASSUME TypeOK, Substituting(-1)
  PROVE  /\ res \in [Cols -> Residues(p)] /\ Solves(m, res, v, p)
         /\ \E n \in 0..arg.rows : \E lead \in [0..(n - 1) -> Cols] :
              /\ Echelon(n, arg.cols, lead)
              /\ \A j \in Cols : res[j] = 0 \/ \E i \in 0..(n - 1) : lead[i] = j
<1>1. /\ IsFiniteSet(Cols) /\ p \in Nat /\ p > 0 /\ Residues(p) \subseteq Int /\ 0 \in Residues(p)
      /\ DOMAIN m = Rows /\ Cols \subseteq Cols /\ arg.rows \in Nat
  BY Shapes DEF Residues
<1>2. PICK n, lead :
        /\ n \in 0..arg.rows /\ lead \in [0..(n - 1) -> Cols]
        /\ Echelon(n, arg.cols, lead)
        /\ \A i \in Rows : i >= n => v[i] = 0
        /\ \A i \in 0..(n - 1) : i <= h <=> lead[i] <= -1
        /\ \A i \in 0..(n - 1) : i > h => RowHolds(m, res, v, i, p)
        /\ \A j \in Cols : IF j \in Range(lead) THEN j <= -1 <=> res[j] = -1 ELSE res[j] = 0
  BY DEF Substituting
<1>3. n \in Nat /\ h \in Int /\ \A j \in Cols : ~(j <= -1)
  BY <1>1, <1>2 DEF TypeOK, Cols
<1>4. ASSUME NEW j \in Cols
      PROVE  res[j] \in Residues(p) /\ (res[j] = 0 \/ \E i \in 0..(n - 1) : lead[i] = j)
  <2>1. CASE j \in Range(lead)
    <3>1. \E i \in 0..(n - 1) : lead[i] = j
      BY <1>2, <2>1 DEF Range
    <3>2. res[j] # -1
      BY <1>2, <1>3, <2>1
    <3>3. res[j] \in Residues(p) \cup {-1}
      BY DEF TypeOK
    <3> QED BY <3>1, <3>2, <3>3
  <2>2. CASE j \notin Range(lead)
    BY <1>1, <1>2, <2>2
  <2> QED BY <2>1, <2>2
<1>5. res \in [Cols -> Residues(p)]
  BY <1>4 DEF TypeOK
<1>6. res \in [Cols -> Int]
  BY <1>1, <1>5
<1>7. ASSUME NEW i \in Rows PROVE RowHolds(m, res, v, i, p)
  <2>1. CASE i \in 0..(n - 1)
    <3>1. ~(lead[i] <= -1)
      BY <1>2, <1>3, <2>1 DEF Cols
    <3>2. i > h
      BY <1>2, <1>3, <2>1, <3>1
    <3> QED BY <1>2, <2>1, <3>2
  <2>2. CASE i \notin 0..(n - 1)
    <3>1. i >= n
      BY <1>1, <1>3, <2>2 DEF Rows
    <3>2. PICK a \in [Cols -> Int] : a = m[i] /\ \A j \in Cols : a[j] = 0
      <4>1. \A j \in Cols : m[i][j] = 0
        BY <1>2, <3>1 DEF Echelon, Cols
      <4>2. m[i] \in [Cols -> Int]
        BY Shapes
      <4> QED BY <4>1, <4>2
    <3>3. Dot(res, a) = 0 /\ v[i] = 0
      BY <1>1, <1>2, <1>6, <3>1, <3>2, DotZero
    <3> QED BY <3>2, <3>3 DEF RowHolds
  <2> QED BY <2>1, <2>2
<1>8. Solves(m, res, v, p)
  BY <1>1, <1>7 DEF Solves
<1> QED BY <1>2, <1>4, <1>5, <1>8

\* So the solver returns what LinearSystem promises.
LEMMA OutcomeOfInv == IInv => Outcome
<1> SUFFICES ASSUME IInv, pc = "done"
             PROVE  LET r == Solve(arg.mat, arg.cols, arg.vec, p)
                    IN err = r.err /\ (err = "NONE" => res = r.res)
  BY DEF Outcome
<1>1. PICK K, found : /\ K = Pivots(arg.mat, arg.cols, p)
                      /\ found = {x \in [K -> Residues(p)] : Solves(arg.mat, x, arg.vec, p)}
  OBVIOUS
<1>2. TypeOK /\ SameSolutions /\ DoneInv
  BY DEF IInv
<1>3. K \in SUBSET Cols /\ 0 \in Residues(p) /\ arg.vec \in [Rows -> Int]
  BY <1>1, <1>2, Shapes, SMTT(30) DEF Pivots, Cols, Residues, TypeOK, IsInput, Rows
<1>4. ASSUME NEW x \in [K -> Residues(p)] PROVE \E y : Extends(y, x, K)
  <2>1. PICK y : y = [j \in Cols |-> IF j \in K THEN x[j] ELSE 0]
    OBVIOUS
  <2>2. Extends(y, x, K)
    BY <1>3, <2>1 DEF Extends
  <2> QED BY <2>2
<1>5. CASE err = "NONE"
  <2>1. Substituting(-1)
    BY <1>2, <1>5 DEF DoneInv
  <2>2. res \in [Cols -> Residues(p)] /\ Solves(m, res, v, p)
    BY <1>2, <2>1, LastSubstitution
  <2>3. PICK n, lead :
          /\ n \in 0..arg.rows /\ lead \in [0..(n - 1) -> Cols]
          /\ Echelon(n, arg.cols, lead)
          /\ \A j \in Cols : res[j] = 0 \/ \E i \in 0..(n - 1) : lead[i] = j
    BY <1>2, <2>1, LastSubstitution
  <2>4. \A j \in Cols : j \in K <=> \E i \in 0..(n - 1) : lead[i] = j
    BY <1>1, <1>2, <2>3, PivotsAreLeads
  <2>5. PICK x \in [K -> Residues(p)] : \A j \in K : x[j] = res[j]
    <3>1. [j \in K |-> res[j]] \in [K -> Residues(p)]
      BY <1>3, <2>2
    <3> QED BY <3>1
  <2>6. Extends(res, x, K)
    BY <2>2, <2>3, <2>4, <2>5 DEF Extends
  <2>7. x \in found
    <3>1. Solves(arg.mat, res, arg.vec, p)
      BY <1>2, <2>2 DEF SameSolutions
    <3>2. Solves(arg.mat, x, arg.vec, p)
      BY <1>2, <1>3, <2>6, <3>1, ExtendedSolves
    <3> QED BY <1>1, <3>2
  <2>8. PICK z \in found : z = CHOOSE u \in found : TRUE
    BY <2>7
  <2>9. PICK y : Extends(y, z, K)
    BY <1>1, <1>4
  <2>10. y \in [Cols -> Residues(p)] /\ Solves(m, y, v, p)
    <3>1. z \in [K -> Residues(p)] /\ Solves(arg.mat, z, arg.vec, p)
      BY <1>1
    <3>2. Solves(arg.mat, y, arg.vec, p)
      BY <1>2, <1>3, <2>9, <3>1, ExtendedSolves
    <3> QED BY <1>2, <2>9, <3>2 DEF SameSolutions, Extends
  <2>11. y = res
    <3>1. \A j \in Cols : y[j] = res[j] \/ \E i \in 0..(n - 1) : lead[i] = j
      BY <2>3, <2>4, <2>9 DEF Extends
    <3>2. ASSUME NEW i \in 0..(n - 1) PROVE Congruent(Dot(y, m[i]), Dot(res, m[i]), p)
      <4>1. /\ i \in Rows /\ p \in Nat /\ p > 0 /\ p # 0 /\ IsFiniteSet(Cols) /\ DOMAIN m = Rows
            /\ Residues(p) \subseteq Int
        BY <1>2, <2>3, Shapes DEF Rows
      <4>2. PICK a \in [Cols -> Int] : a = m[i]
        BY <1>2, <4>1, Shapes
      <4>3. PICK s, t \in Int : s = Dot(y, a) /\ t = Dot(res, a)
        <5>1. y \in [Cols -> Int] /\ res \in [Cols -> Int]
          BY <2>2, <2>10, <4>1
        <5> QED BY <4>1, <5>1, DotIsInt
      <4>4. s % p = t % p
        BY <2>2, <2>10, <4>1, <4>2, <4>3 DEF Solves, RowHolds
      <4>5. Congruent(s, t, p)
        BY <4>1, <4>4, CongruentWhenSame
      <4> QED BY <4>2, <4>3, <4>5
    <3> QED BY <1>2, <2>2, <2>3, <2>10, <3>1, <3>2, EchelonDetermines
  <2>12. res = [j \in 0..(arg.cols - 1) |-> IF j \in K THEN z[j] ELSE 0]
    <3>1. \A j \in Cols : res[j] = IF j \in K THEN z[j] ELSE 0
      BY <2>9, <2>11 DEF Extends
    <3> QED BY <2>2, <3>1 DEF Cols
  <2>13. Solve(arg.mat, arg.cols, arg.vec, p)
           = Done([j \in 0..(arg.cols - 1) |-> IF j \in K THEN z[j] ELSE 0])
    BY <1>1, <2>7, <2>8 DEF Solve
  <2> QED BY <1>5, <2>12, <2>13 DEF Done
<1>6. CASE err # "NONE"
  <2>1. PICK i \in Rows : v[i] # 0 /\ \A j \in Cols : m[i][j] = 0
    BY <1>2, <1>6 DEF DoneInv
  <2>2. ASSUME NEW x \in [K -> Residues(p)] PROVE ~Solves(arg.mat, x, arg.vec, p)
    <3>1. PICK y : Extends(y, x, K)
      BY <1>4
    <3>2. y \in [Cols -> Residues(p)]
      BY <3>1 DEF Extends
    <3>3. ~Solves(arg.mat, y, arg.vec, p)
      BY <1>2, <2>1, <3>2, Contradiction
    <3> QED BY <1>2, <1>3, <3>1, <3>3, ExtendedSolves
  <2>3. found = {}
    BY <1>1, <2>2
  <2>4. Solve(arg.mat, arg.cols, arg.vec, p) = Failed("NO_SOLUTION_EXISTS")
    BY <1>1, <2>3 DEF Solve
  <2>5. err = "NO_SOLUTION_EXISTS"
    BY <1>2, <1>6 DEF TypeOK
  <2> QED BY <1>6, <2>4, <2>5 DEF Failed
<1> QED BY <1>5, <1>6

-----------------------------------------------------------------------------
(* The operations on rows *)

\* Congruent rows and numbers say the same.
LEMMA SameRow ==
  ASSUME NEW n \in Nat, n # 0, NEW A, NEW B, NEW x, NEW w, NEW u, NEW i,
         {Dot(x, A[i]), Dot(x, B[i]), w[i], u[i]} \subseteq Int,
         Congruent(Dot(x, A[i]), Dot(x, B[i]), n), Congruent(w[i], u[i], n)
  PROVE  RowHolds(A, x, w, i, n) <=> RowHolds(B, x, u, i, n)
<1>1. PICK a, b, c, d \in Int : a = Dot(x, A[i]) /\ b = Dot(x, B[i]) /\ c = w[i] /\ d = u[i]
  OBVIOUS
<1>2. a % n = b % n /\ c % n = d % n
  BY <1>1, SameRemainder
<1> QED BY <1>1, <1>2 DEF RowHolds

\* Swapping rows keeps the solutions.
LEMMA SwapSolves ==
  ASSUME NEW n, NEW R, NEW A, NEW B, NEW x, NEW w, NEW u, NEW f \in R, NEW g \in R,
         DOMAIN A = R, DOMAIN B = R, B[f] = A[g], B[g] = A[f], u[f] = w[g], u[g] = w[f],
         \A i \in R : i # f /\ i # g => B[i] = A[i] /\ u[i] = w[i]
  PROVE  Solves(A, x, w, n) <=> Solves(B, x, u, n)
<1>1. RowHolds(B, x, u, f, n) <=> RowHolds(A, x, w, g, n)
  BY DEF RowHolds
<1>2. RowHolds(B, x, u, g, n) <=> RowHolds(A, x, w, f, n)
  BY DEF RowHolds
<1>3. \A i \in R : i # f /\ i # g => (RowHolds(B, x, u, i, n) <=> RowHolds(A, x, w, i, n))
  BY DEF RowHolds
<1>4. ASSUME Solves(A, x, w, n), NEW i \in R PROVE RowHolds(B, x, u, i, n)
  BY <1>1, <1>2, <1>3, <1>4 DEF Solves
<1>5. ASSUME Solves(B, x, u, n), NEW i \in R PROVE RowHolds(A, x, w, i, n)
  BY <1>1, <1>2, <1>3, <1>5 DEF Solves
<1> QED BY <1>4, <1>5 DEF Solves

\* When s says w, then t - s * e says y - w * e exactly when t says y.
LEMMA SubtractedRow ==
  ASSUME NEW n \in Nat, NEW s \in Int, NEW t \in Int, NEW w \in Int, NEW y \in Int, NEW e \in Int,
         NEW a \in Int, NEW b \in Int,
         Congruent(s, w, n), Congruent(a, t - s * e, n), Congruent(b, y - w * e, n)
  PROVE  Congruent(a, b, n) <=> Congruent(t, y, n)
<1>1. PICK c, d \in Int : c = s * e /\ d = w * e
  OBVIOUS
<1>2. Congruent(c, d, n)
  BY <1>1, CongruentMul, CongruentRefl
<1>3. ASSUME Congruent(t, y, n) PROVE Congruent(a, b, n)
  <2>1. Congruent(t - c, y - d, n)
    BY <1>2, <1>3, CongruentSub
  <2>2. PICK f, g \in Int : f = t - c /\ g = y - d
    OBVIOUS
  <2>3. Congruent(a, f, n) /\ Congruent(f, g, n) /\ Congruent(g, b, n)
    BY <1>1, <2>1, <2>2, CongruentSym
  <2>4. Congruent(a, g, n)
    BY <2>2, <2>3, CongruentTrans
  <2> QED BY <2>2, <2>3, <2>4, CongruentTrans
<1>4. ASSUME Congruent(a, b, n) PROVE Congruent(t, y, n)
  <2>1. PICK f, g \in Int : f = t - c /\ g = y - d
    OBVIOUS
  <2>2. Congruent(f, a, n) /\ Congruent(b, g, n)
    BY <1>1, <2>1, CongruentSym
  <2>3. Congruent(f, b, n)
    BY <1>4, <2>1, <2>2, CongruentTrans
  <2>4. Congruent(f, g, n)
    BY <2>1, <2>2, <2>3, CongruentTrans
  <2>5. Congruent(f + c, g + d, n)
    BY <1>2, <2>1, <2>4, CongruentAdd
  <2>6. f + c = t /\ g + d = y
    BY <2>1
  <2> QED BY <2>5, <2>6
<1> QED BY <1>3, <1>4

\* B and u come from A and w when multiples e of row g are subtracted from the rows below.
IsElimination(B, u, A, w, g, e, n, D, R) ==
  /\ DOMAIN A = R /\ DOMAIN B = R
  /\ \A i \in R : /\ A[i] \in [D -> Int] /\ B[i] \in [D -> Int]
                  /\ w[i] \in Int /\ u[i] \in Int /\ e[i] \in Int
  /\ \A i \in R : i <= g => B[i] = A[i] /\ u[i] = w[i]
  /\ \A i \in R : i > g => /\ \A j \in D : Congruent(B[i][j], A[i][j] - A[g][j] * e[i], n)
                           /\ Congruent(u[i], w[i] - w[g] * e[i], n)

\* This keeps the solutions.
LEMMA EliminateSolves ==
  ASSUME NEW n \in Nat, n # 0, NEW D, NEW R, NEW A, NEW B, NEW x, NEW w, NEW u, NEW g, NEW e,
         g \in R, R \subseteq Int, IsFiniteSet(D), x \in [D -> Int],
         IsElimination(B, u, A, w, g, e, n, D, R)
  PROVE  Solves(A, x, w, n) <=> Solves(B, x, u, n)
<1>0. /\ DOMAIN A = R /\ DOMAIN B = R
      /\ \A i \in R : /\ A[i] \in [D -> Int] /\ B[i] \in [D -> Int]
                      /\ w[i] \in Int /\ u[i] \in Int /\ e[i] \in Int
      /\ \A i \in R : i <= g => B[i] = A[i] /\ u[i] = w[i]
      /\ \A i \in R : i > g => /\ \A j \in D : Congruent(B[i][j], A[i][j] - A[g][j] * e[i], n)
                               /\ Congruent(u[i], w[i] - w[g] * e[i], n)
  BY DEF IsElimination
<1>1. RowHolds(A, x, w, g, n) <=> RowHolds(B, x, u, g, n)
  <2>1. g <= g
    OBVIOUS
  <2> QED BY <1>0, <2>1 DEF RowHolds
<1>2. ASSUME RowHolds(A, x, w, g, n), NEW i \in R
      PROVE  RowHolds(A, x, w, i, n) <=> RowHolds(B, x, u, i, n)
  <2>1. CASE i <= g
    BY <1>0, <2>1 DEF RowHolds
  <2>2. CASE i > g
    <3>1. PICK a, b, c \in [D -> Int] : a = A[i] /\ b = A[g] /\ c = B[i]
      BY <1>0
    <3>2. PICK f \in Int : f = e[i]
      BY <1>0
    <3>3. \A j \in D : Congruent(c[j], a[j] - b[j] * f, n)
      BY <1>0, <2>2, <3>1, <3>2
    <3>4. /\ {Dot(x, c), Dot(x, a), Dot(x, b)} \subseteq Int
          /\ Congruent(Dot(x, c), Dot(x, a) - Dot(x, b) * f, n)
      BY <3>3, RowElimination
    <3>5. PICK s, t, d \in Int : s = Dot(x, b) /\ t = Dot(x, a) /\ d = Dot(x, c)
      BY <3>4
    <3>6. PICK y, z, q \in Int : y = w[i] /\ z = w[g] /\ q = u[i]
      BY <1>0
    <3>7. Congruent(d, t - s * f, n) /\ Congruent(q, y - z * f, n)
      BY <1>0, <2>2, <3>2, <3>4, <3>5, <3>6
    <3>8. Congruent(s, z, n)
      <4>1. s % n = z % n
        BY <1>2, <3>1, <3>5, <3>6 DEF RowHolds
      <4> QED BY <4>1, CongruentWhenSame
    <3>9. Congruent(d, q, n) <=> Congruent(t, y, n)
      BY <3>7, <3>8, SubtractedRow
    <3>10. d % n = q % n <=> t % n = y % n
      BY <3>5, <3>6, <3>9, CongruentWhenSame
    <3> QED BY <3>1, <3>5, <3>6, <3>10 DEF RowHolds
  <2>3. i <= g \/ i > g
    OBVIOUS
  <2> QED BY <2>1, <2>2, <2>3
<1>3. Solves(A, x, w, n) => Solves(B, x, u, n)
  BY <1>0, <1>2 DEF Solves
<1>4. Solves(B, x, u, n) => Solves(A, x, w, n)
  BY <1>0, <1>1, <1>2 DEF Solves
<1> QED BY <1>3, <1>4

-----------------------------------------------------------------------------
(* The steps *)

\* A call begins with the residues of its input.
LEMMA InitInv == Init => IInv
<1> SUFFICES ASSUME Init PROVE IInv
  OBVIOUS
<1>1. IsInput(arg)
  BY SolverAssumption DEF Init
<1>2. /\ p \in Nat /\ p > 1 /\ p # 0 /\ arg.rows \in Nat /\ arg.rows # 0 /\ arg.cols \in Nat
      /\ arg.mat \in [Rows -> [Cols -> Int]] /\ arg.vec \in [Rows -> Int]
  BY <1>1 DEF IsInput, p, IsPrime, Rows, Cols
<1>3. ASSUME NEW a \in Int
      PROVE  a % p \in Residues(p) /\ a % p \in Int /\ Congruent(a % p, a, p)
  BY <1>2, CongruentMod DEF Residues
<1>4. ASSUME NEW i \in Rows
      PROVE  /\ m[i] \in [Cols -> Residues(p)] /\ v[i] \in Residues(p)
             /\ Congruent(v[i], arg.vec[i], p)
             /\ \A j \in Cols : Congruent(m[i][j], arg.mat[i][j], p)
  <2>1. /\ m[i] = [j \in Cols |-> arg.mat[i][j] % p] /\ v[i] = arg.vec[i] % p
    BY <1>2 DEF Init, VecMod
  <2>2. arg.vec[i] \in Int /\ \A j \in Cols : arg.mat[i][j] \in Int
    BY <1>2
  <2>3. v[i] \in Residues(p) /\ Congruent(v[i], arg.vec[i], p)
    BY <1>3, <2>1, <2>2
  <2>4. \A j \in Cols : arg.mat[i][j] % p \in Residues(p) /\ Congruent(arg.mat[i][j] % p, arg.mat[i][j], p)
    BY <1>3, <2>2
  <2> QED BY <2>1, <2>3, <2>4
<1>5. TypeOK
  <2>1. m \in [Rows -> [Cols -> Residues(p)]]
    BY <1>4 DEF Init
  <2>2. v \in [Rows -> Residues(p)]
    <3>1. v = [i \in Rows |-> arg.vec[i] % p]
      BY <1>2 DEF Init, VecMod
    <3> QED BY <1>4, <3>1
  <2>3. res \in [Cols -> Residues(p) \cup {-1}]
    BY DEF Init
  <2>4. h \in -1..arg.rows /\ k \in 0..arg.cols
    BY <1>2 DEF Init
  <2> QED BY <1>1, <2>1, <2>2, <2>3, <2>4 DEF Init, TypeOK
<1>6. SameSolutions
  <2>1. SUFFICES ASSUME NEW x \in [Cols -> Residues(p)]
                 PROVE  /\ Solves(m, x, v, p) <=> Solves(arg.mat, x, arg.vec, p)
                        /\ Solves(m, x, Zeros, p) <=> Solves(arg.mat, x, Zeros, p)
    BY DEF SameSolutions
  <2>2. /\ DOMAIN m = Rows /\ DOMAIN arg.mat = Rows /\ IsFiniteSet(Cols) /\ Residues(p) \subseteq Int
    BY <1>5, Shapes
  <2>3. x \in [Cols -> Int]
    BY <2>2
  <2>4. ASSUME NEW i \in Rows
        PROVE  /\ RowHolds(m, x, v, i, p) <=> RowHolds(arg.mat, x, arg.vec, i, p)
               /\ RowHolds(m, x, Zeros, i, p) <=> RowHolds(arg.mat, x, Zeros, i, p)
    <3>1. PICK a, b \in [Cols -> Int] : a = m[i] /\ b = arg.mat[i]
      BY <1>5, Shapes
    <3>2. \A j \in Cols : Congruent(a[j], b[j], p)
      BY <1>4, <3>1
    <3>3. Congruent(Dot(a, x), Dot(b, x), p)
      BY <1>2, <2>2, <2>3, <3>2, DotCongruent
    <3>4. Dot(a, x) = Dot(x, a) /\ Dot(b, x) = Dot(x, b) /\ Dot(x, a) \in Int /\ Dot(x, b) \in Int
      BY <2>2, <2>3, DotCommutes, DotIsInt
    <3>5. {Dot(x, m[i]), Dot(x, arg.mat[i])} \subseteq Int /\ Congruent(Dot(x, m[i]), Dot(x, arg.mat[i]), p)
      BY <3>1, <3>3, <3>4
    <3>6. {v[i], arg.vec[i], Zeros[i]} \subseteq Int
      BY <1>2, <1>4, <2>2 DEF Zeros
    <3>7. Congruent(v[i], arg.vec[i], p) /\ Congruent(Zeros[i], Zeros[i], p)
      BY <1>2, <1>4, <3>6, CongruentRefl
    <3>8. RowHolds(m, x, v, i, p) <=> RowHolds(arg.mat, x, arg.vec, i, p)
      BY <1>2, <3>5, <3>6, <3>7, SameRow
    <3>9. RowHolds(m, x, Zeros, i, p) <=> RowHolds(arg.mat, x, Zeros, i, p)
      BY <1>2, <3>5, <3>6, <3>7, SameRow
    <3> QED BY <3>8, <3>9
  <2> QED BY <2>2, <2>4 DEF Solves
<1>7. EliminateInv
  <2>1. h = 0 /\ k = 0 /\ res = [j \in Cols |-> -1] /\ h \in 0..arg.rows
    BY <1>2 DEF Init
  <2>2. PICK lead : lead = [i \in {} |-> 0]
    OBVIOUS
  <2>3. 0..(h - 1) = {} /\ 0..(k - 1) = {}
    BY <2>1
  <2>4. lead \in [0..(h - 1) -> Cols] /\ lead \in [0..(h - 1) -> 0..(k - 1)]
    BY <2>2, <2>3
  <2>5. Echelon(h, k, lead)
    BY <2>3, <2>4 DEF Echelon
  <2>6. \A j \in Cols : res[j] = IF j >= k \/ j \in Range(lead) THEN -1 ELSE 0
    BY <2>1 DEF Cols
  <2> QED BY <2>1, <2>4, <2>5, <2>6 DEF EliminateInv
<1>8. SubstituteInv /\ DoneInv
  BY DEF Init, SubstituteInv, DoneInv
<1> QED BY <1>5, <1>6, <1>7, <1>8 DEF IInv

\* Steps that keep the system keep its solutions.
LEMMA SystemKept ==
  ASSUME UNCHANGED <<arg, m, v>>
  PROVE  /\ p' = p /\ Rows' = Rows /\ Cols' = Cols /\ arg' = arg /\ m' = m /\ v' = v
         /\ SameSolutions => SameSolutions'
<1>1. p' = p /\ Rows' = Rows /\ Cols' = Cols /\ arg' = arg /\ m' = m /\ v' = v
  BY DEF p, Rows, Cols
<1>2. Zeros' = Zeros
  BY <1>1 DEF Zeros
<1>3. SameSolutions => SameSolutions'
  BY <1>1, <1>2 DEF SameSolutions
<1> QED BY <1>1, <1>3

\* Nothing changes in a step of another component.
LEMMA StutterInv == IInv /\ UNCHANGED vars => IInv'
<1> SUFFICES ASSUME IInv, UNCHANGED vars PROVE IInv'
  OBVIOUS
<1>1. UNCHANGED <<arg, m, v>> /\ res' = res /\ h' = h /\ k' = k /\ pc' = pc /\ err' = err
  BY DEF vars
<1>2. p' = p /\ Rows' = Rows /\ Cols' = Cols /\ arg' = arg /\ m' = m /\ v' = v /\ SameSolutions'
  BY <1>1, SystemKept DEF IInv
<1>3. TypeOK'
  BY <1>1, <1>2 DEF IInv, TypeOK
<1>4. EliminateInv'
  BY <1>1, <1>2 DEF IInv, EliminateInv, Echelon
<1>5. (Substituting(k) => Substituting(k)') /\ (Substituting(-1) => Substituting(-1)')
  BY <1>1, <1>2, SMTT(30) DEF Substituting, Echelon
<1>6. SubstituteInv'
  BY <1>1, <1>2, <1>5 DEF IInv, SubstituteInv
<1>7. DoneInv'
  BY <1>1, <1>2, <1>5 DEF IInv, DoneInv
<1> QED BY <1>2, <1>3, <1>4, <1>6, <1>7 DEF IInv

\* A column without a candidate is zero in the rows that are left.
LEMMA SkipColumnInv == IInv /\ SkipColumn => IInv'
<1> SUFFICES ASSUME IInv, SkipColumn PROVE IInv'
  OBVIOUS
<1>1. /\ pc = "eliminate" /\ h < arg.rows /\ k < arg.cols /\ Candidates = {}
      /\ res' = [res EXCEPT ![k] = 0] /\ k' = k + 1
      /\ UNCHANGED <<arg, m, v>> /\ h' = h /\ pc' = pc /\ err' = err
  BY DEF SkipColumn
<1>2. TypeOK /\ SameSolutions /\ EliminateInv /\ DoneInv
  BY DEF IInv
<1>3. p' = p /\ Rows' = Rows /\ Cols' = Cols /\ arg' = arg /\ m' = m /\ v' = v /\ SameSolutions'
  BY <1>1, <1>2, SystemKept
<1>4. /\ p \in Nat /\ p > 1 /\ arg.rows \in Nat /\ arg.cols \in Nat /\ k \in Int /\ h \in Int
      /\ 0 \in Residues(p) /\ k \in Cols /\ k \in Nat
  BY <1>1, <1>2, Shapes DEF TypeOK, Residues, Cols
<1>5. TypeOK'
  <2>1. res' \in [Cols -> Residues(p) \cup {-1}]
    BY <1>1, <1>2, <1>4 DEF TypeOK
  <2>2. k' \in 0..arg.cols
    BY <1>1, <1>4
  <2> QED BY <1>1, <1>2, <1>3, <2>1, <2>2 DEF TypeOK
<1>6. EliminateInv'
  <2>1. PICK lead : /\ lead \in [0..(h - 1) -> Cols] /\ Echelon(h, k, lead)
                    /\ \A j \in Cols : res[j] = IF j >= k \/ j \in Range(lead) THEN -1 ELSE 0
    BY <1>1, <1>2 DEF EliminateInv
  <2>2. h \in 0..arg.rows
    BY <1>1, <1>2 DEF EliminateInv
  <2>3. lead \in [0..(h - 1) -> 0..(k - 1)] /\ \A j \in 0..k : j = k \/ j \in 0..(k - 1)
    BY <1>4, <2>1 DEF Echelon
  <2>4. Echelon(h, k + 1, lead)
    <3>1. lead \in [0..(h - 1) -> 0..((k + 1) - 1)]
      BY <1>4, <2>3
    <3>2. ASSUME NEW i \in Rows, i >= h, NEW j \in 0..((k + 1) - 1) PROVE m[i][j] = 0
      <4>1. j = k \/ j \in 0..(k - 1)
        BY <1>4
      <4>2. m[i][k] = 0
        BY <1>1, <3>2 DEF Candidates
      <4> QED BY <2>1, <3>2, <4>1, <4>2 DEF Echelon
    <3> QED BY <2>1, <3>1, <3>2 DEF Echelon
  <2>5. Echelon(h, k, lead)'
    BY <1>1, <1>3, <2>4 DEF Echelon
  <2>6. ASSUME NEW j \in Cols
        PROVE  res'[j] = IF j >= k + 1 \/ j \in Range(lead) THEN -1 ELSE 0
    <3>1. \A i \in 0..(h - 1) : lead[i] # k
      BY <1>4, <2>3
    <3>2. k \notin Range(lead)
      BY <2>1, <3>1 DEF Range
    <3>3. j \in Int
      BY DEF Cols
    <3>4. CASE j = k
      <4>1. res'[j] = 0 /\ ~(j >= k + 1)
        BY <1>1, <1>2, <1>4, <3>4 DEF TypeOK
      <4> QED BY <3>2, <3>4, <4>1
    <3>5. CASE j # k
      <4>1. res'[j] = res[j] /\ (j >= k + 1 <=> j >= k)
        BY <1>1, <1>2, <1>4, <3>3, <3>5 DEF TypeOK
      <4> QED BY <2>1, <4>1
    <3> QED BY <3>4, <3>5
  <2>7. /\ h' \in 0..(arg.rows)' /\ lead \in [0..(h' - 1) -> Cols']
        /\ \A j \in Cols' : res'[j] = IF j >= k' \/ j \in Range(lead) THEN -1 ELSE 0
    BY <1>1, <1>3, <2>1, <2>2, <2>6
  <2> QED BY <2>5, <2>7 DEF EliminateInv
<1>7. SubstituteInv' /\ DoneInv'
  BY <1>1, <1>2 DEF SubstituteInv, DoneInv
<1> QED BY <1>3, <1>5, <1>6, <1>7 DEF IInv

\* A row that is left when the elimination ends is zero.
LEMMA NoSolutionInv == IInv /\ NoSolution => IInv'
<1> SUFFICES ASSUME IInv, NoSolution PROVE IInv'
  OBVIOUS
<1>1. /\ pc = "eliminate" /\ (h = arg.rows \/ k = arg.cols)
      /\ pc' = "done" /\ err' = "NO_SOLUTION_EXISTS"
      /\ UNCHANGED <<arg, m, v>> /\ res' = res /\ h' = h /\ k' = k
  BY DEF NoSolution
<1>2. TypeOK /\ SameSolutions /\ EliminateInv
  BY DEF IInv
<1>3. p' = p /\ Rows' = Rows /\ Cols' = Cols /\ arg' = arg /\ m' = m /\ v' = v /\ SameSolutions'
  BY <1>1, <1>2, SystemKept
<1>4. TypeOK'
  BY <1>1, <1>2, <1>3 DEF TypeOK
<1>5. PICK i \in Rows : i >= h /\ v[i] # 0
  BY DEF NoSolution
<1>6. k = arg.cols
  <2>1. ~(i >= arg.rows)
    BY <1>2, Shapes DEF Rows
  <2> QED BY <1>1, <1>5, <2>1
<1>7. \A j \in Cols : m[i][j] = 0
  <2>1. PICK lead : Echelon(h, k, lead)
    BY <1>1, <1>2 DEF EliminateInv
  <2> QED BY <1>5, <1>6, <2>1 DEF Echelon, Cols
<1>8. EliminateInv' /\ SubstituteInv'
  BY <1>1 DEF EliminateInv, SubstituteInv
<1>9. DoneInv'
  BY <1>1, <1>3, <1>5, <1>7 DEF DoneInv
<1> QED BY <1>3, <1>4, <1>8, <1>9 DEF IInv

\* The state of the back substitution with the row g, the coefficients r and the columns up
\* to c to come.
IsSubstituting(n, lead, c, g, r) ==
  /\ n \in 0..arg.rows /\ lead \in [0..(n - 1) -> Cols]
  /\ Echelon(n, arg.cols, lead)
  /\ \A i \in Rows : i >= n => v[i] = 0
  /\ g < n /\ \A i \in 0..(n - 1) : i <= g <=> lead[i] <= c
  /\ \A i \in 0..(n - 1) : i > g => RowHolds(m, r, v, i, p)
  /\ \A j \in Cols : IF j \in Range(lead) THEN j <= c <=> r[j] = -1 ELSE r[j] = 0

\* The next state from this one.
LEMMA NextSubstituting ==
  ASSUME UNCHANGED <<arg, m, v>>, NEW n, NEW lead
  PROVE  /\ IsSubstituting(n, lead, k', h', res') => Substituting(k)'
         /\ IsSubstituting(n, lead, -1, h', res') => Substituting(-1)'
<1>1. p' = p /\ Rows' = Rows /\ Cols' = Cols /\ arg' = arg /\ m' = m /\ v' = v
  BY SystemKept
<1>2. Echelon(n, arg.cols, lead) => Echelon(n, arg.cols, lead)'
  BY <1>1 DEF Echelon
<1>3. IsSubstituting(n, lead, k', h', res') => Substituting(k)'
  <2>1. SUFFICES ASSUME IsSubstituting(n, lead, k', h', res') PROVE Substituting(k)'
    OBVIOUS
  <2> QED BY <1>1, <1>2, <2>1 DEF IsSubstituting, Substituting
<1>4. IsSubstituting(n, lead, -1, h', res') => Substituting(-1)'
  <2>1. SUFFICES ASSUME IsSubstituting(n, lead, -1, h', res') PROVE Substituting(-1)'
    OBVIOUS
  <2> QED BY <1>1, <1>2, <2>1 DEF IsSubstituting, Substituting
<1> QED BY <1>3, <1>4

\* The elimination has looked at a column when no row contradicts the vector: a system
\* without columns has a row that does.
LEMMA ColumnReached ==
  ASSUME IInv, pc = "eliminate", h = arg.rows \/ k = arg.cols, \A i \in Rows : i >= h => v[i] = 0
  PROVE  k # 0
<1> SUFFICES ASSUME k = 0 PROVE FALSE
  OBVIOUS
<1>1. TypeOK /\ SameSolutions
  BY DEF IInv
<1>2. PICK lead : Echelon(h, k, lead) /\ h \in 0..arg.rows
  BY DEF IInv, EliminateInv
<1>3. /\ arg.rows \in Nat /\ arg.rows # 0 /\ p \in Nat /\ p # 0 /\ Residues(p) \subseteq Int
      /\ DOMAIN m = Rows /\ DOMAIN arg.mat = Rows /\ IsFiniteSet(Cols)
  BY <1>1, Shapes
<1>4. h = 0
  <2>1. lead \in [0..(h - 1) -> {}]
    BY <1>2 DEF Echelon
  <2>2. 0..(h - 1) = {}
    BY <2>1
  <2> QED BY <1>2, <2>2
<1>5. arg.cols = 0 /\ Cols = {}
  BY <1>3, <1>4 DEF Cols
<1>6. PICK x : x \in [Cols -> Residues(p)] /\ x \in [Cols -> Int]
  <2>1. [j \in Cols |-> 0] \in [Cols -> Residues(p)] /\ [j \in Cols |-> 0] \in [Cols -> Int]
    BY <1>5
  <2> QED BY <2>1
<1>7. ASSUME NEW A, \A i \in Rows : A[i] \in [Cols -> Int], NEW i \in Rows
      PROVE  Dot(x, A[i]) = 0
  <2>1. PICK a \in [Cols -> Int] : a = A[i]
    BY <1>7
  <2>2. \A j \in Cols : x[j] = 0 \/ a[j] = 0
    BY <1>5
  <2> QED BY <1>3, <1>6, <2>1, <2>2, DotZero
<1>8. Solves(m, x, v, p)
  <2>1. ASSUME NEW i \in Rows PROVE RowHolds(m, x, v, i, p)
    <3>1. Dot(x, m[i]) = 0
      BY <1>1, <1>7, <2>1, Shapes
    <3>2. v[i] = 0
      BY <1>4 DEF Rows
    <3> QED BY <3>1, <3>2 DEF RowHolds
  <2> QED BY <1>3, <2>1 DEF Solves
<1>9. Solves(arg.mat, x, arg.vec, p)
  BY <1>1, <1>6, <1>8 DEF SameSolutions
<1>10. PICK i \in Rows : arg.vec[i] % p # 0
  BY <1>1, <1>5 DEF TypeOK, IsInput, Rows, p
<1>11. Dot(x, arg.mat[i]) = 0
  BY <1>1, <1>7, Shapes
<1>12. RowHolds(arg.mat, x, arg.vec, i, p)
  BY <1>3, <1>9 DEF Solves
<1>13. 0 % p = 0
  BY <1>3
<1> QED BY <1>10, <1>11, <1>12, <1>13 DEF RowHolds

\* The back substitution begins.
LEMMA StartSubstitutionInv == IInv /\ StartSubstitution => IInv'
<1> SUFFICES ASSUME IInv, StartSubstitution PROVE IInv'
  OBVIOUS
<1>1. /\ pc = "eliminate" /\ (h = arg.rows \/ k = arg.cols)
      /\ \A i \in Rows : i >= h => v[i] = 0
      /\ res' = [j \in Cols |-> IF j >= k THEN 0 ELSE res[j]]
      /\ h' = h - 1 /\ k' = k - 1 /\ pc' = "substitute"
      /\ UNCHANGED <<arg, m, v>> /\ err' = err
  BY DEF StartSubstitution
<1>2. TypeOK /\ SameSolutions /\ EliminateInv /\ DoneInv
  BY DEF IInv
<1>3. p' = p /\ Rows' = Rows /\ Cols' = Cols /\ arg' = arg /\ m' = m /\ v' = v /\ SameSolutions'
  BY <1>1, <1>2, SystemKept
<1>4. /\ p \in Nat /\ p > 1 /\ arg.rows \in Nat /\ arg.cols \in Nat /\ k \in Nat
      /\ k <= arg.cols /\ 0 \in Residues(p)
  BY <1>2, Shapes DEF TypeOK, Residues
<1>5. k # 0
  BY <1>1, ColumnReached
<1>6. PICK lead : /\ h \in 0..arg.rows /\ lead \in [0..(h - 1) -> Cols] /\ Echelon(h, k, lead)
                  /\ \A j \in Cols : res[j] = IF j >= k \/ j \in Range(lead) THEN -1 ELSE 0
  BY <1>1, <1>2 DEF EliminateInv
<1>7. TypeOK'
  <2>1. res' \in [Cols -> Residues(p) \cup {-1}]
    BY <1>1, <1>2, <1>4 DEF TypeOK
  <2>2. h' \in -1..arg.rows /\ k' \in 0..arg.cols
    BY <1>1, <1>4, <1>5, <1>6
  <2> QED BY <1>1, <1>2, <1>3, <2>1, <2>2 DEF TypeOK
<1>8. k' \in Cols
  BY <1>1, <1>4, <1>5 DEF Cols
<1>9. IsSubstituting(h, lead, k', h', res')
  <2>1. lead \in [0..(h - 1) -> 0..(k - 1)]
    BY <1>6 DEF Echelon
  <2>2. Echelon(h, arg.cols, lead)
    <3>1. lead \in [0..(h - 1) -> 0..(arg.cols - 1)]
      BY <1>6 DEF Cols
    <3>2. CASE k = arg.cols
      BY <1>6, <3>2
    <3>3. CASE h = arg.rows
      <4>1. \A i \in Rows : ~(i >= h)
        BY <1>4, <3>3 DEF Rows
      <4> QED BY <1>6, <3>1, <4>1 DEF Echelon
    <3> QED BY <1>1, <3>2, <3>3
  <2>3. h' < h /\ \A i \in 0..(h - 1) : i <= h' /\ lead[i] <= k' /\ ~(i > h')
    BY <1>1, <1>4, <1>6, <2>1
  <2>4. ASSUME NEW j \in Cols
        PROVE  IF j \in Range(lead) THEN j <= k' <=> res'[j] = -1 ELSE res'[j] = 0
    <3>1. j \in Int /\ res'[j] = IF j >= k THEN 0 ELSE res[j]
      BY <1>1 DEF Cols
    <3>2. CASE j \in Range(lead)
      <4>1. PICK i \in 0..(h - 1) : lead[i] = j
        BY <1>6, <3>2 DEF Range
      <4>2. j <= k' /\ ~(j >= k)
        BY <1>1, <1>4, <2>1, <4>1
      <4> QED BY <1>6, <3>1, <3>2, <4>2
    <3>3. CASE j \notin Range(lead)
      <4>1. CASE j >= k
        BY <3>1, <3>3, <4>1
      <4>2. CASE ~(j >= k)
        BY <1>6, <3>1, <3>3, <4>2
      <4> QED BY <4>1, <4>2
    <3> QED BY <3>2, <3>3
  <2> QED BY <1>1, <1>6, <2>2, <2>3, <2>4 DEF IsSubstituting
<1>10. SubstituteInv'
  <2>1. Substituting(k)'
    BY <1>1, <1>9, NextSubstituting
  <2> QED BY <1>3, <1>8, <2>1 DEF SubstituteInv
<1>11. EliminateInv' /\ DoneInv'
  BY <1>1, <1>2 DEF EliminateInv, DoneInv
<1> QED BY <1>3, <1>7, <1>10, <1>11 DEF IInv

\* A marked column that is met is the beginning of row h.
LEMMA MarkedColumn ==
  ASSUME TypeOK, k \in Cols, res[k] = -1, NEW n, NEW lead, IsSubstituting(n, lead, k, h, res)
  PROVE  /\ h \in 0..(n - 1) /\ lead[h] = k
         /\ h \in Rows /\ m[h][k] # 0 /\ \A j \in Cols : j < k => m[h][j] = 0
<1>1. /\ n \in 0..arg.rows /\ lead \in [0..(n - 1) -> Cols]
      /\ Echelon(n, arg.cols, lead) /\ h < n
      /\ \A i \in 0..(n - 1) : i <= h <=> lead[i] <= k
      /\ \A j \in Cols : IF j \in Range(lead) THEN j <= k <=> res[j] = -1 ELSE res[j] = 0
  BY DEF IsSubstituting
<1>2. n \in Nat /\ h \in Int /\ k \in Int /\ arg.rows \in Nat /\ arg.cols \in Nat
  BY <1>1, Shapes DEF TypeOK
<1>3. \A i \in 0..(n - 1) : lead[i] \in Int /\ lead[i] \in 0..(arg.cols - 1)
  BY <1>1 DEF Cols
<1>4. PICK t \in 0..(n - 1) : lead[t] = k
  <2>1. k \in Range(lead)
    BY <1>1
  <2> QED BY <1>1, <2>1 DEF Range
<1>5. t <= h
  BY <1>1, <1>2, <1>4
<1>6. h \in 0..(n - 1)
  BY <1>1, <1>2, <1>5
<1>7. t = h
  <2>1. lead[h] <= k
    BY <1>1, <1>2, <1>6
  <2>2. t < h => lead[t] < lead[h]
    BY <1>1, <1>6 DEF Echelon
  <2> QED BY <1>2, <1>3, <1>4, <1>5, <1>6, <2>1, <2>2
<1>8. m[h][k] # 0 /\ \A j \in 0..(k - 1) : m[h][j] = 0
  BY <1>1, <1>4, <1>6, <1>7 DEF Echelon
<1>9. \A j \in Cols : j < k => j \in 0..(k - 1)
  BY <1>2 DEF Cols
<1>10. h \in Rows
  BY <1>1, <1>2, <1>6 DEF Rows
<1> QED BY <1>4, <1>6, <1>7, <1>8, <1>9, <1>10

\* So the counter of the rows and the inverse are in order.
LEMMA PivotOfInv == IInv => PivotInRow
<1> SUFFICES ASSUME IInv, pc = "substitute", res[k] = -1
             PROVE  h \in Rows /\ m[h][k] # 0 /\ \A j \in Cols : j < k => m[h][j] = 0
  BY DEF PivotInRow
<1>1. TypeOK /\ k \in Cols /\ Substituting(k)
  BY DEF IInv, SubstituteInv
<1>2. PICK n, lead : IsSubstituting(n, lead, k, h, res)
  BY <1>1 DEF Substituting, IsSubstituting
<1> QED BY <1>1, <1>2, MarkedColumn

\* The loop that sums over the columns on the right has all terms that are not 0
\* (mat.c:636-643).
LEMMA SubstitutedSum ==
  ASSUME TypeOK, k \in Cols, h \in Rows, \A j \in Cols : j < k => m[h][j] = 0,
         NEW a, a = m[h], NEW f, AreTerms(f, res, a, Cols)
  PROVE  IsSubstituted(Substituted, v[h], SumFunctionOnSet(f, Cols \ {k}), a[k], p)
<1>1. /\ p \in Nat /\ p # 0 /\ IsFiniteSet(Cols) /\ Residues(p) \subseteq Int /\ k \in Int
      /\ a \in [Cols -> Int] /\ \A j \in Cols : j \in Int
  BY Shapes DEF Cols
<1>2. res \in [Cols -> Int]
  BY <1>1 DEF TypeOK
<1>3. PICK L, G : /\ G = {j \in Cols : j > k} /\ L = {j \in Cols : j < k}
                  /\ IsFiniteSet(L) /\ IsFiniteSet(G)
  BY <1>1, FS_Subset
<1>4. Cols \ {k} = G \cup L /\ G \cap L = {}
  <2>1. \A j \in Cols : (j # k <=> j > k \/ j < k) /\ ~(j > k /\ j < k)
    BY <1>1
  <2>2. \A j \in Cols \ {k} : j \in G \cup L
    BY <1>3, <2>1
  <2>3. \A j \in G \cup L : j \in Cols \ {k}
    BY <1>3, <2>1
  <2> QED BY <1>3, <2>1, <2>2, <2>3
<1>5. \A j \in Cols : f[j] = res[j] * a[j] /\ f[j] \in Int
  BY <1>1, <1>2 DEF AreTerms
<1>6. SumFunctionOnSet(f, L) = 0
  <2>1. \A j \in L : f[j] = 0
    <3>1. SUFFICES ASSUME NEW j \in L PROVE res[j] * a[j] = 0
      BY <1>3, <1>5
    <3>2. a[j] = 0 /\ res[j] \in Int
      BY <1>2, <1>3
    <3> QED BY <3>2
  <2> QED BY <1>3, <2>1, SumOfZeros
<1>7. SumFunctionOnSet(f, G \cup L) = SumFunctionOnSet(f, G) + SumFunctionOnSet(f, L)
  <2>1. \A j \in G \cup L : f[j] \in Int
    BY <1>3, <1>5
  <2> QED BY <1>3, <1>4, <2>1, SumOfUnion
<1>8. SumFunctionOnSet(f, G) \in Int
  BY <1>3, <1>5, SumIsInt
<1>9. SumFunctionOnSet(f, Cols \ {k}) = SumFunctionOnSet(f, G)
  <2>1. SumFunctionOnSet(f, Cols \ {k}) = SumFunctionOnSet(f, G \cup L)
    BY <1>4
  <2>2. PICK s \in Int : s = SumFunctionOnSet(f, G)
    BY <1>8
  <2>3. SumFunctionOnSet(f, G \cup L) = s
    BY <1>6, <1>7, <2>2
  <2> QED BY <2>1, <2>2, <2>3
<1>10. PICK g : g = [j \in G |-> a[j] * res[j]]
  OBVIOUS
<1>11. SumFunctionOnSet(g, G) = SumFunctionOnSet(f, G)
  <2>1. \A j \in G : g[j] = f[j]
    <3>1. SUFFICES ASSUME NEW j \in G PROVE a[j] * res[j] = res[j] * a[j]
      BY <1>3, <1>5, <1>10
    <3>2. a[j] \in Int /\ res[j] \in Int
      BY <1>1, <1>2, <1>3
    <3> QED BY <3>2
  <2> QED BY <1>3, <2>1, SumCongruence
<1>12. SumFunction(g) = SumFunctionOnSet(g, G)
  BY <1>10 DEF SumFunction
<1>13. Substituted = ((v[h] - SumFunction(g)) * InverseMod(a[k], p)) % p
  BY <1>3, <1>10 DEF Substituted
<1> QED BY <1>9, <1>11, <1>12, <1>13 DEF IsSubstituted

\* A marked column is substituted.
LEMMA MarkedStep ==
  ASSUME TypeOK, k \in Cols, res[k] = -1, NEW n, NEW lead, IsSubstituting(n, lead, k, h, res),
         NEW r, r = [res EXCEPT ![k] = Substituted], NEW c \in Int, c = k - 1
  PROVE  r \in [Cols -> Residues(p) \cup {-1}] /\ IsSubstituting(n, lead, c, h - 1, r)
<1>1. /\ n \in 0..arg.rows /\ lead \in [0..(n - 1) -> Cols]
      /\ Echelon(n, arg.cols, lead) /\ h < n
      /\ \A i \in Rows : i >= n => v[i] = 0
      /\ \A i \in 0..(n - 1) : i <= h <=> lead[i] <= k
      /\ \A i \in 0..(n - 1) : i > h => RowHolds(m, res, v, i, p)
      /\ \A j \in Cols : IF j \in Range(lead) THEN j <= k <=> res[j] = -1 ELSE res[j] = 0
  BY DEF IsSubstituting
<1>2. /\ h \in 0..(n - 1) /\ lead[h] = k
      /\ h \in Rows /\ m[h][k] # 0 /\ \A j \in Cols : j < k => m[h][j] = 0
  BY MarkedColumn
<1>3. /\ n \in Nat /\ h \in Int /\ k \in Int /\ arg.rows \in Nat /\ IsFiniteSet(Cols)
      /\ \A i \in 0..(n - 1) : lead[i] \in Int /\ i \in Rows
  <2>1. n \in Nat /\ arg.rows \in Nat /\ IsFiniteSet(Cols) /\ n <= arg.rows
    BY <1>1, Shapes
  <2>2. h \in Int /\ k \in Int
    BY <1>2 DEF Cols, Rows
  <2>3. \A i \in 0..(n - 1) : lead[i] \in Int
    BY <1>1 DEF Cols
  <2>4. \A i \in 0..(n - 1) : i \in Rows
    BY <2>1 DEF Rows
  <2> QED BY <2>1, <2>2, <2>3, <2>4
<1>4. PICK q \in Nat : q = p /\ q > 1 /\ q # 0 /\ IsPrime(q) /\ Residues(q) \subseteq Int
  BY Shapes
<1>5. res \in [Cols -> Int]
  BY <1>4 DEF TypeOK
<1>6. PICK a \in [Cols -> Int] : a = m[h] /\ a[k] \in 1..(q - 1)
  <2>1. m[h] \in [Cols -> Int] /\ m[h][k] \in Residues(q)
    BY <1>2, <1>4, Shapes
  <2>2. m[h][k] \in 1..(q - 1)
    BY <1>2, <1>4, <2>1 DEF Residues
  <2> QED BY <2>1, <2>2
<1>7. PICK f : AreTerms(f, res, a, Cols)
  BY DEF AreTerms
<1>8. PICK b, w, S \in Int : b = k /\ w = v[h] /\ S = SumFunctionOnSet(f, Cols \ {k})
  <2>1. SumFunctionOnSet(f, Cols \ {k}) \in Int
    BY <1>3, <1>5, <1>6, <1>7, DotSplit
  <2>2. v[h] \in Int
    BY <1>2, Shapes
  <2> QED BY <1>3, <2>1, <2>2
<1>9. PICK u \in Int : u = Substituted /\ IsSubstituted(u, w, S, a[b], q)
  <2>1. IsSubstituted(Substituted, v[h], SumFunctionOnSet(f, Cols \ {k}), a[k], p)
    BY <1>2, <1>6, <1>7, SubstitutedSum
  <2>2. IsSubstituted(Substituted, w, S, a[b], q)
    BY <1>4, <1>8, <2>1
  <2>3. InverseMod(a[b], q) \in Int
    BY <1>4, <1>6, <1>8, InverseOfResidue
  <2>4. PICK x \in Int : x = (w - S) * InverseMod(a[b], q)
    BY <2>3
  <2>5. x % q \in Int
    BY <1>4, CongruentMod
  <2>6. Substituted = x % q
    BY <2>2, <2>4 DEF IsSubstituted
  <2> QED BY <2>2, <2>5, <2>6
<1>10. b \in Cols /\ r \in [Cols -> Int] /\ r[b] = u /\ \A j \in Cols : j # b => r[j] = res[j]
  BY <1>5, <1>8, <1>9
<1>11. u \in Residues(q) /\ Congruent(Dot(r, a), w, q)
  <2>1. IsSubstituted(u, w, SumFunctionOnSet(f, Cols \ {b}), a[b], q) /\ a[b] \in 1..(q - 1)
    BY <1>6, <1>8, <1>9
  <2> QED BY <1>3, <1>4, <1>5, <1>7, <1>10, <2>1, SubstitutionSolves
<1>12. r \in [Cols -> Residues(p) \cup {-1}]
  BY <1>4, <1>9, <1>11 DEF TypeOK
<1>13. \A i \in 0..(n - 1) : i <= h - 1 <=> lead[i] <= c
  <2>1. SUFFICES ASSUME NEW i \in 0..(n - 1) PROVE i <= h - 1 <=> lead[i] <= k - 1
    OBVIOUS
  <2>2. lead[i] = k <=> i = h
    <3>1. (i < h => lead[i] < lead[h]) /\ (h < i => lead[h] < lead[i])
      BY <1>1, <1>2 DEF Echelon
    <3> QED BY <1>2, <1>3, <3>1
  <2>3. i <= h <=> lead[i] <= k
    BY <1>1
  <2> QED BY <1>3, <2>2, <2>3
<1>14. ASSUME NEW i \in 0..(n - 1), i > h - 1 PROVE RowHolds(m, r, v, i, p)
  <2>1. CASE i = h
    <3>1. PICK s \in Int : s = Dot(r, a)
      BY <1>3, <1>10, DotIsInt
    <3>2. s % q = w % q
      BY <1>4, <1>11, <3>1, SameRemainder
    <3> QED BY <1>4, <1>6, <1>8, <2>1, <3>1, <3>2 DEF RowHolds
  <2>2. CASE i # h
    <3>1. i > h
      BY <1>3, <1>14, <2>2
    <3>2. RowHolds(m, res, v, i, p)
      BY <1>1, <3>1
    <3>3. m[i][k] = 0
      <4>1. k < lead[i] /\ k \in 0..(lead[i] - 1)
        <5>1. lead[h] < lead[i]
          BY <1>1, <1>2, <1>3, <3>1 DEF Echelon
        <5>2. k >= 0
          BY DEF Cols
        <5> QED BY <1>2, <1>3, <5>1, <5>2
      <4> QED BY <1>1, <4>1 DEF Echelon
    <3>4. PICK d \in [Cols -> Int] : d = m[i] /\ d[k] = 0
      BY <1>3, <3>3, Shapes
    <3>5. PICK y, z \in [Cols -> Int] : /\ y = r /\ z = res
                                        /\ \A j \in Cols : y[j] = z[j] \/ d[j] = 0
      BY <1>5, <1>8, <1>10, <3>4
    <3>6. Dot(r, d) = Dot(res, d)
      <4>1. \A j \in Cols : y[j] = z[j] \/ d[j] = 0
        BY <3>5
      <4>2. IsFiniteSet(Cols)
        BY <1>3
      <4>3. Dot(y, d) = Dot(z, d)
        BY <4>1, <4>2, DotUnchanged
      <4> QED BY <3>5, <4>3
    <3> QED BY <3>2, <3>4, <3>6 DEF RowHolds
  <2> QED BY <2>1, <2>2
<1>15. ASSUME NEW j \in Cols
       PROVE  IF j \in Range(lead) THEN j <= c <=> r[j] = -1 ELSE r[j] = 0
  <2>1. j \in Int /\ k \in Range(lead)
    BY <1>1, <1>2 DEF Cols, Range
  <2>2. CASE j = k
    <3>1. r[j] # -1
      BY <1>4, <1>8, <1>10, <1>11, <2>2 DEF Residues
    <3>2. ~(j <= c)
      BY <1>3, <2>2
    <3> QED BY <2>1, <2>2, <3>1, <3>2
  <2>3. CASE j # k
    <3>1. r[j] = res[j] /\ (j <= c <=> j <= k)
      BY <1>3, <1>8, <1>10, <2>1, <2>3
    <3> QED BY <1>1, <3>1
  <2> QED BY <2>2, <2>3
<1>16. h - 1 < n
  BY <1>1, <1>3
<1> QED BY <1>1, <1>12, <1>13, <1>14, <1>15, <1>16 DEF IsSubstituting

\* A column that leads no row is passed.
LEMMA UnmarkedStep ==
  ASSUME TypeOK, k \in Cols, res[k] # -1, NEW n, NEW lead, IsSubstituting(n, lead, k, h, res),
         NEW c \in Int, c = k - 1
  PROVE  IsSubstituting(n, lead, c, h, res)
<1>1. /\ n \in 0..arg.rows /\ lead \in [0..(n - 1) -> Cols]
      /\ Echelon(n, arg.cols, lead) /\ h < n
      /\ \A i \in Rows : i >= n => v[i] = 0
      /\ \A i \in 0..(n - 1) : i <= h <=> lead[i] <= k
      /\ \A i \in 0..(n - 1) : i > h => RowHolds(m, res, v, i, p)
      /\ \A j \in Cols : IF j \in Range(lead) THEN j <= k <=> res[j] = -1 ELSE res[j] = 0
  BY DEF IsSubstituting
<1>2. k \in Int /\ \A j \in Cols : j \in Int
  BY DEF Cols
<1>3. \A i \in 0..(n - 1) : lead[i] \in Int
  BY <1>1, <1>2
<1>4. k \notin Range(lead)
  <2>1. k <= k
    BY <1>2
  <2> QED BY <1>1, <2>1
<1>5. \A i \in 0..(n - 1) : lead[i] # k
  BY <1>1, <1>4 DEF Range
<1>6. \A i \in 0..(n - 1) : lead[i] <= k <=> lead[i] <= c
  BY <1>2, <1>3, <1>5
<1>7. ASSUME NEW j \in Cols
      PROVE  IF j \in Range(lead) THEN j <= c <=> res[j] = -1 ELSE res[j] = 0
  <2>1. CASE j \in Range(lead)
    <3>1. j # k
      BY <1>4, <2>1
    <3>2. j <= c <=> j <= k
      BY <1>2, <3>1
    <3> QED BY <1>1, <2>1, <3>2
  <2>2. CASE j \notin Range(lead)
    BY <1>1, <2>2
  <2> QED BY <2>1, <2>2
<1> QED BY <1>1, <1>6, <1>7 DEF IsSubstituting

\* Each column of the back substitution keeps the invariant.
LEMMA SubstituteStepInv == IInv /\ Substitute => IInv'
<1> SUFFICES ASSUME IInv, Substitute PROVE IInv'
  OBVIOUS
<1>1. /\ pc = "substitute" /\ UNCHANGED <<arg, m, v>> /\ err' = err
      /\ k' = IF k = 0 THEN k ELSE k - 1
      /\ pc' = IF k = 0 THEN "done" ELSE pc
  BY DEF Substitute
<1>2. /\ res[k] = -1 => res' = [res EXCEPT ![k] = Substituted] /\ h' = h - 1
      /\ res[k] # -1 => res' = res /\ h' = h
  BY DEF Substitute
<1>3. TypeOK /\ SameSolutions /\ k \in Cols /\ Substituting(k) /\ err = "NONE"
  BY <1>1 DEF IInv, SubstituteInv, DoneInv
<1>4. p' = p /\ Rows' = Rows /\ Cols' = Cols /\ arg' = arg /\ m' = m /\ v' = v /\ SameSolutions'
  BY <1>1, <1>3, SystemKept
<1>5. PICK c \in Int : c = k - 1
  BY <1>3 DEF Cols
<1>6. PICK n, lead : IsSubstituting(n, lead, k, h, res)
  BY <1>3 DEF Substituting, IsSubstituting
<1>7. PICK r : r = [res EXCEPT ![k] = Substituted]
  OBVIOUS
<1>8. /\ res' \in [Cols -> Residues(p) \cup {-1}] /\ IsSubstituting(n, lead, c, h', res')
      /\ h' \in -1..arg.rows
  <2>1. /\ arg.rows \in Nat /\ h \in -1..arg.rows /\ res \in [Cols -> Residues(p) \cup {-1}]
    BY <1>3, Shapes DEF TypeOK
  <2>2. CASE res[k] = -1
    <3>1. r \in [Cols -> Residues(p) \cup {-1}] /\ IsSubstituting(n, lead, c, h - 1, r)
      BY <1>3, <1>5, <1>6, <1>7, <2>2, MarkedStep
    <3>2. res' = r /\ h' = h - 1
      BY <1>2, <1>7, <2>2
    <3>3. h \in Rows
      BY <1>3, <1>6, <2>2, MarkedColumn
    <3>4. h - 1 \in -1..arg.rows
      BY <2>1, <3>3 DEF Rows
    <3> QED BY <3>1, <3>2, <3>4
  <2>3. CASE res[k] # -1
    <3>1. IsSubstituting(n, lead, c, h, res)
      BY <1>3, <1>5, <1>6, <2>3, UnmarkedStep
    <3> QED BY <1>2, <2>1, <2>3, <3>1
  <2> QED BY <2>2, <2>3
<1>9. TypeOK'
  <2>1. k' \in 0..arg.cols
    BY <1>1, <1>3, Shapes DEF Cols
  <2> QED BY <1>1, <1>3, <1>4, <1>8, <2>1 DEF TypeOK
<1>10. CASE k = 0
  <2>1. c = -1
    BY <1>5, <1>10
  <2>2. Substituting(-1)'
    BY <1>1, <1>8, <2>1, NextSubstituting
  <2>3. pc' = "done" /\ err' = "NONE"
    BY <1>1, <1>3, <1>10
  <2>4. EliminateInv' /\ SubstituteInv' /\ DoneInv'
    BY <2>2, <2>3 DEF EliminateInv, SubstituteInv, DoneInv
  <2> QED BY <1>4, <1>9, <2>4 DEF IInv
<1>11. CASE k # 0
  <2>1. k' = c /\ k' \in Cols /\ pc' = "substitute" /\ err' = "NONE"
    <3>1. arg.cols \in Nat
      BY <1>3, Shapes
    <3>2. k - 1 \in Cols
      BY <1>3, <1>11, <3>1 DEF Cols
    <3> QED BY <1>1, <1>3, <1>5, <1>11, <3>2
  <2>2. Substituting(k)'
    BY <1>1, <1>8, <2>1, NextSubstituting
  <2>3. EliminateInv' /\ SubstituteInv' /\ DoneInv'
    BY <1>4, <2>1, <2>2 DEF EliminateInv, SubstituteInv, DoneInv
  <2> QED BY <1>4, <1>9, <2>3 DEF IInv
<1> QED BY <1>10, <1>11

\* Exchanging two rows, the vector with the matrix.
LEMMA Exchange ==
  ASSUME TypeOK, NEW i0, i0 \in Rows, h \in Rows, NEW a, NEW b, a = Swap(m, i0), b = Swap(v, i0)
  PROVE  /\ DOMAIN a = Rows
         /\ a[h] = m[i0] /\ a[i0] = m[h] /\ b[h] = v[i0] /\ b[i0] = v[h]
         /\ \A i \in Rows : i # h /\ i # i0 => a[i] = m[i] /\ b[i] = v[i]
         /\ \A i \in Rows : /\ a[i] \in [Cols -> Residues(p)] /\ a[i] \in [Cols -> Int]
                            /\ b[i] \in Residues(p) /\ b[i] \in Int
         /\ \A x : Solves(m, x, v, p) <=> Solves(a, x, b, p)
         /\ \A x : Solves(m, x, Zeros, p) <=> Solves(a, x, Zeros, p)
<1>1. m \in [Rows -> [Cols -> Residues(p)]] /\ v \in [Rows -> Residues(p)] /\ Residues(p) \subseteq Int
  BY Shapes DEF TypeOK
<1>2. a = [m EXCEPT ![h] = m[i0], ![i0] = m[h]] /\ b = [v EXCEPT ![h] = v[i0], ![i0] = v[h]]
  BY DEF Swap
<1>3. /\ DOMAIN a = Rows
      /\ a[h] = m[i0] /\ a[i0] = m[h] /\ b[h] = v[i0] /\ b[i0] = v[h]
      /\ \A i \in Rows : i # h /\ i # i0 => a[i] = m[i] /\ b[i] = v[i]
  BY <1>1, <1>2
<1>4. \A i \in Rows : (a[i] = m[i] /\ b[i] = v[i]) \/ \E j \in Rows : a[i] = m[j] /\ b[i] = v[j]
  BY <1>3
<1>5. \A i \in Rows : /\ m[i] \in [Cols -> Residues(p)] /\ m[i] \in [Cols -> Int]
                      /\ v[i] \in Residues(p) /\ v[i] \in Int
  BY Shapes
<1>6. \A i \in Rows : /\ a[i] \in [Cols -> Residues(p)] /\ a[i] \in [Cols -> Int]
                      /\ b[i] \in Residues(p) /\ b[i] \in Int
  BY <1>4, <1>5
<1>7. DOMAIN m = Rows
  BY <1>1
<1>8. ASSUME NEW x PROVE Solves(m, x, v, p) <=> Solves(a, x, b, p)
  BY <1>3, <1>7, SwapSolves
<1>9. ASSUME NEW x PROVE Solves(m, x, Zeros, p) <=> Solves(a, x, Zeros, p)
  <2>1. \A i \in Rows : Zeros[i] = 0
    BY DEF Zeros
  <2> QED BY <1>3, <1>7, <2>1, SwapSolves
<1> QED BY <1>3, <1>6, <1>8, <1>9

\* The first row of a column that is not zero.
LEMMA FirstCandidate ==
  ASSUME TypeOK, Candidates # {}, h \in Int
  PROVE  Min(Candidates) \in Rows /\ Min(Candidates) >= h /\ m[Min(Candidates)][k] # 0
<1>1. Candidates \in SUBSET Nat
  BY Shapes DEF Candidates, Rows
<1>2. \E x \in Candidates : \A y \in Candidates : x <= y
  BY <1>1, LeastElement
<1>3. Min(Candidates) = CHOOSE x \in Candidates : \A y \in Candidates : x <= y
  BY DEF Min
<1>4. Min(Candidates) \in Candidates
  BY <1>2, <1>3
<1> QED BY <1>4 DEF Candidates

\* What the elimination computes for a row i below h: the entries z of the matrix, from
\* the entries a of the row and b of row h.
IsEliminated(z, a, b, e) == z = [j \in Cols |-> (a[j] - b[j] * e) % p]

\* Its entries are residues, and zero where both rows are.
LEMMA EliminatedRow ==
  ASSUME TypeOK, NEW a \in [Cols -> Int], NEW b \in [Cols -> Int], NEW e \in Int, NEW z,
         IsEliminated(z, a, b, e)
  PROVE  /\ z \in [Cols -> Residues(p)] /\ z \in [Cols -> Int]
         /\ \A j \in Cols : Congruent(z[j], a[j] - b[j] * e, p)
         /\ \A j \in Cols : a[j] = 0 /\ b[j] = 0 => z[j] = 0
<1>1. p \in Nat /\ p # 0 /\ p > 1 /\ Residues(p) \subseteq Int /\ 0 \in Residues(p)
  BY Shapes DEF Residues
<1>2. ASSUME NEW j \in Cols
      PROVE  /\ z[j] \in Residues(p) /\ Congruent(z[j], a[j] - b[j] * e, p)
             /\ a[j] = 0 /\ b[j] = 0 => z[j] = 0
  <2>1. PICK s, t \in Int : s = a[j] /\ t = b[j]
    OBVIOUS
  <2>2. PICK d \in Int : d = s - t * e
    OBVIOUS
  <2>3. z[j] = d % p
    BY <2>1, <2>2 DEF IsEliminated
  <2>4. d % p \in Residues(p) /\ Congruent(d % p, d, p)
    BY <1>1, CongruentMod DEF Residues
  <2>5. ASSUME s = 0, t = 0 PROVE d % p = 0
    <3>1. d = 0
      BY <2>2, <2>5
    <3> QED BY <1>1, <3>1
  <2> QED BY <2>1, <2>2, <2>3, <2>4, <2>5
<1>3. z \in [Cols -> Residues(p)]
  <2>1. z = [j \in Cols |-> z[j]]
    BY DEF IsEliminated
  <2> QED BY <1>2, <2>1
<1>4. z \in [Cols -> Int]
  BY <1>1, <1>3
<1> QED BY <1>2, <1>3, <1>4

\* And zero in the column of the pivot.
LEMMA EliminatedColumn ==
  ASSUME TypeOK, NEW a \in [Cols -> Int], NEW b \in [Cols -> Int], NEW c \in Cols,
         b[c] \in 1..(p - 1), NEW e, e = a[c] * InverseMod(b[c], p), NEW z, IsEliminated(z, a, b, e)
  PROVE  e \in Int /\ z[c] = 0
<1>1. PICK q \in Nat : q = p /\ q # 0 /\ q > 1 /\ IsPrime(q) /\ Residues(q) \subseteq Int /\ 0 \in Residues(q)
  BY Shapes DEF Residues
<1>2. PICK s, t \in Int : s = a[c] /\ t = b[c] /\ t \in 1..(q - 1)
  BY <1>1
<1>3. PICK y \in Int : y = InverseMod(t, q) /\ Congruent(t * y, 1, q)
  <2>1. InverseMod(t, q) \in Residues(q) /\ Congruent(t * InverseMod(t, q), 1, q)
    BY <1>1, <1>2, InverseOfResidue
  <2> QED BY <1>1, <2>1
<1>4. e = s * y /\ e \in Int
  BY <1>1, <1>2, <1>3
<1>5. Congruent(z[c], s - t * e, q) /\ z[c] \in Residues(q)
  BY <1>1, <1>2, <1>4, EliminatedRow
<1>6. Congruent(s * (t * y), s * 1, q)
  <2>1. PICK d \in Int : d = t * y
    OBVIOUS
  <2> QED BY <1>3, <2>1, CongruentMul, CongruentRefl
<1>7. PICK d \in Int : d = s * (t * y) /\ d = t * e
  <2>1. s * (t * y) = t * (s * y) /\ s * (t * y) \in Int
    OBVIOUS
  <2> QED BY <1>4, <2>1
<1>8. Congruent(d, s, q)
  BY <1>6, <1>7
<1>9. Congruent(s - d, s - s, q)
  BY <1>8, CongruentSub, CongruentRefl
<1>10. PICK f \in Int : f = s - d /\ Congruent(f, 0, q)
  BY <1>9
<1>11. Congruent(z[c], f, q) /\ z[c] \in Int
  BY <1>1, <1>5, <1>7, <1>10
<1>12. Congruent(z[c], 0, q)
  BY <1>10, <1>11, CongruentTrans
<1>13. z[c] = 0
  BY <1>1, <1>5, <1>12, EqualResidues
<1> QED BY <1>4, <1>13

\* A pivot: row h is the one that was found, and the rows below it are eliminated.
LEMMA PivotSystem ==
  ASSUME IInv, Pivot
  PROVE  /\ m' \in [Rows -> [Cols -> Residues(p)]] /\ v' \in [Rows -> Residues(p)]
         /\ k \in Cols /\ h \in Rows
         /\ \A i \in Rows : i < h => m'[i] = m[i]
         /\ m'[h][k] # 0 /\ \E i0 \in Rows : i0 >= h /\ m'[h] = m[i0]
         /\ \A i \in Rows : i > h => m'[i][k] = 0
         /\ \A i \in Rows : i > h => \A j \in Cols :
              (\A r \in Rows : r >= h => m[r][j] = 0) => m'[i][j] = 0
         /\ \A x \in [Cols -> Residues(p)] :
              /\ Solves(m, x, v, p) <=> Solves(m', x, v', p)
              /\ Solves(m, x, Zeros, p) <=> Solves(m', x, Zeros, p)
<1>1. /\ TypeOK /\ k \in Cols /\ h \in Rows /\ Candidates # {}
      /\ IsFiniteSet(Cols) /\ p \in Nat /\ p # 0 /\ p > 1 /\ Residues(p) \subseteq Int
      /\ Rows \subseteq Int /\ h \in Int
  <2>1. TypeOK /\ pc = "eliminate" /\ h < arg.rows /\ k < arg.cols /\ Candidates # {}
    BY DEF IInv, Pivot
  <2>2. h \in 0..arg.rows /\ arg.rows \in Nat /\ arg.cols \in Nat /\ k \in 0..arg.cols
    BY <2>1, Shapes DEF IInv, EliminateInv, TypeOK
  <2>3. k \in Cols /\ h \in Rows /\ Rows \subseteq Int /\ h \in Int
    BY <2>1, <2>2 DEF Cols, Rows
  <2> QED BY <2>1, <2>3, Shapes
<1>2. PICK i0 : i0 = Min(Candidates) /\ i0 \in Rows /\ i0 >= h /\ m[i0][k] # 0
  BY <1>1, FirstCandidate
<1>3. PICK a, b : a = Swap(m, i0) /\ b = Swap(v, i0)
  OBVIOUS
<1>4. PICK e : e = [i \in Rows |-> a[i][k] * InverseMod(a[h][k], p)]
  OBVIOUS
<1>5. /\ m' = [i \in Rows |-> IF i <= h THEN a[i] ELSE [j \in Cols |-> (a[i][j] - a[h][j] * e[i]) % p]]
      /\ v' = [i \in Rows |-> IF i <= h THEN b[i] ELSE (b[i] - b[h] * e[i]) % p]
  BY <1>2, <1>3, <1>4 DEF Pivot
<1>6. /\ DOMAIN a = Rows
      /\ a[h] = m[i0] /\ a[i0] = m[h] /\ b[h] = v[i0] /\ b[i0] = v[h]
      /\ \A i \in Rows : i # h /\ i # i0 => a[i] = m[i] /\ b[i] = v[i]
      /\ \A i \in Rows : /\ a[i] \in [Cols -> Residues(p)] /\ a[i] \in [Cols -> Int]
                         /\ b[i] \in Residues(p) /\ b[i] \in Int
      /\ \A x : Solves(m, x, v, p) <=> Solves(a, x, b, p)
      /\ \A x : Solves(m, x, Zeros, p) <=> Solves(a, x, Zeros, p)
  BY <1>1, <1>2, <1>3, Exchange
<1>7. PICK f \in [Cols -> Int] : f = a[h] /\ f[k] \in 1..(p - 1)
  <2>1. a[h] \in [Cols -> Int] /\ a[h][k] \in Residues(p) /\ a[h][k] # 0
    BY <1>1, <1>2, <1>6
  <2>2. a[h][k] \in 1..(p - 1)
    BY <1>1, <2>1 DEF Residues
  <2> QED BY <2>1, <2>2
<1>8. ASSUME NEW i \in Rows, i > h
      PROVE  /\ e[i] \in Int /\ m'[i][k] = 0
             /\ m'[i] \in [Cols -> Residues(p)] /\ m'[i] \in [Cols -> Int]
             /\ \A j \in Cols : Congruent(m'[i][j], a[i][j] - a[h][j] * e[i], p)
             /\ \A j \in Cols : a[i][j] = 0 /\ a[h][j] = 0 => m'[i][j] = 0
  <2>1. PICK d \in [Cols -> Int] : d = a[i]
    BY <1>6
  <2>2. PICK g, z : g = e[i] /\ z = m'[i]
    OBVIOUS
  <2>3. g = d[k] * InverseMod(f[k], p)
    BY <1>4, <1>7, <2>1, <2>2
  <2>4. ~(i <= h)
    BY <1>1, <1>8
  <2>5. IsEliminated(z, d, f, g)
    BY <1>5, <1>7, <2>1, <2>2, <2>4 DEF IsEliminated
  <2>6. g \in Int /\ z[k] = 0
    BY <1>1, <1>7, <2>3, <2>5, EliminatedColumn
  <2>7. /\ z \in [Cols -> Residues(p)] /\ z \in [Cols -> Int]
        /\ \A j \in Cols : Congruent(z[j], d[j] - f[j] * g, p)
        /\ \A j \in Cols : d[j] = 0 /\ f[j] = 0 => z[j] = 0
    BY <1>1, <2>5, <2>6, EliminatedRow
  <2> QED BY <1>7, <2>1, <2>2, <2>6, <2>7
<1>9. ASSUME NEW i \in Rows, i > h
      PROVE  v'[i] \in Residues(p) /\ v'[i] \in Int /\ Congruent(v'[i], b[i] - b[h] * e[i], p)
  <2>1. PICK s, t, g \in Int : s = b[i] /\ t = b[h] /\ g = e[i]
    BY <1>1, <1>6, <1>8, <1>9
  <2>2. PICK d \in Int : d = s - t * g
    OBVIOUS
  <2>3. ~(i <= h)
    BY <1>1, <1>9
  <2>4. v'[i] = d % p
    BY <1>5, <2>1, <2>2, <2>3
  <2>5. d % p \in Residues(p) /\ d % p \in Int /\ Congruent(d % p, d, p)
    BY <1>1, CongruentMod DEF Residues
  <2> QED BY <2>1, <2>2, <2>4, <2>5
<1>10. ASSUME NEW i \in Rows, i <= h PROVE m'[i] = a[i] /\ v'[i] = b[i]
  BY <1>5, <1>10
<1>11. \A i \in Rows : i <= h \/ i > h
  BY <1>1
<1>12. m' \in [Rows -> [Cols -> Residues(p)]] /\ v' \in [Rows -> Residues(p)]
  <2>1. \A i \in Rows : m'[i] \in [Cols -> Residues(p)] /\ v'[i] \in Residues(p)
    BY <1>6, <1>8, <1>9, <1>10, <1>11
  <2>2. m' = [i \in Rows |-> m'[i]] /\ v' = [i \in Rows |-> v'[i]]
    BY <1>5
  <2> QED BY <2>1, <2>2
<1>13. \A i \in Rows : i < h => m'[i] = m[i]
  <2>1. SUFFICES ASSUME NEW i \in Rows, i < h PROVE m'[i] = m[i]
    OBVIOUS
  <2>2. i <= h /\ i # h /\ i # i0
    BY <1>1, <1>2, <2>1
  <2> QED BY <1>6, <1>10, <2>2
<1>14. m'[h] = m[i0] /\ m'[h][k] # 0
  <2>1. h <= h
    BY <1>1
  <2> QED BY <1>1, <1>2, <1>6, <1>10, <2>1
<1>15. ASSUME NEW i \in Rows, i > h, NEW j \in Cols, \A r \in Rows : r >= h => m[r][j] = 0
       PROVE  m'[i][j] = 0
  <2>1. i >= h /\ h >= h
    BY <1>1, <1>15
  <2>2. a[i][j] = 0 /\ a[h][j] = 0
    BY <1>1, <1>2, <1>6, <1>15, <2>1
  <2> QED BY <1>8, <1>15, <2>2
<1>16. ASSUME NEW x \in [Cols -> Residues(p)]
       PROVE  /\ Solves(m, x, v, p) <=> Solves(m', x, v', p)
              /\ Solves(m, x, Zeros, p) <=> Solves(m', x, Zeros, p)
  <2>1. x \in [Cols -> Int]
    BY <1>1
  <2>2. PICK B, w : B = m' /\ w = v'
    OBVIOUS
  <2>3. PICK g : /\ \A i \in Rows : g[i] \in Int
                 /\ \A i \in Rows : i > h => g[i] = e[i]
    <3>1. PICK g : g = [i \in Rows |-> IF i > h THEN e[i] ELSE 0]
      OBVIOUS
    <3> QED BY <1>8, <3>1
  <2>4. \A i \in Rows : /\ a[i] \in [Cols -> Int] /\ B[i] \in [Cols -> Int]
                        /\ b[i] \in Int /\ w[i] \in Int /\ g[i] \in Int
    BY <1>6, <1>8, <1>9, <1>10, <1>11, <2>2, <2>3
  <2>5. \A i \in Rows : i <= h => B[i] = a[i] /\ w[i] = b[i]
    BY <1>10, <2>2
  <2>6. \A i \in Rows : i > h => /\ \A j \in Cols : Congruent(B[i][j], a[i][j] - a[h][j] * g[i], p)
                                 /\ Congruent(w[i], b[i] - b[h] * g[i], p)
    BY <1>8, <1>9, <2>2, <2>3
  <2>7. DOMAIN B = Rows
    BY <1>12, <2>2
  <2>8. Solves(a, x, b, p) <=> Solves(B, x, w, p)
    <3>1. IsElimination(B, w, a, b, h, g, p, Cols, Rows)
      BY <1>6, <2>4, <2>5, <2>6, <2>7 DEF IsElimination
    <3> QED BY <1>1, <2>1, <3>1, EliminateSolves
  <2>9. Solves(a, x, Zeros, p) <=> Solves(B, x, Zeros, p)
    <3>1. PICK o : o = Zeros /\ \A i \in Rows : o[i] = 0
      <4>1. \A i \in Rows : Zeros[i] = 0
        BY DEF Zeros
      <4> QED BY <4>1
    <3>2. \A i \in Rows : o[i] \in Int
      BY <3>1
    <3>3. ASSUME NEW i \in Rows PROVE Congruent(o[i], o[i] - o[h] * g[i], p)
      <4>1. o[i] = 0 /\ o[h] = 0 /\ g[i] \in Int
        BY <1>1, <2>3, <3>1
      <4>2. o[i] - o[h] * g[i] = 0
        BY <4>1
      <4> QED BY <1>1, <4>1, <4>2, CongruentRefl
    <3>4. \A i \in Rows : i <= h => B[i] = a[i] /\ o[i] = o[i]
      BY <2>5
    <3>5. \A i \in Rows : i > h => /\ \A j \in Cols : Congruent(B[i][j], a[i][j] - a[h][j] * g[i], p)
                                   /\ Congruent(o[i], o[i] - o[h] * g[i], p)
      BY <2>6, <3>3
    <3>6. \A i \in Rows : /\ a[i] \in [Cols -> Int] /\ B[i] \in [Cols -> Int]
                          /\ o[i] \in Int /\ g[i] \in Int
      BY <2>4, <3>2
    <3>7. Solves(a, x, o, p) <=> Solves(B, x, o, p)
      <4>1. IsElimination(B, o, a, o, h, g, p, Cols, Rows)
        BY <1>6, <2>7, <3>4, <3>5, <3>6 DEF IsElimination
      <4> QED BY <1>1, <2>1, <4>1, EliminateSolves
    <3> QED BY <3>1, <3>7
  <2> QED BY <1>6, <2>2, <2>8, <2>9
<1> QED BY <1>1, <1>2, <1>8, <1>12, <1>13, <1>14, <1>15, <1>16

\* A column with a pivot leads one row more.
LEMMA PivotInv == IInv /\ Pivot => IInv'
<1> SUFFICES ASSUME IInv, Pivot PROVE IInv'
  OBVIOUS
<1>1. /\ pc = "eliminate" /\ h < arg.rows /\ k < arg.cols
      /\ h' = h + 1 /\ k' = k + 1
      /\ arg' = arg /\ res' = res /\ pc' = pc /\ err' = err
  BY DEF Pivot
<1>2. TypeOK /\ SameSolutions /\ EliminateInv /\ DoneInv
  BY DEF IInv
<1>3. p' = p /\ Rows' = Rows /\ Cols' = Cols /\ Zeros' = Zeros
  BY <1>1 DEF p, Rows, Cols, Zeros
<1>4. /\ m' \in [Rows -> [Cols -> Residues(p)]] /\ v' \in [Rows -> Residues(p)]
      /\ k \in Cols /\ h \in Rows
      /\ \A i \in Rows : i < h => m'[i] = m[i]
      /\ m'[h][k] # 0 /\ \E i0 \in Rows : i0 >= h /\ m'[h] = m[i0]
      /\ \A i \in Rows : i > h => m'[i][k] = 0
      /\ \A i \in Rows : i > h => \A j \in Cols :
           (\A r \in Rows : r >= h => m[r][j] = 0) => m'[i][j] = 0
      /\ \A x \in [Cols -> Residues(p)] :
           /\ Solves(m, x, v, p) <=> Solves(m', x, v', p)
           /\ Solves(m, x, Zeros, p) <=> Solves(m', x, Zeros, p)
  BY PivotSystem
<1>5. /\ arg.rows \in Nat /\ arg.cols \in Nat /\ h \in Nat /\ k \in Nat
  BY <1>2, <1>4, Shapes DEF Rows, Cols
<1>6. TypeOK'
  <2>1. h' \in -1..arg.rows /\ k' \in 0..arg.cols
    BY <1>1, <1>5
  <2> QED BY <1>1, <1>2, <1>3, <1>4, <2>1 DEF TypeOK
<1>7. SameSolutions'
  BY <1>1, <1>2, <1>3, <1>4 DEF SameSolutions
<1>8. PICK lead : /\ lead \in [0..(h - 1) -> Cols] /\ Echelon(h, k, lead)
                  /\ \A j \in Cols : res[j] = IF j >= k \/ j \in Range(lead) THEN -1 ELSE 0
  BY <1>1, <1>2 DEF EliminateInv
<1>9. /\ lead \in [0..(h - 1) -> 0..(k - 1)]
      /\ \A i, j \in 0..(h - 1) : i < j => lead[i] < lead[j]
      /\ \A i \in 0..(h - 1) : m[i][lead[i]] # 0 /\ \A j \in 0..(lead[i] - 1) : m[i][j] = 0
      /\ \A i \in Rows : i >= h => \A j \in 0..(k - 1) : m[i][j] = 0
  BY <1>8 DEF Echelon
<1>10. PICK led : /\ led = [i \in 0..h |-> IF i = h THEN k ELSE lead[i]]
                  /\ led[h] = k /\ \A i \in 0..(h - 1) : led[i] = lead[i]
  <2>1. PICK led : led = [i \in 0..h |-> IF i = h THEN k ELSE lead[i]]
    OBVIOUS
  <2>2. led[h] = k
    BY <1>5, <2>1
  <2>3. \A i \in 0..(h - 1) : i \in 0..h /\ i # h
    BY <1>5
  <2>4. \A i \in 0..(h - 1) : led[i] = lead[i]
    BY <2>1, <2>3
  <2> QED BY <2>1, <2>2, <2>4
<1>11. \A i \in 0..h : i = h \/ i \in 0..(h - 1)
  BY <1>5
<1>12. \A i \in 0..(h - 1) : lead[i] \in Int /\ lead[i] \in 0..(k - 1) /\ lead[i] < k /\ i < h
  BY <1>5, <1>9
<1>13. led \in [0..h -> 0..k]
  <2>1. \A i \in 0..h : led[i] \in 0..k
    BY <1>5, <1>10, <1>11, <1>12
  <2> QED BY <1>10, <2>1
<1>14. \A i, j \in 0..h : i < j => led[i] < led[j]
  <2>1. SUFFICES ASSUME NEW i \in 0..h, NEW j \in 0..h, i < j PROVE led[i] < led[j]
    OBVIOUS
  <2>2. i \in 0..(h - 1)
    BY <1>5, <2>1
  <2>3. CASE j = h
    BY <1>10, <1>12, <2>2, <2>3
  <2>4. CASE j \in 0..(h - 1)
    BY <1>9, <1>10, <2>1, <2>2, <2>4
  <2> QED BY <1>11, <2>3, <2>4
<1>15. \A j \in 0..(k - 1) : j \in Cols
  BY <1>5, <1>1 DEF Cols
<1>16. ASSUME NEW i \in 0..h
       PROVE  m'[i][led[i]] # 0 /\ \A j \in 0..(led[i] - 1) : m'[i][j] = 0
  <2>1. CASE i = h
    <3>1. PICK i0 \in Rows : i0 >= h /\ m'[h] = m[i0]
      BY <1>4
    <3>2. \A j \in 0..(k - 1) : m'[h][j] = 0
      BY <1>9, <3>1
    <3> QED BY <1>4, <1>10, <2>1, <3>2
  <2>2. CASE i \in 0..(h - 1)
    <3>1. i \in Rows /\ i < h
      BY <1>1, <1>5, <2>2 DEF Rows
    <3>2. m'[i][led[i]] # 0
      BY <1>4, <1>9, <1>10, <2>2, <3>1, SMTT(30)
    <3>3. \A j \in 0..(led[i] - 1) : m'[i][j] = 0
      BY <1>4, <1>9, <1>10, <2>2, <3>1, SMTT(30)
    <3> QED BY <3>2, <3>3
  <2> QED BY <1>11, <2>1, <2>2
<1>17. ASSUME NEW i \in Rows, i >= h + 1, NEW j \in 0..k PROVE m'[i][j] = 0
  <2>1. i > h
    BY <1>5, <1>17 DEF Rows
  <2>2. CASE j = k
    BY <1>4, <2>1, <2>2
  <2>3. CASE j \in 0..(k - 1)
    BY <1>4, <1>9, <1>15, <2>1, <2>3
  <2> QED BY <1>5, <2>2, <2>3
<1>18. h' - 1 = h /\ k' - 1 = k
  BY <1>1, <1>5
<1>19. Echelon(h, k, led)'
  <2>1. led \in [0..(h' - 1) -> 0..(k' - 1)]
    BY <1>13, <1>18
  <2>2. \A i, j \in 0..(h' - 1) : i < j => led[i] < led[j]
    BY <1>14, <1>18
  <2>3. \A i \in 0..(h' - 1) : m'[i][led[i]] # 0 /\ \A j \in 0..(led[i] - 1) : m'[i][j] = 0
    BY <1>16, <1>18
  <2>4. \A i \in Rows' : i >= h' => \A j \in 0..(k' - 1) : m'[i][j] = 0
    BY <1>1, <1>3, <1>17, <1>18
  <2> QED BY <2>1, <2>2, <2>3, <2>4 DEF Echelon
<1>20. /\ h' \in 0..(arg.rows)' /\ led \in [0..(h' - 1) -> Cols']
       /\ \A j \in Cols' : res'[j] = IF j >= k' \/ j \in Range(led) THEN -1 ELSE 0
  <2>1. h' \in 0..(arg.rows)'
    BY <1>1, <1>5
  <2>2. led \in [0..h -> Cols]
    <3>1. \A i \in 0..h : led[i] \in Cols
      BY <1>4, <1>8, <1>10, <1>11
    <3> QED BY <1>10, <3>1
  <2>3. ASSUME NEW j \in Cols PROVE res[j] = IF j >= k + 1 \/ j \in Range(led) THEN -1 ELSE 0
    <3>1. j \in Int
      BY DEF Cols
    <3>2. j \in Range(led) <=> j = k \/ j \in Range(lead)
      <4>1. j \in Range(led) <=> \E i \in 0..h : led[i] = j
        BY <1>13 DEF Range
      <4>2. j \in Range(lead) <=> \E i \in 0..(h - 1) : lead[i] = j
        BY <1>8 DEF Range
      <4>3. h \in 0..h /\ \A i \in 0..(h - 1) : i \in 0..h
        BY <1>5
      <4> QED BY <1>10, <1>11, <4>1, <4>2, <4>3
    <3>3. j >= k <=> j >= k + 1 \/ j = k
      BY <1>5, <3>1
    <3> QED BY <1>8, <3>2, <3>3
  <2> QED BY <1>1, <1>3, <1>18, <2>1, <2>2, <2>3
<1>21. EliminateInv'
  BY <1>19, <1>20 DEF EliminateInv
<1>22. SubstituteInv' /\ DoneInv'
  BY <1>1, <1>2 DEF SubstituteInv, DoneInv
<1> QED BY <1>6, <1>7, <1>21, <1>22 DEF IInv

-----------------------------------------------------------------------------
(* The theorems *)

\* Every step of the solver keeps the invariant: the operations on rows keep the
\* solutions, the columns that have been passed are in echelon form, and the rows that
\* have been substituted hold (mat.c:544-657).
THEOREM Invariance == Spec => []IInv
<1>1. IInv /\ [Next]_vars => IInv'
  <2> SUFFICES ASSUME IInv, [Next]_vars PROVE IInv'
    OBVIOUS
  <2>1. CASE SkipColumn
    BY <2>1, SkipColumnInv
  <2>2. CASE Pivot
    BY <2>2, PivotInv
  <2>3. CASE NoSolution
    BY <2>3, NoSolutionInv
  <2>4. CASE StartSubstitution
    BY <2>4, StartSubstitutionInv
  <2>5. CASE Substitute
    BY <2>5, SubstituteStepInv
  <2>6. CASE UNCHANGED vars
    BY <2>6, StutterInv
  <2> QED BY <2>1, <2>2, <2>3, <2>4, <2>5, <2>6 DEF Next
<1> QED BY InitInv, <1>1, PTL DEF Spec

\* The local variables keep their types: the counters stay within the system.
THEOREM TypeCorrect == Spec => []TypeOK
<1>1. IInv => TypeOK
  BY DEF IInv
<1> QED BY <1>1, Invariance, PTL

\* The back substitution finds a row with a pivot whenever it needs one: the unsigned
\* counter is not used after it has wrapped around, and the number that is inverted is
\* not 0 (mat.c:629-648).
THEOREM Pivoting == Spec => []PivotInRow
  BY PivotOfInv, Invariance, PTL

\* A call that has returned has the solution that is zero outside the pivot columns of
\* the system, or an error exactly when the system has no solution (mat.c:544-657).
THEOREM Correct == Spec => []Outcome
  BY OutcomeOfInv, Invariance, PTL
=============================================================================
