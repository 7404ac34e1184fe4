---------------------------- MODULE GroupLemmas ----------------------------
(***************************************************************************)
(* What the searches for discrete logarithms use of arithmetic and of the  *)
(* laws of the group.                                                      *)
(***************************************************************************)
EXTENDS FiniteGroup, TLAPS

-----------------------------------------------------------------------------
(* Arithmetic and the laws of the group *)

\* A round i of the m rounds of m exponents stays below m * m.
LEMMA RoundBound ==
  ASSUME NEW k \in Nat, NEW n \in Nat, k < n
  PROVE  /\ k * n \in Nat /\ n * n \in Nat
         /\ (k + 1) * n = k * n + n
         /\ k * n + n <= n * n
<1>1. (k + 1) * n = k * n + n
  OBVIOUS
<1>2. \E d \in Nat : n = k + 1 + d
  <2>1. n - k - 1 \in Nat /\ n = k + 1 + (n - k - 1)
    OBVIOUS
  <2> QED BY <2>1
<1>3. PICK d \in Nat : n = k + 1 + d
  BY <1>2
<1>4. n * n = k * n + n + d * n
  BY <1>3
<1>5. k * n \in Nat /\ n * n \in Nat /\ d * n \in Nat
  OBVIOUS
<1> QED BY <1>1, <1>4, <1>5

\* A square is at least its root.
LEMMA SquareBound ==
  ASSUME NEW n \in Nat
  PROVE  n <= n * n
<1>1. CASE n = 0
  BY <1>1
<1>2. CASE n > 0
  <2>1. n - 1 \in Nat /\ n = 1 + (n - 1)
    BY <1>2
  <2>2. n * n = n + (n - 1) * n
    OBVIOUS
  <2>3. (n - 1) * n \in Nat
    BY <2>1
  <2> QED BY <2>2, <2>3
<1> QED BY <1>1, <1>2

\* Powers cancel: z = g^-m undoes g^m.
LEMMA Cancel ==
  ASSUME NEW a \in Grp, NEW b \in Grp, NEW c \in Grp, NEW n \in 0..MaxExp,
         Mul(a, Pow(c, n)) = Mul(b, Pow(c, n))
  PROVE  a = b
<1> DEFINE w == Pow(c, n)
           u == Pow(Inv(c), n)
<1>1. w \in Grp /\ u \in Grp
  BY GroupAssumption, PowAssumption
<1>2. Mul(w, u) = One
  BY <1>1, GroupAssumption, PowAssumption
<1>3. Mul(Mul(a, w), u) = a
  BY <1>1, <1>2, GroupAssumption
<1>4. Mul(Mul(b, w), u) = b
  BY <1>1, <1>2, GroupAssumption
<1> QED BY <1>3, <1>4

\* A giant step keeps the product of x and the steps taken.
LEMMA GiantStepLaw ==
  ASSUME NEW b \in Grp, NEW y \in Grp, NEW n \in 0..MaxExp, NEW k \in Nat,
         k + n <= MaxExp
  PROVE  Mul(Mul(y, Pow(Inv(b), n)), Pow(b, k + n)) = Mul(y, Pow(b, k))
<1> DEFINE w == Pow(b, n)
           u == Pow(Inv(b), n)
           v == Pow(b, k)
<1>0. k \in 0..MaxExp
  BY PowAssumption
<1>1. w \in Grp /\ u \in Grp /\ v \in Grp
  BY <1>0, GroupAssumption, PowAssumption
<1>2. Pow(b, k + n) = Mul(v, w)
  BY <1>0, PowAssumption
<1>3. Mul(v, w) = Mul(w, v)
  BY <1>1, GroupAssumption
<1>4. Mul(u, w) = One
  BY PowAssumption
<1>5. Mul(u, Mul(w, v)) = Mul(Mul(u, w), v)
  BY <1>1, GroupAssumption
<1>6. Mul(One, v) = v
  BY <1>1, GroupAssumption
<1>7. Mul(Mul(y, u), Mul(w, v)) = Mul(y, Mul(u, Mul(w, v)))
  BY <1>1, GroupAssumption
<1> HIDE DEF w, u, v
<1> QED BY <1>2, <1>3, <1>4, <1>5, <1>6, <1>7 DEF w, u, v

\* A power of the inverse is a when the power is the inverse of a: a negative
\* logarithm of a is one of its inverse.
LEMMA NegativePower ==
  ASSUME NEW a \in Grp, NEW b \in Grp, NEW n \in 0..MaxExp, 1 <= MaxExp,
         Pow(b, n) = Inv(a)
  PROVE  Pow(Inv(b), n) = a
<1> DEFINE u == Pow(Inv(b), n)
<1>1. u \in Grp /\ Inv(a) \in Grp
  BY GroupAssumption, PowAssumption
<1>2. Mul(u, Inv(a)) = One
  BY PowAssumption
<1>3. Mul(Inv(a), a) = One
  <2>1. 1 \in 0..MaxExp
    BY PowAssumption
  <2>2. Mul(Pow(Inv(a), 1), Pow(a, 1)) = One
    BY <2>1, PowAssumption
  <2> QED BY <1>1, <2>2, PowAssumption
<1>4. Mul(Mul(u, Inv(a)), a) = Mul(u, Mul(Inv(a), a))
  BY <1>1, GroupAssumption
<1>5. Mul(One, a) = a /\ Mul(u, One) = u
  BY <1>1, GroupAssumption
<1> HIDE DEF u
<1>6. u = a
  BY <1>2, <1>3, <1>4, <1>5
<1> QED BY <1>6 DEF u

\* The converse: the power of b is the inverse of a when that of its inverse is a.
LEMMA NegativeLog ==
  ASSUME NEW a \in Grp, NEW b \in Grp, NEW n \in 0..MaxExp, 1 <= MaxExp,
         Pow(Inv(b), n) = a
  PROVE  Pow(b, n) = Inv(a)
<1> DEFINE w == Pow(b, n)
<1>1. w \in Grp /\ Inv(a) \in Grp
  BY GroupAssumption, PowAssumption
<1>2. Mul(a, w) = One
  BY PowAssumption
<1>3. Mul(Inv(a), a) = One
  <2>1. 1 \in 0..MaxExp
    BY PowAssumption
  <2>2. Mul(Pow(Inv(a), 1), Pow(a, 1)) = One
    BY <2>1, PowAssumption
  <2> QED BY <1>1, <2>2, PowAssumption
<1>4. Mul(Mul(Inv(a), a), w) = Mul(Inv(a), Mul(a, w))
  BY <1>1, GroupAssumption
<1>5. Mul(One, w) = w /\ Mul(Inv(a), One) = Inv(a)
  BY <1>1, GroupAssumption
<1> HIDE DEF w
<1>6. w = Inv(a)
  BY <1>2, <1>3, <1>4, <1>5
<1> QED BY <1>6 DEF w

\* The remainder is the only number below the divisor that a multiple of it is away.
LEMMA RemainderIs ==
  ASSUME NEW n \in Nat, NEW a \in Int, NEW b \in 0..(n - 1)
  PROVE  ((n * a) + b) % n = b
<1> DEFINE k == (n * a) + b
<1>0. n # 0 /\ k \in Int
  OBVIOUS
<1>1. k % n \in 0..(n - 1) /\ k \div n \in Int /\ k = (n * (k \div n)) + (k % n)
  <2> HIDE DEF k
  <2> QED BY <1>0
<1>2. PICK c \in Int : c = k \div n
  BY <1>1
<1>3. n * (a - c) = (k % n) - b
  <2>1. n * (a - c) = n * a - n * c
    OBVIOUS
  <2>2. (n * a) + b = (n * c) + (k % n)
    BY <1>1, <1>2
  <2> HIDE DEF k
  <2> QED BY <2>1, <2>2, <1>1
<1>4. a - c = 0
  <2>1. PICK m \in Int : m = a - c
    OBVIOUS
  <2>2. n * m < n /\ n * m > -n
    BY <1>1, <1>3, <2>1
  <2>3. ~(m >= 1)
    <3>1. ASSUME m >= 1 PROVE n * m >= n
      BY <3>1
    <3> QED BY <2>2, <3>1
  <2>4. ~(m <= -1)
    <3>1. ASSUME m <= -1 PROVE n * m <= -n
      BY <3>1
    <3> QED BY <2>2, <3>1
  <2> QED BY <2>1, <2>3, <2>4
<1>5. n * (a - c) = 0
  BY <1>4
<1> QED BY <1>1, <1>3, <1>5

\* The powers of the inverse of the base are those of the base, whose order is q.
LEMMA PowersOfInverse ==
  ASSUME NEW q \in Nat \ {0}, q <= MaxExp,
         \A n, k \in 0..MaxExp : Pow(G, n) = Pow(G, k) <=> n % q = k % q,
         NEW v \in 0..MaxExp, NEW e \in 0..(q - 1)
  PROVE  Pow(Inv(G), v) = Pow(G, e) <=> v % q = (-e) % q
<1>1. q \in Nat /\ -1 \in Int
  OBVIOUS
<1>2. PICK r \in 0..(q - 1) : r = v % q /\ r % q = r
  <2>1. v \in Nat
    OBVIOUS
  <2>2. v % q \in 0..(q - 1)
    BY <2>1
  <2>3. \A r \in 0..(q - 1) : r % q = r
    OBVIOUS
  <2> QED BY <2>2, <2>3
<1>3. /\ MaxExp \in Nat /\ r \in 0..MaxExp /\ q - r \in 0..MaxExp /\ q \in 0..MaxExp
      /\ e \in 0..MaxExp /\ 0 \in 0..MaxExp /\ (q - r) + r = q /\ G \in Grp /\ Inv(G) \in Grp
  BY PowAssumption, GroupAssumption
<1>4. Pow(G, v) = Pow(G, r)
  BY <1>2, <1>3
<1>5. Pow(G, q) = One
  <2>1. q % q = 0 % q
    OBVIOUS
  <2>2. Pow(G, q) = Pow(G, 0)
    BY <1>3, <2>1
  <2> QED BY <1>3, <2>2, PowAssumption
<1>6. Mul(Pow(G, q - r), Pow(G, r)) = One
  BY <1>3, <1>5, PowAssumption
<1>7. Mul(Pow(Inv(G), v), Pow(G, r)) = One
  BY <1>3, <1>4, PowAssumption
<1>8. Pow(Inv(G), v) = Pow(G, q - r)
  <2>1. Pow(Inv(G), v) \in Grp /\ Pow(G, q - r) \in Grp
    BY <1>3, PowAssumption
  <2> QED BY <1>3, <1>6, <1>7, <2>1, Cancel
<1>9. Pow(G, q - r) = Pow(G, e) <=> (q - r) % q = e % q
  BY <1>3
<1>10. e \in 0..(q - 1) /\ e % q = e
  OBVIOUS
<1>11. (q - r) % q = IF r = 0 THEN 0 ELSE q - r
  <2>1. CASE r = 0
    BY <2>1
  <2>2. CASE r # 0
    <3>1. q - r \in 0..(q - 1)
      BY <2>2
    <3> QED BY <2>2, <3>1
  <2> QED BY <2>1, <2>2
<1>12. (-e) % q = IF e = 0 THEN 0 ELSE q - e
  <2>1. CASE e = 0
    BY <1>10, <2>1
  <2>2. CASE e # 0
    <3>1. q - e \in 0..(q - 1) /\ -e = (q * (-1)) + (q - e)
      BY <1>10, <2>2
    <3>2. ((q * (-1)) + (q - e)) % q = q - e
      BY <1>1, <3>1, RemainderIs
    <3> QED BY <2>2, <3>1, <3>2
  <2> QED BY <2>1, <2>2
<1> QED BY <1>2, <1>8, <1>9, <1>10, <1>11, <1>12

\* Squares grow.
LEMMA SquareLess ==
  ASSUME NEW k \in Nat, NEW n \in Nat, k < n
  PROVE  (k + 1) * (k + 1) <= n * n
<1>1. PICK d \in Nat : n = k + 1 + d
  <2>1. n - k - 1 \in Nat /\ n = k + 1 + (n - k - 1)
    OBVIOUS
  <2> QED BY <2>1
<1>2. PICK e \in Nat : e = k + 1
  OBVIOUS
<1>3. n * n = e * e + e * d + d * e + d * d
  BY <1>1, <1>2
<1>4. e * d \in Nat /\ d * e \in Nat /\ d * d \in Nat /\ e * e \in Nat
  OBVIOUS
<1>5. n * n >= e * e
  BY <1>3, <1>4
<1> QED BY <1>2, <1>5

\* There is one integer square root.
LEMMA SqrtUnique ==
  ASSUME NEW r \in Nat, NEW s \in Nat, s * s <= r, r < (s + 1) * (s + 1)
  PROVE  (CHOOSE k \in 0..r : k * k <= r /\ r < (k + 1) * (k + 1)) = s
<1>1. s \in 0..r
  <2>1. s <= s * s /\ s * s \in Nat
    BY SquareBound
  <2> QED BY <2>1
<1>2. ASSUME NEW k \in 0..r, k * k <= r /\ r < (k + 1) * (k + 1)
      PROVE  k = s
  <2>1. /\ k \in Nat /\ k * k \in Nat /\ (k + 1) * (k + 1) \in Nat
        /\ s * s \in Nat /\ (s + 1) * (s + 1) \in Nat
    OBVIOUS
  <2>2. CASE k < s
    <3>1. (k + 1) * (k + 1) <= s * s
      BY <2>1, <2>2, SquareLess
    <3> QED BY <1>2, <2>1, <3>1
  <2>3. CASE s < k
    <3>1. (s + 1) * (s + 1) <= k * k
      BY <2>1, <2>3, SquareLess
    <3> QED BY <1>2, <2>1, <3>1
  <2> QED BY <2>1, <2>2, <2>3
<1> QED BY <1>1, <1>2
=============================================================================
