------------------------- MODULE PollardRho_proofs --------------------------
(***************************************************************************)
(* Proofs about Pollard's rho search, for every group, base, order and     *)
(* rule of the walks; and about the samplers of uniform numbers, for every *)
(* range, length of a byte and stream.                                     *)
(***************************************************************************)
EXTENDS MCRandom, GroupLemmas, SchemeLemmas

-----------------------------------------------------------------------------
(* Powers and the order *)

\* A remainder modulo the order is below it.
LEMMA ModRange ==
  ASSUME NEW k \in Int
  PROVE  k % Order \in 0..(Order - 1)
BY RhoAssumption

\* A product of four elements in another order.
LEMMA Shuffle ==
  ASSUME NEW a \in Grp, NEW b \in Grp, NEW c \in Grp, NEW e \in Grp
  PROVE  Mul(Mul(a, b), Mul(c, e)) = Mul(Mul(a, c), Mul(b, e))
<1>1. Mul(c, e) \in Grp /\ Mul(b, e) \in Grp /\ Mul(b, c) \in Grp
  BY GroupAssumption
<1>2. Mul(Mul(a, b), Mul(c, e)) = Mul(a, Mul(b, Mul(c, e)))
  BY <1>1, GroupAssumption
<1>3. Mul(b, Mul(c, e)) = Mul(Mul(b, c), e) /\ Mul(Mul(c, b), e) = Mul(c, Mul(b, e))
  BY GroupAssumption
<1>4. Mul(b, c) = Mul(c, b)
  BY GroupAssumption
<1>5. Mul(Mul(a, c), Mul(b, e)) = Mul(a, Mul(c, Mul(b, e)))
  BY <1>1, GroupAssumption
<1> QED BY <1>2, <1>3, <1>4, <1>5

\* Any power of the neutral element is the neutral element.
LEMMA PowOne ==
  ASSUME NEW k \in 0..Order
  PROVE  Pow(One, k) = One
<1>1. 0 \in 0..Order /\ 0 * k = 0
  BY RhoAssumption
<1>2. Pow(Pow(G, 0), k) = Pow(G, 0 * k)
  BY <1>1, RhoAssumption, GroupAssumption
<1> QED BY <1>1, <1>2, PowAssumption, GroupAssumption

\* The order of a power of the base divides the order of the base.
LEMMA PowerOrder ==
  ASSUME NEW k \in 0..Order
  PROVE  Pow(Pow(G, k), Order) = One
<1>1. Order \in 0..Order /\ k * Order = Order * k
  BY RhoAssumption
<1>2. Pow(Pow(G, k), Order) = Pow(G, k * Order)
  BY <1>1, RhoAssumption, GroupAssumption
<1>3. Pow(Pow(G, Order), k) = Pow(G, Order * k)
  BY <1>1, RhoAssumption, GroupAssumption
<1> QED BY <1>1, <1>2, <1>3, PowOne, RhoAssumption

\* Exponents may be reduced once by the order ...
LEMMA PowReduced ==
  ASSUME NEW a \in Grp, Pow(a, Order) = One, NEW k \in Nat, k < 2 * Order
  PROVE  Pow(a, k % Order) = Pow(a, k)
<1>0. Order \in Nat \ {0} /\ Order \in 0..MaxExp
  BY RhoAssumption, PowAssumption
<1>1. CASE k < Order
  <2>1. k % Order = k
    BY <1>0, <1>1
  <2> QED BY <2>1
<1>2. CASE k >= Order
  <2>0. k % Order = k - Order
    <3>1. k - Order \in 0..(Order - 1) /\ k = Order * 1 + (k - Order)
      BY <1>0, <1>2
    <3> QED BY <3>1, <1>0
  <2>1. k % Order = k - Order /\ k - Order \in 0..MaxExp /\ (k - Order) + Order = k /\ k <= MaxExp
    BY <2>0, <1>0, <1>2, RhoAssumption, PowAssumption
  <2>2. Pow(a, k) = Mul(Pow(a, k - Order), Pow(a, Order))
    BY <2>1, <1>0, PowAssumption
  <2>3. Pow(a, k - Order) \in Grp
    BY <2>1, PowAssumption
  <2> QED BY <2>1, <2>2, <2>3, GroupAssumption
<1> QED BY <1>0, <1>1, <1>2

\* ... or as often as they can.
LEMMA PowModulo ==
  ASSUME NEW a \in Grp, Pow(a, Order) = One, NEW k \in Nat, k <= Order * Order
  PROVE  Pow(a, k % Order) = Pow(a, k)
<1> DEFINE m == k \div Order
           s == k % Order
<1>0. Order \in Nat \ {0} /\ MaxExp \in Nat /\ Order * Order <= MaxExp
  BY RhoAssumption, PowAssumption
<1>1. m \in Nat /\ s \in 0..(Order - 1) /\ k = Order * m + s
  BY <1>0
<1>2. m <= Order
  <2>1. SUFFICES ASSUME m > Order PROVE FALSE
    BY <1>0, <1>1
  <2>2. m - Order - 1 \in Nat /\ Order * m = Order * Order + Order + Order * (m - Order - 1)
    BY <2>1, <1>0, <1>1
  <2>3. Order * (m - Order - 1) \in Nat /\ Order * Order \in Nat
    BY <2>2, <1>0
  <2> HIDE DEF m, s
  <2> QED BY <2>2, <2>3, <1>0, <1>1
<1>3. Pow(a, Order * m) = One
  <2>1. m \in 0..Order /\ Order \in 0..Order
    BY <1>0, <1>1, <1>2
  <2>2. Pow(Pow(a, Order), m) = Pow(a, Order * m)
    BY <2>1, RhoAssumption
  <2> QED BY <2>1, <2>2, PowOne
<1>4. Order * m \in 0..MaxExp /\ s \in 0..MaxExp /\ Order * m + s <= MaxExp
  <2>1. Order * m \in Nat
    BY <1>0, <1>1
  <2> HIDE DEF m, s
  <2> QED BY <2>1, <1>0, <1>1
<1>5. Pow(a, Order * m + s) = Mul(Pow(a, Order * m), Pow(a, s)) /\ Pow(a, s) \in Grp
  BY <1>4, PowAssumption
<1>6. Mul(One, Pow(a, s)) = Pow(a, s)
  BY <1>5, GroupAssumption
<1> QED BY <1>1, <1>3, <1>5, <1>6

\* The difference of two exponents, modulo the order, leads from one to the other.
LEMMA PowDifference ==
  ASSUME NEW a \in Grp, Pow(a, Order) = One,
         NEW n \in 0..(Order - 1), NEW k \in 0..(Order - 1)
  PROVE  Pow(a, n) = Mul(Pow(a, (n - k) % Order), Pow(a, k))
<1> DEFINE s == (n - k) % Order
<1>0. Order \in Nat \ {0} /\ MaxExp \in Nat /\ 2 * Order <= MaxExp
  BY RhoAssumption, PowAssumption
<1>1. s \in 0..(Order - 1) /\ (s + k = n \/ s + k = n + Order)
  <2>1. CASE n >= k
    <3>1. s = n - k
      BY <1>0, <2>1
    <3> QED BY <3>1, <2>1, <1>0
  <2>2. CASE n < k
    <3>1. s = n - k + Order
      BY <1>0, <2>2
    <3> QED BY <3>1, <2>2, <1>0
  <2> QED BY <2>1, <2>2
<1> HIDE DEF s
<1>2. Pow(a, s + k) = Mul(Pow(a, s), Pow(a, k))
  <2>1. s \in 0..MaxExp /\ k \in 0..MaxExp /\ s + k <= MaxExp
    BY <1>0, <1>1
  <2> QED BY <2>1, PowAssumption
<1>3. Pow(a, s + k) = Pow(a, n)
  <2>1. (n + Order) % Order = n /\ n + Order < 2 * Order /\ n + Order \in Nat
    BY <1>0
  <2>2. Pow(a, n) = Pow(a, n + Order)
    BY <2>1, PowReduced
  <2> QED BY <1>1, <2>2
<1> QED BY <1>2, <1>3 DEF s

-----------------------------------------------------------------------------
(* The walks *)

\* One step of a walk stays in the group and below the order.
LEMMA IterateType ==
  ASSUME NEW w \in Walks, h \in Grp
  PROVE  Iterate(w) \in Walks
<1>1. w.x \in Grp /\ w.a \in Nat /\ w.b \in Nat /\ w.a \in 0..(Order - 1) /\ w.b \in 0..(Order - 1)
  BY RhoAssumption DEF Walks
<1>2. /\ (2 * w.a) % Order \in 0..(Order - 1) /\ (2 * w.b) % Order \in 0..(Order - 1)
      /\ (w.a + 1) % Order \in 0..(Order - 1) /\ (w.b + 1) % Order \in 0..(Order - 1)
  BY <1>1, ModRange
<1>3. Mul(w.x, w.x) \in Grp /\ Mul(w.x, G) \in Grp /\ Mul(w.x, h) \in Grp
  BY <1>1, GroupAssumption
<1> QED BY <1>1, <1>2, <1>3 DEF Iterate, Walks

\* The order of an element of the subgroup divides the order of the base.
LEMMA SubgroupOrder ==
  ASSUME InSubgroup
  PROVE  Pow(h, Order) = One /\ h \in Grp
<1>1. PICK e \in 0..(Order - 1) : Pow(G, e) = h
  BY DEF InSubgroup
<1>2. e \in 0..Order /\ e \in 0..MaxExp
  BY RhoAssumption, PowAssumption
<1> QED BY <1>1, <1>2, PowerOrder, GroupAssumption, PowAssumption

\* One step of a walk keeps what its exponents say.
LEMMA IterateRepresents ==
  ASSUME NEW w \in Walks, InSubgroup, Represents(w)
  PROVE  Represents(Iterate(w))
<1> DEFINE ga == Pow(G, w.a)
           hb == Pow(h, w.b)
<1>0. /\ Pow(G, Order) = One /\ G \in Grp /\ Pow(h, Order) = One /\ h \in Grp
      /\ Order \in Nat \ {0} /\ MaxExp \in Nat /\ 2 * Order <= MaxExp
  BY SubgroupOrder, RhoAssumption, GroupAssumption, PowAssumption
<1>1. w.a \in 0..(Order - 1) /\ w.b \in 0..(Order - 1) /\ w.a \in 0..MaxExp /\ w.b \in 0..MaxExp
  BY <1>0 DEF Walks
<1>2. ga \in Grp /\ hb \in Grp /\ w.x = Mul(ga, hb)
  BY <1>0, <1>1, PowAssumption DEF Represents
<1>3. CASE Part(w.x) = 0
  <2>1. Pow(G, (2 * w.a) % Order) = Mul(ga, ga)
    <3>1. 2 * w.a = w.a + w.a /\ 2 * w.a \in Nat /\ 2 * w.a < 2 * Order /\ w.a + w.a <= MaxExp
      BY <1>0, <1>1
    <3>2. Pow(G, (2 * w.a) % Order) = Pow(G, 2 * w.a)
      BY <3>1, <1>0, PowReduced
    <3>3. Pow(G, w.a + w.a) = Mul(ga, ga)
      BY <3>1, <1>0, <1>1, PowAssumption
    <3> QED BY <3>1, <3>2, <3>3
  <2>2. Pow(h, (2 * w.b) % Order) = Mul(hb, hb)
    <3>1. 2 * w.b = w.b + w.b /\ 2 * w.b \in Nat /\ 2 * w.b < 2 * Order /\ w.b + w.b <= MaxExp
      BY <1>0, <1>1
    <3>2. Pow(h, (2 * w.b) % Order) = Pow(h, 2 * w.b)
      BY <3>1, <1>0, PowReduced
    <3>3. Pow(h, w.b + w.b) = Mul(hb, hb)
      BY <3>1, <1>0, <1>1, PowAssumption
    <3> QED BY <3>1, <3>2, <3>3
  <2>3. Mul(w.x, w.x) = Mul(Mul(ga, ga), Mul(hb, hb))
    BY <1>2, Shuffle
  <2> QED BY <1>3, <2>1, <2>2, <2>3 DEF Iterate, Represents
<1>4. CASE Part(w.x) = 1
  <2>1. Pow(G, (w.a + 1) % Order) = Mul(ga, G)
    <3>1. w.a + 1 \in Nat /\ w.a + 1 < 2 * Order /\ 1 \in 0..MaxExp /\ w.a + 1 <= MaxExp
      BY <1>0, <1>1
    <3>2. Pow(G, (w.a + 1) % Order) = Pow(G, w.a + 1)
      BY <3>1, <1>0, PowReduced
    <3>3. Pow(G, w.a + 1) = Mul(ga, Pow(G, 1)) /\ Pow(G, 1) = G
      BY <3>1, <1>0, <1>1, PowAssumption
    <3> QED BY <3>2, <3>3
  <2>2. Mul(Mul(ga, hb), G) = Mul(Mul(ga, G), hb)
    <3>1. Mul(Mul(ga, hb), G) = Mul(ga, Mul(hb, G)) /\ Mul(Mul(ga, G), hb) = Mul(ga, Mul(G, hb))
      BY <1>0, <1>2, GroupAssumption
    <3>2. Mul(hb, G) = Mul(G, hb)
      BY <1>0, <1>2, GroupAssumption
    <3> QED BY <3>1, <3>2
  <2>3. Iterate(w) = [w EXCEPT !.x = Mul(w.x, G), !.a = (w.a + 1) % Order]
    BY <1>4 DEF Iterate
  <2>4. Iterate(w).x = Mul(w.x, G) /\ Iterate(w).a = (w.a + 1) % Order /\ Iterate(w).b = w.b
    BY <2>3 DEF Walks
  <2> QED BY <1>2, <2>1, <2>2, <2>4 DEF Represents
<1>5. CASE Part(w.x) = 2
  <2>1. Pow(h, (w.b + 1) % Order) = Mul(hb, h)
    <3>1. w.b + 1 \in Nat /\ w.b + 1 < 2 * Order /\ 1 \in 0..MaxExp /\ w.b + 1 <= MaxExp
      BY <1>0, <1>1
    <3>2. Pow(h, (w.b + 1) % Order) = Pow(h, w.b + 1)
      BY <3>1, <1>0, PowReduced
    <3>3. Pow(h, w.b + 1) = Mul(hb, Pow(h, 1)) /\ Pow(h, 1) = h
      BY <3>1, <1>0, <1>1, PowAssumption
    <3> QED BY <3>2, <3>3
  <2>2. Mul(Mul(ga, hb), h) = Mul(ga, Mul(hb, h))
    BY <1>0, <1>2, GroupAssumption
  <2>3. Iterate(w) = [w EXCEPT !.x = Mul(w.x, h), !.b = (w.b + 1) % Order]
    BY <1>5 DEF Iterate
  <2>4. Iterate(w).x = Mul(w.x, h) /\ Iterate(w).a = w.a /\ Iterate(w).b = (w.b + 1) % Order
    BY <2>3 DEF Walks
  <2> QED BY <1>2, <2>1, <2>2, <2>4 DEF Represents
<1>6. Part(w.x) \in {0, 1, 2}
  <2>1. w.x \in Grp
    BY DEF Walks
  <2> QED BY <2>1, RhoAssumption
<1> QED BY <1>3, <1>4, <1>5, <1>6

\* Where the walks meet, a power of h is a power of the base.
LEMMA MetEquation ==
  ASSUME InSubgroup, slow \in Walks, fast \in Walks, slow.x = fast.x,
         Represents(slow), Represents(fast)
  PROVE  Pow(h, R) = Pow(G, T)
<1> DEFINE g1 == Pow(G, fast.a)
           h1 == Pow(h, slow.b)
           gt == Pow(G, T)
           hr == Pow(h, R)
<1>0. /\ Pow(G, Order) = One /\ G \in Grp /\ Pow(h, Order) = One /\ h \in Grp
      /\ Order \in Nat \ {0} /\ MaxExp \in Nat /\ 2 * Order <= MaxExp
  BY SubgroupOrder, RhoAssumption, GroupAssumption, PowAssumption
<1>1. /\ slow.a \in 0..(Order - 1) /\ slow.b \in 0..(Order - 1)
      /\ fast.a \in 0..(Order - 1) /\ fast.b \in 0..(Order - 1)
  BY DEF Walks
<1>2. R \in 0..(Order - 1) /\ T \in 0..(Order - 1)
  BY <1>1, ModRange DEF R, T
<1>3. fast.a \in 0..MaxExp /\ slow.b \in 0..MaxExp /\ R \in 0..MaxExp /\ T \in 0..MaxExp
  BY <1>0, <1>1, <1>2
<1>4. g1 \in Grp /\ h1 \in Grp /\ gt \in Grp /\ hr \in Grp
  BY <1>0, <1>3, PowAssumption
<1>5. Pow(G, slow.a) = Mul(gt, g1)
  BY <1>0, <1>1, PowDifference DEF T
<1>6. Pow(h, fast.b) = Mul(hr, h1)
  BY <1>0, <1>1, PowDifference DEF R
<1>7. Mul(Mul(gt, g1), h1) = Mul(g1, Mul(hr, h1))
  BY <1>5, <1>6 DEF Represents
<1>8. Mul(Mul(gt, g1), h1) = Mul(Mul(hr, g1), h1)
  <2>1. Mul(g1, Mul(hr, h1)) = Mul(Mul(g1, hr), h1) /\ Mul(g1, hr) = Mul(hr, g1)
    BY <1>4, GroupAssumption
  <2> QED BY <2>1, <1>7
<1>9. Mul(gt, g1) = Mul(hr, g1)
  <2>1. Mul(gt, g1) \in Grp /\ Mul(hr, g1) \in Grp
    BY <1>4, GroupAssumption
  <2> QED BY <2>1, <1>0, <1>3, <1>8, Cancel
<1> QED BY <1>0, <1>3, <1>4, <1>9, Cancel

\* A factor of the exponent of h that can be inverted is divided away.
LEMMA Solved ==
  ASSUME InSubgroup, NEW r \in 1..(Order - 1), NEW t \in 0..(Order - 1),
         Gcd(r, Order) = 1, Pow(h, r) = Pow(G, t)
  PROVE  Pow(G, (Invert(r, Order) * t) % Order) = h
<1> DEFINE v == Invert(r, Order)
<1>0. /\ Pow(G, Order) = One /\ G \in Grp /\ Pow(h, Order) = One /\ h \in Grp
      /\ Order \in Nat \ {0} /\ MaxExp \in Nat /\ 2 * Order <= MaxExp
  BY SubgroupOrder, RhoAssumption, GroupAssumption, PowAssumption
<1>1. v \in 0..(Order - 1) /\ (v * r) % Order = 1
  <2>1. Order \in 1..Order
    BY <1>0
  <2> QED BY <2>1, GmpAssumption
<1> HIDE DEF v
<1>2. /\ v \in 0..Order /\ r \in 0..Order /\ t \in 0..Order
      /\ v * r = r * v /\ v * t = t * v
  BY <1>0, <1>1
<1>3. \A k \in 0..(Order - 1) : v * k \in Nat /\ v * k <= Order * Order
  <2> TAKE k \in 0..(Order - 1)
  <2>1. /\ Order - v \in Nat /\ Order - k \in Nat
        /\ Order * Order = v * k + v * (Order - k) + (Order - v) * Order
    BY <1>0, <1>1
  <2>2. v * k \in Nat /\ v * (Order - k) \in Nat /\ (Order - v) * Order \in Nat
    BY <2>1, <1>0, <1>1
  <2> QED BY <2>1, <2>2
<1>4. Pow(h, 1) = Pow(h, v * r)
  <2>1. v * r \in Nat /\ v * r <= Order * Order
    BY <1>2, <1>3
  <2> QED BY <2>1, <1>0, <1>1, PowModulo
<1>5. Pow(h, v * r) = Pow(Pow(h, r), v)
  BY <1>0, <1>2, RhoAssumption
<1>6. Pow(Pow(G, t), v) = Pow(G, v * t)
  BY <1>0, <1>2, RhoAssumption
<1>7. Pow(G, (v * t) % Order) = Pow(G, v * t)
  <2>1. v * t \in Nat /\ v * t <= Order * Order
    BY <1>2, <1>3
  <2> QED BY <2>1, <1>0, PowModulo
<1>8. Pow(h, 1) = h
  BY <1>0, PowAssumption
<1> QED BY <1>4, <1>5, <1>6, <1>7, <1>8 DEF v

\* A divisor of k as a factor.
LEMMA DivisorFactor ==
  ASSUME NEW k \in Nat, NEW c \in Nat \ {0}, k % c = 0
  PROVE  (k \div c) * c = k /\ k \div c \in Nat
<1>1. k = c * (k \div c) + (k % c) /\ k \div c \in Nat
  OBVIOUS
<1> QED BY <1>1

\* A factor as a divisor.
LEMMA FactorDivides ==
  ASSUME NEW c \in Nat \ {0}, NEW m \in Nat
  PROVE  (m * c) % c = 0 /\ (m * c) \div c = m
<1>1. m * c = c * m + 0 /\ 0 \in 0..(c - 1)
  OBVIOUS
<1> QED BY <1>1

\* Divided by their greatest common divisor, a remainder and the order have an inverse
\* for each other.
LEMMA GcdFacts ==
  ASSUME NEW r \in 1..(Order - 1), NEW e, e = Gcd(r, Order), NEW n, n = Order \div e,
         NEW s, s = r \div e
  PROVE  /\ e \in 1..r /\ n \in Nat \ {0} /\ s \in 1..(n - 1)
         /\ n * e = Order /\ s * e = r
         /\ Invert(s, n) \in 0..(n - 1) /\ (Invert(s, n) * s) % n = 1
<1>0. Order \in Nat \ {0} /\ Order \in 1..Order /\ r \in Nat \ {0} /\ r < Order
  BY RhoAssumption
<1>1. /\ e \in 1..Order /\ r % e = 0 /\ Order % e = 0
      /\ \A c \in CommonDivisors(r, Order) : c <= e
  BY <1>0, GmpAssumption DEF CommonDivisors
<1>2. e \in Nat \ {0}
  BY <1>1
<1>3. n * e = Order /\ n \in Nat /\ s * e = r /\ s \in Nat
  BY <1>0, <1>1, <1>2, DivisorFactor
<1>4. n # 0 /\ s # 0
  BY <1>0, <1>2, <1>3
<1>5. e <= r
  <2>1. s - 1 \in Nat /\ s * e = e + (s - 1) * e
    BY <1>2, <1>3, <1>4
  <2>2. (s - 1) * e \in Nat
    BY <1>2, <2>1
  <2> QED BY <1>0, <1>2, <1>3, <2>1, <2>2
<1>6. s < n
  <2>1. SUFFICES ASSUME n <= s PROVE FALSE
    BY <1>3
  <2>2. s - n \in Nat /\ s * e = n * e + (s - n) * e
    BY <1>2, <1>3, <2>1
  <2>3. (s - n) * e \in Nat
    BY <1>2, <2>2
  <2> QED BY <1>0, <1>3, <2>2, <2>3
<1>7. s \in 1..(n - 1) /\ n \in 1..Order
  <2>1. e - 1 \in Nat /\ n * e = n + n * (e - 1)
    BY <1>1, <1>2, <1>3, SMTT(30)
  <2>2. n * (e - 1) \in Nat
    BY <1>3, <2>1
  <2> QED BY <1>0, <1>3, <1>4, <1>6, <2>1, <2>2
<1>8. PICK c \in 1..n : c = Gcd(s, n) /\ s % c = 0 /\ n % c = 0
  BY <1>7, GmpAssumption DEF CommonDivisors
<1>9. c = 1
  <2>0. c \in Nat \ {0}
    BY <1>3, <1>8
  <2>1. PICK a \in Nat : a * c = s
    BY <1>3, <1>8, <2>0, DivisorFactor
  <2>2. PICK b \in Nat : b * c = n
    BY <1>3, <1>8, <2>0, DivisorFactor
  <2>3. PICK f \in Nat \ {0} : f = c * e
    BY <2>0, <1>2
  <2>4. a * f = r /\ b * f = Order
    BY <1>2, <1>3, <2>0, <2>1, <2>2, <2>3
  <2>5. r % f = 0 /\ Order % f = 0
    BY <2>3, <2>4, FactorDivides
  <2>6. f <= Order
    <3>1. b # 0
      BY <1>0, <2>3, <2>4
    <3>2. b - 1 \in Nat /\ b * f = f + (b - 1) * f
      BY <2>3, <3>1
    <3>3. (b - 1) * f \in Nat
      BY <2>3, <3>2
    <3> QED BY <1>0, <2>3, <2>4, <3>2, <3>3
  <2>7. f <= e
    BY <1>0, <1>1, <2>3, <2>5, <2>6 DEF CommonDivisors
  <2>8. c - 1 \in Nat /\ c * e = e + (c - 1) * e
    BY <1>2, <2>0
  <2>9. c - 1 = 0
    <3>1. SUFFICES ASSUME c - 1 # 0 PROVE FALSE
      OBVIOUS
    <3>2. c - 2 \in Nat /\ (c - 1) * e = e + (c - 2) * e
      BY <1>2, <2>8, <3>1
    <3>3. (c - 2) * e \in Nat
      BY <1>2, <3>2
    <3> QED BY <1>2, <2>3, <2>7, <2>8, <3>2, <3>3
  <2> QED BY <2>0, <2>9
<1>10. Invert(s, n) \in 0..(n - 1) /\ (Invert(s, n) * s) % n = 1
  BY <1>7, <1>8, <1>9, GmpAssumption
<1> QED BY <1>1, <1>3, <1>4, <1>5, <1>7, <1>10

\* Exponents below the square of the order that give the same power of the base differ
\* by a multiple of the order.
LEMMA SameExponents ==
  ASSUME NEW k \in 0..(Order * Order), NEW m \in 0..(Order * Order), Pow(G, k) = Pow(G, m)
  PROVE  k % Order = m % Order
<1>0. /\ Order \in Nat \ {0} /\ Order * Order \in Nat /\ MaxExp \in Nat /\ 2 * Order <= MaxExp
      /\ G \in Grp /\ Pow(G, Order) = One
  BY RhoAssumption, GroupAssumption, PowAssumption
<1>1. ASSUME NEW a \in 0..(Order - 1), NEW b \in 0..(Order - 1), a < b, Pow(G, a) = Pow(G, b)
      PROVE  FALSE
  <2>1. b - a \in 1..(Order - 1) /\ (b - a) % Order = b - a /\ a \in 0..MaxExp /\ b - a \in 0..MaxExp
    BY <1>0, <1>1
  <2>2. Pow(G, b) = Mul(Pow(G, b - a), Pow(G, a))
    BY <1>0, <2>1, PowDifference
  <2>3. Pow(G, a) \in Grp /\ Pow(G, b - a) \in Grp /\ One \in Grp
    BY <1>0, <2>1, PowAssumption, GroupAssumption
  <2>4. Mul(One, Pow(G, a)) = Mul(Pow(G, b - a), Pow(G, a))
    BY <1>1, <2>2, <2>3, GroupAssumption
  <2>5. Pow(G, b - a) = One
    BY <1>0, <2>1, <2>3, <2>4, Cancel
  <2> QED BY <2>1, <2>5, OrderAssumption
<1>2. k \in Nat /\ k <= Order * Order /\ m \in Nat /\ m <= Order * Order
  BY <1>0
<1>3. Pow(G, k % Order) = Pow(G, m % Order)
  <2>1. Pow(G, k % Order) = Pow(G, k) /\ Pow(G, m % Order) = Pow(G, m)
    BY <1>0, <1>2, PowModulo
  <2> QED BY <2>1
<1>4. k % Order \in 0..(Order - 1) /\ m % Order \in 0..(Order - 1)
  BY <1>2, ModRange
<1>5. ~(k % Order < m % Order) /\ ~(m % Order < k % Order)
  BY <1>1, <1>3, <1>4
<1>6. k % Order \in Int /\ m % Order \in Int
  BY <1>0, <1>4
<1> QED BY <1>5, <1>6

\* Where r has no inverse modulo the order, one of the candidates is the logarithm: they
\* are the numbers below the order that solve the equation.
LEMMA OneSolves ==
  ASSUME InSubgroup, NEW r \in 1..(Order - 1), NEW t \in 0..(Order - 1),
         Pow(h, r) = Pow(G, t),
         NEW e, e = Gcd(r, Order), NEW n, n = Order \div e
  PROVE  \E l \in 0..(e - 1) :
           Pow(G, ((Invert(r \div e, n) * (t \div e)) % n) + l * n) = h
<1>0. Order \in Nat \ {0} /\ Order * Order \in Nat /\ G \in Grp
  BY RhoAssumption, GroupAssumption
<1>1. PICK s : s = r \div e
  OBVIOUS
<1>2. PICK v : v = Invert(s, n)
  OBVIOUS
<1>3. /\ e \in 1..r /\ n \in Nat \ {0} /\ s \in 1..(n - 1) /\ n * e = Order /\ s * e = r
      /\ v \in 0..(n - 1) /\ (v * s) % n = 1
  BY <1>1, <1>2, GcdFacts
<1>4. e \in Nat \ {0} /\ s \in Nat /\ v \in Nat /\ t \in Nat /\ r \in Nat /\ t < Order /\ r < Order
  BY <1>0, <1>3
<1>5. PICK x \in 0..(Order - 1) : Pow(G, x) = h
  BY DEF InSubgroup
<1>6. x \in Nat /\ x < Order
  BY <1>0, <1>5
<1>7. (x * r) % Order = t
  <2>1. x \in 0..Order /\ r \in 0..Order
    BY <1>0
  <2>2. Pow(G, x * r) = Pow(G, t)
    BY <1>0, <1>5, <2>1, RhoAssumption
  <2>3. x * r \in 0..(Order * Order)
    <3>1. /\ Order - x \in Nat /\ Order - r \in Nat
          /\ Order * Order = x * r + x * (Order - r) + (Order - x) * Order
      BY <1>0, <1>4, <1>6
    <3>2. x * r \in Nat /\ x * (Order - r) \in Nat /\ (Order - x) * Order \in Nat
      BY <1>0, <1>4, <1>6, <3>1
    <3> QED BY <1>0, <3>1, <3>2
  <2>4. t \in 0..(Order * Order) /\ t % Order = t
    BY <1>0, <1>4, SquareBound
  <2> QED BY <2>2, <2>3, <2>4, SameExponents
<1>8. PICK c \in Int : x * r = Order * c + t
  <2>1. x * r \in Int /\ x * r = Order * ((x * r) \div Order) + ((x * r) % Order)
    BY <1>0, <1>4, <1>6
  <2>2. (x * r) \div Order \in Int
    BY <1>0, <2>1
  <2> QED BY <1>7, <2>1, <2>2
<1>9. PICK w \in Int : w = x * s - n * c
  BY <1>3, <1>4, <1>6, <1>8
<1>10. t = w * e
  <2>1. x * r = (x * s) * e /\ Order * c = (n * c) * e
    <3>1. x \in Int /\ s \in Int /\ e \in Int /\ n \in Int /\ c \in Int
      BY <1>3, <1>4, <1>6, <1>8
    <3>2. x * (s * e) = (x * s) * e /\ (n * e) * c = (n * c) * e
      BY <3>1
    <3> QED BY <1>3, <3>2
  <2>2. x * s \in Int /\ n * c \in Int
    BY <1>3, <1>4, <1>6, <1>8
  <2>3. PICK a \in Int, b \in Int : a = x * s /\ b = n * c
    BY <2>2
  <2>4. a * e = b * e + t /\ w = a - b
    BY <1>8, <1>9, <2>1, <2>3
  <2>5. (a - b) * e = a * e - b * e
    BY <1>4, <2>3
  <2>6. a * e \in Int /\ b * e \in Int
    BY <1>4, <2>3
  <2> QED BY <1>4, <2>4, <2>5, <2>6
<1>11. w \in Nat /\ t \div e = w
  <2>1. w \in Nat
    <3>1. SUFFICES ASSUME w < 0 PROVE FALSE
      BY <1>9
    <3>2. -w \in Nat \ {0} /\ (-w) * e = -(w * e) /\ w * e \in Int
      BY <1>4, <1>9, <3>1
    <3>3. (-w) * e > 0
      BY <1>4, <3>2
    <3> QED BY <1>4, <1>10, <3>2, <3>3
  <2> QED BY <1>4, <1>10, <2>1, FactorDivides
<1>12. PICK u \in Int : v * s = n * u + 1
  <2>1. v * s \in Int /\ v * s = n * ((v * s) \div n) + ((v * s) % n)
    BY <1>3, <1>4
  <2>2. (v * s) \div n \in Int
    BY <1>3, <2>1
  <2> QED BY <1>3, <2>1, <2>2
<1>13. PICK f \in Int : v * w = n * f + x
  <2>1. v * w = x * (v * s) - n * (v * c)
    BY <1>3, <1>4, <1>6, <1>8, <1>9
  <2>2. x * (v * s) = n * (x * u) + x
    <3>1. x \in Int /\ n \in Int /\ u \in Int
      BY <1>3, <1>6, <1>12
    <3>2. x * (n * u + 1) = n * (x * u) + x
      BY <3>1
    <3> QED BY <1>12, <3>2
  <2>3. x * u - v * c \in Int
    BY <1>4, <1>6, <1>8, <1>12
  <2>4. n * (x * u - v * c) = n * (x * u) - n * (v * c)
    BY <1>3, <1>4, <1>6, <1>8, <1>12
  <2>5. n * (x * u) \in Int /\ n * (v * c) \in Int
    <3>1. x * u \in Int /\ v * c \in Int /\ n \in Int
      BY <1>3, <1>4, <1>6, <1>8, <1>12
    <3> QED BY <3>1
  <2>6. v * w = n * (x * u - v * c) + x
    BY <1>6, <2>1, <2>2, <2>4, <2>5
  <2> QED BY <2>3, <2>6
<1>14. PICK l \in Int, b \in 0..(n - 1) : x = n * l + b
  <2>1. x = n * (x \div n) + (x % n) /\ x \div n \in Int /\ x % n \in 0..(n - 1)
    BY <1>3, <1>6
  <2> QED BY <2>1
<1>15. (v * w) % n = b
  <2>1. v * w = n * (f + l) + b /\ f + l \in Int /\ v * w \in Int
    BY <1>3, <1>4, <1>9, <1>13, <1>14
  <2>2. PICK a \in Int : a = f + l
    BY <2>1
  <2>3. n \in Nat /\ b \in 0..(n - 1)
    BY <1>3
  <2>4. ((n * a) + b) % n = b
    BY <2>3, RemainderIs
  <2> QED BY <2>1, <2>2, <2>4
<1>16. l \in 0..(e - 1)
  <2>1. l >= 0
    <3>1. SUFFICES ASSUME l < 0 PROVE FALSE
      BY <1>14
    <3>2. -1 - l \in Nat /\ n * l = -n - n * (-1 - l)
      BY <1>3, <1>14, <3>1
    <3>3. n * (-1 - l) \in Nat
      BY <1>3, <3>2
    <3> QED BY <1>3, <1>6, <1>14, <3>2, <3>3
  <2>2. l < e
    <3>1. SUFFICES ASSUME e <= l PROVE FALSE
      BY <1>4, <1>14
    <3>2. l - e \in Nat /\ n * l = n * e + n * (l - e)
      BY <1>3, <1>4, <1>14, <3>1
    <3>3. n * (l - e) \in Nat
      BY <1>3, <3>2
    <3> QED BY <1>0, <1>3, <1>6, <1>14, <3>2, <3>3
  <2> QED BY <1>4, <1>14, <2>1, <2>2
<1>17. ((v * (t \div e)) % n) + l * n = x
  <2>1. (v * (t \div e)) % n = b
    BY <1>11, <1>15
  <2>2. l * n = n * l
    BY <1>3, <1>14
  <2> QED BY <1>3, <1>14, <2>1, <2>2
<1> QED BY <1>1, <1>2, <1>5, <1>16, <1>17

-----------------------------------------------------------------------------
(* The steps *)

\* The invariant holds before the first call.
LEMMA InitIInv == Init => IInv
<1> SUFFICES ASSUME Init PROVE IInv
  OBVIOUS
<1>0. Order \in Nat \ {0} /\ Iterations \in Nat /\ One \in Grp /\ G \in Grp
  BY RhoAssumption, GroupAssumption
<1>1. TypeOK
  BY <1>0 DEF Init, TypeOK, Walks
<1>2. Represented
  <2>1. Pow(G, 0) = One /\ Pow(h, 0) = One /\ Mul(One, One) = One
    BY <1>0, GroupAssumption, PowAssumption DEF Init
  <2> QED BY <2>1 DEF Init, Represented, Represents
<1>3. MetInv /\ TryInv /\ Sound
  BY DEF Init, MetInv, TryInv, Sound
<1> QED BY <1>1, <1>2, <1>3 DEF IInv

\* Steps that leave the walks and the element alone keep what the walks say.
LEMMA SameWalks ==
  ASSUME Represented, UNCHANGED <<h, slow, fast>>
  PROVE  Represented'
<1>1. InSubgroup' <=> InSubgroup
  BY DEF InSubgroup
<1> QED BY <1>1 DEF Represented, Represents

\* The walks take a step.
LEMMA StepIInv == IInv /\ Step => IInv'
<1> SUFFICES ASSUME IInv, Step PROVE IInv'
  OBVIOUS
<1> DEFINE once == Iterate(fast)
<1>0. h' = h /\ slow' = Iterate(slow) /\ fast' = Iterate(once)
  BY DEF Step
<1>1. slow \in Walks /\ fast \in Walks /\ h \in Grp /\ once \in Walks
  BY IterateType DEF IInv, TypeOK
<1>2. slow' \in Walks /\ fast' \in Walks
  BY <1>0, <1>1, IterateType
<1> HIDE DEF once
<1>3. TypeOK'
  <2>1. i \in Nat /\ i < Iterations /\ i' = i + 1 /\ i' \in 0..Iterations
    BY RhoAssumption DEF Step, IInv, TypeOK
  <2>2. pc' \in {"walk", "met", "try", "done"}
    BY DEF Step
  <2> QED BY <1>2, <2>1, <2>2 DEF Step, IInv, TypeOK
<1>4. Represented'
  <2>1. InSubgroup' <=> InSubgroup
    BY <1>0 DEF InSubgroup
  <2>2. SUFFICES ASSUME InSubgroup PROVE Represents(Iterate(slow)) /\ Represents(Iterate(once))
    BY <1>0, <2>1 DEF Represented, Represents
  <2>3. Represents(slow) /\ Represents(fast)
    BY <2>2 DEF IInv, Represented
  <2>4. Represents(once)
    BY <1>1, <2>2, <2>3, IterateRepresents DEF once
  <2> QED BY <1>1, <2>2, <2>3, <2>4, IterateRepresents
<1>5. MetInv' /\ TryInv' /\ Sound'
  <2>1. (pc' = "met" /\ slow'.x = fast'.x) \/ pc' = "walk"
    BY DEF Step
  <2> QED BY <2>1 DEF MetInv, TryInv, Sound
<1> QED BY <1>3, <1>4, <1>5 DEF IInv

\* The iterations are used up.
LEMMA ExhaustedIInv == IInv /\ Exhausted => IInv'
<1> SUFFICES ASSUME IInv, Exhausted PROVE IInv'
  OBVIOUS
<1>1. pc' = "done" /\ err' = "DLOG_NOT_FOUND" /\ UNCHANGED <<h, i, slow, fast, q, d, j, res>>
  BY DEF Exhausted, NotFound
<1>2. TypeOK'
  BY <1>1 DEF IInv, TypeOK
<1>3. Represented'
  BY <1>1, SameWalks DEF IInv
<1>4. MetInv' /\ TryInv' /\ Sound'
  BY <1>1 DEF MetInv, TryInv, Sound
<1> QED BY <1>2, <1>3, <1>4 DEF IInv

\* What is done when the walks have met.
LEMMA MeetIInv == IInv /\ Meet => IInv'
<1> SUFFICES ASSUME IInv, Meet PROVE IInv'
  OBVIOUS
<1> DEFINE e == Gcd(R, Order)
           n == Order \div e
<1>0. UNCHANGED <<h, i, slow, fast>> /\ pc = "met" /\ err = err /\ Order \in Nat \ {0}
  BY RhoAssumption DEF Meet
<1>1. R \in 0..(Order - 1) /\ T \in 0..(Order - 1)
  <2>1. /\ slow.a \in Int /\ slow.b \in Int /\ fast.a \in Int /\ fast.b \in Int
    BY RhoAssumption DEF IInv, TypeOK, Walks
  <2>2. fast.b - slow.b \in Int /\ slow.a - fast.a \in Int
    BY <2>1
  <2> QED BY <2>2, ModRange DEF R, T
<1>2. Represented'
  BY <1>0, SameWalks DEF IInv
<1>3. CASE R = 0 /\ NotFound /\ UNCHANGED <<q, d, j>>
  <2>1. pc' = "done" /\ err' = "DLOG_NOT_FOUND" /\ UNCHANGED <<q, d, j, res>>
    BY <1>3 DEF NotFound
  <2>2. TypeOK'
    BY <1>0, <2>1 DEF IInv, TypeOK
  <2>3. MetInv' /\ TryInv' /\ Sound'
    BY <2>1 DEF MetInv, TryInv, Sound
  <2> QED BY <1>2, <2>2, <2>3 DEF IInv
<1>4. CASE R # 0 /\ e = 1 /\ Answer((Invert(R, Order) * T) % Order) /\ UNCHANGED <<q, d, j>>
  <2> DEFINE v == (Invert(R, Order) * T) % Order
  <2>1. pc' = "done" /\ res' = v /\ err' = err /\ UNCHANGED <<q, d, j>>
    BY <1>4 DEF Answer
  <2>2. R \in 1..(Order - 1)
    BY <1>1, <1>4
  <2>3. v \in 0..(Order - 1)
    <3>0. Order \in 1..Order
      BY <1>0
    <3>1. Invert(R, Order) \in Nat
      BY <1>0, <1>4, <2>2, <3>0, GmpAssumption
    <3>2. Invert(R, Order) * T \in Int
      BY <1>1, <3>1
    <3> QED BY <3>2, ModRange
  <2>4. InSubgroup => Pow(G, v) = h
    <3>1. SUFFICES ASSUME InSubgroup PROVE Pow(G, v) = h
      OBVIOUS
    <3>2. Pow(h, R) = Pow(G, T)
      BY <1>0, <3>1, MetEquation DEF IInv, TypeOK, Represented, MetInv
    <3> QED BY <1>1, <1>4, <2>2, <3>1, <3>2, Solved
  <2> HIDE DEF v
  <2>5. TypeOK'
    BY <1>0, <2>1, <2>3 DEF IInv, TypeOK
  <2>6. Sound'
    <3>1. InSubgroup' <=> InSubgroup
      BY <1>0 DEF InSubgroup
    <3> QED BY <1>0, <2>1, <2>4, <3>1 DEF Sound
  <2>7. MetInv' /\ TryInv'
    BY <2>1 DEF MetInv, TryInv
  <2> QED BY <1>2, <2>5, <2>6, <2>7 DEF IInv
<1>5. CASE /\ R # 0 /\ e > 1
           /\ q' = (Invert(R \div e, n) * (T \div e)) % n /\ d' = e /\ j' = 0
           /\ pc' = "try" /\ UNCHANGED <<res, err>>
  <2>1. R \in 1..(Order - 1)
    BY <1>1, <1>5
  <2>2. /\ e \in 1..R /\ n * e = Order
        /\ Invert(R \div e, n) \in 0..(n - 1)
    BY <2>1, GcdFacts
  <2>3. e \in Nat \ {0} /\ n \in Nat /\ T \div e \in Nat /\ e \in 1..Order
    BY <1>0, <1>1, <2>1, <2>2
  <2>4. n \in Nat \ {0} /\ Invert(R \div e, n) \in Nat
    <3>1. n # 0
      BY <1>0, <2>2, <2>3
    <3> QED BY <2>2, <2>3, <3>1
  <2> HIDE DEF e, n
  <2>5. q' \in 0..(n - 1)
    <3>1. \A k \in Int : k % n \in 0..(n - 1)
      BY <2>4
    <3>2. Invert(R \div e, n) * (T \div e) \in Int
      BY <2>3, <2>4
    <3> QED BY <1>5, <3>1, <3>2
  <2>6. TypeOK'
    <3>1. d' \in 1..Order /\ j' \in 0..d' /\ q' \in Nat
      BY <1>0, <1>5, <2>3, <2>4, <2>5
    <3> QED BY <1>0, <1>5, <3>1 DEF IInv, TypeOK
  <2>7. TryInv'
    <3>1. Order \div d' = n
      BY <1>5 DEF n
    <3>2. (j' + 1) * n = n
      BY <1>5, <2>4
    <3>3. q' < n
      BY <2>4, <2>5
    <3> QED BY <1>5, <2>2, <2>3, <3>1, <3>2, <3>3 DEF TryInv
  <2>8. MetInv' /\ Sound'
    BY <1>5 DEF MetInv, Sound
  <2> QED BY <1>2, <2>6, <2>7, <2>8 DEF IInv
<1> QED BY <1>3, <1>4, <1>5 DEF Meet

\* A candidate is compared with the element.
LEMMA TryIInv == IInv /\ Try => IInv'
<1> SUFFICES ASSUME IInv, Try PROVE IInv'
  OBVIOUS
<1> DEFINE n == Order \div d
<1>0. /\ UNCHANGED <<h, i, slow, fast, d>> /\ pc = "try" /\ j < d
      /\ Order \in Nat \ {0} /\ d \in 1..Order /\ j \in Nat /\ d \in Nat /\ q \in Nat
      /\ n \in Nat /\ n * d = Order /\ q < (j + 1) * n
  BY RhoAssumption DEF Try, IInv, TypeOK, TryInv
<1>1. Represented'
  BY <1>0, SameWalks DEF IInv
<1>2. InSubgroup' <=> InSubgroup
  BY <1>0 DEF InSubgroup
<1>3. (Order \div d)' = n
  BY <1>0
<1> HIDE DEF n
<1>4. CASE h = Pow(G, q) /\ Answer(q) /\ UNCHANGED <<q, j>>
  <2>1. pc' = "done" /\ res' = q /\ err' = err /\ UNCHANGED <<q, j>>
    BY <1>4 DEF Answer
  <2>2. q < Order
    <3>1. d - j - 1 \in Nat /\ n * d = (j + 1) * n + (d - j - 1) * n
      BY <1>0
    <3>2. (d - j - 1) * n \in Nat /\ (j + 1) * n \in Nat
      BY <1>0, <3>1
    <3> QED BY <1>0, <3>1, <3>2
  <2>3. TypeOK'
    BY <1>0, <2>1, <2>2 DEF IInv, TypeOK
  <2>4. MetInv' /\ TryInv' /\ Sound'
    BY <1>0, <1>4, <2>1 DEF MetInv, TryInv, Sound
  <2> QED BY <1>1, <2>3, <2>4 DEF IInv
<1>5. CASE h # Pow(G, q) /\ q' = q + n /\ j' = j + 1 /\ UNCHANGED <<pc, res, err>>
  <2>1. TypeOK'
    <3>1. q' \in Nat /\ j' \in 0..d /\ d' = d
      BY <1>0, <1>5
    <3> QED BY <1>0, <1>5, <3>1 DEF IInv, TypeOK
  <2>2. TryInv'
    <3>1. (j + 1 + 1) * n = (j + 1) * n + n /\ (j + 1) * n \in Nat
      BY <1>0
    <3>2. q' < (j' + 1) * n
      BY <1>0, <1>5, <3>1
    <3> QED BY <1>0, <1>3, <3>2 DEF TryInv
  <2>3. MetInv' /\ Sound'
    BY <1>0, <1>5 DEF MetInv, Sound
  <2> QED BY <1>1, <2>1, <2>2, <2>3 DEF IInv
<1> QED BY <1>4, <1>5 DEF Try, n

\* None was the logarithm, and the walks go on.
LEMMA GoOnIInv == IInv /\ GoOn => IInv'
<1> SUFFICES ASSUME IInv, GoOn PROVE IInv'
  OBVIOUS
<1>1. pc' = "walk" /\ UNCHANGED <<h, i, slow, fast, q, d, j, res, err>>
  BY DEF GoOn
<1>2. TypeOK'
  BY <1>1 DEF IInv, TypeOK
<1>3. Represented'
  BY <1>1, SameWalks DEF IInv
<1>4. MetInv' /\ TryInv' /\ Sound'
  BY <1>1 DEF MetInv, TryInv, Sound
<1> QED BY <1>2, <1>3, <1>4 DEF IInv

\* The solutions that are still to be tried depend on nothing but these variables.
LEMMA CandidateKept ==
  ASSUME CandidateInv, UNCHANGED <<h, pc, i, slow, fast, q, d, j, err>>
  PROVE  CandidateInv'
<1>1. InSubgroup' <=> InSubgroup
  BY DEF InSubgroup
<1>2. R' = R
  BY DEF R
<1>3. pc' = "try" /\ InSubgroup' =>
        \E l \in 0..(d' - 1 - j') : Pow(G, q' + l * (Order \div d')) = h'
  BY <1>1 DEF CandidateInv
<1> QED BY <1>2, <1>3 DEF CandidateInv

\* Every step keeps the candidates, or leaves out one that is not the logarithm.
LEMMA CandidateStep == IInv /\ CandidateInv /\ [Next]_vars => CandidateInv'
<1> SUFFICES ASSUME IInv, CandidateInv, [Next]_vars PROVE CandidateInv'
  OBVIOUS
<1>0. /\ Order \in Nat \ {0} /\ i \in 0..Iterations /\ slow \in Walks /\ fast \in Walks
      /\ q \in Nat /\ d \in 1..Order /\ d \in Nat /\ j \in Nat
  BY RhoAssumption DEF IInv, TypeOK
<1>1. CASE UNCHANGED vars
  BY <1>1, CandidateKept DEF vars
<1>2. CASE Step
  <2>1. (pc' = "met" \/ pc' = "walk") /\ err' = err /\ pc = "walk"
    BY <1>2 DEF Step
  <2> QED BY <2>1 DEF CandidateInv
<1>3. CASE Exhausted
  <2>1. pc' = "done" /\ i' = i /\ i = Iterations
    BY <1>3 DEF Exhausted, NotFound
  <2> QED BY <2>1 DEF CandidateInv
<1>4. CASE Meet
  <2> DEFINE e == Gcd(R, Order)
             n == Order \div e
             solution == (Invert(R \div e, n) * (T \div e)) % n
  <2>1. UNCHANGED <<h, i, slow, fast>> /\ pc = "met"
    BY <1>4 DEF Meet
  <2>2. R' = R /\ (InSubgroup' <=> InSubgroup)
    BY <2>1 DEF R, InSubgroup
  <2>3. CASE R = 0 /\ NotFound /\ UNCHANGED <<q, d, j>>
    <3>1. pc' = "done" /\ R' = 0
      BY <2>2, <2>3 DEF NotFound
    <3> QED BY <3>1 DEF CandidateInv
  <2>4. CASE R # 0 /\ e = 1 /\ Answer((Invert(R, Order) * T) % Order) /\ UNCHANGED <<q, d, j>>
    <3>1. pc' = "done" /\ err' = err
      BY <2>4 DEF Answer
    <3> QED BY <2>1, <3>1 DEF CandidateInv
  <2>5. CASE R # 0 /\ e > 1 /\ q' = solution /\ d' = e /\ j' = 0
             /\ pc' = "try" /\ UNCHANGED <<res, err>>
    <3>1. R \in 0..(Order - 1) /\ T \in 0..(Order - 1)
      <4>1. slow.a \in Int /\ slow.b \in Int /\ fast.a \in Int /\ fast.b \in Int
        BY <1>0 DEF Walks
      <4>2. fast.b - slow.b \in Int /\ slow.a - fast.a \in Int
        BY <4>1
      <4> QED BY <4>2, ModRange DEF R, T
    <3>2. R \in 1..(Order - 1)
      BY <1>0, <2>5, <3>1
    <3>3. e \in Nat
      <4>1. e \in 1..R
        BY <3>2, GcdFacts
      <4> QED BY <1>0, <3>2, <4>1
    <3>4. InSubgroup => \E l \in 0..(e - 1) : Pow(G, solution + l * n) = h
      <4>1. SUFFICES ASSUME InSubgroup PROVE \E l \in 0..(e - 1) : Pow(G, solution + l * n) = h
        OBVIOUS
      <4>2. Pow(h, R) = Pow(G, T)
        BY <2>1, <4>1, MetEquation DEF IInv, TypeOK, Represented, MetInv
      <4> QED BY <3>1, <3>2, <4>1, <4>2, OneSolves
    <3>5. d' - 1 - j' = e - 1 /\ Order \div d' = n /\ h' = h
      BY <2>1, <2>5, <3>3
    <3> HIDE DEF e, n, solution
    <3>6. InSubgroup' => \E l \in 0..(d' - 1 - j') : Pow(G, q' + l * (Order \div d')) = h'
      BY <2>2, <2>5, <3>4, <3>5
    <3>7. err' = "NONE"
      BY <2>1, <2>5 DEF CandidateInv
    <3> QED BY <3>6, <3>7 DEF CandidateInv
  <2> QED BY <1>4, <2>3, <2>4, <2>5 DEF Meet
<1>5. CASE Try
  <2> DEFINE n == Order \div d
  <2>0. /\ UNCHANGED <<h, i, slow, fast, d>> /\ pc = "try" /\ j < d /\ n \in Nat /\ err = "NONE"
    BY <1>5 DEF Try, IInv, TryInv, CandidateInv
  <2>1. (InSubgroup' <=> InSubgroup) /\ Order \div d' = n
    BY <2>0 DEF InSubgroup
  <2>2. CASE h = Pow(G, q) /\ Answer(q) /\ UNCHANGED <<q, j>>
    BY <2>0, <2>2 DEF CandidateInv, Answer
  <2>3. CASE h # Pow(G, q) /\ q' = q + n /\ j' = j + 1 /\ UNCHANGED <<pc, res, err>>
    <3>1. ASSUME InSubgroup PROVE \E l \in 0..(d - 1 - (j + 1)) : Pow(G, (q + n) + l * n) = h
      <4>1. PICK l \in 0..(d - 1 - j) : Pow(G, q + l * n) = h
        BY <2>0, <3>1 DEF CandidateInv
      <4> HIDE DEF n
      <4>2. l # 0
        <5>1. SUFFICES ASSUME l = 0 PROVE FALSE
          OBVIOUS
        <5>2. q + 0 * n = q
          BY <1>0, <2>0
        <5> QED BY <2>3, <4>1, <5>1, <5>2
      <4>3. l - 1 \in 0..(d - 1 - (j + 1)) /\ l * n = n + (l - 1) * n /\ (l - 1) * n \in Nat
        BY <1>0, <2>0, <4>1, <4>2
      <4>4. (q + n) + (l - 1) * n = q + l * n
        BY <1>0, <2>0, <4>3
      <4> QED BY <4>1, <4>3, <4>4
    <3> HIDE DEF n
    <3>2. InSubgroup' => \E l \in 0..(d' - 1 - j') : Pow(G, q' + l * (Order \div d')) = h'
      BY <2>0, <2>1, <2>3, <3>1
    <3> QED BY <2>0, <2>3, <3>2 DEF CandidateInv
  <2> QED BY <1>5, <2>2, <2>3 DEF Try
<1>6. CASE GoOn
  <2>1. pc' = "walk" /\ pc = "try" /\ err' = err
    BY <1>6 DEF GoOn
  <2> QED BY <2>1 DEF CandidateInv
<1> QED BY <1>1, <1>2, <1>3, <1>4, <1>5, <1>6 DEF Next

\* Every step keeps the invariant.
LEMMA NextIInv == IInv /\ [Next]_vars => IInv'
<1> SUFFICES ASSUME IInv, [Next]_vars PROVE IInv'
  OBVIOUS
<1>1. CASE UNCHANGED vars
  <2>1. UNCHANGED <<h, pc, i, slow, fast, q, d, j, res, err>>
    BY <1>1 DEF vars
  <2>2. Represented'
    BY <2>1, SameWalks DEF IInv
  <2>3. InSubgroup' <=> InSubgroup
    BY <2>1 DEF InSubgroup
  <2>4. TypeOK' /\ MetInv' /\ TryInv' /\ Sound'
    BY <2>1, <2>3 DEF IInv, TypeOK, MetInv, TryInv, Sound
  <2> QED BY <2>2, <2>4 DEF IInv
<1> QED BY <1>1, StepIInv, ExhaustedIInv, MeetIInv, TryIInv, GoOnIInv DEF Next

\* While a logarithm is among the candidates that are left, they do not run out.
LEMMA CandidateAnswers == IInv /\ CandidateInv => Answered
<1> SUFFICES ASSUME IInv, CandidateInv PROVE Answered
  OBVIOUS
<1>1. d \in Int /\ j \in Int
  BY RhoAssumption DEF IInv, TypeOK
<1>2. ASSUME InSubgroup, pc = "try" PROVE j < d
  <2>1. PICK l \in 0..(d - 1 - j) : Pow(G, q + l * (Order \div d)) = h
    BY <1>2 DEF CandidateInv
  <2> QED BY <1>1, <2>1
<1> QED BY <1>2 DEF Answered, CandidateInv

-----------------------------------------------------------------------------
(* The theorems *)

\* The inductive invariant holds in every state.
LEMMA Invariance == Spec => []IInv
<1>1. IInv /\ [Next]_vars => IInv'
  BY NextIInv
<1> QED BY <1>1, InitIInv, PTL DEF Spec

\* The variables keep their types, and an answer is below the order, whatever the
\* group, the order and the element (dlog.c:152-214).
THEOREM RhoTypeCorrect == Spec => []TypeOK
<1>1. IInv => TypeOK
  BY DEF IInv
<1> QED BY <1>1, Invariance, PTL

\* The reduced exponents say what the element of a walk is, after any number of
\* iterations (dlog.c:131-150).
THEOREM RhoRepresented == Spec => []Represented
<1>1. IInv => Represented
  BY DEF IInv
<1> QED BY <1>1, Invariance, PTL

\* An answer is a logarithm of the element, for orders that are prime and for those that
\* are not (dlog.c:152-214, dlog.h:75).
THEOREM RhoSound == Spec => []Sound
<1>1. IInv => Sound
  BY DEF IInv
<1> QED BY <1>1, Invariance, PTL

\* A logarithm that exists is missed only when the equation of the walks says nothing of
\* it, or the walks had no time to meet: one of the solutions that are tried is it, also
\* when the order is not a prime (dlog.c:193-210).
THEOREM RhoAnswered == Spec => []Answered
<1>1. Init => CandidateInv
  BY DEF Init, CandidateInv
<1>2. IInv /\ CandidateInv /\ [Next]_vars => CandidateInv'
  BY CandidateStep
<1>3. IInv /\ CandidateInv => Answered
  BY CandidateAnswers
<1> QED BY <1>1, <1>2, <1>3, Invariance, PTL DEF Spec

-----------------------------------------------------------------------------
(* The search in the composition *)

\* A search that is done from the start found the logarithm of the neutral element.
LEMMA DoneIInv == RhoDone => IInv /\ CandidateInv
<1> SUFFICES ASSUME RhoDone PROVE IInv /\ CandidateInv
  OBVIOUS
<1>1. /\ h = One /\ pc = "done" /\ i = 0 /\ slow = [x |-> One, a |-> 0, b |-> 0] /\ fast = slow
      /\ q = 0 /\ d = 1 /\ j = 0 /\ res = 0 /\ err = "NONE"
  BY DEF RhoDone
<1>2. One \in Grp /\ Order \in Nat \ {0} /\ Iterations \in Nat
  BY GroupAssumption, RhoAssumption
<1>3. Pow(G, 0) = One /\ Pow(One, 0) = One /\ Mul(One, One) = One
  BY <1>2, RhoAssumption, PowAssumption, GroupAssumption
<1>4. TypeOK
  <2>1. 0 \in 0..(Order - 1) /\ 0 \in 0..Iterations /\ 1 \in 1..Order /\ 0 \in 0..1
    BY <1>2
  <2>2. slow \in Walks
    BY <1>1, <1>2, <2>1 DEF Walks
  <2> QED BY <1>1, <1>2, <2>1, <2>2 DEF TypeOK
<1>5. Represents(slow) /\ Represents(fast)
  BY <1>1, <1>3 DEF Represents
<1>6. Sound /\ MetInv /\ TryInv
  BY <1>1, <1>3 DEF Sound, MetInv, TryInv
<1> QED BY <1>1, <1>4, <1>5, <1>6 DEF IInv, Represented, CandidateInv

\* The search keeps what is proved of it in the composition that the run checks: it runs
\* as its specification says, or is done from the start.
THEOREM Composition == OneSpec => [](TypeOK /\ Represented /\ Sound /\ Answered)
<1>1. OneInit => IInv /\ CandidateInv
  <2>1. Init => CandidateInv
    BY DEF Init, CandidateInv
  <2> QED BY <2>1, DoneIInv, InitIInv DEF OneInit
<1>2. IInv /\ CandidateInv /\ [OneNext]_all => IInv' /\ CandidateInv'
  <2>1. [OneNext]_all => [Next]_vars
    BY DEF OneNext, all
  <2> QED BY <2>1, NextIInv, CandidateStep
<1>3. IInv /\ CandidateInv => TypeOK /\ Represented /\ Sound /\ Answered
  BY CandidateAnswers DEF IInv
<1> QED BY <1>1, <1>2, <1>3, PTL DEF OneSpec

-----------------------------------------------------------------------------
(* Numbers from random bytes *)

\* The number of bits is at least 1, and that of its magnitude.
LEMMA BitsOf ==
  ASSUME NEW v \in Int
  PROVE  /\ U!Bits(v) \in Nat \ {0}
         /\ v >= 0 => HasBits(v, U!Bits(v))
<1> DEFINE a == IF v < 0 THEN -v ELSE v
           S == {b \in 1..(a + 1) : a < 2^b /\ (b = 1 \/ a >= 2^(b - 1))}
<1>1. a \in Nat /\ (v >= 0 => a = v)
  OBVIOUS
<1>2. U!Bits(v) = CHOOSE b \in 1..(a + 1) : a < 2^b /\ (b = 1 \/ a >= 2^(b - 1))
  BY DEF U!Bits
<1> HIDE DEF a
<1>3. PICK b \in 1..(a + 1) : HasBits(a, b)
  BY <1>1, BitsExist
<1>4. b = 1 \/ a >= 2^(b - 1)
  <2>1. SUFFICES ASSUME b # 1 PROVE a >= 2^(b - 1)
    OBVIOUS
  <2>2. b - 1 \in Nat
    BY <1>1, <1>3
  <2>3. 2^(b - 1) \in Nat
    BY <2>2, TwoToNext
  <2>4. PICK x : x = 2^(b - 1)
    OBVIOUS
  <2>5. x <= a
    BY <1>3, <2>1, <2>4 DEF HasBits
  <2>6. a >= x
    BY <1>1, <2>3, <2>4, <2>5
  <2> QED BY <2>4, <2>6
<1>5. \E e \in 1..(a + 1) : a < 2^e /\ (e = 1 \/ a >= 2^(e - 1))
  BY <1>3, <1>4 DEF HasBits
<1>6. PICK e : e = U!Bits(v)
  OBVIOUS
<1>7. e \in 1..(a + 1) /\ a < 2^e /\ (e = 1 \/ a >= 2^(e - 1))
  BY <1>2, <1>5, <1>6, Zenon
<1>8. e \in Nat \ {0}
  BY <1>1, <1>7
<1>9. e = 1 \/ 2^(e - 1) <= a
  <2>1. SUFFICES ASSUME e # 1 PROVE 2^(e - 1) <= a
    OBVIOUS
  <2>2. e - 1 \in Nat
    BY <1>8
  <2>3. 2^(e - 1) \in Nat
    BY <2>2, TwoToNext
  <2>4. PICK x : x = 2^(e - 1)
    OBVIOUS
  <2>5. a >= x
    BY <1>7, <2>1, <2>4
  <2>6. x <= a
    BY <1>1, <2>3, <2>4, <2>5
  <2> QED BY <2>4, <2>6
<1>10. HasBits(a, e)
  BY <1>7, <1>8, <1>9 DEF HasBits
<1> QED BY <1>1, <1>6, <1>8, <1>10

\* More bits, greater powers: the one is a multiple of the other.
LEMMA TwoToMore ==
  ASSUME NEW a \in Nat, NEW b \in Nat, a <= b
  PROVE  \E k \in Nat \ {0} : 2^b = 2^a * k
<1>1. b - a \in Nat /\ a + (b - a) = b
  OBVIOUS
<1>2. 2^(b - a) \in Nat /\ 2^(b - a) > b - a
  BY <1>1, TwoToGrows
<1>3. 2^b = 2^a * 2^(b - a)
  BY <1>1, TwoToSum
<1>4. PICK k : k = 2^(b - a)
  OBVIOUS
<1>5. k \in Nat \ {0}
  BY <1>1, <1>2, <1>4
<1> QED BY <1>3, <1>4, <1>5

\* What is drawn is cut to the bits of the bound.
LEMMA ShortenedIs ==
  ASSUME NEW r \in Nat, NEW u \in Int
  PROVE  U!Shortened(r, u) = r % 2^U!Bits(u) /\ 2^U!Bits(u) \in Nat \ {0}
<1>1. PICK b, e : b = U!Bits(u) /\ e = U!Bits(r)
  OBVIOUS
<1>2. b \in Nat \ {0} /\ e \in Nat \ {0} /\ HasBits(r, e)
  BY <1>1, BitsOf
<1>3. 2^b \in Nat /\ 2^b > b
  BY <1>2, TwoToGrows
<1>4. PICK x : x = 2^b
  OBVIOUS
<1>5. x \in Nat \ {0}
  BY <1>2, <1>3, <1>4
<1>6. CASE e > b
  <2>1. U!Shortened(r, u) = r % 2^b
    BY <1>1, <1>6 DEF U!Shortened
  <2> QED BY <1>1, <1>4, <1>5, <2>1
<1>7. CASE ~(e > b)
  <2>1. PICK k \in Nat \ {0} : 2^b = 2^e * k
    BY <1>2, <1>7, TwoToMore
  <2>2. 2^e \in Nat
    BY <1>2, TwoToNext
  <2>3. PICK y : y = 2^e
    OBVIOUS
  <2>4. r < y /\ y \in Nat /\ x = y * k
    BY <1>2, <1>4, <2>1, <2>2, <2>3 DEF HasBits
  <2>5. y <= y * k
    BY <2>4
  <2>6. r \in 0..(x - 1)
    BY <1>5, <2>4, <2>5
  <2>7. r % x = r
    BY <1>5, <2>6
  <2>8. U!Shortened(r, u) = r
    BY <1>1, <1>7 DEF U!Shortened
  <2> QED BY <1>1, <1>4, <1>5, <2>7, <2>8
<1> QED BY <1>6, <1>7

\* The bytes that are drawn have at least the bits of the bound.
LEMMA DrawnIs ==
  ASSUME NEW u \in Int
  PROVE  \E k \in Nat \ {0} : U!Drawn(u) = 0..(2^U!Bits(u) * k - 1)
<1>0. ByteBits \in Nat \ {0}
  BY PartsAssumption DEF U!SamplerAssumption
<1>1. PICK b \in Nat \ {0} : b = U!Bits(u)
  BY BitsOf
<1>2. PICK t \in Int : t = (b - 1) \div ByteBits
  BY <1>0, <1>1
<1>3. b - 1 < ByteBits * (t + 1) /\ t >= 0
  BY <1>0, <1>1, <1>2
<1>4. PICK e \in Nat : e = ByteBits * (t + 1)
  <2>1. ByteBits * (t + 1) \in Nat
    BY <1>0, <1>1, <1>3
  <2> QED BY <2>1
<1>5. b <= e
  BY <1>1, <1>3, <1>4
<1>6. PICK k \in Nat \ {0} : 2^e = 2^b * k
  BY <1>1, <1>5, TwoToMore
<1>7. U!Drawn(u) = 0..(2^e - 1)
  BY <1>1, <1>2, <1>4 DEF U!Drawn, U!Bytes
<1> QED BY <1>1, <1>6, <1>7

\* The numbers below a multiple of the modulus that have a remainder.
WithRemainder(m, k, v) == {r \in 0..(m * k - 1) : r % m = v}

\* Every remainder has as many numbers below a multiple of the modulus as 0 has.
LEMMA AsManyRemainders ==
  ASSUME NEW m \in Nat \ {0}, NEW k \in Nat \ {0}, NEW v \in 0..(m - 1)
  PROVE  /\ Cardinality(WithRemainder(m, k, v)) = Cardinality(WithRemainder(m, k, 0))
         /\ WithRemainder(m, k, v) # {}
<1> SUFFICES ASSUME NEW S, S = {r \in 0..(m * k - 1) : r % m = 0},
                    NEW Y, Y = {r \in 0..(m * k - 1) : r % m = v}
             PROVE  Cardinality(Y) = Cardinality(S) /\ Y # {}
  BY DEF WithRemainder
<1>1. PICK x \in Nat : x = m * k /\ m <= x
  OBVIOUS
<1>2. IsFiniteSet(0..(x - 1))
  <2>1. 0 \in Int /\ x - 1 \in Int
    OBVIOUS
  <2> QED BY <2>1, FS_Interval
<1>3. IsFiniteSet(S)
  BY <1>1, <1>2, FS_Subset
<1> DEFINE f == [r \in S |-> r + v]
<1>4. ASSUME NEW r \in S PROVE r + v \in Y
  <2>1. r \in Nat /\ r < x /\ r % m = 0
    BY <1>1
  <2>2. PICK c \in Int : r = (m * c) + (r % m)
    <3>1. m \in Nat /\ m # 0 /\ r \in Int
      BY <2>1
    <3> QED BY <3>1, Division
  <2>3. r = m * c
    BY <2>1, <2>2
  <2>4. c < k
    <3>1. SUFFICES ASSUME c >= k PROVE FALSE
      OBVIOUS
    <3>2. m * c >= m * k
      <4>1. PICK e \in Nat : c = k + e
        <5>1. c - k \in Nat /\ c = k + (c - k)
          BY <3>1
        <5> QED BY <5>1
      <4>2. m * c = m * k + m * e /\ m * e \in Nat
        BY <4>1
      <4> QED BY <4>2
    <3> QED BY <1>1, <2>1, <2>3, <3>2
  <2>5. m * c + v < m * k
    <3>1. PICK e \in Nat : k = c + 1 + e
      <4>1. k - c - 1 \in Nat /\ k = c + 1 + (k - c - 1)
        BY <2>4
      <4> QED BY <4>1
    <3>2. m * k = m * c + m + m * e /\ m * e \in Nat
      BY <3>1
    <3> QED BY <3>2
  <2>6. ((m * c) + v) % m = v
    BY DivisionUnique
  <2>7. r + v \in 0..(m * k - 1)
    BY <1>1, <2>1, <2>3, <2>5
  <2> QED BY <2>3, <2>6, <2>7
<1>5. ASSUME NEW t \in Y PROVE \E r \in S : t = r + v
  <2>1. t \in Nat /\ t < x /\ t % m = v
    BY <1>1
  <2>2. PICK c \in Int : t = (m * c) + (t % m)
    <3>1. m \in Nat /\ m # 0 /\ t \in Int
      BY <2>1
    <3> QED BY <3>1, Division
  <2>3. t - v = (m * c) + 0 /\ 0 \in 0..(m - 1)
    BY <2>1, <2>2
  <2>4. (t - v) % m = 0
    BY <2>3, DivisionUnique
  <2>5. t - v >= 0
    <3>1. SUFFICES ASSUME m * c < 0 PROVE FALSE
      BY <2>3
    <3>2. c <= -1
      <4>1. SUFFICES ASSUME c >= 0 PROVE FALSE
        OBVIOUS
      <4>2. m * c >= 0
        BY <4>1
      <4> QED BY <3>1, <4>2
    <3>3. m * c <= -m
      <4>1. PICK e \in Nat : c = -e /\ e >= 1
        <5>1. -c \in Nat /\ c = -(-c) /\ -c >= 1
          BY <3>2
        <5> QED BY <5>1
      <4>2. PICK z \in Int : z = m * e
        OBVIOUS
      <4>3. z >= m
        BY <4>1, <4>2
      <4>4. m * c = -z
        BY <4>1, <4>2
      <4> QED BY <4>2, <4>3, <4>4
    <3> QED BY <2>1, <2>2, <3>3
  <2>6. t - v \in S /\ t = (t - v) + v
    <3>1. PICK w \in Int : w = t - v
      BY <2>1
    <3>2. w >= 0 /\ w <= t /\ w % m = 0 /\ t = w + v
      BY <2>1, <2>4, <2>5, <3>1
    <3>3. w \in 0..(m * k - 1)
      BY <1>1, <2>1, <3>2
    <3> QED BY <3>1, <3>2, <3>3
  <2> QED BY <2>6
<1>6. ExistsBijection(S, Y)
  <2>1. f \in [S -> Y]
    BY <1>4
  <2>2. \A r, t \in S : f[r] = f[t] => r = t
    OBVIOUS
  <2>3. \A t \in Y : \E r \in S : f[r] = t
    BY <1>5
  <2> HIDE DEF f
  <2> QED BY <2>1, <2>2, <2>3 DEF ExistsBijection, Bijection, Injection, IsInjective, Surjection
<1>7. v \in Y
  <2>2. v % m = v
    OBVIOUS
  <2>1. v \in 0..(m * k - 1)
    BY <1>1
  <2> QED BY <2>1, <2>2
<1> QED BY <1>3, <1>6, <1>7, FS_Bijection

\* For every bound above 0, all of the numbers below it are left by as many byte strings.
LEMMA AsManyStrings ==
  ASSUME NEW u \in Nat \ {0}, NEW v \in 0..(u - 1), NEW S, NEW Y,
         S = {r \in U!Drawn(u) : LET w == U!Shortened(r, u) IN w = 0 /\ U!Accepted(w, u)},
         Y = {r \in U!Drawn(u) : LET w == U!Shortened(r, u) IN w = v /\ U!Accepted(w, u)}
  PROVE  Cardinality(Y) = Cardinality(S) /\ Y # {}
<1>1. PICK m \in Nat \ {0} : m = 2^U!Bits(u)
  <2>1. 0 \in Nat
    OBVIOUS
  <2>2. 2^U!Bits(u) \in Nat \ {0}
    BY <2>1, ShortenedIs
  <2> QED BY <2>2
<1>2. PICK k \in Nat \ {0} : U!Drawn(u) = 0..(m * k - 1)
  BY <1>1, DrawnIs
<1>3. u < m
  BY <1>1, BitsOf DEF HasBits
<1>4. ASSUME NEW r \in U!Drawn(u) PROVE U!Shortened(r, u) = r % m
  <2>1. r \in Nat
    BY <1>2
  <2> QED BY <1>1, <2>1, ShortenedIs
<1>5. S = WithRemainder(m, k, 0) /\ Y = WithRemainder(m, k, v)
  <2>1. \A w : w = 0 \/ w = v => U!Accepted(w, u)
    BY DEF U!Accepted
  <2> QED BY <1>2, <1>4, <2>1 DEF WithRemainder
<1>6. v \in 0..(m - 1)
  BY <1>3
<1>7. /\ Cardinality(WithRemainder(m, k, v)) = Cardinality(WithRemainder(m, k, 0))
      /\ WithRemainder(m, k, v) # {}
  BY <1>6, AsManyRemainders
<1> QED BY <1>5, <1>7
-----------------------------------------------------------------------------
(* Numbers from a stream *)

\* The sums of the samplers are the sums of the schemes.
LEMMA SameSum == \A f : U!SumFunction(f) = SumFunctionOnSet(f, DOMAIN f)
BY DEF U!SumFunction, U!SumFunctionOnSet, SumFunctionOnSet,
       U!FoldFunctionOnSet, FoldFunctionOnSet, U!MapThenFoldSet, MapThenFoldSet

\* And they count as the schemes do.
LEMMA SameCardinality == \A S : U!Cardinality(S) = Cardinality(S)
BY DEF U!Cardinality, Cardinality

\* A number that is cut from a stream.
LEMMA ChunkType ==
  ASSUME NEW f, NEW a \in Nat, NEW n \in Nat, \A x \in 1..n : f[a + x] \in 0..1
  PROVE  U!Chunk(f, a, n) \in Nat
<1> DEFINE g == [x \in 1..n |-> f[a + x] * 2^(x - 1)]
           z == [x \in 1..n |-> 0]
<1>1. IsFiniteSet(1..n)
  BY FS_Interval
<1>2. ASSUME NEW x \in 1..n PROVE g[x] \in Int /\ z[x] \in Int /\ z[x] <= g[x]
  <2>1. x - 1 \in Nat /\ f[a + x] \in 0..1
    OBVIOUS
  <2>2. 2^(x - 1) \in Nat
    BY <2>1, TwoToNext
  <2>3. PICK y \in Nat : y = 2^(x - 1)
    BY <2>2
  <2>4. f[a + x] * y \in Nat
    <3>1. f[a + x] = 0 \/ f[a + x] = 1
      BY <2>1
    <3> QED BY <2>3, <3>1
  <2>5. g[x] = f[a + x] * y /\ z[x] = 0
    BY <2>3
  <2>6. PICK e \in Nat : e = f[a + x] * y
    BY <2>4
  <2>7. g[x] = e /\ z[x] = 0
    BY <2>5, <2>6
  <2> HIDE DEF g, z
  <2> QED BY <2>7
<1>3. U!Chunk(f, a, n) = SumFunctionOnSet(g, 1..n)
  <2>1. DOMAIN g = 1..n
    OBVIOUS
  <2>2. U!Chunk(f, a, n) = U!SumFunction(g)
    BY DEF U!Chunk
  <2> HIDE DEF g
  <2> QED BY <2>1, <2>2, SameSum
<1>4. \A x \in 1..n : z[x] = 0
  OBVIOUS
<1> HIDE DEF g, z
<1>5. SumFunctionOnSet(g, 1..n) \in Int
  BY <1>1, <1>2, SumIsInt
<1>6. SumFunctionOnSet(z, 1..n) = 0
  BY <1>1, <1>4, SumOfZeros
<1>7. SumFunctionOnSet(z, 1..n) <= SumFunctionOnSet(g, 1..n)
  BY <1>1, <1>2, SumMonotone
<1> QED BY <1>3, <1>5, <1>6, <1>7

\* It depends on its bits only.
LEMMA ChunkSame ==
  ASSUME NEW f, NEW k, NEW a \in Nat, NEW n \in Nat, \A x \in 1..n : f[a + x] = k[a + x]
  PROVE  U!Chunk(f, a, n) = U!Chunk(k, a, n)
<1>1. [x \in 1..n |-> f[a + x] * 2^(x - 1)] = [x \in 1..n |-> k[a + x] * 2^(x - 1)]
  OBVIOUS
<1> QED BY <1>1 DEF U!Chunk

\* Of the first k numbers in a stream, those below the bound, and a sequence of them.
Number(b, n, c) == U!Chunk(b, (c - 1) * n, n)
Below(b, max, n, k) == {c \in 1..k : Number(b, n, c) < max}
IsCut(b, max, n, k, seq) ==
  /\ seq \in Seq(0..(max - 1)) /\ Len(seq) = Cardinality(Below(b, max, n, k))
  /\ \A c \in Below(b, max, n, k) : seq[Cardinality(Below(b, max, n, k) \cap 1..c)] = Number(b, n, c)

\* The sequence has the first of them, as many as it is long.
IsStart(b, max, n, k, seq) ==
  /\ Cardinality(Below(b, max, n, k)) >= Len(seq)
  /\ \A c \in Below(b, max, n, k) :
       Cardinality(Below(b, max, n, k) \cap 1..c) <= Len(seq) =>
         seq[Cardinality(Below(b, max, n, k) \cap 1..c)] = Number(b, n, c)

\* Before the first number is cut, there is none.
LEMMA CutNothing ==
  ASSUME NEW b, NEW max, NEW n
  PROVE  IsCut(b, max, n, 0, <<>>)
<1>1. Below(b, max, n, 0) = {}
  BY DEF Below
<1>2. Cardinality({}) = 0
  BY FS_EmptySet
<1>3. <<>> \in Seq(0..(max - 1)) /\ Len(<<>>) = 0
  OBVIOUS
<1>4. \A c \in Below(b, max, n, 0) :
        <<>>[Cardinality(Below(b, max, n, 0) \cap 1..c)] = Number(b, n, c)
  BY <1>1
<1>5. Len(<<>>) = Cardinality(Below(b, max, n, 0))
  BY <1>1, <1>2, <1>3
<1> QED BY <1>3, <1>4, <1>5 DEF IsCut

\* The next number is appended when it is below the bound.
LEMMA CutNext ==
  ASSUME NEW b, NEW max \in Nat, NEW n \in Nat, NEW k \in Nat, NEW seq, IsCut(b, max, n, k, seq),
         NEW v \in Nat, v = Number(b, n, k + 1)
  PROVE  IsCut(b, max, n, k + 1, IF v < max THEN Append(seq, v) ELSE seq)
<1> DEFINE B == Below(b, max, n, k)
           C1 == Below(b, max, n, k + 1)
<1>1. IsFiniteSet(B) /\ Cardinality(B) \in Nat /\ k + 1 \notin B
  <2>1. IsFiniteSet(1..k) /\ B \in SUBSET (1..k)
    BY FS_Interval DEF Below
  <2>2. IsFiniteSet(B)
    BY <2>1, FS_Subset
  <2> QED BY <2>1, <2>2, FS_CardinalityType
<1>2. \A c \in B : c \in 1..k /\ C1 \cap 1..c = B \cap 1..c
  BY DEF Below
<1>3. CASE v < max
  <2>1. C1 = B \cup {k + 1}
    BY <1>3 DEF Below
  <2>2. Cardinality(C1) = Cardinality(B) + 1
    BY <1>1, <2>1, FS_AddElement
  <2>3. Append(seq, v) \in Seq(0..(max - 1)) /\ Len(Append(seq, v)) = Len(seq) + 1
        /\ Append(seq, v)[Len(seq) + 1] = v
    BY <1>3 DEF IsCut
  <2>4. ASSUME NEW c \in B PROVE Append(seq, v)[Cardinality(C1 \cap 1..c)] = Number(b, n, c)
    <3>1. PICK r : r = Cardinality(B \cap 1..c)
      OBVIOUS
    <3>2. r \in 1..Len(seq)
      <4>1. B \cap 1..c \in SUBSET B /\ c \in B \cap 1..c
        BY <1>2
      <4>2. IsFiniteSet(B \cap 1..c)
        BY <1>1, <4>1, FS_Subset
      <4>3. r <= Cardinality(B)
        BY <1>1, <3>1, <4>1, FS_Subset
      <4>4. r \in Nat /\ r # 0
        BY <3>1, <4>1, <4>2, FS_CardinalityType, FS_EmptySet
      <4>5. Len(seq) = Cardinality(B)
        BY DEF IsCut
      <4> HIDE DEF B
      <4> QED BY <1>1, <4>3, <4>4, <4>5
    <3>3. seq[r] = Number(b, n, c)
      BY <3>1 DEF IsCut
    <3>4. Append(seq, v)[r] = seq[r]
      BY <3>2 DEF IsCut
    <3>5. Cardinality(C1 \cap 1..c) = r
      BY <1>2, <3>1
    <3> QED BY <3>3, <3>4, <3>5
  <2>5. C1 \cap 1..(k + 1) = C1
    BY DEF Below
  <2>6. Append(seq, v)[Cardinality(C1 \cap 1..(k + 1))] = Number(b, n, k + 1)
    BY <2>2, <2>3, <2>5 DEF IsCut
  <2>7. Len(Append(seq, v)) = Cardinality(C1)
    BY <2>2, <2>3 DEF IsCut
  <2> QED BY <1>3, <2>1, <2>3, <2>4, <2>6, <2>7 DEF IsCut
<1>4. CASE ~(v < max)
  <2>1. C1 = B
    BY <1>4 DEF Below
  <2> QED BY <1>4, <2>1 DEF IsCut
<1> QED BY <1>3, <1>4

\* Later numbers do not change the first of those below the bound.
LEMMA CutOfMore ==
  ASSUME NEW b, NEW max, NEW n, NEW k \in Nat, NEW m \in Nat, k <= m,
         NEW seq, IsCut(b, max, n, k, seq)
  PROVE  IsStart(b, max, n, m, seq)
<1> DEFINE B == Below(b, max, n, k)
           C1 == Below(b, max, n, m)
<1>1. B \in SUBSET C1 /\ C1 \in SUBSET (1..m) /\ C1 \cap 1..k = B
  BY DEF Below
<1>2. IsFiniteSet(C1) /\ IsFiniteSet(B) /\ Cardinality(C1) \in Nat /\ Cardinality(B) \in Nat
      /\ Cardinality(B) <= Cardinality(C1)
  <2>1. IsFiniteSet(1..m)
    BY FS_Interval
  <2>2. IsFiniteSet(C1)
    BY <1>1, <2>1, FS_Subset
  <2> HIDE DEF B, C1
  <2> QED BY <1>1, <2>2, FS_Subset, FS_CardinalityType
<1>3. Len(seq) = Cardinality(B)
  BY DEF IsCut
<1>4. ASSUME NEW c \in C1, Cardinality(C1 \cap 1..c) <= Len(seq)
      PROVE  seq[Cardinality(C1 \cap 1..c)] = Number(b, n, c)
  <2>1. c <= k
    <3>1. SUFFICES ASSUME ~(c <= k) PROVE FALSE
      OBVIOUS
    <3>2. B \cup {c} \in SUBSET (C1 \cap 1..c) /\ c \notin B
      BY <3>1 DEF Below
    <3>3. IsFiniteSet(C1 \cap 1..c)
      BY <1>2, FS_Subset
    <3>4. Cardinality(B \cup {c}) = Cardinality(B) + 1
      BY <1>2, <3>2, FS_AddElement
    <3>5. Cardinality(B \cup {c}) <= Cardinality(C1 \cap 1..c)
      BY <3>2, <3>3, FS_Subset
    <3>6. Cardinality(C1 \cap 1..c) \in Nat
      BY <3>3, FS_CardinalityType
    <3> HIDE DEF B, C1
    <3> QED BY <1>2, <1>3, <1>4, <3>4, <3>5, <3>6
  <2>2. c \in B /\ C1 \cap 1..c = B \cap 1..c
    BY <2>1 DEF Below
  <2>3. seq[Cardinality(B \cap 1..c)] = Number(b, n, c)
    BY <2>2 DEF IsCut
  <2> HIDE DEF B, C1
  <2> QED BY <2>2, <2>3
<1>5. Cardinality(C1) >= Len(seq)
  <2> HIDE DEF B, C1
  <2> QED BY <1>2, <1>3
<1> QED BY <1>4, <1>5 DEF IsStart

-----------------------------------------------------------------------------
(* The sampler in the composition *)

\* A call for a number from a range, and one for a vector from a stream, of which k
\* numbers are read.  Read gives the bits of a round in the order in which they are read.
OnRange == \E a \in Ranges : call = [min |-> a[1], upper |-> a[2] - a[1]]
Read(b, c, r) == U!FromEnd(b, U!StreamLength(c[1], c[2], r))
OnStream ==
  \E c \in DetCalls, b \in Streams, r \in 3..MaxRounds, k \in Nat :
    /\ call = [size |-> c[1], max |-> c[2], stream |-> b]
    /\ more = [round |-> r, read |-> k * U!Bits(c[2])]
    /\ k * U!Bits(c[2]) <= U!StreamLength(c[1], c[2], r)
    /\ IsCut(Read(b, c, r), c[2], U!Bits(c[2]), k, got)

\* The number that a range gives.
FromRange == OnRange /\ \E w \in 0..(call.upper - 1) : got = <<w + call.min>>

SamplerInv ==
  /\ uniform \in {"off", "idle", "sample", "det", "done"}
  /\ uniform # "off" => normal = "off" /\ prime = "off"
  /\ uniform \in {"idle", "sample"} => got = <<>>
  /\ uniform = "sample" => OnRange
  /\ uniform = "det" => OnStream /\ Len(got) < call.size
  /\ uniform = "done" => FromRange \/ (OnStream /\ Len(got) = call.size)

\* A call for a vector, and its stream: there are bits for every round.
LEMMA StreamBits ==
  ASSUME NEW c \in DetCalls, NEW b \in Streams, NEW r \in 3..MaxRounds
  PROVE  /\ c[1] \in Nat \ {0} /\ c[2] \in Nat \ {0} /\ U!Bits(c[2]) \in Nat \ {0}
         /\ U!StreamLength(c[1], c[2], r) \in Nat
         /\ \A x \in 1..U!StreamLength(c[1], c[2], r) : b[x] \in 0..1
<1>1. /\ c[1] \in Nat \ {0} /\ c[2] \in Nat \ {0} /\ ByteBits \in Nat \ {0}
      /\ MaxRounds \in Nat /\ r \in Nat /\ r <= MaxRounds
  BY PartsAssumption DEF U!SamplerAssumption
<1>2. PICK n \in Nat \ {0} : n = U!Bits(c[2])
  BY <1>1, BitsOf
<1>3. PICK m \in Nat : m = n * c[1] /\ m >= 1
  <2>1. PICK z \in Nat \ {0} : z = c[1]
    BY <1>1
  <2>2. n * z \in Nat /\ n * z >= 1
    BY <1>2, <2>1
  <2> QED BY <2>1, <2>2
<1>4. PICK t \in Nat : t = ((m - 1) \div ByteBits) + 1
  BY <1>1, <1>3
<1>5. PICK e \in Nat : e = t * ByteBits
  BY <1>1, <1>4
<1>6. \A k \in Nat : U!StreamLength(c[1], c[2], k) = k * t * ByteBits
  BY <1>2, <1>3, <1>4 DEF U!StreamLength, U!Bytes
<1>7. ASSUME NEW k \in Nat PROVE k * t * ByteBits = k * e
  <2>1. PICK z \in Nat : z = ByteBits
    BY <1>1
  <2> QED BY <1>5, <2>1
<1>8. r * e \in Nat /\ r * e <= MaxRounds * e
  <2>1. PICK z \in Nat : MaxRounds = r + z
    <3>1. MaxRounds - r \in Nat /\ MaxRounds = r + (MaxRounds - r)
      BY <1>1
    <3> QED BY <3>1
  <2>2. MaxRounds * e = r * e + z * e /\ z * e \in Nat /\ r * e \in Nat
    BY <1>1, <2>1
  <2> QED BY <2>2
<1>9. U!StreamLength(c[1], c[2], r) \in Nat
      /\ U!StreamLength(c[1], c[2], r) <= U!StreamLength(c[1], c[2], MaxRounds)
      /\ U!StreamLength(c[1], c[2], MaxRounds) \in Nat
  BY <1>1, <1>6, <1>7, <1>8
<1>10. \A x \in 1..U!StreamLength(c[1], c[2], MaxRounds) : b[x] \in 0..1
  BY PartsAssumption DEF U!SamplerAssumption
<1> QED BY <1>1, <1>2, <1>9, <1>10

\* The bits of a round are bits.
LEMMA ReadBits ==
  ASSUME NEW l \in Nat, NEW b, \A x \in 1..l : b[x] \in 0..1
  PROVE  \A x \in 1..l : U!FromEnd(b, l)[x] \in 0..1
<1> SUFFICES ASSUME NEW x \in 1..l PROVE U!FromEnd(b, l)[x] \in 0..1
  OBVIOUS
<1>1. l + 1 - x \in 1..l
  OBVIOUS
<1> QED BY <1>1 DEF U!FromEnd

\* Calls.
LEMMA CallStep ==
  ASSUME SamplerInv, UNCHANGED <<normal, prime>>,
         \/ \E r \in Ranges : U!CallRange(r[1], r[2])
         \/ \E c \in DetCalls, b \in Streams : U!CallDet(c[1], c[2], b)
  PROVE  SamplerInv'
<1>1. ASSUME NEW r \in Ranges, U!CallRange(r[1], r[2]) PROVE SamplerInv'
  <2>1. /\ uniform = "idle" /\ uniform' = "sample" /\ got' = <<>>
        /\ call' = [min |-> r[1], upper |-> r[2] - r[1]]
    BY <1>1 DEF U!CallRange, SamplerInv
  <2>2. OnRange'
    BY <2>1 DEF OnRange
  <2> QED BY <2>1, <2>2 DEF SamplerInv
<1>2. ASSUME NEW c \in DetCalls, NEW b \in Streams, U!CallDet(c[1], c[2], b) PROVE SamplerInv'
  <2>1. /\ uniform = "idle" /\ uniform' = "det" /\ got' = <<>>
        /\ call' = [size |-> c[1], max |-> c[2], stream |-> b]
        /\ more' = [round |-> 3, read |-> 0]
    BY <1>2 DEF U!CallDet
  <2>2. 3 \in 3..MaxRounds
    BY PartsAssumption DEF U!SamplerAssumption
  <2>3. /\ c[1] \in Nat \ {0} /\ U!Bits(c[2]) \in Nat \ {0} /\ U!StreamLength(c[1], c[2], 3) \in Nat
    BY <2>2, StreamBits
  <2>4. 0 * U!Bits(c[2]) = 0 /\ 0 <= U!StreamLength(c[1], c[2], 3) /\ 0 \in Nat
    BY <2>3
  <2>5. IsCut(Read(b, c, 3), c[2], U!Bits(c[2]), 0, got')
    BY <2>1, CutNothing
  <2>6. OnStream'
    BY <2>1, <2>2, <2>4, <2>5 DEF OnStream
  <2>7. Len(got') < call'.size
    BY <2>1, <2>3
  <2> QED BY <2>1, <2>6, <2>7 DEF SamplerInv
<1> QED BY <1>1, <1>2

\* A number is drawn.
LEMMA DrawStep ==
  ASSUME SamplerInv, UNCHANGED <<normal, prime>>,
         uniform = "sample", NEW r \in U!Drawn(call.upper), U!Draw(r)
  PROVE  SamplerInv'
<1>1. PICK a \in Ranges : call = [min |-> a[1], upper |-> a[2] - a[1]]
  BY DEF SamplerInv, OnRange
<1>2. PICK u \in Int : u = call.upper
  <2>1. a[1] \in Int /\ a[2] \in Int
    BY PartsAssumption DEF U!SamplerAssumption
  <2> QED BY <1>1, <2>1
<1>3. PICK v : v = U!Shortened(r, u)
  OBVIOUS
<1>4. v \in Nat
  <2>1. PICK k \in Nat \ {0} : U!Drawn(u) = 0..(2^U!Bits(u) * k - 1)
    BY DrawnIs
  <2>2. r \in Nat
    BY <1>2, <2>1
  <2>3. v = r % 2^U!Bits(u) /\ 2^U!Bits(u) \in Nat \ {0}
    BY <1>3, <2>2, ShortenedIs
  <2>4. PICK m \in Nat \ {0} : m = 2^U!Bits(u)
    BY <2>3
  <2>5. r % m \in 0..(m - 1)
    BY <2>2, <2>4
  <2> QED BY <2>3, <2>4, <2>5
<1>5. call' = call /\ more' = more
  BY DEF U!Draw
<1>6. CASE v < u
  <2>1. uniform' = "done" /\ got' = <<v + call.min>>
    BY <1>2, <1>3, <1>6 DEF U!Draw, U!Accepted
  <2>2. v \in 0..(call'.upper - 1) /\ got' = <<v + call'.min>>
    BY <1>2, <1>4, <1>5, <1>6, <2>1
  <2>3. FromRange'
    BY <1>1, <1>5, <2>2 DEF FromRange, OnRange
  <2> QED BY <2>1, <2>3 DEF SamplerInv
<1>7. CASE ~(v < u)
  <2>1. uniform' = uniform /\ got' = got
    BY <1>2, <1>3, <1>7 DEF U!Draw, U!Accepted
  <2>2. OnRange'
    BY <1>1, <1>5 DEF OnRange
  <2> QED BY <2>1, <2>2 DEF SamplerInv
<1> QED BY <1>6, <1>7

\* A number is cut from the stream.
LEMMA ChunkStep ==
  ASSUME SamplerInv, UNCHANGED <<normal, prime>>, U!NextChunk
  PROVE  SamplerInv'
<1>1. uniform = "det" /\ OnStream /\ Len(got) < call.size /\ call' = call
  BY DEF SamplerInv, U!NextChunk
<1>2. PICK c \in DetCalls, b \in Streams, r \in 3..MaxRounds, k \in Nat :
        /\ call = [size |-> c[1], max |-> c[2], stream |-> b]
        /\ more = [round |-> r, read |-> k * U!Bits(c[2])]
        /\ k * U!Bits(c[2]) <= U!StreamLength(c[1], c[2], r)
        /\ IsCut(Read(b, c, r), c[2], U!Bits(c[2]), k, got)
  BY <1>1 DEF OnStream
<1>3. /\ c[1] \in Nat \ {0} /\ c[2] \in Nat \ {0} /\ U!Bits(c[2]) \in Nat \ {0}
      /\ U!StreamLength(c[1], c[2], r) \in Nat
      /\ \A x \in 1..U!StreamLength(c[1], c[2], r) : b[x] \in 0..1
  BY StreamBits
<1>4. PICK n \in Nat \ {0} : n = U!Bits(c[2])
  BY <1>3
<1>5. PICK l \in Nat : l = U!StreamLength(c[1], c[2], r)
  BY <1>3
<1>6. PICK a \in Nat : a = k * n
  OBVIOUS
<1>0. PICK ds : ds = Read(b, c, r)
  OBVIOUS
<1>7. more.read = a /\ more.round = r /\ call.max = c[2] /\ call.size = c[1] /\ call.stream = b
  BY <1>2, <1>4, <1>6
<1>8. U!Length(r) = l /\ a <= l - n
  BY <1>4, <1>5, <1>7 DEF U!NextChunk, U!HasChunk, U!Length
<1>9. \A x \in 1..n : U!BitsOfRound[a + x] = ds[a + x] /\ ds[a + x] \in 0..1
  <2>1. \A x \in 1..n : a + x \in 1..l
    BY <1>8
  <2>2. ds = U!FromEnd(b, l)
    BY <1>0, <1>5 DEF Read
  <2>3. U!BitsOfRound = [x \in 1..(l + n) |-> IF x <= l THEN ds[x] ELSE 0]
    BY <1>4, <1>7, <1>8, <2>2 DEF U!BitsOfRound
  <2>4. \A x \in 1..l : ds[x] \in 0..1
    BY <1>3, <1>5, <2>2, ReadBits
  <2> QED BY <2>1, <2>3, <2>4
<1>10. PICK v \in Nat : v = U!Chunk(U!BitsOfRound, a, n) /\ v = Number(ds, n, k + 1)
  <2>1. U!Chunk(U!BitsOfRound, a, n) = U!Chunk(ds, a, n)
    <3>1. PICK f : f = U!BitsOfRound
      OBVIOUS
    <3>2. \A x \in 1..n : f[a + x] = ds[a + x]
      BY <1>9, <3>1
    <3>3. U!Chunk(f, a, n) = U!Chunk(ds, a, n)
      BY <3>2, ChunkSame
    <3> QED BY <3>1, <3>3
  <2>2. U!Chunk(ds, a, n) \in Nat
    BY <1>9, ChunkType
  <2>3. ((k + 1) - 1) * n = a
    BY <1>6
  <2> QED BY <2>1, <2>2, <2>3 DEF Number
<1>11. got' = IF v < c[2] THEN Append(got, v) ELSE got
  BY <1>4, <1>7, <1>10 DEF U!NextChunk, U!Accepted
<1>12. more' = [round |-> r, read |-> (k + 1) * n]
  <2>1. more' = [more EXCEPT !.read = @ + U!Bits(call.max)]
    BY DEF U!NextChunk
  <2>2. more' = [round |-> r, read |-> a + n]
    BY <1>2, <1>4, <1>6, <1>7, <2>1
  <2>3. a + n = (k + 1) * n
    BY <1>6
  <2> QED BY <2>2, <2>3
<1>13. IsCut(ds, c[2], n, k + 1, got')
  <2>1. IsCut(ds, c[2], n, k, got) /\ c[2] \in Nat
    BY <1>0, <1>2, <1>3, <1>4
  <2>2. IsCut(ds, c[2], n, k + 1, IF v < c[2] THEN Append(got, v) ELSE got)
    BY <1>10, <2>1, CutNext
  <2> QED BY <1>11, <2>2
<1>14. (k + 1) * n <= l
  BY <1>6, <1>8
<1>15. OnStream'
  <2>1. k + 1 \in Nat /\ call' = [size |-> c[1], max |-> c[2], stream |-> b]
    BY <1>1, <1>2
  <2>2. /\ more' = [round |-> r, read |-> (k + 1) * U!Bits(c[2])]
        /\ (k + 1) * U!Bits(c[2]) <= U!StreamLength(c[1], c[2], r)
        /\ IsCut(Read(b, c, r), c[2], U!Bits(c[2]), k + 1, got')
    BY <1>0, <1>4, <1>5, <1>12, <1>13, <1>14
  <2>3. PICK e \in Nat : e = k + 1
    BY <2>1
  <2>4. /\ more' = [round |-> r, read |-> e * U!Bits(c[2])]
        /\ e * U!Bits(c[2]) <= U!StreamLength(c[1], c[2], r)
        /\ IsCut(Read(b, c, r), c[2], U!Bits(c[2]), e, got')
    BY <2>2, <2>3
  <2> QED BY <2>1, <2>4 DEF OnStream
<1>16. uniform' = IF Len(got') = call.size THEN "done" ELSE "det"
  BY DEF U!NextChunk
<1>17. Len(got') <= call'.size /\ Len(got') \in Nat /\ call'.size \in Nat
  <2>1. got \in Seq(0..(c[2] - 1))
    BY <1>2 DEF IsCut
  <2>2. Len(Append(got, v)) = Len(got) + 1 /\ Len(got) \in Nat
    BY <2>1
  <2>3. Len(got') = Len(got) \/ Len(got') = Len(got) + 1
    BY <1>11, <2>2
  <2> QED BY <1>1, <1>3, <1>7, <2>2, <2>3
<1> QED BY <1>1, <1>15, <1>16, <1>17 DEF SamplerInv

\* A longer stream is taken.
LEMMA LongerStep ==
  ASSUME SamplerInv, UNCHANGED <<normal, prime>>, U!LongerStream
  PROVE  SamplerInv'
<1>1. /\ uniform = "det" /\ OnStream /\ call' = call /\ uniform' = uniform
      /\ more.round < MaxRounds /\ more' = [round |-> more.round + 1, read |-> 0] /\ got' = <<>>
  BY DEF SamplerInv, U!LongerStream
<1>2. PICK c \in DetCalls, b \in Streams, r \in 3..MaxRounds, k \in Nat :
        /\ call = [size |-> c[1], max |-> c[2], stream |-> b]
        /\ more = [round |-> r, read |-> k * U!Bits(c[2])]
        /\ k * U!Bits(c[2]) <= U!StreamLength(c[1], c[2], r)
        /\ IsCut(Read(b, c, r), c[2], U!Bits(c[2]), k, got)
  BY <1>1 DEF OnStream
<1>3. PICK m \in 3..MaxRounds : m = r + 1
  <2>1. MaxRounds \in Nat /\ r < MaxRounds
    BY <1>1, <1>2, PartsAssumption DEF U!SamplerAssumption
  <2>2. r + 1 \in 3..MaxRounds
    BY <2>1
  <2> QED BY <2>2
<1>4. /\ c[1] \in Nat \ {0} /\ U!Bits(c[2]) \in Nat \ {0} /\ U!StreamLength(c[1], c[2], m) \in Nat
  BY StreamBits
<1>5. 0 * U!Bits(c[2]) = 0 /\ 0 <= U!StreamLength(c[1], c[2], m) /\ 0 \in Nat
  BY <1>4
<1>6. IsCut(Read(b, c, m), c[2], U!Bits(c[2]), 0, got')
  BY <1>1, CutNothing
<1>7. more' = [round |-> m, read |-> 0]
  BY <1>1, <1>2, <1>3
<1>8. OnStream'
  BY <1>1, <1>2, <1>5, <1>6, <1>7 DEF OnStream
<1>9. Len(got') < call'.size
  BY <1>1, <1>2, <1>4
<1> QED BY <1>1, <1>8, <1>9 DEF SamplerInv

\* Every step of the composition keeps the invariant.
LEMMA SamplerStep == SamplerInv /\ [OneNext]_all => SamplerInv'
<1> SUFFICES ASSUME SamplerInv, [OneNext]_all PROVE SamplerInv'
  OBVIOUS
<1>1. ASSUME UNCHANGED <<uniform, normal, prime, call, got, more>> PROVE SamplerInv'
  <2>1. OnRange' <=> OnRange
    BY <1>1 DEF OnRange
  <2>2. OnStream' <=> OnStream
    BY <1>1 DEF OnStream
  <2>3. FromRange' <=> FromRange
    BY <1>1, <2>1 DEF FromRange
  <2> QED BY <1>1, <2>1, <2>2, <2>3 DEF SamplerInv
<1>2. CASE UNCHANGED all
  BY <1>1, <1>2 DEF all
<1>3. CASE Next /\ UNCHANGED <<uniform, normal, prime, call, got, more, error>>
  BY <1>1, <1>3
<1>4. CASE U!Next /\ UNCHANGED <<vars, normal, prime, error>>
  <2>1. CASE U!Return
    <3>1. uniform' = "idle" /\ got' = <<>> /\ uniform = "done" /\ normal' = normal /\ prime' = prime
      BY <1>4, <2>1 DEF U!Return
    <3> QED BY <3>1 DEF SamplerInv
  <2>2. UNCHANGED <<normal, prime>>
    BY <1>4
  <2>3. CASE \/ \E r \in Ranges : U!CallRange(r[1], r[2])
             \/ \E c \in DetCalls, b \in Streams : U!CallDet(c[1], c[2], b)
    BY <2>2, <2>3, CallStep
  <2>4. CASE uniform = "sample" /\ \E r \in U!Drawn(call.upper) : U!Draw(r)
    BY <2>2, <2>4, DrawStep
  <2>5. CASE U!NextChunk
    BY <2>2, <2>5, ChunkStep
  <2>6. CASE U!LongerStream
    BY <2>2, <2>6, LongerStep
  <2> QED BY <1>4, <2>1, <2>3, <2>4, <2>5, <2>6 DEF U!Next
<1>5. CASE N!Next /\ UNCHANGED <<vars, uniform, prime, more, error>>
  <2>1. normal # "off"
    BY <1>5 DEF N!Next, N!Call, N!Return
  <2>2. uniform = "off" /\ uniform' = "off"
    BY <1>5, <2>1 DEF SamplerInv
  <2> QED BY <2>2 DEF SamplerInv
<1>6. CASE P!Next /\ UNCHANGED <<vars, uniform, normal>>
  <2>1. prime # "off"
    BY <1>6 DEF P!Next, P!Call, P!Return, P!SearchPrime, P!SearchGenerator
  <2>2. uniform = "off" /\ uniform' = "off"
    BY <1>6, <2>1 DEF SamplerInv
  <2> QED BY <2>2 DEF SamplerInv
<1> QED BY <1>2, <1>3, <1>4, <1>5, <1>6 DEF OneNext

\* It holds at first.
LEMMA SamplerStarts == OneInit => SamplerInv
BY DEF OneInit, U!Init, UniformOff, NormalOff, PrimeOff, SamplerInv

\* The invariant of the sampler holds in every state.
LEMMA SamplerInvariance == OneSpec => []SamplerInv
BY SamplerStarts, SamplerStep, PTL DEF OneSpec

\* As many byte strings are accepted for one number of the range as for any other, for
\* every range and every length of a byte, and what is returned lies in the range
\* (uniform.c:26-64, uniform.h:30).
THEOREM UniformNumbers == OneSpec => []Uniform
<1>1. SamplerInv => Uniform
  <2> SUFFICES ASSUME SamplerInv, uniform # "off" PROVE U!Uniform /\ U!InRange
    BY DEF Uniform
  <2>1. U!Uniform
    <3> DEFINE Strings(v) == {r \in U!Drawn(call.upper) :
                                LET w == U!Shortened(r, call.upper)
                                IN  w = v /\ U!Accepted(w, call.upper)}
    <3> SUFFICES ASSUME uniform = "sample", call.upper > 0, NEW v \in 0..(call.upper - 1)
                 PROVE  Cardinality(Strings(v)) = Cardinality(Strings(0)) /\ Strings(v) # {}
      BY SameCardinality DEF U!Uniform
    <3>1. PICK a \in Ranges : call = [min |-> a[1], upper |-> a[2] - a[1]]
      BY DEF SamplerInv, OnRange
    <3>2. call.upper \in Int
      <4>1. a[1] \in Int /\ a[2] \in Int
        BY PartsAssumption DEF U!SamplerAssumption
      <4> QED BY <3>1, <4>1
    <3>3. PICK u \in Nat \ {0} : u = call.upper
      BY <3>2
    <3>4. v \in 0..(u - 1)
      BY <3>3
    <3>5. PICK S : S = {r \in U!Drawn(u) : LET w == U!Shortened(r, u) IN w = 0 /\ U!Accepted(w, u)}
      OBVIOUS
    <3>6. PICK Y : Y = {r \in U!Drawn(u) : LET w == U!Shortened(r, u) IN w = v /\ U!Accepted(w, u)}
      OBVIOUS
    <3>7. Cardinality(Y) = Cardinality(S) /\ Y # {}
      BY <3>4, <3>5, <3>6, AsManyStrings
    <3>8. Strings(0) = S /\ Strings(v) = Y
      BY <3>3, <3>5, <3>6
    <3> HIDE DEF Strings
    <3> QED BY <3>7, <3>8
  <2>2. U!InRange
    <3> SUFFICES ASSUME uniform = "done", NEW x \in DOMAIN got
                 PROVE  IF "upper" \in DOMAIN call THEN got[x] \in call.min..(call.min + call.upper - 1)
                        ELSE got[x] \in 0..(call.max - 1)
      BY DEF U!InRange
    <3>1. CASE FromRange
      <4>1. PICK a \in Ranges : call = [min |-> a[1], upper |-> a[2] - a[1]]
        BY <3>1 DEF FromRange, OnRange
      <4>2. a[1] \in Int /\ a[2] \in Int
        BY PartsAssumption DEF U!SamplerAssumption
      <4>3. PICK w \in 0..(call.upper - 1) : got = <<w + call.min>>
        BY <3>1 DEF FromRange
      <4>4. x = 1 /\ "upper" \in DOMAIN call /\ call.min \in Int /\ call.upper \in Int
        BY <4>1, <4>2, <4>3
      <4> QED BY <4>3, <4>4
    <3>2. CASE OnStream
      <4>1. PICK c \in DetCalls, b \in Streams, r \in 3..MaxRounds, k \in Nat :
              /\ call = [size |-> c[1], max |-> c[2], stream |-> b]
              /\ IsCut(Read(b, c, r), c[2], U!Bits(c[2]), k, got)
        BY <3>2 DEF OnStream
      <4>2. PICK S : S = 0..(c[2] - 1)
        OBVIOUS
      <4>3. got \in Seq(S)
        BY <4>1, <4>2 DEF IsCut
      <4>4. got[x] \in S
        BY <4>3
      <4>5. "upper" \notin DOMAIN call /\ call.max = c[2]
        BY <4>1
      <4> QED BY <4>2, <4>4, <4>5
    <3> QED BY <3>1, <3>2 DEF SamplerInv
  <2> QED BY <2>1, <2>2
<1> QED BY <1>1, SamplerInvariance, PTL

\* A vector from a key is made of the first numbers below the bound in the stream of its
\* last round, for every stream, size and bound (uniform.c:127-140).
THEOREM VectorsCutFromStreams == OneSpec => []CutFromStream
<1>1. SamplerInv => CutFromStream
  <2> SUFFICES ASSUME SamplerInv, uniform = "done", "stream" \in DOMAIN call
               PROVE  U!CutFromStream
    BY DEF CutFromStream, U!CutFromStream
  <2>1. ~FromRange
    BY DEF FromRange, OnRange
  <2>2. OnStream /\ Len(got) = call.size
    BY <2>1 DEF SamplerInv
  <2>3. PICK c \in DetCalls, b \in Streams, r \in 3..MaxRounds, k \in Nat :
          /\ call = [size |-> c[1], max |-> c[2], stream |-> b]
          /\ more = [round |-> r, read |-> k * U!Bits(c[2])]
          /\ k * U!Bits(c[2]) <= U!StreamLength(c[1], c[2], r)
          /\ IsCut(Read(b, c, r), c[2], U!Bits(c[2]), k, got)
    BY <2>2 DEF OnStream
  <2>4. PICK n \in Nat \ {0} : n = U!Bits(c[2])
    BY StreamBits
  <2>5. PICK l \in Nat : l = U!StreamLength(c[1], c[2], r)
    BY StreamBits
  <2>0. PICK ds : ds = Read(b, c, r)
    OBVIOUS
  <2>6. PICK m \in Nat : m = l \div n
    BY <2>4, <2>5
  <2>7. k <= m
    <3>1. k * n <= l
      BY <2>3, <2>4, <2>5
    <3>2. l < n * (m + 1)
      BY <2>6
    <3>3. SUFFICES ASSUME k >= m + 1 PROVE FALSE
      OBVIOUS
    <3>4. PICK e \in Nat : k = (m + 1) + e
      <4>1. k - (m + 1) \in Nat /\ k = (m + 1) + (k - (m + 1))
        BY <3>3
      <4> QED BY <4>1
    <3>5. k * n = n * (m + 1) + e * n /\ e * n \in Nat
      BY <3>4
    <3> QED BY <3>1, <3>2, <3>5
  <2>8. /\ Cardinality(Below(ds, c[2], n, m)) >= Len(got)
        /\ \A x \in Below(ds, c[2], n, m) :
             Cardinality(Below(ds, c[2], n, m) \cap 1..x) <= Len(got) =>
               got[Cardinality(Below(ds, c[2], n, m) \cap 1..x)] = Number(ds, n, x)
    <3>1. IsCut(ds, c[2], n, k, got)
      BY <2>0, <2>3, <2>4
    <3>2. IsStart(ds, c[2], n, m, got)
      BY <2>7, <3>1, CutOfMore
    <3> QED BY <3>2 DEF IsStart
  <2>9. call.max = c[2] /\ call.size = c[1] /\ call.stream = b /\ more.round = r /\ U!Length(r) = l
    BY <2>3, <2>5 DEF U!Length
  <2>15. ds = U!FromEnd(call.stream, U!Length(more.round))
    BY <2>0, <2>5, <2>9 DEF Read
  <2>10. U!Length(more.round) \div U!Bits(call.max) = m /\ U!Bits(call.max) = n
    BY <2>4, <2>6, <2>9
  <2>11. Below(ds, c[2], n, m)
           = {x \in 1..(U!Length(more.round) \div U!Bits(call.max)) :
                U!Chunk(U!FromEnd(call.stream, U!Length(more.round)), (x - 1) * U!Bits(call.max), U!Bits(call.max)) < call.max}
    BY <2>9, <2>10, <2>15 DEF Below, Number
  <2>12. \A x : Number(ds, n, x) = U!Chunk(U!FromEnd(call.stream, U!Length(more.round)), (x - 1) * U!Bits(call.max), U!Bits(call.max))
    BY <2>9, <2>10, <2>15 DEF Number
  <2>13. PICK B : B = Below(ds, c[2], n, m)
    OBVIOUS
  <2>14. /\ Cardinality(B) >= call.size /\ Len(got) = call.size
         /\ \A x \in B : Cardinality(B \cap 1..x) <= call.size =>
              got[Cardinality(B \cap 1..x)]
                = U!Chunk(U!FromEnd(call.stream, U!Length(more.round)), (x - 1) * U!Bits(call.max), U!Bits(call.max))
    BY <2>2, <2>8, <2>12, <2>13
  <2> QED BY <2>11, <2>13, <2>14, SameCardinality DEF U!CutFromStream
<1> QED BY <1>1, SamplerInvariance, PTL
=============================================================================
