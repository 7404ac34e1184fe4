------------------------- MODULE Decentralised_proofs -------------------------
(***************************************************************************)
(* Proofs about the inner-product schemes of several clients, for any      *)
(* number of clients, group, matrices that elements are expanded to, and   *)
(* order and number of the calls: the shares of zero cancel, and whatever  *)
(* belongs together decrypts to the sum of the inner products; first of    *)
(* the schemes without an authority, then of those with one, and of the    *)
(* composition in which the two take turns.                                *)
(***************************************************************************)
EXTENDS MCMultiInput, SchemeLemmas

-----------------------------------------------------------------------------
(* Sums over pairs of clients, and bags *)

\* Numbers that two clients count with opposite signs are zero together.
LEMMA SumAntisymmetric ==
  ASSUME NEW S, NEW t, NEW r, IsFiniteSet(S),
         \A i, k \in S : t[i][k] \in Int /\ t[k][i] = -(t[i][k]),
         \A i \in S : r[i] = SumFunctionOnSet(t[i], S)
  PROVE  SumFunctionOnSet(r, S) = 0
<1> DEFINE b == [k \in S |-> [i \in S |-> t[i][k]]]
           c == [k \in S |-> SumFunctionOnSet(b[k], S)]
<1>1. SumFunctionOnSet(r, S) = SumFunctionOnSet(c, S)
  <2>1. AreRowSums(c, b, S, S)
    BY DEF AreRowSums
  <2>2. AreTransposed(t, b, S, S)
    BY DEF AreTransposed
  <2>3. AreRowSums(r, t, S, S)
    BY DEF AreRowSums
  <2> HIDE DEF b, c
  <2> QED BY <2>1, <2>2, <2>3, SumExchange
<1>2. \A i \in S : r[i] \in Int
  <2> TAKE i \in S
  <2>1. \A k \in S : t[i][k] \in Int
    OBVIOUS
  <2> QED BY <2>1, SumIsInt
<1>3. \A k \in S : c[k] = (-1) * r[k]
  <2> TAKE k \in S
  <2>1. \A i \in S : t[k][i] \in Int /\ b[k][i] = (-1) * t[k][i]
    OBVIOUS
  <2>2. c[k] = SumFunctionOnSet(b[k], S) /\ r[k] = SumFunctionOnSet(t[k], S)
    OBVIOUS
  <2> HIDE DEF b, c
  <2>3. SumFunctionOnSet(b[k], S) = (-1) * SumFunctionOnSet(t[k], S)
    <3>1. -1 \in Int
      OBVIOUS
    <3> QED BY <2>1, <3>1, SumScaled
  <2> QED BY <2>2, <2>3
<1> HIDE DEF b, c
<1>4. SumFunctionOnSet(c, S) = (-1) * SumFunctionOnSet(r, S)
  <2>1. -1 \in Int
    OBVIOUS
  <2> QED BY <1>2, <1>3, <2>1, SumScaled
<1>5. SumFunctionOnSet(r, S) \in Int
  BY <1>2, SumIsInt
<1> QED BY <1>1, <1>4, <1>5

\* What an element that is put into a bag changes.
LEMMA PutIntoBag ==
  ASSUME NEW B, NEW e, IsABag(B)
  PROVE  /\ IsABag(B (+) SetToBag({e}))
         /\ BagToSet(B (+) SetToBag({e})) = BagToSet(B) \cup {e}
         /\ \A x : /\ Copies(x, B) \in Int
                   /\ Copies(x, B (+) SetToBag({e})) = Copies(x, B) + IF x = e THEN 1 ELSE 0
<1> DEFINE C == B (+) SetToBag({e})
<1>1. DOMAIN C = DOMAIN B \cup {e} /\ BagToSet(C) = BagToSet(B) \cup {e}
  BY DEF (+), SetToBag, BagToSet
<1>2. \A x \in DOMAIN B : B[x] \in Nat /\ B[x] > 0
  BY DEF IsABag
<1>3. \A x \in DOMAIN C : C[x] = (IF x \in DOMAIN B THEN B[x] ELSE 0) + (IF x = e THEN 1 ELSE 0)
  BY DEF (+), SetToBag
<1>4. \A x \in DOMAIN C : C[x] \in Nat /\ C[x] > 0
  BY <1>1, <1>2, <1>3
<1>5. C = [x \in DOMAIN C |-> C[x]]
  BY DEF (+)
<1>6. \A x : Copies(x, C) = IF x \in DOMAIN C THEN C[x] ELSE 0
  BY DEF Copies, BagIn, BagToSet
<1>7. \A x : Copies(x, B) = IF x \in DOMAIN B THEN B[x] ELSE 0
  BY DEF Copies, BagIn, BagToSet
<1> HIDE DEF C
<1>8. IsABag(C)
  BY <1>4, <1>5 DEF IsABag
<1>9. ASSUME NEW x
      PROVE  Copies(x, B) \in Int /\ Copies(x, C) = Copies(x, B) + IF x = e THEN 1 ELSE 0
  <2>1. CASE x \in DOMAIN C
    BY <1>1, <1>2, <1>3, <1>6, <1>7, <2>1
  <2>2. CASE x \notin DOMAIN C
    BY <1>1, <1>6, <1>7, <2>2
  <2> QED BY <2>1, <2>2
<1> QED BY <1>1, <1>8, <1>9 DEF C

\* The bag that a client starts with.
LEMMA NothingInBag ==
  IsABag(EmptyBag) /\ BagToSet(EmptyBag) = {} /\ \A x : Copies(x, EmptyBag) = 0
BY DEF IsABag, EmptyBag, SetToBag, BagToSet, Copies, BagIn

-----------------------------------------------------------------------------
(* Shares as functions of what was used *)

\* The shares z of an instance: matrices of elements for every element.
IsSharing(z) ==
  /\ z.n \in Nat \ {0} /\ z.order \in Nat \ {0}
  /\ \A e \in Elements(z) : IsShare(z, z.pad[e])

\* The clients and elements are finite sets, and what an element adds is a number, with
\* opposite signs for the two clients that share it.
LEMMA SharingFacts ==
  ASSUME NEW z, IsSharing(z)
  PROVE  /\ IsFiniteSet(Clients(z)) /\ IsFiniteSet(Elements(z)) /\ 0 \in Elements(z)
         /\ \A i, k \in Clients(z), e \in Elements(z), r \in Rows(z), c \in Cols(z) :
              /\ SignedPad(z, i, k, e, r, c) \in Int
              /\ i # k => SignedPad(z, k, i, e, r, c) = -SignedPad(z, i, k, e, r, c)
<1>1. z.n \in Nat /\ z.order \in Nat /\ z.order # 0
  BY DEF IsSharing
<1>2. IsFiniteSet(Clients(z)) /\ IsFiniteSet(Elements(z)) /\ 0 \in Elements(z)
  <2>1. PICK n \in Int, m \in Int : n = z.n - 1 /\ m = z.order - 1 /\ m >= 0
    BY <1>1
  <2>2. IsFiniteSet(0..n) /\ IsFiniteSet(0..m)
    BY FS_Interval
  <2>3. 0 \in 0..m
    BY <2>1
  <2> QED BY <2>1, <2>2, <2>3 DEF Clients, Elements
<1>3. ASSUME NEW i \in Clients(z), NEW k \in Clients(z), NEW e \in Elements(z),
             NEW r \in Rows(z), NEW c \in Cols(z)
      PROVE  /\ SignedPad(z, i, k, e, r, c) \in Int
             /\ i # k => SignedPad(z, k, i, e, r, c) = -SignedPad(z, i, k, e, r, c)
  <2>1. z.pad[e] \in [Rows(z) -> [Cols(z) -> Elements(z)]]
    BY DEF IsSharing, IsShare
  <2>2. z.pad[e][r][c] \in Elements(z)
    BY <2>1
  <2>3. z.pad[e][r][c] \in Int
    BY <1>1, <2>2 DEF Elements
  <2>4. i \in Int /\ k \in Int
    BY <1>1 DEF Clients
  <2>5. PICK p \in Int : p = z.pad[e][r][c]
    BY <2>3
  <2> QED BY <2>4, <2>5 DEF SignedPad
<1> QED BY <1>2, <1>3

\* Weights are numbers, zero for an empty bag, and one more element adds its matrix.
LEMMA WeightFacts ==
  ASSUME NEW z, IsSharing(z), NEW i \in Clients(z), NEW k \in Clients(z), NEW B, IsABag(B),
         NEW r \in Rows(z), NEW c \in Cols(z)
  PROVE  /\ Weight(z, i, k, B, r, c) \in Int
         /\ Weight(z, i, k, EmptyBag, r, c) = 0
         /\ \A e \in Elements(z) :
              Weight(z, i, k, B (+) SetToBag({e}), r, c)
                = Weight(z, i, k, B, r, c) + SignedPad(z, i, k, e, r, c)
         /\ i # k => Weight(z, k, i, B, r, c) = -Weight(z, i, k, B, r, c)
<1> DEFINE E == Elements(z)
           sp(e) == SignedPad(z, i, k, e, r, c)
           f(bag) == [e \in E |-> Copies(e, bag) * sp(e)]
<1>0. IsFiniteSet(E) /\ \A e \in E : sp(e) \in Int
  BY SharingFacts
<1>1. \A bag : Weight(z, i, k, bag, r, c) = SumFunctionOnSet(f(bag), E)
  BY DEF Weight, SumFunction
<1>2. \A e \in E : Copies(e, B) \in Int
  BY PutIntoBag
<1>3. \A e \in E : f(B)[e] = Copies(e, B) * sp(e)
  OBVIOUS
<1>3a. \A e \in E : f(B)[e] \in Int
  <2> TAKE e \in E
  <2>1. \A m, n \in Int : m * n \in Int
    OBVIOUS
  <2> QED BY <1>0, <1>2, <1>3, <2>1
<1>4. Weight(z, i, k, B, r, c) \in Int
  <2> HIDE DEF f, E
  <2> QED BY <1>0, <1>1, <1>3a, SumIsInt
<1>5. Weight(z, i, k, EmptyBag, r, c) = 0
  <2>1. \A e \in E : f(EmptyBag)[e] = 0
    <3> TAKE e \in E
    <3>1. f(EmptyBag)[e] = Copies(e, EmptyBag) * sp(e) /\ Copies(e, EmptyBag) = 0
      BY NothingInBag
    <3> HIDE DEF f
    <3>2. \A n \in Int : 0 * n = 0
      OBVIOUS
    <3> QED BY <1>0, <3>1, <3>2
  <2> HIDE DEF f, E
  <2> QED BY <1>0, <1>1, <2>1, SumOfZeros
<1>6. ASSUME NEW e \in E
      PROVE  Weight(z, i, k, B (+) SetToBag({e}), r, c) = Weight(z, i, k, B, r, c) + sp(e)
  <2> DEFINE C == B (+) SetToBag({e})
             g == [x \in E |-> IF x = e THEN sp(e) ELSE 0]
  <2>1. \A x \in E : Copies(x, C) = Copies(x, B) + IF x = e THEN 1 ELSE 0
    BY PutIntoBag
  <2> HIDE DEF C
  <2>2. ASSUME NEW x \in E
        PROVE  f(B)[x] \in Int /\ g[x] \in Int /\ f(C)[x] = f(B)[x] + g[x]
    <3>1. PICK m \in Int, p \in Int : m = Copies(x, B) /\ p = sp(x)
      BY <1>0, <1>2
    <3>2. f(B)[x] = m * p /\ f(C)[x] = Copies(x, C) * p /\ g[x] = (IF x = e THEN p ELSE 0)
      BY <3>1
    <3>3. Copies(x, C) = m + IF x = e THEN 1 ELSE 0
      BY <2>1, <3>1
    <3>4. (m + 1) * p = m * p + p /\ (m + 0) * p = m * p + 0 /\ m * p \in Int
      OBVIOUS
    <3> HIDE DEF f, g
    <3>5. CASE x = e
      <4>1. Copies(x, C) = m + 1 /\ g[x] = p
        BY <3>2, <3>3, <3>5
      <4> QED BY <3>2, <3>4, <4>1
    <3>6. CASE x # e
      <4>1. Copies(x, C) = m + 0 /\ g[x] = 0
        BY <3>2, <3>3, <3>6
      <4> QED BY <3>2, <3>4, <4>1
    <3> QED BY <3>5, <3>6
  <2>3. SumFunctionOnSet(g, E) = sp(e)
    <3>1. g[e] = sp(e) /\ sp(e) \in Int /\ \A x \in E : x # e => g[x] = 0
      BY <1>0
    <3> HIDE DEF g, E, sp
    <3>2. g[e] \in Int
      BY <3>1
    <3>3. SumFunctionOnSet(g, E) = g[e]
      BY <1>0, <3>1, <3>2, SumSingle
    <3> QED BY <3>1, <3>3
  <2>4. SumFunctionOnSet(f(C), E) = SumFunctionOnSet(f(B), E) + SumFunctionOnSet(g, E)
    <3> HIDE DEF f, g, E
    <3> QED BY <1>0, <2>2, SumPointwise
  <2> QED BY <1>1, <2>3, <2>4 DEF C
<1>7. ASSUME i # k
      PROVE  Weight(z, k, i, B, r, c) = -Weight(z, i, k, B, r, c)
  <2> DEFINE g == [e \in E |-> Copies(e, B) * SignedPad(z, k, i, e, r, c)]
  <2>1. Weight(z, k, i, B, r, c) = SumFunctionOnSet(g, E)
    BY DEF Weight, SumFunction
  <2>2. ASSUME NEW e \in E
        PROVE  f(B)[e] \in Int /\ g[e] = (-1) * f(B)[e]
    <3>1. PICK m \in Int, p \in Int : m = Copies(e, B) /\ p = sp(e)
      BY <1>0, <1>2
    <3>2. SignedPad(z, k, i, e, r, c) = -p
      BY <1>7, <3>1, SharingFacts
    <3>3. f(B)[e] = m * p /\ g[e] = m * (-p)
      BY <3>1, <3>2
    <3>4. m * (-p) = (-1) * (m * p) /\ m * p \in Int
      OBVIOUS
    <3> HIDE DEF f, g
    <3> QED BY <3>3, <3>4
  <2>3. SumFunctionOnSet(g, E) = (-1) * SumFunctionOnSet(f(B), E)
    <3>1. -1 \in Int
      OBVIOUS
    <3> HIDE DEF f, g, E
    <3> QED BY <1>0, <2>2, <3>1, SumScaled
  <2> QED BY <1>1, <1>4, <2>1, <2>3
<1> QED BY <1>4, <1>5, <1>6, <1>7

\* w has the weights of what the client i has used.
AreWeights(w, z, i, u, r, c) == \A k \in Clients(z) \ {i} : w[k] = Weight(z, i, k, u[k], r, c)

\* A share consists of numbers that are congruent to the sums of the weights.
LEMMA ShareEntry ==
  ASSUME NEW z, IsSharing(z), NEW i \in Clients(z), NEW u, IsUsed(z, u),
         NEW r \in Rows(z), NEW c \in Cols(z), NEW w,
         AreWeights(w, z, i, u, r, c)
  PROVE  /\ IsFiniteSet(Clients(z) \ {i}) /\ \A k \in Clients(z) \ {i} : w[k] \in Int
         /\ SumFunctionOnSet(w, Clients(z) \ {i}) \in Int
         /\ ShareOf(z, i, u)[r][c] = SumFunctionOnSet(w, Clients(z) \ {i}) % z.order
         /\ ShareOf(z, i, u)[r][c] \in Int
         /\ Congruent(ShareOf(z, i, u)[r][c], SumFunctionOnSet(w, Clients(z) \ {i}), z.order)
<1> DEFINE S == Clients(z) \ {i}
<1>1. IsFiniteSet(S)
  BY SharingFacts, FS_RemoveElement
<1>2. \A k \in S : w[k] \in Int
  <2> TAKE k \in S
  <2>1. IsABag(u[k]) /\ w[k] = Weight(z, i, k, u[k], r, c)
    BY DEF IsUsed, AreWeights
  <2> QED BY <2>1, WeightFacts
<1>3. SumFunctionOnSet(w, S) \in Int
  <2> HIDE DEF S
  <2> QED BY <1>1, <1>2, SumIsInt
<1>4. ShareOf(z, i, u)[r][c] = SumFunctionOnSet(w, S) % z.order
  <2> DEFINE f == [k \in S |-> Weight(z, i, k, u[k], r, c)]
  <2>1. ShareOf(z, i, u)[r][c] = SumFunctionOnSet(f, S) % z.order
    BY DEF ShareOf, SumFunction
  <2>2. \A k \in S : f[k] = w[k]
    BY DEF AreWeights
  <2> HIDE DEF f, S
  <2>3. SumFunctionOnSet(f, S) = SumFunctionOnSet(w, S)
    BY <1>1, <2>2, SumCongruence
  <2> QED BY <2>1, <2>3
<1>5. PICK n \in Nat, s \in Int : n = z.order /\ n # 0 /\ s = SumFunctionOnSet(w, S)
  BY <1>3 DEF IsSharing
<1>6. n # 0
  BY <1>5
<1>7. s % n \in Int /\ Congruent(s % n, s, n)
  BY <1>6, CongruentMod
<1> QED BY <1>1, <1>2, <1>3, <1>4, <1>5, <1>7

\* A client that starts over has used nothing, and its share is zero.
LEMMA FreshShare ==
  ASSUME NEW z, IsSharing(z), NEW i \in Clients(z)
  PROVE  IsUsed(z, NoneUsed(z)) /\ ShareOf(z, i, NoneUsed(z)) = ZeroShare(z)
<1>1. IsUsed(z, NoneUsed(z))
  BY NothingInBag DEF IsUsed, NoneUsed
<1>2. ASSUME NEW r \in Rows(z), NEW c \in Cols(z)
      PROVE  ShareOf(z, i, NoneUsed(z))[r][c] = 0
  <2> DEFINE w == [k \in Clients(z) \ {i} |-> Weight(z, i, k, NoneUsed(z)[k], r, c)]
             S == Clients(z) \ {i}
  <2>1. \A k \in S : w[k] = 0
    <3> TAKE k \in S
    <3>1. w[k] = Weight(z, i, k, EmptyBag, r, c)
      BY DEF NoneUsed
    <3> QED BY <3>1, WeightFacts, NothingInBag
  <2>2. IsFiniteSet(S) /\ ShareOf(z, i, NoneUsed(z))[r][c] = SumFunctionOnSet(w, S) % z.order
    <3>1. AreWeights(w, z, i, NoneUsed(z), r, c)
      BY DEF AreWeights
    <3> HIDE DEF w
    <3> QED BY <1>1, <3>1, ShareEntry
  <2>3. SumFunctionOnSet(w, S) = 0
    <3> HIDE DEF w, S
    <3> QED BY <2>1, <2>2, SumOfZeros
  <2>4. \A n \in Nat : n # 0 => 0 % n = 0
    OBVIOUS
  <2>5. z.order \in Nat /\ z.order # 0
    BY DEF IsSharing
  <2> QED BY <2>2, <2>3, <2>4, <2>5
<1> QED BY <1>1, <1>2 DEF ShareOf, ZeroShare

\* A call that sets the share of a client adds what the call uses, whatever the client
\* has used before.
LEMMA NextShare ==
  ASSUME NEW z, IsSharing(z), NEW i \in Clients(z), NEW u, IsUsed(z, u),
         NEW sk \in Int, NEW pks, \A k \in Clients(z) : pks[k] \in Int
  PROVE  /\ IsUsed(z, Use(z, i, sk, u, pks))
         /\ SetShare(z, i, sk, ShareOf(z, i, u), pks) = ShareOf(z, i, Use(z, i, sk, u, pks))
<1> DEFINE e(k) == SharedElement(z, sk, pks[k])
           v == Use(z, i, sk, u, pks)
           S == Clients(z) \ {i}
<1>1. \A k \in Clients(z) : e(k) \in Elements(z)
  <2> TAKE k \in Clients(z)
  <2>1. PICK n \in Nat, p \in Int : n = z.order /\ n # 0 /\ p = pks[k] * sk
    BY DEF IsSharing
  <2>2. p % n \in 0..(n - 1)
    BY <2>1
  <2> QED BY <2>1, <2>2 DEF SharedElement, Elements
<1>2. \A k \in S : v[k] = u[k] (+) SetToBag({e(k)})
  BY DEF Use
<1>3. IsUsed(z, v)
  <2>1. DOMAIN v = Clients(z) /\ v[i] = EmptyBag
    BY DEF Use
  <2>2. ASSUME NEW k \in S
        PROVE  IsABag(v[k]) /\ BagToSet(v[k]) \subseteq Elements(z)
    <3>1. IsABag(u[k]) /\ BagToSet(u[k]) \subseteq Elements(z)
      BY DEF IsUsed
    <3>2. PICK B, x : B = u[k] /\ x = e(k)
      OBVIOUS
    <3> HIDE DEF v, e
    <3>3. IsABag(B) /\ BagToSet(B) \subseteq Elements(z) /\ x \in Elements(z)
      BY <1>1, <3>1, <3>2
    <3>4. /\ IsABag(B (+) SetToBag({x}))
          /\ BagToSet(B (+) SetToBag({x})) = BagToSet(B) \cup {x}
      BY <3>3, PutIntoBag
    <3>5. v[k] = B (+) SetToBag({x})
      BY <1>2, <3>2
    <3> QED BY <3>3, <3>4, <3>5
  <2> HIDE DEF v
  <2> QED BY <2>1, <2>2, NothingInBag DEF IsUsed
<1>4. ASSUME NEW r \in Rows(z), NEW c \in Cols(z)
      PROVE  SetShare(z, i, sk, ShareOf(z, i, u), pks)[r][c] = ShareOf(z, i, v)[r][c]
  <2> DEFINE f == [k \in S |-> Weight(z, i, k, u[k], r, c)]
             g == [k \in S |-> SignedPad(z, i, k, e(k), r, c)]
             h == [k \in S |-> Weight(z, i, k, v[k], r, c)]
  <2>1. /\ IsFiniteSet(S) /\ SumFunctionOnSet(f, S) \in Int
        /\ ShareOf(z, i, u)[r][c] = SumFunctionOnSet(f, S) % z.order
        /\ ShareOf(z, i, u)[r][c] \in Int
        /\ Congruent(ShareOf(z, i, u)[r][c], SumFunctionOnSet(f, S), z.order)
        /\ \A k \in S : f[k] \in Int
    <3>1. AreWeights(f, z, i, u, r, c)
      BY DEF AreWeights
    <3> HIDE DEF f
    <3> QED BY <3>1, ShareEntry
  <2>2. ShareOf(z, i, v)[r][c] = SumFunctionOnSet(h, S) % z.order /\ SumFunctionOnSet(h, S) \in Int
    <3>1. ShareOf(z, i, v)[r][c] = SumFunctionOnSet(h, S) % z.order
      <4> HIDE DEF v
      <4> QED BY DEF ShareOf, SumFunction
    <3>2. AreWeights(h, z, i, v, r, c)
      BY DEF AreWeights
    <3> HIDE DEF v, h
    <3>3. SumFunctionOnSet(h, S) \in Int
      BY <1>3, <3>2, ShareEntry
    <3> QED BY <3>1, <3>3
  <2>3. \A k \in S : f[k] \in Int /\ g[k] \in Int /\ h[k] = f[k] + g[k]
    <3> TAKE k \in S
    <3>1. k \in Clients(z) /\ IsABag(u[k]) /\ e(k) \in Elements(z) /\ v[k] = u[k] (+) SetToBag({e(k)})
      BY <1>1, <1>2 DEF IsUsed
    <3>2. f[k] = Weight(z, i, k, u[k], r, c) /\ g[k] = SignedPad(z, i, k, e(k), r, c)
          /\ h[k] = Weight(z, i, k, v[k], r, c)
      OBVIOUS
    <3> HIDE DEF e, v, f, g, h
    <3>3. Weight(z, i, k, u[k] (+) SetToBag({e(k)}), r, c)
            = Weight(z, i, k, u[k], r, c) + SignedPad(z, i, k, e(k), r, c)
      BY <3>1, WeightFacts
    <3>4. SignedPad(z, i, k, e(k), r, c) \in Int
      BY <3>1, SharingFacts
    <3> QED BY <2>1, <3>1, <3>2, <3>3, <3>4
  <2>4. SumFunctionOnSet(h, S) = SumFunctionOnSet(f, S) + SumFunctionOnSet(g, S)
        /\ SumFunctionOnSet(g, S) \in Int
    <3> HIDE DEF f, g, h, S
    <3> QED BY <2>1, <2>3, SumPointwise, SumIsInt
  <2>5. SetShare(z, i, sk, ShareOf(z, i, u), pks)[r][c]
          = (ShareOf(z, i, u)[r][c] + SumFunctionOnSet(g, S)) % z.order
    BY DEF SetShare, SumFunction
  <2> HIDE DEF f, g, h, S, v
  <2>6. PICK n \in Nat, a \in Int, b \in Int, d \in Int :
          /\ n = z.order /\ n # 0 /\ a = ShareOf(z, i, u)[r][c]
          /\ b = SumFunctionOnSet(f, S) /\ d = SumFunctionOnSet(g, S)
    BY <2>1, <2>4 DEF IsSharing
  <2>7. Congruent(a, b, n) /\ n # 0
    BY <2>1, <2>6
  <2>8. (a + d) % n = (b + d) % n
    <3>1. Congruent(a + d, b + d, n)
      BY <2>7, CongruentAdd, CongruentRefl
    <3>2. a + d \in Int /\ b + d \in Int
      OBVIOUS
    <3> QED BY <2>7, <3>1, <3>2, SameRemainder
  <2> QED BY <2>2, <2>4, <2>5, <2>6, <2>8
<1> QED BY <1>3, <1>4 DEF SetShare, ShareOf

\* Shares of clients that have used the same for each other are zero together.
LEMMA SharesOfAgree ==
  ASSUME NEW z, IsSharing(z), NEW all, DOMAIN all = Clients(z),
         \A i \in Clients(z) : IsUsed(z, all[i]), Agree(all),
         NEW r \in Rows(z), NEW c \in Cols(z), NEW t,
         t = [i \in Clients(z) |-> ShareOf(z, i, all[i])[r][c]]
  PROVE  SumFunctionOnSet(t, Clients(z)) % z.order = 0
<1> DEFINE P == Clients(z)
           w(i) == [k \in P \ {i} |-> Weight(z, i, k, all[i][k], r, c)]
           a == [i \in P |-> [k \in P |-> IF k = i THEN 0 ELSE w(i)[k]]]
           s == [i \in P |-> SumFunctionOnSet(a[i], P)]
<1>1. /\ IsFiniteSet(P)
      /\ \A i \in P : /\ IsFiniteSet(P \ {i}) /\ \A k \in P \ {i} : w(i)[k] \in Int
                      /\ SumFunctionOnSet(w(i), P \ {i}) \in Int
                      /\ t[i] \in Int
                      /\ Congruent(t[i], SumFunctionOnSet(w(i), P \ {i}), z.order)
  <2>1. IsFiniteSet(P)
    BY SharingFacts
  <2>2. ASSUME NEW i \in P
        PROVE  /\ IsFiniteSet(P \ {i}) /\ \A k \in P \ {i} : w(i)[k] \in Int
               /\ SumFunctionOnSet(w(i), P \ {i}) \in Int
               /\ t[i] \in Int
               /\ Congruent(t[i], SumFunctionOnSet(w(i), P \ {i}), z.order)
    <3>1. IsUsed(z, all[i]) /\ t[i] = ShareOf(z, i, all[i])[r][c]
      OBVIOUS
    <3>2. AreWeights(w(i), z, i, all[i], r, c)
      BY DEF AreWeights
    <3>3. PICK u, v : u = all[i] /\ v = w(i)
      OBVIOUS
    <3>4. IsUsed(z, u) /\ AreWeights(v, z, i, u, r, c)
      BY <3>1, <3>2, <3>3
    <3> HIDE DEF w
    <3>5. /\ IsFiniteSet(P \ {i}) /\ \A k \in P \ {i} : v[k] \in Int
          /\ SumFunctionOnSet(v, P \ {i}) \in Int
          /\ ShareOf(z, i, u)[r][c] \in Int
          /\ Congruent(ShareOf(z, i, u)[r][c], SumFunctionOnSet(v, P \ {i}), z.order)
      BY <3>4, ShareEntry
    <3> QED BY <3>1, <3>3, <3>5
  <2> QED BY <2>1, <2>2
<1>2. \A i \in P : s[i] = SumFunctionOnSet(w(i), P \ {i}) /\ s[i] \in Int
  <2> TAKE i \in P
  <2>1. a[i][i] = 0 /\ \A k \in P \ {i} : a[i][k] = w(i)[k]
    OBVIOUS
  <2>2. \A k \in P : a[i][k] \in Int
    <3>1. \A k \in P \ {i} : w(i)[k] \in Int
      BY <1>1
    <3> HIDE DEF a, w, P
    <3> QED BY <2>1, <3>1
  <2>3. s[i] = SumFunctionOnSet(a[i], P)
    OBVIOUS
  <2> HIDE DEF a, w, s, P
  <2>4. SumFunctionOnSet(a[i], P) = a[i][i] + SumFunctionOnSet(a[i], P \ {i})
    BY <1>1, <2>2, SumRemove
  <2>5. SumFunctionOnSet(a[i], P \ {i}) = SumFunctionOnSet(w(i), P \ {i})
    BY <1>1, <2>1, SumCongruence
  <2>6. SumFunctionOnSet(w(i), P \ {i}) \in Int
    BY <1>1
  <2> QED BY <2>1, <2>3, <2>4, <2>5, <2>6
<1>3. \A i, k \in P : a[i][k] \in Int /\ a[k][i] = -(a[i][k])
  <2> TAKE i \in P, k \in P
  <2>1. CASE i = k
    <3>1. a[i][k] = 0 /\ a[k][i] = 0
      BY <2>1
    <3>2. \A x, y \in Int : x + y = 0 => y = -x
      OBVIOUS
    <3> HIDE DEF a
    <3>3. a[i][k] \in Int /\ a[k][i] \in Int /\ a[i][k] + a[k][i] = 0
      BY <3>1
    <3> QED BY <3>1, <3>2, <3>3
  <2>2. CASE i # k
    <3>1. a[i][k] = Weight(z, i, k, all[i][k], r, c) /\ a[k][i] = Weight(z, k, i, all[k][i], r, c)
      BY <2>2
    <3>2. all[i][k] = all[k][i] /\ IsABag(all[i][k])
      BY <2>2 DEF Agree, IsUsed
    <3> HIDE DEF a
    <3>3. PICK B : B = all[i][k]
      OBVIOUS
    <3>4. IsABag(B)
      BY <3>2, <3>3
    <3>5. Weight(z, i, k, B, r, c) \in Int /\ Weight(z, k, i, B, r, c) = -Weight(z, i, k, B, r, c)
      BY <2>2, <3>4, WeightFacts
    <3> QED BY <3>1, <3>2, <3>3, <3>5
  <2> QED BY <2>1, <2>2
<1>4. SumFunctionOnSet(s, P) = 0
  <2>1. \A i \in P : s[i] = SumFunctionOnSet(a[i], P)
    OBVIOUS
  <2> HIDE DEF a, w, s, P
  <2> QED BY <1>1, <1>3, <2>1, SumAntisymmetric
<1> HIDE DEF a, w, s, P
<1>5. PICK n \in Nat : n = z.order /\ n # 0
  BY DEF IsSharing
<1>6. \A i \in P : t[i] \in Int /\ s[i] \in Int /\ Congruent(t[i], s[i], n)
  BY <1>1, <1>2, <1>5
<1>7. Congruent(SumFunctionOnSet(t, P), SumFunctionOnSet(s, P), n) /\ SumFunctionOnSet(t, P) \in Int
  BY <1>1, <1>6, SumCongruent, SumIsInt
<1>8. PICK x \in Int : x = SumFunctionOnSet(t, P)
  BY <1>7
<1>9. Congruent(x, 0, n) /\ n # 0
  BY <1>4, <1>5, <1>7, <1>8
<1>10. x % n = 0 % n /\ 0 % n = 0
  <2>1. 0 \in Int /\ 0 % n = 0
    BY <1>9
  <2> QED BY <1>9, <2>1, SameRemainder
<1> QED BY <1>5, <1>8, <1>10 DEF P

-----------------------------------------------------------------------------
(* What is hidden under shares of zero *)

\* Shares that agree are matrices that are zero together.
LEMMA SharesAreZero ==
  ASSUME NEW z, IsSharing(z), NEW all, DOMAIN all = Clients(z),
         \A i \in Clients(z) : IsUsed(z, all[i]), Agree(all),
         NEW a, \A i \in Clients(z) : a[i] = ShareOf(z, i, all[i])
  PROVE  /\ \A i \in Clients(z) : DOMAIN a[i] = Rows(z)
         /\ AreZeroMatrices(a, Clients(z), Rows(z), Cols(z), z.order)
<1>1. PICK n, P, R, C : n \in Nat /\ n = z.order /\ n # 0 /\ P = Clients(z) /\ R = Rows(z) /\ C = Cols(z)
  BY DEF IsSharing
<1>2. \A i \in P : DOMAIN a[i] = R
  BY <1>1 DEF ShareOf
<1>3. \A i \in P : \A r \in R : \A c \in C : a[i][r][c] \in Int
  <2> SUFFICES ASSUME NEW i \in Clients(z), NEW r \in Rows(z), NEW c \in Cols(z)
               PROVE  a[i][r][c] \in Int
    BY <1>1
  <2>1. PICK u : u = all[i] /\ IsUsed(z, u)
    OBVIOUS
  <2>2. PICK w : w = [k \in Clients(z) \ {i} |-> Weight(z, i, k, u[k], r, c)]
    OBVIOUS
  <2>3. AreWeights(w, z, i, u, r, c)
    BY <2>2 DEF AreWeights
  <2>4. ShareOf(z, i, u)[r][c] \in Int
    BY <2>1, <2>3, ShareEntry
  <2> QED BY <2>1, <2>4
<1>4. ASSUME NEW r \in R
      PROVE  \E v, t : (\A i \in P : v[i] = a[i][r]) /\ AreZeroSums(t, v, P, C, n)
  <2> DEFINE v == [i \in P |-> a[i][r]]
             u == [c \in C |-> [i \in P |-> a[i][r][c]]]
             t == [c \in C |-> SumFunctionOnSet(u[c], P)]
  <2>1. \A i \in P : v[i] = a[i][r] /\ v[i] \in [C -> Int]
    <3> SUFFICES ASSUME NEW i \in P PROVE a[i][r] \in [C -> Int]
      OBVIOUS
    <3>1. a[i] = ShareOf(z, i, all[i])
      BY <1>1
    <3>2. a[i][r] = [c \in C |-> a[i][r][c]]
      BY <1>1, <3>1 DEF ShareOf
    <3> QED BY <1>3, <3>2
  <2>2. AreTransposed(v, u, P, C)
    <3> SUFFICES ASSUME NEW i \in P, NEW c \in C PROVE v[i][c] \in Int /\ u[c][i] = v[i][c]
      BY DEF AreTransposed
    <3> QED BY <1>3
  <2>3. AreRowSums(t, u, C, P)
    BY DEF AreRowSums
  <2>4. ASSUME NEW c \in C PROVE t[c] \in Int /\ Congruent(t[c], 0, n)
    <3>1. PICK f : f = u[c] /\ t[c] = SumFunctionOnSet(f, P)
      OBVIOUS
    <3>2. f = [i \in Clients(z) |-> ShareOf(z, i, all[i])[r][c]]
      BY <1>1, <3>1
    <3>3. \A i \in P : f[i] \in Int
      BY <1>3, <3>1
    <3> HIDE DEF u, t, v
    <3>4. SumFunctionOnSet(f, Clients(z)) % z.order = 0
      BY <1>1, <3>2, SharesOfAgree
    <3>5. IsFiniteSet(P)
      BY <1>1, SharingFacts
    <3>6. PICK b \in Int : b = SumFunctionOnSet(f, P)
      BY <3>3, <3>5, SumIsInt
    <3>7. b % n = 0
      BY <1>1, <3>4, <3>6
    <3>8. b % n \in Int /\ Congruent(b % n, b, n)
      BY <1>1, CongruentMod
    <3>9. Congruent(b, 0, n)
      BY <1>1, <3>7, <3>8, CongruentSym
    <3> QED BY <3>1, <3>6, <3>9
  <2> HIDE DEF u, t, v
  <2>5. AreZeroSums(t, v, P, C, n)
    BY <2>1, <2>2, <2>3, <2>4 DEF AreZeroSums
  <2> QED BY <2>1, <2>5
<1> QED BY <1>1, <1>2, <1>4 DEF AreZeroMatrices

\* Numbers e that are hidden under numbers d.
AreHidden(f, e, d, P, q) == \A i \in P : d[i] \in Int /\ e[i] \in Int /\ f[i] = (e[i] + d[i]) % q

\* When d is zero together, their sum is that of e.
LEMMA SumOfHidden ==
  ASSUME NEW q \in Nat, q # 0, NEW P, NEW f, NEW e, NEW d, IsFiniteSet(P),
         AreHidden(f, e, d, P, q), Congruent(SumFunctionOnSet(d, P), 0, q)
  PROVE  /\ \A i \in P : f[i] \in Int
         /\ SumFunctionOnSet(f, P) \in Int /\ SumFunctionOnSet(e, P) \in Int
         /\ Congruent(SumFunctionOnSet(f, P), SumFunctionOnSet(e, P), q)
<1> DEFINE s == [i \in P |-> e[i] + d[i]]
<1>1. \A i \in P : /\ d[i] \in Int /\ e[i] \in Int /\ s[i] = e[i] + d[i]
                   /\ f[i] \in Int /\ s[i] \in Int /\ Congruent(f[i], s[i], q)
  <2> TAKE i \in P
  <2>1. PICK a, b, c \in Int : a = d[i] /\ b = e[i] /\ c = b + a
    BY DEF AreHidden
  <2>2. f[i] = c % q /\ s[i] = c
    BY <2>1 DEF AreHidden
  <2>3. c % q \in Int /\ Congruent(c % q, c, q)
    BY CongruentMod
  <2> HIDE DEF s
  <2> QED BY <2>1, <2>2, <2>3
<1> HIDE DEF s
<1>2. PICK a, b, c, g \in Int :
         /\ a = SumFunctionOnSet(d, P) /\ b = SumFunctionOnSet(e, P) /\ c = SumFunctionOnSet(s, P)
         /\ g = SumFunctionOnSet(f, P)
  BY <1>1, SumIsInt
<1>3. c = b + a
  BY <1>1, <1>2, SumPointwise
<1>4. Congruent(g, c, q)
  BY <1>1, <1>2, SumCongruent
<1>5. Congruent(b + a, b + 0, q)
  BY <1>2, CongruentAdd, CongruentRefl
<1>6. Congruent(c, b, q)
  BY <1>3, <1>5
<1>7. Congruent(g, b, q)
  BY <1>4, <1>6, CongruentTrans
<1> QED BY <1>1, <1>2, <1>7

\* The inner product of two numbers.
LEMMA DotOfTwo ==
  ASSUME NEW u \in [Two -> Int], NEW v \in [Two -> Int]
  PROVE  Dot(u, v) = u[0] * v[0] + u[1] * v[1]
<1> DEFINE f == [k \in Two |-> u[k] * v[k]]
<1>1. Two = {0, 1}
  BY DEF Two
<1>2. IsFiniteSet(Two)
  <2>1. PICK m, n \in Int : m = 0 /\ n = 1
    OBVIOUS
  <2>2. IsFiniteSet(m..n)
    BY FS_Interval
  <2> QED BY <2>1, <2>2 DEF Two
<1>3. \A k \in Two : u[k] * v[k] \in Int
  OBVIOUS
<1>4. f[0] = u[0] * v[0] /\ f[1] = u[1] * v[1] /\ \A k \in Two : f[k] \in Int
  BY <1>1, <1>3
<1>5. Dot(u, v) = SumFunctionOnSet(f, Two)
  BY <1>2, DotIsSum
<1> HIDE DEF f
<1>6. SumFunctionOnSet(f, Two) = f[0] + SumFunctionOnSet(f, Two \ {0})
  BY <1>1, <1>2, <1>4, SumRemove
<1>7. SumFunctionOnSet(f, Two \ {0}) = f[1]
  <2>1. PICK T, x : T = Two \ {0} /\ x = 1
    OBVIOUS
  <2>2. x \in T /\ f[x] \in Int /\ \A k \in T : k # x => f[k] = 0
    BY <1>1, <1>4, <2>1
  <2>3. IsFiniteSet(T)
    BY <1>2, <2>1, FS_Subset
  <2>4. SumFunctionOnSet(f, T) = f[x]
    BY <2>2, <2>3, SumSingle
  <2> QED BY <2>1, <2>4
<1> QED BY <1>4, <1>5, <1>6, <1>7

-----------------------------------------------------------------------------
(* The decentralised Damgard scheme *)

\* A key of the scheme m.
IsDecMultiKey(m, k) ==
  /\ k.dam.s \in [1..m.scheme.l -> Int] /\ k.dam.t \in [1..m.scheme.l -> Int]
  /\ k.otp \in [1..m.scheme.l -> Int]

\* A scheme with q elements whose clients accept what the bound allows.
IsDecMulti(m, q) ==
  /\ q \in Nat /\ q # 0 /\ m.scheme.grp.q = q /\ m.scheme.l \in Nat /\ m.scheme.hexp \in Int
  /\ m.bound \in Int /\ m.scheme.bound \in Int /\ m.bound <= m.scheme.bound

\* The client i with the key k and the share sh has made the ciphertext ciph and the part.
IsPartOfClient(m, q, P, i, k, x, y, sh, ciph, piece) ==
  /\ IsDecMulti(m, q) /\ IsDecMultiKey(m, k) /\ i \in P
  /\ x \in [1..m.scheme.l -> Int] /\ y \in [P -> [1..m.scheme.l -> Int]]
  /\ \E r \in Int : DecMultiEncrypt(m, k, x, r) = Done(ciph)
  /\ DecMultiDeriveFeKeyPart(m, i, k, sh, y) = Done(piece)

\* What the ciphertext ciph and the part of a client contribute to a decryption.
LEMMA PartOfClient ==
  ASSUME NEW m, NEW q, NEW P, NEW i, NEW k, NEW x, NEW y, NEW sh, NEW ciph, NEW piece,
         IsPartOfClient(m, q, P, i, k, x, y, sh, ciph, piece)
  PROVE  /\ Unmask(m.scheme, ciph, piece.dam, y[i]) \in Int
         /\ Dot(x, y[i]) \in Int /\ Dot(k.otp, y[i]) \in Int
         /\ Congruent(Unmask(m.scheme, ciph, piece.dam, y[i]), Dot(x, y[i]) + Dot(k.otp, y[i]), q)
         /\ piece.otp = (Dot(k.otp, y[i]) + MatDot(sh, y)) % q
<1>0. PICK r \in Int : DecMultiEncrypt(m, k, x, r) = Done(ciph)
  BY DEF IsPartOfClient
<1>a. /\ IsDecMulti(m, q) /\ IsDecMultiKey(m, k) /\ i \in P
      /\ x \in [1..m.scheme.l -> Int] /\ y \in [P -> [1..m.scheme.l -> Int]]
      /\ DecMultiDeriveFeKeyPart(m, i, k, sh, y) = Done(piece)
  BY DEF IsPartOfClient
<1>1. PICK sch, w, p, mk : sch = m.scheme /\ w = y[i] /\ p = k.otp /\ mk = k.dam
  OBVIOUS
<1>2. /\ sch.grp.q = q /\ q \in Nat /\ q # 0 /\ sch.l \in Nat /\ sch.hexp \in Int
      /\ mk.s \in [1..sch.l -> Int] /\ mk.t \in [1..sch.l -> Int]
      /\ x \in [1..sch.l -> Int] /\ p \in [1..sch.l -> Int] /\ w \in [1..sch.l -> Int]
  BY <1>a, <1>1 DEF IsDecMulti, IsDecMultiKey
<1>3. DamgardEncrypt(sch, VecMod(VecAdd(x, p), sch.grp.q), DamgardPublicKey(sch, mk), r) = Done(ciph)
  <2>1. CheckBound(x, m.bound)
    BY <1>0 DEF DecMultiEncrypt, Done, Failed
  <2> QED BY <1>0, <1>1, <2>1 DEF DecMultiEncrypt
<1>4. MatCheckBound(y, m.bound)
  BY <1>a DEF DecMultiDeriveFeKeyPart, Done, Failed
<1>5. piece = [otp |-> (Dot(p, w) + MatDot(sh, y)) % q, dam |-> DamgardDeriveFeKey(sch, mk, w).res]
  BY <1>a, <1>1, <1>2, <1>4 DEF DecMultiDeriveFeKeyPart, Done
<1>6. CheckBound(w, sch.bound)
  <2>1. PICK b, c \in Int : b = m.bound /\ c = sch.bound /\ b <= c
    BY <1>a, <1>1 DEF IsDecMulti
  <2>2. \A j \in 1..sch.l : w[j] \in Int /\ w[j] <= b
    BY <1>a, <1>1, <1>2, <1>4, <2>1 DEF MatCheckBound, CheckBound
  <2>3. \A j \in 1..sch.l : w[j] <= c
    BY <2>1, <2>2
  <2> QED BY <1>2, <2>1, <2>3 DEF CheckBound
<1>7. DamgardDeriveFeKey(sch, mk, w) = Done(piece.dam)
  BY <1>5, <1>6 DEF DamgardDeriveFeKey, Done
<1>8. /\ Unmask(sch, ciph, piece.dam, w) \in Int /\ Dot(x, w) \in Int /\ Dot(p, w) \in Int
      /\ Congruent(Unmask(sch, ciph, piece.dam, w), Dot(x, w) + Dot(p, w), sch.grp.q)
  BY <1>2, <1>3, <1>7, PaddedUnmask
<1> QED BY <1>1, <1>2, <1>5, <1>8

\* The clients of the scheme m with shares z that agree, their keys ks, their data xs and
\* what they have sent for y.
AreDecMultiClients(m, z, ks, xs, y, cs, ps, all) ==
  /\ IsSharing(z) /\ IsDecMulti(m, z.order)
  /\ Clients(z) = DamgardMultiClients(m) /\ Rows(z) = Clients(z) /\ Cols(z) = 1..m.scheme.l
  /\ DOMAIN xs = Clients(z) /\ y \in [Clients(z) -> [1..m.scheme.l -> Int]]
  /\ DOMAIN all = Clients(z) /\ Agree(all)
  /\ \A i \in Clients(z) :
       /\ IsDecMultiKey(m, ks[i]) /\ xs[i] \in [1..m.scheme.l -> Int] /\ IsUsed(z, all[i])
       /\ \E r \in Int : DecMultiEncrypt(m, ks[i], xs[i], r) = Done(cs[i])
       /\ DecMultiDeriveFeKeyPart(m, i, ks[i], ShareOf(z, i, all[i]), y) = Done(ps[i])

\* Masks, pads and shares cancel: the search is for the sum of the inner products.
LEMMA DecMultiCancels ==
  ASSUME NEW m, NEW z, NEW ks, NEW xs, NEW y, NEW cs, NEW ps, NEW all,
         AreDecMultiClients(m, z, ks, xs, y, cs, ps, all), MatCheckBound(y, m.bound)
  PROVE  /\ MatDot(xs, y) \in Int
         /\ DecMultiDecrypt(m, cs, ps, y)
              = BabyGiantWithNeg(m.scheme.grp, MatDot(xs, y) % m.scheme.grp.q, DamgardMultiReach(m))
<1> DEFINE Q == DamgardMultiClients(m)
           e == [i \in Q |-> Unmask(m.scheme, cs[i], ps[i].dam, y[i])]
           f == [i \in Q |-> ps[i].otp]
           pads == [i \in Q |-> ks[i].otp]
           sh == [i \in Q |-> ShareOf(z, i, all[i])]
           d == [i \in Q |-> MatDot(sh[i], y)]
           g == [i \in Q |-> Dot(pads[i], y[i])]
<1>1. PICK q \in Nat : q = z.order /\ q # 0 /\ q = m.scheme.grp.q /\ IsDecMulti(m, q)
  BY DEF AreDecMultiClients, IsDecMulti
<1>2. PICK P, R, C : /\ P = Clients(z) /\ R = Rows(z) /\ C = Cols(z)
                     /\ P = DamgardMultiClients(m) /\ R = P /\ C = 1..m.scheme.l
  BY DEF AreDecMultiClients
<1>3. IsFiniteSet(P) /\ IsFiniteSet(R) /\ IsFiniteSet(C)
  <2>1. IsFiniteSet(P)
    BY <1>2, SharingFacts DEF AreDecMultiClients
  <2>2. PICK l \in Nat : l = m.scheme.l
    BY DEF AreDecMultiClients, IsDecMulti
  <2>3. IsFiniteSet(1..l)
    BY FS_Interval
  <2> QED BY <1>2, <2>1, <2>2, <2>3
<1>4. ASSUME NEW i \in P
      PROVE  /\ e[i] \in Int /\ Dot(xs[i], y[i]) \in Int /\ g[i] \in Int
             /\ Congruent(e[i], Dot(xs[i], y[i]) + g[i], q)
             /\ f[i] = (g[i] + d[i]) % q
  <2>1. PICK k, x, w, s, ciph, piece :
           /\ k = ks[i] /\ x = xs[i] /\ w = y[i] /\ s = ShareOf(z, i, all[i]) /\ ciph = cs[i]
           /\ piece = ps[i]
    OBVIOUS
  <2>2. IsPartOfClient(m, q, P, i, k, x, y, s, ciph, piece)
    BY <1>1, <1>2, <2>1 DEF AreDecMultiClients, IsPartOfClient
  <2>3. /\ e[i] = Unmask(m.scheme, ciph, piece.dam, w) /\ f[i] = piece.otp
        /\ g[i] = Dot(k.otp, w) /\ d[i] = MatDot(s, y)
    BY <1>2, <2>1
  <2> HIDE DEF e, f, g, d, pads, sh, Q
  <2>4. /\ Unmask(m.scheme, ciph, piece.dam, y[i]) \in Int
        /\ Dot(x, y[i]) \in Int /\ Dot(k.otp, y[i]) \in Int
        /\ Congruent(Unmask(m.scheme, ciph, piece.dam, y[i]), Dot(x, y[i]) + Dot(k.otp, y[i]), q)
        /\ piece.otp = (Dot(k.otp, y[i]) + MatDot(s, y)) % q
    BY <2>2, PartOfClient
  <2> QED BY <2>1, <2>3, <2>4
<1>5. ArePadded(e, xs, pads, y, q, P)
  <2>1. \A i \in P : g[i] = Dot(pads[i], y[i])
    BY <1>2
  <2> HIDE DEF e, f, g, d, pads
  <2> QED BY <1>4, <2>1 DEF ArePadded
<1>6. DOMAIN xs = P /\ DOMAIN pads = P
  BY <1>2 DEF AreDecMultiClients
<1>7. \A i \in P : DOMAIN sh[i] = R /\ d[i] = MatDot(sh[i], y)
  BY <1>2 DEF ShareOf
<1>8. AreZeroMatrices(sh, P, R, C, q)
  <2>1. \A i \in Clients(z) : sh[i] = ShareOf(z, i, all[i])
    BY <1>2
  <2> HIDE DEF sh
  <2>2. AreZeroMatrices(sh, Clients(z), Rows(z), Cols(z), z.order)
    BY <2>1, SharesAreZero DEF AreDecMultiClients
  <2> QED BY <1>1, <1>2, <2>2
<1>9. \A r \in R : y[r] \in [C -> Int]
  BY <1>2 DEF AreDecMultiClients
<1>10. MatDot(pads, y) = SumFunctionOnSet(g, P)
  BY <1>2 DEF MatDot, SumFunction
<1>11. SumFunction(e) = SumFunctionOnSet(e, P) /\ SumFunction(f) = SumFunctionOnSet(f, P)
  BY <1>2 DEF SumFunction
<1>12. DecMultiDecrypt(m, cs, ps, y)
         = BabyGiantWithNeg(m.scheme.grp, (SumFunction(e) - (SumFunction(f) % q)) % q, DamgardMultiReach(m))
  <2>1. PICK fkey : fkey = [z |-> SumFunction(f) % q, keys |-> [i \in Q |-> ps[i].dam]]
    OBVIOUS
  <2>2. DecMultiDecrypt(m, cs, ps, y) = DamgardMultiDecrypt(m, cs, fkey, y)
    BY <1>1, <2>1 DEF DecMultiDecrypt
  <2>3. [i \in Q |-> Unmask(m.scheme, cs[i], fkey.keys[i], y[i])] = e /\ fkey.z = SumFunction(f) % q
    BY <2>1
  <2> QED BY <1>1, <2>2, <2>3 DEF DamgardMultiDecrypt
<1> HIDE DEF e, f, g, d, pads, sh, Q
<1>13. /\ SumFunctionOnSet(e, P) \in Int /\ MatDot(xs, y) \in Int /\ MatDot(pads, y) \in Int
       /\ Congruent(SumFunctionOnSet(e, P), MatDot(xs, y) + MatDot(pads, y), q)
  BY <1>3, <1>5, <1>6, SumOfPadded
<1>14. /\ \A i \in P : d[i] \in Int
       /\ SumFunctionOnSet(d, P) \in Int /\ Congruent(SumFunctionOnSet(d, P), 0, q)
  BY <1>3, <1>7, <1>8, <1>9, MatDotsOfZeros
<1>15. AreHidden(f, g, d, P, q)
  BY <1>4, <1>14 DEF AreHidden
<1>16. /\ SumFunctionOnSet(f, P) \in Int /\ SumFunctionOnSet(g, P) \in Int
       /\ Congruent(SumFunctionOnSet(f, P), SumFunctionOnSet(g, P), q)
  BY <1>1, <1>3, <1>14, <1>15, SumOfHidden
<1>17. PICK E, X, G, F \in Int :
          /\ E = SumFunctionOnSet(e, P) /\ X = MatDot(xs, y) /\ G = SumFunctionOnSet(g, P)
          /\ F = SumFunctionOnSet(f, P)
  BY <1>13, <1>16
<1>18. Congruent(E, X + G, q) /\ Congruent(F, G, q)
  BY <1>10, <1>13, <1>16, <1>17
<1>19. PICK z0 \in Int : z0 = F % q /\ Congruent(z0, F, q)
  BY <1>1, CongruentMod
<1>20. (E - z0) % q = X % q
  <2>1. Congruent(z0, G, q)
    BY <1>18, <1>19, CongruentTrans
  <2>2. PICK s, t \in Int : s = X + G /\ t = E - z0
    OBVIOUS
  <2>3. Congruent(E - z0, s - G, q)
    BY <1>18, <2>1, <2>2, CongruentSub
  <2>4. s - G = X
    BY <2>2
  <2>5. Congruent(t, X, q)
    BY <2>2, <2>3, <2>4
  <2> QED BY <1>1, <2>2, <2>5, SameRemainder
<1> QED BY <1>1, <1>11, <1>12, <1>17, <1>19, <1>20

-----------------------------------------------------------------------------
(* The decentralised multi-client scheme *)

\* What a client contributes, as numbers: its ciphertext c of x under the key (k0, k1) and
\* the hashes (g0, g1) of a label, times its coordinate of y modulo q.
LEMMA CiphertextOfClient ==
  ASSUME NEW q \in Nat, q # 0, NEW k0 \in Int, NEW k1 \in Int, NEW g0 \in Int, NEW g1 \in Int,
         NEW x \in Int, NEW y \in Int, NEW c, c = (k0 * g0 + k1 * g1 + x) % q
  PROVE  /\ c * (y % q) \in Int /\ c \in Int
         /\ Congruent(c * (y % q), y * x + (g0 * (y * k0) + g1 * (y * k1)), q)
<1>1. PICK a, b \in Int : a = k0 * g0 /\ b = k1 * g1
  OBVIOUS
<1>2. PICK s \in Int : s = a + b + x
  OBVIOUS
<1>3. s % q \in Int /\ Congruent(s % q, s, q) /\ y % q \in Int /\ Congruent(y % q, y, q)
  BY CongruentMod
<1>4. c = s % q
  BY <1>1, <1>2
<1>5. PICK u \in Int : u = y % q /\ Congruent(u, y, q)
  BY <1>3
<1>6. PICK v \in Int : v = c /\ Congruent(v, s, q)
  BY <1>3, <1>4
<1>7. Congruent(v * u, s * y, q)
  BY <1>5, <1>6, CongruentMul
<1>8. s * y = y * x + (g0 * (y * k0) + g1 * (y * k1))
  <2>1. (a + b + x) * y = a * y + b * y + x * y
    OBVIOUS
  <2>2. (k0 * g0) * y = g0 * (y * k0) /\ (k1 * g1) * y = g1 * (y * k1) /\ x * y = y * x
    OBVIOUS
  <2>3. PICK a1, b1, x1 \in Int : a1 = a * y /\ b1 = b * y /\ x1 = x * y
    OBVIOUS
  <2>4. a1 + b1 + x1 = x1 + (a1 + b1)
    OBVIOUS
  <2> QED BY <1>1, <1>2, <2>1, <2>2, <2>3, <2>4
<1>9. v * u \in Int
  OBVIOUS
<1> QED BY <1>5, <1>6, <1>7, <1>8, <1>9

\* The clients with the keys ks, the data x and the ciphertexts cs.
AreCiphertexts(c, q, P, k0, k1, g0, g1, x, y) ==
  \A i \in P : /\ k0[i] \in Int /\ k1[i] \in Int /\ x[i] \in Int /\ y[i] \in Int
               /\ c[i] = (k0[i] * g0 + k1[i] * g1 + x[i]) % q
\* What the sum of their keys, weighted by y, is.
AreWeighted(e, k, y, P) == \A i \in P : e[i] = y[i] * k[i]

\* The ciphertexts together are the sum of the data, hidden under the sum of the keys.
LEMMA SumOfCiphertexts ==
  ASSUME NEW q \in Nat, q # 0, NEW P, IsFiniteSet(P), NEW c, DOMAIN c = P,
         NEW k0, NEW k1, NEW g0 \in Int, NEW g1 \in Int, NEW x \in [P -> Int], NEW y \in [P -> Int],
         AreCiphertexts(c, q, P, k0, k1, g0, g1, x, y),
         NEW e0, NEW e1, AreWeighted(e0, k0, y, P), AreWeighted(e1, k1, y, P)
  PROVE  /\ Dot(c, VecMod(y, q)) \in Int /\ Dot(x, y) \in Int
         /\ SumFunctionOnSet(e0, P) \in Int /\ SumFunctionOnSet(e1, P) \in Int
         /\ Congruent(Dot(c, VecMod(y, q)),
                      Dot(x, y) + (g0 * SumFunctionOnSet(e0, P) + g1 * SumFunctionOnSet(e1, P)), q)
<1> DEFINE d == [i \in P |-> c[i] * (y[i] % q)]
           f == [i \in P |-> x[i] * y[i]]
           h0 == [i \in P |-> g0 * e0[i]]
           h1 == [i \in P |-> g1 * e1[i]]
           h == [i \in P |-> h0[i] + h1[i]]
           s == [i \in P |-> f[i] + h[i]]
<1>1. ASSUME NEW i \in P
      PROVE  /\ c[i] \in Int /\ d[i] \in Int /\ f[i] \in Int /\ e0[i] \in Int /\ e1[i] \in Int
             /\ h0[i] \in Int /\ h1[i] \in Int /\ h[i] \in Int /\ s[i] \in Int
             /\ h0[i] = g0 * e0[i] /\ h1[i] = g1 * e1[i] /\ h[i] = h0[i] + h1[i] /\ s[i] = f[i] + h[i]
             /\ Congruent(d[i], s[i], q)
  <2>1. PICK u0, u1, w, v \in Int : u0 = k0[i] /\ u1 = k1[i] /\ w = x[i] /\ v = y[i]
    BY DEF AreCiphertexts
  <2>2. PICK a : a = c[i]
    OBVIOUS
  <2>3. a = (u0 * g0 + u1 * g1 + w) % q
    BY <2>1, <2>2 DEF AreCiphertexts
  <2>4. /\ a * (v % q) \in Int /\ a \in Int
        /\ Congruent(a * (v % q), v * w + (g0 * (v * u0) + g1 * (v * u1)), q)
    BY <2>3, CiphertextOfClient
  <2>5. e0[i] = v * u0 /\ e1[i] = v * u1
    BY <2>1 DEF AreWeighted
  <2>6. PICK p0, p1, m \in Int : p0 = v * u0 /\ p1 = v * u1 /\ m = w * v
    OBVIOUS
  <2>7. PICK r0, r1 \in Int : r0 = g0 * p0 /\ r1 = g1 * p1
    OBVIOUS
  <2>8. f[i] = m /\ h0[i] = r0 /\ h1[i] = r1 /\ h[i] = r0 + r1 /\ s[i] = m + (r0 + r1) /\ d[i] = a * (v % q)
    BY <2>1, <2>2, <2>5, <2>6, <2>7
  <2> HIDE DEF d, f, h0, h1, h, s
  <2>9. v * w = m
    BY <2>6
  <2>10. Congruent(a * (v % q), m + (r0 + r1), q)
    BY <2>4, <2>6, <2>7, <2>9
  <2>11. /\ m \in Int /\ r0 \in Int /\ r1 \in Int /\ r0 + r1 \in Int /\ m + (r0 + r1) \in Int
         /\ p0 \in Int /\ p1 \in Int
    OBVIOUS
  <2> QED BY <2>2, <2>4, <2>5, <2>6, <2>7, <2>8, <2>10, <2>11
<1>2. Dot(x, y) = SumFunctionOnSet(f, P)
  BY DotIsSum
<1>3. Dot(c, VecMod(y, q)) = SumFunctionOnSet(d, P)
  BY DEF Dot, SumFunction, VecMod
<1> HIDE DEF d, f, h0, h1, h, s
<1>4. PICK D, F, E0, E1, H0, H1, HH, S \in Int :
         /\ D = SumFunctionOnSet(d, P) /\ F = SumFunctionOnSet(f, P)
         /\ E0 = SumFunctionOnSet(e0, P) /\ E1 = SumFunctionOnSet(e1, P)
         /\ H0 = SumFunctionOnSet(h0, P) /\ H1 = SumFunctionOnSet(h1, P)
         /\ HH = SumFunctionOnSet(h, P) /\ S = SumFunctionOnSet(s, P)
  BY <1>1, SumIsInt
<1>5. H0 = g0 * E0 /\ H1 = g1 * E1
  BY <1>1, <1>4, SumScaled
<1>6. HH = H0 + H1 /\ S = F + HH
  <2>1. HH = H0 + H1
    BY <1>1, <1>4, SumPointwise
  <2>2. S = F + HH
    BY <1>1, <1>4, SumPointwise
  <2> QED BY <2>1, <2>2
<1>7. Congruent(D, S, q)
  BY <1>1, <1>4, SumCongruent
<1> QED BY <1>2, <1>3, <1>4, <1>5, <1>6, <1>7

\* The clients of the scheme d with shares z that agree, their keys ks, their data x, which
\* is not negative, and what they have sent for the label n and for y.
AreDmcfeClients(d, z, ks, x, y, n, cs, ps, all) ==
  /\ IsSharing(z) /\ d.q = z.order /\ Rows(z) = Two /\ Cols(z) = Two
  /\ \A k \in Two : d.g1[k][n] \in Int /\ d.g2[k][y] \in Int
  /\ x \in [Clients(z) -> Nat] /\ y \in [Clients(z) -> Int] /\ DOMAIN cs = Clients(z)
  /\ DOMAIN all = Clients(z) /\ Agree(all)
  /\ \A i \in Clients(z) :
       /\ ks[i] \in [Two -> Int] /\ IsUsed(z, all[i])
       /\ DmcfeEncrypt(d, ks[i], x[i], n) = Done(cs[i])
       /\ DmcfeDeriveFeKeyPart(d, i, ks[i], ShareOf(z, i, all[i]), y) = Done(ps[i])

\* The parts of a key add up to the sum of the keys of the clients, weighted by y.
LEMMA DmcfeKeySum ==
  ASSUME NEW d, NEW z, NEW ks, NEW x, NEW y, NEW n, NEW cs, NEW ps, NEW all,
         AreDmcfeClients(d, z, ks, x, y, n, cs, ps, all), NEW j \in Two,
         NEW f, NEW e, f = [i \in DOMAIN y |-> ps[i][j]], e = [i \in Clients(z) |-> y[i] * ks[i][j]]
  PROVE  /\ SumFunction(f) \in Int /\ SumFunctionOnSet(e, Clients(z)) \in Int
         /\ Congruent(SumFunction(f), SumFunctionOnSet(e, Clients(z)), d.q)
<1> DEFINE w == [k \in Two |-> d.g2[k][y]]
           sh == [i \in Clients(z) |-> ShareOf(z, i, all[i])]
           g == [i \in Clients(z) |-> Dot(sh[i][j], w)]
<1>1. PICK q, P : q \in Nat /\ q = d.q /\ q = z.order /\ q # 0 /\ P = Clients(z) /\ IsFiniteSet(P)
  BY SharingFacts DEF AreDmcfeClients, IsSharing
<1>2. DOMAIN y = P /\ w \in [Two -> Int] /\ Rows(z) = Two /\ Cols(z) = Two
  BY <1>1 DEF AreDmcfeClients
<1>3. IsFiniteSet(Two)
  <2>1. PICK a, b \in Int : a = 0 /\ b = 1
    OBVIOUS
  <2>2. IsFiniteSet(a..b)
    BY FS_Interval
  <2> QED BY <2>1, <2>2 DEF Two
<1>4. \A i \in P : f[i] = (e[i] + g[i]) % q /\ e[i] \in Int
  <2> SUFFICES ASSUME NEW i \in P PROVE f[i] = (e[i] + g[i]) % q /\ e[i] \in Int
    OBVIOUS
  <2>1. ps[i] = [k \in Two |-> (Dot(ShareOf(z, i, all[i])[k], w) + y[i] * ks[i][k]) % q]
    BY <1>1 DEF AreDmcfeClients, DmcfeDeriveFeKeyPart, Done
  <2>2. sh[i] = ShareOf(z, i, all[i]) /\ g[i] = Dot(sh[i][j], w)
    BY <1>1
  <2>3. PICK b, c \in Int : b = y[i] /\ c = ks[i][j]
    BY <1>1 DEF AreDmcfeClients
  <2>4. e[i] = b * c /\ b * c \in Int
    BY <1>1, <2>3
  <2> HIDE DEF w, sh, g
  <2>5. f[i] = ps[i][j]
    BY <1>2
  <2>6. ps[i][j] = (g[i] + b * c) % q
    BY <2>1, <2>2, <2>3
  <2>7. g[i] \in Int
    <3>1. sh[i][j] \in [Two -> Int]
      <4>1. PICK u : u = all[i] /\ IsUsed(z, u)
        BY <1>1 DEF AreDmcfeClients
      <4>2. ASSUME NEW c1 \in Cols(z) PROVE ShareOf(z, i, u)[j][c1] \in Int
        <5>1. PICK v : v = [k \in Clients(z) \ {i} |-> Weight(z, i, k, u[k], j, c1)]
          OBVIOUS
        <5>2. AreWeights(v, z, i, u, j, c1)
          BY <5>1 DEF AreWeights
        <5>3. IsSharing(z) /\ i \in Clients(z) /\ j \in Rows(z) /\ c1 \in Cols(z)
          BY <1>1, <1>2 DEF AreDmcfeClients
        <5> QED BY <4>1, <5>2, <5>3, ShareEntry
      <4>3. ShareOf(z, i, u)[j] = [c1 \in Cols(z) |-> ShareOf(z, i, u)[j][c1]]
        BY <1>2 DEF ShareOf
      <4> QED BY <1>2, <2>2, <4>1, <4>2, <4>3
    <3> QED BY <1>2, <1>3, <2>2, <3>1, DotIsInt
  <2>8. g[i] + b * c = b * c + g[i]
    BY <2>4, <2>7
  <2> QED BY <2>4, <2>5, <2>6, <2>8
<1>5. \E v, t : AreDots(g, v, w, P) /\ AreZeroSums(t, v, P, Two, q)
  <2>1. \A i \in Clients(z) : sh[i] = ShareOf(z, i, all[i])
    OBVIOUS
  <2>2. \A i \in P : g[i] = Dot(sh[i][j], w)
    BY <1>1
  <2> HIDE DEF w, sh, g
  <2>3. AreZeroMatrices(sh, P, Two, Two, q)
    <3>1. AreZeroMatrices(sh, Clients(z), Rows(z), Cols(z), z.order)
      BY <2>1, SharesAreZero DEF AreDmcfeClients
    <3> QED BY <1>1, <1>2, <3>1
  <2>4. PICK v, t : (\A i \in P : v[i] = sh[i][j]) /\ AreZeroSums(t, v, P, Two, q)
    BY <2>3 DEF AreZeroMatrices
  <2> QED BY <2>2, <2>4 DEF AreDots
<1> HIDE DEF w, sh, g
<1>6. /\ \A i \in P : g[i] \in Int
      /\ SumFunctionOnSet(g, P) \in Int /\ Congruent(SumFunctionOnSet(g, P), 0, q)
  <2>1. PICK v, t : AreDots(g, v, w, P) /\ AreZeroSums(t, v, P, Two, q)
    BY <1>5
  <2> QED BY <1>1, <1>2, <1>3, <2>1, DotsOfZeros
<1>7. AreHidden(f, e, g, P, q)
  BY <1>4, <1>6 DEF AreHidden
<1>8. /\ SumFunctionOnSet(f, P) \in Int /\ SumFunctionOnSet(e, P) \in Int
      /\ Congruent(SumFunctionOnSet(f, P), SumFunctionOnSet(e, P), q)
  BY <1>1, <1>6, <1>7, SumOfHidden
<1>9. SumFunction(f) = SumFunctionOnSet(f, P)
  BY <1>2 DEF SumFunction
<1> QED BY <1>1, <1>8, <1>9

\* Masks and shares cancel: the search is for the inner product.
LEMMA DmcfeCancels ==
  ASSUME NEW d, NEW z, NEW ks, NEW x, NEW y, NEW n, NEW cs, NEW ps, NEW all, NEW bound,
         AreDmcfeClients(d, z, ks, x, y, n, cs, ps, all)
  PROVE  /\ Dot(x, y) \in Int
         /\ DmcfeDecrypt(d, cs, ps, n, y, bound)
              = SearchGT(d.q, Dot(x, y) % d.q, bound * bound * Cardinality(Clients(z)))
<1> DEFINE gs == [k \in Two |-> d.g1[k][n]]
           fkey == [k \in Two |-> SumFunction([i \in DOMAIN y |-> ps[i][k]])]
           k0 == [i \in Clients(z) |-> ks[i][0]]
           k1 == [i \in Clients(z) |-> ks[i][1]]
           e0 == [i \in Clients(z) |-> y[i] * ks[i][0]]
           e1 == [i \in Clients(z) |-> y[i] * ks[i][1]]
<1>1. PICK q, P : q \in Nat /\ q = d.q /\ q = z.order /\ q # 0 /\ P = Clients(z) /\ IsFiniteSet(P)
  BY SharingFacts DEF AreDmcfeClients, IsSharing
<1>2. DOMAIN y = P /\ DOMAIN cs = P /\ x \in [P -> Int] /\ y \in [P -> Int] /\ gs \in [Two -> Int]
  BY <1>1 DEF AreDmcfeClients
<1>3. 0 \in Two /\ 1 \in Two
  BY DEF Two
<1>4. PICK g0, g1 \in Int : g0 = gs[0] /\ g1 = gs[1]
  BY <1>2, <1>3
<1>5. DmcfeDecrypt(d, cs, ps, n, y, bound)
        = SearchGT(q, (Dot(cs, VecMod(y, q)) - Dot(fkey, gs)) % q, bound * bound * Cardinality(P))
  BY <1>1, <1>2 DEF DmcfeDecrypt
<1>6. /\ fkey[0] \in Int /\ SumFunctionOnSet(e0, P) \in Int
      /\ Congruent(fkey[0], SumFunctionOnSet(e0, P), q)
  <2>1. PICK f : f = [i \in DOMAIN y |-> ps[i][0]] /\ fkey[0] = SumFunction(f)
    BY <1>3
  <2>2. PICK e : e = e0 /\ e = [i \in Clients(z) |-> y[i] * ks[i][0]]
    OBVIOUS
  <2> HIDE DEF fkey, e0
  <2>3. /\ SumFunction(f) \in Int /\ SumFunctionOnSet(e, Clients(z)) \in Int
        /\ Congruent(SumFunction(f), SumFunctionOnSet(e, Clients(z)), d.q)
    BY <1>3, <2>1, <2>2, DmcfeKeySum
  <2> QED BY <1>1, <2>1, <2>2, <2>3
<1>7. /\ fkey[1] \in Int /\ SumFunctionOnSet(e1, P) \in Int
      /\ Congruent(fkey[1], SumFunctionOnSet(e1, P), q)
  <2>1. PICK f : f = [i \in DOMAIN y |-> ps[i][1]] /\ fkey[1] = SumFunction(f)
    BY <1>3
  <2>2. PICK e : e = e1 /\ e = [i \in Clients(z) |-> y[i] * ks[i][1]]
    OBVIOUS
  <2> HIDE DEF fkey, e1
  <2>3. /\ SumFunction(f) \in Int /\ SumFunctionOnSet(e, Clients(z)) \in Int
        /\ Congruent(SumFunction(f), SumFunctionOnSet(e, Clients(z)), d.q)
    BY <1>3, <2>1, <2>2, DmcfeKeySum
  <2> QED BY <1>1, <2>1, <2>2, <2>3
<1>8. AreCiphertexts(cs, q, P, k0, k1, g0, g1, x, y)
  <2> SUFFICES ASSUME NEW i \in P
               PROVE  /\ k0[i] \in Int /\ k1[i] \in Int /\ x[i] \in Int /\ y[i] \in Int
                      /\ cs[i] = (k0[i] * g0 + k1[i] * g1 + x[i]) % q
    BY DEF AreCiphertexts
  <2>1. PICK k : k = ks[i] /\ k \in [Two -> Int]
    BY <1>1 DEF AreDmcfeClients
  <2>2. PICK v \in Nat : v = x[i]
    BY <1>1 DEF AreDmcfeClients
  <2>3. k0[i] = k[0] /\ k1[i] = k[1] /\ k[0] \in Int /\ k[1] \in Int /\ y[i] \in Int
    BY <1>1, <1>2, <1>3, <2>1
  <2>4. cs[i] = (Dot(k, gs) + v) % q
    <3>1. DmcfeEncrypt(d, k, v, n) = Done(cs[i])
      BY <1>1, <2>1, <2>2 DEF AreDmcfeClients
    <3>2. DmcfeEncrypt(d, k, v, n) = Done((Dot(k, gs) + BigFromMpz(v, d.wrap)) % d.q)
      BY DEF DmcfeEncrypt
    <3>3. BigFromMpz(v, d.wrap) = v
      BY DEF BigFromMpz
    <3> HIDE DEF gs
    <3> QED BY <1>1, <3>1, <3>2, <3>3 DEF Done
  <2> HIDE DEF gs, k0, k1
  <2>5. Dot(k, gs) = k[0] * g0 + k[1] * g1
    BY <1>2, <1>4, <2>1, DotOfTwo
  <2> QED BY <2>2, <2>3, <2>4, <2>5
<1>9. AreWeighted(e0, k0, y, P) /\ AreWeighted(e1, k1, y, P)
  BY <1>1 DEF AreWeighted
<1>10. Dot(fkey, gs) = fkey[0] * g0 + fkey[1] * g1
  <2>1. fkey \in [Two -> Int]
    <3>1. \A k \in Two : k = 0 \/ k = 1
      BY DEF Two
    <3>2. \A k \in Two : fkey[k] \in Int
      BY <1>6, <1>7, <3>1
    <3> QED BY <3>2
  <2> HIDE DEF fkey, gs
  <2> QED BY <1>2, <1>4, <2>1, DotOfTwo
<1> HIDE DEF gs, fkey, k0, k1, e0, e1
<1>11. /\ Dot(cs, VecMod(y, q)) \in Int /\ Dot(x, y) \in Int
       /\ SumFunctionOnSet(e0, P) \in Int /\ SumFunctionOnSet(e1, P) \in Int
       /\ Congruent(Dot(cs, VecMod(y, q)),
                    Dot(x, y) + (g0 * SumFunctionOnSet(e0, P) + g1 * SumFunctionOnSet(e1, P)), q)
  BY <1>1, <1>2, <1>8, <1>9, SumOfCiphertexts
<1>12. PICK C, X, E0, E1, K0, K1 \in Int :
          /\ C = Dot(cs, VecMod(y, q)) /\ X = Dot(x, y)
          /\ E0 = SumFunctionOnSet(e0, P) /\ E1 = SumFunctionOnSet(e1, P)
          /\ K0 = fkey[0] /\ K1 = fkey[1]
  BY <1>6, <1>7, <1>11
<1>13. /\ Congruent(C, X + (g0 * E0 + g1 * E1), q)
       /\ Congruent(K0, E0, q) /\ Congruent(K1, E1, q)
  BY <1>6, <1>7, <1>11, <1>12
<1>14. PICK a0, a1, b0, b1 \in Int : a0 = g0 * E0 /\ a1 = g1 * E1 /\ b0 = g0 * K0 /\ b1 = g1 * K1
                                     /\ Congruent(b0, a0, q) /\ Congruent(b1, a1, q)
  <2>1. Congruent(g0 * K0, g0 * E0, q) /\ Congruent(g1 * K1, g1 * E1, q)
    BY <1>1, <1>13, CongruentMul, CongruentRefl
  <2>2. g0 * E0 \in Int /\ g1 * E1 \in Int /\ g0 * K0 \in Int /\ g1 * K1 \in Int
    OBVIOUS
  <2> QED BY <2>1, <2>2
<1>15. PICK a, b \in Int : a = a0 + a1 /\ b = b0 + b1 /\ Congruent(b, a, q)
  <2>1. Congruent(b0 + b1, a0 + a1, q)
    BY <1>1, <1>14, CongruentAdd
  <2> QED BY <2>1
<1>16. Dot(fkey, gs) = b
  <2>1. K0 * g0 = g0 * K0 /\ K1 * g1 = g1 * K1
    OBVIOUS
  <2> QED BY <1>10, <1>12, <1>14, <1>15, <2>1
<1>17. (C - b) % q = X % q
  <2>1. PICK s, t \in Int : s = X + a /\ t = C - b
    OBVIOUS
  <2>2. Congruent(C, s, q)
    BY <1>13, <1>14, <1>15, <2>1
  <2>3. Congruent(C - b, s - a, q)
    BY <1>1, <1>15, <2>2, CongruentSub
  <2>4. s - a = X
    BY <2>1
  <2>5. Congruent(t, X, q)
    BY <2>1, <2>3, <2>4
  <2> QED BY <1>1, <2>1, <2>5, SameRemainder
<1> QED BY <1>1, <1>5, <1>11, <1>12, <1>16, <1>17

-----------------------------------------------------------------------------
(* The machines *)

\* An instance has shares, and its Diffie-Hellman secrets are numbers.
LEMMA InstanceFacts ==
  ASSUME IsInstance(inst)
  PROVE  /\ IsSharing(inst.z) /\ 0 \in Elements(inst.z) /\ Parties = Clients(inst.z)
         /\ inst.dh \subseteq Int
<1>1. IsSharing(inst.z) /\ inst.dh \subseteq Elements(inst.z)
  BY DEF IsInstance, IsSharing
<1>2. \A e \in Elements(inst.z) : e \in Int
  BY <1>1 DEF Elements, IsSharing
<1> QED BY <1>1, <1>2, SharingFacts DEF Parties

\* The invariant holds before the first call.
LEMMA InitSharing ==
  ASSUME Init PROVE SharingInv
<1>1. IsInstance(inst)
  BY InstanceAssumption DEF Init
<1>2. IsSharing(inst.z) /\ Parties = Clients(inst.z)
  BY <1>1, InstanceFacts
<1>3. \A i \in Parties : IsUsed(inst.z, used[i]) /\ share[i] = ShareOf(inst.z, i, used[i])
  <2> TAKE i \in Parties
  <2>1. used[i] = NoneUsed(inst.z) /\ share[i] = ZeroShare(inst.z)
    BY DEF Init
  <2> QED BY <1>2, <2>1, FreshShare
<1>4. /\ secret \in [Parties -> inst.dh \cup {0}] /\ published \in [Parties -> SUBSET inst.dh]
      /\ DOMAIN share = Parties /\ DOMAIN used = Parties
  BY DEF Init
<1> QED BY <1>1, <1>3, <1>4 DEF SharingInv, SharingOK

\* A client that starts over has the share of one that has used nothing; the shares of
\* the others stay as they are.
LEMMA StartOverSharing ==
  ASSUME SharingInv, NEW i \in Parties, NEW dh \in inst.dh, StartOver(i, dh), inst' = inst
  PROVE  SharingInv'
<1>1. IsInstance(inst) /\ IsSharing(inst.z) /\ Parties = Clients(inst.z)
  BY InstanceFacts DEF SharingInv
<1>2. Parties' = Parties /\ IsInstance(inst)'
  BY <1>1 DEF Parties
<1>3. ASSUME NEW k \in Parties
      PROVE  IsUsed(inst.z, used'[k]) /\ share'[k] = ShareOf(inst.z, k, used'[k])
  <2>1. CASE k = i
    <3>1. used'[k] = NoneUsed(inst.z) /\ share'[k] = ZeroShare(inst.z)
      BY <2>1 DEF StartOver, SharingInv, SharingOK
    <3> QED BY <1>1, <3>1, FreshShare
  <2>2. CASE k # i
    BY <2>2 DEF StartOver, SharingInv, SharingOK
  <2> QED BY <2>1, <2>2
<1>4. /\ secret' \in [Parties -> inst.dh \cup {0}] /\ published' \in [Parties -> SUBSET inst.dh]
      /\ DOMAIN share' = Parties /\ DOMAIN used' = Parties
  BY DEF StartOver, SharingInv, SharingOK
<1> QED BY <1>2, <1>3, <1>4 DEF SharingInv, SharingOK

\* A client that sets its share, with whatever public keys it has received.
LEMMA SetShareSharing ==
  ASSUME SharingInv, NEW i \in Parties, NEW pks \in Received, SetShareOf(i, pks)
  PROVE  SharingInv'
<1>1. IsInstance(inst) /\ IsSharing(inst.z) /\ Parties = Clients(inst.z) /\ inst.dh \subseteq Int
  BY InstanceFacts DEF SharingInv
<1>2. Parties' = Parties /\ IsInstance(inst)' /\ inst' = inst
  BY <1>1 DEF Parties, SetShareOf
<1>3. secret[i] \in Int /\ \A k \in Parties : pks[k] \in Int
  <2>1. secret[i] \in inst.dh \cup {0}
    BY DEF SharingInv, SharingOK
  <2>2. ASSUME NEW k \in Parties PROVE pks[k] \in Int
    <3>1. pks[k] \in published[k] /\ published[k] \subseteq inst.dh
      BY DEF Received, SharingInv, SharingOK
    <3> QED BY <1>1, <3>1
  <2> QED BY <1>1, <2>1, <2>2
<1>4. ASSUME NEW k \in Parties
      PROVE  IsUsed(inst.z, used'[k]) /\ share'[k] = ShareOf(inst.z, k, used'[k])
  <2>1. IsUsed(inst.z, used[k]) /\ share[k] = ShareOf(inst.z, k, used[k])
    BY DEF SharingInv, SharingOK
  <2>2. CASE k = i
    <3>1. PICK u : u = used[i]
      OBVIOUS
    <3>2. /\ used'[k] = Use(inst.z, i, secret[i], u, pks)
          /\ share'[k] = SetShare(inst.z, i, secret[i], ShareOf(inst.z, i, u), pks)
      BY <2>1, <2>2, <3>1 DEF SetShareOf, SharingInv, SharingOK
    <3>3. IsUsed(inst.z, u)
      BY <2>1, <2>2, <3>1
    <3>4. PICK sk \in Int : sk = secret[i]
      BY <1>3
    <3>5. /\ IsUsed(inst.z, Use(inst.z, i, sk, u, pks))
          /\ SetShare(inst.z, i, sk, ShareOf(inst.z, i, u), pks)
               = ShareOf(inst.z, i, Use(inst.z, i, sk, u, pks))
      BY <1>1, <1>3, <3>3, NextShare
    <3> QED BY <2>2, <3>2, <3>4, <3>5
  <2>3. CASE k # i
    BY <2>1, <2>3 DEF SetShareOf, SharingInv, SharingOK
  <2> QED BY <2>2, <2>3
<1>5. /\ secret' \in [Parties -> inst.dh \cup {0}] /\ published' \in [Parties -> SUBSET inst.dh]
      /\ DOMAIN share' = Parties /\ DOMAIN used' = Parties
  BY DEF SetShareOf, SharingInv, SharingOK
<1> QED BY <1>2, <1>4, <1>5 DEF SharingInv, SharingOK

\* Whatever leaves the shares alone keeps the invariant.
LEMMA OtherSharing ==
  ASSUME SharingInv, UNCHANGED <<inst, sharing>>
  PROVE  SharingInv'
BY DEF SharingInv, SharingOK, sharing, Parties, IsInstance

\* The invariant is inductive.
LEMMA NextSharing ==
  ASSUME SharingInv, [Next]_vars
  PROVE  SharingInv'
<1>1. ASSUME NEW i \in Parties, NEW dh \in inst.dh, DamgardClientInit(i, dh)
      PROVE  SharingInv'
  BY <1>1, StartOverSharing DEF DamgardClientInit
<1>2. ASSUME NEW i \in Parties, NEW dh \in inst.dh, NEW k \in inst.keys, DmcfeClientInit(i, dh, k)
      PROVE  SharingInv'
  BY <1>2, StartOverSharing DEF DmcfeClientInit
<1>3. ASSUME NEW i \in Parties, NEW k \in inst.keys, GenerateKeys(i, k)
      PROVE  SharingInv'
  BY <1>3, OtherSharing DEF GenerateKeys
<1>4. ASSUME NEW i \in Parties, NEW pks \in Received, SetShareOf(i, pks)
      PROVE  SharingInv'
  BY <1>4, SetShareSharing
<1>5. ASSUME NEW i \in Parties, NEW x \in inst.xs, NEW n \in inst.nonces, Encrypt(i, x, n)
      PROVE  SharingInv'
  BY <1>5, OtherSharing DEF Encrypt
<1>6. ASSUME NEW i \in Parties, NEW y \in inst.ys, DeriveFeKeyPart(i, y)
      PROVE  SharingInv'
  BY <1>6, OtherSharing DEF DeriveFeKeyPart
<1>7. ASSUME NEW n \in inst.nonces, NEW y \in inst.ys, Decrypt(n, y)
      PROVE  SharingInv'
  BY <1>7, OtherSharing DEF Decrypt
<1>8. ASSUME UNCHANGED vars PROVE SharingInv'
  BY <1>8, OtherSharing DEF vars
<1> QED BY <1>1, <1>2, <1>3, <1>4, <1>5, <1>6, <1>7, <1>8 DEF Next

\* Every share is what its client has used, after any calls and restarts
\* (damgard_dec_multi.c:65-77, dmcfe.c:69-78).
THEOREM SharesAreUsed == Spec => []SharingInv
<1>1. Init => SharingInv
  BY InitSharing
<1>2. SharingInv /\ [Next]_vars => SharingInv'
  BY NextSharing
<1> QED BY <1>1, <1>2, PTL DEF Spec

\* Whenever every two clients have used the same elements for each other, their shares
\* are zero together (damgard_dec_multi.c:45-80, dmcfe.c:52-81).
THEOREM Cancellation == Spec => []SharesCancel
<1>1. ASSUME SharingInv PROVE SharesCancel
  <2>1. SUFFICES ASSUME Agree(used), NEW r \in Rows(inst.z), NEW c \in Cols(inst.z)
                 PROVE  SumFunction([i \in Parties |-> share[i][r][c]]) % inst.z.order = 0
    BY DEF SharesCancel
  <2> DEFINE t == [i \in Parties |-> share[i][r][c]]
  <2>2. IsSharing(inst.z) /\ Parties = Clients(inst.z)
    BY <1>1, InstanceFacts DEF SharingInv
  <2>3. /\ DOMAIN used = Clients(inst.z)
        /\ \A i \in Clients(inst.z) : IsUsed(inst.z, used[i])
    BY <1>1, <2>2 DEF SharingInv, SharingOK
  <2>4. t = [i \in Clients(inst.z) |-> ShareOf(inst.z, i, used[i])[r][c]]
    BY <1>1, <2>2 DEF SharingInv, SharingOK
  <2>5. SumFunction(t) = SumFunctionOnSet(t, Clients(inst.z))
    BY <2>2 DEF SumFunction
  <2> HIDE DEF t
  <2>6. SumFunctionOnSet(t, Clients(inst.z)) % inst.z.order = 0
    BY <2>1, <2>2, <2>3, <2>4, SharesOfAgree
  <2> QED BY <2>5, <2>6 DEF t
<1> QED BY <1>1, SharesAreUsed, PTL

-----------------------------------------------------------------------------
(* The operations of the scheme that is run *)

\* The instances of the decentralised Damgard scheme: what the set-up makes of the
\* parameters, and the types of keys, data and randomness.
LEMMA DecMultiInstance ==
  ASSUME IsInstance(inst), ~IsDmcfe
  PROVE  /\ IsDecMulti(inst.m, inst.z.order) /\ inst.m.scheme.grp.q = inst.z.order
         /\ inst.m.bound = inst.bound /\ inst.m.n = inst.z.n /\ inst.bound \in Nat
         /\ Rows(inst.z) = Clients(inst.z) /\ Cols(inst.z) = 1..inst.m.scheme.l
         /\ \A k \in inst.keys : IsDecMultiKey(inst.m, k)
         /\ inst.xs \subseteq [1..inst.m.scheme.l -> Int] /\ inst.nonces \subseteq Int
         /\ inst.ys \subseteq [Clients(inst.z) -> [1..inst.m.scheme.l -> Int]]
<1>1. inst.scheme = "damgard_dec_multi"
  BY DEF IsInstance, IsDmcfe
<1>2. /\ inst.z.n \in Nat \ {0} /\ inst.z.order \in Nat \ {0} /\ inst.bound \in Nat
      /\ inst.m.scheme.l \in Nat \ {0} /\ inst.m.scheme.hexp \in Nat
      /\ inst.m.scheme.grp.q = inst.z.order
      /\ DamgardMultiNew(inst.z.n, inst.m.scheme.grp, inst.m.scheme.l, inst.bound, inst.m.scheme.hexp)
           = Done(inst.m)
      /\ Rows(inst.z) = Clients(inst.z) /\ Cols(inst.z) = 1..inst.m.scheme.l
      /\ inst.keys \subseteq DecMultiSecretKeys(inst.m, DamgardSecretRange(inst.m.scheme.grp),
                                                Elements(inst.z))
      /\ inst.nonces \subseteq DamgardNonceRange(inst.m.scheme.grp)
      /\ inst.xs \subseteq [1..inst.m.scheme.l -> Int]
      /\ inst.ys \subseteq [Clients(inst.z) -> [1..inst.m.scheme.l -> Int]]
  BY <1>1 DEF IsInstance
<1>3. PICK q, l, b, g, h :
         /\ q \in Nat /\ l \in Nat /\ b \in Nat
         /\ q = inst.z.order /\ q # 0 /\ l = inst.m.scheme.l /\ l # 0 /\ b = inst.bound
         /\ g = inst.m.scheme.grp /\ h = inst.m.scheme.hexp /\ g.q = q /\ h \in Nat
  BY <1>2
<1>4. DamgardMultiNew(inst.z.n, g, l, b, h) = Done(inst.m)
  BY <1>2, <1>3
<1>5. ~(2 * l * b * b >= q)
  BY <1>3, <1>4 DEF DamgardMultiNew, DamgardNew, Done, Failed
<1>6. inst.m = [n |-> inst.z.n, bound |-> b,
                scheme |-> [[grp |-> g, l |-> l, bound |-> b, hexp |-> h] EXCEPT !.bound = q]]
  BY <1>3, <1>4, <1>5 DEF DamgardMultiNew, DamgardNew, Done, Failed
<1>7. inst.m.bound = b /\ inst.m.n = inst.z.n /\ inst.m.scheme.bound = q
  BY <1>6
<1>8. b <= q
  <2>1. PICK c \in Nat : c = 2 * l * b /\ b <= c
    <3>1. PICK e \in Nat : e = 2 * l /\ e >= 1
      BY <1>3
    <3>2. e * b = (e - 1) * b + b
      <4>1. \A m, n \in Int : m * n = (m - 1) * n + n
        OBVIOUS
      <4>2. e \in Int /\ b \in Int
        BY <1>3
      <4> QED BY <4>1, <4>2
    <3>3. \A m, n \in Nat : m * n >= 0
      OBVIOUS
    <3>4. (e - 1) * b >= 0
      <4>1. e - 1 \in Nat
        BY <3>1
      <4> QED BY <1>3, <3>3, <4>1
    <3>5. e * b \in Nat
      BY <1>3
    <3>6. b <= e * b
      <4>1. PICK a, d \in Int : a = (e - 1) * b /\ d = e * b
        BY <1>3
      <4> QED BY <1>3, <3>2, <3>4, <4>1
    <3> QED BY <3>1, <3>5, <3>6
  <2>2. CASE b = 0
    BY <1>3, <2>2
  <2>3. CASE b # 0
    <3>1. c * b = c * (b - 1) + c
      BY <1>3
    <3>2. \A m, n \in Nat : m * n >= 0
      OBVIOUS
    <3>3. c * (b - 1) >= 0
      <4>1. b - 1 \in Nat
        BY <1>3, <2>3
      <4> QED BY <3>2, <4>1
    <3>4. PICK a, d \in Int : a = c * (b - 1) /\ d = c * b
      BY <1>3
    <3>5. d < q
      BY <1>3, <1>5, <2>1, <3>4
    <3> QED BY <1>3, <2>1, <3>1, <3>3, <3>4, <3>5
  <2> QED BY <2>2, <2>3
<1>9. IsDecMulti(inst.m, q)
  BY <1>2, <1>3, <1>7, <1>8 DEF IsDecMulti
<1>10. Modulus(g) \in Int
  BY <1>3 DEF Modulus
<1>11. inst.nonces \subseteq Int
  BY <1>2, <1>3, <1>10 DEF DamgardNonceRange
<1>12. ASSUME NEW k \in inst.keys PROVE IsDecMultiKey(inst.m, k)
  <2>1. k.dam \in [s : [1..l -> DamgardSecretRange(g)], t : [1..l -> DamgardSecretRange(g)]]
        /\ k.otp \in [1..l -> Elements(inst.z)]
    BY <1>2, <1>3 DEF DecMultiSecretKeys, DamgardSecretKeys
  <2>2. k.dam.s \in [1..l -> DamgardSecretRange(g)] /\ k.dam.t \in [1..l -> DamgardSecretRange(g)]
    BY <2>1
  <2>3. DamgardSecretRange(g) \subseteq Int /\ Elements(inst.z) \subseteq Int
    BY <1>2, <1>10 DEF DamgardSecretRange, Elements
  <2> QED BY <1>3, <2>1, <2>2, <2>3 DEF IsDecMultiKey
<1> QED BY <1>2, <1>3, <1>7, <1>9, <1>11, <1>12

\* The instances of the decentralised multi-client scheme.
LEMMA DmcfeInstance ==
  ASSUME IsInstance(inst), IsDmcfe
  PROVE  /\ inst.d.q = inst.z.order /\ inst.bound \in Nat /\ Rows(inst.z) = Two /\ Cols(inst.z) = Two
         /\ \A k \in Two : \A n \in inst.nonces : inst.d.g1[k][n] \in Int
         /\ \A k \in Two : \A y \in inst.ys : inst.d.g2[k][y] \in Int
         /\ inst.keys \subseteq [Two -> Int]
         /\ inst.xs \subseteq Int /\ inst.ys \subseteq [Clients(inst.z) -> Int]
<1>1. /\ inst.z.order \in Nat \ {0} /\ inst.bound \in Nat
      /\ inst.d.q = inst.z.order /\ Rows(inst.z) = Two /\ Cols(inst.z) = Two
      /\ inst.d.g1 \in [Two -> [inst.nonces -> Elements(inst.z)]]
      /\ inst.d.g2 \in [Two -> [inst.ys -> Elements(inst.z)]]
      /\ inst.keys \subseteq DmcfeSecretKeys(inst.d)
      /\ inst.xs \subseteq Int /\ inst.ys \subseteq [Clients(inst.z) -> Int]
  BY DEF IsInstance, IsDmcfe
<1>2. Elements(inst.z) \subseteq Int /\ 0..(inst.d.q - 1) \subseteq Int
  BY <1>1 DEF Elements
<1>3. inst.keys \subseteq [Two -> Int]
  BY <1>1, <1>2 DEF DmcfeSecretKeys
<1> QED BY <1>1, <1>2, <1>3

\* A number is at most as large as its bound says, also in the search for it.
LEMMA ClientCount ==
  ASSUME IsInstance(inst)
  PROVE  IsFiniteSet(Parties) /\ inst.z.n \in Nat /\ Cardinality(Parties) = inst.z.n
<1>1. PICK n \in Nat : n = inst.z.n /\ n # 0
  BY DEF IsInstance
<1>2. PICK m \in Int : m = n - 1
  OBVIOUS
<1>3. PICK z0 \in Int : z0 = 0
  OBVIOUS
<1>4. IsFiniteSet(z0..m) /\ Cardinality(z0..m) = IF z0 > m THEN 0 ELSE m - z0 + 1
  BY FS_Interval
<1>5. Parties = z0..m
  BY <1>1, <1>2, <1>3 DEF Parties, Clients
<1> QED BY <1>1, <1>2, <1>3, <1>4, <1>5

\* The codes that the calls return, and what a call that returns no error returns.
LEMMA CallCodes ==
  /\ \A k, x, n : /\ Ciphertext(k, x, n).err \in {"NONE", "BOUND_CHECK_FAILED"}
                  /\ Ciphertext(k, x, n).err = "NONE"
                       => Ciphertext(k, x, n) = Done(Ciphertext(k, x, n).res)
  /\ \A i, k, sh, y : /\ FeKeyPart(i, k, sh, y).err \in {"NONE", "BOUND_CHECK_FAILED"}
                      /\ FeKeyPart(i, k, sh, y).err = "NONE"
                           => FeKeyPart(i, k, sh, y) = Done(FeKeyPart(i, k, sh, y).res)
  /\ \A cs, ps, n, y :
       Plaintext(cs, ps, n, y).err \in {"NONE", "BOUND_CHECK_FAILED", "DLOG_NOT_FOUND"}
<1>1. ASSUME NEW k, NEW x, NEW n
      PROVE  /\ Ciphertext(k, x, n).err \in {"NONE", "BOUND_CHECK_FAILED"}
             /\ Ciphertext(k, x, n).err = "NONE"
                  => Ciphertext(k, x, n) = Done(Ciphertext(k, x, n).res)
  BY DEF Ciphertext, DmcfeEncrypt, DecMultiEncrypt, DamgardEncrypt, Done, Failed
<1>2. ASSUME NEW i, NEW k, NEW sh, NEW y
      PROVE  /\ FeKeyPart(i, k, sh, y).err \in {"NONE", "BOUND_CHECK_FAILED"}
             /\ FeKeyPart(i, k, sh, y).err = "NONE"
                  => FeKeyPart(i, k, sh, y) = Done(FeKeyPart(i, k, sh, y).res)
  BY DEF FeKeyPart, DmcfeDeriveFeKeyPart, DecMultiDeriveFeKeyPart, Done, Failed
<1>3. ASSUME NEW cs, NEW ps, NEW n, NEW y
      PROVE  Plaintext(cs, ps, n, y).err \in {"NONE", "BOUND_CHECK_FAILED", "DLOG_NOT_FOUND"}
  <2>1. DmcfeDecrypt(inst.d, cs, ps, n, y, inst.bound).err \in {"NONE", "DLOG_NOT_FOUND"}
    BY SearchGTCodes DEF DmcfeDecrypt
  <2>2. \A m, c, k : DamgardMultiDecrypt(m, c, k, y).err
                        \in {"NONE", "BOUND_CHECK_FAILED", "DLOG_NOT_FOUND"}
    BY SearchCodes DEF DamgardMultiDecrypt, Failed
  <2>3. DecMultiDecrypt(inst.m, cs, ps, y).err \in {"NONE", "BOUND_CHECK_FAILED", "DLOG_NOT_FOUND"}
    BY <2>2 DEF DecMultiDecrypt, Failed
  <2> QED BY <2>1, <2>3 DEF Plaintext
<1> QED BY <1>1, <1>2, <1>3

\* Ciphertexts cs of the data xs and parts ps of a key for y that belong together: made
\* with the keys ks, with the label n, and hidden under shares that agree.
BelongTogether(ks, xs, y, n, cs, ps, all) ==
  /\ ks \in [Parties -> inst.keys] /\ xs \in [Parties -> inst.xs]
  /\ y \in inst.ys /\ n \in inst.nonces
  /\ DOMAIN cs = Parties /\ DOMAIN all = Parties /\ Agree(all)
  /\ \A i \in Parties :
       /\ IsUsed(inst.z, all[i])
       /\ \E r \in inst.nonces : /\ IsDmcfe => r = n
                                /\ Ciphertext(ks[i], xs[i], r) = Done(cs[i])
       /\ FeKeyPart(i, ks[i], ShareOf(inst.z, i, all[i]), y) = Done(ps[i])

\* What the search of the decentralised Damgard scheme returns for them.
LEMMA DecMultiPlaintext ==
  ASSUME IsInstance(inst), ~IsDmcfe, NEW ks, NEW xs, NEW y, NEW n, NEW cs, NEW ps, NEW all,
         BelongTogether(ks, xs, y, n, cs, ps, all), NEW r, r = Plaintext(cs, ps, n, y),
         r.err # "BOUND_CHECK_FAILED", MatBounded(xs, inst.bound), MatBounded(y, inst.bound),
         Unambiguous(inst.m.scheme.grp, DamgardMultiReach(inst.m))
  PROVE  \/ r.err = "NONE" /\ r.res = MatDot(xs, y)
         \/ /\ r.err = "DLOG_NOT_FOUND"
            /\ Overlooked(inst.m.scheme.grp, MatDot(xs, y), DamgardMultiReach(inst.m))
<1>1. PICK m, z, grp, P : m = inst.m /\ z = inst.z /\ grp = m.scheme.grp /\ P = Parties
                          /\ P = Clients(z)
  BY DEF Parties
<1>2. /\ IsSharing(z) /\ IsDecMulti(m, z.order) /\ grp.q = z.order /\ m.bound = inst.bound
      /\ m.n = z.n /\ Rows(z) = Clients(z) /\ Cols(z) = 1..m.scheme.l
      /\ \A k \in inst.keys : IsDecMultiKey(m, k)
      /\ inst.xs \subseteq [1..m.scheme.l -> Int] /\ inst.nonces \subseteq Int
      /\ inst.ys \subseteq [P -> [1..m.scheme.l -> Int]]
  BY <1>1, DecMultiInstance, InstanceFacts
<1>3. PICK b \in Nat, l \in Nat, c \in Nat, B \in Nat :
         /\ b = m.bound /\ l = m.scheme.l /\ c = z.n /\ B = b * b * c * l
  <2>1. PICK b \in Nat, l \in Nat, c \in Nat : b = m.bound /\ l = m.scheme.l /\ c = z.n
    BY <1>1, <1>2, DecMultiInstance, ClientCount DEF IsDecMulti
  <2>2. PICK d \in Nat : d = b * b
    OBVIOUS
  <2>3. PICK e \in Nat : e = d * c
    OBVIOUS
  <2>4. e * l \in Nat
    OBVIOUS
  <2> QED BY <2>1, <2>2, <2>3, <2>4
<1>4. DamgardMultiReach(m) = B
  BY <1>2, <1>3 DEF DamgardMultiReach
<1>5. AreDecMultiClients(m, z, ks, xs, y, cs, ps, all)
  <2>1. \A i \in P : /\ ks[i] \in inst.keys /\ xs[i] \in inst.xs /\ IsUsed(z, all[i])
                     /\ \E k \in inst.nonces : Ciphertext(ks[i], xs[i], k) = Done(cs[i])
                     /\ FeKeyPart(i, ks[i], ShareOf(z, i, all[i]), y) = Done(ps[i])
    BY <1>1 DEF BelongTogether
  <2>2. \A i \in P : /\ IsDecMultiKey(m, ks[i]) /\ xs[i] \in [1..m.scheme.l -> Int] /\ IsUsed(z, all[i])
                     /\ \E k \in Int : DecMultiEncrypt(m, ks[i], xs[i], k) = Done(cs[i])
                     /\ DecMultiDeriveFeKeyPart(m, i, ks[i], ShareOf(z, i, all[i]), y) = Done(ps[i])
    BY <1>1, <1>2, <2>1 DEF Ciphertext, FeKeyPart
  <2>3. DOMAIN xs = P /\ y \in [P -> [1..m.scheme.l -> Int]] /\ DOMAIN all = P /\ Agree(all)
    BY <1>1, <1>2 DEF BelongTogether
  <2>4. Clients(z) = DamgardMultiClients(m)
    BY <1>2 DEF Clients, DamgardMultiClients
  <2> QED BY <1>1, <1>2, <2>2, <2>3, <2>4 DEF AreDecMultiClients
<1>6. r = DecMultiDecrypt(m, cs, ps, y)
  BY <1>1 DEF Plaintext
<1>7. MatCheckBound(y, m.bound)
  BY <1>6 DEF DecMultiDecrypt, Failed
<1>8. r = BabyGiantWithNeg(grp, MatDot(xs, y) % grp.q, B)
  BY <1>1, <1>4, <1>5, <1>6, <1>7, DecMultiCancels
<1>9. PICK v \in (-B)..B : v = MatDot(xs, y)
  <2>1. /\ y \in [P -> [1..l -> Int]] /\ DOMAIN xs = P /\ \A i \in P : xs[i] \in [1..l -> Int]
    BY <1>1, <1>2, <1>3, <1>5 DEF AreDecMultiClients
  <2>2. IsFiniteSet(P) /\ Cardinality(P) = c
    BY <1>1, <1>3, ClientCount
  <2>3. MatBounded(xs, b) /\ MatBounded(y, b)
    BY <1>2, <1>3
  <2>4. MatDot(xs, y) \in (-(b * b * c * l))..(b * b * c * l)
    BY <2>1, <2>2, <2>3, MatDotBounded
  <2> QED BY <1>3, <2>4
<1>10. grp.q \in Nat /\ grp.q # 0 /\ Unambiguous(grp, B)
  BY <1>1, <1>2, <1>4 DEF IsDecMulti
<1>11. r = BabyGiantWithNeg(grp, v % grp.q, B)
  BY <1>8, <1>9
<1>12. \/ r.err = "NONE" /\ r.res = v
       \/ r.err = "DLOG_NOT_FOUND" /\ Overlooked(grp, v, B)
  BY <1>10, <1>11, SearchOfPower
<1> QED BY <1>1, <1>4, <1>9, <1>12

\* What the search of the decentralised multi-client scheme returns for them.
LEMMA DmcfePlaintext ==
  ASSUME IsInstance(inst), IsDmcfe, NEW ks, NEW xs, NEW y, NEW n, NEW cs, NEW ps, NEW all,
         BelongTogether(ks, xs, y, n, cs, ps, all), NEW r, r = Plaintext(cs, ps, n, y),
         Bounded(xs, inst.bound), Bounded(y, inst.bound), \A i \in Parties : xs[i] >= 0,
         UnambiguousGT(inst.d.q, inst.bound * inst.bound * inst.z.n)
  PROVE  r.err = "NONE" /\ r.res = Dot(xs, y)
<1>1. PICK d, z, P : d = inst.d /\ z = inst.z /\ P = Parties /\ P = Clients(z)
  BY DEF Parties
<1>2. /\ IsSharing(z) /\ d.q = z.order /\ Rows(z) = Two /\ Cols(z) = Two
      /\ \A k \in Two : d.g1[k][n] \in Int /\ d.g2[k][y] \in Int
      /\ inst.keys \subseteq [Two -> Int] /\ inst.xs \subseteq Int /\ y \in [P -> Int]
  BY <1>1, DmcfeInstance, InstanceFacts DEF BelongTogether
<1>3. PICK q \in Nat, b \in Nat, c \in Nat, B \in Nat :
         q = d.q /\ q # 0 /\ b = inst.bound /\ c = z.n /\ B = b * b * c
  <2>1. PICK q \in Nat, b \in Nat, c \in Nat : q = d.q /\ q # 0 /\ b = inst.bound /\ c = z.n
    BY <1>1, <1>2, DmcfeInstance, ClientCount DEF IsSharing
  <2>2. PICK e \in Nat : e = b * b
    OBVIOUS
  <2>3. e * c \in Nat
    OBVIOUS
  <2> QED BY <2>1, <2>2, <2>3
<1>4. xs \in [P -> Nat]
  <2>1. xs \in [P -> Int]
    BY <1>1, <1>2 DEF BelongTogether
  <2> QED BY <1>1, <2>1
<1>5. AreDmcfeClients(d, z, ks, xs, y, n, cs, ps, all)
  <2>1. \A i \in P : /\ ks[i] \in inst.keys /\ IsUsed(z, all[i])
                     /\ Ciphertext(ks[i], xs[i], n) = Done(cs[i])
                     /\ FeKeyPart(i, ks[i], ShareOf(z, i, all[i]), y) = Done(ps[i])
    BY <1>1 DEF BelongTogether
  <2>2. \A i \in P : /\ ks[i] \in [Two -> Int] /\ IsUsed(z, all[i])
                     /\ DmcfeEncrypt(d, ks[i], xs[i], n) = Done(cs[i])
                     /\ DmcfeDeriveFeKeyPart(d, i, ks[i], ShareOf(z, i, all[i]), y) = Done(ps[i])
    BY <1>1, <1>2, <2>1 DEF Ciphertext, FeKeyPart
  <2>3. DOMAIN cs = P /\ DOMAIN all = P /\ Agree(all)
    BY <1>1 DEF BelongTogether
  <2> QED BY <1>1, <1>2, <1>4, <2>2, <2>3 DEF AreDmcfeClients
<1>6. IsFiniteSet(P) /\ Cardinality(P) = c
  BY <1>1, <1>3, ClientCount
<1>7. r = SearchGT(q, Dot(xs, y) % q, B)
  <2>1. r = DmcfeDecrypt(d, cs, ps, n, y, b)
    BY <1>1, <1>3 DEF Plaintext
  <2>2. DmcfeDecrypt(d, cs, ps, n, y, b)
          = SearchGT(d.q, Dot(xs, y) % d.q, b * b * Cardinality(Clients(z)))
    BY <1>5, DmcfeCancels
  <2> QED BY <1>1, <1>3, <1>6, <2>1, <2>2
<1>8. PICK v \in (-B)..B : v = Dot(xs, y)
  <2>1. xs \in [P -> Int] /\ Bounded(xs, b) /\ Bounded(y, b)
    BY <1>3, <1>4
  <2>2. Dot(xs, y) \in (-(b * b * c))..(b * b * c)
    BY <1>2, <1>6, <2>1, DotBoundedOn
  <2> QED BY <1>3, <2>2
<1>9. UnambiguousGT(q, B)
  BY <1>1, <1>3
<1>10. r = SearchGT(q, v % q, B)
  BY <1>7, <1>8
<1>11. r = Done(v)
  BY <1>9, <1>10, SearchGTOfPower
<1> QED BY <1>8, <1>11 DEF Done

\* A share is a matrix of elements.
LEMMA ShareType ==
  ASSUME NEW z, IsSharing(z), NEW i \in Clients(z), NEW u, IsUsed(z, u)
  PROVE  IsShare(z, ShareOf(z, i, u))
<1>1. PICK q \in Nat : q = z.order /\ q # 0
  BY DEF IsSharing
<1>2. ASSUME NEW r \in Rows(z), NEW c \in Cols(z) PROVE ShareOf(z, i, u)[r][c] \in 0..(q - 1)
  <2>1. PICK w : w = [k \in Clients(z) \ {i} |-> Weight(z, i, k, u[k], r, c)]
    OBVIOUS
  <2>2. AreWeights(w, z, i, u, r, c)
    BY <2>1 DEF AreWeights
  <2>3. /\ SumFunctionOnSet(w, Clients(z) \ {i}) \in Int
        /\ ShareOf(z, i, u)[r][c] = SumFunctionOnSet(w, Clients(z) \ {i}) % z.order
    BY <2>2, ShareEntry
  <2>4. PICK s \in Int : s = SumFunctionOnSet(w, Clients(z) \ {i})
    BY <2>3
  <2>5. s % q \in 0..(q - 1)
    BY <1>1, CongruentMod
  <2> QED BY <1>1, <2>3, <2>4, <2>5
<1>3. PICK sh : sh = ShareOf(z, i, u)
  OBVIOUS
<1>4. \A r \in Rows(z) : sh[r] = [c \in Cols(z) |-> sh[r][c]]
  BY <1>3 DEF ShareOf
<1>5. sh = [r \in Rows(z) |-> sh[r]]
  BY <1>3 DEF ShareOf
<1>6. Elements(z) = 0..(q - 1)
  BY <1>1 DEF Elements
<1>7. \A r \in Rows(z) : sh[r] \in [Cols(z) -> Elements(z)]
  BY <1>2, <1>3, <1>4, <1>6
<1>8. sh \in [Rows(z) -> [Cols(z) -> Elements(z)]]
  BY <1>5, <1>7
<1> QED BY <1>3, <1>8 DEF IsShare

\* So a part of a key has the type of one.
LEMMA PartType ==
  ASSUME IsInstance(inst), NEW i \in Parties, NEW k \in inst.keys, NEW u, IsUsed(inst.z, u),
         NEW y \in inst.ys, NEW piece, FeKeyPart(i, k, ShareOf(inst.z, i, u), y) = Done(piece)
  PROVE  /\ IsShare(inst.z, ShareOf(inst.z, i, u))
         /\ IF IsDmcfe THEN piece \in DmcfeSecretKeys(inst.d)
                       ELSE DecMultiIsFeKeyPart(inst.m, piece)
<1>1. PICK z, P, sh : z = inst.z /\ P = Parties /\ P = Clients(z) /\ sh = ShareOf(z, i, u)
  BY DEF Parties
<1>2. PICK q \in Nat : q = z.order /\ q # 0 /\ IsSharing(z)
  BY <1>1, InstanceFacts DEF IsSharing
<1>4. IsShare(z, sh)
  <2>1. IsSharing(z) /\ i \in Clients(z) /\ IsUsed(z, u)
    BY <1>1, <1>2
  <2> QED BY <1>1, <2>1, ShareType
<1>5. \A r \in Rows(z) : sh[r] \in [Cols(z) -> Int]
  <2>1. 0..(q - 1) \subseteq Int
    OBVIOUS
  <2>2. sh \in [Rows(z) -> [Cols(z) -> 0..(q - 1)]]
    BY <1>2, <1>4 DEF IsShare, Elements
  <2> QED BY <2>1, <2>2
<1>6. CASE IsDmcfe
  <2>1. PICK w : w = [j \in Two |-> inst.d.g2[j][y]]
    OBVIOUS
  <2>2. w \in [Two -> Int] /\ k \in [Two -> Int] /\ y \in [P -> Int] /\ inst.d.q = q
        /\ Rows(z) = Two /\ Cols(z) = Two
    BY <1>1, <1>2, <1>6, <2>1, DmcfeInstance
  <2>3. piece = [j \in Two |-> (Dot(sh[j], w) + y[i] * k[j]) % q]
    BY <1>1, <1>6, <2>1, <2>2 DEF FeKeyPart, DmcfeDeriveFeKeyPart, Done
  <2>4. IsFiniteSet(Two)
    <3>1. PICK a, b \in Int : a = 0 /\ b = 1
      OBVIOUS
    <3>2. IsFiniteSet(a..b)
      BY FS_Interval
    <3> QED BY <3>1, <3>2 DEF Two
  <2>5. ASSUME NEW j \in Two PROVE (Dot(sh[j], w) + y[i] * k[j]) % q \in 0..(q - 1)
    <3>1. PICK a \in Int : a = Dot(sh[j], w)
      BY <1>5, <2>2, <2>4, DotIsInt
    <3>2. PICK b, c \in Int : b = y[i] /\ c = k[j]
      BY <1>1, <2>2
    <3>3. PICK d \in Int : d = a + b * c
      OBVIOUS
    <3>4. d % q \in 0..(q - 1)
      BY <1>2, CongruentMod
    <3> QED BY <3>1, <3>2, <3>3, <3>4
  <2>6. piece \in [Two -> 0..(q - 1)]
    BY <2>3, <2>5
  <2> QED BY <1>1, <1>4, <1>6, <2>2, <2>6 DEF DmcfeSecretKeys
<1>7. CASE ~IsDmcfe
  <2>1. PICK m, w, D : m = inst.m /\ w = y[i] /\ D = 1..m.scheme.l
    OBVIOUS
  <2>2. /\ m.scheme.grp.q = q /\ Rows(z) = P /\ Cols(z) = D /\ IsDecMultiKey(m, k)
        /\ IsDecMulti(m, q) /\ y \in [P -> [D -> Int]]
    BY <1>1, <1>2, <1>7, <2>1, DecMultiInstance
  <2>3. w \in [D -> Int] /\ k.otp \in [D -> Int] /\ k.dam.s \in [D -> Int] /\ k.dam.t \in [D -> Int]
    BY <1>1, <2>1, <2>2 DEF IsDecMultiKey
  <2>4. IsFiniteSet(D) /\ IsFiniteSet(P)
    <3>1. PICK l \in Nat : l = m.scheme.l
      BY <2>2 DEF IsDecMulti
    <3>2. IsFiniteSet(1..l)
      BY FS_Interval
    <3> QED BY <1>1, <2>1, <3>1, <3>2, ClientCount
  <2>5. MatCheckBound(y, m.bound)
    BY <1>7, <2>1 DEF FeKeyPart, DecMultiDeriveFeKeyPart, Done, Failed
  <2>6. piece = [otp |-> (Dot(k.otp, w) + MatDot(sh, y)) % q,
                dam |-> DamgardDeriveFeKey(m.scheme, k.dam, w).res]
    BY <1>1, <1>7, <2>1, <2>2, <2>5 DEF FeKeyPart, DecMultiDeriveFeKeyPart, Done
  <2>7. MatDot(sh, y) \in Int
    <3>1. PICK f : f = [j \in P |-> Dot(sh[j], y[j])]
      OBVIOUS
    <3>2. \A j \in P : f[j] \in Int
      BY <1>5, <2>2, <2>4, <3>1, DotIsInt
    <3>3. DOMAIN sh = P
      BY <1>1, <2>2 DEF ShareOf
    <3>4. MatDot(sh, y) = SumFunctionOnSet(f, P)
      BY <3>1, <3>3 DEF MatDot, SumFunction
    <3> QED BY <2>4, <3>2, <3>4, SumIsInt
  <2>8. piece.otp \in 0..(q - 1)
    <3>1. PICK a, b \in Int : a = Dot(k.otp, w) /\ b = MatDot(sh, y)
      BY <2>3, <2>4, <2>7, DotIsInt
    <3>2. PICK d \in Int : d = a + b
      OBVIOUS
    <3>3. d % q \in 0..(q - 1)
      BY <1>2, CongruentMod
    <3> QED BY <2>6, <3>1, <3>2, <3>3
  <2>9. DamgardIsFeKey(m.scheme, piece.dam)
    <3>1. CheckBound(w, m.scheme.bound)
      <4>1. PICK b, c \in Int : b = m.bound /\ c = m.scheme.bound /\ b <= c
        BY <2>2 DEF IsDecMulti
      <4>2. \A j \in D : w[j] \in Int /\ w[j] <= b
        BY <1>1, <2>1, <2>2, <2>3, <2>5, <4>1 DEF MatCheckBound, CheckBound
      <4>3. \A j \in D : w[j] <= c
        BY <4>1, <4>2
      <4> QED BY <2>3, <4>1, <4>3 DEF CheckBound
    <3>2. PICK K \in Nat : K = Modulus(m.scheme.grp) - 1 /\ K # 0 /\ Modulus(m.scheme.grp) - 2 = K - 1
      BY <1>2, <2>2 DEF Modulus
    <3>3. piece.dam = [key1 |-> Dot(k.dam.s, w) % K, key2 |-> Dot(k.dam.t, w) % K]
      BY <2>6, <3>1, <3>2 DEF DamgardDeriveFeKey, Done
    <3>4. PICK a, b \in Int : a = Dot(k.dam.s, w) /\ b = Dot(k.dam.t, w)
      BY <2>3, <2>4, DotIsInt
    <3>5. a % K \in 0..(K - 1) /\ b % K \in 0..(K - 1)
      BY <3>2, CongruentMod
    <3> QED BY <3>2, <3>3, <3>4, <3>5 DEF DamgardIsFeKey
  <2> QED BY <1>1, <1>4, <1>7, <2>1, <2>2, <2>8, <2>9 DEF DecMultiIsFeKeyPart
<1> QED BY <1>6, <1>7

-----------------------------------------------------------------------------
(* The steps *)

\* The domains of what the clients hold.
LEMMA Domains ==
  CountersOK <=> /\ inits \in [Parties -> 0..inst.maxInit] /\ calls \in [Parties -> 0..inst.maxShare]
                 /\ gen \in [Parties -> Nat]
                 /\ DOMAIN key = Parties /\ DOMAIN ct = Parties /\ DOMAIN part = Parties
                 /\ out.err \in {"NONE", "BOUND_CHECK_FAILED", "DLOG_NOT_FOUND"}
BY DEF CountersOK

\* What depends on the instance only does not change with the rest.
LEMMA SameInstance ==
  ASSUME inst' = inst
  PROVE  /\ Parties' = Parties /\ IsDmcfe' = IsDmcfe /\ Searchable' = Searchable
         /\ \A a, g, h : HasKey(a, g, h)' = HasKey(a, g, h)
         /\ \A c, g, h : HasSent(c, g, h)' = HasSent(c, g, h)
         /\ \A i, p, g, h : HasDerived(i, p, g, h)' = HasDerived(i, p, g, h)
BY DEF Parties, IsDmcfe, Searchable, HasKey, HasSent, HasDerived, Ciphertext, FeKeyPart

\* Other keys do not matter to what has been sent with the first ones.
LEMMA MoreKeys ==
  ASSUME NEW g \in Nat, NEW h \in [1..g -> inst.keys], NEW k \in inst.keys
  PROVE  \E j \in [1..(g + 1) -> inst.keys] :
           /\ j[g + 1] = k
           /\ \A c : HasSent(c, g, h) => HasSent(c, g + 1, j)
           /\ \A i, p : HasDerived(i, p, g, h) => HasDerived(i, p, g + 1, j)
<1>1. PICK j : j = [e \in 1..(g + 1) |-> IF e = g + 1 THEN k ELSE h[e]]
  OBVIOUS
<1>2. /\ j \in [1..(g + 1) -> inst.keys] /\ j[g + 1] = k
      /\ \A e \in 1..g : e \in 1..(g + 1) /\ j[e] = h[e]
  BY <1>1
<1>3. ASSUME NEW c, HasSent(c, g, h) PROVE HasSent(c, g + 1, j)
  <2> SUFFICES ASSUME c # Nothing
               PROVE  /\ c.gen \in 1..(g + 1) /\ c.x \in inst.xs
                      /\ \E n \in inst.nonces : /\ c.label = IF IsDmcfe THEN n ELSE 0
                                               /\ Ciphertext(j[c.gen], c.x, n) = Done(c.ct)
    BY DEF HasSent
  <2>1. /\ c.gen \in 1..g /\ c.x \in inst.xs
        /\ \E n \in inst.nonces : /\ c.label = IF IsDmcfe THEN n ELSE 0
                                 /\ Ciphertext(h[c.gen], c.x, n) = Done(c.ct)
    BY <1>3 DEF HasSent
  <2>2. j[c.gen] = h[c.gen] /\ c.gen \in 1..(g + 1)
    BY <1>2, <2>1
  <2> QED BY <2>1, <2>2
<1>4. ASSUME NEW i, NEW p, HasDerived(i, p, g, h) PROVE HasDerived(i, p, g + 1, j)
  <2> SUFFICES ASSUME p # Nothing
               PROVE  /\ p.gen \in 1..(g + 1) /\ p.y \in inst.ys /\ IsUsed(inst.z, p.used)
                      /\ FeKeyPart(i, j[p.gen], ShareOf(inst.z, i, p.used), p.y) = Done(p.part)
    BY DEF HasDerived
  <2>1. /\ p.gen \in 1..g /\ p.y \in inst.ys /\ IsUsed(inst.z, p.used)
        /\ FeKeyPart(i, h[p.gen], ShareOf(inst.z, i, p.used), p.y) = Done(p.part)
    BY <1>4 DEF HasDerived
  <2>2. j[p.gen] = h[p.gen] /\ p.gen \in 1..(g + 1)
    BY <1>2, <2>1
  <2> QED BY <2>1, <2>2
<1> QED BY <1>2, <1>3, <1>4

\* A step of the client i, after which what it holds and has sent has keys behind it.
LEMMA StepOfClient ==
  ASSUME Genuineness, inst' = inst, NEW i \in Parties,
         \A k \in Parties : k # i => /\ gen'[k] = gen[k] /\ key'[k] = key[k]
                                     /\ ct'[k] = ct[k] /\ part'[k] = part[k],
         \E h \in [1..gen'[i] -> inst.keys] :
           HasKey(key'[i], gen'[i], h) /\ HasSent(ct'[i], gen'[i], h) /\ HasDerived(i, part'[i], gen'[i], h)
  PROVE  Genuineness'
<1>1. \A k \in Parties : \E h \in [1..gen'[k] -> inst.keys] :
         HasKey(key'[k], gen'[k], h) /\ HasSent(ct'[k], gen'[k], h) /\ HasDerived(k, part'[k], gen'[k], h)
  <2> TAKE k \in Parties
  <2>1. CASE k = i
    BY <2>1
  <2>2. CASE k # i
    BY <2>2 DEF Genuineness, Genuine
  <2> QED BY <2>1, <2>2
<1> QED BY <1>1, SameInstance DEF Genuineness, Genuine

\* A step that leaves the keys and what has been sent alone.
LEMMA StepOfNone ==
  ASSUME Genuineness, UNCHANGED <<inst, gen, key, ct, part>>
  PROVE  Genuineness'
BY SameInstance DEF Genuineness, Genuine

\* A call that is not a decryption leaves nothing to be right about.
LEMMA NoDecryption ==
  ASSUME NEW r, out' = NotADecryption(r)
  PROVE  DecryptCorrect' /\ out'.err = r.err
BY DEF DecryptCorrect, NotADecryption

\* The invariant holds before the first call.
LEMMA InitIInv ==
  ASSUME Init PROVE IInv
<1>1. SharingInv
  BY InitSharing
<1>2. inst.maxInit \in Nat /\ inst.maxShare \in Nat
  BY <1>1 DEF SharingInv, IsInstance
<1>3. CountersOK
  BY <1>2, Domains DEF Init, NotADecryption, Done
<1>4. DecryptCorrect
  BY DEF Init, DecryptCorrect, NotADecryption
<1>5. Genuineness
  <2> SUFFICES ASSUME NEW i \in Parties
               PROVE  \E h \in [1..gen[i] -> inst.keys] : Genuine(i, h)
    BY DEF Genuineness
  <2>1. gen[i] = 0 /\ key[i] = Nothing /\ ct[i] = Nothing /\ part[i] = Nothing
    BY DEF Init
  <2>2. PICK h : h = [e \in 1..0 |-> 0]
    OBVIOUS
  <2>3. h \in [1..gen[i] -> inst.keys]
    BY <2>1, <2>2
  <2>4. Genuine(i, h)
    BY <2>1 DEF Genuine, HasKey, HasSent, HasDerived
  <2> QED BY <2>3, <2>4
<1> QED BY <1>1, <1>3, <1>4, <1>5 DEF IInv

\* A client of the decentralised Damgard scheme starts over.
LEMMA DamgardClientInitIInv ==
  ASSUME IInv, NEW i \in Parties, NEW dh \in inst.dh, DamgardClientInit(i, dh), SharingInv'
  PROVE  IInv'
<1>1. /\ StartOver(i, dh) /\ key' = [key EXCEPT ![i] = Nothing] /\ out' = NotADecryption(Done(0))
      /\ UNCHANGED <<inst, gen, ct, part>>
  BY DEF DamgardClientInit
<1>2. CountersOK /\ Genuineness /\ inst.maxInit \in Nat /\ inst.maxShare \in Nat
  BY DEF IInv, SharingInv, IsInstance
<1>3. inits' \in [Parties -> 0..inst.maxInit] /\ calls' \in [Parties -> 0..inst.maxShare]
  BY <1>1, <1>2, Domains DEF StartOver
<1>4. DecryptCorrect' /\ out'.err = "NONE"
  BY <1>1, NoDecryption DEF Done
<1>5. CountersOK'
  BY <1>1, <1>2, <1>3, <1>4, Domains, SameInstance DEF CountersOK
<1>6. Genuineness'
  <2>1. key'[i] = Nothing /\ \A k \in Parties : k # i => key'[k] = key[k]
    BY <1>1, <1>2, Domains
  <2>2. PICK h \in [1..gen[i] -> inst.keys] : Genuine(i, h)
    BY <1>2 DEF Genuineness
  <2>3. HasKey(key'[i], gen'[i], h) /\ HasSent(ct'[i], gen'[i], h) /\ HasDerived(i, part'[i], gen'[i], h)
    BY <1>1, <2>1, <2>2 DEF Genuine, HasKey
  <2> QED BY <1>1, <1>2, <2>1, <2>2, <2>3, StepOfClient
<1> QED BY <1>4, <1>5, <1>6 DEF IInv

\* A client has a new key.
LEMMA NewKey ==
  ASSUME IInv, NEW i \in Parties, NEW k \in inst.keys, inst' = inst,
         gen' = [gen EXCEPT ![i] = @ + 1],
         key' = [key EXCEPT ![i] = [gen |-> gen[i] + 1, key |-> k]], UNCHANGED <<ct, part>>
  PROVE  /\ Genuineness' /\ gen' \in [Parties -> Nat] /\ DOMAIN key' = Parties
         /\ DOMAIN ct' = Parties /\ DOMAIN part' = Parties
<1>1. CountersOK /\ Genuineness
  BY DEF IInv
<1>2. /\ gen \in [Parties -> Nat]
      /\ DOMAIN key = Parties /\ DOMAIN ct = Parties /\ DOMAIN part = Parties
  BY <1>1, Domains
<1>3. PICK g \in Nat : g = gen[i]
  BY <1>2
<1>4. gen'[i] = g + 1 /\ key'[i] = [gen |-> g + 1, key |-> k]
      /\ \A e \in Parties : e # i => gen'[e] = gen[e] /\ key'[e] = key[e]
  BY <1>2, <1>3
<1>5. PICK h \in [1..g -> inst.keys] : Genuine(i, h)
  BY <1>1, <1>3 DEF Genuineness
<1>6. PICK j \in [1..(g + 1) -> inst.keys] :
         /\ j[g + 1] = k
         /\ \A c : HasSent(c, g, h) => HasSent(c, g + 1, j)
         /\ \A e, p : HasDerived(e, p, g, h) => HasDerived(e, p, g + 1, j)
  BY MoreKeys
<1>7. /\ HasKey(key'[i], gen'[i], j) /\ HasSent(ct'[i], gen'[i], j)
      /\ HasDerived(i, part'[i], gen'[i], j)
  <2>1. HasKey(key'[i], gen'[i], j)
    BY <1>4, <1>6 DEF HasKey
  <2>2. HasSent(ct[i], g, h) /\ HasDerived(i, part[i], g, h)
    BY <1>3, <1>5 DEF Genuine
  <2> QED BY <1>4, <1>6, <2>1, <2>2
<1>8. Genuineness'
  <2>1. j \in [1..gen'[i] -> inst.keys]
    BY <1>4, <1>6
  <2> QED BY <1>1, <1>4, <1>7, <2>1, StepOfClient
<1> QED BY <1>2, <1>8

\* It generates one, or is initialised with one.
LEMMA GenerateKeysIInv ==
  ASSUME IInv, NEW i \in Parties, NEW k \in inst.keys, GenerateKeys(i, k), SharingInv'
  PROVE  IInv'
<1>1. /\ gen' = [gen EXCEPT ![i] = @ + 1]
      /\ key' = [key EXCEPT ![i] = [gen |-> gen[i] + 1, key |-> k]]
      /\ out' = NotADecryption(Done(0)) /\ UNCHANGED <<inst, inits, calls, ct, part>>
  BY DEF GenerateKeys, sharing
<1>2. /\ Genuineness' /\ gen' \in [Parties -> Nat] /\ DOMAIN key' = Parties
      /\ DOMAIN ct' = Parties /\ DOMAIN part' = Parties
  BY <1>1, NewKey
<1>3. CountersOK
  BY DEF IInv
<1>4. inits' \in [Parties -> 0..inst.maxInit] /\ calls' \in [Parties -> 0..inst.maxShare]
  BY <1>1, <1>3, Domains
<1>5. DecryptCorrect' /\ out'.err = "NONE"
  BY <1>1, NoDecryption DEF Done
<1>6. CountersOK'
  BY <1>1, <1>2, <1>4, <1>5, SameInstance DEF CountersOK
<1> QED BY <1>2, <1>5, <1>6 DEF IInv

\* A client of the decentralised multi-client scheme starts over with a new key.
LEMMA DmcfeClientInitIInv ==
  ASSUME IInv, NEW i \in Parties, NEW dh \in inst.dh, NEW k \in inst.keys,
         DmcfeClientInit(i, dh, k), SharingInv'
  PROVE  IInv'
<1>1. /\ StartOver(i, dh) /\ gen' = [gen EXCEPT ![i] = @ + 1]
      /\ key' = [key EXCEPT ![i] = [gen |-> gen[i] + 1, key |-> k]]
      /\ out' = NotADecryption(Done(0)) /\ UNCHANGED <<inst, ct, part>>
  BY DEF DmcfeClientInit
<1>2. /\ Genuineness' /\ gen' \in [Parties -> Nat] /\ DOMAIN key' = Parties
      /\ DOMAIN ct' = Parties /\ DOMAIN part' = Parties
  BY <1>1, NewKey
<1>3. CountersOK /\ inst.maxInit \in Nat /\ inst.maxShare \in Nat
  BY DEF IInv, SharingInv, IsInstance
<1>4. inits' \in [Parties -> 0..inst.maxInit] /\ calls' \in [Parties -> 0..inst.maxShare]
  BY <1>1, <1>3, Domains DEF StartOver
<1>5. DecryptCorrect' /\ out'.err = "NONE"
  BY <1>1, NoDecryption DEF Done
<1>6. CountersOK'
  BY <1>1, <1>2, <1>4, <1>5, SameInstance DEF CountersOK
<1> QED BY <1>2, <1>5, <1>6 DEF IInv

\* A client sets its share.
LEMMA SetShareIInv ==
  ASSUME IInv, NEW i \in Parties, NEW pks, SetShareOf(i, pks), SharingInv'
  PROVE  IInv'
<1>1. /\ calls[i] < inst.maxShare /\ calls' = [calls EXCEPT ![i] = @ + 1]
      /\ out' = NotADecryption(Done(0)) /\ UNCHANGED <<inst, inits, gen, key, ct, part>>
  BY DEF SetShareOf
<1>2. CountersOK /\ Genuineness /\ inst.maxShare \in Nat
  BY DEF IInv, SharingInv, IsInstance
<1>3. calls' \in [Parties -> 0..inst.maxShare]
  BY <1>1, <1>2, Domains
<1>4. DecryptCorrect' /\ out'.err = "NONE"
  BY <1>1, NoDecryption DEF Done
<1>5. CountersOK'
  BY <1>1, <1>2, <1>3, <1>4, SameInstance DEF CountersOK
<1>6. Genuineness'
  BY <1>1, <1>2, StepOfNone
<1> QED BY <1>4, <1>5, <1>6 DEF IInv

\* A client encrypts with the key that it holds.
LEMMA EncryptIInv ==
  ASSUME IInv, NEW i \in Parties, NEW x \in inst.xs, NEW n \in inst.nonces, Encrypt(i, x, n),
         SharingInv'
  PROVE  IInv'
<1>1. PICK r : r = Ciphertext(key[i].key, x, n)
  OBVIOUS
<1>2. PICK c : c = [gen |-> key[i].gen, label |-> IF IsDmcfe THEN n ELSE 0, x |-> x, ct |-> r.res]
  OBVIOUS
<1>3. /\ key[i] # Nothing /\ ct' = (IF r.err = "NONE" THEN [ct EXCEPT ![i] = c] ELSE ct)
      /\ out' = NotADecryption(r) /\ UNCHANGED <<inst, inits, calls, gen, key, part>>
  BY <1>1, <1>2 DEF Encrypt, sharing
<1>4. CountersOK /\ Genuineness
  BY DEF IInv
<1>5. DecryptCorrect' /\ out'.err \in {"NONE", "BOUND_CHECK_FAILED"}
  BY <1>1, <1>3, NoDecryption, CallCodes
<1>6. DOMAIN ct' = Parties /\ \A k \in Parties : k # i => ct'[k] = ct[k]
  BY <1>3, <1>4, Domains
<1>7. CountersOK'
  BY <1>3, <1>4, <1>5, <1>6, Domains, SameInstance DEF CountersOK
<1>8. Genuineness'
  <2>1. PICK h \in [1..gen[i] -> inst.keys] : Genuine(i, h)
    BY <1>4 DEF Genuineness
  <2>2. HasKey(key[i], gen[i], h) /\ HasSent(ct[i], gen[i], h) /\ HasDerived(i, part[i], gen[i], h)
    BY <2>1 DEF Genuine
  <2>3. HasSent(ct'[i], gen[i], h)
    <3>1. CASE r.err = "NONE"
      <4>1. ct'[i] = c
        BY <1>3, <1>4, <3>1, Domains
      <4>2. key[i].gen \in 1..gen[i] /\ key[i].key = h[key[i].gen]
        BY <1>3, <2>2 DEF HasKey
      <4>3. Ciphertext(h[key[i].gen], x, n) = Done(r.res)
        BY <1>1, <3>1, <4>2, CallCodes
      <4> QED BY <1>2, <4>1, <4>2, <4>3 DEF HasSent
    <3>2. CASE r.err # "NONE"
      BY <1>3, <2>2, <3>2
    <3> QED BY <3>1, <3>2
  <2> QED BY <1>3, <1>4, <1>6, <2>2, <2>3, StepOfClient
<1> QED BY <1>5, <1>7, <1>8 DEF IInv

\* A client derives its part of a functional key, with the key and the share that it holds.
LEMMA DeriveIInv ==
  ASSUME IInv, NEW i \in Parties, NEW y \in inst.ys, DeriveFeKeyPart(i, y), SharingInv'
  PROVE  IInv'
<1>1. PICK r : r = FeKeyPart(i, key[i].key, share[i], y)
  OBVIOUS
<1>2. PICK p : p = [gen |-> key[i].gen, y |-> y, used |-> used[i], part |-> r.res]
  OBVIOUS
<1>3. /\ key[i] # Nothing /\ part' = (IF r.err = "NONE" THEN [part EXCEPT ![i] = p] ELSE part)
      /\ out' = NotADecryption(r) /\ UNCHANGED <<inst, inits, calls, gen, key, ct>>
  BY <1>1, <1>2 DEF DeriveFeKeyPart, sharing
<1>4. CountersOK /\ Genuineness
  BY DEF IInv
<1>5. DecryptCorrect' /\ out'.err \in {"NONE", "BOUND_CHECK_FAILED"}
  BY <1>1, <1>3, NoDecryption, CallCodes
<1>6. DOMAIN part' = Parties /\ \A k \in Parties : k # i => part'[k] = part[k]
  BY <1>3, <1>4, Domains
<1>7. CountersOK'
  BY <1>3, <1>4, <1>5, <1>6, Domains, SameInstance DEF CountersOK
<1>8. Genuineness'
  <2>1. PICK h \in [1..gen[i] -> inst.keys] : Genuine(i, h)
    BY <1>4 DEF Genuineness
  <2>2. HasKey(key[i], gen[i], h) /\ HasSent(ct[i], gen[i], h) /\ HasDerived(i, part[i], gen[i], h)
    BY <2>1 DEF Genuine
  <2>3. HasDerived(i, part'[i], gen[i], h)
    <3>1. CASE r.err = "NONE"
      <4>1. part'[i] = p
        BY <1>3, <1>4, <3>1, Domains
      <4>2. key[i].gen \in 1..gen[i] /\ key[i].key = h[key[i].gen]
        BY <1>3, <2>2 DEF HasKey
      <4>3. IsUsed(inst.z, used[i]) /\ share[i] = ShareOf(inst.z, i, used[i])
        BY DEF IInv, SharingInv, SharingOK
      <4>4. FeKeyPart(i, h[key[i].gen], ShareOf(inst.z, i, used[i]), y) = Done(r.res)
        BY <1>1, <3>1, <4>2, <4>3, CallCodes
      <4> QED BY <1>2, <4>1, <4>2, <4>3, <4>4 DEF HasDerived
    <3>2. CASE r.err # "NONE"
      BY <1>3, <2>2, <3>2
    <3> QED BY <3>1, <3>2
  <2> QED BY <1>3, <1>4, <1>6, <2>2, <2>3, StepOfClient
<1> QED BY <1>5, <1>7, <1>8 DEF IInv

\* What the decryptor has belongs together when it is of one label and one y, under the
\* same keys, and hidden under shares that agree.
LEMMA TogetherBelongs ==
  ASSUME IInv, NEW n \in inst.nonces, NEW y \in inst.ys, Together(n, y),
         \A i \in Parties : ct[i] # Nothing /\ part[i] # Nothing
  PROVE  \E ks : BelongTogether(ks, Xs, y, n, [i \in Parties |-> ct[i].ct],
                                [i \in Parties |-> part[i].part], [i \in Parties |-> part[i].used])
<1> DEFINE all == [i \in Parties |-> CHOOSE h \in [1..gen[i] -> inst.keys] : Genuine(i, h)]
           ks == [i \in Parties |-> all[i][ct[i].gen]]
<1>1. \A i \in Parties : all[i] \in [1..gen[i] -> inst.keys] /\ Genuine(i, all[i])
  BY DEF IInv, Genuineness
<1>2. \A i \in Parties : ks[i] = all[i][ct[i].gen]
  OBVIOUS
<1>3. DOMAIN ks = Parties /\ ks = [i \in Parties |-> ks[i]]
  OBVIOUS
<1> HIDE DEF all, ks
<1>4. \A i \in Parties :
        /\ ks[i] \in inst.keys /\ ct[i].x \in inst.xs /\ IsUsed(inst.z, part[i].used)
        /\ \E r \in inst.nonces : /\ IsDmcfe => r = n
                                 /\ Ciphertext(ks[i], ct[i].x, r) = Done(ct[i].ct)
        /\ FeKeyPart(i, ks[i], ShareOf(inst.z, i, part[i].used), y) = Done(part[i].part)
  <2> TAKE i \in Parties
  <2>1. HasSent(ct[i], gen[i], all[i]) /\ HasDerived(i, part[i], gen[i], all[i])
    BY <1>1 DEF Genuine
  <2>2. part[i].gen = ct[i].gen /\ part[i].y = y /\ (IsDmcfe => ct[i].label = n)
    BY DEF Together
  <2>3. /\ ct[i].gen \in 1..gen[i] /\ ct[i].x \in inst.xs
        /\ \E r \in inst.nonces : /\ ct[i].label = IF IsDmcfe THEN r ELSE 0
                                 /\ Ciphertext(all[i][ct[i].gen], ct[i].x, r) = Done(ct[i].ct)
    BY <2>1 DEF HasSent
  <2>4. /\ IsUsed(inst.z, part[i].used)
        /\ FeKeyPart(i, all[i][part[i].gen], ShareOf(inst.z, i, part[i].used), part[i].y) = Done(part[i].part)
    BY <2>1 DEF HasDerived
  <2>5. ks[i] \in inst.keys
    BY <1>1, <1>2, <2>3
  <2> QED BY <1>2, <2>2, <2>3, <2>4, <2>5
<1>5. ks \in [Parties -> inst.keys] /\ Xs \in [Parties -> inst.xs]
  <2>1. Xs \in [Parties -> inst.xs]
    BY <1>4 DEF Xs
  <2> QED BY <1>3, <1>4, <2>1
<1>6. Agree([i \in Parties |-> part[i].used])
  BY DEF Together
<1>7. BelongTogether(ks, Xs, y, n, [i \in Parties |-> ct[i].ct], [i \in Parties |-> part[i].part],
                     [i \in Parties |-> part[i].used])
  BY <1>4, <1>5, <1>6 DEF BelongTogether, Xs
<1> QED BY <1>7

\* A decryption of any ciphertexts with any parts.
LEMMA DecryptIInv ==
  ASSUME IInv, NEW n \in inst.nonces, NEW y \in inst.ys, Decrypt(n, y), SharingInv'
  PROVE  IInv'
<1>1. PICK cs, ps, r : /\ cs = [i \in Parties |-> ct[i].ct] /\ ps = [i \in Parties |-> part[i].part]
                       /\ r = Plaintext(cs, ps, n, y)
  OBVIOUS
<1>2. /\ \A i \in Parties : ct[i] # Nothing /\ part[i] # Nothing
      /\ out' = [same |-> Together(n, y) /\ r.err # "BOUND_CHECK_FAILED", y |-> y,
                 err |-> r.err, res |-> r.res]
      /\ UNCHANGED <<inst, inits, calls, gen, key, ct, part>>
  BY <1>1 DEF Decrypt, sharing
<1>3. CountersOK /\ Genuineness /\ IsInstance(inst)
  BY DEF IInv, SharingInv
<1>4. out'.err \in {"NONE", "BOUND_CHECK_FAILED", "DLOG_NOT_FOUND"}
  BY <1>1, <1>2, CallCodes
<1>5. CountersOK'
  BY <1>2, <1>3, <1>4, SameInstance DEF CountersOK
<1>6. Genuineness'
  BY <1>2, <1>3, StepOfNone
<1>7. Parties' = Parties /\ IsDmcfe' = IsDmcfe /\ Searchable' = Searchable /\ Xs' = Xs /\ inst' = inst
  BY <1>2, SameInstance DEF Xs
<1>8. out'.y = y /\ out'.err = r.err /\ out'.res = r.res
      /\ (out'.same => Together(n, y) /\ r.err # "BOUND_CHECK_FAILED")
  BY <1>2
<1>9. DecryptCorrect'
  <2>1. ASSUME Together(n, y), r.err # "BOUND_CHECK_FAILED", IsDmcfe, Bounded(Xs, inst.bound),
               Bounded(y, inst.bound), Searchable, \A i \in Parties : ct[i].x >= 0
        PROVE  r.err = "NONE" /\ r.res = Dot(Xs, y)
    <3>1. PICK ks, all, xs : BelongTogether(ks, xs, y, n, cs, ps, all) /\ xs = Xs
      BY <1>1, <1>2, <2>1, TogetherBelongs
    <3>2. Bounded(xs, inst.bound) /\ \A i \in Parties : xs[i] >= 0
      BY <2>1, <3>1 DEF Xs
    <3>3. UnambiguousGT(inst.d.q, inst.bound * inst.bound * inst.z.n)
      BY <2>1 DEF Searchable
    <3>4. BelongTogether(ks, xs, y, n, cs, ps, all)
      BY <3>1
    <3>5. r.err = "NONE" /\ r.res = Dot(xs, y)
      BY <1>1, <1>3, <2>1, <3>2, <3>3, <3>4, DmcfePlaintext
    <3> QED BY <3>1, <3>5
  <2>2. ASSUME Together(n, y), r.err # "BOUND_CHECK_FAILED", ~IsDmcfe, MatBounded(Xs, inst.bound),
               MatBounded(y, inst.bound), Searchable
        PROVE  \/ r.err = "NONE" /\ r.res = MatDot(Xs, y)
               \/ /\ r.err = "DLOG_NOT_FOUND"
                  /\ Overlooked(inst.m.scheme.grp, MatDot(Xs, y), DamgardMultiReach(inst.m))
    <3>1. PICK ks, all, xs : BelongTogether(ks, xs, y, n, cs, ps, all) /\ xs = Xs
      BY <1>1, <1>2, <2>2, TogetherBelongs
    <3>2. MatBounded(xs, inst.bound)
      BY <2>2, <3>1
    <3>3. Unambiguous(inst.m.scheme.grp, DamgardMultiReach(inst.m))
      BY <2>2 DEF Searchable
    <3>4. BelongTogether(ks, xs, y, n, cs, ps, all)
      BY <3>1
    <3>5. \/ r.err = "NONE" /\ r.res = MatDot(xs, y)
          \/ /\ r.err = "DLOG_NOT_FOUND"
             /\ Overlooked(inst.m.scheme.grp, MatDot(xs, y), DamgardMultiReach(inst.m))
      BY <1>1, <1>3, <2>2, <3>2, <3>3, <3>4, DecMultiPlaintext
    <3> QED BY <3>1, <3>5
  <2>3. CASE IsDmcfe
    BY <1>2, <1>7, <1>8, <2>1, <2>3 DEF DecryptCorrect, InBounds, Sum
  <2>4. CASE ~IsDmcfe
    BY <1>2, <1>7, <1>8, <2>2, <2>4 DEF DecryptCorrect, InBounds, Sum
  <2> QED BY <2>3, <2>4
<1> QED BY <1>5, <1>6, <1>9 DEF IInv

\* Nothing happens.
LEMMA StutterIInv ==
  ASSUME IInv, UNCHANGED vars, SharingInv' PROVE IInv'
<1>1. UNCHANGED <<inst, inits, calls, gen, key, ct, part, out>>
  BY DEF vars, sharing
<1>2. CountersOK /\ Genuineness /\ DecryptCorrect
  BY DEF IInv
<1>3. CountersOK' /\ Genuineness'
  BY <1>1, <1>2, StepOfNone, SameInstance DEF CountersOK
<1>4. /\ Parties' = Parties /\ IsDmcfe' = IsDmcfe /\ Searchable' = Searchable
      /\ Xs' = Xs /\ inst' = inst /\ ct' = ct /\ out' = out
  BY <1>1, SameInstance DEF Xs
<1>5. Sum' = Sum /\ InBounds' = InBounds
  BY <1>4 DEF Sum, InBounds
<1>6. DecryptCorrect'
  BY <1>2, <1>4, <1>5 DEF DecryptCorrect
<1> QED BY <1>3, <1>6 DEF IInv

-----------------------------------------------------------------------------
(* The theorems about keys, ciphertexts and decryption *)

\* IInv is an invariant: shares are what was used, every ciphertext and every part of a
\* functional key has a key of its client behind it, and decryption is right.
THEOREM Invariance == Spec => []IInv
<1>1. Init => IInv
  BY InitIInv
<1>2. ASSUME IInv, [Next]_vars PROVE IInv'
  <2>1. SharingInv'
    BY <1>2, NextSharing DEF IInv
  <2>2. ASSUME NEW i \in Parties, NEW dh \in inst.dh, DamgardClientInit(i, dh) PROVE IInv'
    BY <1>2, <2>1, <2>2, DamgardClientInitIInv
  <2>3. ASSUME NEW i \in Parties, NEW dh \in inst.dh, NEW k \in inst.keys, DmcfeClientInit(i, dh, k)
        PROVE  IInv'
    BY <1>2, <2>1, <2>3, DmcfeClientInitIInv
  <2>4. ASSUME NEW i \in Parties, NEW k \in inst.keys, GenerateKeys(i, k) PROVE IInv'
    BY <1>2, <2>1, <2>4, GenerateKeysIInv
  <2>5. ASSUME NEW i \in Parties, NEW pks \in Received, SetShareOf(i, pks) PROVE IInv'
    BY <1>2, <2>1, <2>5, SetShareIInv
  <2>6. ASSUME NEW i \in Parties, NEW x \in inst.xs, NEW n \in inst.nonces, Encrypt(i, x, n)
        PROVE  IInv'
    BY <1>2, <2>1, <2>6, EncryptIInv
  <2>7. ASSUME NEW i \in Parties, NEW y \in inst.ys, DeriveFeKeyPart(i, y) PROVE IInv'
    BY <1>2, <2>1, <2>7, DeriveIInv
  <2>8. ASSUME NEW n \in inst.nonces, NEW y \in inst.ys, Decrypt(n, y) PROVE IInv'
    BY <1>2, <2>1, <2>8, DecryptIInv
  <2>9. ASSUME UNCHANGED vars PROVE IInv'
    BY <1>2, <2>1, <2>9, StutterIInv
  <2> QED BY <1>2, <2>2, <2>3, <2>4, <2>5, <2>6, <2>7, <2>8, <2>9 DEF Next
<1> QED BY <1>1, <1>2, PTL DEF Spec

\* The types of what the clients hold and exchange (TypeOK).
THEOREM TypeCorrect == Spec => []TypeOK
<1>1. ASSUME IInv PROVE TypeOK
  <2>1. IsInstance(inst) /\ SharingOK /\ CountersOK /\ Genuineness
    BY <1>1 DEF IInv, SharingInv
  <2>2. IsSharing(inst.z) /\ Parties = Clients(inst.z)
    BY <2>1, InstanceFacts
  <2>3. ASSUME NEW i \in Parties
        PROVE  /\ IsShare(inst.z, share[i])
               /\ key[i] # Nothing => key[i].key \in inst.keys
               /\ part[i] # Nothing =>
                    IF IsDmcfe THEN part[i].part \in DmcfeSecretKeys(inst.d)
                               ELSE DecMultiIsFeKeyPart(inst.m, part[i].part)
    <3>1. IsUsed(inst.z, used[i]) /\ share[i] = ShareOf(inst.z, i, used[i])
      BY <2>1 DEF SharingOK
    <3>2. IsShare(inst.z, share[i])
      BY <2>2, <3>1, ShareType
    <3>3. PICK h \in [1..gen[i] -> inst.keys] : Genuine(i, h)
      BY <2>1 DEF Genuineness
    <3>4. key[i] # Nothing => key[i].key \in inst.keys
      BY <3>3 DEF Genuine, HasKey
    <3>5. ASSUME part[i] # Nothing
          PROVE  IF IsDmcfe THEN part[i].part \in DmcfeSecretKeys(inst.d)
                            ELSE DecMultiIsFeKeyPart(inst.m, part[i].part)
      <4>1. PICK p : p = part[i]
        OBVIOUS
      <4>2. /\ p.gen \in 1..gen[i] /\ p.y \in inst.ys /\ IsUsed(inst.z, p.used)
            /\ FeKeyPart(i, h[p.gen], ShareOf(inst.z, i, p.used), p.y) = Done(p.part)
        BY <3>3, <3>5, <4>1 DEF Genuine, HasDerived
      <4>3. PICK k, u, y, b : k = h[p.gen] /\ u = p.used /\ y = p.y /\ b = p.part
        OBVIOUS
      <4>4. k \in inst.keys /\ y \in inst.ys /\ IsUsed(inst.z, u) /\ FeKeyPart(i, k, ShareOf(inst.z, i, u), y) = Done(b)
        BY <4>2, <4>3
      <4>5. IF IsDmcfe THEN b \in DmcfeSecretKeys(inst.d) ELSE DecMultiIsFeKeyPart(inst.m, b)
        BY <2>1, <4>4, PartType
      <4> QED BY <4>1, <4>3, <4>5
    <3> QED BY <3>2, <3>4, <3>5
  <2>4. /\ {DOMAIN share, DOMAIN used} = {Parties} /\ secret \in [Parties -> inst.dh \cup {0}]
        /\ published \in [Parties -> SUBSET inst.dh]
    BY <2>1 DEF SharingOK
  <2> QED BY <2>1, <2>3, <2>4 DEF TypeOK
<1> QED BY <1>1, Invariance, PTL

\* The schemes of damgard_dec_multi.c and dmcfe.c decrypt to the sum of the inner products,
\* for all parameters, whatever the clients do in between (DecryptCorrect).
THEOREM Decryption == Spec => []DecryptCorrect
<1>1. IInv => DecryptCorrect
  BY DEF IInv
<1> QED BY <1>1, Invariance, PTL

-----------------------------------------------------------------------------
(* The machine with an authority *)

\* The machines with an authority have the operators of this module, under another name.
LEMMA SameSums ==
  /\ \A x, y : M!Dot(x, y) = Dot(x, y)
  /\ \A x, y : M!MatDot(x, y) = MatDot(x, y)
  /\ \A x, b : M!MatBounded(x, b) = MatBounded(x, b)
  /\ \A s, x, p : M!Padded(s, x, p) = Padded(s, x, p)
  /\ \A grp, v, b : M!Overlooked(grp, v, b) = Overlooked(grp, v, b)
  /\ \A grp, b : M!Unambiguous(grp, b) = Unambiguous(grp, b)
  /\ \A r : M!Done(r) = Done(r)
<1> USE DEF M!Dot, Dot, M!MatDot, MatDot, M!SumFunction, SumFunction, M!SumFunctionOnSet, SumFunctionOnSet,
       M!FoldFunctionOnSet, FoldFunctionOnSet, M!MapThenFoldSet, MapThenFoldSet,
       M!MatBounded, MatBounded, M!Bounded, Bounded, M!Padded, Padded, M!VecMod, VecMod, M!VecAdd, VecAdd,
       M!Overlooked, Overlooked, M!PassedOver, PassedOver, M!Mirror, Mirror, M!Exponents, Exponents,
       M!Steps, Steps, M!ISqrt, ISqrt, M!Unambiguous, Unambiguous, M!Done, Done
<1> QED OBVIOUS

\* The operations before the data are there.
LEMMA SameNew ==
  /\ \A n, grp, l, b, h : M!DamgardMultiNew(n, grp, l, b, h) = DamgardMultiNew(n, grp, l, b, h)
  /\ \A n, grp, l, b, p : M!DdhMultiNew(n, grp, l, b, p) = DdhMultiNew(n, grp, l, b, p)
  /\ \A s, v, p : M!DamgardMultiSecretKeys(s, v, p) = DamgardMultiSecretKeys(s, v, p)
  /\ \A s, v, p : M!DdhMultiSecretKeys(s, v, p) = DdhMultiSecretKeys(s, v, p)
  /\ \A s : M!DamgardMultiPadRange(s) = DamgardMultiPadRange(s)
  /\ \A s : M!DdhMultiPadRange(s) = DdhMultiPadRange(s)
  /\ \A s, k, i : M!DamgardMultiPublicKey(s, k, i) = DamgardMultiPublicKey(s, k, i)
  /\ \A s, k, i : M!DdhMultiPublicKey(s, k, i) = DdhMultiPublicKey(s, k, i)
  /\ \A grp : M!DamgardSecretRange(grp) = DamgardSecretRange(grp)
  /\ \A grp : M!DamgardNonceRange(grp) = DamgardNonceRange(grp)
  /\ \A grp : M!DdhSecretRange(grp) = DdhSecretRange(grp)
  /\ \A grp : M!DdhNonceRange(grp) = DdhNonceRange(grp)
<1> USE DEF M!DamgardMultiNew, DamgardMultiNew, M!DdhMultiNew, DdhMultiNew, M!DamgardNew, DamgardNew, M!DdhNew, DdhNew,
   M!Done, Done, M!Failed, Failed, M!Modulus, Modulus, M!DamgardMultiSecretKeys, DamgardMultiSecretKeys,
   M!DamgardSecretKeys, DamgardSecretKeys, M!DdhSecretKeys, DdhSecretKeys, M!DdhMultiSecretKeys, DdhMultiSecretKeys,
   M!DamgardMultiClients, DamgardMultiClients, M!Slots, Slots, M!DamgardMultiPadRange, DamgardMultiPadRange,
   M!DdhMultiPadRange, DdhMultiPadRange, M!DamgardMultiPublicKey, DamgardMultiPublicKey, M!DdhMultiPublicKey, DdhMultiPublicKey,
   M!DamgardPublicKey, DamgardPublicKey, M!DdhPublicKey, DdhPublicKey, M!DamgardSecretRange, DamgardSecretRange,
   M!DamgardNonceRange, DamgardNonceRange, M!DdhSecretRange, DdhSecretRange, M!DdhNonceRange, DdhNonceRange
<1> QED OBVIOUS

\* The instance computes with vectors as this module does.
LEMMA SameVectors ==
  /\ \A f : M!SumFunction(f) = SumFunction(f)
  /\ \A x, y : M!Dot(x, y) = Dot(x, y)
  /\ \A A, B : M!MatDot(A, B) = MatDot(A, B)
  /\ \A x, y : M!VecAdd(x, y) = VecAdd(x, y)
  /\ \A x, n : M!VecMod(x, n) = VecMod(x, n)
  /\ \A x, n : M!CheckBound(x, n) = CheckBound(x, n)
  /\ \A A, n : M!MatCheckBound(A, n) = MatCheckBound(A, n)
  /\ \A r : M!Done(r) = Done(r)
  /\ \A e : M!Failed(e) = Failed(e)
<1>1. \A f : M!SumFunction(f) = SumFunction(f)
  BY DEF M!SumFunction, SumFunction, M!SumFunctionOnSet, SumFunctionOnSet,
     M!FoldFunctionOnSet, FoldFunctionOnSet, M!MapThenFoldSet, MapThenFoldSet
<1>2. \A x, y : M!Dot(x, y) = Dot(x, y)
  BY <1>1 DEF M!Dot, Dot
<1>3. \A A, B : M!MatDot(A, B) = MatDot(A, B)
  BY <1>1, <1>2 DEF M!MatDot, MatDot
<1>4. /\ \A x, y : M!VecAdd(x, y) = VecAdd(x, y)
      /\ \A x, n : M!VecMod(x, n) = VecMod(x, n)
  BY DEF M!VecAdd, VecAdd, M!VecMod, VecMod
<1>5. /\ \A x, n : M!CheckBound(x, n) = CheckBound(x, n)
      /\ \A A, n : M!MatCheckBound(A, n) = MatCheckBound(A, n)
  BY DEF M!CheckBound, CheckBound, M!MatCheckBound, MatCheckBound
<1>6. (\A r : M!Done(r) = Done(r)) /\ \A e : M!Failed(e) = Failed(e)
  BY DEF M!Done, Done, M!Failed, Failed
<1> QED BY <1>1, <1>2, <1>3, <1>4, <1>5, <1>6

\* So do the searches.
LEMMA SameSearches ==
  /\ \A g, e, n : M!BabyGiantWithNeg(g, e, n) = BabyGiantWithNeg(g, e, n)
  /\ \A S : M!Min(S) = Min(S)
<1>1. \A S : M!Min(S) = Min(S)
  BY DEF M!Min, Min
<1>2. \A n : M!Steps(n) = Steps(n)
  BY DEF M!Steps, Steps, M!ISqrt, ISqrt
<1>3. \A g, v, n : M!PassedOver(g, v, n) = PassedOver(g, v, n)
  BY <1>2 DEF M!PassedOver, PassedOver
<1>4. ASSUME NEW g, NEW e, NEW n PROVE M!BabyGiant(g, e, n) = BabyGiant(g, e, n)
  <2> DEFINE met == {v \in 0..(Steps(n) * Steps(n) - 1) : v % g.q = e /\ ~PassedOver(g, v, n)}
  <2>1. {v \in 0..(M!Steps(n) * M!Steps(n) - 1) : v % g.q = e /\ ~M!PassedOver(g, v, n)} = met
    BY <1>2, <1>3
  <2>2. BabyGiant(g, e, n) = IF met = {} THEN Failed("DLOG_NOT_FOUND") ELSE Done(Min(met))
    BY DEF BabyGiant
  <2> HIDE DEF met
  <2>3. M!BabyGiant(g, e, n) = IF met = {} THEN M!Failed("DLOG_NOT_FOUND") ELSE M!Done(M!Min(met))
    BY <2>1 DEF M!BabyGiant
  <2> QED BY <1>1, <2>2, <2>3, SameVectors
<1>5. \A g : M!Mirror(g) = Mirror(g)
  BY DEF M!Mirror, Mirror, M!Exponents, Exponents
<1> QED BY <1>1, <1>4, <1>5 DEF M!BabyGiantWithNeg, BabyGiantWithNeg

\* So does a decryption slot by slot.
LEMMA SameDdhMultiDecrypt ==
  \A s, c, k, y : M!DdhMultiDecrypt(s, c, k, y) = DdhMultiDecrypt(s, c, k, y)
<1> TAKE s, c, k, y
<1> DEFINE slot == [i \in Slots(s) |-> DdhDecrypt(s.scheme, c[i], k.keys[i], y[i])]
<1>1. [i \in M!Slots(s) |-> M!DdhDecrypt(s.scheme, c[i], k.keys[i], y[i])] = slot
  BY SameVectors, SameSearches DEF M!Slots, Slots, M!DdhDecrypt, DdhDecrypt, M!DdhReach, DdhReach
<1>2. \A f : M!SumFunction(f) = SumFunction(f)
  BY SameVectors
<1>3. /\ M!Slots(s) = Slots(s) /\ \A S : M!Min(S) = Min(S)
      /\ M!MatCheckBound(y, s.bound) = MatCheckBound(y, s.bound)
      /\ \A e : M!Failed(e) = Failed(e)
  BY SameVectors, SameSearches DEF M!Slots, Slots
<1> DEFINE failed == {i \in Slots(s) : slot[i].err # "NONE"}
           found == {i \in Slots(s) : \A j \in 0..i : j \notin failed}
           e == [i \in found |-> slot[i].res]
           Outcome == [err |-> IF failed = {} THEN "NONE" ELSE slot[Min(failed)].err,
                       res |-> (SumFunction(e) - k.z) % s.bound]
<1>4. DdhMultiDecrypt(s, c, k, y)
        = IF ~MatCheckBound(y, s.bound) THEN Failed("BOUND_CHECK_FAILED") ELSE Outcome
  BY DEF DdhMultiDecrypt
<1>5. M!DdhMultiDecrypt(s, c, k, y)
        = IF ~MatCheckBound(y, s.bound) THEN Failed("BOUND_CHECK_FAILED")
          ELSE [err |-> IF failed = {} THEN "NONE" ELSE slot[M!Min(failed)].err,
                res |-> (M!SumFunction(e) - k.z) % s.bound]
  <2> HIDE DEF slot
  <2> QED BY <1>1, <1>3 DEF M!DdhMultiDecrypt
<1>6. M!Min(failed) = Min(failed) /\ M!SumFunction(e) = SumFunction(e)
  BY <1>2, <1>3
<1> HIDE DEF slot, failed, found, e
<1> QED BY <1>4, <1>5, <1>6

\* So do the calls of the two schemes.
LEMMA SameCalls ==
  /\ \A s, k, y : M!DamgardMultiDeriveFeKey(s, k, y) = DamgardMultiDeriveFeKey(s, k, y)
  /\ \A s, k, y : M!DdhMultiDeriveFeKey(s, k, y) = DdhMultiDeriveFeKey(s, k, y)
  /\ \A s, x, k, p, r : M!DamgardMultiEncrypt(s, x, k, p, r) = DamgardMultiEncrypt(s, x, k, p, r)
  /\ \A s, x, k, p, r : M!DdhMultiEncrypt(s, x, k, p, r) = DdhMultiEncrypt(s, x, k, p, r)
  /\ \A s, c, k, y : M!DamgardMultiDecrypt(s, c, k, y) = DamgardMultiDecrypt(s, c, k, y)
  /\ \A s, c, k, y : M!DdhMultiDecrypt(s, c, k, y) = DdhMultiDecrypt(s, c, k, y)
  /\ \A s : M!DamgardMultiReach(s) = DamgardMultiReach(s)
  /\ \A s : M!DdhReach(s) = DdhReach(s)
<1>1. \A s, k, y : M!DamgardDeriveFeKey(s, k, y) = DamgardDeriveFeKey(s, k, y)
  BY SameVectors DEF M!DamgardDeriveFeKey, DamgardDeriveFeKey, M!Modulus, Modulus
<1>2. \A s, k, y : M!DdhDeriveFeKey(s, k, y) = DdhDeriveFeKey(s, k, y)
  BY SameVectors DEF M!DdhDeriveFeKey, DdhDeriveFeKey
<1>3. \A s : M!Slots(s) = Slots(s) /\ M!DamgardMultiClients(s) = DamgardMultiClients(s)
  BY DEF M!Slots, Slots, M!DamgardMultiClients, DamgardMultiClients
<1>4. \A s, k, y : M!DamgardMultiDeriveFeKey(s, k, y) = DamgardMultiDeriveFeKey(s, k, y)
  BY <1>1, <1>3, SameVectors DEF M!DamgardMultiDeriveFeKey, DamgardMultiDeriveFeKey
<1>5. \A s, k, y : M!DdhMultiDeriveFeKey(s, k, y) = DdhMultiDeriveFeKey(s, k, y)
  BY <1>2, <1>3, SameVectors DEF M!DdhMultiDeriveFeKey, DdhMultiDeriveFeKey
<1>6. \A s, x, k, r : M!DamgardEncrypt(s, x, k, r) = DamgardEncrypt(s, x, k, r)
  BY SameVectors DEF M!DamgardEncrypt, DamgardEncrypt
<1>7. \A s, x, k, r : M!DdhEncrypt(s, x, k, r) = DdhEncrypt(s, x, k, r)
  BY SameVectors DEF M!DdhEncrypt, DdhEncrypt
<1>8. \A s, x, k, p, r : M!DamgardMultiEncrypt(s, x, k, p, r) = DamgardMultiEncrypt(s, x, k, p, r)
  BY <1>6, SameVectors DEF M!DamgardMultiEncrypt, DamgardMultiEncrypt
<1>9. \A s, x, k, p, r : M!DdhMultiEncrypt(s, x, k, p, r) = DdhMultiEncrypt(s, x, k, p, r)
  BY <1>7, SameVectors DEF M!DdhMultiEncrypt, DdhMultiEncrypt, M!Padded, Padded
<1>10. (\A s : M!DamgardMultiReach(s) = DamgardMultiReach(s)) /\ \A s : M!DdhReach(s) = DdhReach(s)
  BY DEF M!DamgardMultiReach, DamgardMultiReach, M!DdhReach, DdhReach
<1>11. \A s, c, k, y : M!Unmask(s, c, k, y) = Unmask(s, c, k, y)
  BY SameVectors DEF M!Unmask, Unmask
<1>12. \A s, c, k, y : M!DamgardMultiDecrypt(s, c, k, y) = DamgardMultiDecrypt(s, c, k, y)
  BY <1>3, <1>10, <1>11, SameVectors, SameSearches DEF M!DamgardMultiDecrypt, DamgardMultiDecrypt
<1> QED BY <1>4, <1>5, <1>8, <1>9, <1>10, <1>12, SameDdhMultiDecrypt

\* A sum of inner products of integers.
LEMMA MatDotIsInt ==
  ASSUME NEW P, NEW D, NEW a, NEW y, IsFiniteSet(P), IsFiniteSet(D), DOMAIN a = P,
         \A i \in P : a[i] \in [D -> Int] /\ y[i] \in [D -> Int]
  PROVE  MatDot(a, y) \in Int
<1> DEFINE f == [i \in P |-> Dot(a[i], y[i])]
<1>1. \A i \in P : f[i] \in Int
  BY DotIsInt
<1>2. MatDot(a, y) = SumFunctionOnSet(f, P)
  BY DEF MatDot, SumFunction
<1> HIDE DEF f
<1> QED BY <1>1, <1>2, SumIsInt

\* The masked data of a ciphertext are exponents.
LEMMA MaskedAreExponents ==
  ASSUME NEW q \in Nat, NEW l, NEW mpk, NEW x \in [1..l -> Int], NEW n \in Int, q # 0,
         \A k \in 1..l : mpk[k] \in Int
  PROVE  [k \in 1..l |-> (mpk[k] * n + x[k]) % q] \in [1..l -> 0..(q - 1)]
<1>1. ASSUME NEW k \in 1..l PROVE (mpk[k] * n + x[k]) % q \in 0..(q - 1)
  <2>1. PICK a, b \in Int : a = mpk[k] /\ b = x[k]
    OBVIOUS
  <2>2. PICK d \in Int : d = a * n + b
    OBVIOUS
  <2>3. d % q \in 0..(q - 1)
    BY CongruentMod
  <2> QED BY <2>1, <2>2, <2>3
<1> QED BY <1>1

\* A bound that a set-up of the Damgard scheme accepts is below the order of the group.
LEMMA AcceptedBound ==
  ASSUME NEW q \in Nat, NEW l \in Nat, NEW b \in Nat, l # 0, ~(2 * l * b * b >= q)
  PROVE  b <= q
<1>1. PICK c \in Nat : c = 2 * l * b /\ b <= c
  <2>1. PICK e \in Nat : e = 2 * l /\ e >= 1
    OBVIOUS
  <2>2. e * b = (e - 1) * b + b
    <3>1. \A m, n \in Int : m * n = (m - 1) * n + n
      OBVIOUS
    <3> QED BY <3>1
  <2>3. (e - 1) * b >= 0
    <3>1. \A m, n \in Nat : m * n >= 0
      OBVIOUS
    <3>2. e - 1 \in Nat
      BY <2>1
    <3> QED BY <3>1, <3>2
  <2>4. b <= e * b
    <3>1. PICK a, d \in Int : a = (e - 1) * b /\ d = e * b
      OBVIOUS
    <3> QED BY <2>2, <2>3, <3>1
  <2> QED BY <2>1, <2>4
<1>2. CASE b = 0
  BY <1>2
<1>3. CASE b # 0
  <2>1. c * b = c * (b - 1) + c
    OBVIOUS
  <2>2. c * (b - 1) >= 0
    <3>1. \A m, n \in Nat : m * n >= 0
      OBVIOUS
    <3>2. b - 1 \in Nat
      BY <1>3
    <3> QED BY <3>1, <3>2
  <2>3. PICK a, d \in Int : a = c * (b - 1) /\ d = c * b
    OBVIOUS
  <2>4. d < q
    BY <1>1, <2>3
  <2> QED BY <1>1, <2>1, <2>2, <2>3, <2>4
<1> QED BY <1>2, <1>3

\* What the set-up makes of an instance.
LEMMA AuthorityNew ==
  ASSUME arg \in AuthorityInstances, NEW b \in arg.bounds, NEW sch, M!New(b) = Done(sch)
  PROVE  /\ IsMulti(sch) /\ sch.n = arg.n /\ sch.bound = b
         /\ sch.scheme.grp = arg.grp /\ sch.scheme.l = arg.l
         /\ M!IsDamgard => sch.scheme.hexp \in Int
         /\ ~M!IsDamgard => sch.bound # 0 /\ sch.scheme.bound = b
<1>1. /\ arg.grp.q \in Nat /\ arg.grp.q > 2 /\ arg.n \in Nat \ {0} /\ arg.l \in Nat \ {0}
      /\ arg.hexp \in Nat /\ b \in Nat \ {0}
  BY AuthorityAssumption DEF M!InstanceAssumption, M!IsInstance
<1>2. CASE M!IsDamgard
  <2>1. DamgardMultiNew(arg.n, arg.grp, arg.l, b, arg.hexp) = Done(sch)
    BY <1>2, SameNew DEF M!New, M!NewIn
  <2>2. PICK q, l \in Nat : q = arg.grp.q /\ q # 0 /\ l = arg.l /\ l # 0
    BY <1>1
  <2>3. ~(2 * l * b * b >= q)
    BY <2>1, <2>2 DEF DamgardMultiNew, DamgardNew, Done, Failed
  <2>4. sch = [n |-> arg.n, bound |-> b,
               scheme |-> [[grp |-> arg.grp, l |-> l, bound |-> b, hexp |-> arg.hexp] EXCEPT !.bound = q]]
    BY <2>1, <2>2, <2>3 DEF DamgardMultiNew, DamgardNew, Done, Failed
  <2>5. b <= q
    BY <1>1, <2>2, <2>3, AcceptedBound
  <2>6. /\ sch.n = arg.n /\ sch.bound = b /\ sch.scheme.grp = arg.grp /\ sch.scheme.l = l
        /\ sch.scheme.hexp = arg.hexp /\ sch.scheme.bound = q
    BY <2>4
  <2> QED BY <1>1, <1>2, <2>2, <2>5, <2>6 DEF IsMulti
<1>3. CASE ~M!IsDamgard
  <2>1. PICK p : DdhMultiNew(arg.n, arg.grp, arg.l, b, p) = Done(sch)
    BY <1>3, SameNew DEF M!New, M!NewIn
  <2>2. sch = [n |-> arg.n, bound |-> b, scheme |-> [grp |-> arg.grp, l |-> arg.l, bound |-> b]]
    BY <1>1, <2>1 DEF DdhMultiNew, DdhNew, Done, Failed
  <2>3. /\ sch.n = arg.n /\ sch.bound = b /\ sch.scheme.grp = arg.grp /\ sch.scheme.l = arg.l
        /\ sch.scheme.bound = b
    BY <2>2
  <2>4. b <= b
    BY <1>1
  <2> QED BY <1>1, <1>3, <2>3, <2>4 DEF IsMulti
<1> QED BY <1>2, <1>3

\* The scheme, and the types of the master keys, the data and the randomness.
LEMMA AuthorityFacts ==
  ASSUME arg \in AuthorityInstances, M!SetUp, setup # M!NoScheme
  PROVE  /\ IsMulti(setup) /\ setup.n = arg.n /\ setup.bound \in arg.bounds
         /\ setup.scheme.grp = arg.grp /\ setup.scheme.l = arg.l
         /\ M!IsDamgard => setup.scheme.hexp \in Int
         /\ ~M!IsDamgard => setup.bound # 0 /\ setup.scheme.bound = setup.bound
         /\ M!Clients = 0..(setup.n - 1)
         /\ arg.xs \subseteq [1..arg.l -> Int] /\ arg.ys \subseteq [1..arg.l -> Int]
         /\ arg.nonces \subseteq Int
         /\ \A k \in M!Keys :
              /\ DOMAIN k.otp = M!Clients
              /\ \A i \in M!Clients :
                   /\ k.otp[i] \in [1..arg.l -> Int]
                   /\ IF M!IsDamgard
                      THEN k.msk[i].s \in [1..arg.l -> Int] /\ k.msk[i].t \in [1..arg.l -> Int]
                      ELSE k.msk[i] \in [1..arg.l -> Int]
<1>1. PICK b \in arg.bounds : M!New(b) = Done(setup)
  BY SameSums DEF M!SetUp
<1>2. /\ IsMulti(setup) /\ setup.n = arg.n /\ setup.bound \in arg.bounds
      /\ setup.scheme.grp = arg.grp /\ setup.scheme.l = arg.l
      /\ M!IsDamgard => setup.scheme.hexp \in Int
      /\ ~M!IsDamgard => setup.bound # 0 /\ setup.scheme.bound = setup.bound
  BY <1>1, AuthorityNew
<1>3. M!IsInstance(arg)
  BY AuthorityAssumption DEF M!InstanceAssumption
<1>4. M!Clients = 0..(setup.n - 1)
  BY <1>2 DEF M!Clients
<1>5. arg.grp.q \in Nat /\ Modulus(arg.grp) \in Int /\ arg.pads \subseteq Nat
  BY <1>3 DEF M!IsInstance, Modulus
<1>6. arg.secrets \subseteq Int /\ arg.nonces \subseteq Int
  <2>1. CASE arg.scheme = "damgard_multi"
    <3>1. /\ arg.secrets \subseteq DamgardSecretRange(arg.grp)
          /\ arg.nonces \subseteq DamgardNonceRange(arg.grp)
      BY <1>3, <2>1, SameNew DEF M!IsInstance
    <3> QED BY <1>5, <3>1 DEF DamgardSecretRange, DamgardNonceRange
  <2>2. CASE arg.scheme # "damgard_multi"
    <3>1. arg.secrets \subseteq DdhSecretRange(arg.grp) /\ arg.nonces \subseteq DdhNonceRange(arg.grp)
      BY <1>3, <2>2, SameNew DEF M!IsInstance
    <3> QED BY <1>5, <3>1 DEF DdhSecretRange, DdhNonceRange
  <2> QED BY <2>1, <2>2
<1>7. ASSUME NEW k \in M!Keys
      PROVE  /\ DOMAIN k.otp = M!Clients
             /\ \A i \in M!Clients :
                  /\ k.otp[i] \in [1..arg.l -> Int]
                  /\ IF M!IsDamgard
                     THEN k.msk[i].s \in [1..arg.l -> Int] /\ k.msk[i].t \in [1..arg.l -> Int]
                     ELSE k.msk[i] \in [1..arg.l -> Int]
  <2>0. PICK pads : pads = arg.pads \cap M!PadRange
    OBVIOUS
  <2>1. pads = arg.pads \cap M!PadRange /\ pads \subseteq Int
    BY <1>5, <2>0
  <2>2. CASE M!IsDamgard
    <3>1. k \in DamgardMultiSecretKeys(setup, arg.secrets, pads)
      BY <2>1, <2>2, SameNew DEF M!Keys
    <3>2. /\ k.msk \in [M!Clients -> [s : [1..arg.l -> arg.secrets], t : [1..arg.l -> arg.secrets]]]
          /\ k.otp \in [M!Clients -> [1..arg.l -> pads]]
      BY <1>2, <1>4, <3>1 DEF DamgardMultiSecretKeys, DamgardSecretKeys, DamgardMultiClients
    <3>3. ASSUME NEW i \in M!Clients
          PROVE  /\ k.otp[i] \in [1..arg.l -> Int]
                 /\ k.msk[i].s \in [1..arg.l -> Int] /\ k.msk[i].t \in [1..arg.l -> Int]
      <4>1. /\ k.otp[i] \in [1..arg.l -> pads]
            /\ k.msk[i].s \in [1..arg.l -> arg.secrets] /\ k.msk[i].t \in [1..arg.l -> arg.secrets]
        BY <3>2
      <4> QED BY <1>6, <2>1, <4>1
    <3> QED BY <2>2, <3>2, <3>3
  <2>3. CASE ~M!IsDamgard
    <3>1. k \in DdhMultiSecretKeys(setup, arg.secrets, pads)
      BY <2>1, <2>3, SameNew DEF M!Keys
    <3>2. /\ k.msk \in [M!Clients -> [1..arg.l -> arg.secrets]]
          /\ k.otp \in [M!Clients -> [1..arg.l -> pads]]
      BY <1>2, <1>4, <3>1 DEF DdhMultiSecretKeys, DdhSecretKeys, Slots
    <3>3. ASSUME NEW i \in M!Clients
          PROVE  k.otp[i] \in [1..arg.l -> Int] /\ k.msk[i] \in [1..arg.l -> Int]
      <4>1. k.otp[i] \in [1..arg.l -> pads] /\ k.msk[i] \in [1..arg.l -> arg.secrets]
        BY <3>2
      <4> QED BY <1>6, <2>1, <4>1
    <3> QED BY <2>3, <3>2, <3>3
  <2> QED BY <2>2, <2>3
<1>8. arg.xs \subseteq [1..arg.l -> Int] /\ arg.ys \subseteq [1..arg.l -> Int]
  BY <1>3 DEF M!IsInstance
<1> QED BY <1>2, <1>4, <1>6, <1>7, <1>8

\* The operations of the scheme that is run.
LEMMA AuthorityCalls ==
  /\ \A b : M!New(b) = IF M!IsDamgard THEN DamgardMultiNew(arg.n, arg.grp, arg.l, b, arg.hexp)
                       ELSE DdhMultiNew(arg.n, arg.grp, arg.l, b, arg.scheme = "ddh_multi_precomp")
  /\ \A k, i : M!PublicKey(k, i) = IF M!IsDamgard THEN DamgardMultiPublicKey(setup, k, i)
                                   ELSE DdhMultiPublicKey(setup, k, i)
  /\ \A k, y : M!FeKey(k, y) = IF M!IsDamgard THEN DamgardMultiDeriveFeKey(setup, k, y)
                               ELSE DdhMultiDeriveFeKey(setup, k, y)
  /\ \A mpk, otp, x, n :
       M!Ciphertext(mpk, otp, x, n) = IF M!IsDamgard THEN DamgardMultiEncrypt(setup, x, mpk, otp, n)
                                      ELSE DdhMultiEncrypt(setup, x, mpk, otp, n)
  /\ \A y : \E cs : /\ cs = [i \in M!Clients |-> sent[i].ct]
                    /\ M!Plaintext(y) = IF M!IsDamgard THEN DamgardMultiDecrypt(setup, cs, feKey.key, y)
                                        ELSE DdhMultiDecrypt(setup, cs, feKey.key, y)
<1>1. \A b : M!New(b) = IF M!IsDamgard THEN DamgardMultiNew(arg.n, arg.grp, arg.l, b, arg.hexp)
                       ELSE DdhMultiNew(arg.n, arg.grp, arg.l, b, arg.scheme = "ddh_multi_precomp")
  BY SameNew DEF M!New, M!NewIn
<1>2. \A k, i : M!PublicKey(k, i) = IF M!IsDamgard THEN DamgardMultiPublicKey(setup, k, i)
                                    ELSE DdhMultiPublicKey(setup, k, i)
  BY SameNew DEF M!PublicKey
<1>3. \A k, y : M!FeKey(k, y) = IF M!IsDamgard THEN DamgardMultiDeriveFeKey(setup, k, y)
                                ELSE DdhMultiDeriveFeKey(setup, k, y)
  BY SameCalls DEF M!FeKey
<1>4. \A mpk, otp, x, n :
        M!Ciphertext(mpk, otp, x, n) = IF M!IsDamgard THEN DamgardMultiEncrypt(setup, x, mpk, otp, n)
                                       ELSE DdhMultiEncrypt(setup, x, mpk, otp, n)
  BY SameCalls DEF M!Ciphertext
<1>5. ASSUME NEW y
      PROVE  \E cs : /\ cs = [i \in M!Clients |-> sent[i].ct]
                     /\ M!Plaintext(y) = IF M!IsDamgard THEN DamgardMultiDecrypt(setup, cs, feKey.key, y)
                                         ELSE DdhMultiDecrypt(setup, cs, feKey.key, y)
  BY SameCalls DEF M!Plaintext
<1> QED BY <1>1, <1>2, <1>3, <1>4, <1>5

\* The codes that the calls return.
LEMMA AuthorityCodes ==
  /\ \A b : arg \in AuthorityInstances => M!New(b).err \in {"NONE", "PRECONDITION_FAILED"}
  /\ \A k, y : M!FeKey(k, y).err \in {"NONE", "BOUND_CHECK_FAILED"}
  /\ \A mpk, otp, x, n : M!Ciphertext(mpk, otp, x, n).err \in {"NONE", "BOUND_CHECK_FAILED"}
<1>1. ASSUME NEW b, arg \in AuthorityInstances PROVE M!New(b).err \in {"NONE", "PRECONDITION_FAILED"}
  <2>1. arg.grp.q # 0
    BY <1>1, AuthorityAssumption DEF M!InstanceAssumption, M!IsInstance
  <2> QED BY <2>1, AuthorityCalls DEF DamgardMultiNew, DdhMultiNew, DamgardNew, DdhNew, Done, Failed
<1>2. ASSUME NEW k, NEW y PROVE M!FeKey(k, y).err \in {"NONE", "BOUND_CHECK_FAILED"}
  BY AuthorityCalls DEF DamgardMultiDeriveFeKey, DdhMultiDeriveFeKey, Done, Failed
<1>3. ASSUME NEW mpk, NEW otp, NEW x, NEW n
      PROVE  M!Ciphertext(mpk, otp, x, n).err \in {"NONE", "BOUND_CHECK_FAILED"}
  BY AuthorityCalls DEF DamgardMultiEncrypt, DdhMultiEncrypt, DamgardEncrypt, DdhEncrypt, Done, Failed
<1> QED BY <1>1, <1>2, <1>3

\* A call that returns no error returns its result.
LEMMA AuthorityResults ==
  /\ \A b : arg \in AuthorityInstances /\ M!New(b).err = "NONE" => M!New(b) = Done(M!New(b).res)
  /\ \A k, y : M!FeKey(k, y).err = "NONE" => M!FeKey(k, y) = Done(M!FeKey(k, y).res)
  /\ \A mpk, otp, x, n : M!Ciphertext(mpk, otp, x, n).err = "NONE"
                           => M!Ciphertext(mpk, otp, x, n) = Done(M!Ciphertext(mpk, otp, x, n).res)
<1>1. ASSUME NEW b, arg \in AuthorityInstances, M!New(b).err = "NONE"
      PROVE  M!New(b) = Done(M!New(b).res)
  <2>1. arg.grp.q # 0
    BY <1>1, AuthorityAssumption DEF M!InstanceAssumption, M!IsInstance
  <2> QED BY <1>1, <2>1, AuthorityCalls DEF DamgardMultiNew, DdhMultiNew, DamgardNew, DdhNew, Done, Failed
<1>2. ASSUME NEW k, NEW y, M!FeKey(k, y).err = "NONE" PROVE M!FeKey(k, y) = Done(M!FeKey(k, y).res)
  BY <1>2, AuthorityCalls DEF DamgardMultiDeriveFeKey, DdhMultiDeriveFeKey, Done, Failed
<1>3. ASSUME NEW mpk, NEW otp, NEW x, NEW n, M!Ciphertext(mpk, otp, x, n).err = "NONE"
      PROVE  M!Ciphertext(mpk, otp, x, n) = Done(M!Ciphertext(mpk, otp, x, n).res)
  BY <1>3, AuthorityCalls DEF DamgardMultiEncrypt, DdhMultiEncrypt, DamgardEncrypt, DdhEncrypt, Done, Failed
<1> QED BY <1>1, <1>2, <1>3

\* The codes of a decryption of the DDH scheme.
LEMMA DdhMultiCodes ==
  ASSUME NEW m, NEW c, NEW k, NEW y, m.n \in Nat
  PROVE  DdhMultiDecrypt(m, c, k, y).err \in {"NONE", "BOUND_CHECK_FAILED", "DLOG_NOT_FOUND"}
<1> DEFINE slot == [i \in Slots(m) |-> DdhDecrypt(m.scheme, c[i], k.keys[i], y[i])]
           failed == {i \in Slots(m) : slot[i].err # "NONE"}
           found == {i \in Slots(m) : \A j \in 0..i : j \notin failed}
           e == [i \in found |-> slot[i].res]
           Outcome == [err |-> IF failed = {} THEN "NONE" ELSE slot[Min(failed)].err,
                       res |-> (SumFunction(e) - k.z) % m.bound]
<1>1. DdhMultiDecrypt(m, c, k, y)
        = IF ~MatCheckBound(y, m.bound) THEN Failed("BOUND_CHECK_FAILED") ELSE Outcome
  BY DEF DdhMultiDecrypt
<1>2. \A i \in Slots(m) : slot[i].err \in {"NONE", "BOUND_CHECK_FAILED", "DLOG_NOT_FOUND"}
  <2> TAKE i \in Slots(m)
  <2>1. slot[i] = DdhDecrypt(m.scheme, c[i], k.keys[i], y[i])
    OBVIOUS
  <2> HIDE DEF slot
  <2> QED BY <2>1, SearchCodes DEF DdhDecrypt, Failed
<1>3. failed \subseteq Slots(m) /\ Slots(m) \subseteq Nat
  BY DEF Slots
<1> HIDE DEF slot, failed
<1>4. failed # {} => Min(failed) \in failed
  BY <1>3, LeastOfSlots
<1>5. Outcome.err \in {"NONE", "BOUND_CHECK_FAILED", "DLOG_NOT_FOUND"}
  BY <1>2, <1>3, <1>4
<1> HIDE DEF Outcome
<1> QED BY <1>1, <1>5 DEF Failed

\* A decryption returns one of three codes.
LEMMA PlaintextCodes ==
  ASSUME arg \in AuthorityInstances, M!SetUp, setup # M!NoScheme, NEW y
  PROVE  M!Plaintext(y).err \in {"NONE", "BOUND_CHECK_FAILED", "DLOG_NOT_FOUND"}
<1>1. PICK cs : M!Plaintext(y) = IF M!IsDamgard THEN DamgardMultiDecrypt(setup, cs, feKey.key, y)
                                 ELSE DdhMultiDecrypt(setup, cs, feKey.key, y)
  BY AuthorityCalls
<1>2. CASE M!IsDamgard
  BY <1>1, <1>2, SearchCodes DEF DamgardMultiDecrypt, Failed
<1>3. CASE ~M!IsDamgard
  <2>1. setup.n \in Nat
    BY AuthorityFacts DEF IsMulti
  <2>2. M!Plaintext(y) = DdhMultiDecrypt(setup, cs, feKey.key, y)
    BY <1>1, <1>3
  <2> QED BY <2>1, <2>2, DdhMultiCodes
<1> QED BY <1>2, <1>3

\* What a client has sent was made with its part of the master key k.
IsSentWith(k, i, x, c) ==
  x \in arg.xs /\ \E n \in arg.nonces : M!Ciphertext(M!PublicKey(k, i), k.otp[i], x, n) = Done(c)

\* What a decryption with ciphertexts of all clients and a key of one master key returns.
LEMMA AuthorityPlaintext ==
  ASSUME arg \in AuthorityInstances, M!SetUp, setup # M!NoScheme,
         NEW k \in M!Keys, NEW y \in [M!Clients -> arg.ys], NEW r,
         \A i \in M!Clients : IsSentWith(k, i, sent[i].x, sent[i].ct),
         \A i \in M!Clients : sent[i].otp = k.otp[i],
         M!FeKey(k, y) = Done(feKey.key), feKey.y = y, r = M!Plaintext(y)
  PROVE  IF M!IsDamgard
         THEN M!InBounds /\ M!Unambiguous(arg.grp, M!DamgardMultiReach(setup)) =>
                \/ r.err = "NONE" /\ r.res = M!Sum
                \/ r.err = "DLOG_NOT_FOUND" /\ M!Missed(M!Sum, M!DamgardMultiReach(setup))
         ELSE M!MatBounded(feKey.y, setup.bound) /\ M!Unambiguous(arg.grp, M!DdhReach(setup.scheme)) =>
                \/ r.err = "NONE" /\ r.res = M!Sum % setup.bound
                \/ /\ r.err = "DLOG_NOT_FOUND"
                   /\ \E i \in M!Clients :
                        M!Missed(M!Dot(M!Padded(setup, sent[i].x, sent[i].otp), feKey.y[i]), M!DdhReach(setup.scheme))
<1>1. PICK cs : /\ cs = [i \in M!Clients |-> sent[i].ct]
                /\ r = IF M!IsDamgard THEN DamgardMultiDecrypt(setup, cs, feKey.key, y)
                       ELSE DdhMultiDecrypt(setup, cs, feKey.key, y)
  BY AuthorityCalls
<1>2. PICK xs, P, fk : xs = [i \in M!Clients |-> sent[i].x] /\ P = M!Clients /\ fk = feKey.key
  OBVIOUS
<1>3. M!Sum = MatDot(xs, y) /\ M!Xs = xs
  BY <1>2, SameSums DEF M!Sum, M!Xs
<1>4. M!InBounds <=> MatBounded(xs, setup.bound) /\ MatBounded(y, setup.bound)
  BY <1>3, SameSums DEF M!InBounds
<1>5. \A v, reach : M!Missed(v, reach) <=> Overlooked(arg.grp, v, reach)
  BY SameSums DEF M!Missed
<1>6. /\ IsMulti(setup) /\ setup.scheme.l = arg.l /\ setup.scheme.grp = arg.grp
      /\ P = 0..(setup.n - 1) /\ P = DamgardMultiClients(setup) /\ P = Slots(setup)
  BY <1>2, AuthorityFacts DEF DamgardMultiClients, Slots
<1>7. /\ DOMAIN xs = P /\ DOMAIN k.otp = P /\ y \in [P -> [1..setup.scheme.l -> Int]]
      /\ \A i \in P : k.otp[i] \in [1..setup.scheme.l -> Int] /\ xs[i] \in [1..setup.scheme.l -> Int]
      /\ \A i \in P : \E n \in Int : M!Ciphertext(M!PublicKey(k, i), k.otp[i], xs[i], n) = Done(cs[i])
  <2>1. /\ arg.xs \subseteq [1..setup.scheme.l -> Int] /\ arg.ys \subseteq [1..setup.scheme.l -> Int]
        /\ arg.nonces \subseteq Int /\ DOMAIN k.otp = P
        /\ \A i \in P : k.otp[i] \in [1..setup.scheme.l -> Int]
    BY <1>2, AuthorityFacts
  <2>2. ASSUME NEW i \in P
        PROVE  xs[i] \in [1..setup.scheme.l -> Int]
               /\ \E n \in Int : M!Ciphertext(M!PublicKey(k, i), k.otp[i], xs[i], n) = Done(cs[i])
    <3>1. xs[i] = sent[i].x /\ cs[i] = sent[i].ct
      BY <1>1, <1>2
    <3>2. IsSentWith(k, i, xs[i], cs[i])
      BY <1>2, <3>1
    <3> QED BY <2>1, <3>2 DEF IsSentWith
  <2>3. DOMAIN xs = P /\ y \in [P -> [1..setup.scheme.l -> Int]]
    BY <1>2, <2>1
  <2> QED BY <2>1, <2>2, <2>3
<1>8. CASE M!IsDamgard
  <2>1. AreDamgardInputs(setup, P, k, xs, y, cs, fk)
    <3>1. \A i \in P : k.msk[i].s \in [1..setup.scheme.l -> Int] /\ k.msk[i].t \in [1..setup.scheme.l -> Int]
      BY <1>2, <1>8, AuthorityFacts
    <3>2. DamgardMultiDeriveFeKey(setup, k, y) = Done(fk) /\ setup.scheme.hexp \in Int
      BY <1>2, <1>8, AuthorityCalls, AuthorityFacts
    <3>3. \A i \in P : \E n \in Int :
            DamgardMultiEncrypt(setup, xs[i], DamgardMultiPublicKey(setup, k, i), k.otp[i], n) = Done(cs[i])
      BY <1>7, <1>8, AuthorityCalls
    <3> QED BY <1>6, <1>7, <3>1, <3>2, <3>3 DEF AreDamgardInputs
  <2>2. ASSUME M!InBounds, M!Unambiguous(arg.grp, M!DamgardMultiReach(setup))
        PROVE  \/ r.err = "NONE" /\ r.res = MatDot(xs, y)
               \/ /\ r.err = "DLOG_NOT_FOUND"
                  /\ Overlooked(setup.scheme.grp, MatDot(xs, y), DamgardMultiReach(setup))
    <3>1. MatBounded(xs, setup.bound) /\ MatBounded(y, setup.bound)
      BY <1>4, <2>2
    <3>2. Unambiguous(setup.scheme.grp, DamgardMultiReach(setup))
      BY <1>6, <2>2, SameSums, SameCalls
    <3>3. r = DamgardMultiDecrypt(setup, cs, fk, y)
      BY <1>1, <1>2, <1>8
    <3> QED BY <2>1, <3>1, <3>2, <3>3, DamgardMultiDecrypts
  <2>3. M!DamgardMultiReach(setup) = DamgardMultiReach(setup)
    BY SameCalls
  <2> QED BY <1>3, <1>5, <1>6, <1>8, <2>2, <2>3
<1>9. CASE ~M!IsDamgard
  <2>1. AreDdhInputs(setup, P, k, xs, y, cs, fk)
    <3>1. \A i \in P : k.msk[i] \in [1..setup.scheme.l -> Int]
      BY <1>2, <1>9, AuthorityFacts
    <3>2. DdhMultiDeriveFeKey(setup, k, y) = Done(fk) /\ setup.bound # 0 /\ setup.scheme.bound = setup.bound
      BY <1>2, <1>9, AuthorityCalls, AuthorityFacts
    <3>3. \A i \in P : \E n \in Int :
            DdhMultiEncrypt(setup, xs[i], DdhMultiPublicKey(setup, k, i), k.otp[i], n) = Done(cs[i])
      BY <1>7, <1>9, AuthorityCalls
    <3> QED BY <1>6, <1>7, <3>1, <3>2, <3>3 DEF AreDdhInputs
  <2>2. ASSUME M!MatBounded(feKey.y, setup.bound), M!Unambiguous(arg.grp, M!DdhReach(setup.scheme))
        PROVE  \/ r.err = "NONE" /\ r.res = MatDot(xs, y) % setup.bound
               \/ /\ r.err = "DLOG_NOT_FOUND"
                  /\ \E i \in P : Overlooked(setup.scheme.grp, Dot(Padded(setup, xs[i], k.otp[i]), y[i]),
                                         DdhReach(setup.scheme))
    <3>1. MatBounded(y, setup.bound)
      BY <2>2, SameSums
    <3>2. Unambiguous(setup.scheme.grp, DdhReach(setup.scheme))
      BY <1>6, <2>2, SameSums, SameCalls
    <3>3. r = DdhMultiDecrypt(setup, cs, fk, y)
      BY <1>1, <1>2, <1>9
    <3> QED BY <2>1, <3>1, <3>2, <3>3, DdhMultiDecrypts
  <2>3. M!DdhReach(setup.scheme) = DdhReach(setup.scheme)
    BY SameCalls
  <2>4. \A i \in P : M!Dot(M!Padded(setup, sent[i].x, sent[i].otp), feKey.y[i])
                       = Dot(Padded(setup, xs[i], k.otp[i]), y[i])
    BY <1>2, SameSums
  <2> QED BY <1>2, <1>3, <1>5, <1>6, <1>9, <2>2, <2>3, <2>4
<1> QED BY <1>8, <1>9

-----------------------------------------------------------------------------
(* The steps with an authority *)

\* The types of ciphertexts and functional keys.
LEMMA AuthorityTypes ==
  ASSUME arg \in AuthorityInstances, M!SetUp, setup # M!NoScheme, NEW k \in M!Keys
  PROVE  /\ \A i \in M!Clients : \A x, c : IsSentWith(k, i, x, c) => c.c \in [1..arg.l -> 0..(arg.grp.q - 1)]
         /\ \A y \in [M!Clients -> arg.ys] : \A fk : M!FeKey(k, y) = Done(fk) => fk.z \in M!PadRange
<1>1. PICK q, l, b \in Nat : /\ q = arg.grp.q /\ q # 0 /\ l = arg.l /\ b = setup.bound
                                     /\ setup.scheme.grp.q = q /\ setup.scheme.l = l
                                     /\ M!Clients = 0..(setup.n - 1) /\ setup.n \in Nat
                                     /\ IsFiniteSet(1..l)
  <2>1. /\ arg.grp.q \in Nat /\ arg.grp.q # 0 /\ setup.bound \in Nat /\ setup.n \in Nat
        /\ setup.scheme.grp = arg.grp /\ setup.scheme.l = arg.l /\ M!Clients = 0..(setup.n - 1)
        /\ arg.l \in Nat
    BY AuthorityFacts DEF IsMulti
  <2>2. IsFiniteSet(1..arg.l)
    BY <2>1, FS_Interval
  <2> QED BY <2>1, <2>2
<1>2. ASSUME NEW i \in M!Clients, NEW x, NEW c, IsSentWith(k, i, x, c)
      PROVE  c.c \in [1..arg.l -> 0..(arg.grp.q - 1)]
  <2>1. PICK n \in arg.nonces : M!Ciphertext(M!PublicKey(k, i), k.otp[i], x, n) = Done(c)
    BY <1>2 DEF IsSentWith
  <2>2. n \in Int /\ x \in [1..l -> Int] /\ k.otp[i] \in [1..l -> Int]
    BY <1>1, <1>2, AuthorityFacts DEF IsSentWith
  <2>3. PICK otp : otp = k.otp[i] /\ otp \in [1..l -> Int]
    BY <2>2
  <2>4. DOMAIN VecAdd(x, otp) = 1..l /\ \A j \in 1..l : VecAdd(x, otp)[j] \in Int
    BY <2>2, <2>3 DEF VecAdd
  <2>5. \A d \in Nat : d # 0 => VecMod(VecAdd(x, otp), d) \in [1..l -> Int]
    <3> TAKE d \in Nat
    <3> HAVE d # 0
    <3>1. \A j \in 1..l : VecAdd(x, otp)[j] % d \in Int
      BY <2>4, CongruentMod
    <3> QED BY <2>4, <3>1 DEF VecMod
  <2>6. CASE M!IsDamgard
    <3>1. PICK mpk, w : mpk = DamgardMultiPublicKey(setup, k, i) /\ w = VecMod(VecAdd(x, otp), q)
      OBVIOUS
    <3>2. DamgardMultiEncrypt(setup, x, mpk, otp, n) = Done(c)
      BY <2>1, <2>3, <2>6, <3>1, AuthorityCalls
    <3>3. DamgardEncrypt(setup.scheme, w, mpk, n) = Done(c)
      BY <1>1, <3>1, <3>2 DEF DamgardMultiEncrypt, Done, Failed
    <3>4. c.c = [j \in 1..l |-> (mpk[j] * n + w[j]) % q]
      <4>1. PICK sch : sch = setup.scheme /\ sch.grp.q = q /\ sch.l = l
        BY <1>1
      <4>2. c = [c0 |-> n % sch.grp.q, c1 |-> (sch.hexp * n) % sch.grp.q,
                 c |-> [j \in 1..sch.l |-> (mpk[j] * n + w[j]) % sch.grp.q]]
        BY <3>3, <4>1 DEF DamgardEncrypt, Done, Failed
      <4>3. c.c = [j \in 1..sch.l |-> (mpk[j] * n + w[j]) % sch.grp.q]
        BY <4>2
      <4> QED BY <4>1, <4>3
    <3>5. \A j \in 1..l : mpk[j] \in Int
      <4>1. /\ k.msk[i].s \in [1..l -> Int] /\ k.msk[i].t \in [1..l -> Int] /\ setup.scheme.hexp \in Int
        BY <1>1, <1>2, <2>6, AuthorityFacts
      <4>2. ASSUME NEW j \in 1..l PROVE (k.msk[i].s[j] + setup.scheme.hexp * k.msk[i].t[j]) % q \in Int
        <5>1. PICK s, t, h \in Int : s = k.msk[i].s[j] /\ t = k.msk[i].t[j] /\ h = setup.scheme.hexp
          BY <4>1
        <5>2. PICK d \in Int : d = s + h * t
          OBVIOUS
        <5>3. d % q \in Int
          BY <1>1, CongruentMod
        <5> QED BY <5>1, <5>2, <5>3
      <4> QED BY <1>1, <3>1, <4>2 DEF DamgardMultiPublicKey, DamgardPublicKey
    <3>6. w \in [1..l -> Int]
      BY <1>1, <2>5, <3>1
    <3>7. [j \in 1..l |-> (mpk[j] * n + w[j]) % q] \in [1..l -> 0..(q - 1)]
      <4>1. q # 0 /\ n \in Int
        BY <1>1, <2>2
      <4> QED BY <3>5, <3>6, <4>1, MaskedAreExponents
    <3>8. 1..l = 1..arg.l /\ 0..(q - 1) = 0..(arg.grp.q - 1)
      BY <1>1
    <3> QED BY <3>4, <3>7, <3>8
  <2>7. CASE ~M!IsDamgard
    <3>1. PICK mpk, w : mpk = DdhMultiPublicKey(setup, k, i) /\ w = Padded(setup, x, otp)
      OBVIOUS
    <3>2. DdhMultiEncrypt(setup, x, mpk, otp, n) = Done(c)
      BY <2>1, <2>3, <2>7, <3>1, AuthorityCalls
    <3>3. DdhEncrypt(setup.scheme, w, mpk, n) = Done(c)
      BY <1>1, <3>1, <3>2 DEF DdhMultiEncrypt, Done, Failed
    <3>4. c.c = [j \in 1..l |-> (mpk[j] * n + w[j]) % q]
      <4>1. PICK sch : sch = setup.scheme /\ sch.grp.q = q /\ sch.l = l
        BY <1>1
      <4>2. c = [c0 |-> n, c |-> [j \in 1..sch.l |-> (mpk[j] * n + w[j]) % sch.grp.q]]
        BY <3>3, <4>1 DEF DdhEncrypt, Done, Failed
      <4>3. c.c = [j \in 1..sch.l |-> (mpk[j] * n + w[j]) % sch.grp.q]
        BY <4>2
      <4> QED BY <4>1, <4>3
    <3>5. \A j \in 1..l : mpk[j] \in Int
      <4>1. k.msk[i] \in [1..l -> Int]
        BY <1>1, <1>2, <2>7, AuthorityFacts
      <4>2. ASSUME NEW j \in 1..l PROVE k.msk[i][j] % q \in Int
        BY <1>1, <4>1, CongruentMod
      <4> QED BY <1>1, <3>1, <4>2 DEF DdhMultiPublicKey, DdhPublicKey
    <3>6. w \in [1..l -> Int]
      <4>1. b # 0
        BY <1>1, <2>7, AuthorityFacts
      <4> QED BY <1>1, <2>5, <3>1, <4>1 DEF Padded
    <3>7. [j \in 1..l |-> (mpk[j] * n + w[j]) % q] \in [1..l -> 0..(q - 1)]
      <4>1. q # 0 /\ n \in Int
        BY <1>1, <2>2
      <4> QED BY <3>5, <3>6, <4>1, MaskedAreExponents
    <3>8. 1..l = 1..arg.l /\ 0..(q - 1) = 0..(arg.grp.q - 1)
      BY <1>1
    <3> QED BY <3>4, <3>7, <3>8
  <2> QED BY <2>6, <2>7
<1>3. ASSUME NEW y \in [M!Clients -> arg.ys], NEW fk, M!FeKey(k, y) = Done(fk)
      PROVE  fk.z \in M!PadRange
  <2>1. MatDot(k.otp, y) \in Int
    <3>1. arg.ys \subseteq [1..l -> Int]
      BY <1>1, AuthorityFacts
    <3>2. /\ DOMAIN k.otp = M!Clients
          /\ \A i \in M!Clients : k.otp[i] \in [1..l -> Int] /\ y[i] \in [1..l -> Int]
      BY <1>1, <3>1, AuthorityFacts
    <3>3. IsFiniteSet(M!Clients)
      BY <1>1, ClientsAreFinite
    <3> QED BY <1>1, <3>2, <3>3, MatDotIsInt
  <2>2. PICK a \in Int : a = MatDot(k.otp, y)
    BY <2>1
  <2>3. CASE M!IsDamgard
    <3>1. DamgardMultiDeriveFeKey(setup, k, y) = Done(fk)
      BY <1>3, <2>3, AuthorityCalls
    <3>2. fk.z = a % q
      BY <1>1, <2>2, <3>1 DEF DamgardMultiDeriveFeKey, Done, Failed
    <3>3. M!PadRange = 0..(q - 1)
      BY <1>1, <2>3, SameNew DEF M!PadRange, DamgardMultiPadRange
    <3>4. a % q \in 0..(q - 1)
      BY <1>1, CongruentMod
    <3> QED BY <3>2, <3>3, <3>4
  <2>4. CASE ~M!IsDamgard
    <3>1. DdhMultiDeriveFeKey(setup, k, y) = Done(fk)
      BY <1>3, <2>4, AuthorityCalls
    <3>2. fk.z = a % b
      BY <1>1, <2>2, <3>1 DEF DdhMultiDeriveFeKey, Done, Failed
    <3>3. M!PadRange = 0..(b - 1)
      BY <1>1, <2>4, SameNew DEF M!PadRange, DdhMultiPadRange
    <3>4. a % b \in 0..(b - 1)
      <4>1. b # 0
        BY <1>1, <2>4, AuthorityFacts
      <4> QED BY <1>1, <4>1, CongruentMod
    <3> QED BY <3>2, <3>3, <3>4
  <2> QED BY <2>3, <2>4
<1> QED BY <1>2, <1>3

\* The inductive invariant has the types and decryption in it.
LEMMA AuthorityImplies == M!IInv => M!TypeOK /\ M!DecryptCorrect
<1> SUFFICES ASSUME M!IInv PROVE M!TypeOK
  BY DEF M!IInv
<1>1. M!CountersOK /\ M!SetUp /\ arg \in AuthorityInstances /\ epoch \in Nat
  BY AuthorityAssumption DEF M!IInv, M!CountersOK, M!InstanceAssumption
<1>2. CASE setup = M!NoScheme
  <2>1. epoch = 0 /\ feKey = M!Nothing /\ \A i \in M!Clients : held[i] = M!Nothing /\ sent[i] = M!Nothing
    BY <1>1, <1>2 DEF M!SetUp
  <2>2. setup.bound = -1
    BY <1>2 DEF M!NoScheme
  <2>3. \A i \in M!Clients : held[i].epoch = 0 /\ sent[i].epoch = 0
    BY <2>1 DEF M!Nothing
  <2> QED BY <1>1, <2>1, <2>2, <2>3 DEF M!TypeOK
<1>3. CASE setup # M!NoScheme
  <2>1. PICK h \in [1..epoch -> M!Keys] : M!Genuine(h)
    BY <1>3 DEF M!IInv
  <2>2. ASSUME NEW i \in M!Clients
        PROVE  /\ {held[i].epoch, sent[i].epoch} \subseteq 0..epoch
               /\ sent[i] # M!Nothing => sent[i].ct.c \in [1..arg.l -> 0..(arg.grp.q - 1)]
    <3>1. M!HasReceived(i, h) /\ M!HasSent(i, h)
      BY <2>1 DEF M!Genuine
    <3>2. held[i].epoch \in 0..epoch
      BY <1>1, <3>1 DEF M!HasReceived, M!Nothing
    <3>3. sent[i].epoch \in 0..epoch
      BY <1>1, <3>1 DEF M!HasSent, M!Nothing
    <3>4. ASSUME sent[i] # M!Nothing
          PROVE  sent[i].ct.c \in [1..arg.l -> 0..(arg.grp.q - 1)]
      <4>1. PICK c : c = sent[i]
        OBVIOUS
      <4>2. /\ c.epoch \in 1..epoch /\ c.x \in arg.xs
            /\ \E n \in arg.nonces :
                 M!Ciphertext(M!PublicKey(h[c.epoch], i), h[c.epoch].otp[i], c.x, n) = M!Done(c.ct)
        BY <3>1, <3>4, <4>1 DEF M!HasSent
      <4>3. PICK k \in M!Keys : k = h[c.epoch]
        BY <4>2
      <4>4. IsSentWith(k, i, c.x, c.ct)
        BY <4>2, <4>3, SameSums DEF IsSentWith
      <4> QED BY <1>1, <1>3, <4>1, <4>4, AuthorityTypes
    <3> QED BY <3>2, <3>3, <3>4
  <2>3. feKey # M!Nothing => feKey.key.z \in M!PadRange
    <3> SUFFICES ASSUME feKey # M!Nothing PROVE feKey.key.z \in M!PadRange
      OBVIOUS
    <3>1. /\ feKey.epoch \in 1..epoch /\ feKey.y \in [M!Clients -> arg.ys]
          /\ M!FeKey(h[feKey.epoch], feKey.y) = M!Done(feKey.key)
      BY <2>1 DEF M!Genuine, M!HasIssued
    <3>2. PICK k \in M!Keys : k = h[feKey.epoch]
      BY <3>1
    <3>3. M!FeKey(k, feKey.y) = Done(feKey.key)
      BY <3>1, <3>2, SameSums
    <3> QED BY <1>1, <1>3, <3>1, <3>3, AuthorityTypes
  <2>4. setup.bound \in arg.bounds
    BY <1>1, <1>3, AuthorityFacts
  <2> QED BY <1>1, <2>2, <2>3, <2>4 DEF M!TypeOK
<1> QED BY <1>2, <1>3

\* What depends on the instance and the scheme only does not change with the rest.
LEMMA SameAuthority ==
  ASSUME arg' = arg, setup' = setup
  PROVE  /\ M!SetUp' <=> (IF setup = M!NoScheme
                          THEN epoch' = 0 /\ feKey' = M!Nothing
                               /\ \A i \in M!Clients : held'[i] = M!Nothing /\ sent'[i] = M!Nothing
                          ELSE \E b \in arg.bounds : M!New(b) = M!Done(setup))
         /\ M!Keys' = M!Keys /\ M!IsDamgard' = M!IsDamgard /\ M!Clients' = M!Clients
         /\ \A k, i : M!PublicKey(k, i)' = M!PublicKey(k, i)
         /\ \A k, y : M!FeKey(k, y)' = M!FeKey(k, y)
         /\ \A mpk, otp, x, n : M!Ciphertext(mpk, otp, x, n)' = M!Ciphertext(mpk, otp, x, n)
<1>1. M!IsDamgard' = M!IsDamgard /\ M!Clients' = M!Clients /\ \A b : M!New(b)' = M!New(b)
  BY DEF M!IsDamgard, M!Clients, M!New, M!NewIn
<1>2. M!PadRange' = M!PadRange
  BY <1>1 DEF M!PadRange
<1>3. M!Keys' = M!Keys
  BY <1>1, <1>2 DEF M!Keys
<1>4. /\ \A k, i : M!PublicKey(k, i)' = M!PublicKey(k, i)
      /\ \A k, y : M!FeKey(k, y)' = M!FeKey(k, y)
      /\ \A mpk, otp, x, n : M!Ciphertext(mpk, otp, x, n)' = M!Ciphertext(mpk, otp, x, n)
  BY <1>1 DEF M!PublicKey, M!FeKey, M!Ciphertext
<1>5. M!SetUp' <=> (IF setup = M!NoScheme
                    THEN epoch' = 0 /\ feKey' = M!Nothing
                         /\ \A i \in M!Clients : held'[i] = M!Nothing /\ sent'[i] = M!Nothing
                    ELSE \E b \in arg.bounds : M!New(b) = M!Done(setup))
  BY <1>1 DEF M!SetUp
<1> QED BY <1>1, <1>3, <1>4, <1>5

\* Correct decryption is about ciphertexts, the key and what the last call returned.
LEMMA AuthorityStutters ==
  ASSUME UNCHANGED <<arg, setup, sent, feKey, answer>>, M!DecryptCorrect PROVE M!DecryptCorrect'
<1>1. M!Clients' = M!Clients /\ M!IsDamgard' = M!IsDamgard
  BY SameAuthority
<1>2. M!Xs' = M!Xs
  BY <1>1 DEF M!Xs
<1>3. M!Sum' = M!Sum /\ M!InBounds' = M!InBounds /\ \A v, r : M!Missed(v, r)' = M!Missed(v, r)
  BY <1>2 DEF M!Sum, M!InBounds, M!Missed
<1> QED BY <1>1, <1>3 DEF M!DecryptCorrect

\* What the clients hold and the functional key stay genuine under more master keys.
LEMMA MoreMasterKeys ==
  ASSUME epoch \in Nat, NEW h, NEW k, NEW K, h \in [1..epoch -> M!Keys], K \in M!Keys,
         k = [e \in 1..(epoch + 1) |-> IF e = epoch + 1 THEN K ELSE h[e]], M!Genuine(h)
  PROVE  /\ k \in [1..(epoch + 1) -> M!Keys] /\ k[epoch + 1] = K
         /\ M!HasIssued(k) /\ \A i \in M!Clients : M!HasReceived(i, k) /\ M!HasSent(i, k)
<1>1. /\ k \in [1..(epoch + 1) -> M!Keys] /\ k[epoch + 1] = K
      /\ \A e \in 1..epoch : k[e] = h[e]
  OBVIOUS
<1>2. M!HasIssued(k)
  BY <1>1 DEF M!Genuine, M!HasIssued
<1>3. ASSUME NEW i \in M!Clients PROVE M!HasReceived(i, k) /\ M!HasSent(i, k)
  <2>1. M!HasReceived(i, h) /\ M!HasSent(i, h)
    BY DEF M!Genuine
  <2>2. M!HasReceived(i, k)
    BY <1>1, <2>1 DEF M!HasReceived
  <2>3. M!HasSent(i, k)
    BY <1>1, <2>1 DEF M!HasSent
  <2> QED BY <2>2, <2>3
<1> QED BY <1>1, <1>2, <1>3

\* The invariant holds before the set-up.
LEMMA AuthorityInit == M!Init => M!IInv
<1> SUFFICES ASSUME M!Init PROVE M!IInv
  OBVIOUS
<1>1. /\ arg \in AuthorityInstances /\ setup = M!NoScheme /\ epoch = 0 /\ feKey = M!Nothing
      /\ held = [i \in M!Clients |-> M!Nothing] /\ sent = [i \in M!Clients |-> M!Nothing]
      /\ answer.err = "NONE" /\ answer.same = FALSE
  BY DEF M!Init, M!NotADecryption, M!Done
<1>2. M!CountersOK
  <2>1. epoch \in 0..MaxEpoch
    BY <1>1, AuthorityAssumption DEF M!InstanceAssumption
  <2>2. DOMAIN held = M!Clients /\ DOMAIN sent = M!Clients
    BY <1>1
  <2> QED BY <1>1, <2>1, <2>2 DEF M!CountersOK
<1>3. M!DecryptCorrect
  BY <1>1 DEF M!DecryptCorrect
<1>4. M!SetUp
  BY <1>1 DEF M!SetUp
<1> QED BY <1>1, <1>2, <1>3, <1>4 DEF M!IInv

\* A set-up without a group fails and changes nothing but its result.
LEMMA AuthorityWithoutGroup ==
  ASSUME M!IInv, NEW grp \in M!NoGroups, NEW b \in arg.bounds, M!Setup(grp, b) PROVE M!IInv'
<1>1. PICK e \in {"PARAM_GEN_FAILED", "PRECONDITION_FAILED"} : grp = M!NoGroup(e)
  BY DEF M!NoGroups
<1>2. grp.q = 0 /\ grp.err = e
  BY <1>1 DEF M!NoGroup
<1>3. M!NewIn(grp, b).err = e
  BY <1>2 DEF M!NewIn, M!DamgardMultiNew, M!DdhMultiNew, M!DamgardNew, M!DdhNew, M!Failed, M!Done
<1>4. /\ setup = M!NoScheme /\ setup' = setup /\ answer' = M!NotADecryption(M!NewIn(grp, b))
      /\ UNCHANGED <<arg, master, epoch, held, sent, feKey>>
  BY <1>3 DEF M!Setup
<1>5. answer'.err = e /\ answer'.same = FALSE
  BY <1>3, <1>4 DEF M!NotADecryption
<1>6. M!Clients' = M!Clients
  BY <1>4 DEF M!Clients
<1>7. M!CountersOK' /\ M!DecryptCorrect'
  BY <1>4, <1>5, <1>6 DEF M!IInv, M!CountersOK, M!DecryptCorrect
<1> QED BY <1>4, <1>6, <1>7 DEF M!IInv, M!SetUp

\* The set-up.
LEMMA AuthoritySetup == ASSUME M!IInv, NEW b \in arg.bounds, M!Setup(arg.grp, b) PROVE M!IInv'
<1>1. /\ setup = M!NoScheme /\ UNCHANGED <<arg, master, epoch, held, sent, feKey>>
      /\ setup' = (IF M!New(b).err = "NONE" THEN M!New(b).res ELSE M!NoScheme)
      /\ answer' = M!NotADecryption(M!New(b))
  BY DEF M!Setup, M!New
<1>2. /\ M!CountersOK /\ arg \in AuthorityInstances /\ epoch = 0 /\ feKey = M!Nothing
      /\ \A i \in M!Clients : held[i] = M!Nothing /\ sent[i] = M!Nothing
  BY <1>1 DEF M!IInv, M!CountersOK, M!SetUp
<1>3. M!Clients' = M!Clients
  BY <1>1 DEF M!Clients
<1>4. M!CountersOK'
  <2>1. M!New(b).err \in {"NONE", "PRECONDITION_FAILED"}
    BY <1>2, AuthorityCodes
  <2>2. answer'.err = M!New(b).err
    BY <1>1 DEF M!NotADecryption
  <2> QED BY <1>1, <1>2, <1>3, <2>1, <2>2 DEF M!CountersOK
<1>5. M!DecryptCorrect'
  <2>1. answer'.same = FALSE
    BY <1>1 DEF M!NotADecryption
  <2> QED BY <2>1 DEF M!DecryptCorrect
<1>6. CASE setup' = M!NoScheme
  <2>1. M!SetUp'
    BY <1>1, <1>2, <1>3, <1>6 DEF M!SetUp
  <2> QED BY <1>4, <1>5, <1>6, <2>1 DEF M!IInv
<1>7. CASE setup' # M!NoScheme
  <2>1. M!New(b) = M!Done(setup')
    BY <1>1, <1>2, <1>7, AuthorityResults, SameSums
  <2>2. M!SetUp'
    <3>1. M!New(b)' = M!New(b)
      BY <1>1 DEF M!New, M!NewIn, M!IsDamgard
    <3> QED BY <1>1, <1>7, <2>1, <3>1 DEF M!SetUp
  <2>3. \E h \in [1..epoch -> M!Keys]' : M!Genuine(h)'
    <3>1. PICK h : h = [i \in 1..0 |-> 0]
      OBVIOUS
    <3>2. h \in [1..epoch -> M!Keys]'
      BY <1>1, <1>2, <3>1
    <3>3. M!Genuine(h)'
      BY <1>1, <1>2, <1>3 DEF M!Genuine, M!HasIssued, M!HasReceived, M!HasSent
    <3> QED BY <3>2, <3>3
  <2> QED BY <1>4, <1>5, <1>7, <2>2, <2>3 DEF M!IInv
<1> QED BY <1>6, <1>7

\* A new master key.
LEMMA AuthorityGenerate ==
  ASSUME M!IInv, setup # M!NoScheme, NEW K \in M!Keys, M!GenerateMasterKeys(K) PROVE M!IInv'
<1>1. /\ epoch < MaxEpoch /\ master' = K /\ epoch' = epoch + 1
      /\ UNCHANGED <<arg, setup, held, sent, feKey, answer>>
  BY DEF M!GenerateMasterKeys
<1>2. M!CountersOK /\ M!DecryptCorrect /\ M!SetUp /\ epoch \in Nat /\ MaxEpoch \in Nat
  BY AuthorityAssumption DEF M!IInv, M!CountersOK, M!InstanceAssumption
<1>3. PICK h \in [1..epoch -> M!Keys] : M!Genuine(h)
  BY DEF M!IInv
<1>4. M!CountersOK'
  <2>1. epoch' \in 0..MaxEpoch
    BY <1>1, <1>2
  <2> QED BY <1>1, <1>2, <2>1, SameAuthority DEF M!CountersOK
<1>5. M!DecryptCorrect'
  BY <1>1, <1>2, AuthorityStutters
<1>6. M!SetUp'
  BY <1>1, <1>2, SameAuthority DEF M!SetUp
<1>7. PICK k : k = [e \in 1..(epoch + 1) |-> IF e = epoch + 1 THEN K ELSE h[e]]
  OBVIOUS
<1>8. /\ k \in [1..(epoch + 1) -> M!Keys] /\ k[epoch + 1] = K
      /\ M!HasIssued(k) /\ \A i \in M!Clients : M!HasReceived(i, k) /\ M!HasSent(i, k)
  BY <1>2, <1>3, <1>7, MoreMasterKeys
<1>9. k \in [1..epoch -> M!Keys]'
  BY <1>1, <1>8, SameAuthority
<1>10. M!Genuine(k)'
  <2>1. \A e \in 1..epoch : e \in 1..epoch'
    BY <1>1, <1>2
  <2>2. M!HasIssued(k)'
    BY <1>1, <1>8, <2>1, SameAuthority DEF M!HasIssued
  <2>3. ASSUME NEW i \in M!Clients PROVE M!HasReceived(i, k)' /\ M!HasSent(i, k)'
    BY <1>1, <1>8, <2>1, SameAuthority DEF M!HasReceived, M!HasSent
  <2> QED BY <1>1, <1>8, <2>2, <2>3, SameAuthority DEF M!Genuine
<1> QED BY <1>1, <1>4, <1>5, <1>6, <1>9, <1>10 DEF M!IInv

\* What a step that keeps the master key leaves genuine.
LEMMA KeptGenuine ==
  ASSUME M!IInv, UNCHANGED <<arg, setup, master, epoch>>, setup # M!NoScheme
  PROVE  /\ M!SetUp'
         /\ \A h : h \in [1..epoch -> M!Keys] => h \in [1..epoch -> M!Keys]'
         /\ \A h : M!HasIssued(h) /\ feKey' = feKey => M!HasIssued(h)'
         /\ \A h : \A i \in M!Clients : M!HasReceived(i, h) /\ held'[i] = held[i] => M!HasReceived(i, h)'
         /\ \A h : \A i \in M!Clients : M!HasSent(i, h) /\ sent'[i] = sent[i] => M!HasSent(i, h)'
         /\ \A h : M!Genuine(h)' <=> /\ epoch > 0 => h[epoch] = master
                                     /\ M!HasIssued(h)'
                                     /\ \A i \in M!Clients : M!HasReceived(i, h)' /\ M!HasSent(i, h)'
<1>1. M!SetUp'
  <2>1. \E b \in arg.bounds : M!New(b) = M!Done(setup)
    BY DEF M!IInv, M!SetUp
  <2> QED BY <2>1, SameAuthority
<1>2. \A h : h \in [1..epoch -> M!Keys] => h \in [1..epoch -> M!Keys]'
  BY SameAuthority
<1>3. \A h : M!HasIssued(h) /\ feKey' = feKey => M!HasIssued(h)'
  BY SameAuthority DEF M!HasIssued
<1>4. \A h : \A i \in M!Clients : M!HasReceived(i, h) /\ held'[i] = held[i] => M!HasReceived(i, h)'
  BY SameAuthority DEF M!HasReceived
<1>5. \A h : \A i \in M!Clients : M!HasSent(i, h) /\ sent'[i] = sent[i] => M!HasSent(i, h)'
  BY SameAuthority DEF M!HasSent
<1>6. \A h : M!Genuine(h)' <=> /\ epoch > 0 => h[epoch] = master
                               /\ M!HasIssued(h)'
                               /\ \A i \in M!Clients : M!HasReceived(i, h)' /\ M!HasSent(i, h)'
  BY SameAuthority DEF M!Genuine
<1> QED BY <1>1, <1>2, <1>3, <1>4, <1>5, <1>6

\* A client receives its part.
LEMMA AuthorityReceive ==
  ASSUME M!IInv, NEW i \in M!Clients, M!Receive(i) PROVE M!IInv'
<1>1. /\ held[i].epoch # epoch
      /\ held' = [held EXCEPT ![i] = [epoch |-> epoch, mpk |-> M!PublicKey(master, i), otp |-> master.otp[i]]]
      /\ UNCHANGED <<arg, setup, master, epoch, sent, feKey, answer>>
  BY DEF M!Receive
<1>2. M!CountersOK /\ M!DecryptCorrect /\ M!SetUp /\ epoch \in Nat /\ DOMAIN held = M!Clients
  BY AuthorityAssumption DEF M!IInv, M!CountersOK, M!InstanceAssumption
<1>3. setup # M!NoScheme
  BY <1>1, <1>2 DEF M!SetUp, M!Nothing
<1>4. PICK h \in [1..epoch -> M!Keys] : M!Genuine(h)
  BY <1>3 DEF M!IInv
<1>5. epoch > 0 /\ h[epoch] = master
  <2>1. M!HasReceived(i, h)
    BY <1>4 DEF M!Genuine
  <2>2. CASE epoch = 0
    <3>1. held[i] = M!Nothing
      BY <2>1, <2>2 DEF M!HasReceived
    <3> QED BY <1>1, <2>2, <3>1 DEF M!Nothing
  <2>3. CASE epoch # 0
    BY <1>2, <1>4, <2>3 DEF M!Genuine
  <2> QED BY <2>2, <2>3
<1>6. M!CountersOK'
  BY <1>1, <1>2, SameAuthority DEF M!CountersOK
<1>7. M!DecryptCorrect'
  BY <1>1, <1>2, AuthorityStutters
<1>8. M!Genuine(h)'
  <2>1. ASSUME NEW j \in M!Clients PROVE M!HasReceived(j, h)' /\ M!HasSent(j, h)'
    <3>1. M!HasReceived(j, h) /\ M!HasSent(j, h)
      BY <1>4 DEF M!Genuine
    <3>2. M!HasSent(j, h)'
      BY <1>1, <1>3, <3>1, KeptGenuine
    <3>3. CASE j = i
      <4>1. held'[j] = [epoch |-> epoch, mpk |-> M!PublicKey(h[epoch], j), otp |-> h[epoch].otp[j]]
        BY <1>1, <1>2, <1>5, <3>3
      <4>2. held'[j].epoch = epoch /\ held'[j].mpk = M!PublicKey(h[epoch], j) /\ held'[j].otp = h[epoch].otp[j]
        BY <4>1
      <4>3. epoch \in 1..epoch
        BY <1>2, <1>5
      <4>4. M!HasReceived(j, h)'
        BY <1>1, <4>2, <4>3, SameAuthority DEF M!HasReceived
      <4> QED BY <3>2, <4>4
    <3>4. CASE j # i
      <4>1. held'[j] = held[j]
        BY <1>1, <1>2, <3>4
      <4> QED BY <1>1, <1>3, <3>1, <3>2, <4>1, KeptGenuine
    <3> QED BY <3>3, <3>4
  <2>2. M!HasIssued(h)'
    BY <1>1, <1>3, <1>4, KeptGenuine DEF M!Genuine
  <2> QED BY <1>1, <1>3, <1>5, <2>1, <2>2, KeptGenuine
<1>9. M!SetUp' /\ h \in [1..epoch -> M!Keys]'
  BY <1>1, <1>3, <1>4, KeptGenuine
<1> QED BY <1>6, <1>7, <1>8, <1>9 DEF M!IInv

\* A functional key is issued.
LEMMA AuthorityDerive ==
  ASSUME M!IInv, NEW y \in [M!Clients -> arg.ys], M!DeriveFeKey(y) PROVE M!IInv'
<1>1. PICK r : r = M!FeKey(master, y)
  OBVIOUS
<1>2. /\ epoch > 0
      /\ feKey' = (IF r.err = "NONE" THEN [epoch |-> epoch, y |-> y, key |-> r.res] ELSE feKey)
      /\ answer' = M!NotADecryption(r) /\ UNCHANGED <<arg, setup, master, epoch, held, sent>>
  BY <1>1 DEF M!DeriveFeKey
<1>3. M!CountersOK /\ M!SetUp /\ epoch \in Nat
  BY AuthorityAssumption DEF M!IInv, M!CountersOK, M!InstanceAssumption
<1>4. setup # M!NoScheme
  BY <1>2, <1>3 DEF M!SetUp
<1>5. PICK h \in [1..epoch -> M!Keys] : M!Genuine(h)
  BY <1>4 DEF M!IInv
<1>6. h[epoch] = master /\ epoch \in 1..epoch
  BY <1>2, <1>3, <1>5 DEF M!Genuine
<1>7. M!CountersOK'
  <2>1. r.err \in {"NONE", "BOUND_CHECK_FAILED"} /\ answer'.err = r.err
    BY <1>1, <1>2, AuthorityCodes DEF M!NotADecryption
  <2> QED BY <1>2, <1>3, <2>1, SameAuthority DEF M!CountersOK
<1>8. M!DecryptCorrect'
  <2>1. answer'.same = FALSE
    BY <1>2 DEF M!NotADecryption
  <2> QED BY <2>1 DEF M!DecryptCorrect
<1>9. M!Genuine(h)'
  <2>1. \A i \in M!Clients : M!HasReceived(i, h)' /\ M!HasSent(i, h)'
    BY <1>2, <1>4, <1>5, KeptGenuine DEF M!Genuine
  <2>2. M!HasIssued(h)'
    <3>1. CASE r.err # "NONE"
      BY <1>2, <1>4, <1>5, <3>1, KeptGenuine DEF M!Genuine
    <3>2. CASE r.err = "NONE"
      <4>1. feKey'.epoch = epoch /\ feKey'.y = y /\ feKey'.key = r.res
        BY <1>2, <3>2
      <4>2. M!FeKey(h[epoch], y) = M!Done(r.res)
        BY <1>1, <1>6, <3>2, AuthorityResults, SameSums
      <4> QED BY <1>2, <1>6, <4>1, <4>2, SameAuthority DEF M!HasIssued
    <3> QED BY <3>1, <3>2
  <2> QED BY <1>2, <1>4, <1>6, <2>1, <2>2, KeptGenuine
<1>10. M!SetUp' /\ h \in [1..epoch -> M!Keys]'
  BY <1>2, <1>4, <1>5, KeptGenuine
<1> QED BY <1>7, <1>8, <1>9, <1>10 DEF M!IInv

\* A client encrypts with the part it has.
LEMMA AuthorityEncrypt ==
  ASSUME M!IInv, NEW i \in M!Clients, NEW x \in arg.xs, NEW n \in arg.nonces, M!Encrypt(i, x, n)
  PROVE  M!IInv'
<1>1. PICK p, r : p = held[i] /\ r = M!Ciphertext(p.mpk, p.otp, x, n)
  OBVIOUS
<1>2. /\ p # M!Nothing
      /\ sent' = (IF r.err = "NONE"
                  THEN [sent EXCEPT ![i] = [epoch |-> p.epoch, x |-> x, otp |-> p.otp, ct |-> r.res]]
                  ELSE sent)
      /\ answer' = M!NotADecryption(r) /\ UNCHANGED <<arg, setup, master, epoch, held, feKey>>
  BY <1>1 DEF M!Encrypt
<1>3. M!CountersOK /\ M!SetUp /\ epoch \in Nat /\ DOMAIN sent = M!Clients
  <2>1. M!CountersOK /\ M!SetUp
    BY DEF M!IInv
  <2>2. DOMAIN sent = M!Clients
    BY <2>1 DEF M!CountersOK
  <2>3. epoch \in Nat
    BY <2>1, AuthorityAssumption DEF M!CountersOK, M!InstanceAssumption
  <2> QED BY <2>1, <2>2, <2>3
<1>4. setup # M!NoScheme
  BY <1>1, <1>2, <1>3 DEF M!SetUp
<1>5. PICK h \in [1..epoch -> M!Keys] : M!Genuine(h)
  BY <1>4 DEF M!IInv
<1>6. /\ p.epoch \in 1..epoch /\ p.mpk = M!PublicKey(h[p.epoch], i) /\ p.otp = h[p.epoch].otp[i]
  BY <1>1, <1>2, <1>5 DEF M!Genuine, M!HasReceived
<1>7. M!CountersOK'
  <2>1. r.err \in {"NONE", "BOUND_CHECK_FAILED"} /\ answer'.err = r.err
    BY <1>1, <1>2, AuthorityCodes DEF M!NotADecryption
  <2>2. DOMAIN sent' = M!Clients
    BY <1>2, <1>3
  <2> QED BY <1>2, <1>3, <2>1, <2>2, SameAuthority DEF M!CountersOK
<1>8. M!DecryptCorrect'
  <2>1. answer'.same = FALSE
    BY <1>2 DEF M!NotADecryption
  <2> QED BY <2>1 DEF M!DecryptCorrect
<1>9. M!Genuine(h)'
  <2>1. M!HasIssued(h)' /\ \A j \in M!Clients : M!HasReceived(j, h)'
    BY <1>2, <1>4, <1>5, KeptGenuine DEF M!Genuine
  <2>2. ASSUME NEW j \in M!Clients PROVE M!HasSent(j, h)'
    <3>1. M!HasSent(j, h)
      BY <1>5 DEF M!Genuine
    <3>2. CASE j # i \/ r.err # "NONE"
      <4>1. sent'[j] = sent[j]
        BY <1>2, <1>3, <3>2
      <4> QED BY <1>2, <1>4, <3>1, <4>1, KeptGenuine
    <3>3. CASE j = i /\ r.err = "NONE"
      <4>1. PICK c : c = sent'[j] /\ c = [epoch |-> p.epoch, x |-> x, otp |-> p.otp, ct |-> r.res]
        BY <1>2, <1>3, <3>3
      <4>2. c.epoch = p.epoch /\ c.x = x /\ c.otp = p.otp /\ c.ct = r.res
        BY <4>1
      <4>3. M!Ciphertext(M!PublicKey(h[c.epoch], j), h[c.epoch].otp[j], c.x, n) = M!Done(c.ct)
        BY <1>1, <1>6, <3>3, <4>2, AuthorityResults, SameSums
      <4>4. c.epoch \in 1..epoch /\ c.otp = h[c.epoch].otp[j] /\ c.x \in arg.xs
        BY <1>6, <3>3, <4>2
      <4>5. M!Ciphertext(M!PublicKey(h[c.epoch], j), h[c.epoch].otp[j], c.x, n)' = M!Done(c.ct)
        BY <1>2, <4>3, SameAuthority
      <4>6. n \in arg'.nonces /\ c.x \in arg'.xs /\ c.epoch \in 1..epoch'
        BY <1>2, <4>4
      <4> QED BY <4>1, <4>4, <4>5, <4>6 DEF M!HasSent
    <3> QED BY <3>2, <3>3
  <2>3. epoch > 0 => h[epoch] = master
    BY <1>5 DEF M!Genuine
  <2> QED BY <1>2, <1>4, <2>1, <2>2, <2>3, KeptGenuine
<1>10. M!SetUp' /\ h \in [1..epoch -> M!Keys]'
  BY <1>2, <1>4, <1>5, KeptGenuine
<1> QED BY <1>7, <1>8, <1>9, <1>10 DEF M!IInv

\* A decryption with any key of any ciphertexts.
LEMMA AuthorityDecrypt ==
  ASSUME M!IInv, NEW y \in [M!Clients -> arg.ys], M!Decrypt(y) PROVE M!IInv'
<1>1. PICK r : r = M!Plaintext(y)
  OBVIOUS
<1>2. /\ feKey # M!Nothing /\ \A i \in M!Clients : sent[i] # M!Nothing
      /\ answer' = [same |-> /\ feKey.y = y /\ r.err # "BOUND_CHECK_FAILED"
                             /\ \A i \in M!Clients : sent[i].epoch = feKey.epoch,
                    err |-> r.err, res |-> r.res]
      /\ UNCHANGED <<arg, setup, master, epoch, held, sent, feKey>>
  BY <1>1 DEF M!Decrypt
<1>3. M!CountersOK /\ M!SetUp /\ arg \in AuthorityInstances
  BY DEF M!IInv, M!CountersOK
<1>4. setup # M!NoScheme
  BY <1>2, <1>3 DEF M!SetUp
<1>5. PICK h \in [1..epoch -> M!Keys] : M!Genuine(h)
  BY <1>4 DEF M!IInv
<1>6. /\ answer'.err = r.err /\ answer'.res = r.res
      /\ answer'.same => feKey.y = y /\ \A i \in M!Clients : sent[i].epoch = feKey.epoch
  BY <1>2
<1>7. M!CountersOK'
  <2>1. r.err \in {"NONE", "BOUND_CHECK_FAILED", "DLOG_NOT_FOUND"}
    BY <1>1, <1>3, <1>4, PlaintextCodes
  <2>2. r.err \in {"NONE", "PRECONDITION_FAILED", "BOUND_CHECK_FAILED", "DLOG_NOT_FOUND"}
    BY <2>1
  <2> QED BY <1>2, <1>3, <1>6, <2>2, SameAuthority DEF M!CountersOK
<1>8. M!DecryptCorrect'
  <2>1. ASSUME answer'.same
        PROVE  IF M!IsDamgard
               THEN M!InBounds /\ M!Unambiguous(arg.grp, M!DamgardMultiReach(setup)) =>
                      \/ r.err = "NONE" /\ r.res = M!Sum
                      \/ r.err = "DLOG_NOT_FOUND" /\ M!Missed(M!Sum, M!DamgardMultiReach(setup))
               ELSE M!MatBounded(feKey.y, setup.bound) /\ M!Unambiguous(arg.grp, M!DdhReach(setup.scheme)) =>
                      \/ r.err = "NONE" /\ r.res = M!Sum % setup.bound
                      \/ /\ r.err = "DLOG_NOT_FOUND"
                         /\ \E i \in M!Clients :
                              M!Missed(M!Dot(M!Padded(setup, sent[i].x, sent[i].otp), feKey.y[i]),
                                       M!DdhReach(setup.scheme))
    <3>1. feKey.y = y /\ \A i \in M!Clients : sent[i].epoch = feKey.epoch
      BY <1>6, <2>1
    <3>2. feKey.epoch \in 1..epoch /\ M!FeKey(h[feKey.epoch], feKey.y) = M!Done(feKey.key)
      BY <1>2, <1>5 DEF M!Genuine, M!HasIssued
    <3>3. PICK k \in M!Keys : k = h[feKey.epoch]
      BY <3>2
    <3>4. M!FeKey(k, y) = Done(feKey.key)
      BY <3>1, <3>2, <3>3, SameSums
    <3>5. ASSUME NEW i \in M!Clients
          PROVE  IsSentWith(k, i, sent[i].x, sent[i].ct) /\ sent[i].otp = k.otp[i]
      <4>1. M!HasSent(i, h) /\ sent[i] # M!Nothing /\ sent[i].epoch = feKey.epoch
        BY <1>2, <1>5, <3>1 DEF M!Genuine
      <4>2. PICK c : c = sent[i]
        OBVIOUS
      <4>3. /\ c.x \in arg.xs /\ c.otp = k.otp[i]
            /\ \E n \in arg.nonces : M!Ciphertext(M!PublicKey(k, i), k.otp[i], c.x, n) = M!Done(c.ct)
        BY <3>3, <4>1, <4>2 DEF M!HasSent
      <4> QED BY <4>2, <4>3, SameSums DEF IsSentWith
    <3>6. \A i \in M!Clients : IsSentWith(k, i, sent[i].x, sent[i].ct)
      BY <3>5
    <3>7. \A i \in M!Clients : sent[i].otp = k.otp[i]
      BY <3>5
    <3> QED BY <1>1, <1>3, <1>4, <3>1, <3>4, <3>6, <3>7, AuthorityPlaintext
  <2>2. /\ M!Clients' = M!Clients /\ M!IsDamgard' = M!IsDamgard /\ M!Xs' = M!Xs
        /\ arg' = arg /\ setup' = setup /\ feKey' = feKey /\ sent' = sent
    BY <1>2, SameAuthority DEF M!Xs
  <2>3. M!Sum' = M!Sum /\ M!InBounds' = M!InBounds /\ \A v, reach : M!Missed(v, reach)' = M!Missed(v, reach)
    BY <2>2 DEF M!Sum, M!InBounds, M!Missed
  <2> QED BY <1>6, <2>1, <2>2, <2>3 DEF M!DecryptCorrect
<1>9. M!Genuine(h)'
  BY <1>2, <1>4, <1>5, KeptGenuine DEF M!Genuine
<1>10. M!SetUp' /\ h \in [1..epoch -> M!Keys]'
  BY <1>2, <1>4, <1>5, KeptGenuine
<1> QED BY <1>7, <1>8, <1>9, <1>10 DEF M!IInv

\* Nothing happens.
LEMMA AuthorityWaits ==
  ASSUME M!IInv, UNCHANGED <<arg, setup, master, epoch, held, sent, feKey, answer>> PROVE M!IInv'
<1>1. M!CountersOK /\ M!DecryptCorrect /\ M!SetUp
  BY DEF M!IInv
<1>2. M!CountersOK'
  BY <1>1, SameAuthority DEF M!CountersOK
<1>3. M!DecryptCorrect'
  BY <1>1, AuthorityStutters
<1>4. CASE setup = M!NoScheme
  <2>1. M!SetUp'
    BY <1>1, <1>4, SameAuthority DEF M!SetUp
  <2> QED BY <1>2, <1>3, <1>4, <2>1 DEF M!IInv, M!NoScheme
<1>5. CASE setup # M!NoScheme
  <2>1. PICK h \in [1..epoch -> M!Keys] : M!Genuine(h)
    BY <1>5 DEF M!IInv
  <2>2. M!Genuine(h)'
    BY <1>5, <2>1, KeptGenuine DEF M!Genuine
  <2>3. M!SetUp' /\ h \in [1..epoch -> M!Keys]'
    BY <1>5, <2>1, KeptGenuine
  <2> QED BY <1>2, <1>3, <2>2, <2>3 DEF M!IInv
<1> QED BY <1>4, <1>5

-----------------------------------------------------------------------------
(* The theorems about the machines that run in turn *)

\* The machine with an authority keeps its invariant while it runs.
THEOREM AuthorityInvariance == OneSpec => [](turn = "authority" => M!IInv)
<1> DEFINE Inv == turn = "authority" => M!IInv
<1>1. OneInit => Inv
  BY AuthorityInit DEF OneInit
<1>2. ASSUME Inv, [OneNext]_varsOfAll PROVE Inv'
  <2> SUFFICES ASSUME turn' = "authority" PROVE M!IInv'
    OBVIOUS
  <2>1. CASE UNCHANGED varsOfAll
    <3>1. turn = "authority" /\ UNCHANGED <<arg, setup, master, epoch, held, sent, feKey, answer>>
      BY <2>1 DEF varsOfAll, ofOthers
    <3> QED BY <1>2, <3>1, AuthorityWaits
  <2>2. CASE OneNext
    <3>1. turn = "authority" /\ M!Next
      BY <2>2 DEF OneNext
    <3>2. M!IInv
      BY <1>2, <3>1
    <3>3. ASSUME NEW grp \in {arg.grp} \cup M!NoGroups, NEW b \in arg.bounds, M!Setup(grp, b)
          PROVE  M!IInv'
      BY <3>2, <3>3, AuthoritySetup, AuthorityWithoutGroup
    <3>4. ASSUME setup # M!NoScheme, NEW K \in M!Keys, M!GenerateMasterKeys(K) PROVE M!IInv'
      BY <3>2, <3>4, AuthorityGenerate
    <3>5. ASSUME NEW y \in [M!Clients -> arg.ys], M!DeriveFeKey(y) PROVE M!IInv'
      BY <3>2, <3>5, AuthorityDerive
    <3>6. ASSUME NEW y \in [M!Clients -> arg.ys], M!Decrypt(y) PROVE M!IInv'
      BY <3>2, <3>6, AuthorityDecrypt
    <3>7. ASSUME NEW i \in M!Clients, M!Receive(i) PROVE M!IInv'
      BY <3>2, <3>7, AuthorityReceive
    <3>8. ASSUME NEW i \in M!Clients, NEW x \in arg.xs, NEW n \in arg.nonces, M!Encrypt(i, x, n)
          PROVE  M!IInv'
      BY <3>2, <3>8, AuthorityEncrypt
    <3> QED BY <3>1, <3>3, <3>4, <3>5, <3>6, <3>7, <3>8 DEF M!Next
  <2> QED BY <1>2, <2>1, <2>2
<1> QED BY <1>1, <1>2, PTL DEF OneSpec

\* The schemes of damgard_multi.c and ddh_multi.c keep their types and decrypt to the sum of
\* the inner products, for all parameters, numbers of clients and orders of the calls.
THEOREM AuthorityDecryption == OneSpec => []AuthorityDecrypts
<1>1. (turn = "authority" => M!IInv) => AuthorityDecrypts
  BY AuthorityImplies DEF AuthorityDecrypts
<1> QED BY <1>1, AuthorityInvariance, PTL

\* The machines of Decentralised run as its specification says, whichever machine has the
\* turn: what is proved of them holds of the composition that the runs check.
THEOREM Composition == OneSpec => Spec
<1>1. OneInit => Init
  BY DEF OneInit, Waits
<1>2. [OneNext]_varsOfAll => [Next]_vars
  BY DEF OneNext, varsOfAll
<1> QED BY <1>1, <1>2, PTL DEF OneSpec, Spec

=============================================================================
