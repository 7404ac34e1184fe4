------------------------- MODULE BabyGiantGT_proofs -------------------------
(***************************************************************************)
(* Proofs about the search in the target group, for every group, base,     *)
(* bound and hash function; and that it is the search in one step that the *)
(* models of the schemes use.                                              *)
(***************************************************************************)
EXTENDS BabyGiantGT, GroupLemmas, TLAPS

-----------------------------------------------------------------------------
(* Sizes *)

\* The exponents that the rounds meet are covered by the laws of Pow.
LEMMA RangeOK ==
  ASSUME TypeOK, i <= m, NEW j \in 0..m
  PROVE  /\ i * m \in Nat /\ i * m + j \in 0..MaxExp /\ i * m \in 0..MaxExp
         /\ m \in 0..MaxExp /\ (i + 1) * m = i * m + m /\ i * m + m <= MaxExp
         /\ j \in 0..MaxExp /\ 1 <= MaxExp
<1>1. i \in Nat /\ m \in Nat /\ MaxExp \in Nat /\ (m + 1) * (m + 1) <= MaxExp
  BY PowAssumption DEF TypeOK
<1>2. i * m \in Nat /\ m * m \in Nat
  BY <1>1
<1>3. i * m <= m * m
  <2>1. m - i \in Nat /\ (m - i) * m \in Nat
    BY <1>1
  <2>2. (m - i) * m = m * m - i * m
    BY <1>1
  <2> QED BY <1>2, <2>1, <2>2
<1>4. (m + 1) * (m + 1) = m * m + m + m + 1
  BY <1>1
<1>5. (i + 1) * m = i * m + m
  BY <1>1
<1> QED BY <1>1, <1>2, <1>3, <1>4, <1>5

\* The size that the entry computes, what it covers, and the farthest exponent.
LEMMA SizeOK ==
  ASSUME IsBound(bound)
  PROVE  /\ bound \in Nat /\ Size \in Nat /\ (Size + 1) * (Size + 1) <= MaxExp
         /\ Size * Size \in Nat /\ bound < Size * Size + Size
         /\ Farthest = Size * Size + Size /\ Farthest \in Nat /\ Farthest <= MaxExp
         /\ MaxExp \in Nat /\ 1 <= MaxExp
<1> DEFINE s == Sqrt(bound)
<1>1. bound \in Nat /\ s \in Nat /\ bound < (s + 1) * (s + 1) /\ (s + 2) * (s + 2) <= MaxExp
  BY DEF IsBound
<1>2. Size = s + 1 /\ Size + 1 = s + 2
  BY <1>1 DEF Size
<1>3. (s + 1) * (s + 1) \in Nat
  BY <1>1
<1> HIDE DEF s
<1>4. bound < Size * Size + Size /\ (Size + 1) * (Size + 1) <= MaxExp
  BY <1>1, <1>2, <1>3
<1>5. PICK n \in Nat : n = Size /\ n * n \in Nat
  BY <1>1, <1>2
<1>6. (n + 1) * (n + 1) = n * n + n + n + 1
  BY <1>5
<1> QED BY <1>1, <1>4, <1>5, <1>6, PowAssumption DEF Farthest

\* What depends on the call only.
LEMMA SameCall ==
  ASSUME h' = h, bound' = bound
  PROVE  /\ Size' = Size /\ Farthest' = Farthest /\ Reached' = Reached
         /\ Disturbed' = Disturbed
         /\ \A v : Solves(v)' = Solves(v)
<1>1. Size' = Size /\ Farthest' = Farthest /\ Reached' = Reached
  BY DEF Size, Farthest, Reached
<1>2. Lookups' = Lookups
  BY <1>1 DEF Lookups
<1>3. Disturbed' = Disturbed
  BY <1>1, <1>2 DEF Disturbed
<1> QED BY <1>1, <1>3 DEF Solves

-----------------------------------------------------------------------------
(* The initial state, the entry and the first loop *)

\* The invariant holds before the first call.
LEMMA InitIInv == Init => IInv
<1> SUFFICES ASSUME Init PROVE IInv
  OBVIOUS
<1>1. (m + 1) * (m + 1) <= MaxExp /\ i \in 0..(m + 1)
  <2>1. IsBound(bound) /\ m = 0 /\ i = 0
    BY DEF Init
  <2>2. 1 <= MaxExp /\ MaxExp \in Nat
    BY <2>1, SizeOK
  <2> QED BY <2>1, <2>2
<1>2. TypeOK
  BY <1>1, GroupAssumption DEF Init, TypeOK
<1> QED BY <1>2 DEF Init, IInv, CallInv, BabyInv, GiantInv, ControlInv, DoneInv

\* A new search is begun.
LEMMA CallIInv == IInv /\ Call => IInv'
<1> SUFFICES ASSUME IInv, Call PROVE IInv'
  OBVIOUS
<1> USE DEF IInv
<1>0. /\ pc = "call" /\ UNCHANGED <<h, bound, i, x, xneg, table, res>>
      /\ h \in Grp /\ bound \in Bounds /\ IsBound(bound)
      /\ i = 0 /\ x = One /\ table = {} /\ res = 0 /\ err = "NONE"
  BY DEF Call, TypeOK, CallInv
<1>1. CASE h = One
  <2>1. pc' = "done" /\ UNCHANGED <<m, err>>
    BY <1>1 DEF Call
  <2>2. TypeOK'
    BY <1>0, <2>1 DEF TypeOK, IsBound
  <2>3. Pow(G, 0) = One /\ 0 \in Reached
    BY <1>0, SizeOK, GroupAssumption, PowAssumption DEF Reached
  <2>4. 0 \in Reached' /\ Solves(0)'
    BY <1>0, <1>1, <2>3, SameCall DEF Solves
  <2>5. DoneInv'
    BY <1>0, <2>1, <2>4 DEF DoneInv, NeverMissed
  <2> QED BY <2>1, <2>2, <2>5 DEF CallInv, BabyInv, GiantInv, ControlInv
<1>2. CASE h # One
  <2>1. pc' = "baby" /\ m' = Size /\ err' = "DLOG_NOT_FOUND"
    BY <1>2 DEF Call
  <2>2. TypeOK'
    <3>1. m' \in Nat /\ (m' + 1) * (m' + 1) <= MaxExp /\ i' \in 0..(m' + 1)
      BY <1>0, <2>1, SizeOK
    <3> QED BY <1>0, <2>1, <3>1 DEF TypeOK, IsBound
  <2>3. BabyInv'
    <3>1. Pow(G, 0) = One
      BY GroupAssumption, PowAssumption
    <3>2. Table(i)' = {}
      BY <1>0 DEF Table
    <3> QED BY <1>0, <3>1, <3>2 DEF BabyInv
  <2>4. ControlInv'
    BY <1>0, <2>1, SameCall DEF ControlInv
  <2> QED BY <1>0, <2>1, <2>2, <2>3, <2>4 DEF CallInv, GiantInv, DoneInv
<1> QED BY <1>1, <1>2

\* A baby step enters one more pair into the table.
LEMMA BabyStepIInv == IInv /\ BabyStep => IInv'
<1> SUFFICES ASSUME IInv, BabyStep PROVE IInv'
  OBVIOUS
<1> USE DEF IInv
<1>0. /\ pc = "baby" /\ i <= m /\ i' = i + 1 /\ x' = Mul(x, G)
      /\ table' = table \cup {<<HashOf(x), i>>}
      /\ UNCHANGED <<h, bound, pc, m, xneg, res, err>>
      /\ x = Pow(G, i) /\ table = Table(i) /\ i \in Nat /\ m \in Nat
  BY DEF BabyStep, BabyInv, TypeOK
<1>1. x' = Pow(G, i') /\ x' \in Grp
  <2>1. i \in 0..MaxExp /\ 1 \in 0..MaxExp /\ i + 1 <= MaxExp /\ MaxExp \in Nat
    <3>1. m * m \in Nat /\ (m + 1) * (m + 1) = m * m + m + m + 1
      BY <1>0
    <3> QED BY <1>0, <3>1, PowAssumption DEF TypeOK
  <2>2. Pow(G, i + 1) = Mul(Pow(G, i), Pow(G, 1)) /\ Pow(G, 1) = G
    BY <2>1, GroupAssumption, PowAssumption
  <2>3. Pow(G, i + 1) \in Grp
    BY <1>0, <2>1, GroupAssumption, PowAssumption
  <2> QED BY <1>0, <2>2, <2>3
<1>2. table' = Table(i)'
  <2>1. 0..i = 0..(i - 1) \cup {i}
    BY <1>0
  <2>2. Table(i)' = {<<HashOf(Pow(G, j)), j>> : j \in 0..i}
    BY <1>0 DEF Table
  <2> QED BY <1>0, <2>1, <2>2 DEF Table
<1>3. TypeOK'
  <2>1. \A e \in table' : \E a \in Grp, j \in 0..m : e = <<HashOf(a), j>>
    BY <1>0 DEF TypeOK
  <2>2. i' \in 0..(m' + 1)
    BY <1>0
  <2> QED BY <1>0, <1>1, <2>1, <2>2 DEF TypeOK, IsBound
<1>4. BabyInv' /\ ControlInv'
  BY <1>0, <1>1, <1>2, SameCall DEF BabyInv, ControlInv
<1> QED BY <1>0, <1>3, <1>4 DEF CallInv, GiantInv, DoneInv

\* The table is complete, and the second loop begins with h and its inverse.
LEMMA BabyDoneIInv == IInv /\ BabyDone => IInv'
<1> SUFFICES ASSUME IInv, BabyDone PROVE IInv'
  OBVIOUS
<1> USE DEF IInv
<1>0. /\ pc = "baby" /\ i = m + 1 /\ m \in Nat /\ pc' = "giant"
      /\ x' = h /\ xneg' = Inv(h) /\ i' = 0
      /\ UNCHANGED <<h, bound, m, table, res, err>>
      /\ table = Table(i) /\ h \in Grp /\ Inv(h) \in Grp
  BY GroupAssumption DEF BabyDone, BabyInv, TypeOK
<1>1. TypeOK'
  BY <1>0 DEF TypeOK, IsBound
<1>2. /\ Mul(x', Pow(G, i' * m')) = h' /\ Mul(xneg', Pow(G, i' * m')) = Inv(h)'
      /\ NoLog(h, i * m)' /\ NoLog(Inv(h), i * m)'
  <2>1. i' * m' = 0
    BY <1>0
  <2>2. Pow(G, 0) = One /\ Mul(h, One) = h /\ Mul(Inv(h), One) = Inv(h)
    BY <1>0, GroupAssumption, PowAssumption
  <2> QED BY <1>0, <2>1, <2>2 DEF NoLog
<1>3. GiantInv' /\ ControlInv'
  BY <1>0, <1>2, SameCall DEF GiantInv, ControlInv, Table
<1> QED BY <1>0, <1>1, <1>3 DEF CallInv, BabyInv, DoneInv

-----------------------------------------------------------------------------
(* The second loop *)

\* An element met in round i, for h or for its inverse, is the power j of the
\* base exactly when i * m + j is a logarithm.
LEMMA RoundLog ==
  ASSUME TypeOK, i <= m, NEW j \in 0..m, NEW y \in Grp, NEW a \in Grp,
         Mul(y, Pow(G, i * m)) = a
  PROVE  (y = Pow(G, j)) <=> (Pow(G, i * m + j) = a)
<1>1. /\ i * m \in 0..MaxExp /\ j \in 0..MaxExp /\ i * m + j <= MaxExp
      /\ j + i * m = i * m + j
  BY RangeOK
<1>2. Pow(G, j + i * m) = Mul(Pow(G, j), Pow(G, i * m)) /\ Pow(G, j) \in Grp
  BY <1>1, GroupAssumption, PowAssumption
<1>3. G \in Grp
  BY GroupAssumption
<1> QED BY <1>1, <1>2, <1>3, Cancel

\* A round that misses excludes its exponents.
LEMMA MissExcludes ==
  ASSUME TypeOK, i <= m, table = Table(m + 1), NEW y \in Grp, NEW a \in Grp,
         Mul(y, Pow(G, i * m)) = a, NoLog(a, i * m), Matches(y) = {}
  PROVE  NoLog(a, i * m + m + 1)
<1>1. m \in Nat /\ i * m \in Nat
  BY RangeOK DEF TypeOK
<1>2. ASSUME NEW v \in 0..(i * m + m), v >= i * m
      PROVE  Pow(G, v) # a
  <2>1. v - i * m \in 0..m /\ v = i * m + (v - i * m)
    BY <1>1, <1>2
  <2>2. <<HashOf(Pow(G, v - i * m)), v - i * m>> \in table
    BY <1>1, <2>1 DEF Table
  <2>3. y # Pow(G, v - i * m)
    BY <2>2 DEF Matches
  <2> QED BY <2>1, <2>3, RoundLog
<1> QED BY <1>1, <1>2 DEF NoLog

\* A giant step keeps the product of the element and the steps taken.
LEMMA StepKeeps ==
  ASSUME TypeOK, i <= m, NEW y \in Grp, NEW a \in Grp,
         Mul(y, Pow(G, i * m)) = a
  PROVE  Mul(y, Z) \in Grp /\ Mul(Mul(y, Z), Pow(G, (i + 1) * m)) = a
<1>1. /\ m \in 0..MaxExp /\ i * m \in Nat /\ (i + 1) * m = i * m + m
      /\ i * m + m <= MaxExp /\ G \in Grp /\ Inv(G) \in Grp
  <2>1. m \in 0..m
    BY DEF TypeOK
  <2> QED BY <2>1, RangeOK, GroupAssumption
<1>2. Pow(Inv(G), m) \in Grp
  BY <1>1, PowAssumption
<1>3. Mul(Mul(y, Pow(Inv(G), m)), Pow(G, i * m + m)) = Mul(y, Pow(G, i * m))
  BY <1>1, GiantStepLaw
<1>4. Mul(y, Pow(Inv(G), m)) \in Grp
  BY <1>2, GroupAssumption
<1> QED BY <1>1, <1>3, <1>4 DEF Z

\* An entry that matches is in the range of the search and, when no other element
\* disturbs the call, the power of the base that it says.
LEMMA HitValue ==
  ASSUME TypeOK, m = Size, i <= m, table = Table(m + 1), NEW y \in Grp, NEW a \in {h, Inv(h)},
         Mul(y, Pow(G, i * m)) = a, NEW e \in Matches(y)
  PROVE  /\ i * m + e[2] \in 0..Farthest /\ i * m + e[2] \in 0..MaxExp
         /\ ~Disturbed => Pow(G, i * m + e[2]) = a
<1> DEFINE n == m + 1
<1>n. n \in Nat /\ 0..(n - 1) = 0..m /\ i \in 0..m /\ m \in Nat
  BY DEF TypeOK
<1>t. e \in Table(n)
  BY DEF Matches
<1> HIDE DEF n
<1>1. PICK j \in 0..m : e = <<HashOf(Pow(G, j)), j>>
  <2>1. \E j \in 0..(n - 1) : e = <<HashOf(Pow(G, j)), j>>
    BY <1>t DEF Table
  <2> QED BY <1>n, <2>1
<1>2. HashOf(Pow(G, j)) = HashOf(y) /\ e[2] = j
  BY <1>1 DEF Matches
<1>3. j \in 0..MaxExp /\ i * m + j \in 0..MaxExp /\ Pow(G, j) \in Grp
  BY RangeOK, GroupAssumption, PowAssumption
<1>4. ~Disturbed => y = Pow(G, j)
  <2>1. y \in Lookups
    BY <1>n DEF Lookups
  <2>2. j \in 0..Size
    OBVIOUS
  <2> QED BY <1>2, <2>1, <2>2 DEF Disturbed
<1>5. i * m + j \in 0..Farthest
  <2>1. PICK p \in Nat : p = i * m /\ p <= m * m /\ m * m \in Nat
    <3>1. i * m \in Nat /\ m * m \in Nat /\ m - i \in Nat
      BY <1>n
    <3>2. (m - i) * m \in Nat /\ (m - i) * m = m * m - i * m
      BY <1>n, <3>1
    <3> QED BY <3>1, <3>2
  <2>2. Farthest = m * m + m
    BY DEF Farthest
  <2>3. p + j \in 0..(m * m + m)
    BY <1>n, <2>1
  <2> QED BY <2>1, <2>2, <2>3
<1>6. a \in Grp
  <2>1. h \in Grp
    BY DEF TypeOK
  <2>2. Inv(h) \in Grp
    BY <2>1, GroupAssumption
  <2> QED BY <2>1, <2>2
<1> QED BY <1>2, <1>3, <1>4, <1>5, <1>6, RoundLog

\* The second loop finds a positive logarithm.
LEMMA GiantHitPosIInv == IInv /\ GiantHitPos => IInv'
<1> SUFFICES ASSUME IInv, GiantHitPos PROVE IInv'
  OBVIOUS
<1> USE DEF IInv
<1>0. /\ pc = "giant" /\ i <= m /\ err' = "NONE" /\ pc' = "done"
      /\ UNCHANGED <<h, bound, m, i, x, xneg, table>>
      /\ table = Table(m + 1) /\ Mul(x, Pow(G, i * m)) = h /\ x \in Grp /\ h \in Grp
      /\ m = Size /\ IsBound(bound)
  BY DEF GiantHitPos, GiantInv, ControlInv, TypeOK
<1>1. PICK e \in Matches(x) : res' = i * m + e[2]
  BY DEF GiantHitPos
<1>2. res' \in 0..Farthest /\ (~Disturbed => Pow(G, res') = h)
  BY <1>0, <1>1, HitValue
<1>3. res' \in Int /\ res' \in Reached /\ res' >= 0
  BY <1>0, <1>2, SizeOK DEF Reached
<1>4. TypeOK'
  BY <1>0, <1>3 DEF TypeOK, IsBound
<1>5. res' \in Reached' /\ (~Disturbed' => Solves(res)')
  BY <1>0, <1>2, <1>3, SameCall DEF Solves
<1>6. DoneInv'
  BY <1>0, <1>5 DEF DoneInv, NeverMissed
<1> QED BY <1>0, <1>4, <1>6 DEF CallInv, BabyInv, GiantInv, ControlInv

\* The second loop finds a negative logarithm.
LEMMA GiantHitNegIInv == IInv /\ GiantHitNeg => IInv'
<1> SUFFICES ASSUME IInv, GiantHitNeg PROVE IInv'
  OBVIOUS
<1> USE DEF IInv
<1>0. /\ pc = "giant" /\ i <= m /\ err' = "NONE" /\ pc' = "done" /\ x' = Mul(x, Z)
      /\ UNCHANGED <<h, bound, m, i, xneg, table>>
      /\ table = Table(m + 1) /\ Mul(xneg, Pow(G, i * m)) = Inv(h)
      /\ Mul(x, Pow(G, i * m)) = h
      /\ xneg \in Grp /\ x \in Grp /\ h \in Grp /\ Inv(h) \in Grp /\ G \in Grp
      /\ m = Size /\ IsBound(bound)
  BY GroupAssumption DEF GiantHitNeg, GiantInv, ControlInv, TypeOK
<1>1. PICK e \in Matches(xneg) : res' = -(i * m + e[2])
  BY DEF GiantHitNeg
<1> DEFINE v == i * m + e[2]
<1>2. v \in 0..Farthest /\ v \in 0..MaxExp /\ (~Disturbed => Pow(G, v) = Inv(h)) /\ res' = -v
  BY <1>0, <1>1, HitValue
<1> HIDE DEF v
<1>3. 1 <= MaxExp /\ MaxExp \in Nat /\ Farthest \in Nat
  BY <1>0, SizeOK
<1>4. ~Disturbed => Pow(Inv(G), v) = h
  BY <1>0, <1>2, <1>3, NegativePower
<1>5. ~Disturbed => Solves(res)'
  <2>1. CASE v > 0
    <3>1. ~(res' >= 0) /\ -res' = v
      BY <1>2, <2>1
    <3> QED BY <1>0, <1>4, <3>1 DEF Solves
  <2>2. CASE v <= 0
    <3>1. v = 0 /\ res' >= 0 /\ res' = 0
      BY <1>2, <2>2
    <3>2. Pow(Inv(G), 0) = One /\ Pow(G, 0) = One
      BY <1>0, GroupAssumption, PowAssumption
    <3> QED BY <1>0, <1>4, <3>1, <3>2 DEF Solves
  <2> QED BY <1>2, <2>1, <2>2
<1>6. res' \in Int /\ res' \in Reached
  BY <1>2, <1>3 DEF Reached
<1>7. x' \in Grp
  BY <1>0, StepKeeps
<1>8. TypeOK'
  BY <1>0, <1>6, <1>7 DEF TypeOK, IsBound
<1>9. Disturbed' = Disturbed /\ Reached' = Reached
  BY <1>0, SameCall
<1>10. DoneInv'
  BY <1>0, <1>5, <1>6, <1>9 DEF DoneInv, NeverMissed
<1> QED BY <1>0, <1>8, <1>10 DEF CallInv, BabyInv, GiantInv, ControlInv

\* The second loop finds neither, and goes on.
LEMMA GiantMissIInv == IInv /\ GiantMiss => IInv'
<1> SUFFICES ASSUME IInv, GiantMiss PROVE IInv'
  OBVIOUS
<1> USE DEF IInv
<1>0. /\ pc = "giant" /\ i <= m /\ Matches(x) = {} /\ Matches(xneg) = {}
      /\ x' = Mul(x, Z) /\ xneg' = Mul(xneg, Z) /\ i' = i + 1
      /\ UNCHANGED <<h, bound, pc, m, table, res, err>>
      /\ x \in Grp /\ xneg \in Grp /\ h \in Grp /\ Inv(h) \in Grp
      /\ i \in Nat /\ m \in Nat
  BY GroupAssumption DEF GiantMiss, TypeOK
<1>1. /\ table = Table(m + 1)
      /\ Mul(x, Pow(G, i * m)) = h /\ Mul(xneg, Pow(G, i * m)) = Inv(h)
      /\ NoLog(h, i * m) /\ NoLog(Inv(h), i * m)
  BY <1>0 DEF GiantInv
<1>2. /\ x' \in Grp /\ Mul(x', Pow(G, i' * m')) = h
      /\ xneg' \in Grp /\ Mul(xneg', Pow(G, i' * m')) = Inv(h)
  BY <1>0, <1>1, StepKeeps
<1>3. NoLog(h, i * m + m + 1) /\ NoLog(Inv(h), i * m + m + 1)
  BY <1>0, <1>1, MissExcludes
<1>4. NoLog(h, i' * m') /\ NoLog(Inv(h), i' * m')
  <2>1. i' * m' = i * m + m /\ i * m \in Nat
    <3>1. 0 \in 0..m
      BY <1>0
    <3> QED BY <1>0, <3>1, RangeOK
  <2> QED BY <1>0, <1>3, <2>1 DEF NoLog
<1>5. GiantInv'
  BY <1>0, <1>1, <1>2, <1>4 DEF GiantInv, Table, NoLog
<1>6. TypeOK'
  <2>1. i' \in 0..(m' + 1)
    BY <1>0
  <2> QED BY <1>0, <1>2, <2>1 DEF TypeOK, IsBound
<1>7. ControlInv'
  BY <1>0, SameCall DEF ControlInv
<1> QED BY <1>0, <1>5, <1>6, <1>7 DEF CallInv, BabyInv, DoneInv

\* The second loop ends without a match.
LEMMA GiantDoneIInv == IInv /\ GiantDone => IInv'
<1> SUFFICES ASSUME IInv, GiantDone PROVE IInv'
  OBVIOUS
<1> USE DEF IInv
<1>0. /\ pc = "giant" /\ i = m + 1 /\ m \in Nat /\ pc' = "done"
      /\ UNCHANGED <<h, bound, m, i, x, xneg, table, res, err>>
      /\ m = Size /\ err = "DLOG_NOT_FOUND" /\ IsBound(bound)
      /\ h \in Grp /\ Inv(h) \in Grp /\ G \in Grp
  BY GroupAssumption DEF GiantDone, TypeOK, ControlInv
<1>1. NoLog(h, m * m + m) /\ NoLog(Inv(h), m * m + m)
  <2>1. i * m = m * m + m
    BY <1>0
  <2> QED BY <1>0, <2>1 DEF GiantInv
<1>2. bound \in Nat /\ m * m \in Nat /\ bound < m * m + m
  BY <1>0, SizeOK
<1>3. bound \in 0..MaxExp /\ 1 <= MaxExp /\ m \in Nat /\ MaxExp \in Nat
  BY <1>0, SizeOK
<1> DEFINE k == m * m + m
<1>k. k \in Nat /\ bound < k /\ NoLog(h, k) /\ NoLog(Inv(h), k)
  BY <1>1, <1>2, <1>3
<1> HIDE DEF k
<1>4. ASSUME NEW v \in (-bound)..bound
      PROVE  ~Solves(v)
  <2>1. CASE v >= 0
    <3>1. v \in 0..(k - 1)
      BY <1>2, <1>k, <1>4, <2>1
    <3> QED BY <1>k, <2>1, <3>1 DEF Solves, NoLog
  <2>2. CASE ~(v >= 0)
    <3>1. -v \in 0..(k - 1) /\ -v \in 0..MaxExp
      BY <1>2, <1>3, <1>k, <1>4, <2>2
    <3>2. Pow(G, -v) # Inv(h)
      BY <1>k, <3>1 DEF NoLog
    <3>3. Pow(Inv(G), -v) # h
      BY <1>0, <1>3, <3>1, <3>2, NegativeLog
    <3> QED BY <2>2, <3>3 DEF Solves
  <2> QED BY <2>1, <2>2
<1>5. DoneInv'
  BY <1>0, <1>4 DEF DoneInv, NeverMissed, Solves
<1>6. TypeOK'
  BY <1>0 DEF TypeOK, IsBound
<1> QED BY <1>0, <1>5, <1>6 DEF CallInv, BabyInv, GiantInv, ControlInv

-----------------------------------------------------------------------------
(* The theorems *)

\* Nothing happens.
LEMMA StutterIInv == IInv /\ UNCHANGED vars => IInv'
<1> SUFFICES ASSUME IInv, UNCHANGED vars PROVE IInv'
  OBVIOUS
<1> USE DEF IInv, vars
<1>1. TypeOK' /\ CallInv' /\ BabyInv' /\ ControlInv'
  BY SameCall DEF TypeOK, IsBound, CallInv, BabyInv, ControlInv, Table
<1>2. GiantInv'
  BY DEF GiantInv, Table, NoLog
<1>3. DoneInv'
  <2>1. h' = h /\ bound' = bound /\ res' = res /\ err' = err /\ pc' = pc
    OBVIOUS
  <2>2. /\ Reached' = Reached /\ Disturbed' = Disturbed
        /\ \A v : Solves(v)' = Solves(v)
    BY <2>1, SameCall
  <2>3. Solves(res)' = Solves(res)
    BY <2>1 DEF Solves
  <2>4. NeverMissed' = NeverMissed
    BY <2>1, <2>2 DEF NeverMissed
  <2> QED BY <2>1, <2>2, <2>3, <2>4 DEF DoneInv
<1> QED BY <1>1, <1>2, <1>3

\* The two loops preserve what they have established.
THEOREM Invariance == Spec => []IInv
<1>1. IInv /\ [Next]_vars => IInv'
  BY CallIInv, BabyStepIInv, BabyDoneIInv, GiantHitPosIInv, GiantHitNegIInv,
     GiantMissIInv, GiantDoneIInv, StutterIInv DEF Next
<1> QED BY InitIInv, <1>1, PTL DEF Spec

\* Type correctness of the search, for every group, bound and hash function.
THEOREM TypeCorrect == Spec => []TypeOK
<1>1. IInv => TypeOK
  BY DEF IInv
<1> QED BY <1>1, Invariance, PTL

\* Collisions of hash values never hide a logarithm: "not found" is the truth for
\* every hash function (dlog.c:277-303).
THEOREM CollisionsNeverHide == Spec => []NeverMissed
<1>1. IInv => NeverMissed
  BY DEF IInv, DoneInv, NeverMissed
<1> QED BY <1>1, Invariance, PTL

\* The search implements what DiscreteLog says of it, for every hash function: the
\* calls that other hash values disturb are left out call by call (dlog.c:222-318).
THEOREM Implements == Spec => SearchesRange
<1> DEFINE sol == {v \in Reached : Solves(v)}
           req == (-bound)..bound
<1>1. Init => DL!Init
  BY DEF Init, Over, DL!Init
<1>2. ASSUME IInv, IInv', [Next]_vars
      PROVE  [DL!Next]_(DL!vars)
  <2>1. h' = h /\ bound' = bound
    BY <1>2 DEF Next, vars, Call, BabyStep, BabyDone, GiantHitPos, GiantHitNeg,
                GiantMiss, GiantDone
  <2>2. sol' = sol /\ req' = req /\ Disturbed' = Disturbed /\ Reached' = Reached
    BY <2>1, SameCall
  <2>3. CASE pc # "done" /\ pc' = "done" /\ ~Disturbed
    <3>1. CASE err' = "NONE"
      <4>1. res' \in Reached' /\ Solves(res)'
        BY <1>2, <2>2, <2>3, <3>1 DEF IInv, DoneInv
      <4>2. res' \in sol'
        BY <4>1
      <4> QED BY <2>2, <2>3, <3>1, <4>2 DEF Over, DL!Next, DL!Found, DL!call
    <3>2. CASE err' = "DLOG_NOT_FOUND"
      <4>1. ASSUME NEW v \in sol', v \in req'
            PROVE  FALSE
        <5>1. NeverMissed'
          BY <1>2, <2>3 DEF IInv, DoneInv
        <5>2. v \in (-bound')..bound' /\ Solves(v)'
          BY <4>1
        <5> QED BY <2>3, <3>2, <5>1, <5>2 DEF NeverMissed
      <4>2. sol' \cap req' = {}
        BY <4>1
      <4> QED BY <2>2, <2>3, <3>2, <4>2 DEF Over, DL!Next, DL!NotFound, DL!call
    <3> QED BY <1>2, <3>1, <3>2 DEF IInv, TypeOK
  <2>4. CASE Disturbed
    BY <2>2, <2>4 DEF Over, DL!vars, DL!call
  <2>5. CASE pc # "done" /\ pc' # "done"
    BY <2>2, <2>5 DEF Over, DL!vars, DL!call
  <2>6. CASE UNCHANGED vars
    BY <2>2, <2>6 DEF Over, DL!vars, DL!call, vars
  <2> QED
    BY <1>2, <2>3, <2>4, <2>5, <2>6
       DEF Next, Call, BabyStep, BabyDone, GiantHitPos, GiantHitNeg, GiantMiss,
           GiantDone
<1> QED BY <1>1, <1>2, Invariance, PTL DEF Spec, SearchesRange, DL!Spec

-----------------------------------------------------------------------------
(* What the loops meet *)

\* The steps of the search that the code and SchemeGroups compute are as many.
LEMMA FarthestIs ==
  ASSUME IsBound(bound)
  PROVE  S!Size(bound) = Size /\ S!Farthest(bound) = Farthest
<1>1. PICK s : /\ s \in Nat /\ s = Sqrt(bound) /\ s * s <= bound /\ bound < (s + 1) * (s + 1)
               /\ bound \in Nat
  BY DEF IsBound
<1>2. S!ISqrt(bound) = s
  <2>1. S!ISqrt(bound) = CHOOSE k \in 0..bound : k * k <= bound /\ bound < (k + 1) * (k + 1)
    BY DEF S!ISqrt
  <2> QED BY <1>1, <2>1, SqrtUnique
<1> QED BY <1>1, <1>2 DEF S!Size, S!Farthest, Size, Farthest

\* The inverse of another element than the neutral one is another one too.
LEMMA InverseDiffers ==
  ASSUME NEW a \in Grp, a # One, 1 <= MaxExp
  PROVE  Inv(a) # One
<1>1. Mul(Pow(Inv(a), 1), Pow(a, 1)) = One
  BY PowAssumption
<1>2. Inv(a) \in Grp /\ One \in Grp
  BY GroupAssumption
<1>3. Mul(Inv(a), a) = One
  BY <1>1, <1>2, PowAssumption
<1>4. Mul(One, a) = a
  BY <1>2, GroupAssumption
<1> QED BY <1>3, <1>4

\* Each step keeps what the loops have met.
LEMMA NextMeets ==
  ASSUME IInv, MetInv, [Next]_vars
  PROVE  MetInv'
<1>1. h' = h /\ bound' = bound /\ Farthest' = Farthest
  BY DEF Next, vars, Call, BabyStep, BabyDone, GiantHitPos, GiantHitNeg, GiantMiss, GiantDone, Farthest,
         Size
<1>2. TypeOK /\ h \in Grp /\ Inv(h) \in Grp /\ m \in Nat /\ i \in Nat
  BY GroupAssumption DEF IInv, TypeOK
<1>3. \A a, n : NoLog(a, n)' = NoLog(a, n)
  BY DEF NoLog
<1>4. CASE Call
  <2>1. res' = 0 /\ err = "NONE"
    BY <1>4 DEF Call, IInv, CallInv
  <2> QED BY <1>1, <1>4, <2>1 DEF Call, MetInv
<1>5. CASE BabyStep
  BY <1>1, <1>5 DEF BabyStep, MetInv
<1>6. CASE BabyDone
  <2>1. pc' = "giant" /\ h # One /\ i' * m' + 1 = 1
    <3>1. i' = 0 /\ m' \in Nat /\ 0 * m' = 0
      BY <1>2, <1>6 DEF BabyDone
    <3> QED BY <1>6, <3>1 DEF BabyDone, MetInv
  <2>2. Pow(G, 0) = One /\ Inv(h) # One
    BY <1>2, <2>1, SizeOK, InverseDiffers, GroupAssumption, PowAssumption DEF TypeOK
  <2>3. NoLog(h, 1) /\ NoLog(Inv(h), 1)
    <3>1. \A v \in 0..(1 - 1) : v = 0
      OBVIOUS
    <3> QED BY <2>1, <2>2, <3>1 DEF NoLog
  <2> QED BY <1>1, <1>3, <2>1, <2>3 DEF MetInv
<1>7. CASE GiantHitPos
  BY <1>1, <1>7 DEF GiantHitPos, IInv, ControlInv, MetInv
<1>8. CASE GiantHitNeg
  BY <1>1, <1>8 DEF GiantHitNeg, IInv, ControlInv, MetInv
<1>9. CASE GiantMiss
  <2>1. /\ pc = "giant" /\ pc' = "giant" /\ i <= m /\ Matches(x) = {} /\ Matches(xneg) = {}
        /\ i' = i + 1 /\ m' = m
    BY <1>9 DEF GiantMiss
  <2>2. /\ table = Table(m + 1)
        /\ Mul(x, Pow(G, i * m)) = h /\ Mul(xneg, Pow(G, i * m)) = Inv(h)
        /\ NoLog(h, i * m) /\ NoLog(Inv(h), i * m) /\ x \in Grp /\ xneg \in Grp
    BY <2>1 DEF IInv, GiantInv, TypeOK
  <2>3. NoLog(h, i * m + m + 1) /\ NoLog(Inv(h), i * m + m + 1)
    BY <1>2, <2>1, <2>2, MissExcludes
  <2>4. i' * m' + 1 = i * m + m + 1
    BY <1>2, <2>1
  <2> QED BY <1>1, <1>3, <2>1, <2>3, <2>4 DEF MetInv
<1>10. CASE GiantDone
  <2>1. /\ pc = "giant" /\ pc' = "done" /\ i > m /\ i \in 0..(m + 1) /\ err' = err /\ err = "DLOG_NOT_FOUND"
        /\ m = Size
    BY <1>10 DEF GiantDone, IInv, TypeOK, ControlInv
  <2>2. i * m + 1 = Farthest + 1
    <3>1. i = m + 1
      BY <1>2, <2>1
    <3>2. i * m = m * m + m
      BY <1>2, <3>1
    <3> QED BY <1>2, <2>1, <3>2, SizeOK DEF TypeOK
  <2> QED BY <1>1, <1>3, <2>1, <2>2 DEF MetInv
<1>11. CASE UNCHANGED vars
  BY <1>1, <1>3, <1>11 DEF vars, MetInv
<1> QED BY <1>4, <1>5, <1>6, <1>7, <1>8, <1>9, <1>10, <1>11 DEF Next

-----------------------------------------------------------------------------
(* The one step *)

\* The remainders of numbers that are small against the modulus.
LEMMA SmallRemainder ==
  ASSUME NEW q \in Nat, NEW L \in Nat, 2 * L < q, NEW u \in (-L)..L
  PROVE  u % q = IF u >= 0 THEN u ELSE u + q
<1>1. CASE u >= 0
  <2>1. u \in 0..(q - 1) /\ 0 \in Int /\ u = (q * 0) + u
    BY <1>1
  <2>2. ((q * 0) + u) % q = u
    BY <2>1, RemainderIs
  <2> QED BY <1>1, <2>1, <2>2
<1>2. CASE u < 0
  <2>1. u + q \in 0..(q - 1) /\ -1 \in Int /\ u = (q * (-1)) + (u + q)
    BY <1>2
  <2>2. ((q * (-1)) + (u + q)) % q = u + q
    BY <2>1, RemainderIs
  <2> QED BY <1>2, <2>1, <2>2
<1> QED BY <1>1, <1>2

\* Within the range an integer is a logarithm exactly when its remainder is the exponent.
LEMMA LogIs ==
  ASSUME TypeOK, Cyclic, 2 * Farthest < GroupOrder, NEW v \in (-Farthest)..Farthest,
         NEW e \in 0..(GroupOrder - 1), Pow(G, e) = h
  PROVE  Solves(v) <=> v % GroupOrder = e
<1>1. PICK q \in Nat \ {0} : q = GroupOrder /\ q <= MaxExp
  BY DEF Cyclic
<1>2. PICK L \in Nat : L = Farthest /\ L <= MaxExp /\ MaxExp \in Nat /\ 2 * L < q
  BY <1>1, SizeOK DEF TypeOK
<1>3. v \in (-L)..L /\ e \in 0..(q - 1) /\ e \in 0..MaxExp /\ q \in Nat
  BY <1>1, <1>2
<1>4. v % q = IF v >= 0 THEN v ELSE v + q
  BY <1>2, <1>3, SmallRemainder
<1>5. e % q = e
  BY <1>3
<1>6. CASE v >= 0
  <2>1. v \in 0..MaxExp
    BY <1>2, <1>3, <1>6
  <2>2. Pow(G, v) = Pow(G, e) <=> v % q = e % q
    BY <1>1, <1>3, <2>1 DEF Cyclic
  <2> QED BY <1>1, <1>5, <1>6, <2>2 DEF Solves
<1>7. CASE v < 0
  <2>1. -v \in 0..MaxExp /\ -v \in (-L)..L /\ ~(v >= 0) /\ -v >= 0 /\ -v # 0 /\ -v < q
    BY <1>2, <1>3, <1>7
  <2>2. Pow(Inv(G), -v) = Pow(G, e) <=> (-v) % q = (-e) % q
    BY <1>1, <1>3, <2>1, PowersOfInverse DEF Cyclic
  <2>3. (-v) % q = -v
    <3>1. PICK w : w = -v
      OBVIOUS
    <3>2. w \in (-L)..L /\ w >= 0
      BY <2>1, <3>1
    <3>3. w % q = w
      BY <1>2, <1>3, <3>2, SmallRemainder
    <3> QED BY <3>1, <3>3
  <2>4. (-e) % q = IF e = 0 THEN 0 ELSE q - e
    <3>1. CASE e = 0
      BY <3>1
    <3>2. CASE e # 0
      <4>1. q - e \in 0..(q - 1) /\ -1 \in Int /\ -e = (q * (-1)) + (q - e)
        BY <1>3, <3>2
      <4>2. ((q * (-1)) + (q - e)) % q = q - e
        BY <1>3, <4>1, RemainderIs
      <4> QED BY <3>2, <4>1, <4>2
    <3> QED BY <3>1, <3>2
  <2>5. -v = (IF e = 0 THEN 0 ELSE q - e) <=> v + q = e
    BY <1>3, <2>1
  <2> QED BY <1>1, <1>4, <2>1, <2>2, <2>3, <2>4, <2>5 DEF Solves
<1> QED BY <1>3, <1>6, <1>7

\* What is returned is what the search returns in one step.
LEMMA OneStep ==
  ASSUME IInv, MetInv, Cyclic
  PROVE  MatchesSearchGT
<1> SUFFICES ASSUME pc = "done", ~Disturbed, S!UnambiguousGT(GroupOrder, bound)
             PROVE  LET r == S!SearchGT(GroupOrder, LogOfH, bound)
                    IN err = r.err /\ (err = "NONE" => res = r.res)
  BY DEF MatchesSearchGT
<1>1. /\ TypeOK /\ h \in Grp /\ IsBound(bound) /\ res \in Int
      /\ err \in {"NONE", "DLOG_NOT_FOUND"}
      /\ err = "NONE" => Solves(res) /\ res \in Reached
  BY DEF IInv, TypeOK, DoneInv
<1>2. PICK q \in Nat \ {0} : q = GroupOrder /\ q <= MaxExp
  BY DEF Cyclic
<1>3. PICK L \in Nat : /\ L = Farthest /\ L = S!Farthest(bound) /\ 2 * L < q
                       /\ 2 * Farthest < GroupOrder
                       /\ L <= MaxExp /\ MaxExp \in Nat /\ 1 <= MaxExp
  <2>1. S!Farthest(bound) = Farthest
    BY <1>1, FarthestIs
  <2>2. 2 * Farthest < GroupOrder
    BY <2>1 DEF S!UnambiguousGT
  <2> QED BY <1>1, <1>2, <2>1, <2>2, SizeOK
<1>4. PICK e \in 0..(GroupOrder - 1) : e = LogOfH /\ Pow(G, e) = h
  BY <1>1 DEF LogOfH, Cyclic
<1> DEFINE met == {v \in (-L)..L : v % q = e}
           near == {v \in met : \A w \in met : S!Round(v, bound) <= S!Round(w, bound)}
           preferred == IF \E v \in near : v >= 0 THEN {v \in near : v >= 0} ELSE near
<1>5. S!SearchGT(GroupOrder, LogOfH, bound) =
        IF e = 0 THEN S!Done(0)
        ELSE IF met = {} THEN S!Failed("DLOG_NOT_FOUND")
        ELSE S!Done(CHOOSE v \in preferred : TRUE)
  BY <1>2, <1>3, <1>4 DEF S!SearchGT
<1>6. \A v \in (-L)..L : v \in met <=> Solves(v)
  BY <1>1, <1>2, <1>3, <1>4, LogIs
<1>7. \A u, v \in met : u = v
  <2> SUFFICES ASSUME NEW u \in met, NEW v \in met PROVE u = v
    OBVIOUS
  <2>1. u \in (-L)..L /\ v \in (-L)..L /\ u % q = v % q
    OBVIOUS
  <2>2. u % q = (IF u >= 0 THEN u ELSE u + q) /\ v % q = (IF v >= 0 THEN v ELSE v + q)
    BY <1>3, <2>1, SmallRemainder
  <2> HIDE DEF met
  <2> QED BY <1>3, <2>1, <2>2
<1>8. e = 0 <=> h = One
  <2>1. Pow(G, 0) = One
    BY GroupAssumption, PowAssumption
  <2>2. e \in 0..MaxExp /\ 0 \in 0..MaxExp /\ e % GroupOrder = e /\ 0 % GroupOrder = 0
    BY <1>2, <1>3
  <2>3. Pow(G, e) = Pow(G, 0) <=> e % GroupOrder = 0 % GroupOrder
    BY <2>2 DEF Cyclic
  <2> QED BY <1>4, <2>1, <2>2, <2>3
<1>9. \A v \in met : v \in (-L)..L
  OBVIOUS
<1> HIDE DEF met
<1>10. CASE h = One
  <2>1. err = "NONE" /\ res = 0
    BY <1>10 DEF MetInv
  <2>2. S!SearchGT(GroupOrder, LogOfH, bound) = S!Done(0)
    BY <1>5, <1>8, <1>10
  <2> QED BY <2>1, <2>2 DEF S!Done
<1>11. CASE h # One /\ err = "NONE"
  <2>1. res \in (-L)..L
    BY <1>1, <1>3, <1>11 DEF Reached
  <2>2. met = {res}
    BY <1>1, <1>6, <1>7, <1>11, <2>1
  <2>3. near = {} \/ near = {res}
    BY <2>2
  <2>4. res \in near
    <3>1. S!Round(res, bound) <= S!Round(res, bound)
      <4>1. S!Size(bound) = Sqrt(bound) + 1 /\ Sqrt(bound) \in Nat
        BY <1>1, FarthestIs DEF Size, IsBound
      <4>2. PICK k \in Nat \ {0} : k = S!Size(bound)
        BY <4>1
      <4>3. PICK a \in Nat : a = IF res >= 0 THEN res ELSE -res
        BY <1>1
      <4>4. S!Round(res, bound) = IF a = 0 THEN 0 ELSE (a - 1) \div k
        BY <4>2, <4>3 DEF S!Round
      <4>5. S!Round(res, bound) \in Int
        BY <4>2, <4>3, <4>4
      <4> QED BY <4>5
    <3> QED BY <2>2, <3>1
  <2>5. near = {res}
    BY <2>3, <2>4
  <2> HIDE DEF near
  <2>6. preferred = {res}
    BY <2>5
  <2> HIDE DEF preferred
  <2>7. (CHOOSE v \in preferred : TRUE) = res
    BY <2>6
  <2>8. S!SearchGT(GroupOrder, LogOfH, bound) = S!Done(res)
    BY <1>5, <1>8, <1>11, <2>2, <2>7
  <2> QED BY <1>11, <2>8 DEF S!Done
<1>12. CASE h # One /\ err = "DLOG_NOT_FOUND"
  <2>1. NoLog(h, Farthest + 1) /\ NoLog(Inv(h), Farthest + 1)
    BY <1>12 DEF MetInv
  <2>2. ASSUME NEW v \in met PROVE FALSE
    <3>1. v \in (-L)..L /\ Solves(v)
      BY <1>6, <1>9, <2>2
    <3>2. CASE v >= 0
      <4>1. v \in 0..((Farthest + 1) - 1)
        BY <1>3, <3>1, <3>2
      <4> QED BY <2>1, <3>1, <3>2, <4>1 DEF NoLog, Solves
    <3>3. CASE v < 0
      <4>1. -v \in 0..((Farthest + 1) - 1) /\ -v \in 0..MaxExp /\ ~(v >= 0)
        BY <1>3, <3>1, <3>3
      <4>2. Pow(Inv(G), -v) = h /\ G \in Grp
        BY <3>1, <4>1, GroupAssumption DEF Solves
      <4>3. Pow(G, -v) = Inv(h)
        BY <1>1, <1>3, <4>1, <4>2, NegativeLog
      <4> QED BY <2>1, <4>1, <4>3 DEF NoLog
    <3> QED BY <3>1, <3>2, <3>3
  <2>3. S!SearchGT(GroupOrder, LogOfH, bound) = S!Failed("DLOG_NOT_FOUND")
    BY <1>5, <1>8, <1>12, <2>2
  <2> QED BY <1>12, <2>3 DEF S!Failed
<1> QED BY <1>1, <1>10, <1>11, <1>12

\* Before a call nothing has been met.
LEMMA InitMeets == Init => MetInv
BY DEF Init, MetInv

\* The loops of dlog.c (222-318) end with the outcome that SearchGT gives in one step,
\* for every hash function, in the calls whose lookups meet no hash value of another
\* element.
THEOREM MatchesOneStep ==
  ASSUME Cyclic
  PROVE  Spec => []MatchesSearchGT
<1>1. IInv /\ MetInv /\ [Next]_vars => MetInv'
  BY NextMeets
<1>2. IInv /\ MetInv => MatchesSearchGT
  BY OneStep
<1> QED BY InitMeets, <1>1, <1>2, Invariance, PTL DEF Spec
=============================================================================
