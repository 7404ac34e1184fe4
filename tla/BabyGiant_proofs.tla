-------------------------- MODULE BabyGiant_proofs --------------------------
(***************************************************************************)
(* Proofs about the discrete-logarithm search of BabyGiant, for every      *)
(* group, base, bound and representation of numbers by limbs; and that it  *)
(* is the search in one step that the models of the schemes use.           *)
(***************************************************************************)
EXTENDS MCBabyGiant, GroupLemmas, SequenceTheorems, TLAPS

-----------------------------------------------------------------------------
(* The sizes, types and bytes that the steps rest on *)

\* The loops of every call have a size whose square the laws of Pow cover, and
\* whose square exceeds the bound.
LEMMA SizeOK ==
  ASSUME NEW a \in Args
  PROVE  LET n == Sqrt(Reach(a)) + 1 IN
         /\ Reach(a) \in Nat /\ Sqrt(Reach(a)) \in Nat
         /\ n \in Nat /\ n > 0 /\ n * n <= MaxExp /\ Reach(a) < n * n
         /\ n \in 0..MaxExp
<1>1. Reach(a) \in Bounds \cup Orders \cup {POrder}
  BY ArgAssumption DEF Args, Reach, OrderOf
<1>2. Reach(a) \in Nat /\ Sqrt(Reach(a)) \in Nat
  BY <1>1, ArgAssumption
<1> DEFINE n == Sqrt(Reach(a)) + 1
<1>3. n * n <= MaxExp /\ Reach(a) < n * n
  BY <1>1, ArgAssumption
<1>4. n \in Nat /\ n > 0 /\ n <= n * n /\ n * n \in Nat
  BY <1>2, SquareBound
<1> QED BY <1>2, <1>3, <1>4, PowAssumption

\* The number of iterations, of a call that is running.
LEMMA CallSize ==
  ASSUME TypeOK
  PROVE  /\ arg \in Args /\ Reach(arg) \in Nat /\ Sqrt(Reach(arg)) \in Nat
         /\ Size \in Nat \ {0} /\ Size * Size \in Nat /\ Size * Size <= MaxExp
         /\ Reach(arg) < Size * Size /\ MaxExp \in Nat
<1>1. arg \in Args
  BY DEF TypeOK
<1> QED BY <1>1, SizeOK, PowAssumption DEF Size

\* What depends on the call alone stays.
LEMMA SameCall ==
  ASSUME UNCHANGED arg
  PROVE  /\ Size' = Size /\ Refuses' = Refuses /\ Reach(arg)' = Reach(arg)
         /\ Required' = Required /\ Reached' = Reached
         /\ \A b, n : NoLog(b, n)' = NoLog(b, n) /\ NoneMet(b, n)' = NoneMet(b, n)
         /\ \A b, v : Skipped(b, v)' = Skipped(b, v)
         /\ \A v : Solves(v)' = Solves(v) /\ Overlooked(v)' = Overlooked(v)
<1>1. Reach(arg)' = Reach(arg) /\ Refuses' = Refuses
  BY DEF Reach, OrderOf, Refuses
<1>2. Size' = Size
  BY <1>1 DEF Size
<1>3. Required' = Required /\ Reached' = Reached
  BY <1>1, <1>2 DEF Required, Reached
<1>4. \A b, v : Skipped(b, v)' = Skipped(b, v)
  BY <1>2 DEF Skipped
<1>5. \A v : Solves(v)' = Solves(v) /\ Overlooked(v)' = Overlooked(v)
  BY <1>2 DEF Solves, Overlooked, Skipped
<1>6. \A b, n : NoLog(b, n)' = NoLog(b, n) /\ NoneMet(b, n)' = NoneMet(b, n)
  BY <1>2 DEF NoLog, NoneMet, Skipped
<1> QED BY <1>1, <1>2, <1>3, <1>4, <1>5, <1>6

\* The base of either search is an element of the group.
LEMMA BaseOK ==
  ASSUME TypeOK
  PROVE  Base \in Grp /\ m \in 0..MaxExp /\ m * m \in Nat
<1>1. m <= m * m /\ m * m <= MaxExp /\ m \in Nat
  BY SquareBound DEF TypeOK
<1>2. Base \in Grp
  BY GroupAssumption DEF Base
<1>3. MaxExp \in Nat /\ m * m \in Nat
  BY <1>1, PowAssumption
<1> QED BY <1>1, <1>2, <1>3

\* mpz_set into fresh memory, or into memory of the same size, copies exactly.
LEMMA MpzSetExact ==
  ASSUME NEW buf \in Seq(Nat), NEW y \in Seq(Nat), Len(buf) <= Len(y)
  PROVE  MpzSet(buf, y) = y
<1>1. MpzSet(buf, y) = [k \in 1..Len(y) |-> y[k]]
  BY DEF MpzSet
<1> QED BY <1>1

\* mpz_set leaves a sequence of limbs, at least as long as the number.
LEMMA MpzSetType ==
  ASSUME NEW buf \in Seq(Nat), NEW y \in Seq(Nat)
  PROVE  MpzSet(buf, y) \in Seq(Nat)
<1> DEFINE L == IF Len(buf) > Len(y) THEN Len(buf) ELSE Len(y)
<1>1. L \in Nat /\ Len(buf) \in Nat /\ Len(y) \in Nat
  OBVIOUS
<1>2. \A k \in 1..L : (IF k <= Len(y) THEN y[k] ELSE buf[k]) \in Nat
  OBVIOUS
<1>3. MpzSet(buf, y) \in [1..L -> Nat]
  BY <1>2 DEF MpzSet
<1> HIDE DEF L
<1> QED BY <1>1, <1>3, SeqDef

-----------------------------------------------------------------------------
(* The initial state and the steps outside the loops *)

\* The invariant holds before the first call.
LEMMA InitIInv == Init => IInv
<1> SUFFICES ASSUME Init PROVE IInv
  OBVIOUS
<1>1. TypeOK
  <2>1. m \in Nat /\ m * m <= MaxExp /\ i \in 0..m
    BY PowAssumption DEF Init
  <2>2. x \in Grp /\ tmp \in Seq(Nat) /\ res \in Int
    BY GroupAssumption DEF Init
  <2>3. \A e \in table : \E a \in Grp, j \in 0..m : e = <<Limbs(a), j>>
    BY DEF Init
  <2> QED BY <2>1, <2>2, <2>3 DEF Init, TypeOK
<1>2. BabyInv /\ GiantInv /\ ReturnInv /\ NegInv /\ ControlInv /\ DoneInv
  BY DEF Init, BabyInv, GiantInv, ReturnInv, NegInv, ControlInv, DoneInv
<1> QED BY <1>1, <1>2 DEF IInv

\* A new search is begun.
LEMMA CallIInv == IInv /\ Call => IInv'
<1> SUFFICES ASSUME IInv, Call PROVE IInv'
  OBVIOUS
<1> USE DEF IInv
<1>0. arg \in Args /\ pc = "call" /\ UNCHANGED <<arg, neg, res>>
  BY DEF Call, TypeOK
<1>1. CASE Refuses
  <2>1. pc' = "return" /\ err' = "DLOG_CALC_FAILED" /\ UNCHANGED <<m, i, x, table, tmp>>
    BY <1>1 DEF Call
  <2>2. TypeOK'
    BY <1>0, <2>1 DEF TypeOK
  <2>3. NegInv'
    BY <1>0, <1>1, SameCall DEF NegInv
  <2>4. BabyInv' /\ GiantInv' /\ ReturnInv' /\ ControlInv' /\ DoneInv'
    BY <1>0, <1>1, <2>1, SameCall DEF BabyInv, GiantInv, ReturnInv, ControlInv, DoneInv
  <2> QED BY <2>2, <2>3, <2>4
<1>2. CASE ~Refuses
  <2>1. /\ pc' = "baby" /\ err' = "DLOG_NOT_FOUND" /\ m' = Size
        /\ i' = 0 /\ x' = One /\ table' = {} /\ tmp' = <<>>
    BY <1>2 DEF Call
  <2>2. m' \in Nat /\ m' * m' <= MaxExp
    BY <2>1, CallSize
  <2>3. TypeOK'
    BY <1>0, <2>1, <2>2, GroupAssumption DEF TypeOK
  <2>4. NegInv'
    BY <1>0, SameCall DEF NegInv
  <2>5. Base' \in Grp /\ Pow(Base', 0) = One
    BY <2>3, GroupAssumption, PowAssumption DEF Base, TypeOK
  <2>6. Table(0)' = {}
    BY DEF Table
  <2>7. BabyInv'
    BY <2>1, <2>5, <2>6 DEF BabyInv
  <2>8. GiantInv' /\ ReturnInv' /\ ControlInv' /\ DoneInv'
    BY <1>0, <1>2, <2>1, SameCall DEF GiantInv, ReturnInv, ControlInv, DoneInv
  <2> QED BY <2>3, <2>4, <2>7, <2>8
<1> QED BY <1>1, <1>2

-----------------------------------------------------------------------------
(* The first loop *)

\* A baby step enters one more pair into the table.
LEMMA BabyStepIInv == IInv /\ BabyStep => IInv'
<1> SUFFICES ASSUME IInv, BabyStep PROVE IInv'
  OBVIOUS
<1> USE DEF IInv
<1>0. /\ pc = "baby" /\ i < m /\ i' = i + 1 /\ x' = Mul(x, Base)
      /\ table' = table \cup {<<Limbs(x), i>>}
      /\ UNCHANGED <<arg, pc, neg, m, tmp, res, err>>
  BY DEF BabyStep
<1>1. Base \in Grp /\ Base' = Base /\ m \in 0..MaxExp /\ i \in Nat /\ MaxExp \in Nat
  BY <1>0, BaseOK, PowAssumption DEF TypeOK, Base
<1>2. x = Pow(Base, i) /\ table = Table(i)
  BY <1>0 DEF BabyInv
<1>3. x' = Pow(Base, i') /\ x' \in Grp
  <2>1. i \in 0..MaxExp /\ 1 \in 0..MaxExp /\ i + 1 <= MaxExp
    BY <1>0, <1>1
  <2>2. Pow(Base, i + 1) = Mul(Pow(Base, i), Pow(Base, 1)) /\ Pow(Base, 1) = Base
    BY <1>1, <2>1, PowAssumption
  <2>3. Pow(Base, i + 1) \in Grp
    BY <1>0, <1>1, PowAssumption
  <2> QED BY <1>0, <1>2, <2>2, <2>3
<1>4. table' = Table(i)'
  <2>1. 0..i = 0..(i - 1) \cup {i}
    BY <1>1
  <2>2. Table(i)' = {<<Limbs(Pow(Base, j)), j>> : j \in 0..i}
    BY <1>0, <1>1 DEF Table
  <2> QED BY <1>0, <1>2, <2>1, <2>2 DEF Table
<1>5. TypeOK'
  <2>1. \A e \in table' : \E a \in Grp, j \in 0..m : e = <<Limbs(a), j>>
    <3>1. x \in Grp /\ i \in 0..m
      BY <1>0, <1>1 DEF TypeOK
    <3> QED BY <1>0, <3>1 DEF TypeOK
  <2>2. i' \in 0..m'
    BY <1>0, <1>1
  <2> QED BY <1>0, <1>3, <2>1, <2>2 DEF TypeOK
<1>6. NegInv'
  BY <1>0, SameCall DEF NegInv
<1>7. BabyInv'
  <2>1. tmp' = <<>>
    BY <1>0 DEF BabyInv
  <2> QED BY <1>3, <1>4, <1>1, <2>1 DEF BabyInv
<1>8. ControlInv'
  BY <1>0, SameCall DEF ControlInv
<1>9. GiantInv' /\ ReturnInv' /\ DoneInv'
  BY <1>0 DEF GiantInv, ReturnInv, DoneInv
<1> QED BY <1>5, <1>6, <1>7, <1>8, <1>9

\* The table is complete, and the second loop begins.
LEMMA BabyDoneIInv == IInv /\ BabyDone => IInv'
<1> SUFFICES ASSUME IInv, BabyDone PROVE IInv'
  OBVIOUS
<1> USE DEF IInv
<1>0. /\ pc = "baby" /\ i >= m /\ pc' = "giant" /\ x' = arg.h /\ i' = 0
      /\ UNCHANGED <<arg, neg, m, table, tmp, res, err>>
  BY DEF BabyDone
<1>1. Base \in Grp /\ Base' = Base /\ m \in Nat /\ i = m /\ arg.h \in Grp
  BY <1>0, BaseOK DEF TypeOK, Args, Base
<1>2. table' = Table(m)'
  BY <1>0, <1>1 DEF BabyInv, Table
<1>3. Mul(x', Pow(Base', i' * m')) = arg.h
  <2>1. i' * m' = 0
    BY <1>0, <1>1
  <2>2. Pow(Base, 0) = One /\ Mul(arg.h, One) = arg.h
    BY <1>1, GroupAssumption, PowAssumption
  <2> QED BY <1>0, <1>1, <2>1, <2>2
<1>4. tmp' = <<>>
  BY <1>0 DEF BabyInv
<1>5. TypeOK'
  BY <1>0, <1>1 DEF TypeOK
<1>6. NoneMet(Base, i * m)'
  <2>1. i' * m' = 0
    BY <1>0, <1>1
  <2> QED BY <2>1 DEF NoneMet
<1>7. GiantInv'
  <2>1. ~(i' > 0) /\ 0..(i' - 1) = {}
    BY <1>0
  <2> QED BY <1>0, <1>2, <1>3, <1>4, <1>6, <2>1 DEF GiantInv
<1>8. NegInv'
  BY <1>0, SameCall DEF NegInv
<1>9. BabyInv' /\ ReturnInv' /\ DoneInv'
  BY <1>0 DEF BabyInv, ReturnInv, DoneInv
<1>10. ControlInv'
  BY <1>0, SameCall DEF ControlInv
<1> QED BY <1>5, <1>7, <1>8, <1>9, <1>10

-----------------------------------------------------------------------------
(* The second loop *)

\* The bytes looked up are those of x exactly when no longer residue was met.
LEMMA LookupExact ==
  ASSUME IInv
  PROVE  (MpzSet(tmp, Limbs(x)) = Limbs(x)) <=> Len(tmp) <= Len(Limbs(x))
<1>1. tmp \in Seq(Nat) /\ Limbs(x) \in Seq(Nat)
  BY LimbAssumption DEF IInv, TypeOK
<1>2. CASE Len(tmp) <= Len(Limbs(x))
  BY <1>1, <1>2, MpzSetExact
<1>3. CASE ~(Len(tmp) <= Len(Limbs(x)))
  <2>1. Len(tmp) > Len(Limbs(x)) /\ Len(tmp) \in Nat /\ Len(Limbs(x)) \in Nat
    BY <1>1, <1>3
  <2>2. DOMAIN MpzSet(tmp, Limbs(x)) = 1..Len(tmp)
    BY <2>1 DEF MpzSet
  <2>3. DOMAIN Limbs(x) = 1..Len(Limbs(x))
    BY <1>1
  <2>4. Len(tmp) \in 1..Len(tmp) /\ Len(tmp) \notin 1..Len(Limbs(x))
    BY <2>1
  <2> QED BY <1>3, <2>2, <2>3, <2>4
<1> QED BY <1>2, <1>3

\* The laws of Pow for the exponent that a round and an entry of the table make.
LEMMA RoundPow ==
  ASSUME IInv, pc = "giant", i < m, NEW j \in 0..(m - 1)
  PROVE  /\ i * m + j \in 0..(m * m - 1) /\ i * m \in 0..MaxExp
         /\ Pow(Base, j) \in Grp /\ Pow(Base, i * m) \in Grp
         /\ Pow(Base, i * m + j) = Mul(Pow(Base, j), Pow(Base, i * m))
<1> USE DEF IInv
<1>1. Base \in Grp /\ m \in Nat /\ i \in Nat /\ m * m <= MaxExp /\ MaxExp \in Nat
  BY BaseOK, PowAssumption DEF TypeOK
<1>2. i * m \in Nat /\ m * m \in Nat /\ i * m + m <= m * m
  BY <1>1, RoundBound
<1>3. /\ i * m \in 0..MaxExp /\ j \in 0..MaxExp /\ i * m + j <= MaxExp
      /\ i * m + j \in 0..(m * m - 1)
  BY <1>1, <1>2
<1>4. /\ Pow(Base, j + i * m) = Mul(Pow(Base, j), Pow(Base, i * m))
      /\ Pow(Base, j) \in Grp /\ Pow(Base, i * m) \in Grp
  BY <1>1, <1>3, PowAssumption
<1>5. j + i * m = i * m + j
  BY <1>2
<1> QED BY <1>3, <1>4, <1>5

\* x is the power j of the base exactly when i * m + j is a logarithm of h.
LEMMA RoundLog ==
  ASSUME IInv, pc = "giant", i < m, NEW j \in 0..(m - 1)
  PROVE  (x = Pow(Base, j)) <=> (Pow(Base, i * m + j) = arg.h)
<1>1. Mul(x, Pow(Base, i * m)) = arg.h /\ x \in Grp /\ Base \in Grp
  BY BaseOK DEF IInv, GiantInv, TypeOK
<1> QED BY <1>1, RoundPow, Cancel

\* The round in which the second loop meets a value, and its place in the table.
LEMMA RoundIs ==
  ASSUME NEW n \in Nat, NEW k \in Nat, NEW j \in 0..(n - 1)
  PROVE  (k * n + j) % n = j /\ (k * n + j) \div n = k
<1>1. PICK v \in Nat : v = k * n + j /\ v = (n * k) + j
  <2>1. k * n \in Nat /\ k * n = n * k
    OBVIOUS
  <2> QED BY <2>1
<1>2. v % n = j
  BY <1>1, RemainderIs
<1>3. n # 0 /\ n > 0
  OBVIOUS
<1>4. PICK c \in Int : c = v \div n /\ v = (n * c) + (v % n)
  BY <1>1, <1>3
<1>5. n * c = n * k
  <2>1. n * c \in Int /\ n * k \in Int
    OBVIOUS
  <2> QED BY <1>1, <1>2, <1>4, <2>1
<1>6. c = k
  <2>1. n * (c - k) = 0
    <3>1. n * (c - k) = n * c - n * k
      OBVIOUS
    <3> QED BY <1>5, <3>1
  <2>2. PICK d \in Int : d = c - k
    OBVIOUS
  <2>3. CASE d >= 1
    <3>1. PICK f \in Nat : d = f + 1
      <4>1. d - 1 \in Nat /\ d = (d - 1) + 1
        BY <2>3
      <4> QED BY <4>1
    <3>2. n * d = n * f + n /\ n * f \in Nat
      BY <3>1
    <3> QED BY <1>3, <2>1, <2>2, <3>2
  <2>4. CASE d <= -1
    <3>1. PICK f \in Nat : d = -(f + 1)
      <4>1. -d - 1 \in Nat /\ d = -((-d - 1) + 1)
        BY <2>4
      <4> QED BY <4>1
    <3>2. n * d = -(n * f + n) /\ n * f \in Nat
      BY <3>1
    <3> QED BY <1>3, <2>1, <2>2, <3>2
  <2> QED BY <2>2, <2>3, <2>4
<1> QED BY <1>1, <1>2, <1>4, <1>6

\* A power that is taken away is the power that was multiplied.
LEMMA TakeAway ==
  ASSUME NEW a \in Grp, NEW c \in Grp, NEW n \in 0..MaxExp
  PROVE  Mul(Mul(a, Pow(c, n)), Pow(Inv(c), n)) = a
<1>1. Pow(c, n) \in Grp /\ Pow(Inv(c), n) \in Grp
  BY GroupAssumption, PowAssumption
<1>2. Mul(Pow(c, n), Pow(Inv(c), n)) = One
  BY <1>1, GroupAssumption, PowAssumption
<1> QED BY <1>1, <1>2, GroupAssumption

\* The residue of the current round is x; those of the earlier rounds are powers of
\* the base when h is.
LEMMA ResiduesAre ==
  ASSUME IInv, pc = "giant", i < m
  PROVE  /\ Residue(i) = x
         /\ \A j \in 0..(m - 1), k \in 0..i :
              Pow(Base, i * m + j) = arg.h => Residue(k) = Pow(Base, (i * m + j) - k * m)
<1>1. /\ Base \in Grp /\ m \in Nat /\ i \in Nat /\ m * m <= MaxExp /\ MaxExp \in Nat
      /\ x \in Grp
  BY BaseOK, PowAssumption DEF IInv, TypeOK
<1>2. i * m \in Nat /\ m * m \in Nat /\ i * m + m <= m * m
  BY <1>1, RoundBound
<1>3. Residue(i) = x
  <2>1. Mul(x, Pow(Base, i * m)) = arg.h
    BY DEF IInv, GiantInv
  <2>2. i * m \in 0..MaxExp
    BY <1>1, <1>2
  <2> QED BY <1>1, <2>1, <2>2, TakeAway DEF Residue
<1>4. ASSUME NEW j \in 0..(m - 1), NEW k \in 0..i, Pow(Base, i * m + j) = arg.h
      PROVE  Residue(k) = Pow(Base, (i * m + j) - k * m)
  <2>1. PICK d \in Nat : i = k + d
    <3>1. i - k \in Nat /\ i = k + (i - k)
      BY <1>1
    <3> QED BY <3>1
  <2>2. PICK p, r \in Nat : p = k * m /\ r = d * m /\ i * m = p + r
    <3>1. k \in Nat /\ k * m \in Nat /\ d * m \in Nat /\ (k + d) * m = k * m + d * m
      BY <1>1
    <3> QED BY <2>1, <3>1
  <2>3. /\ (i * m + j) - k * m = r + j /\ i * m + j = (r + j) + p
        /\ p \in 0..MaxExp /\ r + j \in 0..MaxExp /\ (r + j) + p <= MaxExp
    BY <1>1, <1>2, <2>2
  <2>4. arg.h = Mul(Pow(Base, r + j), Pow(Base, p)) /\ Pow(Base, r + j) \in Grp
    <3>1. Pow(Base, (r + j) + p) = arg.h
      BY <1>4, <2>3
    <3>2. PICK c \in 0..MaxExp : c = r + j
      BY <2>3
    <3>3. Pow(Base, c + p) = Mul(Pow(Base, c), Pow(Base, p)) /\ Pow(Base, c) \in Grp
      BY <1>1, <2>3, <3>2, PowAssumption
    <3> QED BY <3>1, <3>2, <3>3
  <2>5. Mul(arg.h, Pow(Inv(Base), p)) = Pow(Base, r + j)
    BY <1>1, <2>3, <2>4, TakeAway
  <2> QED BY <2>2, <2>3, <2>5 DEF Residue
<1> QED BY <1>3, <1>4

\* A logarithm of the current round is skipped exactly when a longer residue than x
\* was met.
LEMMA SkippedIs ==
  ASSUME IInv, pc = "giant", i < m, NEW j \in 0..(m - 1), Pow(Base, i * m + j) = arg.h
  PROVE  Skipped(Base, i * m + j) <=> i > 0 /\ Len(tmp) > Len(Limbs(x))
<1>1. m = Size /\ m \in Nat /\ i \in Nat /\ tmp \in Seq(Nat)
  BY DEF IInv, TypeOK, ControlInv
<1>2. (i * m + j) % m = j /\ (i * m + j) \div m = i
  BY <1>1, RoundIs
<1>3. x = Pow(Base, j) /\ x \in Grp
  BY RoundLog DEF IInv, TypeOK
<1>4. ASSUME NEW k \in 0..(i - 1)
      PROVE  Residue(k) = Pow(Base, (i * m + j) - k * m)
  <2>1. k \in 0..i
    BY <1>1
  <2> QED BY <2>1, ResiduesAre
<1>5. Skipped(Base, i * m + j) <=>
        \E k \in 0..(i - 1) : Len(Limbs(Residue(k))) > Len(Limbs(x))
  <2>1. PICK v : v = i * m + j /\ v \div m = i /\ v % m = j
    BY <1>2
  <2>2. Skipped(Base, v) <=>
          \E k \in 0..(i - 1) : Len(Limbs(Pow(Base, v - k * m))) > Len(Limbs(x))
    BY <1>1, <1>3, <2>1 DEF Skipped
  <2>3. ASSUME NEW k \in 0..(i - 1) PROVE Residue(k) = Pow(Base, v - k * m)
    <3>1. Residue(k) = Pow(Base, (i * m + j) - k * m)
      BY <1>4
    <3> QED BY <2>1, <3>1
  <2> QED BY <2>1, <2>2, <2>3
<1>6. /\ i > 0 => \E k \in 0..(i - 1) : Len(tmp) = Len(Limbs(Residue(k)))
      /\ \A k \in 0..(i - 1) : Len(Limbs(Residue(k))) <= Len(tmp)
  BY DEF IInv, GiantInv
<1>7. ASSUME NEW k \in 0..(i - 1) PROVE Len(Limbs(Residue(k))) \in Nat
  <2>1. Pow(Inv(Base), k * m) \in Grp
    <3>1. k \in Nat /\ k < m
      BY <1>1
    <3>2. k * m \in Nat /\ m * m \in Nat /\ k * m + m <= m * m
      BY <1>1, <3>1, RoundBound
    <3>3. k * m \in 0..MaxExp
      <4>1. m * m <= MaxExp /\ MaxExp \in Nat
        BY PowAssumption DEF IInv, TypeOK
      <4> QED BY <1>1, <3>2, <4>1
    <3>4. Inv(Base) \in Grp
      BY BaseOK, GroupAssumption DEF IInv
    <3> QED BY <3>3, <3>4, PowAssumption
  <2>2. Residue(k) \in Grp
    BY <2>1, GroupAssumption DEF Residue, IInv, TypeOK, Args
  <2>3. Limbs(Residue(k)) \in Seq(Nat)
    BY <2>2, LimbAssumption
  <2> QED BY <2>3
<1>8. Len(Limbs(x)) \in Nat /\ Len(tmp) \in Nat
  <2>1. Limbs(x) \in Seq(Nat)
    BY <1>3, LimbAssumption
  <2> QED BY <1>1, <2>1
<1>9. CASE i > 0 /\ Len(tmp) > Len(Limbs(x))
  BY <1>5, <1>6, <1>9
<1>10. CASE \E k \in 0..(i - 1) : Len(Limbs(Residue(k))) > Len(Limbs(x))
  <2>1. PICK k \in 0..(i - 1) : Len(Limbs(Residue(k))) > Len(Limbs(x))
    BY <1>10
  <2>2. i > 0 /\ Len(tmp) > Len(Limbs(x))
    BY <1>1, <1>6, <1>7, <1>8, <2>1
  <2> QED BY <1>5, <1>10, <2>2
<1> QED BY <1>5, <1>9, <1>10

\* The first round skips nothing.
LEMMA FirstRound ==
  ASSUME IInv, pc = "giant", i = 0
  PROVE  Len(tmp) <= Len(Limbs(x)) /\ Len(Limbs(x)) \in Nat
<1>1. tmp = <<>> /\ Len(tmp) = 0
  BY DEF IInv, GiantInv
<1>2. Limbs(x) \in Seq(Nat)
  BY LimbAssumption DEF IInv, TypeOK
<1> QED BY <1>1, <1>2

\* The second loop finds its residue in the table.
LEMMA GiantHitIInv == IInv /\ GiantHit => IInv'
<1> SUFFICES ASSUME IInv, GiantHit PROVE IInv'
  OBVIOUS
<1> USE DEF IInv
<1>0. /\ pc = "giant" /\ i < m /\ tmp' = MpzSet(tmp, Limbs(x))
      /\ err' = "NONE" /\ pc' = "return"
      /\ UNCHANGED <<arg, neg, m, i, x, table>>
  BY DEF GiantHit
<1>1. PICK j \in 0..(m - 1) : Limbs(Pow(Base, j)) = tmp' /\ res' = i * m + j
  <2>1. PICK e \in table : e[1] = tmp' /\ res' = i * m + e[2]
    BY DEF GiantHit, Matches
  <2>2. table = Table(m)
    BY <1>0 DEF GiantInv
  <2>3. PICK j \in 0..(m - 1) : e = <<Limbs(Pow(Base, j)), j>>
    BY <2>1, <2>2 DEF Table
  <2> QED BY <2>1, <2>3
<1>2. res' \in 0..(m * m - 1) /\ m \in Nat /\ m > 0 /\ i \in Nat
  BY <1>0, <1>1, RoundPow DEF TypeOK
<1>3. tmp' = Limbs(x) => Pow(Base, res') = arg.h /\ ~Skipped(Base, res')
  <2> SUFFICES ASSUME tmp' = Limbs(x)
               PROVE  Pow(Base, res') = arg.h /\ ~Skipped(Base, res')
    OBVIOUS
  <2>1. Limbs(Pow(Base, j)) = Limbs(x)
    BY <1>0, <1>1
  <2>2. x = Pow(Base, j)
    BY <1>0, <2>1, RoundPow, LimbAssumption DEF TypeOK
  <2>3. Pow(Base, res') = arg.h
    BY <1>0, <1>1, <2>2, RoundLog
  <2>4. Len(tmp) <= Len(Limbs(x))
    BY <1>0, LookupExact
  <2>5. Len(tmp) \in Nat /\ Len(Limbs(x)) \in Nat
    <3>1. tmp \in Seq(Nat) /\ Limbs(x) \in Seq(Nat)
      BY LimbAssumption DEF TypeOK
    <3> QED BY <3>1
  <2>6. Pow(Base, i * m + j) = arg.h
    BY <1>1, <2>3
  <2>7. ~Skipped(Base, i * m + j)
    <3>1. Skipped(Base, i * m + j) <=> i > 0 /\ Len(tmp) > Len(Limbs(x))
      BY <1>0, <2>6, SkippedIs
    <3> QED BY <2>4, <2>5, <3>1
  <2> QED BY <1>1, <2>3, <2>7
<1>4. NoLog(Base, m) \/ (tmp' = Limbs(x) /\ Pow(Base, res') = arg.h)
  <2>1. CASE i = 0
    BY <1>0, <1>3, <2>1, FirstRound, LookupExact
  <2>2. CASE i > 0
    BY <1>0, <2>2 DEF GiantInv
  <2> QED BY <1>2, <2>1, <2>2
<1>5. TypeOK'
  <2>1. tmp' \in Seq(Nat)
    BY <1>0, LimbAssumption, MpzSetType DEF TypeOK
  <2>2. res' \in Int
    BY <1>2
  <2> QED BY <1>0, <2>1, <2>2 DEF TypeOK
<1>6. ReturnInv'
  <2>1. Base' = Base /\ err' # "DLOG_NOT_FOUND"
    BY <1>0 DEF Base
  <2>2. tmp' = Limbs(x') => Pow(Base', res') = arg'.h /\ ~Skipped(Base, res')
    BY <1>0, <1>3, <2>1
  <2>3. Skipped(Base, res)' = Skipped(Base, res')
    BY <1>0, <2>1, SameCall DEF Skipped
  <2>4. NoLog(Base, m)' = NoLog(Base, m)
    BY <1>0, <2>1 DEF NoLog
  <2> QED BY <1>0, <1>2, <1>4, <2>1, <2>2, <2>3, <2>4 DEF ReturnInv
<1>7. NegInv'
  BY <1>0, SameCall DEF NegInv
<1>8. ControlInv'
  BY <1>0, SameCall DEF ControlInv
<1>9. BabyInv' /\ GiantInv' /\ DoneInv'
  BY <1>0 DEF BabyInv, GiantInv, DoneInv
<1> QED BY <1>5, <1>6, <1>7, <1>8, <1>9

\* The second loop does not, and goes on.
LEMMA GiantMissIInv == IInv /\ GiantMiss => IInv'
<1> SUFFICES ASSUME IInv, GiantMiss PROVE IInv'
  OBVIOUS
<1> USE DEF IInv
<1>0. /\ pc = "giant" /\ i < m /\ tmp' = MpzSet(tmp, Limbs(x))
      /\ Matches(tmp') = {} /\ x' = Mul(x, Z) /\ i' = i + 1
      /\ UNCHANGED <<arg, pc, neg, m, table, res, err>>
  BY DEF GiantMiss
<1>1. /\ Base \in Grp /\ Base' = Base /\ m \in 0..MaxExp /\ i \in Nat
      /\ m * m \in Nat /\ m * m <= MaxExp /\ MaxExp \in Nat /\ x \in Grp
  BY <1>0, BaseOK, PowAssumption DEF TypeOK, Base
<1>2. /\ i * m \in Nat /\ i * m + m <= m * m
      /\ i' * m' = i * m + m
  BY <1>0, <1>1, RoundBound
<1>3. x' \in Grp /\ Mul(x', Pow(Base', i' * m')) = arg.h
  <2>1. Z \in Grp
    BY <1>1, GroupAssumption, PowAssumption DEF Z
  <2>2. i * m + m <= MaxExp
    BY <1>1, <1>2
  <2>3. Mul(Mul(x, Z), Pow(Base, i * m + m)) = Mul(x, Pow(Base, i * m))
    BY <1>1, <1>2, <2>2, GiantStepLaw DEF Z
  <2>4. Mul(x, Pow(Base, i * m)) = arg.h
    BY <1>0 DEF GiantInv
  <2> QED BY <1>0, <1>1, <1>2, <2>1, <2>3, <2>4, GroupAssumption
<1>4. ASSUME NEW j \in 0..(m - 1), Pow(Base, i * m + j) = arg.h
      PROVE  Skipped(Base, i * m + j)
  <2> SUFFICES ASSUME ~Skipped(Base, i * m + j) PROVE FALSE
    OBVIOUS
  <2>1. ~(i > 0 /\ Len(tmp) > Len(Limbs(x)))
    BY <1>0, <1>4, SkippedIs
  <2>2. Len(tmp) <= Len(Limbs(x))
    <3>1. CASE i = 0
      BY <1>0, <3>1, FirstRound
    <3>2. CASE i > 0
      <4>1. Limbs(x) \in Seq(Nat) /\ tmp \in Seq(Nat)
        BY LimbAssumption DEF TypeOK
      <4> QED BY <2>1, <3>2, <4>1
    <3> QED BY <1>1, <3>1, <3>2
  <2>3. tmp' = Limbs(x) /\ x = Pow(Base, j)
    BY <1>0, <1>4, <2>2, LookupExact, RoundLog
  <2>4. <<Limbs(Pow(Base, j)), j>> \in table
    BY <1>0 DEF GiantInv, Table
  <2>5. <<Limbs(Pow(Base, j)), j>> \in Matches(tmp')
    BY <2>3, <2>4 DEF Matches
  <2> QED BY <1>0, <2>5
<1>5. NoLog(Base, m)
  <2>1. CASE i = 0
    <3> SUFFICES ASSUME NEW v \in 0..(m - 1), Pow(Base, v) = arg.h PROVE FALSE
      BY DEF NoLog
    <3>1. i * m + v = v
      BY <1>1, <2>1
    <3>2. Skipped(Base, i * m + v)
      BY <1>4, <3>1
    <3> QED BY <1>0, <2>1, <3>1, <3>2, SkippedIs
  <2>2. CASE i > 0
    BY <1>0, <2>2 DEF GiantInv
  <2> QED BY <1>1, <2>1, <2>2
<1>6. NoneMet(Base, i * m + m)
  <2>0. PICK p \in Nat : p = i * m
    BY <1>2
  <2>1. ASSUME NEW v \in 0..((p + m) - 1), Pow(Base, v) = arg.h
        PROVE  Skipped(Base, v)
    <3>1. CASE v < p
      <4>1. v \in 0..(p - 1)
        BY <3>1
      <4> QED BY <1>0, <2>0, <2>1, <4>1 DEF GiantInv, NoneMet
    <3>2. CASE v >= p
      <4>1. v - p \in 0..(m - 1) /\ v = p + (v - p)
        BY <1>1, <2>1, <3>2
      <4> QED BY <1>4, <2>0, <2>1, <4>1
    <3> QED BY <2>1, <3>1, <3>2
  <2> QED BY <2>0, <2>1 DEF NoneMet
<1>7. /\ \E k \in 0..i : Len(tmp') = Len(Limbs(Residue(k)))
      /\ \A k \in 0..i : Len(Limbs(Residue(k))) <= Len(tmp')
  <2>1. Residue(i) = x
    BY <1>0, ResiduesAre
  <2>2. tmp \in Seq(Nat) /\ Limbs(x) \in Seq(Nat) /\ Len(Limbs(x)) > 0
    BY LimbAssumption DEF TypeOK
  <2>3. Len(tmp) \in Nat /\ Len(Limbs(x)) \in Nat
    BY <2>2
  <2>4. Len(tmp') = IF Len(tmp) > Len(Limbs(x)) THEN Len(tmp) ELSE Len(Limbs(x))
    <3>1. PICK L \in Nat : L = IF Len(tmp) > Len(Limbs(x)) THEN Len(tmp) ELSE Len(Limbs(x))
      BY <2>3
    <3>2. tmp' \in Seq(Nat)
      BY <1>0, <2>2, MpzSetType
    <3>3. DOMAIN tmp' = 1..L
      BY <1>0, <3>1 DEF MpzSet
    <3> QED BY <3>1, <3>2, <3>3
  <2>5. /\ i = 0 => Len(tmp) = 0
        /\ i > 0 => \E k \in 0..(i - 1) : Len(tmp) = Len(Limbs(Residue(k)))
        /\ \A k \in 0..(i - 1) : Len(Limbs(Residue(k))) <= Len(tmp)
    BY <1>0 DEF GiantInv
  <2>6. i \in 0..i /\ \A k \in 0..i : k = i \/ k \in 0..(i - 1)
    BY <1>1
  <2>7. \A k \in 0..(i - 1) : k \in 0..i
    BY <1>1
  <2>8. ASSUME NEW k \in 0..(i - 1) PROVE Len(Limbs(Residue(k))) \in Nat
    <3>1. k \in Nat /\ k < m
      BY <1>0, <1>1
    <3>2. k * m \in 0..MaxExp
      BY <1>1, <3>1, RoundBound
    <3>3. Pow(Inv(Base), k * m) \in Grp
      BY <1>1, <3>2, GroupAssumption, PowAssumption
    <3>4. Limbs(Residue(k)) \in Seq(Nat)
      BY <3>3, GroupAssumption, LimbAssumption DEF Residue, TypeOK, Args
    <3> QED BY <3>4
  <2>9. \E k \in 0..i : Len(tmp') = Len(Limbs(Residue(k)))
    <3>1. CASE Len(tmp) > Len(Limbs(x))
      <4>1. i > 0
        BY <1>1, <2>3, <2>5, <3>1
      <4> QED BY <2>4, <2>5, <2>7, <3>1, <4>1
    <3>2. CASE ~(Len(tmp) > Len(Limbs(x)))
      BY <2>1, <2>4, <2>6, <3>2
    <3> QED BY <3>1, <3>2
  <2>10. ASSUME NEW k \in 0..i PROVE Len(Limbs(Residue(k))) <= Len(tmp')
    <3>1. CASE k = i
      BY <2>1, <2>3, <2>4, <3>1
    <3>2. CASE k \in 0..(i - 1)
      BY <2>3, <2>4, <2>5, <2>8, <3>2
    <3> QED BY <2>6, <3>1, <3>2
  <2> QED BY <2>9, <2>10
<1>8. GiantInv'
  <2>1. table' = Table(m)'
    BY <1>0, <1>1 DEF GiantInv, Table
  <2>2. NoLog(Base, m)' /\ NoneMet(Base, i * m)'
    BY <1>0, <1>1, <1>2, <1>5, <1>6, SameCall DEF NoLog, NoneMet, Skipped
  <2>3. i' # 0 /\ i' - 1 = i
    BY <1>0, <1>1
  <2>4. \A k : Residue(k)' = Residue(k)
    BY <1>0, <1>1 DEF Residue
  <2>5. /\ \E k \in 0..(i' - 1) : Len(tmp') = Len(Limbs(Residue(k)'))
        /\ \A k \in 0..(i' - 1) : Len(Limbs(Residue(k)')) <= Len(tmp')
    BY <1>7, <2>3, <2>4
  <2> QED BY <1>0, <1>3, <2>1, <2>2, <2>3, <2>5 DEF GiantInv
<1>9. TypeOK'
  <2>1. tmp' \in Seq(Nat)
    BY <1>0, <1>1, LimbAssumption, MpzSetType DEF TypeOK
  <2>2. i' \in 0..m'
    BY <1>0, <1>1
  <2> QED BY <1>0, <1>3, <2>1, <2>2 DEF TypeOK
<1>10. NegInv'
  BY <1>0, SameCall DEF NegInv
<1>11. ControlInv'
  BY <1>0, SameCall DEF ControlInv
<1>12. BabyInv' /\ ReturnInv' /\ DoneInv'
  BY <1>0 DEF BabyInv, ReturnInv, DoneInv
<1> QED BY <1>8, <1>9, <1>10, <1>11, <1>12

\* The second loop ends without a match.
LEMMA GiantDoneIInv == IInv /\ GiantDone => IInv'
<1> SUFFICES ASSUME IInv, GiantDone PROVE IInv'
  OBVIOUS
<1> USE DEF IInv
<1>0. /\ pc = "giant" /\ i >= m /\ pc' = "return"
      /\ UNCHANGED <<arg, neg, m, i, x, table, tmp, res, err>>
  BY DEF GiantDone
<1>1. i = m /\ i \in Nat /\ m > 0 /\ m = Size /\ err = "DLOG_NOT_FOUND"
  BY <1>0, CallSize DEF TypeOK, ControlInv
<1>2. NoLog(Base, m) /\ NoneMet(Base, m * m)
  BY <1>0, <1>1 DEF GiantInv
<1>3. ReturnInv'
  <2>1. Base' = Base
    BY <1>0 DEF Base
  <2>2. NoLog(Base, m)' /\ NoneMet(Base, m * m)'
    BY <1>0, <1>2, <2>1, SameCall DEF NoLog, NoneMet, Skipped
  <2> QED BY <1>0, <1>1, <2>2 DEF ReturnInv
<1>4. TypeOK'
  BY <1>0 DEF TypeOK
<1>5. NegInv'
  BY <1>0, SameCall DEF NegInv
<1>6. ControlInv'
  BY <1>0, <1>1, SameCall DEF ControlInv
<1>7. BabyInv' /\ GiantInv' /\ DoneInv'
  BY <1>0 DEF BabyInv, GiantInv, DoneInv
<1> QED BY <1>3, <1>4, <1>5, <1>6, <1>7

-----------------------------------------------------------------------------
(* The return of a search *)

\* The search returns, or is repeated for the inverse base.
LEMMA ReturnIInv == IInv /\ Return => IInv'
<1> SUFFICES ASSUME IInv, Return PROVE IInv'
  OBVIOUS
<1> USE DEF IInv
<1> DEFINE n == Size
<1>0. pc = "return" /\ UNCHANGED <<arg, m, i, x, table, tmp, err>>
  BY DEF Return
<1>1. /\ arg \in Args /\ n \in Nat /\ n > 0 /\ n * n \in Nat /\ n * n <= MaxExp
      /\ Reach(arg) \in Nat /\ Reach(arg) < n * n /\ MaxExp \in Nat
      /\ Sqrt(Reach(arg)) \in Nat /\ Reached = (IF arg.withNeg THEN 1 - n * n ELSE 0)..(n * n - 1)
  BY CallSize DEF TypeOK, Reached
<1>2. CASE arg.withNeg /\ ~neg /\ err # "NONE"
  <2>1. pc' = "call" /\ neg' = TRUE /\ res' = res
    BY <1>2 DEF Return
  <2>2. NegInv'
    <3>1. CASE Refuses
      BY <1>0, <3>1, SameCall DEF NegInv
    <3>2. CASE ~Refuses
      <4>1. m = n /\ err = "DLOG_NOT_FOUND"
        BY <1>0, <1>2, <3>2 DEF ControlInv, TypeOK
      <4>2. NoLog(G, n) /\ NoneMet(G, n * n)
        BY <1>0, <1>2, <4>1 DEF ReturnInv, Base
      <4>3. (NoLog(G, Size) /\ NoneMet(G, Size * Size))'
        BY <1>0, <4>2, SameCall DEF NoLog, NoneMet, Skipped
      <4> QED BY <4>3 DEF NegInv
    <3> QED BY <3>1, <3>2
  <2>3. TypeOK'
    BY <1>0, <1>2, <2>1 DEF TypeOK
  <2>4. BabyInv' /\ GiantInv' /\ ReturnInv' /\ ControlInv' /\ DoneInv'
    BY <2>1 DEF BabyInv, GiantInv, ReturnInv, ControlInv, DoneInv
  <2> QED BY <2>2, <2>3, <2>4
<1>3. CASE ~(arg.withNeg /\ ~neg /\ err # "NONE")
  <2>1. /\ pc' = "done" /\ neg' = neg
        /\ res' = IF neg /\ err = "NONE" THEN -res ELSE res
    BY <1>3 DEF Return
  <2>2. res' \in Int
    BY <2>1 DEF TypeOK
  <2>3. TypeOK'
    BY <1>0, <2>1, <2>2 DEF TypeOK
  <2>4. NegInv'
    BY <1>0, <2>1, SameCall DEF NegInv, NoLog, NoneMet, Skipped
  <2>5. ASSUME err = "NONE"
        PROVE  /\ res' \in Reached
               /\ ~Mistaken => Solves(res')
    <3>1. /\ res \in 0..(m * m - 1) /\ (~Mistaken => Pow(Base, res) = arg.h)
          /\ m = n
      BY <1>0, <2>5 DEF ReturnInv, ControlInv, Mistaken
    <3>2. res \in 0..(n * n - 1)
      BY <1>1, <3>1
    <3>3. CASE neg
      <4>1. res' = -res /\ Base = Inv(G) /\ arg.withNeg
        BY <2>1, <2>5, <3>3 DEF Base, TypeOK
      <4>2. CASE res <= 0
        <5>1. Pow(G, 0) = One /\ Pow(Inv(G), 0) = One
          BY GroupAssumption, PowAssumption
        <5>2. res = 0 /\ -res = 0
          BY <3>2, <4>2
        <5>3. res' >= 0 /\ res' = 0
          BY <4>1, <5>2
        <5>4. res' \in Reached
          BY <1>1, <3>2, <5>3
        <5> QED BY <3>1, <4>1, <5>1, <5>2, <5>3, <5>4 DEF Solves
      <4>3. CASE res > 0
        <5>1. ~(res' >= 0) /\ -res' = res /\ res' \in Reached
          BY <1>1, <3>2, <4>1, <4>3
        <5> QED BY <3>1, <4>1, <5>1 DEF Solves
      <4> QED BY <3>2, <4>2, <4>3
    <3>4. CASE ~neg
      <4>1. res' = res /\ Base = G /\ res' >= 0
        BY <2>1, <3>2, <3>4 DEF Base
      <4>2. res' \in Reached
        BY <1>1, <3>2, <4>1
      <4> QED BY <3>1, <4>1, <4>2 DEF Solves
    <3> QED BY <3>3, <3>4
  <2>6. ASSUME err = "DLOG_NOT_FOUND", NEW v \in Required, Solves(v)
        PROVE  Overlooked(v)
    <3>1. NoneMet(Base, n * n) /\ ~Refuses
      BY <1>0, <2>6 DEF ReturnInv, ControlInv
    <3>2. CASE v >= 0
      <4>1. v \in 0..(n * n - 1)
        BY <1>1, <2>6, <3>2 DEF Required
      <4>2. NoneMet(G, n * n)
        BY <2>6, <3>1 DEF NegInv, Base
      <4> QED BY <2>6, <3>2, <4>1, <4>2 DEF Solves, Overlooked, NoneMet
    <3>3. CASE ~(v >= 0)
      <4>1. arg.withNeg /\ -v \in 0..(n * n - 1)
        BY <1>1, <2>6, <3>3 DEF Required
      <4>2. Base = Inv(G)
        BY <1>3, <2>6, <4>1 DEF Base
      <4> QED BY <2>6, <3>1, <3>3, <4>1, <4>2 DEF Solves, Overlooked, NoneMet
    <3> QED BY <3>2, <3>3
  <2>7. ASSUME NEW j \in 0..(Size - 1), Pow(G, j) = arg.h
        PROVE  \/ err = "NONE" /\ ~neg /\ Pow(G, res') = arg.h
               \/ err = "DLOG_CALC_FAILED"
    <3>1. CASE Refuses
      BY <1>0, <3>1 DEF ControlInv
    <3>2. CASE ~Refuses
      <4>1. j \in 0..(n - 1) /\ m = n
        BY <1>0, <1>1, <3>2 DEF ControlInv
      <4>2. ~NoLog(G, n)
        BY <2>7, <4>1 DEF NoLog
      <4>3. ~neg
        BY <3>2, <4>2 DEF NegInv
      <4>4. Base = G
        BY <4>3 DEF Base
      <4>5. err = "NONE"
        BY <1>0, <3>2, <4>1, <4>2, <4>4 DEF ReturnInv, ControlInv, TypeOK
      <4>6. Pow(G, res) = arg.h
        BY <1>0, <4>1, <4>2, <4>4, <4>5 DEF ReturnInv
      <4> QED BY <2>1, <4>3, <4>5, <4>6
    <3> QED BY <3>1, <3>2
  <2>8. DoneInv'
    <3>1. SmallFound'
      BY <1>0, <2>1, <2>7, SameCall DEF SmallFound
    <3>2. err' = "NONE" => res' \in Reached' /\ (~Mistaken' => Solves(res)')
      BY <1>0, <2>5, SameCall DEF Solves, Mistaken
    <3>3. err' = "DLOG_NOT_FOUND" =>
            \A v \in Required' : Solves(v)' => Overlooked(v)'
      BY <1>0, <2>6, SameCall
    <3>4. err' = "DLOG_CALC_FAILED" => Refuses'
      BY <1>0, SameCall DEF ControlInv
    <3> QED BY <1>0, <3>1, <3>2, <3>3, <3>4 DEF DoneInv
  <2>9. BabyInv' /\ GiantInv' /\ ReturnInv' /\ ControlInv'
    BY <2>1 DEF BabyInv, GiantInv, ReturnInv, ControlInv
  <2> QED BY <2>3, <2>4, <2>8, <2>9
<1> QED BY <1>2, <1>3

-----------------------------------------------------------------------------
(* The theorems *)

\* Nothing happens.
LEMMA StutterIInv == IInv /\ UNCHANGED vars => IInv'
<1> SUFFICES ASSUME IInv, UNCHANGED vars PROVE IInv'
  OBVIOUS
<1> USE DEF IInv, vars
<1>0. UNCHANGED <<arg, pc, neg, m, i, x, table, tmp, res, err>>
  OBVIOUS
<1>1. TypeOK' /\ NegInv' /\ ControlInv'
  BY <1>0, SameCall DEF TypeOK, NegInv, NoLog, NoneMet, Skipped, ControlInv
<1>2. BabyInv' /\ GiantInv' /\ ReturnInv'
  BY <1>0, SameCall
     DEF BabyInv, GiantInv, ReturnInv, Table, NoLog, NoneMet, Skipped, Base, Residue
<1>3. DoneInv'
  BY <1>0, SameCall DEF DoneInv, SmallFound, Solves, Mistaken
<1> QED BY <1>1, <1>2, <1>3

\* The two loops and the retry of dlog.c preserve what they have established.
THEOREM Invariance == Spec => []IInv
<1>1. IInv /\ [Next]_vars => IInv'
  BY CallIInv, BabyStepIInv, BabyDoneIInv, GiantHitIInv, GiantMissIInv,
     GiantDoneIInv, ReturnIInv, StutterIInv DEF Next
<1> QED BY InitIInv, <1>1, PTL DEF Spec

\* Type correctness of the search, for every group, bound and limb size.
THEOREM TypeCorrect == Spec => []TypeOK
<1>1. IInv => TypeOK
  BY DEF IInv
<1> QED BY <1>1, Invariance, PTL

\* Whatever the number of limbs of p, a logarithm of at most the square root of
\* the bound is found, and what is then returned is a logarithm (dlog.c:80-97).
THEOREM SmallLogsFound == Spec => []SmallFound
<1>1. IInv => SmallFound
  BY DEF IInv, DoneInv, SmallFound
<1> QED BY <1>1, Invariance, PTL

\* For every length of the residues the loops implement the search of their range:
\* they end with a logarithm, or there is none up to the bound but those that are
\* skipped for their limbs; unless the last lookup matched another residue
\* (dlog.c:30-129).
THEOREM Implements == Spec => SearchesRange
<1> DEFINE sol == {v \in Reached : Solves(v)}
           req == {v \in Required : ~Overlooked(v)}
<1>1. Init => DL!Init
  BY DEF Init, DL!Init, Over
<1>2. ASSUME IInv, IInv', [Next]_vars
      PROVE  [DL!Next]_(DL!vars)
  <2>1. arg' = arg
    BY <1>2 DEF Next, vars, Call, BabyStep, BabyDone, GiantHit, GiantMiss,
                GiantDone, Return
  <2>2. sol' = sol /\ req' = req /\ Refuses' = Refuses
    BY <2>1, SameCall
  <2>3. CASE Return /\ pc' = "done"
    <3>1. pc = "return" /\ err' = err /\ Mistaken' = Mistaken
      BY <2>3 DEF Return, Mistaken
    <3>2. CASE err = "NONE" /\ ~Mistaken
      <4>1. res' \in sol'
        BY <1>2, <2>3, <3>1, <3>2 DEF IInv, DoneInv
      <4> QED BY <2>2, <2>3, <3>1, <3>2, <4>1
              DEF DL!Next, DL!Found, DL!call, Over
    <3>3. CASE err = "DLOG_NOT_FOUND"
      <4>1. sol' \cap req' = {}
        BY <1>2, <2>3, <3>1, <3>3 DEF IInv, DoneInv
      <4>2. ~Mistaken
        BY <3>3 DEF Mistaken
      <4> QED BY <2>2, <2>3, <3>1, <3>3, <4>1, <4>2
              DEF DL!Next, DL!NotFound, DL!call, Over
    <3>4. CASE err = "DLOG_CALC_FAILED"
      <4>1. ~Mistaken
        BY <3>4 DEF Mistaken
      <4>2. Refuses
        BY <1>2, <2>2, <2>3, <3>1, <3>4 DEF IInv, DoneInv
      <4> QED BY <2>2, <2>3, <3>1, <3>4, <4>1, <4>2
              DEF DL!Next, DL!Refused, DL!call, Over
    <3>5. CASE err = "NONE" /\ Mistaken
      BY <2>2, <3>1, <3>5 DEF DL!vars, DL!call, Over
    <3> QED BY <1>2, <3>2, <3>3, <3>4, <3>5 DEF IInv, TypeOK
  <2>4. CASE pc # "done" /\ pc' # "done"
    BY <2>2, <2>4 DEF DL!vars, DL!call, Over
  <2>5. CASE UNCHANGED vars
    BY <2>2, <2>5 DEF DL!vars, DL!call, vars, Over, Mistaken
  <2> QED
    BY <1>2, <2>3, <2>4, <2>5
       DEF Next, Call, BabyStep, BabyDone, GiantHit, GiantMiss, GiantDone, Return
<1> QED BY <1>1, <1>2, Invariance, PTL DEF Spec, SearchesRange, DL!Spec

-----------------------------------------------------------------------------
(* The search in one step *)

\* The number of steps that the code and ExpGroup compute is the same.
LEMMA StepsAre ==
  ASSUME NEW a \in Args
  PROVE  E!Steps(Reach(a)) = Sqrt(Reach(a)) + 1
<1>1. PICK r, s : r \in Nat /\ r = Reach(a) /\ s = Sqrt(Reach(a)) /\ s \in Nat
  BY SizeOK
<1>2. r \in Bounds \cup Orders \cup {POrder}
  BY <1>1, ArgAssumption DEF Args, Reach, OrderOf
<1>3. s * s <= r /\ r < (s + 1) * (s + 1) /\ s \in Nat /\ r \in Nat
  BY <1>1, <1>2, ArgAssumption
<1>4. E!ISqrt(r) = s
  <2>1. E!ISqrt(r) = CHOOSE k \in 0..r : k * k <= r /\ r < (k + 1) * (k + 1)
    BY DEF E!ISqrt
  <2> QED BY <1>3, <2>1, SqrtUnique
<1> QED BY <1>1, <1>4 DEF E!Steps

-----------------------------------------------------------------------------
(* Powers in the subgroup *)

\* Exponents below the order are told apart, for the generator and for its inverse.
LEMMA PowersDiffer ==
  ASSUME NEW b \in {G, Inv(G)}, NEW j \in 0..(SubOrder - 1), NEW k \in 0..(SubOrder - 1),
         Pow(b, j) = Pow(b, k)
  PROVE  j = k
<1>1. /\ SubOrder \in Nat \ {0} /\ SubOrder <= MaxExp /\ MaxExp \in Nat
      /\ j \in 0..MaxExp /\ k \in 0..MaxExp /\ G \in Grp /\ Inv(G) \in Grp
  BY SubgroupAssumption, PowAssumption, GroupAssumption
<1>2. Pow(G, j) = Pow(G, k)
  <2>1. CASE b = G
    BY <2>1
  <2>2. CASE b = Inv(G)
    <3>1. Mul(Pow(Inv(G), j), Pow(G, j)) = One /\ Mul(Pow(Inv(G), k), Pow(G, k)) = One
      BY <1>1, PowAssumption
    <3>2. Pow(G, j) \in Grp /\ Pow(G, k) \in Grp /\ Pow(Inv(G), j) \in Grp /\ Pow(Inv(G), k) \in Grp
      BY <1>1, PowAssumption
    <3>3. Mul(Pow(G, j), Pow(Inv(G), j)) = Mul(Pow(G, k), Pow(Inv(G), j))
      BY <2>2, <3>1, <3>2, GroupAssumption
    <3> QED BY <1>1, <3>2, <3>3, Cancel
  <2> QED BY <2>1, <2>2
<1>3. j % SubOrder = k % SubOrder
  BY <1>1, <1>2, SubgroupAssumption
<1>4. j % SubOrder = j /\ k % SubOrder = k
  BY <1>1
<1> QED BY <1>3, <1>4

\* The opposite of the opposite of an exponent.
LEMMA OppositeTwice ==
  ASSUME NEW q \in Nat \ {0}, NEW e \in 0..(q - 1)
  PROVE  (-e) % q \in 0..(q - 1) /\ (-((-e) % q)) % q = e
<1>1. q \in Nat /\ -1 \in Int /\ 0 \in Int
  OBVIOUS
<1>2. CASE e <= 0
  <2>1. e = 0 /\ -e = 0 /\ q > 0
    BY <1>2
  <2>2. 0 % q = 0
    BY <2>1
  <2>3. (-e) % q = e
    BY <2>1, <2>2
  <2> QED BY <2>1, <2>2, <2>3
<1>3. CASE e > 0
  <2>1. PICK d \in Nat : d = q - e
    OBVIOUS
  <2>2. d \in 0..(q - 1) /\ -e = (q * (-1)) + d /\ -d = (q * (-1)) + e
    BY <1>3, <2>1
  <2>3. (-e) % q = d
    BY <1>1, <2>2, RemainderIs
  <2>4. (-d) % q = e
    BY <1>1, <2>2, RemainderIs
  <2> QED BY <2>2, <2>3, <2>4
<1> QED BY <1>2, <1>3

\* The lengths that the record of the group, and that of its inverse, say of the
\* powers.
LEMMA LengthsAre ==
  ASSUME NEW w \in 0..MaxExp
  PROVE  /\ SubGroup.limbs[w % SubOrder] = Len(Limbs(Pow(G, w)))
         /\ E!Mirror(SubGroup).limbs[w % SubOrder] = Len(Limbs(Pow(Inv(G), w)))
<1>1. /\ SubOrder \in Nat \ {0} /\ SubOrder <= MaxExp /\ MaxExp \in Nat
      /\ \A n, k \in 0..MaxExp : Pow(G, n) = Pow(G, k) <=> n % SubOrder = k % SubOrder
  BY SubgroupAssumption, PowAssumption
<1>2. PICK q \in Nat \ {0} : q = SubOrder
  BY <1>1
<1>3. PICK e \in 0..(q - 1) : e = w % q
  <2>1. w \in Nat /\ q > 0
    BY <1>1
  <2>2. w % q \in 0..(q - 1)
    BY <2>1
  <2> QED BY <2>2
<1>4. /\ SubGroup.q = q
      /\ SubGroup.limbs = [c \in 0..(q - 1) |-> Len(Limbs(Pow(G, c)))]
  BY <1>2 DEF SubGroup
<1>5. \A c \in 0..(q - 1) : c \in 0..MaxExp /\ c % q = c
  BY <1>1, <1>2
<1>6. Pow(G, e) = Pow(G, w)
  BY <1>1, <1>2, <1>3, <1>5
<1>7. SubGroup.limbs[e] = Len(Limbs(Pow(G, w)))
  BY <1>3, <1>4, <1>6
<1>8. PICK f \in 0..(q - 1) : f = (-e) % q /\ (-f) % q = e
  BY OppositeTwice
<1>9. Pow(Inv(G), w) = Pow(G, f)
  BY <1>1, <1>2, <1>3, <1>8, PowersOfInverse
<1>10. E!Mirror(SubGroup).limbs = [c \in 0..(q - 1) |-> SubGroup.limbs[(-c) % q]]
  <2>1. E!Exponents(SubGroup) = 0..(q - 1)
    BY <1>4 DEF E!Exponents
  <2>2. "limbs" \in DOMAIN SubGroup
    BY DEF SubGroup
  <2> QED BY <1>4, <2>1, <2>2 DEF E!Mirror
<1>11. E!Mirror(SubGroup).limbs[e] = Len(Limbs(Pow(Inv(G), w)))
  <2>1. E!Mirror(SubGroup).limbs[e] = SubGroup.limbs[f]
    BY <1>8, <1>10
  <2>2. SubGroup.limbs[f] = Len(Limbs(Pow(G, f)))
    BY <1>4
  <2> QED BY <1>9, <2>1, <2>2
<1> QED BY <1>2, <1>3, <1>7, <1>11

\* The rounds before that of a value.
LEMMA EarlierRound ==
  ASSUME NEW n \in Nat \ {0}, NEW v \in Nat, NEW k \in 0..(v \div n - 1)
  PROVE  v - k * n \in 0..v /\ v % n \in 0..v
<1>1. PICK c, r \in Nat : c = v \div n /\ r = v % n /\ v = (n * c) + r
  <2>1. n \in Nat /\ n > 0
    OBVIOUS
  <2>2. v \div n \in Nat /\ v % n \in Nat /\ v = (n * (v \div n)) + (v % n)
    BY <2>1
  <2> QED BY <2>2
<1>2. PICK d \in Nat : c = k + d
  <2>1. k \in Nat /\ k <= c
    BY <1>1
  <2>2. c - k \in Nat /\ c = k + (c - k)
    BY <2>1
  <2> QED BY <2>2
<1>3. PICK p, s \in Nat : p = k * n /\ s = n * d /\ n * c = p + s
  <2>1. k \in Nat
    BY <1>1
  <2>2. k * n \in Nat /\ n * d \in Nat /\ n * (k + d) = k * n + n * d
    BY <2>1
  <2> QED BY <1>2, <2>2
<1> QED BY <1>1, <1>3

\* What the operators pass over is what the loops skip.
LEMMA PassedIs ==
  ASSUME NEW v \in 0..MaxExp, arg \in Args
  PROVE  /\ E!PassedOver(SubGroup, v, Reach(arg)) <=> Skipped(G, v)
         /\ E!PassedOver(E!Mirror(SubGroup), v, Reach(arg)) <=> Skipped(Inv(G), v)
<1>1. PICK n \in Nat \ {0} : n = Size /\ n = E!Steps(Reach(arg))
  BY StepsAre, SizeOK DEF Size
<1>2. PICK q : q = SubOrder /\ SubGroup.q = q /\ E!Mirror(SubGroup).q = q
  <2>1. SubGroup.q = SubOrder /\ DOMAIN SubGroup = {"q", "limbs"}
    BY DEF SubGroup
  <2>2. E!Mirror(SubGroup).q = SubGroup.q
    BY <2>1 DEF E!Mirror
  <2> QED BY <2>1, <2>2
<1>3. ASSUME NEW k \in 0..(v \div n - 1)
      PROVE  v - k * n \in 0..MaxExp /\ v % n \in 0..MaxExp
  <2>1. v \in Nat /\ MaxExp \in Nat
    BY PowAssumption
  <2>2. v - k * n \in 0..v /\ v % n \in 0..v
    BY <2>1, EarlierRound
  <2> QED BY <2>1, <2>2
<1>4. ASSUME NEW k \in 0..(v \div n - 1)
      PROVE  /\ SubGroup.limbs[(v - k * n) % q] = Len(Limbs(Pow(G, v - k * n)))
             /\ SubGroup.limbs[(v % n) % q] = Len(Limbs(Pow(G, v % n)))
             /\ E!Mirror(SubGroup).limbs[(v - k * n) % q] = Len(Limbs(Pow(Inv(G), v - k * n)))
             /\ E!Mirror(SubGroup).limbs[(v % n) % q] = Len(Limbs(Pow(Inv(G), v % n)))
  BY <1>2, <1>3, LengthsAre
<1>5. E!PassedOver(SubGroup, v, Reach(arg)) <=>
        \E k \in 0..(v \div n - 1) :
          SubGroup.limbs[(v - k * n) % q] > SubGroup.limbs[(v % n) % q]
  BY <1>1, <1>2 DEF E!PassedOver
<1>6. E!PassedOver(E!Mirror(SubGroup), v, Reach(arg)) <=>
        \E k \in 0..(v \div n - 1) :
          E!Mirror(SubGroup).limbs[(v - k * n) % q] > E!Mirror(SubGroup).limbs[(v % n) % q]
  BY <1>1, <1>2 DEF E!PassedOver
<1>7. \A b : Skipped(b, v) <=>
        \E k \in 0..(v \div n - 1) :
          Len(Limbs(Pow(b, v - k * n))) > Len(Limbs(Pow(b, v % n)))
  BY <1>1 DEF Skipped
<1> QED BY <1>4, <1>5, <1>6, <1>7

-----------------------------------------------------------------------------
(* What the loops meet *)

\* The sizes of a search within the subgroup.
LEMMA WithinSize ==
  ASSUME IInv, Within, pc = "giant"
  PROVE  /\ m \in Nat \ {0} /\ m = Size /\ m <= SubOrder /\ SubOrder \in Nat
         /\ arg \in Args /\ i \in Nat /\ Base \in {G, Inv(G)}
<1>1. arg \in Args /\ i \in Nat /\ m \in Nat
  BY DEF IInv, TypeOK
<1>2. m = Size /\ Sqrt(Reach(arg)) < SubOrder /\ Size = Sqrt(Reach(arg)) + 1
  BY DEF IInv, ControlInv, Within, Size
<1>3. Sqrt(Reach(arg)) \in Nat /\ SubOrder \in Nat
  BY <1>1, SizeOK, SubgroupAssumption
<1>4. Base \in {G, Inv(G)}
  BY DEF Base
<1> QED BY <1>1, <1>2, <1>3, <1>4

\* A round that finds its own residue has found the first logarithm that is not
\* skipped.
LEMMA HitMeets ==
  ASSUME IInv, IInv', Within, GiantHit, tmp' = Limbs(x)
  PROVE  FirstMet(Base, res')
<1>0. /\ pc = "giant" /\ i < m /\ tmp' = MpzSet(tmp, Limbs(x))
      /\ \E e \in Matches(tmp') : res' = i * m + e[2]
      /\ UNCHANGED <<arg, neg, m, x>> /\ pc' = "return" /\ err' = "NONE"
  BY DEF GiantHit
<1>1. /\ m \in Nat \ {0} /\ m <= SubOrder /\ SubOrder \in Nat /\ i \in Nat
      /\ Base \in {G, Inv(G)} /\ m = Size
  BY <1>0, WithinSize
<1>2. NoneMet(Base, i * m)
  BY <1>0 DEF IInv, GiantInv
<1>3. PICK j \in 0..(m - 1) : res' = i * m + j
  <2>1. PICK e \in table : res' = i * m + e[2]
    BY <1>0 DEF Matches
  <2>2. table = Table(m)
    BY <1>0 DEF IInv, GiantInv
  <2>3. PICK j \in 0..(m - 1) : e = <<Limbs(Pow(Base, j)), j>>
    BY <2>1, <2>2 DEF Table
  <2> QED BY <2>1, <2>3
<1>4. Pow(Base, res') = arg.h /\ ~Skipped(Base, res') /\ res' \in 0..(m * m - 1)
  <2>1. Base' = Base /\ tmp' = Limbs(x')
    BY <1>0 DEF Base
  <2>2. Pow(Base', res') = arg'.h /\ ~Skipped(Base, res)' /\ res' \in 0..(m' * m' - 1)
    BY <1>0, <2>1 DEF IInv, ReturnInv
  <2>3. Skipped(Base, res)' = Skipped(Base, res')
    BY <1>0, <2>1, SameCall DEF Skipped
  <2> QED BY <1>0, <2>1, <2>2, <2>3
<1>5. ASSUME NEW v \in 0..(res' - 1), Pow(Base, v) = arg.h
      PROVE  Skipped(Base, v)
  <2>1. PICK p \in Nat : p = i * m
    BY <1>1
  <2>2. CASE v < p
    <3>1. v \in 0..(i * m - 1)
      BY <2>1, <2>2
    <3> QED BY <1>2, <1>5, <3>1 DEF NoneMet
  <2>3. CASE v >= p
    <3>0. res' = p + j /\ v \in 0..(p + j - 1) /\ m \in Nat /\ j \in 0..(m - 1)
      BY <1>1, <1>3, <2>1
    <3>1. v - p \in 0..(m - 1) /\ v - p < j /\ v = i * m + (v - p)
      <4>1. v - p \in 0..(m - 1) /\ v - p < j /\ v = p + (v - p)
        BY <2>1, <2>3, <3>0
      <4> QED BY <2>1, <4>1
    <3>2. x = Pow(Base, v - p) /\ x = Pow(Base, j)
      BY <1>0, <1>3, <1>4, <1>5, <3>1, RoundLog
    <3>3. v - p \in 0..(SubOrder - 1) /\ j \in 0..(SubOrder - 1)
      BY <1>1, <3>1
    <3>4. v - p = j
      BY <1>1, <3>2, <3>3, PowersDiffer
    <3> QED BY <3>1, <3>4
  <2> QED BY <2>1, <2>2, <2>3
<1> QED BY <1>1, <1>4, <1>5 DEF FirstMet, NoneMet

\* Each step keeps what the loops have met.
LEMMA NextMeets ==
  ASSUME IInv, IInv', MetInv, [Next]_vars
  PROVE  MetInv'
<1>1. UNCHANGED arg
  BY DEF Next, vars, Call, BabyStep, BabyDone, GiantHit, GiantMiss, GiantDone, Return
<1>2. SUFFICES ASSUME Within PROVE MetInv'
  <2>1. ~Within => ~Within'
    BY <1>1, SameCall DEF Within
  <2> QED BY <2>1 DEF MetInv
<1>3. ~Refuses /\ Size' = Size
  BY <1>1, <1>2, SameCall DEF Within, Refuses
<1>4. CASE Call \/ BabyStep \/ BabyDone \/ GiantMiss
  <2>1. pc' \notin {"return", "done"}
    BY <1>3, <1>4 DEF Call, BabyStep, BabyDone, GiantMiss
  <2> QED BY <2>1 DEF MetInv
<1>5. CASE GiantHit
  <2>1. neg' = neg /\ pc' = "return" /\ x' = x
    BY <1>5 DEF GiantHit
  <2>2. tmp' = Limbs(x) => FirstMet(Base, res')
    BY <1>2, <1>5, HitMeets
  <2>3. Base' = Base
    BY <2>1 DEF Base
  <2>4. FirstMet(Base, res') => FirstMet(Base, res)'
    BY <1>1, <1>3, <2>3, SameCall DEF FirstMet, NoneMet, Skipped
  <2> QED BY <2>1, <2>2, <2>4 DEF MetInv
<1>6. CASE GiantDone
  <2>1. pc' = "return" /\ err' = "DLOG_NOT_FOUND"
    BY <1>6 DEF GiantDone, IInv, ControlInv
  <2> QED BY <2>1 DEF MetInv
<1>7. CASE Return
  <2>1. pc = "return" /\ UNCHANGED <<m, err, tmp, x>>
    BY <1>7 DEF Return
  <2>2. CASE arg.withNeg /\ ~neg /\ err # "NONE"
    <3>1. pc' = "call"
      BY <1>7, <2>2 DEF Return
    <3> QED BY <3>1 DEF MetInv
  <2>3. CASE ~(arg.withNeg /\ ~neg /\ err # "NONE")
    <3>1. /\ pc' = "done" /\ neg' = neg /\ Base' = Base
          /\ res' = IF neg /\ err = "NONE" THEN -res ELSE res
      BY <1>7, <2>3 DEF Return, Base
    <3>2. err = "NONE" => (IF neg THEN -res' ELSE res') = res
      <4>1. res \in Int
        BY DEF IInv, TypeOK
      <4> QED BY <3>1, <4>1
    <3>3. err' = "NONE" /\ ~Mistaken' => FirstMet(Base, IF neg THEN -res ELSE res)'
      <4> SUFFICES ASSUME err = "NONE", tmp = Limbs(x)
                   PROVE  FirstMet(Base, IF neg THEN -res ELSE res)'
        BY <2>1 DEF Mistaken
      <4>1. FirstMet(Base, res)
        BY <1>2, <2>1 DEF MetInv
      <4> QED BY <1>1, <1>3, <3>1, <3>2, <4>1, SameCall DEF FirstMet, NoneMet, Skipped
    <3>4. err' = "DLOG_NOT_FOUND" => NoneMet(Base, Size * Size)' /\ (arg.withNeg => neg)'
      <4> SUFFICES ASSUME err = "DLOG_NOT_FOUND"
                   PROVE  NoneMet(Base, Size * Size)' /\ (arg.withNeg => neg)'
        BY <2>1
      <4>1. NoneMet(Base, Size * Size) /\ m = Size
        BY <1>3, <2>1 DEF IInv, ReturnInv, ControlInv
      <4>2. arg.withNeg => neg
        BY <2>3
      <4> QED BY <1>1, <1>3, <3>1, <4>1, <4>2, SameCall DEF NoneMet, Skipped
    <3> QED BY <3>1, <3>3, <3>4 DEF MetInv
  <2> QED BY <2>2, <2>3
<1>8. CASE UNCHANGED vars
  <2>1. UNCHANGED <<arg, pc, neg, tmp, x, res, err>>
    BY <1>8 DEF vars
  <2> QED BY <1>2, <1>3, <2>1, SameCall DEF MetInv, FirstMet, NoneMet, Skipped, Mistaken, Base
<1> QED BY <1>4, <1>5, <1>6, <1>7, <1>8 DEF Next

-----------------------------------------------------------------------------
(* The one step *)

\* The powers of b are those of the group grp: which of them is h, and which values
\* are passed over.
IsSearchOf(grp, b, e) ==
  /\ grp.q = SubOrder
  /\ \A v \in 0..(Size * Size - 1) :
       /\ Pow(b, v) = arg.h <=> v % SubOrder = e
       /\ E!PassedOver(grp, v, Reach(arg)) <=> Skipped(b, v)

\* What one search returns in one step, by what its loops have met.
LEMMA OneSearch ==
  ASSUME arg \in Args, NEW grp, NEW b, NEW e, IsSearchOf(grp, b, e)
  PROVE  /\ \A r : FirstMet(b, r) => E!BabyGiant(grp, e, Reach(arg)) = E!Done(r)
         /\ NoneMet(b, Size * Size) =>
              E!BabyGiant(grp, e, Reach(arg)) = E!Failed("DLOG_NOT_FOUND")
<1> DEFINE met == {v \in 0..(Size * Size - 1) :
                     v % SubOrder = e /\ ~E!PassedOver(grp, v, Reach(arg))}
<1>1. E!Steps(Reach(arg)) = Size /\ grp.q = SubOrder
  BY StepsAre DEF Size, IsSearchOf
<1>2. E!BabyGiant(grp, e, Reach(arg)) =
        IF met = {} THEN E!Failed("DLOG_NOT_FOUND") ELSE E!Done(E!Min(met))
  BY <1>1 DEF E!BabyGiant
<1>3. \A v : v \in met <=> v \in 0..(Size * Size - 1) /\ Pow(b, v) = arg.h /\ ~Skipped(b, v)
  BY DEF IsSearchOf
<1> HIDE DEF met
<1>4. ASSUME NEW r, FirstMet(b, r)
      PROVE  E!BabyGiant(grp, e, Reach(arg)) = E!Done(r)
  <2>1. r \in met /\ r \in Int
    BY <1>3, <1>4 DEF FirstMet
  <2>2. ASSUME NEW v \in met PROVE r <= v
    <3>1. v \in Int /\ v >= 0
      BY <1>3
    <3>2. ~(v \in 0..(r - 1))
      BY <1>3, <1>4 DEF FirstMet, NoneMet
    <3> QED BY <2>1, <3>1, <3>2
  <2>3. E!Min(met) = r
    <3>1. E!Min(met) = CHOOSE k \in met : \A v \in met : k <= v
      BY DEF E!Min
    <3>2. \A k \in met : (\A v \in met : k <= v) => k = r
      <4> SUFFICES ASSUME NEW k \in met, \A v \in met : k <= v PROVE k = r
        OBVIOUS
      <4>1. k \in Int /\ k <= r /\ r <= k
        BY <1>3, <2>1, <2>2
      <4> QED BY <2>1, <4>1
    <3> QED BY <2>1, <2>2, <3>1, <3>2
  <2> QED BY <1>2, <2>1, <2>3
<1>5. ASSUME NoneMet(b, Size * Size) PROVE met = {}
  BY <1>3, <1>5 DEF NoneMet
<1> QED BY <1>2, <1>4, <1>5

\* What is returned is what the search returns in one step.
LEMMA OneStep ==
  ASSUME IInv, MetInv
  PROVE  MatchesExpGroup
<1> SUFFICES ASSUME pc = "done", ~Mistaken, InSubgroup, Within
             PROVE  LET r == IF arg.withNeg THEN E!BabyGiantWithNeg(SubGroup, LogOfH, Reach(arg))
                                            ELSE E!BabyGiant(SubGroup, LogOfH, Reach(arg))
                    IN err = r.err /\ (err = "NONE" => res = r.res)
  BY DEF MatchesExpGroup
<1>1. /\ arg \in Args /\ neg \in BOOLEAN /\ (neg => arg.withNeg) /\ res \in Int
      /\ err \in {"NONE", "DLOG_NOT_FOUND", "DLOG_CALC_FAILED"}
  BY DEF IInv, TypeOK
<1>2. Size * Size \in Nat /\ Size * Size <= MaxExp /\ MaxExp \in Nat
  BY CallSize DEF IInv
<1>3. /\ err # "DLOG_CALC_FAILED" /\ (neg => NoneMet(G, Size * Size))
      /\ err = "NONE" => FirstMet(Base, IF neg THEN -res ELSE res)
      /\ err = "DLOG_NOT_FOUND" => NoneMet(Base, Size * Size) /\ (arg.withNeg => neg)
  <2>1. ~Refuses
    BY DEF Within, Refuses
  <2> QED BY <2>1 DEF MetInv, IInv, NegInv, DoneInv
<1>4. PICK e \in 0..(SubOrder - 1) : e = LogOfH /\ Pow(G, e) = arg.h
  BY DEF InSubgroup, LogOfH
<1> DEFINE f == (-e) % SubOrder
           first == E!BabyGiant(SubGroup, e, Reach(arg))
           second == E!BabyGiant(E!Mirror(SubGroup), f, Reach(arg))
<1>5. SubOrder \in Nat \ {0} /\ e \in 0..MaxExp /\ e % SubOrder = e
  BY SubgroupAssumption, <1>2
<1>6. IsSearchOf(SubGroup, G, e) /\ IsSearchOf(E!Mirror(SubGroup), Inv(G), f)
  <2>1. SubGroup.q = SubOrder /\ E!Mirror(SubGroup).q = SubOrder
    <3>1. SubGroup.q = SubOrder /\ DOMAIN SubGroup = {"q", "limbs"}
      BY DEF SubGroup
    <3> QED BY <3>1 DEF E!Mirror
  <2>2. ASSUME NEW v \in 0..(Size * Size - 1)
        PROVE  /\ Pow(G, v) = arg.h <=> v % SubOrder = e
               /\ Pow(Inv(G), v) = arg.h <=> v % SubOrder = f
               /\ E!PassedOver(SubGroup, v, Reach(arg)) <=> Skipped(G, v)
               /\ E!PassedOver(E!Mirror(SubGroup), v, Reach(arg)) <=> Skipped(Inv(G), v)
    <3>1. v \in 0..MaxExp
      BY <1>2
    <3>2. Pow(G, v) = Pow(G, e) <=> v % SubOrder = e % SubOrder
      BY <1>5, <3>1, SubgroupAssumption
    <3>3. Pow(Inv(G), v) = Pow(G, e) <=> v % SubOrder = f
      BY <1>5, <3>1, SubgroupAssumption, PowersOfInverse
    <3>4. /\ E!PassedOver(SubGroup, v, Reach(arg)) <=> Skipped(G, v)
          /\ E!PassedOver(E!Mirror(SubGroup), v, Reach(arg)) <=> Skipped(Inv(G), v)
      BY <1>1, <3>1, PassedIs
    <3> QED BY <1>4, <1>5, <3>2, <3>3, <3>4
  <2> HIDE DEF f
  <2> QED BY <2>1, <2>2 DEF IsSearchOf
<1>7. /\ \A r : FirstMet(G, r) => first = E!Done(r)
      /\ NoneMet(G, Size * Size) => first = E!Failed("DLOG_NOT_FOUND")
  BY <1>1, <1>6, OneSearch
<1>8. /\ \A r : FirstMet(Inv(G), r) => second = E!Done(r)
      /\ NoneMet(Inv(G), Size * Size) => second = E!Failed("DLOG_NOT_FOUND")
  BY <1>1, <1>6, OneSearch
<1>9. /\ E!BabyGiant(SubGroup, LogOfH, Reach(arg)) = first
      /\ E!BabyGiantWithNeg(SubGroup, LogOfH, Reach(arg)) =
           IF first.err = "NONE" THEN first ELSE [second EXCEPT !.res = -@]
  <2>1. SubGroup.q = SubOrder
    BY DEF SubGroup
  <2> QED BY <1>4, <2>1 DEF E!BabyGiantWithNeg
<1> HIDE DEF first, second, f
<1>10. CASE ~neg
  <2>1. Base = G
    BY <1>10 DEF Base
  <2>2. CASE err = "NONE"
    <3>1. first = E!Done(res)
      BY <1>3, <1>7, <1>10, <2>1, <2>2
    <3>2. first.err = "NONE" /\ first.res = res
      BY <3>1 DEF E!Done
    <3> QED BY <1>9, <2>2, <3>2
  <2>3. CASE err # "NONE"
    <3>1. first = E!Failed("DLOG_NOT_FOUND") /\ ~arg.withNeg
      BY <1>1, <1>3, <1>7, <1>10, <2>1, <2>3
    <3>2. first.err = "DLOG_NOT_FOUND"
      BY <3>1 DEF E!Failed
    <3> QED BY <1>1, <1>3, <1>9, <2>3, <3>1, <3>2
  <2> QED BY <2>2, <2>3
<1>11. CASE neg
  <2>1. Base = Inv(G) /\ arg.withNeg
    BY <1>1, <1>11 DEF Base
  <2>2. first = E!Failed("DLOG_NOT_FOUND")
    BY <1>3, <1>7, <1>11
  <2>3. E!BabyGiantWithNeg(SubGroup, LogOfH, Reach(arg)) = [second EXCEPT !.res = -@]
    BY <1>9, <2>2 DEF E!Failed
  <2>4. CASE err = "NONE"
    <3>1. second = E!Done(-res)
      BY <1>3, <1>8, <1>11, <2>1, <2>4
    <3>2. second = [err |-> "NONE", res |-> -res]
      BY <3>1 DEF E!Done
    <3>3. [second EXCEPT !.res = -@] = [err |-> "NONE", res |-> -(-res)]
      BY <3>2
    <3>4. -(-res) = res
      BY <1>1
    <3> QED BY <2>1, <2>3, <2>4, <3>3, <3>4
  <2>5. CASE err # "NONE"
    <3>1. second = E!Failed("DLOG_NOT_FOUND")
      BY <1>1, <1>3, <1>8, <1>11, <2>1, <2>5
    <3>2. second = [err |-> "DLOG_NOT_FOUND", res |-> 0]
      BY <3>1 DEF E!Failed
    <3>3. [second EXCEPT !.res = -@].err = "DLOG_NOT_FOUND"
      BY <3>2
    <3> QED BY <1>1, <1>3, <2>1, <2>3, <2>5, <3>3
  <2> QED BY <2>4, <2>5
<1> QED BY <1>1, <1>10, <1>11

\* Before a call nothing has been met.
LEMMA InitMeets == Init => MetInv
BY DEF Init, MetInv

\* Whatever the lengths of the residues, the loops of dlog.c (30-129) end with the
\* outcome that the schemes' operators give in one step, unless the last lookup
\* matched another residue.
THEOREM MatchesOneStep == Spec => []MatchesExpGroup
<1>1. IInv /\ IInv' /\ MetInv /\ [Next]_vars => MetInv'
  BY NextMeets
<1>2. IInv /\ MetInv => MatchesExpGroup
  BY OneStep
<1> QED BY InitMeets, <1>1, <1>2, Invariance, PTL DEF Spec
=============================================================================
