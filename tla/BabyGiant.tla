----------------------------- MODULE BabyGiant -----------------------------
(***************************************************************************)
(* The baby-step giant-step search for discrete logarithms of              *)
(* src/internal/dlog.c: cfe_baby_giant and cfe_baby_giant_with_neg.  Every *)
(* decryption of the inner-product schemes over Z_p ends in this search.   *)
(*                                                                         *)
(* One step of the model is one iteration of a loop.  The group is a       *)
(* parameter with the laws of Z_p*; the hash table is keyed, as in the     *)
(* code, by the limbs of a number and not by the number.                   *)
(***************************************************************************)
EXTENDS FiniteGroup

CONSTANTS
  Limbs(_),          \* the limbs of a reduced residue, least significant first
  POrder,            \* p - 1
  Orders, Bounds,    \* the orders and bounds callers pass
  Null               \* the NULL a caller may pass for either

ASSUME ArgAssumption ==
  /\ Bounds \subseteq Nat /\ Orders \subseteq Nat /\ POrder \in Nat
  /\ Null \notin Nat
  /\ \A n \in Bounds \cup Orders \cup {POrder} :
       /\ Sqrt(n) \in Nat
       /\ Sqrt(n) * Sqrt(n) <= n /\ n < (Sqrt(n) + 1) * (Sqrt(n) + 1)
       /\ (Sqrt(n) + 1) * (Sqrt(n) + 1) <= MaxExp

ASSUME LimbAssumption ==
  \A a, b \in Grp :
    /\ Limbs(a) \in Seq(Nat) /\ Len(Limbs(a)) > 0
    /\ Limbs(a) = Limbs(b) => a = b

VARIABLES
  arg,      \* the call: h, order, bound, is p a prime, and which function
  pc,       \* where the code is
  neg,      \* is this the second search of _with_neg, for the inverse base?
  m,        \* the number of steps of each loop
  i,        \* the loop counter
  x,        \* the running residue of either loop
  table,    \* the hash table: <<limbs of the key, value>>
  tmp,      \* the limbs allocated to tmp; mpz_set never shrinks them
  res, err  \* the result and the error code

vars == <<arg, pc, neg, m, i, x, table, tmp, res, err>>

\* "prime" is what mpz_probab_prime_p says of p: the units of a composite modulus
\* are a group as well (those modulo 46 the same one as those modulo 23).
Args == [h : Grp, order : Orders \cup {Null}, bound : Bounds \cup {Null},
         prime : BOOLEAN, withNeg : BOOLEAN]

\* The base of the current search.
Base == IF neg THEN Inv(G) ELSE G

\* The giant step: z = g^-m.
Z == Pow(Inv(Base), m)

\* The order of the group as the function takes it.
OrderOf(a) == IF a.order = Null THEN POrder ELSE a.order

\* The number whose square root sizes the loops.
Reach(a) == IF a.bound = Null THEN OrderOf(a) ELSE a.bound

\* The entry refuses to take p - 1 for the order when p is not a prime.
Refuses == arg.order = Null /\ ~arg.prime

\* The number of iterations of each loop.
Size == Sqrt(Reach(arg)) + 1

\* mpz_set(tmp, y): the memory grows when it must, the limbs beyond those of y
\* keep what they held.
MpzSet(buf, y) ==
  [k \in 1..(IF Len(buf) > Len(y) THEN Len(buf) ELSE Len(y)) |->
     IF k <= Len(y) THEN y[k] ELSE buf[k]]

Init ==
  /\ arg \in Args
  /\ pc = "call" /\ neg = FALSE
  /\ m = 0 /\ i = 0 /\ x = One /\ table = {} /\ tmp = <<>>
  /\ res = 0 /\ err = "NONE"

\* Mutant of Call: the square root is not increased by one.
CallNotRoundedUp ==
  /\ pc = "call"
  /\ IF Refuses
     THEN /\ pc' = "return" /\ err' = "DLOG_CALC_FAILED"
          /\ UNCHANGED <<m, i, x, table, tmp>>
     ELSE /\ pc' = "baby" /\ err' = "DLOG_NOT_FOUND"
          /\ m' = Sqrt(Reach(arg))
          /\ i' = 0 /\ x' = One /\ table' = {} /\ tmp' = <<>>
  /\ UNCHANGED <<arg, neg, res>>

\* The entry of cfe_baby_giant: refuse a composite modulus, or size the loops.
Call ==
  /\ pc = "call"
  /\ IF Refuses
     THEN /\ pc' = "return" /\ err' = "DLOG_CALC_FAILED"
          /\ UNCHANGED <<m, i, x, table, tmp>>
     ELSE /\ pc' = "baby" /\ err' = "DLOG_NOT_FOUND"
          /\ m' = Size
          /\ i' = 0 /\ x' = One /\ table' = {} /\ tmp' = <<>>
  /\ UNCHANGED <<arg, neg, res>>

\* Mutant of BabyStep: one iteration too many.
BabyStepTooMany ==
  /\ pc = "baby" /\ i <= m
  /\ table' = table \cup {<<Limbs(x), i>>}
  /\ x' = Mul(x, Base) /\ i' = i + 1
  /\ UNCHANGED <<arg, pc, neg, m, tmp, res, err>>

\* One iteration of the first loop: T[x] = i.
BabyStep ==
  /\ pc = "baby" /\ i < m
  /\ table' = table \cup {<<Limbs(x), i>>}
  /\ x' = Mul(x, Base) /\ i' = i + 1
  /\ UNCHANGED <<arg, pc, neg, m, tmp, res, err>>

\* Mutant of BabyDone: the first giant step is taken before the first lookup.
BabyDoneLate ==
  /\ pc = "baby" /\ i >= m
  /\ pc' = "giant" /\ x' = Mul(arg.h, Z) /\ i' = 0
  /\ UNCHANGED <<arg, neg, m, table, tmp, res, err>>

\* Between the loops: x = h.
BabyDone ==
  /\ pc = "baby" /\ i >= m
  /\ pc' = "giant" /\ x' = arg.h /\ i' = 0
  /\ UNCHANGED <<arg, neg, m, table, tmp, res, err>>

\* The entries HASH_FIND may return; uthash keeps duplicates.
Matches(buf) == {e \in table : e[1] = buf}

\* An iteration of the second loop that finds its residue in the table.
GiantHit ==
  /\ pc = "giant" /\ i < m
  /\ tmp' = MpzSet(tmp, Limbs(x))
  /\ \E e \in Matches(tmp') : res' = i * m + e[2]
  /\ err' = "NONE" /\ pc' = "return"
  /\ UNCHANGED <<arg, neg, m, i, x, table>>

\* Mutant of GiantMiss: the loop counter does not advance.
GiantMissStuck ==
  /\ pc = "giant" /\ i < m
  /\ tmp' = MpzSet(tmp, Limbs(x))
  /\ Matches(tmp') = {}
  /\ x' = Mul(x, Z)
  /\ UNCHANGED <<arg, pc, neg, m, i, table, res, err>>

\* An iteration of the second loop that does not.
GiantMiss ==
  /\ pc = "giant" /\ i < m
  /\ tmp' = MpzSet(tmp, Limbs(x))
  /\ Matches(tmp') = {}
  /\ x' = Mul(x, Z) /\ i' = i + 1
  /\ UNCHANGED <<arg, pc, neg, m, table, res, err>>

\* The second loop ends without a match.
GiantDone ==
  /\ pc = "giant" /\ i >= m
  /\ pc' = "return"
  /\ UNCHANGED <<arg, neg, m, i, x, table, tmp, res, err>>

\* Mutant of Return: what the second search finds is not negated.
ReturnUnsigned ==
  /\ pc = "return"
  /\ IF arg.withNeg /\ ~neg /\ err # "NONE"
     THEN pc' = "call" /\ neg' = TRUE
     ELSE pc' = "done" /\ UNCHANGED neg
  /\ UNCHANGED <<arg, m, i, x, table, tmp, res, err>>

\* cfe_baby_giant returns; _with_neg searches once more, for the inverse of the
\* base, when the first search failed, and negates what that search finds.
Return ==
  /\ pc = "return"
  /\ IF arg.withNeg /\ ~neg /\ err # "NONE"
     THEN pc' = "call" /\ neg' = TRUE /\ UNCHANGED res
     ELSE /\ pc' = "done" /\ UNCHANGED neg
          /\ res' = IF neg /\ err = "NONE" THEN -res ELSE res
  /\ UNCHANGED <<arg, m, i, x, table, tmp, err>>

Next ==
  \/ Call \/ BabyStep \/ BabyDone
  \/ GiantHit \/ GiantMiss \/ GiantDone
  \/ Return

\* The search runs on the caller's thread, so an enabled step is taken.
Spec == Init /\ [][Next]_vars /\ WF_vars(Next)

-----------------------------------------------------------------------------
(* Correctness *)

\* The types of the variables (the locals of cfe_baby_giant).
TypeOK ==
  /\ arg \in Args
  /\ pc \in {"call", "baby", "giant", "return", "done"}
  /\ neg \in BOOLEAN /\ (neg => arg.withNeg)
  /\ m \in Nat /\ m * m <= MaxExp /\ i \in 0..m
  /\ x \in Grp
  /\ \A e \in table : \E a \in Grp, j \in 0..m : e = <<Limbs(a), j>>
  /\ tmp \in Seq(Nat)
  /\ res \in Int
  /\ err \in {"NONE", "DLOG_NOT_FOUND", "DLOG_CALC_FAILED"}

\* Does the integer v solve G^v = h?
Solves(v) == IF v >= 0 THEN Pow(G, v) = arg.h ELSE Pow(Inv(G), -v) = arg.h

\* The values that the call must find: up to the bound, and for _with_neg down
\* to its opposite.
Required == (IF arg.withNeg THEN -Reach(arg) ELSE 0)..Reach(arg)

\* The second loop meets v, a logarithm of h to the base b, in the round v \div Size.
\* It is skipped when a residue of an earlier round has more limbs than that of its
\* own: the bytes looked up then end in limbs of the earlier one.
Skipped(b, v) ==
  \E k \in 0..(v \div Size - 1) :
    Len(Limbs(Pow(b, v - k * Size))) > Len(Limbs(Pow(b, v % Size)))

\* The search in whose direction v lies skips it.
Overlooked(v) == IF v >= 0 THEN Skipped(G, v) ELSE Skipped(Inv(G), -v)

\* The last lookup has matched the limbs of another residue than x.
Mistaken == err = "NONE" /\ tmp # Limbs(x)

\* The values that a call reaches: below the square of the number of iterations.
Reached == (IF arg.withNeg THEN 1 - Size * Size ELSE 0)..(Size * Size - 1)

Over == pc = "done" /\ ~Mistaken

DL == INSTANCE DiscreteLog WITH
        solutions <- {v \in Reached : Solves(v)},
        required <- {v \in Required : ~Overlooked(v)},
        mayRefuse <- Refuses,
        status <- IF Over THEN err ELSE "running",
        answer <- IF Over THEN res ELSE 0

\* The loops of dlog.c (30-129) end with a logarithm of h among the values they
\* reach, or find none up to the bound but those that they skip for their limbs,
\* unless the last lookup is mistaken: for every length of the residues.
SearchesRange == DL!Spec

\* What is returned lies within the bound of the caller, as dlog.h:38-41 and
\* 57-61 say of the two functions.
WithinBound ==
  pc = "done" /\ err = "NONE" /\ arg.bound # Null
    => -arg.bound <= res /\ res <= arg.bound

\* The first giant step compares h itself, in freshly set memory: whatever the
\* number of limbs, a logarithm below m is found, and it is a logarithm.
SmallFound ==
  (pc = "done" /\ \E j \in 0..(Size - 1) : Pow(G, j) = arg.h)
    => \/ err = "NONE" /\ ~neg /\ Pow(G, res) = arg.h
       \/ err = "DLOG_CALC_FAILED"

-----------------------------------------------------------------------------
(* The inductive invariant: what each loop has established so far *)

\* What the first n iterations of the first loop put into the table.
Table(n) == {<<Limbs(Pow(Base, j)), j>> : j \in 0..(n - 1)}

\* No exponent below n is a logarithm of h to the base b.
NoLog(b, n) == \A v \in 0..(n - 1) : Pow(b, v) # arg.h

\* The logarithms of h below n are skipped.
NoneMet(b, n) == \A v \in 0..(n - 1) : Pow(b, v) = arg.h => Skipped(b, v)

\* The residue of round k.
Residue(k) == Mul(arg.h, Pow(Inv(Base), k * m))

\* The table and x during the first loop.
BabyInv ==
  pc = "baby" => x = Pow(Base, i) /\ table = Table(i) /\ tmp = <<>>

\* The second loop divides h by the giant steps taken, and tmp is as long as the
\* longest residue met. A round that misses has none of its m exponents for a
\* logarithm but those that are skipped: in the first round none is.
GiantInv ==
  pc = "giant" =>
    /\ table = Table(m)
    /\ Mul(x, Pow(Base, i * m)) = arg.h
    /\ i = 0 => tmp = <<>>
    /\ i > 0 => \E k \in 0..(i - 1) : Len(tmp) = Len(Limbs(Residue(k)))
    /\ \A k \in 0..(i - 1) : Len(Limbs(Residue(k))) <= Len(tmp)
    /\ i > 0 => NoLog(Base, m)
    /\ NoneMet(Base, i * m)

\* What a search that has returned has established.
ReturnInv ==
  pc = "return" =>
    /\ err = "NONE" =>
         /\ res \in 0..(m * m - 1) /\ m > 0
         /\ tmp = Limbs(x) => Pow(Base, res) = arg.h /\ ~Skipped(Base, res)
         /\ NoLog(Base, m) \/ (tmp = Limbs(x) /\ Pow(Base, res) = arg.h)
    /\ err = "DLOG_NOT_FOUND" => NoLog(Base, m) /\ NoneMet(Base, m * m)

\* The second search runs only after the first has failed.
NegInv ==
  neg => Refuses \/ (NoLog(G, Size) /\ NoneMet(G, Size * Size))

\* The size of the loops, and the errors that each place can report.
ControlInv ==
  /\ pc \in {"baby", "giant"} =>
       /\ m = Size /\ err = "DLOG_NOT_FOUND"
       /\ ~Refuses
  /\ pc = "return" =>
       IF Refuses
       THEN err = "DLOG_CALC_FAILED"
       ELSE m = Size /\ err # "DLOG_CALC_FAILED"

\* What the caller reads when the call is over.
DoneInv ==
  pc = "done" =>
    /\ err = "NONE" =>
         /\ res \in Reached
         /\ ~Mistaken => Solves(res)
    /\ err = "DLOG_NOT_FOUND" =>
         \A v \in Required : Solves(v) => Overlooked(v)
    /\ err = "DLOG_CALC_FAILED" => Refuses
    /\ SmallFound

IInv ==
  /\ TypeOK /\ BabyInv /\ GiantInv /\ ReturnInv /\ NegInv /\ ControlInv
  /\ DoneInv

-----------------------------------------------------------------------------
(* What does not hold of every modulus *)

\* Each lookup finds the residue when the table holds it, which is what the
\* comment over the lookup says of the bytes that are compared (dlog.c:82-84).
LookupFinds ==
  [][GiantMiss => \A e \in table : e[1] # Limbs(x)]_vars
=============================================================================
