--------------------------- MODULE NormalSamplers ---------------------------
(***************************************************************************)
(* The samplers of discrete Gaussian numbers (src/sample/normal*.c), loop  *)
(* by loop.  The deviation is such that exp(-x / (2 sigma^2)) is 2^-(x u)  *)
(* for a natural number u, the unit: every exponential that the code       *)
(* approximates with n bits is then a power of two, and is written as its  *)
(* exponent.                                                               *)
(*                                                                         *)
(* A sampler is a record with its kind and                                 *)
(*   cumulative  n, unit, cut, two_sided                                   *)
(*   negative    n, unit, cut                                              *)
(*   double      n, unit, k: the deviation divided by that of the first    *)
(*               sampler, cut of the first sampler, top: cut of the        *)
(*               numbers that are sampled; k is 0 if it is not whole       *)
(*   constant    k, table, frac and len: bits that the Bernoulli trial     *)
(*               compares with a mantissa, and with an exponent            *)
(*   cdt         table                                                     *)
(* where a table has pairs of words of Word bits, the low word first.      *)
(***************************************************************************)
EXTENDS Integers, Sequences, FiniteSetsExt, Functions
LOCAL INSTANCE TLC

CONSTANTS
  Samplers,     \* the samplers that are run
  Word          \* the bits of a word in the tables

WordAssumption ==
  /\ Word \in Nat /\ Word > 1
  /\ \A s \in Samplers : "table" \in DOMAIN s =>
       \A i \in DOMAIN s.table : s.table[i] \in (0..(2^(Word - 1) - 1)) \X (0..(2^(Word - 1) - 1))

VARIABLES
  pc,        \* "idle", "draw", "done", or "refused" if it could not be initialised
  s,         \* the sampler that is called
  res        \* <<v>> for the number v that it returns, and <<>> before

vars == <<pc, s, res>>

Rejected == <<>>
Accepted(v) == <<v>>
Bits(v) == CHOOSE b \in 1..(v + 1) : v < 2^b /\ (b = 1 \/ v >= 2^(b - 1))

\* For the number u / 2^n and the power 2^-e: which of them is greater.
Above(n, u, e) == IF e < n THEN u * 2^e > 2^n ELSE u > 1 \/ (u = 1 /\ e > n)
Below(n, u, e) == IF e <= n THEN u * 2^e < 2^n ELSE u = 0

\* cfe_normal_precomp_exp for numbers up to top: the exponentials of the powers of two.
PreExp(n, unit, top) == [i \in 0..(2 * Bits(top)) |-> 2^i * unit]

\* Mutant of IsExpGreater: the lower bound starts one power too high.
IsExpGreaterHigh(n, pre, u, x) ==
  ~Below(n, u, pre[Bits(x) - 1] - pre[0]) /\ Above(n, u, x * pre[0])

\* cfe_normal_is_exp_greater: an upper and a lower bound of the exponential of x
\* approach each other, from the highest bit of x to the lowest: a 1 moves the upper
\* bound down, a 0 the lower bound up.
IsExpGreater(n, pre, u, x) ==
  LET m == Bits(x)
      Bit(i) == (x \div 2^i) % 2
      Sum(b, i) == MapThenSumSet(LAMBDA j : pre[j], {j \in i..(m - 1) : Bit(j) = b})
      IsLower(i) == Bit(i) = 0 /\ Below(n, u, pre[m] - pre[0] - Sum(0, i))
      IsGreater(i) == Bit(i) = 1 /\ Above(n, u, Sum(1, i))
  IN /\ ~Below(n, u, pre[m] - pre[0])
     /\ \E i \in 0..(m - 1) : IsGreater(i) /\ ~\E j \in (i + 1)..(m - 1) : IsLower(j)

-----------------------------------------------------------------------------
\* cfe_normal_cumulative_precompute: how many samples lie below a number.
Cumulative(n, unit, cut, two_sided) ==
  [i \in 0..cut |-> SumFunction([j \in 0..(i - 1) |->
     2^n \div 2^(j * j * unit + (IF j = 0 /\ two_sided THEN 1 ELSE 0))])]

\* cfe_locate_int: binary search.
LocateInt(sample, table) ==
  LET n == Cardinality(DOMAIN table)
      locate[p \in (0..n) \X (0..n)] ==
        LET middle == (p[1] + p[2]) \div 2
        IN IF p[2] - p[1] = 1 THEN p[1]
           ELSE IF sample < table[middle] THEN locate[<<p[1], middle>>] ELSE locate[<<middle, p[2]>>]
  IN locate[<<0, n>>]

\* cfe_normal_cumulative_sample.
CumulativeSample(table, two_sided, sample) ==
  LET top == table[Cardinality(DOMAIN table) - 1]
  IN IF two_sided /\ sample >= top THEN -LocateInt(sample - top, table) ELSE LocateInt(sample, table)

\* The cut of the tables is exclusive: cut + 1 entries, of which the first is 0.
Table(t) ==
  IF t.kind = "double" THEN Cumulative(t.n, t.unit * t.k * t.k, t.cut, FALSE)
  ELSE Cumulative(t.n, t.unit, t.cut, t.two_sided)
SampleSize(t) == t.table[t.cut] * (IF t.kind = "cumulative" /\ t.two_sided THEN 2 ELSE 1)

\* cfe_normal_double_init returns CFE_ERR_PRECONDITION_FAILED, and prepares nothing.
Refused(t) == t.kind = "double" /\ t.k = 0

\* The init functions: what a sampler computes once, and keeps.
Initialised(t) ==
  CASE t.kind = "cumulative" -> t @@ [table |-> Table(t)]
    [] Refused(t) -> t
    [] t.kind = "negative" -> t @@ [pre_exp |-> PreExp(t.n, t.unit, t.cut)]
    [] t.kind = "double" -> t @@ [table |-> Table(t), pre_exp |-> PreExp(t.n, t.unit, t.top)]
    [] OTHER -> t

\* cfe_normal_negative_sample: one round.
NegativeRound(t, d) ==
  LET v == d.v - t.cut
  IN IF IsExpGreater(t.n, t.pre_exp, d.u, v * v) THEN Rejected ELSE Accepted(v)

\* The sign that a number below 2 k gives, what is left of it, and the number that
\* decides whether k x + y is accepted.
SignOf(k, y) == IF y >= k THEN -1 ELSE 1
Rest(k, y) == IF y >= k THEN y - k ELSE y
CheckVal(k, x, y) == y * (2 * k * x + y)

\* Mutant of DoubleRound: 0 is always returned.
DoubleRoundZero(t, d) ==
  LET x == CumulativeSample(t.table, FALSE, d.sample)
      y == Rest(t.k, d.y)
  IN IF IsExpGreater(t.n, t.pre_exp, d.u, CheckVal(t.k, x, y)) THEN Rejected
     ELSE Accepted(SignOf(t.k, d.y) * (t.k * x + y))

\* cfe_normal_double_sample: one round.
DoubleRound(t, d) ==
  LET x == CumulativeSample(t.table, FALSE, d.sample)
      y == Rest(t.k, d.y)
      v == SignOf(t.k, d.y) * (t.k * x + y)
  IN IF IsExpGreater(t.n, t.pre_exp, d.u, CheckVal(t.k, x, y)) \/ (v = 0 /\ ~d.bit)
     THEN Rejected ELSE Accepted(v)

\* The top bit of a word.
Top(v) == v % 2^Word >= 2^(Word - 1)

\* cfe_normal_cdt_sample: the entries that exceed two random words, found by the top
\* bits of differences.
CdtSample(table, r) ==
  LET Less(e) == \/ Top(r[2] - e[2])
                 \/ Top(r[1] - e[1]) /\ ~(Top(r[2] - e[2]) \/ Top(e[2] - r[2]))
  IN Cardinality({i \in DOMAIN table : Less(table[i])})

\* -floor(-t / k^2), and how far cfe_bernoulli shifts 1 to compare it with a random
\* number of len bits.
NegFloor(t, k) == (t + k * k - 1) \div (k * k)
Shift(len, t, k) == len + 1 - NegFloor(t, k)

\* 2^z of the number z that is left, with frac bits of which the first is 1.
Mantissa(frac, t, k) ==
  CHOOSE m \in 2^(frac - 1)..(2^frac - 1) :
    LET power == 2^((frac - 1) * k * k + NegFloor(t, k) * k * k - t)
    IN m^(k * k) <= power /\ (m = 2^frac - 1 \/ (m + 1)^(k * k) > power)

\* cfe_bernoulli: a power of exactly 1 is accepted at once.
Bernoulli(sampler, t, r1, r2) ==
  \/ t % (sampler.k * sampler.k) = 0
  \/ /\ r1 < Mantissa(sampler.frac, t, sampler.k)
     /\ r2 < 2^Shift(sampler.len, t, sampler.k)

\* cfe_normal_double_constant_sample: one round.  With the sign +, 0 is not accepted.
ConstantRound(t, d) ==
  LET x == CdtSample(t.table, d.r)
      y == Rest(t.k, d.y)
      sign == SignOf(t.k, d.y)
  IN IF Bernoulli(t, CheckVal(t.k, x, y), d.r1, d.r2) /\ ~(t.k * x + y = 0 /\ sign = 1)
     THEN Accepted(sign * (t.k * x + y)) ELSE Rejected

-----------------------------------------------------------------------------
Words == (0..(2^(Word - 1) - 1)) \X (0..(2^(Word - 1) - 1))

\* What a round of a sampler may draw, and what it makes of it.
Draws(t) ==
  CASE t.kind = "cumulative" -> [sample : 0..(SampleSize(t) - 1)]
    [] t.kind = "negative" -> [v : 0..(2 * t.cut), u : 0..(2^t.n - 1)]
    [] t.kind = "double" -> [sample : 0..(SampleSize(t) - 1), y : 0..(2 * t.k - 1),
                             u : 0..(2^t.n - 1), bit : BOOLEAN]
    [] t.kind = "constant" -> [r : Words, y : 0..(2 * t.k - 1), r1 : 0..(2^t.frac - 1),
                               r2 : 0..(2^t.len - 1)]
    [] t.kind = "cdt" -> [r : Words]
Outcome(t, d) ==
  CASE t.kind = "cumulative" -> Accepted(CumulativeSample(t.table, t.two_sided, d.sample))
    [] t.kind = "negative" -> NegativeRound(t, d)
    [] t.kind = "double" -> DoubleRound(t, d)
    [] t.kind = "constant" -> ConstantRound(t, d)
    [] t.kind = "cdt" -> Accepted(CdtSample(t.table, d.r))
Outcomes(t) == {Outcome(t, d) : d \in Draws(t)}

Init ==
  /\ \E t \in Samplers : s = Initialised(t) /\ pc = IF Refused(t) THEN "refused" ELSE "idle"
  /\ res = Rejected

Call == pc = "idle" /\ pc' = "draw" /\ UNCHANGED <<s, res>>

\* Rounds that are rejected are followed by another one.
Round(outcome) ==
  /\ pc = "draw"
  /\ res' = outcome
  /\ pc' = IF res' = Rejected THEN "draw" ELSE "done"
  /\ UNCHANGED s

Return == pc = "done" /\ pc' = "idle" /\ res' = Rejected /\ UNCHANGED s

Next == Call \/ (pc = "draw" /\ \E outcome \in Outcomes(s) : Round(outcome)) \/ Return

\* Random bytes do not forever avoid what is accepted.
Lucky == pc = "draw" /\ \E d \in Draws(s) : Outcome(s, d) # Rejected /\ Round(Outcome(s, d))

Fairness == SF_vars(Lucky)

Spec == Init /\ [][Next]_vars /\ Fairness

-----------------------------------------------------------------------------
\* The largest number that a sampler may return, and the smallest.
Largest(t) ==
  CASE t.kind = "cumulative" -> t.cut - 1
    [] t.kind = "negative" -> t.cut
    [] t.kind = "double" -> t.k * t.cut - 1
    [] t.kind = "constant" -> t.k * (Len(t.table) + 1) - 1
    [] t.kind = "cdt" -> Len(t.table)
Smallest(t) ==
  IF t.kind = "cdt" \/ (t.kind = "cumulative" /\ ~t.two_sided) THEN 0 ELSE -Largest(t)

\* The types of the variables: what is returned lies within the cut of the sampler.
TypeOK ==
  /\ pc \in {"idle", "draw", "done", "refused"}
  /\ \E t \in Samplers : DOMAIN t \subseteq DOMAIN s /\ \A f \in DOMAIN t : s[f] = t[f]
  /\ IF pc = "done" THEN res # Rejected /\ res[1] \in Smallest(s)..Largest(s) ELSE res = Rejected

\* cfe_normal_is_exp_greater finds an exponential for every power of two that it asks
\* for, and decides what its comment says (normal.c:80-82), for each number that the
\* rounds of a sampler give to it.
Asked ==
  CASE s.kind = "negative" -> {(v - s.cut) * (v - s.cut) : v \in 0..(2 * s.cut)}
    [] s.kind = "double" -> {CheckVal(s.k, x, Rest(s.k, y)) : x \in 0..(s.cut - 1), y \in 0..(2 * s.k - 1)}
    [] OTHER -> {}
ExpDecided ==
  pc = "draw" => \A x \in Asked :
    /\ Bits(x) \in DOMAIN s.pre_exp
    /\ \A u \in 0..(2^s.n - 1) : IsExpGreater(s.n, s.pre_exp, u, x) = Above(s.n, u, x * s.unit)

\* The trial of cfe_bernoulli never shifts by a negative number, which has no meaning in
\* C, because the numbers of the table are small enough (normal.c:254), and accepts
\* without a look at its bits only what has probability 1 (normal.c:256).
TrialDefined ==
  pc = "draw" /\ s.kind = "constant" =>
    \A x \in 0..Len(s.table), y \in 0..(2 * s.k - 1) :
      LET t == CheckVal(s.k, x, Rest(s.k, y))
      IN Shift(s.len, t, s.k) >= 0 /\ (t % (s.k * s.k) = 0 => t = 0)

\* As many draws return a number as its negative, for the samplers of two sides, and 0,
\* which has both signs, does not get twice its share: the draws that have it as a
\* magnitude with either sign are rejected in half of the cases (normal_double.c:103,
\* normal_double_constant.c:74, normal_cumulative.c:94).
Symmetric ==
  LET outcomes == {<<d, Outcome(s, d)>> : d \in Draws(s)}
      Count(v) == Cardinality({o \in outcomes : o[2] = Accepted(v)})
      Single == CASE s.kind = "cumulative" -> 2^s.n
                  [] s.kind = "negative" -> 2^s.n
                  [] s.kind = "double" -> 2 * s.table[1] * 2^s.n
                  [] s.kind = "constant" ->
                       Cardinality({r \in Words : CdtSample(s.table, r) = 0}) * 2^(s.frac + s.len)
  IN pc = "draw" /\ s.kind # "cdt" /\ (s.kind = "cumulative" => s.two_sided) =>
       /\ Count(0) = Single
       /\ \A v \in 1..Largest(s) : Count(v) = Count(-v)

\* A table gives every number the draws between two of its entries, in the order of
\* pairs of words (normal_cdt.c:53-55, normal_cumulative.c:111-124).
TableRead ==
  /\ s.kind = "cdt" /\ pc = "draw" =>
       LET LessPair(r, e) == r[2] < e[2] \/ (r[2] = e[2] /\ r[1] < e[1])
       IN \A r \in Words : CdtSample(s.table, r)
                             = Cardinality({i \in DOMAIN s.table : LessPair(r, s.table[i])})
  /\ s.kind \in {"cumulative", "double"} /\ pc = "draw" =>
       \A v \in 0..(s.cut - 1), sample \in 0..(s.table[s.cut] - 1) :
         LocateInt(sample, s.table) = v <=> sample \in s.table[v]..(s.table[v + 1] - 1)

\* A sampler that is called returns.
Returns == pc = "draw" ~> pc = "done"
=============================================================================
