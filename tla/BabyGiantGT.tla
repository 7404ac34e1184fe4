---------------------------- MODULE BabyGiantGT ----------------------------
(***************************************************************************)
(* The search for discrete logarithms in the target group of the pairing   *)
(* (cfe_baby_giant_FP12_BN256_with_neg of src/internal/dlog.c).  The       *)
(* pairing-based schemes, DMCFE, FHIPE and SGP, decrypt with it.           *)
(*                                                                         *)
(* It looks for a positive and a negative logarithm in the same loop, and  *)
(* keys its hash table by a pointer to one buffer, which it overwrites:    *)
(* when uthash compares keys it compares the buffer with itself, so an     *)
(* entry matches as soon as the hash values do.                            *)
(***************************************************************************)
EXTENDS FiniteGroup

CONSTANTS
  HashOf(_),   \* the hash value (32 bits) of the octets of an element
  Bounds,      \* the bounds that callers pass
  GroupOrder   \* the order of the group (CURVE_Order_BN254)

\* A bound with its square root, whose search stays within the laws of the group.
IsBound(n) ==
  /\ n \in Nat /\ Sqrt(n) \in Nat
  /\ Sqrt(n) * Sqrt(n) <= n /\ n < (Sqrt(n) + 1) * (Sqrt(n) + 1)
  /\ (Sqrt(n) + 2) * (Sqrt(n) + 2) <= MaxExp

VARIABLES
  h, bound,   \* the arguments of the call
  pc,         \* where the code is
  m,          \* both loops count from 0 to m
  i,          \* the loop counter
  x, xneg,    \* the running elements: h and its inverse, divided by g^(i*m)
  table,      \* the hash table: <<hash value, value>>
  res, err    \* the result and the error code

vars == <<h, bound, pc, m, i, x, xneg, table, res, err>>

\* The giant step: z = g^-m.
Z == Pow(Inv(G), m)

\* Both loops run from 0 to Size.
Size == Sqrt(bound) + 1

Init ==
  /\ h \in Grp /\ bound \in Bounds /\ IsBound(bound)
  /\ pc = "call" /\ m = 0 /\ i = 0 /\ x = One /\ xneg = One /\ table = {}
  /\ res = 0 /\ err = "NONE"

\* Mutant of Call: the square root is not increased by one.
CallNotRoundedUp ==
  /\ pc = "call"
  /\ IF h = One
     THEN pc' = "done" /\ UNCHANGED <<m, err>>
     ELSE pc' = "baby" /\ m' = Sqrt(bound) /\ err' = "DLOG_NOT_FOUND"
  /\ UNCHANGED <<h, bound, i, x, xneg, table, res>>

\* The entry: the neutral element needs no search.
Call ==
  /\ pc = "call"
  /\ IF h = One
     THEN pc' = "done" /\ UNCHANGED <<m, err>>
     ELSE pc' = "baby" /\ m' = Size /\ err' = "DLOG_NOT_FOUND"
  /\ UNCHANGED <<h, bound, i, x, xneg, table, res>>

\* Mutant of BabyStep: one iteration too many.
BabyStepTooMany ==
  /\ pc = "baby" /\ i <= m + 1
  /\ table' = table \cup {<<HashOf(x), i>>}
  /\ x' = Mul(x, G) /\ i' = i + 1
  /\ UNCHANGED <<h, bound, pc, m, xneg, res, err>>

\* One iteration of the first loop: T[x] = i.
BabyStep ==
  /\ pc = "baby" /\ i <= m
  /\ table' = table \cup {<<HashOf(x), i>>}
  /\ x' = Mul(x, G) /\ i' = i + 1
  /\ UNCHANGED <<h, bound, pc, m, xneg, res, err>>

\* Between the loops: x = h and x_neg = h^-1.
BabyDone ==
  /\ pc = "baby" /\ i > m
  /\ pc' = "giant" /\ x' = h /\ xneg' = Inv(h) /\ i' = 0
  /\ UNCHANGED <<h, bound, m, table, res, err>>

\* The entries HASH_FIND may return for an element.
Matches(y) == {e \in table : e[1] = HashOf(y)}

\* An iteration of the second loop that finds a positive logarithm.
GiantHitPos ==
  /\ pc = "giant" /\ i <= m
  /\ \E e \in Matches(x) : res' = i * m + e[2]
  /\ err' = "NONE" /\ pc' = "done"
  /\ UNCHANGED <<h, bound, m, i, x, xneg, table>>

\* Mutant of GiantHitNeg: the value is not negated.
GiantHitNegUnsigned ==
  /\ pc = "giant" /\ i <= m
  /\ Matches(x) = {}
  /\ \E e \in Matches(xneg) : res' = i * m + e[2]
  /\ x' = Mul(x, Z) /\ err' = "NONE" /\ pc' = "done"
  /\ UNCHANGED <<h, bound, m, i, xneg, table>>

\* An iteration of the second loop that finds a negative one.
GiantHitNeg ==
  /\ pc = "giant" /\ i <= m
  /\ Matches(x) = {}
  /\ \E e \in Matches(xneg) : res' = -(i * m + e[2])
  /\ x' = Mul(x, Z) /\ err' = "NONE" /\ pc' = "done"
  /\ UNCHANGED <<h, bound, m, i, xneg, table>>

\* Mutant of GiantMiss: the loop goes on without looking up the inverse.
GiantMissOneSided ==
  /\ pc = "giant" /\ i <= m
  /\ Matches(x) = {}
  /\ x' = Mul(x, Z) /\ xneg' = Mul(xneg, Z) /\ i' = i + 1
  /\ UNCHANGED <<h, bound, pc, m, table, res, err>>

\* An iteration of the second loop that finds neither.
GiantMiss ==
  /\ pc = "giant" /\ i <= m
  /\ Matches(x) = {} /\ Matches(xneg) = {}
  /\ x' = Mul(x, Z) /\ xneg' = Mul(xneg, Z) /\ i' = i + 1
  /\ UNCHANGED <<h, bound, pc, m, table, res, err>>

\* The second loop ends without a match.
GiantDone ==
  /\ pc = "giant" /\ i > m
  /\ pc' = "done"
  /\ UNCHANGED <<h, bound, m, i, x, xneg, table, res, err>>

Next ==
  \/ Call \/ BabyStep \/ BabyDone
  \/ GiantHitPos \/ GiantHitNeg \/ GiantMiss \/ GiantDone

\* The search runs on the caller's thread, so an enabled step is taken.
Spec == Init /\ [][Next]_vars /\ WF_vars(Next)

-----------------------------------------------------------------------------
(* Correctness *)

\* The types of the variables (the locals of the function).
TypeOK ==
  /\ h \in Grp /\ bound \in Bounds /\ IsBound(bound)
  /\ pc \in {"call", "baby", "giant", "done"}
  /\ m \in Nat /\ (m + 1) * (m + 1) <= MaxExp /\ i \in 0..(m + 1)
  /\ x \in Grp /\ xneg \in Grp
  /\ \A e \in table : \E a \in Grp, j \in 0..m : e = <<HashOf(a), j>>
  /\ res \in Int
  /\ err \in {"NONE", "DLOG_NOT_FOUND"}

\* Does the integer v solve G^v = h?
Solves(v) == IF v >= 0 THEN Pow(G, v) = h ELSE Pow(Inv(G), -v) = h

\* The elements that the rounds look up: h and its inverse, divided by giant steps.
Lookups == {y \in Grp : \E k \in 0..Size : Mul(y, Pow(G, k * Size)) \in {h, Inv(h)}}

\* An element that is looked up has the hash value of another one in the table.
Disturbed ==
  \E y \in Lookups, j \in 0..Size : HashOf(y) = HashOf(Pow(G, j)) /\ y # Pow(G, j)

\* The values that the rounds reach.
Farthest == Size * Size + Size
Reached == (-Farthest)..Farthest

Over == pc = "done" /\ ~Disturbed

DL == INSTANCE DiscreteLog WITH
        solutions <- {v \in Reached : Solves(v)},
        required <- (-bound)..bound,
        mayRefuse <- FALSE,
        status <- IF Over THEN err ELSE "running",
        answer <- IF Over THEN res ELSE 0

\* The loops of dlog.c (222-318) end with a logarithm of h among the values they
\* reach, or find that none lies from -bound to bound, in every call whose lookups
\* meet no hash value of another element.
SearchesRange == DL!Spec

\* What is returned lies within the bound of the caller (dlog.h:89-91).
WithinBound == pc = "done" /\ err = "NONE" => -bound <= res /\ res <= bound

\* "The function returns x, where h = g^x" (dlog.h): a value returned without an
\* error is a logarithm.
Sound == pc = "done" /\ err = "NONE" => Solves(res)

\* Whatever the hash values, a logarithm within the bound is never reported as
\* not found: collisions make the search of dlog.c:270-303 answer early, never miss.
NeverMissed ==
  pc = "done" /\ err = "DLOG_NOT_FOUND" => \A v \in (-bound)..bound : ~Solves(v)

-----------------------------------------------------------------------------
(* The search as the schemes over the pairing are modelled with it *)

S == INSTANCE SchemeGroups

\* The base generates the group, whose order is a constant.
Cyclic ==
  /\ GroupOrder \in Nat \ {0} /\ GroupOrder <= MaxExp
  /\ \A n, k \in 0..MaxExp : Pow(G, n) = Pow(G, k) <=> n % GroupOrder = k % GroupOrder
  /\ \A a \in Grp : \E e \in 0..(GroupOrder - 1) : Pow(G, e) = a

LogOfH == CHOOSE e \in 0..(GroupOrder - 1) : Pow(G, e) = h

\* Whatever the element and the bound, the loops end with the outcome that SearchGT
\* gives in one step (dlog.c:222-318), in every call whose lookups meet no hash value
\* of another element.
MatchesSearchGT ==
  pc = "done" /\ ~Disturbed /\ S!UnambiguousGT(GroupOrder, bound) =>
    LET r == S!SearchGT(GroupOrder, LogOfH, bound)
    IN err = r.err /\ (err = "NONE" => res = r.res)

-----------------------------------------------------------------------------
(* The inductive invariant: what each loop has established so far *)

\* What the first n iterations of the first loop put into the table.
Table(n) == {<<HashOf(Pow(G, j)), j>> : j \in 0..(n - 1)}

\* No exponent below n is a logarithm of y.
NoLog(y, n) == \A v \in 0..(n - 1) : Pow(G, v) # y

\* The entry finds the locals as they are set up.
CallInv ==
  pc = "call" => i = 0 /\ x = One /\ table = {} /\ res = 0 /\ err = "NONE"

\* The table and x during the first loop.
BabyInv == pc = "baby" => x = Pow(G, i) /\ table = Table(i)

\* The second loop divides h and its inverse by the giant steps taken; each round
\* that misses excludes its exponents for both, whatever the hash values.
GiantInv ==
  pc = "giant" =>
    /\ table = Table(m + 1)
    /\ Mul(x, Pow(G, i * m)) = h /\ Mul(xneg, Pow(G, i * m)) = Inv(h)
    /\ NoLog(h, i * m) /\ NoLog(Inv(h), i * m)

\* The size of the loops, and the error that is pending.
ControlInv ==
  pc \in {"baby", "giant"} => m = Size /\ err = "DLOG_NOT_FOUND"

\* What the caller reads when the call is over.
DoneInv ==
  pc = "done" =>
    /\ err = "NONE" => res \in Reached /\ (~Disturbed => Solves(res))
    /\ NeverMissed

IInv == TypeOK /\ CallInv /\ BabyInv /\ GiantInv /\ ControlInv /\ DoneInv

\* What the loops have met: the last round ends with the farthest value.
MetInv ==
  /\ pc \in {"baby", "giant"} => h # One
  /\ pc = "giant" => NoLog(h, i * m + 1) /\ NoLog(Inv(h), i * m + 1)
  /\ pc = "done" =>
       IF h = One THEN err = "NONE" /\ res = 0
       ELSE err = "DLOG_NOT_FOUND" => NoLog(h, Farthest + 1) /\ NoLog(Inv(h), Farthest + 1)
=============================================================================
