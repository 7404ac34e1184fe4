----------------------------- MODULE PollardRho -----------------------------
(***************************************************************************)
(* Pollard's rho search for discrete logarithms (cfe_pollard_rho of        *)
(* src/internal/dlog.c): two walks through the group, one twice as fast,   *)
(* until they meet; then the logarithm is solved for.                      *)
(***************************************************************************)
EXTENDS FiniteGroup

CONSTANTS
  Order,        \* n, the order of G
  Part(_),      \* which of the three rules of a walk an element takes: its remainder modulo 3
  Iterations,   \* the limit of the walk: 2^32
  Gcd(_, _), Invert(_, _)    \* mpz_gcd and mpz_invert

ASSUME RhoAssumption ==
  /\ Order \in Nat \ {0} /\ Iterations \in Nat
  /\ 2 * Order <= MaxExp /\ Order * Order <= MaxExp
  /\ Pow(G, Order) = One
  /\ \A a \in Grp : Part(a) \in 0..2
  /\ \A a \in Grp : \A n, k \in 0..Order : Pow(Pow(a, n), k) = Pow(a, n * k)

\* The base has no lower order.
ASSUME OrderAssumption == \A k \in 1..(Order - 1) : Pow(G, k) # One

\* What GMP computes for a nonzero remainder r modulo n: the greatest of the common
\* divisors, and the inverse when there is one.
CommonDivisors(r, n) == {c \in 1..n : r % c = 0 /\ n % c = 0}
ASSUME GmpAssumption ==
  \A n \in 1..Order : \A r \in 1..(n - 1) :
    /\ Gcd(r, n) \in CommonDivisors(r, n) /\ \A c \in CommonDivisors(r, n) : c <= Gcd(r, n)
    /\ Gcd(r, n) = 1 => Invert(r, n) \in 0..(n - 1) /\ (Invert(r, n) * r) % n = 1

VARIABLES
  h,           \* the element whose logarithm is searched
  pc,          \* "walk", "met", "try" or "done"
  i,           \* the iterations
  slow, fast,  \* the walks: elements x with exponents a and b
  q, d, j,     \* the solution that is tried, how many there are, the number of the next
  res, err

vars == <<h, pc, i, slow, fast, q, d, j, res, err>>

Walks == [x : Grp, a : 0..(Order - 1), b : 0..(Order - 1)]

\* Mutant of Iterate: the exponents are not reduced.
IterateUnreduced(w) ==
  LET k == Part(w.x) IN
  IF k = 0 THEN [x |-> Mul(w.x, w.x), a |-> 2 * w.a, b |-> 2 * w.b]
  ELSE IF k = 1 THEN [w EXCEPT !.x = Mul(w.x, G), !.a = w.a + 1]
  ELSE [w EXCEPT !.x = Mul(w.x, h), !.b = w.b + 1]

\* Mutant of Iterate: the second exponent is not doubled.
IterateOnce(w) ==
  LET k == Part(w.x) IN
  IF k = 0 THEN [x |-> Mul(w.x, w.x), a |-> (2 * w.a) % Order, b |-> w.b]
  ELSE IF k = 1 THEN [w EXCEPT !.x = Mul(w.x, G), !.a = (w.a + 1) % Order]
  ELSE [w EXCEPT !.x = Mul(w.x, h), !.b = (w.b + 1) % Order]

Iterate(w) ==
  LET k == Part(w.x) IN
  IF k = 0 THEN [x |-> Mul(w.x, w.x), a |-> (2 * w.a) % Order, b |-> (2 * w.b) % Order]
  ELSE IF k = 1 THEN [w EXCEPT !.x = Mul(w.x, G), !.a = (w.a + 1) % Order]
  ELSE [w EXCEPT !.x = Mul(w.x, h), !.b = (w.b + 1) % Order]

Init ==
  /\ h \in Grp /\ pc = "walk" /\ i = 0
  /\ slow = [x |-> One, a |-> 0, b |-> 0] /\ fast = slow
  /\ q = 0 /\ d = 1 /\ j = 0 /\ res = 0 /\ err = "NONE"

\* The goto to the cleanup with the error that was set at the start.
NotFound == pc' = "done" /\ err' = "DLOG_NOT_FOUND" /\ UNCHANGED res

Answer(v) == pc' = "done" /\ res' = v /\ UNCHANGED err

Step ==
  /\ pc = "walk" /\ i < Iterations
  /\ i' = i + 1 /\ slow' = Iterate(slow) /\ fast' = Iterate(Iterate(fast))
  /\ pc' = IF slow'.x = fast'.x THEN "met" ELSE "walk"
  /\ UNCHANGED <<h, q, d, j, res, err>>

Exhausted ==
  /\ pc = "walk" /\ i = Iterations
  /\ NotFound
  /\ UNCHANGED <<h, i, slow, fast, q, d, j>>

\* g^t = h^r
R == (fast.b - slow.b) % Order
T == (slow.a - fast.a) % Order

\* Mutant of Meet: whether r can be inverted is not looked at.
MeetCoprime ==
  /\ pc = "met"
  /\ IF R = 0 THEN NotFound ELSE Answer((Invert(R, Order) * T) % Order)
  /\ UNCHANGED <<h, i, slow, fast, q, d, j>>

\* Mutant of Meet: the order of the exponents of the generator is swapped.
MeetSwapped ==
  /\ pc = "met" /\ R # 0
  /\ LET t == (fast.a - slow.a) % Order
         e == Gcd(R, Order)
         n == Order \div e
     IN q' = (Invert(R \div e, n) * (t \div e)) % n /\ d' = e /\ j' = 0 /\ pc' = "try"
  /\ UNCHANGED <<h, i, slow, fast, res, err>>

\* The walks have met.
Meet ==
  /\ pc = "met"
  /\ LET e == Gcd(R, Order)
         n == Order \div e
     IN \/ R = 0 /\ NotFound /\ UNCHANGED <<q, d, j>>
        \/ R # 0 /\ e = 1 /\ Answer((Invert(R, Order) * T) % Order) /\ UNCHANGED <<q, d, j>>
        \/ /\ R # 0 /\ e > 1
           /\ q' = (Invert(R \div e, n) * (T \div e)) % n /\ d' = e /\ j' = 0
           /\ pc' = "try" /\ UNCHANGED <<res, err>>
  /\ UNCHANGED <<h, i, slow, fast>>

\* One of the d solutions is tried.
Try ==
  /\ pc = "try" /\ j < d
  /\ IF h = Pow(G, q) THEN Answer(q) /\ UNCHANGED <<q, j>>
     ELSE q' = q + Order \div d /\ j' = j + 1 /\ UNCHANGED <<pc, res, err>>
  /\ UNCHANGED <<h, i, slow, fast, d>>

\* None was the logarithm: the walks go on.
GoOn == pc = "try" /\ j = d /\ pc' = "walk" /\ UNCHANGED <<h, i, slow, fast, q, d, j, res, err>>

Next == Step \/ Exhausted \/ Meet \/ Try \/ GoOn

Spec == Init /\ [][Next]_vars /\ WF_vars(Next)

-----------------------------------------------------------------------------
\* The types of the variables; an answer is below the order.
TypeOK ==
  /\ h \in Grp /\ pc \in {"walk", "met", "try", "done"} /\ i \in 0..Iterations
  /\ slow \in Walks /\ fast \in Walks
  /\ q \in Nat /\ d \in 1..Order /\ j \in 0..d /\ res \in 0..(Order - 1)
  /\ err \in {"NONE", "DLOG_NOT_FOUND"}

\* h is a power of the base.
InSubgroup == \E e \in 0..(Order - 1) : Pow(G, e) = h

Represents(w) == w.x = Mul(Pow(G, w.a), Pow(h, w.b))

\* The exponents, which are reduced modulo the order in each step, still say what the
\* element of a walk is (dlog.c:131-150).
Represented == InSubgroup => Represents(slow) /\ Represents(fast)

\* The answer is a logarithm of h (dlog.h:75), also when the order is not a prime and the
\* equation has several solutions (dlog.c:193-210).
Sound == pc = "done" /\ err = "NONE" /\ InSubgroup => Pow(G, res) = h

\* A logarithm that exists is missed only when the equation says nothing of it, or the
\* walks had no time to meet: one of the solutions that are tried is it
\* (dlog.c:201-210).
Answered ==
  InSubgroup =>
    /\ pc = "try" => j < d
    /\ pc = "done" /\ err # "NONE" => R = 0 \/ i = Iterations

\* The search returns.
Termination == <>(pc = "done")

-----------------------------------------------------------------------------
(* The inductive invariant *)

\* The walks are at the same element when their exponents are compared.
MetInv == pc = "met" => slow.x = fast.x

\* The solutions that are tried lie between 0 and the order.
TryInv ==
  pc = "try" => (Order \div d) * d = Order /\ Order \div d \in Nat /\ q < (j + 1) * (Order \div d)

IInv == TypeOK /\ Represented /\ MetInv /\ TryInv /\ Sound

\* One of the solutions that are still to be tried is the logarithm, and the search gives
\* up only when the equation says nothing or its time is over.
CandidateInv ==
  /\ pc = "try" /\ InSubgroup =>
       \E l \in 0..(d - 1 - j) : Pow(G, q + l * (Order \div d)) = h
  /\ err # "NONE" => pc = "done" /\ (R = 0 \/ i = Iterations)
=============================================================================
