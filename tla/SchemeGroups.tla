---------------------------- MODULE SchemeGroups ----------------------------
(***************************************************************************)
(* The groups that the schemes compute in, and their searches for logarithms *)
(* in one step.                                                            *)
(***************************************************************************)
EXTENDS Vectors

(***************************************************************************)
(* The cyclic groups that the inner-product schemes over Z_p compute in,   *)
(* and their search for logarithms in one step.  Every element they handle *)
(* is a power of the generator g, of prime order q with p = 2q + 1         *)
(* (src/internal/keygen.c), so an element is written as its exponent       *)
(* modulo q: a product of elements is a sum here and a power is a product. *)
(*                                                                         *)
(* A group is a record: q, and how many limbs (machine words) the element  *)
(* of each exponent has.                                                   *)
(***************************************************************************)

\* In place of a group, when none is found: the code that a set-up then returns.
NoGroup(err) == [q |-> 0, err |-> err]

Modulus(grp) == 2 * grp.q + 1
Exponents(grp) == 0..(grp.q - 1)

\* The number of baby steps, and of giant steps, of a search up to a bound.
Steps(bound) == ISqrt(bound) + 1

\* A value the second loop of the search passes over: its residue has fewer limbs
\* than that of an earlier round, and is compared together with stale ones.
PassedOver(grp, v, bound) ==
  LET n == Steps(bound)
  IN \E k \in 0..(v \div n - 1) :
       grp.limbs[(v - k * n) % grp.q] > grp.limbs[(v % n) % grp.q]

\* The group as powers of the inverse of g.
Mirror(grp) ==
  [q |-> grp.q, limbs |-> [e \in Exponents(grp) |-> grp.limbs[(-e) % grp.q]]]

\* The search in whose direction v lies passes it over.
Overlooked(grp, v, bound) ==
  IF v >= 0 THEN PassedOver(grp, v, bound) ELSE PassedOver(Mirror(grp), -v, bound)

\* cfe_baby_giant for the element of exponent e: the loops meet the values below
\* the square of the number of steps in increasing order.
BabyGiant(grp, e, bound) ==
  LET met == {v \in 0..(Steps(bound) * Steps(bound) - 1) :
                v % grp.q = e /\ ~PassedOver(grp, v, bound)}
  IN IF met = {} THEN Failed("DLOG_NOT_FOUND") ELSE Done(Min(met))

\* cfe_baby_giant_with_neg: the inverse base is the second chance.
BabyGiantWithNeg(grp, e, bound) ==
  LET first == BabyGiant(grp, e, bound)
      second == BabyGiant(Mirror(grp), (-e) % grp.q, bound)
  IN IF first.err = "NONE" THEN first ELSE [second EXCEPT !.res = -@]

\* The bounds for which neither search can take a value for another one: a value
\* v and v - q are never both met.
Unambiguous(grp, bound) == Steps(bound) * Steps(bound) + bound <= grp.q

-----------------------------------------------------------------------------
(***************************************************************************)
(* The groups of the pairing that the schemes over BN254 compute in.  All  *)
(* of them have the same prime order q (CURVE_Order_BN254), so an element  *)
(* of any of them is written as its exponent modulo q; the pairing         *)
(* multiplies exponents.  The library AMCL behind it is not part of this   *)
(* repository.                                                             *)
(***************************************************************************)

\* BIG_256_56_from_mpz for a negative number: its absolute value is taken limb by
\* limb, which adds wrap (2^225) to it.
BigFromMpz(v, wrap) == IF v >= 0 THEN v ELSE v + wrap

\* The size of the loops of a search up to a bound, and the largest value that it
\* meets.
Size(bound) == ISqrt(bound) + 1
Farthest(bound) == Size(bound) * Size(bound) + Size(bound)

\* The round of the second loop in which the search meets the value v.
Round(v, bound) ==
  LET a == IF v >= 0 THEN v ELSE -v
  IN IF a = 0 THEN 0 ELSE (a - 1) \div Size(bound)

\* cfe_baby_giant_FP12_BN256_with_neg for the element of exponent e: values are
\* met in rounds, the positive ones of a round before the negative ones.
SearchGT(q, e, bound) ==
  LET met == {v \in (-Farthest(bound))..Farthest(bound) : v % q = e}
      first == {v \in met : \A w \in met : Round(v, bound) <= Round(w, bound)}
      preferred == IF \E v \in first : v >= 0 THEN {v \in first : v >= 0} ELSE first
  IN IF e = 0 THEN Done(0)
     ELSE IF met = {} THEN Failed("DLOG_NOT_FOUND")
     ELSE Done(CHOOSE v \in preferred : TRUE)

\* The bounds for which no two values that the search meets are the same element.
UnambiguousGT(q, bound) == 2 * Farthest(bound) < q
=============================================================================
