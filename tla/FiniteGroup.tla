---------------------------- MODULE FiniteGroup ----------------------------
(***************************************************************************)
(* The commutative group that a discrete logarithm is searched in: Z_p* as *)
(* GMP computes in it, or the target group of the pairing as AMCL does.    *)
(* The searches use nothing of it beyond the laws stated here.             *)
(***************************************************************************)
EXTENDS Integers, Sequences

CONSTANTS
  Grp, One, Mul(_, _), Inv(_), Pow(_, _),
  G,         \* the base of the logarithm
  MaxExp,    \* the exponents for which the laws of Pow are stated
  Sqrt(_)    \* mpz_sqrt: the integer square root

ASSUME GroupAssumption ==
  /\ One \in Grp /\ G \in Grp
  /\ \A a, b \in Grp : Mul(a, b) \in Grp /\ Mul(a, b) = Mul(b, a)
  /\ \A a, b, c \in Grp : Mul(Mul(a, b), c) = Mul(a, Mul(b, c))
  /\ \A a \in Grp : Mul(a, One) = a /\ Inv(a) \in Grp

ASSUME PowAssumption ==
  /\ MaxExp \in Nat
  /\ \A a \in Grp :
       /\ Pow(a, 0) = One /\ Pow(a, 1) = a
       /\ \A n \in 0..MaxExp : Pow(a, n) \in Grp
  /\ \A a \in Grp : \A n, k \in 0..MaxExp :
       n + k <= MaxExp => Pow(a, n + k) = Mul(Pow(a, n), Pow(a, k))
  /\ \A a \in Grp : \A n \in 0..MaxExp : Mul(Pow(Inv(a), n), Pow(a, n)) = One
=============================================================================
