---------------------------- MODULE MCBabyGiant ----------------------------
(* Instances of BabyGiant: a safe prime Prime and the generator G of its subgroup *)
(* of prime order, as cfe_elgamal_init chooses them.                          *)
EXTENDS BabyGiant, MCGroup

CONSTANT LimbBase

MCPOrder == Prime - 1

\* The limbs of a residue are its digits in base LimbBase (2^64 on a real machine).
MCLimbs(a) == IF a < LimbBase THEN <<a>> ELSE <<a % LimbBase, a \div LimbBase>>

-----------------------------------------------------------------------------
\* The search as the schemes are modelled with it (ExpGroup).
SubOrder == (Prime - 1) \div 2
SubGroup == [q |-> SubOrder, limbs |-> [e \in 0..(SubOrder - 1) |-> Len(Limbs(Pow(G, e)))]]

E == INSTANCE SchemeGroups

\* The generator has the order of the subgroup (keygen.c:38-59).
ASSUME SubgroupAssumption ==
  /\ SubOrder \in Nat \ {0} /\ SubOrder <= MaxExp
  /\ \A n, k \in 0..MaxExp : Pow(G, n) = Pow(G, k) <=> n % SubOrder = k % SubOrder

\* The exponent of h, for an h that the generator generates.
LogOfH == CHOOSE e \in 0..(SubOrder - 1) : Pow(G, e) = arg.h
InSubgroup == \E e \in 0..(SubOrder - 1) : Pow(G, e) = arg.h

\* The searches that do not go round the subgroup.
Within == arg.order # Null /\ Sqrt(Reach(arg)) < SubOrder

\* Whatever the limbs and the bound, the loops end with the outcome that the
\* schemes' operators give in one step (dlog.c:30-129), unless the last lookup has
\* matched another residue for the limbs left in the memory that it compares.
MatchesExpGroup ==
  pc = "done" /\ ~Mistaken /\ InSubgroup /\ Within =>
    LET r == IF arg.withNeg THEN E!BabyGiantWithNeg(SubGroup, LogOfH, Reach(arg))
                            ELSE E!BabyGiant(SubGroup, LogOfH, Reach(arg))
    IN err = r.err /\ (err = "NONE" => res = r.res)

-----------------------------------------------------------------------------
(* What the loops have met so far *)

\* The first logarithm that is not skipped.
FirstMet(b, v) ==
  /\ v \in 0..(Size * Size - 1) /\ Pow(b, v) = arg.h /\ ~Skipped(b, v)
  /\ NoneMet(b, v)

MetInv ==
  Within =>
    /\ pc = "return" /\ err = "NONE" /\ tmp = Limbs(x) => FirstMet(Base, res)
    /\ pc = "done" =>
         /\ err = "NONE" /\ ~Mistaken => FirstMet(Base, IF neg THEN -res ELSE res)
         /\ err = "DLOG_NOT_FOUND" => NoneMet(Base, Size * Size) /\ (arg.withNeg => neg)
=============================================================================
