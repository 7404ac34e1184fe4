--------------------------- MODULE MCBabyGiantGT ---------------------------
(***************************************************************************)
(* Instances of both searches for logarithms: a call of BabyGiant, or of   *)
(* BabyGiantGT in a group of its own, while the other one waits.           *)
(***************************************************************************)
EXTENDS MCBabyGiant

CONSTANTS
  Searches,     \* which searches are called: "Zp", "GT"
  GTPrime,      \* the numbers modulo this prime stand for the target group
  GTBase, GTOrder,
  HashSize      \* the number of hash values (2^32 on a real machine)

VARIABLES
  turn,                                                       \* which search is called
  h, bound, at, size, round, y, yneg, stored, found, code     \* the variables of BabyGiantGT

GTGrp == 1..(GTPrime - 1)
GTMul(a, b) == (a * b) % GTPrime
GTInvOf == InverseTable(GTPrime)
GTInv(a) == GTInvOf[a]
GTPowOf == PowerTable(GTPrime)
GTPow(a, n) == GTPowOf[a][n]
GTHash(a) == a % HashSize

T == INSTANCE BabyGiantGT WITH
       Grp <- GTGrp, One <- 1, Mul <- GTMul, Inv <- GTInv, Pow <- GTPow, G <- GTBase,
       HashOf <- GTHash, GroupOrder <- GTOrder,
       pc <- at, m <- size, i <- round, x <- y, xneg <- yneg, table <- stored,
       res <- found, err <- code

\* The laws of the second group, and the bounds of its searches.
ASSUME GTAssumption ==
  "GT" \in Searches =>
    T!GroupAssumption /\ T!PowAssumption /\ T!Cyclic /\ \A n \in Bounds : T!IsBound(n)

-----------------------------------------------------------------------------
InZp == turn = "Zp"
gtVars == <<h, bound, at, size, round, y, yneg, stored, found, code>>
all == <<vars, turn, gtVars>>

\* The search that is not called waits with its first arguments.
OneInit ==
  /\ turn \in Searches
  /\ IF InZp THEN h = 1 /\ bound = CHOOSE n \in Bounds : TRUE
     ELSE arg = [h |-> One, order |-> Null, bound |-> Null, prime |-> TRUE, withNeg |-> FALSE]
  /\ Init /\ T!Init

OneNext ==
  \/ InZp /\ Next /\ UNCHANGED <<turn, gtVars>>
  \/ ~InZp /\ T!Next /\ UNCHANGED <<turn, vars>>

OneSpec == OneInit /\ [][OneNext]_all /\ WF_all(OneNext)

\* The types of the locals of cfe_baby_giant_FP12_BN256_with_neg.
TypeOKGT == T!TypeOK

\* The search in the target group ends with a logarithm among the values that it
\* reaches, or none lies within the bound, unless hash values disturb it
\* (dlog.c:222-318).
SearchesRangeGT == T!SearchesRange

\* It ends as the schemes' one-step operator says (dlog.c:222-318).
MatchesSearchGT == T!MatchesSearchGT

\* Elements of other hash values hide no logarithm within the bound, also in calls
\* that they disturb (dlog.c:270-303).
NeverMissed == T!NeverMissed

\* "The function returns x, where h = g^x in the group" (dlog.h:82-84): whatever is
\* found is a logarithm.
Sound == T!Sound

\* "It searches for a solution <= bound", or for one "(-bound, bound)", and an error
\* says that none was found "within the provided bound" (dlog.h:38-41, 57-61, 89-91).
WithinBounds == WithinBound /\ T!WithinBound

\* All the loops are bounded, so that the call returns (dlog.c:62-97, 248-303).
Returns == <>(IF InZp THEN pc = "done" ELSE at = "done")
=============================================================================
