\* Z_p: residues of one and of two limbs, the shape of every p beyond a machine word;
\* callers pass the order or NULL, and bounds around the order of the group, 0 and NULL
\* among them.  The target group: some elements share a hash value.
CONSTANTS
  Prime = 23
  LimbBase = 5
  Grp <- MCGrp
  One = 1
  Mul <- MCMul
  Inv <- MCInv
  Pow <- MCPow
  G = 4
  MaxExp = 64
  Sqrt <- MCSqrt
  Limbs <- MCLimbs
  POrder <- MCPOrder
  Orders = {11}
  Bounds = {0, 1, 2, 3, 4, 5, 8, 9, 16, 25, 40}
  Null = Null
  Searches = {"Zp", "GT"}
  GTPrime = 53
  GTBase = 2
  GTOrder = 52
  HashSize = 47
SPECIFICATION OneSpec
INVARIANTS TypeOK TypeOKGT SmallFound MatchesExpGroup MatchesSearchGT NeverMissed
PROPERTIES SearchesRange SearchesRangeGT Returns
CHECK_DEADLOCK FALSE
