\* Residues have one or two limbs: the shape of every p beyond a machine word.
\* With it the search keeps only what SmallFound says.
CONSTANTS
  Prime = 11
  LimbBase = 4
  Grp <- MCGrp
  One = 1
  Mul <- MCMul
  Inv <- MCInv
  Pow <- MCPow
  G = 4
  MaxExp = 49
  Sqrt <- MCSqrt
  Limbs <- MCLimbs
  POrder <- MCPOrder
  Orders = {5}
  Bounds = {0, 1, 2, 3, 4, 9, 40}
  Null = Null
SPECIFICATION Spec
PROPERTIES LookupFinds
CHECK_DEADLOCK FALSE
