\* The loops of either search reach values beyond the bound of the caller.
CONSTANTS
  Prime = 11
  LimbBase = 11
  Grp <- MCGrp
  One = 1
  Mul <- MCMul
  Inv <- MCInv
  Pow <- MCPow
  G = 4
  MaxExp = 16
  Sqrt <- MCSqrt
  Limbs <- MCLimbs
  POrder <- MCPOrder
  Orders = {5}
  Bounds = {1, 2, 3, 4}
  Null = Null
  Searches = {"Zp", "GT"}
  GTPrime = 11
  GTBase = 2
  GTOrder = 10
  HashSize = 11
SPECIFICATION OneSpec
INVARIANTS WithinBounds
CHECK_DEADLOCK FALSE
