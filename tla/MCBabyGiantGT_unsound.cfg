\* The target group: many elements share a hash value.
CONSTANTS
  Prime = 11
  LimbBase = 11
  Grp <- MCGrp
  One = 1
  Mul <- MCMul
  Inv <- MCInv
  Pow <- MCPow
  G = 4
  MaxExp = 64
  Sqrt <- MCSqrt
  Limbs <- MCLimbs
  POrder <- MCPOrder
  Orders = {5}
  Bounds = {0, 1, 2, 3, 4, 8, 9, 25}
  Null = Null
  Searches = {"GT"}
  GTPrime = 53
  GTBase = 2
  GTOrder = 52
  HashSize = 7
SPECIFICATION OneSpec
INVARIANTS Sound
CHECK_DEADLOCK FALSE
