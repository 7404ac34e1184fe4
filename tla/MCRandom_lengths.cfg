\* The search for primes, of the lengths for which it has no end: 5 and 9 are one more than
\* whole bytes, which have four bits here. The others have nothing to do.
CONSTANTS
  Prime = 5
  Grp <- MCGrp
  One = 1
  Mul <- MCMul
  Inv <- MCInv
  Pow <- MCPow
  G = 4
  Order = 2
  MaxExp = 4
  Sqrt <- MCSqrt
  Part <- MCPart
  Iterations = 4
  Gcd <- MCGcd
  Invert <- MCInvert
  ByteBits = 2
  Ranges = {}
  DetCalls = {}
  Streams = {}
  MaxRounds = 3
  Samplers = {}
  TableWord = 3
  Calls <- MCEndless
  Byte = 4
  SmallPrimes = {3, 5, 7}
  SmallProduct = 105
  SmallBits = 3
  Word = 7
  DeltaLimit = 256
SPECIFICATION OneSpec
PROPERTY PrimesReturn
CHECK_DEADLOCK FALSE
