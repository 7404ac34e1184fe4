\* The base generates a third of the group, and its order has several divisors. Searches
\* that are done stop.
CONSTANTS
  Prime = 37
  Grp <- MCGrp
  One = 1
  Mul <- MCMul
  Inv <- MCInv
  Pow <- MCPow
  G = 8
  Order = 12
  MaxExp = 144
  Sqrt <- MCSqrt
  Part <- MCPart
  Iterations = 40
  Gcd <- MCGcd
  Invert <- MCInvert
  ByteBits = 2
  Ranges <- MCRanges
  DetCalls <- MCDetCalls
  Streams <- MCStreams
  MaxRounds = 10
  Samplers <- MCSamplers
  TableWord = 3
  Calls <- MCCalls
  Byte = 4
  SmallPrimes = {3, 5, 7}
  SmallProduct = 105
  SmallBits = 3
  Word = 7
  DeltaLimit = 256
SPECIFICATION OneSpec
INVARIANTS TypesOK Represented Sound Answered Uniform CutFromStream ExpDecided Distributed PrimeFound
PROPERTIES Returns
CHECK_DEADLOCK FALSE
