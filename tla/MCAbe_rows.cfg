\* FAME, with an attribute that labels two rows.
CONSTANTS
  Inputs <- NoColumns
  Squares = {}
  Scalings = {}
  Polynomials = {}
  ElementCalls = {}
  Instances <- MCTwoRows
  Hash <- MCHash
  Expressions <- MCNoExpressions
  P = 3
  Sessions <- MCNothing
  Limb = 3
  Byte = 2
  Coord = 1
SPECIFICATION AllSpec
INVARIANT DecryptIff
CHECK_DEADLOCK FALSE
