\* Expressions in the proper form and not, and nothing else.
CONSTANTS
  Inputs <- NoColumns
  Squares = {}
  Scalings = {}
  Polynomials = {}
  ElementCalls = {}
  Instances <- MCNothing
  Hash <- MCHash
  Expressions <- MCExpressions
  P = 3
  Sessions <- MCNothing
  Limb = 3
  Byte = 2
  Coord = 1
SPECIFICATION AllSpec
INVARIANT ImproperRefused
CHECK_DEADLOCK FALSE
