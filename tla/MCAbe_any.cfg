\* Every system of small shapes, and every operation on small matrices and polynomials; the
\* schemes, with keys that may have been replaced; expressions in the proper form and not;
\* keys, ciphertexts and data on their way through buffers. Calls that have returned stop.
CONSTANTS
  Inputs <- MCInputs
  Squares <- MCSquares
  Scalings <- MCScalings
  Polynomials <- MCPolynomials
  ElementCalls <- MCElementCalls
  Instances <- MCInstances
  Hash <- MCHash
  Expressions <- MCExpressions
  P = 3
  Sessions <- MCSessions
  Limb = 3
  Byte = 2
  Coord = 1
SPECIFICATION AllSpec
INVARIANTS TypeOK PivotInRow Outcome Inverses Products Elements TypesOK SchemesDecrypt Converted Transported
PROPERTIES Ends
CHECK_DEADLOCK FALSE
