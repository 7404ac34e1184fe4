--------------------------- MODULE MCGaussSolver ---------------------------
(***************************************************************************)
(* The linear algebra of the library: the solver of GaussSolver, step by   *)
(* step, or the caller of MatrixCalls, while the solver does nothing.      *)
(* MCAbe adds its users.                                                   *)
(***************************************************************************)
EXTENDS GaussSolver

CONSTANTS Squares, Scalings, Polynomials, ElementCalls

VARIABLES
  turn,            \* whose turn it is
  op, call, out    \* which operation is called, with what, and its result

C == INSTANCE MatrixCalls WITH arg <- call

ASSUME C!InputsAssumption

-----------------------------------------------------------------------------
\* All systems with a given number of rows and columns, and a vector of 0 and 1.
Systems(prime, rows, cols) ==
  [p : {prime}, rows : {rows}, cols : {cols},
   mat : [0..(rows - 1) -> [0..(cols - 1) -> 0..(prime - 1)]],
   vec : [0..(rows - 1) -> {0, 1}]]

\* Numbers below 0 and above the modulus.
Unreduced ==
  [p : {5}, rows : {2}, cols : {2},
   mat : [0..1 -> [0..1 -> {-1, 6}]], vec : [0..1 -> {-1, 6}]]

\* Systems without columns, that no vector but 0 solves.
NoColumns ==
  [p : {3}, rows : {2}, cols : {0}, mat : [0..1 -> {<<>>}],
   vec : [0..1 -> 0..1] \ {[i \in 0..1 |-> 0]}]

MCInputs == Systems(3, 2, 3) \cup Systems(3, 3, 2) \cup Systems(5, 2, 2)
              \cup Unreduced \cup NoColumns

\* Every matrix of two rows over small fields, matrices of three rows with negative
\* entries, and polynomials of degree 1 and 3.
Matrix(rows, cols, values) == [0..(rows - 1) -> [0..(cols - 1) -> values]]

\* Three rows of which the first has negative entries.
Triples(prime) == {[a |-> [A EXCEPT ![0] = r], p |-> prime] :
                 A \in {B \in Matrix(3, 3, {0, 1}) : B[0][0] = 0 /\ B[0][1] = 0 /\ B[0][2] = 0},
                 r \in [0..2 -> {-1, 0, 2}]}
MCSquares ==
  [a : Matrix(2, 2, 0..2), p : {3}] \cup [a : Matrix(2, 2, {-2, 0, 1, 4}), p : {5}]
    \cup [a : Matrix(2, 2, {0, 1}), p : {2}] \cup Triples(3)

Filled(rows, cols, value) == [i \in 0..(rows - 1) |-> [j \in 0..(cols - 1) |-> value]]
MCScalings == [a : Matrix(2, 2, {0, 1}), c : {-1, 2}, old : {Filled(2, 2, 5)}]

\* Products modulo x^2 + 1 and x^4 + 1; 2 has order 4 modulo 5, and order 8 modulo 17.
MCPolynomials ==
  [v : [0..1 -> -1..3], w : [0..1 -> {-2, 0, 3}], root : {2}, q : {5}]
    \cup [v : [0..3 -> {0, 3}], w : {[i \in 0..3 |-> 2 * i - 3], [i \in 0..3 |-> i * i]},
          root : {2}, q : {17}]

MCElementCalls ==
  [a : Matrix(2, 2, {0, 1, 3}), b : {[i \in 0..1 |-> [j \in 0..1 |-> 2 * i + j]]},
   x : [0..1 -> {-3, 0, 2}], q : {5}, wrap : {8}]

-----------------------------------------------------------------------------
IsSolver == turn = "solver"
Calls == turn = "calls"
others == <<turn, op, call, out>>

Idle == arg = (CHOOSE n \in NoColumns : TRUE) /\ Init

OneInit ==
  \/ turn = "solver" /\ Init /\ C!Init
  \/ turn = "calls" /\ Idle /\ C!Init
OneNext ==
  \/ IsSolver /\ Next /\ UNCHANGED others
  \/ Calls /\ C!Next /\ UNCHANGED <<vars, turn>>

\* Both algorithms for the inverse find it exactly when there is one (mat.c:339-377,
\* 447-521).
Inverses == Calls => C!InverseExactlyWhenRegular

\* Products of polynomials modulo x^n + 1, by their definition and by the transform
\* (vec.c:217-235, 270-345), and of matrices with numbers (mat.c:387-393).
Products == Calls => C!PolynomialProduct /\ C!Scaled

\* Products with matrices and vectors of group elements are products of the exponents
\* (mat_curve.c:36-179, vec_curve.c:37-157).
Elements == Calls => C!ElementsFollowIntegers

\* The solver returns (mat.c:630).
Ends == IsSolver ~> pc = "done"
=============================================================================
