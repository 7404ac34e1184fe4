---------------------------- MODULE LinearSystem ----------------------------
(***************************************************************************)
(* Linear systems over the integers modulo a prime p: what                 *)
(* cfe_gaussian_elimination_solver (src/data/mat.c) returns, in one step.  *)
(* A matrix is a function from row to column to integer; columns are       *)
(* numbered from 0, and a matrix without columns is a matrix of <<>>.      *)
(***************************************************************************)
EXTENDS Vectors

Residues(p) == 0..(p - 1)
IsPrime(p) == p \in Nat /\ p > 1 /\ \A d \in 2..(p - 1) : p % d # 0

\* mpz_invert.
InverseMod(x, p) == CHOOSE y \in Residues(p) : (x * y) % p = 1 % p

\* Row i of the system A x = v, for an x that gives some columns a coefficient and
\* all others the coefficient 0.
RowHolds(A, x, v, i, p) == Dot(x, A[i]) % p = v[i] % p
Solves(A, x, v, p) == \A i \in DOMAIN A : RowHolds(A, x, v, i, p)

\* v is a combination of the columns K of A.
Spanned(A, K, v, p) == \E x \in [K -> Residues(p)] : Solves(A, x, v, p)

\* The columns that are no combination of the columns before them.
Pivots(A, cols, p) ==
  {k \in 0..(cols - 1) : ~Spanned(A, 0..(k - 1), [i \in DOMAIN A |-> A[i][k]], p)}

\* cfe_gaussian_elimination_solver: the solution that is zero outside the pivots.
Solve(A, cols, v, p) ==
  LET K == Pivots(A, cols, p)
      found == {x \in [K -> Residues(p)] : Solves(A, x, v, p)}
  IN IF found = {} THEN Failed("NO_SOLUTION_EXISTS")
     ELSE LET x == CHOOSE x \in found : TRUE
          IN Done([k \in 0..(cols - 1) |-> IF k \in K THEN x[k] ELSE 0])
=============================================================================
