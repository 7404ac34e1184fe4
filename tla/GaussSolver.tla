---------------------------- MODULE GaussSolver ----------------------------
(***************************************************************************)
(* cfe_gaussian_elimination_solver (src/data/mat.c:544-657), loop by loop: *)
(* it brings the matrix into echelon form, compares the rows without a     *)
(* pivot with the vector, and substitutes back from the last column.  The  *)
(* result vector is also the record of the pivots: -1 marks a column whose *)
(* coefficient is still to be computed.                                    *)
(***************************************************************************)
EXTENDS LinearSystem

CONSTANT Inputs    \* the systems that callers may pass, with their prime modulus

\* The back substitution starts with the column before the last one that was reached,
\* so that callers pass a row, and a column or, as the schemes do, a vector that rules a
\* system without columns out.
IsInput(n) ==
  /\ n.rows \in Nat \ {0} /\ n.cols \in Nat /\ IsPrime(n.p)
  /\ n.mat \in [0..(n.rows - 1) -> [0..(n.cols - 1) -> Int]]
  /\ n.vec \in [0..(n.rows - 1) -> Int]
  /\ n.cols = 0 => \E i \in 0..(n.rows - 1) : n.vec[i] % n.p # 0

ASSUME SolverAssumption == \A n \in Inputs : IsInput(n)

VARIABLES
  arg,      \* the system that is solved
  m, v,     \* the local copies of its matrix and vector
  res,      \* the result vector
  h, k,     \* the row and the column of the loops
  pc, err   \* which loop runs, and what the call has returned

vars == <<arg, m, v, res, h, k, pc, err>>

p == arg.p
Rows == 0..(arg.rows - 1)
Cols == 0..(arg.cols - 1)

Init ==
  /\ arg \in Inputs
  /\ m = [i \in Rows |-> VecMod(arg.mat[i], p)] /\ v = VecMod(arg.vec, p)
  /\ res = [j \in Cols |-> -1]
  /\ h = 0 /\ k = 0 /\ pc = "eliminate" /\ err = "NONE"

\* The rows that the search for a pivot in column k finds.
Candidates == {i \in Rows : i >= h /\ m[i][k] # 0}

\* Mutant of SkipColumn: the column is not left.
SkipColumnStuck ==
  /\ pc = "eliminate" /\ h < arg.rows /\ k < arg.cols /\ Candidates = {}
  /\ res' = [res EXCEPT ![k] = 0]
  /\ UNCHANGED <<arg, m, v, h, k, pc, err>>

\* A column without a pivot: its coefficient is 0.
SkipColumn ==
  /\ pc = "eliminate" /\ h < arg.rows /\ k < arg.cols /\ Candidates = {}
  /\ res' = [res EXCEPT ![k] = 0] /\ k' = k + 1
  /\ UNCHANGED <<arg, m, v, h, pc, err>>

\* Exchanging the entries h and i of a matrix or of a vector.
Swap(f, i) == [f EXCEPT ![h] = f[i], ![i] = f[h]]

\* Mutant of Pivot: the vector is not swapped with the rows.
PivotKeepsVector ==
  /\ pc = "eliminate" /\ h < arg.rows /\ k < arg.cols /\ Candidates # {}
  /\ LET a == Swap(m, Min(Candidates))
         factor == [i \in Rows |-> a[i][k] * InverseMod(a[h][k], p)]
     IN /\ m' = [i \in Rows |-> IF i <= h THEN a[i]
                                ELSE [j \in Cols |-> (a[i][j] - a[h][j] * factor[i]) % p]]
        /\ v' = [i \in Rows |-> IF i <= h THEN v[i] ELSE (v[i] - v[h] * factor[i]) % p]
  /\ h' = h + 1 /\ k' = k + 1
  /\ UNCHANGED <<arg, res, pc, err>>

\* Mutant of Pivot: the rows below are not reduced modulo p.
PivotUnreduced ==
  /\ pc = "eliminate" /\ h < arg.rows /\ k < arg.cols /\ Candidates # {}
  /\ LET a == Swap(m, Min(Candidates))
         b == Swap(v, Min(Candidates))
         factor == [i \in Rows |-> a[i][k] * InverseMod(a[h][k], p)]
     IN /\ m' = [i \in Rows |-> IF i <= h THEN a[i]
                                ELSE [j \in Cols |-> a[i][j] - a[h][j] * factor[i]]]
        /\ v' = [i \in Rows |-> IF i <= h THEN b[i] ELSE (b[i] - b[h] * factor[i]) % p]
  /\ h' = h + 1 /\ k' = k + 1
  /\ UNCHANGED <<arg, res, pc, err>>

\* A column with a pivot: the first row found is swapped to row h, and a multiple
\* of it is subtracted from all rows below.
Pivot ==
  /\ pc = "eliminate" /\ h < arg.rows /\ k < arg.cols /\ Candidates # {}
  /\ LET a == Swap(m, Min(Candidates))
         b == Swap(v, Min(Candidates))
         factor == [i \in Rows |-> a[i][k] * InverseMod(a[h][k], p)]
     IN /\ m' = [i \in Rows |-> IF i <= h THEN a[i]
                                ELSE [j \in Cols |-> (a[i][j] - a[h][j] * factor[i]) % p]]
        /\ v' = [i \in Rows |-> IF i <= h THEN b[i] ELSE (b[i] - b[h] * factor[i]) % p]
  /\ h' = h + 1 /\ k' = k + 1
  /\ UNCHANGED <<arg, res, pc, err>>

\* A row without a pivot contradicts the vector.
NoSolution ==
  /\ pc = "eliminate" /\ (h = arg.rows \/ k = arg.cols)
  /\ \E i \in Rows : i >= h /\ v[i] # 0
  /\ pc' = "done" /\ err' = "NO_SOLUTION_EXISTS"
  /\ UNCHANGED <<arg, m, v, res, h, k>>

\* The columns that the loop did not reach have no pivot.  The counters go back to
\* the last row and column that it saw.
StartSubstitution ==
  /\ pc = "eliminate" /\ (h = arg.rows \/ k = arg.cols)
  /\ \A i \in Rows : i >= h => v[i] = 0
  /\ res' = [j \in Cols |-> IF j >= k THEN 0 ELSE res[j]]
  /\ h' = h - 1 /\ k' = k - 1 /\ pc' = "substitute"
  /\ UNCHANGED <<arg, m, v, err>>

\* What row h says of the coefficient of column k.
Substituted ==
  ((v[h] - SumFunction([j \in {j \in Cols : j > k} |-> m[h][j] * res[j]]))
     * InverseMod(m[h][k], p)) % p

\* Mutant of Substitute: the row is not left when a coefficient has been computed.
SubstituteSameRow ==
  /\ pc = "substitute"
  /\ res' = IF res[k] = -1 /\ m[h][k] # 0 THEN [res EXCEPT ![k] = Substituted] ELSE res
  /\ k' = k - 1 /\ pc' = IF k = 0 THEN "done" ELSE pc
  /\ UNCHANGED <<arg, m, v, h, err>>

\* One column of the back substitution.
Substitute ==
  /\ pc = "substitute"
  /\ IF res[k] = -1 THEN res' = [res EXCEPT ![k] = Substituted] /\ h' = h - 1
                    ELSE UNCHANGED <<res, h>>
  /\ k' = IF k = 0 THEN k ELSE k - 1
  /\ pc' = IF k = 0 THEN "done" ELSE pc
  /\ UNCHANGED <<arg, m, v, err>>

Next == SkipColumn \/ Pivot \/ NoSolution \/ StartSubstitution \/ Substitute

\* A call that runs goes on.
Spec == Init /\ [][Next]_vars /\ WF_vars(Next)

-----------------------------------------------------------------------------
\* The types of the local variables; -1 is below the residues, and h is below the
\* rows when the first of them has been used.
TypeOK ==
  /\ IsInput(arg)
  /\ m \in [Rows -> [Cols -> Residues(p)]] /\ v \in [Rows -> Residues(p)]
  /\ res \in [Cols -> Residues(p) \cup {-1}]
  /\ h \in -1..arg.rows /\ k \in 0..arg.cols
  /\ pc \in {"eliminate", "substitute", "done"} /\ err \in {"NONE", "NO_SOLUTION_EXISTS"}

\* Whenever the back substitution meets a marked column, row h exists and its first
\* nonzero entry is in that column: the counter h, unsigned in the code, is not
\* used after it has wrapped around, and mpz_invert is not given 0 (mat.c:629-648).
PivotInRow ==
  pc = "substitute" /\ res[k] = -1 =>
    /\ h \in Rows /\ m[h][k] # 0
    /\ \A j \in Cols : j < k => m[h][j] = 0

\* The call returns the solution that is zero outside the pivot columns, or an error
\* exactly when no solution exists.
Outcome ==
  pc = "done" =>
    LET r == Solve(arg.mat, arg.cols, arg.vec, p)
    IN err = r.err /\ (err = "NONE" => res = r.res)

\* All loops end.
Termination == <>(pc = "done")

-----------------------------------------------------------------------------
(* The inductive invariant *)

\* The operations on rows keep the solutions, of the system with the vector and of the
\* one with the vector 0.
Zeros == [i \in Rows |-> 0]
SameSolutions ==
  \A x \in [Cols -> Residues(p)] :
    /\ Solves(m, x, v, p) <=> Solves(arg.mat, x, arg.vec, p)
    /\ Solves(m, x, Zeros, p) <=> Solves(arg.mat, x, Zeros, p)

\* The first c columns are in echelon form: each of the first n rows begins in its column
\* of lead, further right than the row above, and the other rows are zero there.
Echelon(n, c, lead) ==
  /\ lead \in [0..(n - 1) -> 0..(c - 1)]
  /\ \A i, j \in 0..(n - 1) : i < j => lead[i] < lead[j]
  /\ \A i \in 0..(n - 1) : m[i][lead[i]] # 0 /\ \A j \in 0..(lead[i] - 1) : m[i][j] = 0
  /\ \A i \in Rows : i >= n => \A j \in 0..(c - 1) : m[i][j] = 0

\* While the elimination runs it has marked the columns that lead a row.
EliminateInv ==
  pc = "eliminate" =>
    /\ h \in 0..arg.rows
    /\ \E lead \in [0..(h - 1) -> Cols] :
         /\ Echelon(h, k, lead)
         /\ \A j \in Cols : res[j] = IF j >= k \/ j \in Range(lead) THEN -1 ELSE 0

\* When the columns up to c are still to be substituted, the rows below h hold, and the
\* rows up to h are those that begin in these columns.
Substituting(c) ==
  \E n \in 0..arg.rows : \E lead \in [0..(n - 1) -> Cols] :
    /\ Echelon(n, arg.cols, lead)
    /\ \A i \in Rows : i >= n => v[i] = 0
    /\ h < n /\ \A i \in 0..(n - 1) : i <= h <=> lead[i] <= c
    /\ \A i \in 0..(n - 1) : i > h => RowHolds(m, res, v, i, p)
    /\ \A j \in Cols : IF j \in Range(lead) THEN j <= c <=> res[j] = -1 ELSE res[j] = 0

SubstituteInv == pc = "substitute" => k \in Cols /\ Substituting(k)

\* A call that has returned has substituted all columns, or has met a row that
\* contradicts the vector.
DoneInv ==
  IF err = "NONE" THEN pc = "done" => Substituting(-1)
  ELSE pc = "done" /\ \E i \in Rows : v[i] # 0 /\ \A j \in Cols : m[i][j] = 0

IInv == TypeOK /\ SameSolutions /\ EliminateInv /\ SubstituteInv /\ DoneInv
=============================================================================
