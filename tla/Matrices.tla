------------------------------ MODULE Matrices ------------------------------
(***************************************************************************)
(* The operations of src/data/vec.c and src/data/mat.c that the schemes    *)
(* over matrices use, one operator for each.  Rows and columns are         *)
(* numbered from 0; p is a prime modulus.                                  *)
(***************************************************************************)
EXTENDS LinearSystem, SchemeGroups
LOCAL INSTANCE TLC

Length(x) == Cardinality(DOMAIN x)
Rows(A) == Length(A)
Cols(A) == Length(A[0])

\* Vectors: -v, v * c, v / c rounded down, v followed by w, and a part of v.
VecNeg(v) == [i \in DOMAIN v |-> -v[i]]
VecScale(v, c) == [i \in DOMAIN v |-> v[i] * c]
VecFdiv(v, c) == [i \in DOMAIN v |-> v[i] \div c]
VecJoin(v, w) ==
  [i \in 0..(Length(v) + Length(w) - 1) |-> IF i < Length(v) THEN v[i] ELSE w[i - Length(v)]]
VecExtract(v, from, n) == [i \in 0..(n - 1) |-> v[from + i]]

\* cfe_vec_poly_mul: the product of two polynomials modulo x^n + 1.
PolyMul(v, w) ==
  [i \in DOMAIN v |-> SumFunction([j \in DOMAIN v |->
     (IF j <= i THEN 1 ELSE -1) * v[(i - j) % Length(v)] * w[j]])]

Power(b, n, q) == LET pow[i \in 0..n] == IF i = 0 THEN 1 ELSE (pow[i - 1] * b) % q IN pow[n]

\* cfe_vec_FFT for a result of length n or 2n: the halves of even and of odd
\* coefficients are transformed with the square of the root.  At depth d the
\* coefficients o, o + 2^d, o + 2 * 2^d, ... are.
FFT(a, len, root, q) ==
  LET y[d \in 0..(Length(a) - 1), o \in DOMAIN a] ==
        LET half == len \div (2 * 2^d)
            even == y[d + 1, o]
            odd == y[d + 1, o + 2^d]
            Twisted(i) == Power(root, 2^d * i, q) * odd[i]
        IN IF 2^d = Length(a) THEN [i \in 0..(len \div 2^d - 1) |-> a[o]]
           ELSE [i \in 0..(2 * half - 1) |->
                   IF i < half THEN (even[i] + Twisted(i)) % q
                   ELSE (even[i - half] - Twisted(i - half)) % q]
  IN y[0, 0]

\* Mutant of FFTInverse: with the root itself.
FFTInverseSameRoot(f, root, q) ==
  LET t == FFT(f, Length(f), root, q)
  IN [i \in DOMAIN f |-> (t[i] * InverseMod(Length(f), q)) % q]

\* The transformation back: with the inverse of the root, and divided by the length.
FFTInverse(f, root, q) ==
  LET t == FFT(f, Length(f), InverseMod(root, q), q)
  IN [i \in DOMAIN f |-> (t[i] * InverseMod(Length(f), q)) % q]

\* cfe_vec_poly_mul_FFT for a 2n-th root of one modulo q.
PolyMulFFT(v, w, root, q) ==
  LET n == Length(v)
      f == FFT(v, 2 * n, root, q)
      g == FFT(w, 2 * n, root, q)
      product == FFTInverse([i \in DOMAIN f |-> (f[i] * g[i]) % q], root, q)
  IN [i \in DOMAIN v |-> (product[i] - product[i + n]) % q]

-----------------------------------------------------------------------------
\* Matrices: cfe_mat_get_col, cfe_mat_transpose, cfe_mat_add, cfe_mat_mod,
\* cfe_mat_mul_vec, cfe_vec_mul_matrix, cfe_mat_mul, cfe_mat_mul_x_mat_y.
Col(A, k) == [i \in DOMAIN A |-> A[i][k]]
Transpose(A) == [k \in DOMAIN A[0] |-> Col(A, k)]
MatAdd(A, B) == [i \in DOMAIN A |-> VecAdd(A[i], B[i])]
MatMod(A, n) == [i \in DOMAIN A |-> VecMod(A[i], n)]
MulVec(A, v) == [i \in DOMAIN A |-> Dot(A[i], v)]
MulMatrix(v, A) == [k \in DOMAIN A[0] |-> Dot(Col(A, k), v)]
MatMul(A, B) == [i \in DOMAIN A |-> MulMatrix(A[i], B)]
XMatY(A, x, y) == Dot(MulVec(A, y), x)

\* cfe_mat_mul_scalar into a matrix that holds old: the loop counts columns and
\* multiplies rows.
MulScalar(A, c, old) ==
  [j \in DOMAIN A |-> IF j < Cols(A) THEN VecScale(A[j], c) ELSE old[j]]

\* cfe_mat_extract_submatrix: without row i and column j.
Submatrix(A, i, j) ==
  LET Skip(k, gone) == IF k < gone THEN k ELSE k + 1
  IN [k \in 0..(Rows(A) - 2) |-> [l \in 0..(Cols(A) - 2) |-> A[Skip(k, i)][Skip(l, j)]]]

Sign(n) == IF n % 2 = 0 THEN 1 ELSE -1

\* cfe_mat_determinant: along the first row.  A minor consists of the last rows and
\* of some columns C.
Determinant(A) ==
  LET det[C \in SUBSET DOMAIN A] ==
        LET i == Rows(A) - Cardinality(C)
        IN IF Cardinality(C) = 1 THEN A[i][Min(C)]
           ELSE SumFunction([j \in C |->
                  Sign(Cardinality({k \in C : k < j})) * A[i][j] * det[C \ {j}]])
  IN det[DOMAIN A]

\* Mutant of Adjoint: not transposed.
AdjointNotTransposed(A, i, j) == Sign(i + j) * Determinant(Submatrix(A, i, j))

Adjoint(A, i, j) == Sign(i + j) * Determinant(Submatrix(A, j, i))

\* cfe_mat_inverse_mod.  The minors of a matrix with one row have none, and
\* cfe_mat_determinant asks for SIZE_MAX rows to expand them.
InverseMat(A, p) ==
  LET det == Determinant(A) % p
  IN IF det = 0 THEN Failed("NO_INVERSE")
     ELSE IF Rows(A) = 1 THEN Failed("ABORT")
     ELSE Done([i \in DOMAIN A |-> [j \in DOMAIN A |-> (Adjoint(A, i, j) * InverseMod(det, p)) % p]])

-----------------------------------------------------------------------------
\* One column of cfe_mat_gaussian_elimination: s has the matrix, and the row that
\* the next pivot goes to.
EliminateColumn(s, k, p) ==
  LET candidates == {i \in DOMAIN s.m : i >= s.h /\ s.m[i][k] # 0}
      i0 == Min(candidates)
      a == [s.m EXCEPT ![s.h] = s.m[i0], ![i0] = s.m[s.h]]
      Factor(i) == InverseMod(a[s.h][k], p) * a[i][k]
  IN IF candidates = {} THEN s
     ELSE [h |-> s.h + 1,
           m |-> [i \in {i \in DOMAIN a : i > s.h} |->
                    [j \in {j \in DOMAIN a[i] : j >= k} |-> (a[i][j] - a[s.h][j] * Factor(i)) % p]
                      @@ a[i]]
                 @@ a]

\* cfe_mat_gaussian_elimination.
Triangular(A, p) ==
  LET after[k \in 0..Cols(A)] ==
        IF k = 0 THEN [m |-> MatMod(A, p), h |-> 0] ELSE EliminateColumn(after[k - 1], k - 1, p)
  IN after[Cols(A)].m

\* The product of the diagonal of the triangular form.
DiagonalProduct(T, n, p) ==
  LET product[i \in 0..n] == IF i = 0 THEN 1 ELSE (product[i - 1] * T[i - 1][i - 1]) % p
  IN product[n]

\* cfe_mat_determinant_gauss: the exchange of rows leaves no trace in it.
DeterminantGauss(A, p) == DiagonalProduct(Triangular(A, p), Rows(A), p)

\* The inverse, column by column and from the last row up, of an upper triangular
\* matrix that is extended by what the identity has become.
SubstituteBack(T, n, p) ==
  LET x[i \in 0..(n - 1), k \in 0..(n - 1)] ==
        ((T[i][n + k] - SumFunction([l \in (i + 1)..(n - 1) |-> T[i][l] * x[l, k]]))
           * InverseMod(T[i][i], p)) % p
  IN [i \in 0..(n - 1) |-> [k \in 0..(n - 1) |-> x[i, k]]]

\* cfe_mat_inverse_mod_gauss, with the determinant that it returns as well.
InverseGauss(A, p) ==
  LET n == Rows(A)
      T == Triangular([i \in DOMAIN A |->
             VecJoin(A[i], [j \in DOMAIN A |-> IF i = j THEN 1 ELSE 0])], p)
      det == DiagonalProduct(T, n, p)
  IN IF det = 0 THEN Failed("NO_INVERSE")
     ELSE Done([det |-> det, mat |-> SubstituteBack(T, n, p)])

-----------------------------------------------------------------------------
(***************************************************************************)
(* Vectors and matrices of elements of the pairing groups                  *)
(* (src/data/vec_curve.c, src/data/mat_curve.c), with an element written   *)
(* as its exponent modulo the order q.  The functions for the groups G1,   *)
(* G2 and GT repeat each other; the mapped one is that of G1 or, where     *)
(* only GT has it, of GT.  wrap is what BIG_256_56_from_mpz adds to a      *)
(* negative number.                                                        *)
(***************************************************************************)

\* cfe_vec_mul_G1, cfe_vec_mul_G2: negative coordinates invert the generator.
VecMulGen(u, q) == VecMod(u, q)

\* cfe_vec_mul_vec_G1, cfe_vec_mul_vec_G2; and cfe_vec_mul_GT, cfe_mat_mul_G1 and
\* cfe_mat_mul_G2: no attention to signs.
VecMulVec(u, v, q, wrap) == [i \in DOMAIN v |-> (BigFromMpz(u[i], wrap) * v[i]) % q]
VecMulGenGT(u, q, wrap) == VecMulVec(u, [i \in DOMAIN u |-> 1], q, wrap)
MatMulGen(A, q, wrap) == [i \in DOMAIN A |-> VecMulGenGT(A[i], q, wrap)]

\* cfe_mat_G1_transpose and those of the other groups.
TransposeElements(M) == [k \in DOMAIN M[0] |-> [i \in DOMAIN M |-> M[i][k]]]

\* cfe_mat_mul_G1_mat and those of the other groups, into a matrix that holds old.
\* The loop over the rows of the result ends with the rows of M: it leaves rows
\* alone, or goes on behind the last one.
MatMulElements(A, M, old, q, wrap) ==
  [i \in DOMAIN A |-> IF i < Rows(M)
                      THEN [j \in DOMAIN M[0] |->
                              SumFunction(VecMulVec(A[i], Col(M, j), q, wrap)) % q]
                      ELSE old[i]]

\* cfe_mat_G1_mul_vec, cfe_mat_G2_mul_vec.
ElementsMulVec(M, u, q, wrap) ==
  [i \in DOMAIN M |-> SumFunction(VecMulVec(u, M[i], q, wrap)) % q]

\* Mutant of GTMulVec: a negative coordinate does not invert.
GTMulVecUnsigned(M, u, q) ==
  [i \in DOMAIN M |-> SumFunction([k \in DOMAIN u |-> (IF u[k] < 0 THEN -u[k] ELSE u[k]) * M[i][k]]) % q]

\* cfe_mat_GT_mul_vec: zero is skipped, a negative coordinate inverts the element.
GTMulVec(M, u, q) == [i \in DOMAIN M |-> Dot(u, M[i]) % q]

\* cfe_mat_GT_pair_mat_G1, cfe_mat_GT_pair_mat_G2: the pairing with the generator.
PairElements(M, q) == [i \in DOMAIN M |-> [j \in DOMAIN M[i] |-> (M[i][j] * 1) % q]]

\* cfe_baby_giant_FP12_BN256_with_neg for a base other than the generator: exponents
\* are divided by that of the base, and every power of 1 is 1.
SearchBase(q, base, e, bound) ==
  IF base # 0 THEN SearchGT(q, (e * InverseMod(base, q)) % q, bound)
  ELSE IF e = 0 THEN Done(0) ELSE Failed("DLOG_NOT_FOUND")
=============================================================================
