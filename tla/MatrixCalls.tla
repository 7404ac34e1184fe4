---------------------------- MODULE MatrixCalls ----------------------------
(***************************************************************************)
(* A caller of the vectors and matrices of the library: any operation, on  *)
(* any of the inputs, one call after the other.  What the calls return is  *)
(* compared with the definitions of linear algebra and with each other.    *)
(***************************************************************************)
EXTENDS Matrices

CONSTANTS
  Squares,       \* square matrices a, each with a prime modulus p
  Scalings,      \* a matrix a, a number c, and what the result held before
  Polynomials,   \* two polynomials v and w, and a root of one modulo q
  ElementCalls   \* matrices a and b, a vector x, the order q, and wrap

InputsAssumption ==
  /\ \A n \in Squares : DOMAIN n.a = DOMAIN n.a[0]
  /\ \A n \in Scalings : Rows(n.a) >= Cols(n.a) /\ DOMAIN n.old = DOMAIN n.a
  /\ \A n \in Polynomials :
       /\ DOMAIN n.v = DOMAIN n.w
       /\ Power(n.root, 2 * Length(n.v), n.q) = 1 /\ Power(n.root, Length(n.v), n.q) = n.q - 1
  /\ \A n \in ElementCalls :
       Cols(n.a) = Rows(n.b) /\ Rows(n.a) >= Rows(n.b) /\ Length(n.x) = Cols(n.b)

VARIABLES
  op,     \* which operation was called last
  arg,    \* its arguments
  out     \* what it returned

vars == <<op, arg, out>>

Init == op = "none" /\ arg = <<>> /\ out = Done(0)

\* The caller reads the result before it calls again.
Read == op # "none" /\ op' = "none" /\ arg' = <<>> /\ out' = Done(0)

Returns(name, input, r) == op = "none" /\ op' = name /\ arg' = input /\ out' = r

CallInverse(n) == Returns("inverse", n, InverseMat(n.a, n.p))
CallInverseGauss(n) == Returns("inverse_gauss", n, InverseGauss(n.a, n.p))
CallDeterminantGauss(n) == Returns("determinant_gauss", n, Done(DeterminantGauss(n.a, n.p)))
CallMulScalar(n) == Returns("mul_scalar", n, Done(MulScalar(n.a, n.c, n.old)))
CallPolyMul(n) == Returns("poly_mul", n, Done(PolyMul(n.v, n.w)))
CallPolyMulFFT(n) == Returns("poly_mul_FFT", n, Done(PolyMulFFT(n.v, n.w, n.root, n.q)))
CallVecMulGen(n) == Returns("vec_mul_G1", n, Done(VecMulGen(n.x, n.q)))
CallMatMulGen(n) == Returns("mat_mul_G1", n, Done(MatMulGen(n.b, n.q, n.wrap)))
CallMatMul(n) ==
  Returns("mul_G1_mat", n,
          Done(MatMulElements(n.a, MatMulGen(n.b, n.q, n.wrap), n.a, n.q, n.wrap)))
CallMulVec(n) ==
  Returns("G1_mul_vec", n, Done(ElementsMulVec(MatMulGen(n.b, n.q, n.wrap), n.x, n.q, n.wrap)))
CallGTMulVec(n) ==
  Returns("GT_mul_vec", n,
          Done(GTMulVec(TransposeElements(TransposeElements(
                          PairElements(MatMulGen(n.b, n.q, n.wrap), n.q))), n.x, n.q)))

Next ==
  \/ Read
  \/ \E n \in Squares : CallInverse(n) \/ CallInverseGauss(n) \/ CallDeterminantGauss(n)
  \/ \E n \in Scalings : CallMulScalar(n)
  \/ \E n \in Polynomials : CallPolyMul(n) \/ CallPolyMulFFT(n)
  \/ \E n \in ElementCalls :
       \/ CallVecMulGen(n) \/ CallMatMulGen(n)
       \/ CallMatMul(n) \/ CallMulVec(n) \/ CallGTMulVec(n)

Spec == Init /\ [][Next]_vars

-----------------------------------------------------------------------------
\* The determinant by its definition: over the permutations of the columns.
Leibniz(A) ==
  LET Permutations == {f \in [DOMAIN A -> DOMAIN A] : IsInjective(f)}
      Inversions(f) ==
        Cardinality({ij \in (DOMAIN A) \X (DOMAIN A) : ij[1] < ij[2] /\ f[ij[1]] > f[ij[2]]})
  IN SumFunction([f \in Permutations |->
       Sign(Inversions(f)) * FoldFunction(LAMBDA x, y : x * y, 1, [i \in DOMAIN A |-> A[i][f[i]]])])

Identity(n) == [i \in 0..(n - 1) |-> [j \in 0..(n - 1) |-> IF i = j THEN 1 ELSE 0]]
IsInverse(B, A, p) == MatMod(MatMul(A, B), p) = Identity(Rows(A))

\* Both algorithms for the inverse (mat.c:339-377 and 447-521) find it exactly when
\* the determinant has an inverse.
InverseExactlyWhenRegular ==
  /\ op = "inverse" /\ Rows(arg.a) > 1 =>
       /\ (out.err = "NONE") = (Leibniz(arg.a) % arg.p # 0)
       /\ out.err = "NONE" => IsInverse(out.res, arg.a, arg.p)
  /\ op = "inverse_gauss" =>
       /\ (out.err = "NONE") = (Leibniz(arg.a) % arg.p # 0)
       /\ out.err = "NONE" => IsInverse(out.res.mat, arg.a, arg.p)

\* The product of polynomials modulo x^n + 1: each product of coefficients goes where
\* the exponents add up to, with a change of sign past x^n; the transform with a
\* primitive root gives the same modulo q (vec.c:217-235, 270-345).
PolynomialProduct ==
  LET Coefficient(n, i) ==
        SumFunction([jk \in (DOMAIN n.v) \X (DOMAIN n.w) |->
          IF (jk[1] + jk[2]) % Length(n.v) # i THEN 0
          ELSE (IF jk[1] + jk[2] = i THEN 1 ELSE -1) * n.v[jk[1]] * n.w[jk[2]]])
  IN /\ op = "poly_mul" => \A i \in DOMAIN arg.v : out.res[i] = Coefficient(arg, i)
     /\ op = "poly_mul_FFT" =>
          \A i \in DOMAIN arg.v : out.res[i] = Coefficient(arg, i) % arg.q

\* A square matrix is multiplied by a number in every entry, whatever the result held
\* (mat.c:387-393).
Scaled ==
  op = "mul_scalar" /\ Rows(arg.a) = Cols(arg.a) =>
    out.res = [i \in DOMAIN arg.a |-> [j \in DOMAIN arg.a[i] |-> arg.c * arg.a[i][j]]]

NonNegative(A) == \A i \in DOMAIN A : \A j \in DOMAIN A[i] : A[i][j] >= 0

\* Products with matrices of elements are products of the exponents (mat_curve.c,
\* vec_curve.c): for a matrix of numbers that has as many rows as columns, for numbers
\* from 0 on and, where signs are looked at, for every number.
ElementsFollowIntegers ==
  /\ op = "vec_mul_G1" => out.res = VecMod(arg.x, arg.q)
  /\ op = "mat_mul_G1" /\ NonNegative(arg.b) => out.res = MatMod(arg.b, arg.q)
  /\ op = "mul_G1_mat" /\ NonNegative(arg.a) /\ NonNegative(arg.b)
        /\ Rows(arg.a) = Rows(arg.b) => out.res = MatMod(MatMul(arg.a, arg.b), arg.q)
  /\ op = "G1_mul_vec" /\ NonNegative(arg.b) /\ NonNegative([i \in {0} |-> arg.x])
        => out.res = VecMod(MulVec(arg.b, arg.x), arg.q)
  /\ op = "GT_mul_vec" /\ NonNegative(arg.b)
        => out.res = VecMod(MulVec(arg.b, arg.x), arg.q)
=============================================================================
