------------------------------ MODULE Vectors ------------------------------
(***************************************************************************)
(* Vectors and matrices of integers (src/data/vec.c, src/data/mat.c), as   *)
(* functions, the bound checks of the schemes, and what a call returns.    *)
(***************************************************************************)
EXTENDS Integers, FiniteSetsExt, Functions

\* Inner products, of vectors and of matrices.
Dot(x, y) == SumFunction([k \in DOMAIN x |-> x[k] * y[k]])
MatDot(A, B) == SumFunction([i \in DOMAIN A |-> Dot(A[i], B[i])])

VecAdd(x, y) == [k \in DOMAIN x |-> x[k] + y[k]]
VecMod(x, n) == [k \in DOMAIN x |-> x[k] % n]

\* The bound checks look at one side only: a coordinate may equal the bound, and
\* may be as negative as it likes.
CheckBound(x, b) == \A k \in DOMAIN x : x[k] <= b
MatCheckBound(A, b) == \A i \in DOMAIN A : CheckBound(A[i], b)

\* What callers mean by bounded input.
Bounded(x, b) == \A k \in DOMAIN x : x[k] \in (-b)..b
MatBounded(A, b) == \A i \in DOMAIN A : Bounded(A[i], b)

\* mpz_sqrt.
ISqrt(n) == CHOOSE k \in 0..n : k * k <= n /\ n < (k + 1) * (k + 1)

\* What a call returns: an error code, and the result when the code is "NONE".
Done(res) == [err |-> "NONE", res |-> res]
Failed(code) == [err |-> code, res |-> 0]
=============================================================================
