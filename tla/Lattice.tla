----------------------------- MODULE Lattice ---------------------------------
(***************************************************************************)
(* The schemes from lattices: their operations, on integers, and the       *)
(* machines that run them.                                                 *)
(***************************************************************************)
EXTENDS Matrices

(***************************************************************************)
(* The LWE scheme (src/innerprod/simple/lwe.c).  Set-up computes lengths   *)
(* for p and q and takes primes of these lengths: prm has n, the numbers   *)
(* that are taken, and how the search for primes and the check in floating *)
(* point end.                                                              *)
(***************************************************************************)

\* mpz_sizeinbase for the base 2.
Bits(v) == CHOOSE b \in 1..(v + 1) : v < 2^b /\ (b = 1 \/ 2^(b - 1) <= v)

\* The length of p; m follows from that of q.
LweIsModulus(prm, l, bx, by) == Bits(prm.p) = Bits(bx) + Bits(by) + Bits(l) + 2
LweSamples(prm, l) == (prm.n + l + 1) * Bits(prm.q) + 2 * prm.n + 1

LweNew(prm, l, bx, by) ==
  IF prm.err # "NONE" THEN Failed(prm.err)
  ELSE Done([l |-> l, bx |-> bx, by |-> by, n |-> prm.n, m |-> LweSamples(prm, l),
             p |-> prm.p, q |-> prm.q, A |-> prm.A])

\* center: the multiples of q / p.
LweCenter(s, x) == VecMod(VecFdiv(VecScale(x, s.q), s.p), s.q)

LweGeneratePubKey(s, SK, E) ==
  IF Rows(SK) # s.n \/ Cols(SK) # s.l THEN Failed("MALFORMED_SEC_KEY")
  ELSE Done(MatMod(MatAdd(MatMod(MatMul(s.A, SK), s.q), E), s.q))

LweDeriveFeKey(s, SK, y) ==
  IF ~CheckBound(y, s.by) THEN Failed("BOUND_CHECK_FAILED")
  ELSE IF Rows(SK) # s.n \/ Cols(SK) # s.l THEN Failed("MALFORMED_SEC_KEY")
  ELSE Done(VecMod(MulVec(SK, y), s.q))

\* r is a vector of zeros and ones.
LweEncrypt(s, x, PK, r) ==
  IF ~CheckBound(x, s.bx) THEN Failed("BOUND_CHECK_FAILED")
  ELSE IF Rows(PK) # s.m \/ Cols(PK) # s.l THEN Failed("MALFORMED_PUB_KEY")
  ELSE IF Length(x) # s.l THEN Failed("MALFORMED_INPUT")
  ELSE Done(VecJoin(MulVec(Transpose(s.A), r),
                    VecMod(VecAdd(MulVec(Transpose(PK), r), LweCenter(s, x)), s.q)))

\* The representative of d modulo q that is closest to 0.
LweCentred(d, q) == IF d > q \div 2 THEN d - q ELSE d

\* Mutant of LweRounded: down to a multiple of q / p.
LweRoundedDown(s, d) == (d * s.p) \div s.q

LweRounded(s, d) == (d * s.p + s.q \div 2) \div s.q

LweDecrypt(s, ct, key, y) ==
  IF ~CheckBound(y, s.by) THEN Failed("BOUND_CHECK_FAILED")
  ELSE IF Length(key) # s.n THEN Failed("MALFORMED_FE_KEY")
  ELSE IF Length(y) # s.l THEN Failed("MALFORMED_INPUT")
  ELSE IF Length(ct) # s.n + s.l THEN Failed("MALFORMED_CIPHER")
  ELSE LET first == VecExtract(ct, 0, s.n)
           last == VecExtract(ct, s.n, s.l)
           d == ((Dot(y, last) % s.q) - (Dot(first, key) % s.q)) % s.q
       IN Done(LweRounded(s, LweCentred(d, s.q)))

-----------------------------------------------------------------------------
\* What the noise of the public key adds to the sum before it is rounded, and how
\* much of it rounding takes away next to what LweCenter has cut off.
LweNoise(E, r, y) == Dot(MulVec(Transpose(E), r), y)
AbsSum(y) == SumFunction([i \in DOMAIN y |-> IF y[i] < 0 THEN -y[i] ELSE y[i]])
LweTolerated(s, noise, y) ==
  LET a == IF noise < 0 THEN -noise ELSE noise
  IN 2 * s.p * (a + AbsSum(y)) < s.q

-----------------------------------------------------------------------------
(***************************************************************************)
(* The fully secure LWE scheme (src/innerprod/fullysec/lwe_fs.c).  The     *)
(* search of set-up for the length of q (lwe_fs.c:52-122) computes in      *)
(* floating point: prm has n, m, the numbers that are taken, and how the   *)
(* search for a prime ends.  A secret key is what the samplers return,     *)
(* with ones added.                                                        *)
(***************************************************************************)

\* The search divides by the logarithm of n.
LweFsNew(prm, l, bx, by) ==
  IF prm.n = 1 THEN Failed("ABORT")
  ELSE IF prm.err # "NONE" THEN Failed(prm.err)
  ELSE Done([l |-> l, bx |-> bx, by |-> by, n |-> prm.n, m |-> prm.m,
             K |-> 2 * l * bx * by, q |-> prm.q, A |-> prm.A])

\* From sampled numbers: the identity is added behind the first half of the columns.
LweFsSecretKey(s, sampled) ==
  [i \in DOMAIN sampled |-> [j \in DOMAIN sampled[i] |->
     sampled[i][j] + IF j = s.m \div 2 + i THEN 1 ELSE 0]]

LweFsGeneratePubKey(s, SK) ==
  IF Rows(SK) # s.l \/ Cols(SK) # s.m THEN Failed("MALFORMED_SEC_KEY")
  ELSE Done(MatMod(MatMul(SK, s.A), s.q))

LweFsDeriveFeKey(s, SK, y) ==
  IF ~CheckBound(y, s.by) THEN Failed("BOUND_CHECK_FAILED")
  ELSE IF Rows(SK) # s.l \/ Cols(SK) # s.m THEN Failed("MALFORMED_SEC_KEY")
  ELSE Done(VecMod(MulMatrix(y, SK), s.q))

\* n has the vector r and the noises e0 and e1 of both parts.
LweFsEncrypt(s, x, PK, n) ==
  IF ~CheckBound(x, s.bx) THEN Failed("BOUND_CHECK_FAILED")
  ELSE IF Length(x) # s.l THEN Failed("MALFORMED_INPUT")
  ELSE IF Rows(PK) # s.l \/ Cols(PK) # s.n THEN Failed("MALFORMED_PUB_KEY")
  ELSE Done(VecJoin(
         VecMod(VecAdd(MulVec(s.A, n.r), n.e0), s.q),
         VecMod(VecAdd(VecAdd(MulVec(PK, n.r), n.e1), VecScale(x, s.q \div s.K)), s.q)))

LweFsDecrypt(s, ct, key, y) ==
  IF ~CheckBound(y, s.by) THEN Failed("BOUND_CHECK_FAILED")
  ELSE IF Length(key) # s.m THEN Failed("MALFORMED_FE_KEY")
  ELSE IF Length(y) # s.l THEN Failed("MALFORMED_INPUT")
  ELSE IF Length(ct) # s.m + s.l THEN Failed("MALFORMED_CIPHER")
  ELSE LET d == (Dot(y, VecExtract(ct, s.m, s.l)) - Dot(key, VecExtract(ct, 0, s.m))) % s.q
           mu1 == IF d > s.q \div 2 THEN d - s.q ELSE d
       IN Done((mu1 + s.q \div (2 * s.K)) \div (s.q \div s.K))

-----------------------------------------------------------------------------
\* What the noises add to the sum before it is rounded, and how much rounding takes
\* away.
LweFsNoise(SK, n, y) == Dot(y, n.e1) - Dot(MulMatrix(y, SK), n.e0)
LweFsTolerated(s, noise) ==
  LET a == IF noise < 0 THEN -noise ELSE noise
  IN a < s.q \div (2 * s.K)
\* The sums that K tells apart.
LweFsInRange(s, v) == 2 * v < s.K /\ -2 * v < s.K

-----------------------------------------------------------------------------
(***************************************************************************)
(* The ring-LWE scheme (src/innerprod/simple/ring_lwe.c), over polynomials *)
(* modulo x^n + 1.  prm has n, p, q and the polynomial a that set-up       *)
(* samples; rows of matrices are polynomials.                              *)
(***************************************************************************)

\* What n & (n - 1) lets through.
IsPowerOfTwo(n) == n = 0 \/ \E k \in 0..n : n = 2^k

RingNew(prm, l, b) ==
  IF prm.p < 2 * l * b * b \/ ~IsPowerOfTwo(prm.n) THEN Failed("PRECONDITION_FAILED")
  ELSE Done([l |-> l, bx |-> b, by |-> b, n |-> prm.n, p |-> prm.p, q |-> prm.q, a |-> prm.a])

\* ring_lwe_center.
RingCenter(s, X) == [i \in DOMAIN X |-> VecMod(VecFdiv(VecScale(X[i], s.q), s.p), s.q)]

RingGeneratePubKey(s, SK, E) ==
  IF Rows(SK) # s.l \/ Cols(SK) # s.n THEN Failed("MALFORMED_SEC_KEY")
  ELSE Done(MatMod([i \in 0..(s.l - 1) |-> VecAdd(PolyMul(SK[i], s.a), E[i])], s.q))

RingDeriveFeKey(s, SK, y) ==
  IF ~CheckBound(y, s.by) THEN Failed("BOUND_CHECK_FAILED")
  ELSE IF Rows(SK) # s.l \/ Cols(SK) # s.n THEN Failed("MALFORMED_SEC_KEY")
  ELSE Done(VecMod(MulMatrix(y, SK), s.q))

\* The row of the ciphertext that decryption takes the mask from.
LastRow(s, n) == VecMod(VecAdd(PolyMul(s.a, n.r), n.e), s.q)

\* n has the polynomial r, the noise E of the rows with the message, and that of the
\* last row, e.
RingEncrypt(s, X, PK, n) ==
  IF ~MatCheckBound(X, s.bx) THEN Failed("BOUND_CHECK_FAILED")
  ELSE IF Rows(PK) # s.l \/ Cols(PK) # s.n THEN Failed("MALFORMED_PUB_KEY")
  ELSE IF Rows(X) # s.l \/ Cols(X) # s.n THEN Failed("MALFORMED_INPUT")
  ELSE LET masks == MatMod([i \in 0..(s.l - 1) |-> VecAdd(PolyMul(PK[i], n.r), n.E[i])], s.q)
           rows == MatMod(MatAdd(masks, RingCenter(s, X)), s.q)
       IN Done([i \in 0..s.l |-> IF i < s.l THEN rows[i] ELSE LastRow(s, n)])

RingDecrypt(s, CT, key, y) ==
  IF ~CheckBound(y, s.by) THEN Failed("BOUND_CHECK_FAILED")
  ELSE IF Length(key) # s.n THEN Failed("MALFORMED_FE_KEY")
  ELSE IF Length(y) # s.l THEN Failed("MALFORMED_INPUT")
  ELSE IF Rows(CT) # s.l + 1 \/ Cols(CT) # s.n THEN Failed("MALFORMED_CIPHER")
  ELSE LET product == VecMod(MulMatrix(y, VecExtract(CT, 0, s.l)), s.q)
           d == VecMod(VecAdd(product, VecNeg(PolyMul(CT[s.l], key))), s.q)
           half == s.q \div 2
           Centred(v) == IF v > half THEN v - s.q ELSE v
       IN Done(VecFdiv([i \in DOMAIN d |-> Centred(d[i]) * s.p + half], s.q))

-----------------------------------------------------------------------------
\* What the noises add to every coefficient before it is rounded, how much of it
\* rounding takes away, and the sums that p tells apart.
RingNoise(s, SK, E, n, y) ==
  VecAdd(MulMatrix(y, [i \in 0..(s.l - 1) |-> VecAdd(PolyMul(E[i], n.r), n.E[i])]),
         VecNeg(PolyMul(n.e, MulMatrix(y, SK))))
RingTolerated(s, noise, y) ==
  LET Abs(v) == IF v < 0 THEN -v ELSE v
      cut == SumFunction([i \in DOMAIN y |-> Abs(y[i])])
  IN \A i \in DOMAIN noise : 2 * s.p * (Abs(noise[i]) + cut) < s.q
RingInRange(s, v) == \A i \in DOMAIN v : 2 * v[i] < s.p /\ -2 * v[i] < s.p

-----------------------------------------------------------------------------
(***************************************************************************)
(* The machines: an authority sets a scheme up, samples secret keys and    *)
(* issues public and functional keys, encryptors use the public key that   *)
(* they have received last, a decryptor combines any ciphertext with any   *)
(* key.  What the samplers return is chosen from the instance.             *)
(***************************************************************************)

CONSTANTS
  Instances,    \* which schemes are run, with which arguments, noise and inputs
  MaxEpoch      \* bound of the model: how often a secret key is sampled


IntVec(n) == [0..(n - 1) -> Int]
IntMat(m, n) == [0..(m - 1) -> IntVec(n)]

\* The parameters, samples and inputs of the LWE scheme.  The inputs of encryptors may
\* have any length, those of the authority and of a decryptor have the right one.
IsLwe(n) ==
  LET m == LweSamples(n.prm, n.l)
  IN /\ n.prm.p \in Nat /\ \A b \in n.bounds : LweIsModulus(n.prm, n.l, b[1], b[2])
     /\ n.prm.A \in IntMat(m, n.prm.n)
     /\ n.secrets \subseteq IntMat(n.prm.n, n.l) /\ n.noises \subseteq IntMat(m, n.l)
     /\ n.nonces \subseteq IntVec(m) /\ \A x \in n.xs : x \in IntVec(Length(x))

\* Those of the fully secure scheme, whose public key carries no noise.
IsLweFs(n) ==
  /\ n.prm.m \in Nat \ {0} /\ n.prm.A \in IntMat(n.prm.m, n.prm.n)
  /\ n.secrets \subseteq IntMat(n.l, n.prm.m) /\ \A x \in n.xs : x \in IntVec(Length(x))
  /\ \A c \in n.nonces :
       c.r \in IntVec(n.prm.n) /\ c.e0 \in IntVec(n.prm.m) /\ c.e1 \in IntVec(n.l)

\* Those of the ring-LWE scheme, when set-up takes the degree.
IsRingLwe(n) ==
  /\ n.prm.p \in Nat
  /\ IsPowerOfTwo(n.prm.n) =>
       /\ n.prm.a \in IntVec(n.prm.n)
       /\ n.secrets \cup n.noises \cup n.xs \subseteq IntMat(n.l, n.prm.n)
       /\ \A c \in n.nonces : /\ c.r \in IntVec(n.prm.n) /\ c.e \in IntVec(n.prm.n)
                              /\ c.E \in IntMat(n.l, n.prm.n)

\* An instance: the scheme and its parameters, the length of the vectors, the bounds
\* that set-up is tried with, the inputs of encryptors and of key requests, and the
\* numbers that the samplers return for secret keys, public keys and ciphertexts.
IsInstance(n) ==
  /\ n.scheme \in {"lwe", "lwe_fs", "ring_lwe"} /\ n.l \in Nat \ {0}
  /\ n.prm.n \in Nat \ {0} /\ n.prm.q \in Nat /\ n.prm.q > 2
  /\ \A b \in n.bounds : b[1] \in Nat \ {0} /\ b[2] \in Nat \ {0}
  /\ n.scheme # "ring_lwe" => n.prm.err \in {"NONE", "PRIME_GEN_FAILED", "PARAM_GEN_FAILED"}
  /\ n.ys \subseteq IntVec(n.l)
  /\ n.scheme = "lwe" => IsLwe(n)
  /\ n.scheme = "lwe_fs" => IsLweFs(n)
  /\ n.scheme = "ring_lwe" => IsRingLwe(n)

InstanceAssumption == MaxEpoch \in Nat /\ \A n \in Instances : IsInstance(n)

VARIABLES
  inst,      \* the instance that is run
  s,         \* the scheme; NoScheme before it is set up
  sk,        \* the secret key
  epoch,     \* how often it has been sampled
  pub,       \* the public key of the encryptors, its epoch and the noise in it
  ct,        \* a ciphertext under way, what it is of, and the noise in it
  key,       \* a functional key under way, and what it is for
  out        \* what the last call returned; for a decryption, also what of

vars == <<inst, s, sk, epoch, pub, ct, key, out>>

NoScheme == [l |-> 0]
Nothing == [epoch |-> 0]
NotADecryption(r) == [same |-> FALSE, err |-> r.err]

\* The operations of the scheme that is run.
New(b) ==
  CASE inst.scheme = "lwe" -> LweNew(inst.prm, inst.l, b[1], b[2])
    [] inst.scheme = "lwe_fs" -> LweFsNew(inst.prm, inst.l, b[1], b[2])
    [] inst.scheme = "ring_lwe" -> RingNew(inst.prm, inst.l, b[1])
SecretKey(sampled) == IF inst.scheme = "lwe_fs" THEN LweFsSecretKey(s, sampled) ELSE sampled
PublicKey(SK, E) ==
  CASE inst.scheme = "lwe" -> LweGeneratePubKey(s, SK, E)
    [] inst.scheme = "lwe_fs" -> LweFsGeneratePubKey(s, SK)
    [] inst.scheme = "ring_lwe" -> RingGeneratePubKey(s, SK, E)
FeKey(SK, y) ==
  CASE inst.scheme = "lwe" -> LweDeriveFeKey(s, SK, y)
    [] inst.scheme = "lwe_fs" -> LweFsDeriveFeKey(s, SK, y)
    [] inst.scheme = "ring_lwe" -> RingDeriveFeKey(s, SK, y)
Ciphertext(x, PK, n) ==
  CASE inst.scheme = "lwe" -> LweEncrypt(s, x, PK, n)
    [] inst.scheme = "lwe_fs" -> LweFsEncrypt(s, x, PK, n)
    [] inst.scheme = "ring_lwe" -> RingEncrypt(s, x, PK, n)
Plaintext(c, k, y) ==
  CASE inst.scheme = "lwe" -> LweDecrypt(s, c, k, y)
    [] inst.scheme = "lwe_fs" -> LweFsDecrypt(s, c, k, y)
    [] inst.scheme = "ring_lwe" -> RingDecrypt(s, c, k, y)

\* Rounding gives the sum back: the noise in this ciphertext under this key is as
\* small as the scheme allows for.
NoiseTolerated(SK, E, n, y) ==
  CASE inst.scheme = "lwe" -> LweTolerated(s, LweNoise(E, n, y), y)
    [] inst.scheme = "lwe_fs" -> LweFsTolerated(s, LweFsNoise(SK, n, y))
    [] inst.scheme = "ring_lwe" -> RingTolerated(s, RingNoise(s, SK, E, n, y), y)
Product(x, y) == IF inst.scheme = "ring_lwe" THEN MulMatrix(y, x) ELSE Dot(x, y)

Init ==
  /\ inst \in Instances
  /\ s = NoScheme /\ sk = <<>> /\ epoch = 0
  /\ pub = Nothing /\ ct = Nothing /\ key = Nothing
  /\ out = NotADecryption(Done(0))

Setup(b) ==
  /\ s = NoScheme
  /\ LET r == New(b)
     IN s' = (IF r.err = "NONE" THEN r.res ELSE NoScheme) /\ out' = NotADecryption(r)
  /\ UNCHANGED <<inst, sk, epoch, pub, ct, key>>

GenerateSecKey(sampled) ==
  /\ s # NoScheme /\ epoch < MaxEpoch
  /\ sk' = SecretKey(sampled) /\ epoch' = epoch + 1
  /\ UNCHANGED <<inst, s, pub, ct, key, out>>

\* May be repeated, with other noise under the same secret key.
GeneratePubKey(E) ==
  /\ epoch > 0
  /\ LET r == PublicKey(sk, E)
     IN /\ pub' = IF r.err = "NONE" THEN [epoch |-> epoch, E |-> E, pk |-> r.res] ELSE pub
        /\ out' = NotADecryption(r)
  /\ UNCHANGED <<inst, s, sk, epoch, ct, key>>

DeriveFeKey(y) ==
  /\ epoch > 0 /\ key = Nothing
  /\ LET r == FeKey(sk, y)
     IN /\ key' = IF r.err = "NONE" THEN [epoch |-> epoch, y |-> y, sk |-> sk, key |-> r.res]
                                    ELSE key
        /\ out' = NotADecryption(r)
  /\ UNCHANGED <<inst, s, sk, epoch, pub, ct>>

Encrypt(x, n) ==
  /\ pub # Nothing /\ ct = Nothing
  /\ LET r == Ciphertext(x, pub.pk, n)
     IN /\ ct' = IF r.err = "NONE"
                 THEN [epoch |-> pub.epoch, x |-> x, E |-> pub.E, n |-> n, ct |-> r.res]
                 ELSE ct
        /\ out' = NotADecryption(r)
  /\ UNCHANGED <<inst, s, sk, epoch, pub, key>>

Decrypt(y) ==
  /\ ct # Nothing /\ key # Nothing
  /\ LET r == Plaintext(ct.ct, key.key, y)
     IN out' = IF r.err = "NONE" /\ ct.epoch = key.epoch /\ key.y = y
               THEN [same |-> NoiseTolerated(key.sk, ct.E, ct.n, y), err |-> r.err,
                     res |-> r.res, x |-> ct.x, y |-> y]
               ELSE NotADecryption(r)
  /\ UNCHANGED <<inst, s, sk, epoch, pub, ct, key>>

Next ==
  \/ \E b \in inst.bounds : Setup(b)
  \/ \E sampled \in inst.secrets : GenerateSecKey(sampled)
  \/ \E E \in inst.noises : GeneratePubKey(E)
  \/ \E y \in inst.ys : DeriveFeKey(y)
  \/ \E x \in inst.xs, n \in inst.nonces : Encrypt(x, n)
  \/ \E y \in inst.ys : Decrypt(y)

Spec == Init /\ [][Next]_vars

-----------------------------------------------------------------------------
\* The types of what the machines hold and exchange.
TypeOK ==
  /\ epoch \in 0..MaxEpoch /\ pub.epoch \in 0..epoch
  /\ key # Nothing => \A i \in DOMAIN key.key : key.key[i] \in Residues(s.q)
  /\ pub # Nothing =>
       \A i \in DOMAIN pub.pk : \A j \in DOMAIN pub.pk[i] : pub.pk[i][j] \in Residues(s.q)
  /\ out.err \in {"NONE", "ABORT", "PRIME_GEN_FAILED", "PARAM_GEN_FAILED",
                  "PRECONDITION_FAILED", "BOUND_CHECK_FAILED", "MALFORMED_INPUT"}

\* The data that a scheme can return the product of: within the bounds for LWE, whose
\* set-up chooses the length of p for them (lwe.c:59); for the others, with a product
\* below half the modulus.
Fits(x, y) ==
  CASE inst.scheme = "lwe" -> Bounded(x, s.bx) /\ Bounded(y, s.by)
    [] inst.scheme = "lwe_fs" -> LweFsInRange(s, Product(x, y))
    [] inst.scheme = "ring_lwe" -> RingInRange(s, Product(x, y))

\* A ciphertext under any public key of the secret key that a functional key comes from
\* decrypts to the product itself, although both carry noise and whatever else has
\* been sampled since, as long as the noise is within what rounding takes away
\* (lwe.c:270-329, lwe_fs.c:286-330, ring_lwe.c:243-310).
DecryptCorrect == out.same /\ Fits(out.x, out.y) => out.res = Product(out.x, out.y)

-----------------------------------------------------------------------------
(* The inductive invariant behind both. *)

\* Before the set-up there is nothing; after it there is a scheme of this instance.
SetUp ==
  IF s = NoScheme THEN epoch = 0 /\ pub = Nothing /\ ct = Nothing /\ key = Nothing
  ELSE \E b \in inst.bounds : New(b) = Done(s)

\* What is held and exchanged was made from the numbers that h has for its epoch and
\* from noise of the samplers, by calls that did not fail.
Genuine(h) ==
  /\ epoch > 0 => sk = SecretKey(h[epoch])
  /\ pub # Nothing =>
       /\ pub.epoch \in 1..epoch /\ pub.E \in inst.noises
       /\ PublicKey(SecretKey(h[pub.epoch]), pub.E) = Done(pub.pk)
  /\ ct # Nothing =>
       /\ ct.epoch \in 1..epoch /\ ct.x \in inst.xs /\ ct.E \in inst.noises /\ ct.n \in inst.nonces
       /\ Ciphertext(ct.x, PublicKey(SecretKey(h[ct.epoch]), ct.E).res, ct.n) = Done(ct.ct)
  /\ key # Nothing =>
       /\ key.epoch \in 1..epoch /\ key.y \in inst.ys /\ key.sk = SecretKey(h[key.epoch])
       /\ FeKey(key.sk, key.y) = Done(key.key)

\* TypeOK and DecryptCorrect, and that ciphertexts and keys have a history of secret
\* keys behind them, of which the authority keeps the last one only (lwe.c:149-329,
\* lwe_fs.c:157-330, ring_lwe.c:92-310).
IInv ==
  /\ TypeOK /\ DecryptCorrect /\ SetUp /\ inst \in Instances
  /\ s # NoScheme => \E h \in [1..epoch -> inst.secrets] : Genuine(h)
=============================================================================
