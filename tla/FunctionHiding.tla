-------------------------- MODULE FunctionHiding -----------------------------
(***************************************************************************)
(* The function-hiding schemes and the quadratic scheme: their operations, *)
(* on exponents modulo the order of the pairing groups, and the machines   *)
(* that run them.                                                          *)
(***************************************************************************)
EXTENDS Matrices

(***************************************************************************)
(* The function-hiding scheme (src/innerprod/fullysec/fhipe.c), on         *)
(* exponents modulo the order q of the pairing groups.                     *)
(***************************************************************************)

FhipeNew(q, l, bx, by) ==
  IF bx * by * l >= q THEN Failed("PRECONDITION_FAILED")
  ELSE Done([q |-> q, l |-> l, bx |-> bx, by |-> by])

\* n has the exponents of both generators and the matrix B that are sampled.
FhipeGenerateMasterKey(s, n) ==
  LET r == InverseGauss(n.B, s.q)
  IN IF r.err # "NONE" THEN r
     ELSE Done([g1 |-> n.g1, g2 |-> n.g2, B |-> n.B,
                Bstar |-> MatMod(MulScalar(Transpose(r.res.mat), r.res.det, Transpose(r.res.mat)),
                                 s.q)])

\* The products of elements that are all g with the numbers of v.
FhipePowers(s, v, g) == VecMulVec(v, [i \in DOMAIN v |-> g], s.q, 0)

\* Mutant of FhipeFirstElement: without the determinant.
FhipeFirstElementPlain(s, msk, alpha) == (msk.g1 * alpha) % s.q

\* The element that the logarithm is taken to.
FhipeFirstElement(s, msk, alpha) == (msk.g1 * alpha * DeterminantGauss(msk.B, s.q)) % s.q

FhipeDeriveFeKey(s, msk, y, alpha) ==
  IF ~CheckBound(y, s.by) THEN Failed("BOUND_CHECK_FAILED")
  ELSE LET By == VecMod(MulVec(msk.B, y), s.q)
       IN Done([k1 |-> FhipeFirstElement(s, msk, alpha),
                k2 |-> FhipePowers(s, VecMod(VecScale(By, alpha), s.q), msk.g1)])

FhipeEncrypt(s, msk, x, beta) ==
  IF ~CheckBound(x, s.bx) THEN Failed("BOUND_CHECK_FAILED")
  ELSE LET Bx == VecMod(MulVec(msk.Bstar, x), s.q)
       IN Done([c1 |-> (msk.g2 * beta) % s.q,
                c2 |-> FhipePowers(s, VecMod(VecScale(Bx, beta), s.q), msk.g2)])

FhipeReach(s) == s.bx * s.by * s.l

\* The base of the logarithm that decryption takes.
FhipeBase(s, ct, key) == (ct.c1 * key.k1) % s.q

FhipeDecrypt(s, ct, key) == SearchBase(s.q, FhipeBase(s, ct, key), Dot(ct.c2, key.k2) % s.q, FhipeReach(s))

-----------------------------------------------------------------------------
(***************************************************************************)
(* The function-hiding scheme for several clients                          *)
(* (src/innerprod/fullysec/fh_multi_ipe.c), on exponents modulo the order  *)
(* q of the pairing groups.  Clients are numbered from 0.                  *)
(***************************************************************************)

FhMultiNew(q, sec, clients, l, bx, by) ==
  IF bx * by * l * clients >= q THEN Failed("PRECONDITION_FAILED")
  ELSE Done([q |-> q, sec |-> sec, clients |-> clients, l |-> l, bx |-> bx, by |-> by])

FhMultiWidth(s) == 2 * s.l + 2 * s.sec + 1

\* cfe_fh_multi_ipe_random_OB: B and the basis that is mu times dual to it.
RandomOB(B, mu, q) ==
  LET r == InverseGauss(B, q)
  IN IF r.err # "NONE" THEN r
     ELSE LET dual == Transpose(r.res.mat)
          IN Done([B |-> B, Bstar |-> MatMod(MulScalar(dual, mu, dual), q)])

\* The row of either basis that row j of a client's part is a copy of.
RowOfB(s, j) ==
  CASE j < s.l -> j
    [] j = s.l -> j + s.l
    [] j > s.l -> j - 1 + s.l + s.sec

RowOfBstar(s, j) == IF j < s.l THEN j ELSE j + s.l

\* n has mu and the matrix B of every client.  The key of the first that has no
\* inverse fails.
FhMultiGenerateKeys(s, n) ==
  LET bases == [i \in 0..(s.clients - 1) |-> RandomOB(n.Bs[i], n.mu, s.q)]
  IN IF \E i \in DOMAIN bases : bases[i].err # "NONE" THEN Failed("NO_INVERSE")
     ELSE Done([mu |-> n.mu,
                Bhat |-> [i \in DOMAIN bases |->
                            [j \in 0..(s.l + s.sec) |-> bases[i].res.B[RowOfB(s, j)]]],
                BstarHat |-> [i \in DOMAIN bases |->
                            [j \in 0..(s.l + s.sec - 1) |-> bases[i].res.Bstar[RowOfBstar(s, j)]]]])

\* The sampled matrix, with the number in its first row that makes it sum up to 0.
Gammas(s, gamma) ==
  LET last == s.clients - 1
  IN [gamma EXCEPT ![0][last] = -SumFunction([i \in 0..(last - 1) |-> gamma[0][i]])]

\* y has a vector for every client.
FhMultiDeriveFeKey(s, msk, y, gamma) ==
  IF ~MatCheckBound(y, s.by) THEN Failed("BOUND_CHECK_FAILED")
  ELSE LET g == Gammas(s, gamma)
           Factors(i) == [j \in 0..(s.l + s.sec - 1) |-> IF j < s.l THEN y[i][j] ELSE g[j - s.l][i]]
           row == [i \in 0..(s.clients - 1) |-> VecMod(MulMatrix(Factors(i), msk.BstarHat[i]), s.q)]
       IN Done([mu |-> msk.mu, key |-> MatMulGen(row, s.q, 0)])

\* With part, the matrix of the client.
FhMultiEncrypt(s, part, x, phi) ==
  IF ~CheckBound(x, s.bx) THEN Failed("BOUND_CHECK_FAILED")
  ELSE LET factors == [j \in 0..(s.l + s.sec) |->
                         IF j < s.l THEN x[j] ELSE IF j = s.l THEN 1 ELSE phi[j - s.l - 1]]
       IN Done(VecMulGen(VecMod(MulMatrix(factors, part), s.q), s.q))

FhMultiReach(s) == s.bx * s.by * s.clients * s.l

\* key.mu is the public key, which comes with it.
FhMultiDecrypt(s, cts, key) ==
  SearchBase(s.q, key.mu % s.q, SumFunction([i \in DOMAIN cts |-> Dot(key.key[i], cts[i])]) % s.q,
             FhMultiReach(s))

-----------------------------------------------------------------------------
(***************************************************************************)
(* The scheme for quadratic polynomials (src/quadratic/sgp.c), on          *)
(* exponents modulo the order q of the pairing groups.                     *)
(***************************************************************************)

SgpNew(q, l, b) ==
  IF b * b * b * l * l > q THEN Failed("BOUND_CHECK_FAILED")
  ELSE Done([q |-> q, l |-> l, bound |-> b])

\* n has the sampled vectors.
SgpGenerateSecKey(s, n) == Done([s |-> n.s, t |-> n.t])

SgpDeriveFeKey(s, msk, f) ==
  IF ~MatCheckBound(f, s.bound) THEN Failed("BOUND_CHECK_FAILED")
  ELSE IF Rows(f) # s.l \/ Cols(f) # s.l THEN Failed("MALFORMED_INPUT")
  ELSE Done(XMatY(f, msk.s, msk.t) % s.q)

\* cfe_sgp_cipher_init: the element that encryption multiplies.
FreshCipher == [g |-> 1]

\* n has the matrix W and the number gamma that are sampled; the ciphertext goes to a
\* structure whose element has the exponent g.
SgpEncrypt(s, msk, x, y, n, g) ==
  IF ~CheckBound(x, s.bound) \/ ~CheckBound(y, s.bound) THEN Failed("BOUND_CHECK_FAILED")
  ELSE IF Length(x) # s.l \/ Length(y) # s.l THEN Failed("MALFORMED_INPUT")
  ELSE LET inv == InverseMat(n.W, s.q)
           Pair(u, v) == [k \in 0..1 |-> IF k = 0 THEN u ELSE v]
           a == [i \in 0..(s.l - 1) |->
                   VecMod(MulVec(Transpose(inv.res), Pair(x[i], (n.gamma * msk.s[i]) % s.q)), s.q)]
           b == [i \in 0..(s.l - 1) |-> VecMod(MulVec(n.W, Pair(y[i], -msk.t[i])), s.q)]
       IN IF inv.err # "NONE" THEN Failed(inv.err)
          ELSE Done([a |-> MatMod(a, s.q), b |-> MatMod(b, s.q), g |-> (g * n.gamma) % s.q])

SgpReach(s) == s.bound * s.bound * s.bound * s.l * s.l

\* The sum of the entries of f with what the pairings give for them.
PairAll(ct, f) ==
  SumFunction([ij \in (DOMAIN f) \X (DOMAIN f) |-> f[ij[1]][ij[2]] * Dot(ct.a[ij[1]], ct.b[ij[2]])])

SgpDecrypt(s, ct, key, f) == SearchGT(s.q, (key * ct.g + PairAll(ct, f)) % s.q, SgpReach(s))

-----------------------------------------------------------------------------
(***************************************************************************)
(* The secret-key schemes over pairings as their machines run them: FHIPE, *)
(* its form for several clients, and the scheme for quadratic polynomials. *)
(* An authority replaces its master key at will; clients encrypt with the  *)
(* part of it that they have received last, and may write a ciphertext to  *)
(* the structure of an earlier one; the decryptor combines the ciphertexts *)
(* of all clients with a functional key.                                   *)
(***************************************************************************)
CONSTANTS
  Instances,    \* which schemes are run, with which arguments, samples and inputs
  MaxEpoch,     \* bound of the model: how often master keys are generated
  MaxUses       \* bound of the model: how often a structure is written to

\* An instance: the scheme, the order of its groups, the number of clients, the length
\* of the vectors, the level of security of the form for several clients, the bounds
\* that set-up is tried with, the inputs, and the numbers that the sampler returns for
\* master keys, functional keys and ciphertexts.
IsInstance(n) ==
  /\ n.scheme \in {"fhipe", "fh_multi_ipe", "sgp"}
  /\ n.q \in Nat /\ n.q > 2 /\ n.l \in Nat \ {0} /\ n.clients \in Nat \ {0}
  /\ n.scheme # "fh_multi_ipe" => n.clients = 1
  /\ n.bounds \subseteq Nat \X Nat

InstanceAssumption ==
  /\ \A n \in Instances : IsInstance(n)
  /\ MaxEpoch \in Nat /\ MaxUses \in Nat

VARIABLES
  inst,      \* the instance that is run
  s,         \* the scheme; NoScheme before it is set up
  msk,       \* the master key, or that there is none
  epoch,     \* how often one has been generated
  held,      \* for every client, the part that it has received, and its epoch
  sent,      \* for every client, its last ciphertext, and what it is of
  key,       \* a functional key, and what it is for
  out        \* what the last call returned; for a decryption, also what of

vars == <<inst, s, msk, epoch, held, sent, key, out>>

Clients == 0..(inst.clients - 1)
NoScheme == [l |-> 0]
Nothing == [epoch |-> 0]
NotADecryption(r) == [together |-> FALSE, err |-> r.err]

\* The operations of the scheme that is run.
New(b) ==
  CASE inst.scheme = "fhipe" -> FhipeNew(inst.q, inst.l, b[1], b[2])
    [] inst.scheme = "fh_multi_ipe" -> FhMultiNew(inst.q, inst.sec, inst.clients, inst.l, b[1], b[2])
    [] inst.scheme = "sgp" -> SgpNew(inst.q, inst.l, b[1])
MasterKey(n) ==
  CASE inst.scheme = "fhipe" -> FhipeGenerateMasterKey(s, n)
    [] inst.scheme = "fh_multi_ipe" -> FhMultiGenerateKeys(s, n)
    [] inst.scheme = "sgp" -> SgpGenerateSecKey(s, n)
Part(i) == IF inst.scheme = "fh_multi_ipe" THEN msk.key.Bhat[i] ELSE msk.key
FeKey(y, n) ==
  CASE inst.scheme = "fhipe" -> FhipeDeriveFeKey(s, msk.key, y, n)
    [] inst.scheme = "fh_multi_ipe" -> FhMultiDeriveFeKey(s, msk.key, y, n)
    [] inst.scheme = "sgp" -> SgpDeriveFeKey(s, msk.key, y)
Ciphertext(i, x, n, old) ==
  CASE inst.scheme = "fhipe" -> FhipeEncrypt(s, held[i].part, x, n)
    [] inst.scheme = "fh_multi_ipe" -> FhMultiEncrypt(s, held[i].part, x, n)
    [] inst.scheme = "sgp" -> SgpEncrypt(s, held[i].part, x.x, x.y, n, old.g)
Plaintext ==
  CASE inst.scheme = "fhipe" -> FhipeDecrypt(s, sent[0].ct, key.key)
    [] inst.scheme = "fh_multi_ipe" -> FhMultiDecrypt(s, [i \in Clients |-> sent[i].ct], key.key)
    [] inst.scheme = "sgp" -> SgpDecrypt(s, sent[0].ct, key.key, key.y)

\* What a decryption of inputs x of all clients is for.
Value(x, y) ==
  CASE inst.scheme = "fhipe" -> Dot(x[0], y)
    [] inst.scheme = "fh_multi_ipe" -> MatDot(x, y)
    [] inst.scheme = "sgp" -> XMatY(y, x[0].x, x[0].y)
WithinBounds(x, y) ==
  CASE inst.scheme = "fhipe" -> Bounded(x[0], s.bx) /\ Bounded(y, s.by)
    [] inst.scheme = "fh_multi_ipe" -> MatBounded(x, s.bx) /\ MatBounded(y, s.by)
    [] inst.scheme = "sgp" ->
         Bounded(x[0].x, s.bound) /\ Bounded(x[0].y, s.bound) /\ MatBounded(y, s.bound)
Reach ==
  CASE inst.scheme = "fhipe" -> FhipeReach(s)
    [] inst.scheme = "fh_multi_ipe" -> FhMultiReach(s)
    [] inst.scheme = "sgp" -> SgpReach(s)
\* The sampled numbers leave the base of the logarithm other than 1.
BaseIsRegular ==
  CASE inst.scheme = "fhipe" -> FhipeBase(s, sent[0].ct, key.key) # 0
    [] inst.scheme = "fh_multi_ipe" -> key.key.mu % s.q # 0
    [] inst.scheme = "sgp" -> TRUE

Init ==
  /\ inst \in Instances
  /\ s = NoScheme /\ msk = Nothing /\ epoch = 0
  /\ held = [i \in Clients |-> Nothing] /\ sent = [i \in Clients |-> Nothing]
  /\ key = Nothing
  /\ out = NotADecryption(Done(0))

Setup(b) ==
  /\ s = NoScheme
  /\ LET r == New(b)
     IN s' = (IF r.err = "NONE" THEN r.res ELSE NoScheme) /\ out' = NotADecryption(r)
  /\ UNCHANGED <<inst, msk, epoch, held, sent, key>>

\* A call that fails has overwritten a part of the key.
GenerateMasterKey(n) ==
  /\ s # NoScheme /\ epoch < MaxEpoch
  /\ LET r == MasterKey(n)
     IN /\ msk' = IF r.err = "NONE" THEN [epoch |-> epoch + 1, key |-> r.res] ELSE Nothing
        /\ epoch' = IF r.err = "NONE" THEN epoch + 1 ELSE epoch
        /\ out' = NotADecryption(r)
  /\ UNCHANGED <<inst, s, held, sent, key>>

Receive(i) ==
  /\ msk # Nothing /\ held[i].epoch # msk.epoch
  /\ held' = [held EXCEPT ![i] = [epoch |-> msk.epoch, part |-> Part(i)]]
  /\ UNCHANGED <<inst, s, msk, epoch, sent, key, out>>

DeriveFeKey(y, n) ==
  /\ msk # Nothing /\ key = Nothing
  /\ LET r == FeKey(y, n)
     IN /\ key' = IF r.err = "NONE" THEN [epoch |-> msk.epoch, y |-> y, key |-> r.res] ELSE key
        /\ out' = NotADecryption(r)
  /\ UNCHANGED <<inst, s, msk, epoch, held, sent>>

\* The client encrypts and sends the result.  In the quadratic scheme it does so to a
\* structure that it has initialised or to that of its last ciphertext; the other
\* schemes overwrite all of a structure.
Encrypt(i, x, n, fresh) ==
  /\ held[i] # Nothing
  /\ fresh \/ (inst.scheme = "sgp" /\ sent[i] # Nothing /\ sent[i].uses < MaxUses)
  /\ LET r == Ciphertext(i, x, n, IF fresh THEN FreshCipher ELSE sent[i].ct)
     IN /\ out' = NotADecryption(r)
        /\ sent' = IF r.err # "NONE" THEN sent
                   ELSE [sent EXCEPT ![i] = [epoch |-> held[i].epoch, x |-> x, ct |-> r.res,
                           uses |-> IF fresh THEN 1 ELSE sent[i].uses + 1]]
  /\ UNCHANGED <<inst, s, msk, epoch, held, key>>

Decrypt ==
  /\ key # Nothing /\ \A i \in Clients : sent[i] # Nothing
  /\ LET r == Plaintext
     IN out' = IF (\A i \in Clients : sent[i].epoch = key.epoch) /\ BaseIsRegular
               THEN [together |-> TRUE, err |-> r.err, res |-> r.res, y |-> key.y,
                     x |-> [i \in Clients |-> sent[i].x],
                     first |-> \A i \in Clients : sent[i].uses = 1]
               ELSE NotADecryption(r)
  /\ UNCHANGED <<inst, s, msk, epoch, held, sent, key>>

Next ==
  \/ \E b \in inst.bounds : Setup(b)
  \/ \E n \in inst.masters : GenerateMasterKey(n)
  \/ \E i \in Clients : Receive(i)
  \/ \E y \in inst.ys, n \in inst.keyNonces : DeriveFeKey(y, n)
  \/ \E i \in Clients, x \in inst.xs, n \in inst.nonces, fresh \in BOOLEAN :
       Encrypt(i, x, n, fresh)
  \/ Decrypt

Spec == Init /\ [][Next]_vars

-----------------------------------------------------------------------------
\* The types of what the machines hold and exchange.
TypeOK ==
  /\ epoch \in 0..MaxEpoch
  /\ \A i \in Clients : held[i].epoch \in 0..epoch /\ sent[i].epoch \in 0..held[i].epoch
  /\ inst.scheme = "fhipe" /\ key # Nothing =>
       key.key.k1 \in Residues(s.q) /\ VecMod(key.key.k2, s.q) = key.key.k2
  /\ inst.scheme = "sgp" /\ key # Nothing => key.key \in Residues(s.q)
  /\ inst.scheme = "fh_multi_ipe" /\ key # Nothing => MatMod(key.key.key, s.q) = key.key.key
  /\ out.err \in {"NONE", "PRECONDITION_FAILED", "BOUND_CHECK_FAILED", "MALFORMED_INPUT",
                  "NO_INVERSE", "DLOG_NOT_FOUND"}

Returned(x, y) == out.err = "NONE" /\ out.res = Value(x, y)

\* Bounded inputs of all clients under the master key of the functional key decrypt to
\* the value of the function, whatever master keys have come and gone: the bases, the
\* determinant and the random numbers cancel (fhipe.c:199-221, fh_multi_ipe.c:264-287,
\* sgp.c:175-249).  It does not matter what a structure held before, except in the
\* quadratic scheme.  The bound must leave the search no value to mistake for another,
\* and the base of the logarithm must be other than 1.
DecryptCorrect ==
  /\ out.together
  /\ WithinBounds(out.x, out.y) /\ UnambiguousGT(s.q, Reach)
  /\ out.first
  => Returned(out.x, out.y)
=============================================================================
