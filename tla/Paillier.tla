------------------------------ MODULE Paillier ------------------------------
(***************************************************************************)
(* The Paillier scheme (src/innerprod/fullysec/paillier.c), on numbers     *)
(* modulo n^2, as its machines run it: an authority sets the scheme up and *)
(* generates keys, an encryptor uses the public key that it has received   *)
(* last, a decryptor combines any ciphertext with any functional key.      *)
(* Vectors are functions on 0..l-1, and a ciphertext is one on 0..l.       *)
(***************************************************************************)
EXTENDS Matrices

CONSTANTS
  Instances,    \* arguments, samples and inputs of the scheme
  MaxEpoch      \* bound of the model: how often master keys are generated

\* An instance: the length of the vectors, the pairs of primes that a search can find,
\* the numbers that the generator is made of, bounds that set-up is tried with, inputs,
\* and numbers that the samplers return for keys and ciphertexts.
IsInstance(n) ==
  /\ n.l \in Nat \ {0} /\ n.generators \subseteq Nat /\ n.nonces \subseteq Nat
  /\ \A p \in n.primes : p[1] \in Nat /\ p[1] > 4 /\ p[2] \in Nat /\ p[2] > 4
  /\ n.bounds \subseteq Nat \X Nat
  /\ n.xs \cup n.ys \cup n.secrets \subseteq [0..(n.l - 1) -> Int]
InstanceAssumption == MaxEpoch \in Nat /\ \A n \in Instances : IsInstance(n)

VARIABLES
  inst,      \* the instance that is run
  s,         \* the scheme; NoScheme before it is set up
  keys,      \* the master keys
  epoch,     \* how often they have been generated
  pub,       \* the public key of the encryptor, and its epoch
  ct,        \* a ciphertext under way, and what it is of
  key,       \* a functional key under way, and what it is for
  out        \* what the last call returned; for a decryption, also what of

vars == <<inst, s, keys, epoch, pub, ct, key, out>>

NoScheme == [l |-> 0]
Nothing == [epoch |-> 0]
NotADecryption(r) == [same |-> FALSE, err |-> r.err]

Invertible(b, m) == \E x \in 0..(m - 1) : (b * x) % m = 1

\* mpz_powm; it ends the program for a negative power of a number without an inverse.
PowM(b, e, m) ==
  IF e >= 0 THEN Done(Power(b % m, e, m))
  ELSE IF Invertible(b, m) THEN Done(Power(InverseMod(b, m), -e, m)) ELSE Failed("ABORT")

\* No prime has the length asked for, and the search refuses it (prime.c:54-56).
NoPrimes == <<0, 0>>

\* Mutant of New: it is not checked that the generator has an inverse.
NewUnchecked(l, p, g, b) ==
  LET n == p[1] * p[2]
  IN IF p = NoPrimes THEN Failed("PRECONDITION_FAILED")
     ELSE IF n <= b[1] * b[1] * l \/ n <= b[2] * b[2] * l THEN Failed("PARAM_GEN_FAILED")
     ELSE Done([l |-> l, n |-> n, n2 |-> n * n, bx |-> b[1], by |-> b[2],
                g |-> Power(g % (n * n), 2 * n, n * n)])

\* cfe_paillier_init with the primes p and the number g that it draws.
New(l, p, g, b) ==
  LET n == p[1] * p[2]
      generator == Power(Power(g % (n * n), n, n * n), 2, n * n)
  IN IF p = NoPrimes THEN Failed("PRECONDITION_FAILED")
     ELSE IF n <= b[1] * b[1] * l \/ n <= b[2] * b[2] * l \/ ~Invertible(generator, n * n)
     THEN Failed("PARAM_GEN_FAILED")
     ELSE Done([l |-> l, n |-> n, n2 |-> n * n, bx |-> b[1], by |-> b[2], g |-> generator])

PublicKey(msk) == [i \in DOMAIN msk |-> PowM(s.g, msk[i], s.n2)]

\* With the randomness r.
Ciphertext(x, mpk, r) ==
  [i \in 0..s.l |-> IF i = 0 THEN Power(s.g, r, s.n2)
                    ELSE ((x[i - 1] * s.n + 1) * Power(mpk[i - 1], r, s.n2)) % s.n2]

Centred(v) == IF v > s.n \div 2 THEN v - s.n ELSE v

\* The product of the powers, from which the mask is divided out.
Unmasked(c, k, y) ==
  LET powers == [i \in 0..s.l |-> PowM(c[i], IF i = 0 THEN -k ELSE y[i - 1], s.n2)]
      product[i \in 0..s.l] ==
        IF i = 0 THEN powers[0].res ELSE (product[i - 1] * powers[i].res) % s.n2
  IN IF \E i \in 0..s.l : powers[i].err # "NONE" THEN Failed("ABORT") ELSE Done(product[s.l])

Plaintext(c, k, y) ==
  LET r == Unmasked(c, k, y)
  IN IF ~CheckBound(y, s.by) THEN Failed("BOUND_CHECK_FAILED")
     ELSE IF r.err # "NONE" THEN r
     ELSE Done(Centred(((r.res - 1) % s.n2) \div s.n))

Init ==
  /\ inst \in Instances
  /\ s = NoScheme /\ keys = Nothing /\ epoch = 0
  /\ pub = Nothing /\ ct = Nothing /\ key = Nothing
  /\ out = NotADecryption(Done(0))

Setup(p, g, b) ==
  /\ s = NoScheme
  /\ LET r == New(inst.l, p, g, b)
     IN s' = (IF r.err = "NONE" THEN r.res ELSE NoScheme) /\ out' = NotADecryption(r)
  /\ UNCHANGED <<inst, keys, epoch, pub, ct, key>>

GenerateMasterKeys(msk) ==
  /\ s # NoScheme /\ epoch < MaxEpoch
  /\ LET mpk == PublicKey(msk)
     IN /\ out' = NotADecryption(IF \E i \in DOMAIN mpk : mpk[i].err # "NONE"
                                 THEN Failed("ABORT") ELSE Done(0))
        /\ keys' = [epoch |-> epoch + 1, msk |-> msk, mpk |-> [i \in DOMAIN mpk |-> mpk[i].res]]
  /\ epoch' = epoch + 1
  /\ UNCHANGED <<inst, s, pub, ct, key>>

\* The same for vectors of another size than the scheme's: nothing is done.
RefuseMasterKeys(size) ==
  /\ s # NoScheme /\ size # s.l
  /\ out' = NotADecryption(Failed("MALFORMED_INPUT"))
  /\ UNCHANGED <<inst, s, keys, epoch, pub, ct, key>>

Publish ==
  /\ pub.epoch # epoch
  /\ pub' = [epoch |-> epoch, mpk |-> keys.mpk]
  /\ UNCHANGED <<inst, s, keys, epoch, ct, key, out>>

DeriveFeKey(y) ==
  /\ epoch > 0 /\ key = Nothing
  /\ IF CheckBound(y, s.by)
     THEN /\ key' = [epoch |-> epoch, y |-> y, key |-> Dot(keys.msk, y)]
          /\ out' = NotADecryption(Done(0))
     ELSE /\ key' = key
          /\ out' = NotADecryption(Failed("BOUND_CHECK_FAILED"))
  /\ UNCHANGED <<inst, s, keys, epoch, pub, ct>>

Encrypt(x, r) ==
  /\ pub # Nothing /\ ct = Nothing /\ r < s.n \div 4
  /\ IF CheckBound(x, s.bx)
     THEN /\ ct' = [epoch |-> pub.epoch, x |-> x, c |-> Ciphertext(x, pub.mpk, r)]
          /\ out' = NotADecryption(Done(0))
     ELSE /\ ct' = ct
          /\ out' = NotADecryption(Failed("BOUND_CHECK_FAILED"))
  /\ UNCHANGED <<inst, s, keys, epoch, pub, key>>

Decrypt(y) ==
  /\ ct # Nothing /\ key # Nothing
  /\ LET r == Plaintext(ct.c, key.key, y)
     IN out' = IF r.err = "NONE" /\ ct.epoch = key.epoch /\ key.y = y
               THEN [same |-> TRUE, err |-> r.err, res |-> r.res, x |-> ct.x, y |-> y]
               ELSE NotADecryption(r)
  /\ UNCHANGED <<inst, s, keys, epoch, pub, ct, key>>

Next ==
  \/ \E p \in inst.primes \cup {NoPrimes}, g \in inst.generators, b \in inst.bounds :
       Setup(p, g, b)
  \/ \E msk \in inst.secrets : GenerateMasterKeys(msk)
  \/ RefuseMasterKeys(inst.l + 1)
  \/ Publish
  \/ \E y \in inst.ys : DeriveFeKey(y)
  \/ \E x \in inst.xs, r \in inst.nonces : Encrypt(x, r)
  \/ \E y \in inst.ys : Decrypt(y)

Spec == Init /\ [][Next]_vars

-----------------------------------------------------------------------------
\* The types of what the machines hold and exchange.
TypeOK ==
  /\ epoch \in 0..MaxEpoch /\ pub.epoch \in 0..epoch
  /\ ct # Nothing => \A i \in 0..s.l : ct.c[i] \in Residues(s.n2)
  /\ keys # Nothing => \A i \in DOMAIN keys.mpk : keys.mpk[i] \in Residues(s.n2)
  /\ out.err \in {"NONE", "ABORT", "MALFORMED_INPUT", "PRECONDITION_FAILED", "PARAM_GEN_FAILED",
                 "BOUND_CHECK_FAILED"}

\* No call ends the program: secret keys, functional keys and coordinates are negative
\* at will, and yet every number of which a negative power is taken has an inverse
\* modulo n^2, because set-up refuses a generator without one (paillier.c:57-61), and
\* so do the products that ciphertexts consist of (paillier.c:145, 209, 214).
NeverAborts == out.err # "ABORT"

\* A ciphertext and a functional key of the same master keys give the inner product,
\* whatever the primes (also twice the same), whatever keys have come since, and for
\* data beyond the bounds too, as long as it is within half of n (paillier.c:222-225).
DecryptCorrect ==
  out.same /\ 2 * Dot(out.x, out.y) \in (1 - s.n)..(s.n - 1) => out.res = Dot(out.x, out.y)

-----------------------------------------------------------------------------
(* The inductive invariant behind the three. *)

\* Before the set-up there is nothing; after it there is a scheme of this instance.
SetUp ==
  IF s = NoScheme
  THEN epoch = 0 /\ keys = Nothing /\ pub = Nothing /\ ct = Nothing /\ key = Nothing
  ELSE \E p \in inst.primes, g \in inst.generators, b \in inst.bounds : New(inst.l, p, g, b) = Done(s)

\* The numbers of the public key, once all of its powers have been found.
Numbers(msk) == [i \in DOMAIN msk |-> PublicKey(msk)[i].res]

\* What is held and exchanged was made with the master key that h has for its epoch, by
\* calls that did not end the program.
Genuine(h) ==
  /\ epoch > 0 => keys.msk = h[epoch] /\ keys.mpk = Numbers(h[epoch])
  /\ pub # Nothing => pub.epoch \in 1..epoch /\ pub.mpk = Numbers(h[pub.epoch])
  /\ ct # Nothing =>
       /\ ct.epoch \in 1..epoch /\ ct.x \in inst.xs
       /\ \E r \in inst.nonces : ct.c = Ciphertext(ct.x, Numbers(h[ct.epoch]), r)
  /\ key # Nothing =>
       key.epoch \in 1..epoch /\ key.y \in inst.ys /\ key.key = Dot(h[key.epoch], key.y)

\* The three, and that ciphertexts and keys have a history of master keys behind them,
\* of which the authority keeps the last one only (paillier.c:100-228).
IInv ==
  /\ TypeOK /\ NeverAborts /\ DecryptCorrect /\ SetUp /\ inst \in Instances
  /\ s # NoScheme => \E h \in [1..epoch -> inst.secrets] : Genuine(h)
=============================================================================
