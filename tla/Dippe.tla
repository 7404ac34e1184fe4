------------------------------- MODULE Dippe --------------------------------
(***************************************************************************)
(* The operations of DIPPE, decentralised encryption with inner-product    *)
(* policies (src/abe/dippe.c), on exponents of the pairing groups of prime *)
(* order s.p.  Entry m of a policy vector and of an attribute vector       *)
(* belongs to authority m; a tape is what the sampler returns.             *)
(***************************************************************************)
EXTENDS LinearSystem, Sequences

CONSTANT Hash(_)      \* cfe_hash_G2, as the exponent of the element returned

\* The entries of a vector or a matrix, row by row, from a place on the tape.
Entry(tape, from, cols, i, j) == tape[from + i * cols + j]
TapeMat(tape, from, rows, cols) ==
  [i \in 0..(rows - 1) |-> [j \in 0..(cols - 1) |-> Entry(tape, from, cols, i, j)]]

\* cfe_mat_mul, cfe_mat_transpose, and cfe_mat_G1_mul_vec (src/data/mat_curve.c).
Transpose(A) == [j \in DOMAIN A[0] |-> [i \in DOMAIN A |-> A[i][j]]]
MatVec(A, x, p) == [i \in DOMAIN A |-> Dot(A[i], x) % p]
MatMul(A, B, p) == [i \in DOMAIN A |-> MatVec(Transpose(B), A[i], p)]

\* cfe_dippe_init: A is random with assump_size = k columns, and UA a random
\* multiple of it.
New(p, k, tape) ==
  LET A == TapeMat(tape, 0, k + 1, k)
  IN [p |-> p, k |-> k, A |-> A, UA |-> MatMul(TapeMat(tape, (k + 1) * k, k + 1, k + 1), A, p)]

\* cfe_dippe_generate_master_keys.
SecretKey(s, tape) ==
  [sigma |-> tape[0], alpha |-> [i \in 0..s.k |-> tape[i + 1]],
   W |-> TapeMat(tape, s.k + 2, s.k + 1, s.k + 1)]
PublicKey(s, sk) ==
  [sigma |-> sk.sigma % s.p, WA |-> MatMul(Transpose(sk.W), s.A, s.p),
   alphaA |-> MatVec(Transpose(s.A), sk.alpha, s.p)]

\* cfe_dippe_encrypt under the policy vector pv.
Encrypt(s, pks, pv, msg, tape) ==
  LET r == [j \in 0..(s.k - 1) |-> tape[j]]
      Row(m) == VecAdd([i \in 0..s.k |-> pv[m] * Dot(s.UA[i], r)], MatVec(pks[m].WA, r, s.p))
  IN IF DOMAIN pks # DOMAIN pv THEN Failed("INSUFFICIENT_KEYS")
     ELSE Done([C0 |-> MatVec(s.A, r, s.p), Ci |-> [m \in DOMAIN pks |-> VecMod(Row(m), s.p)],
                prime |-> (SumFunction([m \in DOMAIN pks |-> Dot(pks[m].alphaA, r)]) + msg) % s.p])

\* A vector in the text that is hashed, and the hashes of a user with that vector.
Text(av) == [m \in 1..Cardinality(DOMAIN av) |-> av[m - 1]]
UserHash(s, gid, av) == [i \in 0..s.k |-> Hash(<<i, gid>> \o Text(av))]

\* What the authority id adds for each other one: the two of a pair share the hashed
\* text, and the one with the smaller number subtracts.
Mue(s, id, pks, sk, av, gid) ==
  [i \in 0..s.k |-> SumFunction([j \in DOMAIN pks \ {id} |->
     (IF j < id THEN 1 ELSE -1) * Hash(<<i, (pks[j].sigma * sk.sigma) % s.p, gid>> \o Text(av))])]

\* cfe_dippe_keygen of the authority id.
KeyGen(s, id, pks, sk, av, gid) ==
  LET Wh == MatVec(sk.W, UserHash(s, gid, av), s.p)
      mue == Mue(s, id, pks, sk, av, gid)
  IN IF DOMAIN av # DOMAIN pks \/ id \notin DOMAIN pks THEN Failed("INSUFFICIENT_KEYS")
     ELSE Done([i \in 0..s.k |-> (sk.alpha[i] - av[id] * Wh[i] + mue[i]) % s.p])

\* cfe_dippe_decrypt with one key of every authority.
Decrypt(s, usks, cipher, av, gid) ==
  LET C0K == SumFunction([i \in 0..s.k |->
               cipher.C0[i] * SumFunction([j \in DOMAIN usks |-> usks[j][i]])])
      CiH == SumFunction([i \in 0..s.k |-> UserHash(s, gid, av)[i]
               * SumFunction([j \in DOMAIN usks |-> av[j] * cipher.Ci[j][i]])])
  IN IF DOMAIN av # DOMAIN usks THEN Failed("INSUFFICIENT_KEYS")
     ELSE Done((cipher.prime - (C0K + CiH)) % s.p)

-----------------------------------------------------------------------------
Malformed(pattern, n) == \E i \in DOMAIN pattern : pattern[i] >= n

\* cfe_dippe_attribute_vector_init: 1 for the attributes owned, and a last entry 1.
AttributeVector(n, pattern) ==
  IF Malformed(pattern, n) THEN Failed("MALFORMED_INPUT")
  ELSE Done([m \in 0..n |-> IF m = n \/ m \in Range(pattern) THEN 1 ELSE 0])

\* cfe_dippe_exact_threshold_policy_vector_init.
ThresholdVector(p, n, pattern, threshold) ==
  IF Malformed(pattern, n) THEN Failed("MALFORMED_INPUT")
  ELSE Done([m \in 0..n |-> IF m = n THEN -threshold % p
                            ELSE IF m \in Range(pattern) THEN 1 ELSE 0])

\* cfe_dippe_conjunction_policy_vector_init: a random number for each attribute of
\* the pattern, the last one if it is repeated, and last what makes the sum 0.
ConjunctionVector(p, n, pattern, tape) ==
  LET Last(m) == Max({i \in DOMAIN pattern : pattern[i] = m})
  IN IF Malformed(pattern, n) THEN Failed("MALFORMED_INPUT")
     ELSE Done([m \in 0..n |->
            IF m = n THEN (-SumFunction([i \in DOMAIN pattern |-> tape[i - 1]])) % p
            ELSE IF m \in Range(pattern) THEN tape[Last(m) - 1] ELSE 0])

IsKey(s, key) == key \in [0..s.k -> Residues(s.p)]
IsCipher(s, cipher) ==
  /\ cipher.C0 \in [0..s.k -> Residues(s.p)] /\ cipher.prime \in Residues(s.p)
  /\ \A m \in DOMAIN cipher.Ci : cipher.Ci[m] \in [0..s.k -> Residues(s.p)]
=============================================================================
