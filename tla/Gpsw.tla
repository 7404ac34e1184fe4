-------------------------------- MODULE Gpsw --------------------------------
(***************************************************************************)
(* The operations of GPSW, key-policy encryption (src/abe/gpsw.c), on      *)
(* exponents of the pairing groups of prime order p.  Attributes are the   *)
(* numbers below l.                                                        *)
(***************************************************************************)
EXTENDS Policy

\* cfe_gpsw_generate_master_keys; the public key has the same exponents.
SecretKey(p, l, tape) == [t |-> [a \in 0..(l - 1) |-> tape[a] % p], y |-> tape[l] % p]
PublicKey(sk) == sk

\* cfe_gpsw_encrypt for the attributes gamma.
Encrypt(p, msg, gamma, pk, tape) ==
  [e0 |-> (pk.y * tape[0] + msg) % p,
   e |-> [j \in DOMAIN gamma |-> (pk.t[gamma[j]] * tape[0]) % p],
   gamma |-> gamma]

\* cfe_gpsw_rand_vec_const_sum: numbers that add up to y.
RandVecConstSum(p, size, y, tape) ==
  [k \in 0..(size - 1) |->
     IF k < size - 1 THEN tape[k] ELSE (y - SumFunction([j \in 0..(size - 2) |-> tape[j]])) % p]

\* Mutant of GeneratePolicyKey: the exponents are not reduced.
GeneratePolicyKeyUnreduced(p, msp, sk, tape) ==
  LET u == RandVecConstSum(p, msp.cols, sk.y, tape)
  IN [d |-> [i \in DOMAIN msp.rows |->
               Dot(msp.rows[i].row, u) * InverseMod(sk.t[msp.rows[i].attr], p)],
      msp |-> msp]

\* cfe_gpsw_generate_policy_key.
GeneratePolicyKey(p, msp, sk, tape) ==
  LET u == RandVecConstSum(p, msp.cols, sk.y, tape)
  IN [d |-> [i \in DOMAIN msp.rows |->
               (Dot(msp.rows[i].row, u) * InverseMod(sk.t[msp.rows[i].attr], p)) % p],
      msp |-> msp]

\* cfe_gpsw_decrypt: every row of the key whose attribute the ciphertext has, with
\* the first place of the attribute there.
Decrypt(p, cipher, key) ==
  LET rows == key.msp.rows
      use == SelectSeq([i \in DOMAIN rows |-> i], LAMBDA i : rows[i].attr \in Range(cipher.gamma))
      Place(i) == Min({j \in DOMAIN cipher.gamma : cipher.gamma[j] = rows[i].attr})
      alpha == Combine([n \in DOMAIN use |-> rows[use[n]]], key.msp.cols,
                       [k \in 0..(key.msp.cols - 1) |-> 1], p)
  IN IF alpha.err # "NONE" THEN Failed("INSUFFICIENT_KEYS")
     ELSE Done((cipher.e0 - SumFunction([n \in DOMAIN use |->
                  cipher.e[Place(use[n])] * key.d[use[n]] * alpha.res[n - 1]])) % p)

IsKey(p, key) == key.d \in [DOMAIN key.msp.rows -> Residues(p)]
IsCipher(p, cipher) ==
  cipher.e0 \in Residues(p) /\ cipher.e \in [DOMAIN cipher.gamma -> Residues(p)]
=============================================================================
