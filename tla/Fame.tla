-------------------------------- MODULE Fame --------------------------------
(***************************************************************************)
(* The operations of FAME, ciphertext-policy encryption                    *)
(* (src/abe/fame.c), on exponents of the pairing groups of prime order p.  *)
(* A tape is what the sampler returns, call after call.                    *)
(***************************************************************************)
EXTENDS Policy

CONSTANT Hash(_)      \* cfe_hash_G1, as the exponent of the element returned

\* cfe_fame_generate_master_keys.
SecretKey(tape) == [int |-> [j \in 0..3 |-> tape[j]], g1 |-> [j \in 0..2 |-> tape[j + 4]]]
PublicKey(p, sk) ==
  [g2 |-> [j \in 0..1 |-> sk.int[j] % p],
   gt |-> [j \in 0..1 |-> (sk.int[j] * sk.g1[j] + sk.g1[2]) % p]]

\* cfe_fame_encrypt: ct binds row and attribute with the hashes, prime hides msg.
Encrypt(p, msg, msp, pk, tape) ==
  LET Blind(label) == Hash(label \o <<0>>) * tape[0] + Hash(label \o <<1>>) * tape[1]
      Entry(r, l) ==
        Blind(<<r.attr, l>>)
          + SumFunction([j \in 0..(msp.cols - 1) |-> Blind(<<0, j, l>>) * r.row[j]])
  IN [ct0 |-> <<(pk.g2[0] * tape[0]) % p, (pk.g2[1] * tape[1]) % p, (tape[0] + tape[1]) % p>>,
      ct |-> [i \in DOMAIN msp.rows |-> [l \in 0..2 |-> Entry(msp.rows[i], l) % p]],
      prime |-> (pk.gt[0] * tape[0] + pk.gt[1] * tape[1] + msg) % p,
      msp |-> msp]

\* Mutant of GenerateAttribKeys: the last part is not negated.
GenerateAttribKeysPlus(p, gamma, sk, tape) ==
  LET pow == <<sk.int[2] * tape[0], sk.int[3] * tape[1], tape[0] + tape[1]>>
      Blind(label, t) == SumFunction([j \in 1..3 |-> Hash(label \o <<j - 1, t>>) * pow[j]])
      Part(label, sigma, t) ==
        IF t = 2 THEN sigma ELSE (sigma + Blind(label, t)) * InverseMod(sk.int[t], p)
  IN [k0 |-> VecMod(pow, p),
      k |-> [i \in DOMAIN gamma |-> [t \in 0..2 |-> Part(<<gamma[i]>>, tape[i + 1], t) % p]],
      prime |-> [t \in 0..2 |-> (Part(<<0, 0>>, tape[Len(gamma) + 2], t) + sk.g1[t]) % p],
      gamma |-> gamma]

\* cfe_fame_generate_attrib_keys for the attributes gamma.
GenerateAttribKeys(p, gamma, sk, tape) ==
  LET pow == <<sk.int[2] * tape[0], sk.int[3] * tape[1], tape[0] + tape[1]>>
      Blind(label, t) == SumFunction([j \in 1..3 |-> Hash(label \o <<j - 1, t>>) * pow[j]])
      Part(label, sigma, t) ==
        IF t = 2 THEN -sigma ELSE (sigma + Blind(label, t)) * InverseMod(sk.int[t], p)
  IN [k0 |-> VecMod(pow, p),
      k |-> [i \in DOMAIN gamma |-> [t \in 0..2 |-> Part(<<gamma[i]>>, tape[i + 1], t) % p]],
      prime |-> [t \in 0..2 |-> (Part(<<0, 0>>, tape[Len(gamma) + 2], t) + sk.g1[t]) % p],
      gamma |-> gamma]

\* The pairs of a key and a row that decryption combines: for every key, in order,
\* the first row with its attribute.
Intersection(gamma, rows) ==
  LET First(a) == Min({j \in DOMAIN rows : rows[j].attr = a})
      known == SelectSeq([i \in DOMAIN gamma |-> i],
                         LAMBDA i : \E j \in DOMAIN rows : rows[j].attr = gamma[i])
  IN [n \in DOMAIN known |-> [key |-> known[n], row |-> First(gamma[known[n]])]]

\* cfe_fame_decrypt.
Decrypt(p, cipher, keys) ==
  LET use == Intersection(keys.gamma, cipher.msp.rows)
      alpha == Combine([n \in DOMAIN use |-> cipher.msp.rows[use[n].row]], cipher.msp.cols,
                       Padded([k \in {0} |-> 1], cipher.msp.cols), p)
      CtProd(t) == SumFunction([n \in DOMAIN use |-> cipher.ct[use[n].row][t] * alpha.res[n - 1]])
      KeyProd(t) == SumFunction([n \in DOMAIN use |-> keys.k[use[n].key][t] * alpha.res[n - 1]])
                      + keys.prime[t]
      Factor(t) == keys.k0[t + 1] * CtProd(t) - cipher.ct0[t + 1] * KeyProd(t)
  IN IF alpha.err # "NONE" THEN Failed("INSUFFICIENT_KEYS")
     ELSE Done((cipher.prime + Factor(0) + Factor(1) + Factor(2)) % p)

IsKey(p, keys) ==
  /\ keys.k0 \in [1..3 -> Residues(p)] /\ keys.prime \in [0..2 -> Residues(p)]
  /\ keys.k \in [DOMAIN keys.gamma -> [0..2 -> Residues(p)]]
IsCipher(p, cipher) ==
  /\ cipher.ct0 \in [1..3 -> Residues(p)] /\ cipher.prime \in Residues(p)
  /\ cipher.ct \in [DOMAIN cipher.msp.rows -> [0..2 -> Residues(p)]]
=============================================================================
