--------------------------- MODULE ShareSchemes ------------------------------
(***************************************************************************)
(* The operations of the schemes whose clients have no authority: the      *)
(* shares of zero that hide what they send, and the schemes themselves.    *)
(***************************************************************************)
EXTENDS DdhMultiSchemes, Bags

(***************************************************************************)
(* How the clients of the decentralised schemes agree on shares that are   *)
(* zero together (damgard_dec_multi.c:45-80 and dmcfe.c:52-81).  Each has  *)
(* a Diffie-Hellman key pair, agrees with every other client on a          *)
(* pseudorandom matrix, adds the matrices of the earlier clients to its    *)
(* share and subtracts those of the later ones.                            *)
(*                                                                         *)
(* z is a record: the number n of clients, the order of the group, and the *)
(* matrix pad[e] that SHA256 and the sampler expand the element e to.      *)
(***************************************************************************)

Clients(z) == 0..(z.n - 1)
Elements(z) == 0..(z.order - 1)

\* The indices of a share, and the share of a client that has been initialised.
Rows(z) == DOMAIN z.pad[0]
Cols(z) == DOMAIN z.pad[0][0]
ZeroShare(z) == [r \in Rows(z) |-> [c \in Cols(z) |-> 0]]
IsShare(z, share) == share \in [Rows(z) -> [Cols(z) -> Elements(z)]]

\* The element that the owner of the secret key sk computes from a public key.
SharedElement(z, sk, pk) == (pk * sk) % z.order

\* Mutant of SignedPad: the index is compared with 0 and not with the client's own.
SignedPadFromZero(z, i, k, e, r, c) == IF k > 0 THEN -(z.pad[e][r][c]) ELSE z.pad[e][r][c]

\* The matrix of the element e in the share of i: negated for a later client k.
SignedPad(z, i, k, e, r, c) == IF k > i THEN -(z.pad[e][r][c]) ELSE z.pad[e][r][c]

\* Mutant of SetShare: the sum is not reduced.
SetShareUnreduced(z, i, sk, share, pks) ==
  [r \in Rows(z) |-> [c \in Cols(z) |->
     share[r][c] + SumFunction([k \in Clients(z) \ {i} |->
                                  SignedPad(z, i, k, SharedElement(z, sk, pks[k]), r, c)])]]

\* What the share of client i becomes: the matrices are accumulated into it,
\* whatever it holds.
SetShare(z, i, sk, share, pks) ==
  [r \in Rows(z) |-> [c \in Cols(z) |->
     (share[r][c] + SumFunction([k \in Clients(z) \ {i} |->
                                   SignedPad(z, i, k, SharedElement(z, sk, pks[k]), r, c)]))
       % z.order]]

-----------------------------------------------------------------------------
\* used[i][k] are the elements whose matrices client i has added for client k.
NoneUsed(z) == [k \in Clients(z) |-> EmptyBag]
Use(z, i, sk, u, pks) ==
  [k \in Clients(z) |-> IF k = i THEN EmptyBag
                        ELSE u[k] (+) SetToBag({SharedElement(z, sk, pks[k])})]

\* Any two clients have used the same elements for each other.
Agree(used) == \A i, k \in DOMAIN used : i # k => used[i][k] = used[k][i]

-----------------------------------------------------------------------------
(***************************************************************************)
(* The operations of the decentralised multi-input Damgard scheme          *)
(* (src/innerprod/fullysec/damgard_dec_multi.c): every client has a key    *)
(* and a pad of its own, and hides the contribution of its pad to a        *)
(* functional key under its share of zero (SetShare).                      *)
(***************************************************************************)

\* cfe_damgard_dec_multi_generate_keys, for given random values.
DecMultiSecretKeys(m, values, pads) ==
  [dam : DamgardSecretKeys(m.scheme, values), otp : [1..m.scheme.l -> pads]]

\* cfe_damgard_dec_multi_encrypt: x is checked, then hidden under the pad.
DecMultiEncrypt(m, key, x, r) ==
  IF ~CheckBound(x, m.bound) THEN Failed("BOUND_CHECK_FAILED")
  ELSE DamgardEncrypt(m.scheme, VecMod(VecAdd(x, key.otp), m.scheme.grp.q),
                   DamgardPublicKey(m.scheme, key.dam), r)

\* cfe_damgard_dec_multi_client_derive_fe_key_part.
DecMultiDeriveFeKeyPart(m, i, key, share, y) ==
  IF ~MatCheckBound(y, m.bound) THEN Failed("BOUND_CHECK_FAILED")
  ELSE Done([otp |-> (Dot(key.otp, y[i]) + MatDot(share, y)) % m.scheme.grp.q,
             dam |-> DamgardDeriveFeKey(m.scheme, key.dam, y[i]).res])

\* cfe_damgard_dec_multi_decrypt: the parts make up a key of the scheme with an
\* authority.
DecMultiDecrypt(m, ct, parts, y) ==
  IF ~MatCheckBound(y, m.bound) THEN Failed("BOUND_CHECK_FAILED")
  ELSE DamgardMultiDecrypt(m, ct,
         [z |-> SumFunction([i \in DamgardMultiClients(m) |-> parts[i].otp]) % m.scheme.grp.q,
          keys |-> [i \in DamgardMultiClients(m) |-> parts[i].dam]], y)

DecMultiIsFeKeyPart(m, part) ==
  part.otp \in 0..(m.scheme.grp.q - 1) /\ DamgardIsFeKey(m.scheme, part.dam)

-----------------------------------------------------------------------------
(***************************************************************************)
(* The operations of the decentralised multi-client scheme                 *)
(* (src/innerprod/fullysec/dmcfe.c): each client encrypts one number under *)
(* a label, and contributes its part of a key for a vector y, hidden under *)
(* its share of zero (SetShare).                                           *)
(*                                                                         *)
(* d is a record: the order q of the groups, what a negative number is off *)
(* by as a scalar (wrap), and the exponents g1[k][label] and g2[k][y] of   *)
(* the hashes of an index and a label or vector.                           *)
(***************************************************************************)

Two == 0..1

\* cfe_dmcfe_client_init: the encryption secrets that the sampler may return.
DmcfeSecretKeys(d) == [Two -> 0..(d.q - 1)]

\* cfe_dmcfe_encrypt: x goes into the exponent as it is, without a bound check.
DmcfeEncrypt(d, key, x, label) ==
  Done((Dot(key, [k \in Two |-> d.g1[k][label]]) + BigFromMpz(x, d.wrap)) % d.q)

\* Mutant of DmcfeDeriveFeKeyPart: with the first coordinate of y for every client.
DmcfeDeriveFeKeyPartFirst(d, i, key, share, y) ==
  Done([k \in Two |-> (Dot(share[k], [j \in Two |-> d.g2[j][y]]) + y[0] * key[k]) % d.q])

\* cfe_dmcfe_derive_fe_key_part.
DmcfeDeriveFeKeyPart(d, i, key, share, y) ==
  Done([k \in Two |-> (Dot(share[k], [j \in Two |-> d.g2[j][y]]) + y[i] * key[k]) % d.q])

\* cfe_dmcfe_decrypt: the pairing of the ciphertexts with the generator, divided by
\* that of the hashed label with the sum of the parts; the search goes up to
\* bound^2 * n.
DmcfeDecrypt(d, ct, parts, label, y, bound) ==
  LET key == [k \in Two |-> SumFunction([i \in DOMAIN y |-> parts[i][k]])]
      pairedData == Dot(ct, VecMod(y, d.q))
      pairedKey == Dot(key, [k \in Two |-> d.g1[k][label]])
  IN SearchGT(d.q, (pairedData - pairedKey) % d.q, bound * bound * Cardinality(DOMAIN y))
=============================================================================
