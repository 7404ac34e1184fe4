----------------------------- MODULE DdhSchemes -----------------------------
(***************************************************************************)
(* The operations of the single-input schemes over Z_p.                    *)
(***************************************************************************)
EXTENDS SchemeGroups

(***************************************************************************)
(* The operations of the Damgard scheme                                    *)
(* (src/innerprod/fullysec/damgard.c), on exponents of the group.  They    *)
(* take what the sampler returns as an argument, and change nothing but    *)
(* what they return.                                                       *)
(***************************************************************************)

\* cfe_damgard_init and cfe_damgard_precomp_init; h = g^hexp.  The first may find no
\* group (PARAM_GEN_FAILED), the second stores none of the length (PRECONDITION_FAILED).
DamgardNew(grp, l, bound, hexp) ==
  IF grp.q = 0 THEN Failed(grp.err)
  ELSE IF 2 * l * bound * bound >= grp.q THEN Failed("PRECONDITION_FAILED")
  ELSE Done([grp |-> grp, l |-> l, bound |-> bound, hexp |-> hexp])

\* cfe_damgard_generate_master_keys: what the sampler may return for a coordinate
\* of a secret vector, secret keys made of such values, and the public key.
DamgardSecretRange(grp) == 2..(Modulus(grp) - 2)
DamgardSecretKeys(s, values) == [s : [1..s.l -> values], t : [1..s.l -> values]]
DamgardPublicKey(s, msk) == [k \in 1..s.l |-> (msk.s[k] + s.hexp * msk.t[k]) % s.grp.q]

\* Mutants of DamgardDeriveFeKey: reduced modulo p, and not reduced.
DamgardDeriveFeKeyModP(s, msk, y) ==
  IF ~CheckBound(y, s.bound) THEN Failed("BOUND_CHECK_FAILED")
  ELSE Done([key1 |-> Dot(msk.s, y) % Modulus(s.grp),
             key2 |-> Dot(msk.t, y) % Modulus(s.grp)])
DamgardDeriveFeKeyUnreduced(s, msk, y) ==
  IF ~CheckBound(y, s.bound) THEN Failed("BOUND_CHECK_FAILED")
  ELSE Done([key1 |-> Dot(msk.s, y), key2 |-> Dot(msk.t, y)])

\* cfe_damgard_derive_fe_key.
DamgardDeriveFeKey(s, msk, y) ==
  IF ~CheckBound(y, s.bound) THEN Failed("BOUND_CHECK_FAILED")
  ELSE Done([key1 |-> Dot(msk.s, y) % (Modulus(s.grp) - 1),
             key2 |-> Dot(msk.t, y) % (Modulus(s.grp) - 1)])

\* cfe_damgard_encrypt with the randomness r.
DamgardNonceRange(grp) == 1..(Modulus(grp) - 1)
DamgardEncrypt(s, x, mpk, r) ==
  IF ~CheckBound(x, s.bound) THEN Failed("BOUND_CHECK_FAILED")
  ELSE Done([c0 |-> r % s.grp.q, c1 |-> (s.hexp * r) % s.grp.q,
             c |-> [k \in 1..s.l |-> (mpk[k] * r + x[k]) % s.grp.q]])

\* The element that decryption takes the logarithm of.
Unmask(s, ct, key, y) ==
  (Dot(ct.c, y) - ct.c0 * key.key1 - ct.c1 * key.key2) % s.grp.q

\* cfe_damgard_decrypt; its search goes up to bound^2 * l.
DamgardReach(s) == s.bound * s.bound * s.l
DamgardDecrypt(s, ct, key, y) ==
  IF ~CheckBound(y, s.bound) THEN Failed("BOUND_CHECK_FAILED")
  ELSE BabyGiantWithNeg(s.grp, Unmask(s, ct, key, y), DamgardReach(s))

DamgardIsCiphertext(s, ct) ==
  ct.c0 \in Exponents(s.grp) /\ ct.c1 \in Exponents(s.grp)
  /\ ct.c \in [1..s.l -> Exponents(s.grp)]
DamgardIsFeKey(s, key) == {key.key1, key.key2} \subseteq 0..(Modulus(s.grp) - 2)

-----------------------------------------------------------------------------
(***************************************************************************)
(* The operations of the DDH scheme (src/innerprod/simple/ddh.c), on       *)
(* exponents of the group.                                                 *)
(***************************************************************************)

\* cfe_ddh_init, which compares with p, and cfe_ddh_precomp_init, which compares
\* with the order of the group; both may end up without one, as above.
DdhNew(grp, l, bound, precomp) ==
  IF grp.q = 0 THEN Failed(grp.err)
  ELSE IF 2 * l * bound * bound >= (IF precomp THEN grp.q ELSE Modulus(grp))
  THEN Failed("PRECONDITION_FAILED")
  ELSE Done([grp |-> grp, l |-> l, bound |-> bound])

\* cfe_ddh_generate_master_keys.
DdhSecretRange(grp) == 2..(grp.q - 1)
DdhSecretKeys(s, values) == [1..s.l -> values]
DdhPublicKey(s, msk) == [k \in 1..s.l |-> msk[k] % s.grp.q]

\* cfe_ddh_derive_fe_key.
DdhDeriveFeKey(s, msk, y) ==
  IF ~CheckBound(y, s.bound) THEN Failed("BOUND_CHECK_FAILED")
  ELSE Done(Dot(msk, y) % s.grp.q)

\* cfe_ddh_encrypt with the randomness r.
DdhNonceRange(grp) == 1..(grp.q - 1)
DdhEncrypt(s, x, mpk, r) ==
  IF ~CheckBound(x, s.bound) THEN Failed("BOUND_CHECK_FAILED")
  ELSE Done([c0 |-> r, c |-> [k \in 1..s.l |-> (mpk[k] * r + x[k]) % s.grp.q]])

\* cfe_ddh_decrypt; its search goes up to bound^2 * l.
DdhReach(s) == s.bound * s.bound * s.l
DdhDecrypt(s, ct, key, y) ==
  IF ~CheckBound(y, s.bound) THEN Failed("BOUND_CHECK_FAILED")
  ELSE BabyGiantWithNeg(s.grp, (Dot(ct.c, y) - ct.c0 * key) % s.grp.q, DdhReach(s))

DdhIsCiphertext(s, ct) ==
  ct.c0 \in DdhNonceRange(s.grp) /\ ct.c \in [1..s.l -> Exponents(s.grp)]
DdhIsFeKey(s, key) == key \in Exponents(s.grp)
=============================================================================
