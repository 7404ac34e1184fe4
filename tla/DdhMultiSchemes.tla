--------------------------- MODULE DdhMultiSchemes --------------------------
(***************************************************************************)
(* The operations of the multi-input schemes over Z_p, each made from the  *)
(* single-input scheme of its name.                                        *)
(***************************************************************************)
EXTENDS DdhSchemes

(***************************************************************************)
(* The operations of the multi-input Damgard scheme                        *)
(* (src/innerprod/fullysec/damgard_multi.c): one Damgard key and one       *)
(* one-time pad per client, whose sum a functional key takes off again.    *)
(***************************************************************************)

\* cfe_damgard_multi_init and cfe_damgard_multi_precomp_init: the precondition is
\* that of one client, and the bound of the underlying scheme is then raised to q.
DamgardMultiNew(n, grp, l, bound, hexp) ==
  LET r == DamgardNew(grp, l, bound, hexp)
  IN IF r.err # "NONE" THEN r
     ELSE Done([n |-> n, bound |-> bound, scheme |-> [r.res EXCEPT !.bound = grp.q]])

DamgardMultiClients(m) == 0..(m.n - 1)

\* cfe_damgard_multi_generate_master_keys, for given random values: a key per
\* client, and a pad per client below q.
DamgardMultiPadRange(m) == 0..(m.scheme.grp.q - 1)
DamgardMultiSecretKeys(m, values, pads) ==
  [msk : [DamgardMultiClients(m) -> DamgardSecretKeys(m.scheme, values)],
   otp : [DamgardMultiClients(m) -> [1..m.scheme.l -> pads]]]
DamgardMultiPublicKey(m, sk, i) == DamgardPublicKey(m.scheme, sk.msk[i])

\* cfe_damgard_multi_derive_fe_key: the calls for the clients compare with q, and
\* so accept rows that have passed the check against the bound.
DamgardMultiDeriveFeKey(m, sk, y) ==
  IF ~MatCheckBound(y, m.bound) THEN Failed("BOUND_CHECK_FAILED")
  ELSE Done([z |-> MatDot(sk.otp, y) % m.scheme.grp.q,
             keys |-> [i \in DamgardMultiClients(m) |-> DamgardDeriveFeKey(m.scheme, sk.msk[i], y[i]).res]])

\* cfe_damgard_multi_encrypt: x is checked, then padded.
DamgardMultiEncrypt(m, x, mpk, otp, r) ==
  IF ~CheckBound(x, m.bound) THEN Failed("BOUND_CHECK_FAILED")
  ELSE DamgardEncrypt(m.scheme, VecMod(VecAdd(x, otp), m.scheme.grp.q), mpk, r)

\* cfe_damgard_multi_decrypt, whose search goes up to bound^2 * num_clients * l.
DamgardMultiReach(m) == m.bound * m.bound * m.n * m.scheme.l
DamgardMultiDecrypt(m, ct, key, y) ==
  LET e == (SumFunction([i \in DamgardMultiClients(m) |-> Unmask(m.scheme, ct[i], key.keys[i], y[i])])
              - key.z) % m.scheme.grp.q
  IN IF ~MatCheckBound(y, m.bound) THEN Failed("BOUND_CHECK_FAILED")
     ELSE BabyGiantWithNeg(m.scheme.grp, e, DamgardMultiReach(m))

-----------------------------------------------------------------------------
(***************************************************************************)
(* The operations of the multi-input DDH scheme                            *)
(* (src/innerprod/simple/ddh_multi.c): one DDH key per slot, and plaintexts *)
(* hidden under one-time pads modulo the bound.  Decryption searches one   *)
(* logarithm per slot, adds them up and takes the pads off.                *)
(***************************************************************************)

\* cfe_ddh_multi_init and cfe_ddh_multi_precomp_init.
DdhMultiNew(n, grp, l, bound, precomp) ==
  LET r == DdhNew(grp, l, bound, precomp)
  IN IF r.err # "NONE" THEN r ELSE Done([n |-> n, bound |-> bound, scheme |-> r.res])

Slots(m) == 0..(m.n - 1)

\* cfe_ddh_multi_generate_master_keys, for given random values; the pads are below
\* the bound.
DdhMultiPadRange(m) == 0..(m.bound - 1)
DdhMultiSecretKeys(m, values, pads) ==
  [msk : [Slots(m) -> DdhSecretKeys(m.scheme, values)],
   otp : [Slots(m) -> [1..m.scheme.l -> pads]]]
DdhMultiPublicKey(m, sk, i) == DdhPublicKey(m.scheme, sk.msk[i])

\* Mutant of DdhMultiDeriveFeKey: the pad is reduced modulo the order of the group.
DdhMultiDeriveFeKeyModQ(m, sk, y) ==
  IF ~MatCheckBound(y, m.bound) THEN Failed("BOUND_CHECK_FAILED")
  ELSE Done([z |-> MatDot(sk.otp, y) % m.scheme.grp.q,
             keys |-> [i \in Slots(m) |-> DdhDeriveFeKey(m.scheme, sk.msk[i], y[i]).res]])

\* cfe_ddh_multi_derive_fe_key: the rows have passed the check of the matrix, so
\* the slots accept them.
DdhMultiDeriveFeKey(m, sk, y) ==
  IF ~MatCheckBound(y, m.bound) THEN Failed("BOUND_CHECK_FAILED")
  ELSE Done([z |-> MatDot(sk.otp, y) % m.bound,
             keys |-> [i \in Slots(m) |-> DdhDeriveFeKey(m.scheme, sk.msk[i], y[i]).res]])

\* cfe_ddh_multi_encrypt: the padded plaintext is reduced modulo the bound.
Padded(m, x, otp) == VecMod(VecAdd(x, otp), m.bound)
DdhMultiEncrypt(m, x, mpk, otp, r) ==
  IF ~CheckBound(x, m.bound) THEN Failed("BOUND_CHECK_FAILED")
  ELSE DdhEncrypt(m.scheme, Padded(m, x, otp), mpk, r)

\* cfe_ddh_multi_decrypt: the slots are decrypted in order up to the first that
\* fails, and the values found until then are added up in any case.
DdhMultiDecrypt(m, ct, key, y) ==
  LET slot == [i \in Slots(m) |-> DdhDecrypt(m.scheme, ct[i], key.keys[i], y[i])]
      failed == {i \in Slots(m) : slot[i].err # "NONE"}
      found == {i \in Slots(m) : \A j \in 0..i : j \notin failed}
  IN IF ~MatCheckBound(y, m.bound) THEN Failed("BOUND_CHECK_FAILED")
     ELSE [err |-> IF failed = {} THEN "NONE" ELSE slot[Min(failed)].err,
           res |-> (SumFunction([i \in found |-> slot[i].res]) - key.z) % m.bound]
=============================================================================
