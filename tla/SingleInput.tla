---------------------------- MODULE SingleInput ----------------------------
(***************************************************************************)
(* The single-input inner-product schemes as their three machines run them *)
(* (README.md of the repository): an authority sets a scheme up and issues *)
(* keys, encryptors that have received a public key publish ciphertexts, a *)
(* decryptor combines any ciphertext with any key it has received, in any  *)
(* order.  The schemes share this shape; their operations are those of the *)
(* module DdhSchemes.                                                      *)
(***************************************************************************)
EXTENDS DdhSchemes

CONSTANTS
  Instances,    \* which schemes are run, with which arguments and inputs
  MaxEpoch,     \* bound of the model: how often master keys are generated
  MaxHeld       \* bound of the model: ciphertexts, and keys, in circulation


\* An instance: the scheme, its group, the length of the vectors, the second
\* generator, the bounds that set-up is tried with, the vectors of encryptors and
\* of key requests, and the numbers that the sampler returns.
IsInstance(n) ==
  /\ n.scheme \in {"damgard", "ddh", "ddh_precomp"}
  /\ n.grp.q \in Nat /\ n.grp.q > 2 /\ n.grp.limbs \in [Exponents(n.grp) -> Nat]
  /\ n.l \in Nat \ {0} /\ n.hexp \in Nat
  /\ n.bounds \subseteq Nat
  /\ n.xs \subseteq [1..n.l -> Int] /\ n.ys \subseteq [1..n.l -> Int]
  /\ IF n.scheme = "damgard"
     THEN n.secrets \subseteq DamgardSecretRange(n.grp) /\ n.nonces \subseteq DamgardNonceRange(n.grp)
     ELSE n.secrets \subseteq DdhSecretRange(n.grp) /\ n.nonces \subseteq DdhNonceRange(n.grp)

ASSUME InstanceAssumption ==
  /\ \A n \in Instances : IsInstance(n)
  /\ MaxEpoch \in Nat /\ MaxHeld \in Nat

VARIABLES
  inst,      \* the instance that is run
  s,         \* the scheme; NoScheme before it is set up
  msk,       \* the master secret key
  epoch,     \* how often it has been generated
  pub,       \* the public key that the encryptors have, and its epoch
  cts,       \* the ciphertexts published, each with the x and epoch it is for
  keys,      \* the functional keys issued, each with the y and epoch it is for
  out        \* what the last call returned; for a decryption, also what of

vars == <<inst, s, msk, epoch, pub, cts, keys, out>>

NoScheme == [bound |-> -1]
NotADecryption(r) == [same |-> FALSE, x |-> <<>>, y |-> <<>>, err |-> r.err, res |-> 0]

\* The operations of the scheme that is run.
NewIn(grp, b) ==
  CASE inst.scheme = "damgard" -> DamgardNew(grp, inst.l, b, inst.hexp)
    [] inst.scheme = "ddh" -> DdhNew(grp, inst.l, b, FALSE)
    [] inst.scheme = "ddh_precomp" -> DdhNew(grp, inst.l, b, TRUE)
New(b) == NewIn(inst.grp, b)
NoGroups ==
  {NoGroup(e) : e \in (IF inst.scheme # "ddh_precomp" THEN {"PARAM_GEN_FAILED"} ELSE {})
                     \cup (IF inst.scheme # "ddh" THEN {"PRECONDITION_FAILED"} ELSE {})}
IsDamgard == inst.scheme = "damgard"
Keys == IF IsDamgard THEN DamgardSecretKeys(s, inst.secrets) ELSE DdhSecretKeys(s, inst.secrets)
PublicKey(m) == IF IsDamgard THEN DamgardPublicKey(s, m) ELSE DdhPublicKey(s, m)
FeKey(m, y) == IF IsDamgard THEN DamgardDeriveFeKey(s, m, y) ELSE DdhDeriveFeKey(s, m, y)
Ciphertext(x, mpk, r) ==
  IF IsDamgard THEN DamgardEncrypt(s, x, mpk, r) ELSE DdhEncrypt(s, x, mpk, r)
Plaintext(ct, key, y) ==
  IF IsDamgard THEN DamgardDecrypt(s, ct, key, y) ELSE DdhDecrypt(s, ct, key, y)

Init ==
  /\ inst \in Instances
  /\ s = NoScheme /\ msk = <<>> /\ epoch = 0 /\ pub = [epoch |-> 0, mpk |-> <<>>]
  /\ cts = {} /\ keys = {}
  /\ out = NotADecryption(Done(0))

\* The authority sets the scheme up; the other machines copy it.
Setup(grp, b) ==
  /\ s = NoScheme
  /\ LET r == NewIn(grp, b)
     IN s' = (IF r.err = "NONE" THEN r.res ELSE NoScheme) /\ out' = NotADecryption(r)
  /\ UNCHANGED <<inst, msk, epoch, pub, cts, keys>>

GenerateMasterKeys(key) ==
  /\ s # NoScheme /\ epoch < MaxEpoch
  /\ msk' = key /\ epoch' = epoch + 1
  /\ UNCHANGED <<inst, s, pub, cts, keys, out>>

\* The encryptors receive the current public key.
Publish ==
  /\ pub.epoch # epoch
  /\ pub' = [epoch |-> epoch, mpk |-> PublicKey(msk)]
  /\ UNCHANGED <<inst, s, msk, epoch, cts, keys, out>>

DeriveFeKey(y) ==
  /\ epoch > 0 /\ Cardinality(keys) < MaxHeld
  /\ LET r == FeKey(msk, y)
     IN /\ keys' = IF r.err = "NONE" THEN keys \cup {[epoch |-> epoch, y |-> y, key |-> r.res]}
                                     ELSE keys
        /\ out' = NotADecryption(r)
  /\ UNCHANGED <<inst, s, msk, epoch, pub, cts>>

Encrypt(x, n) ==
  /\ pub.epoch > 0 /\ Cardinality(cts) < MaxHeld
  /\ LET r == Ciphertext(x, pub.mpk, n)
     IN /\ cts' = IF r.err = "NONE" THEN cts \cup {[epoch |-> pub.epoch, x |-> x, ct |-> r.res]}
                                    ELSE cts
        /\ out' = NotADecryption(r)
  /\ UNCHANGED <<inst, s, msk, epoch, pub, keys>>

Decrypt(c, k, y) ==
  /\ LET r == Plaintext(c.ct, k.key, y)
     IN out' = [same |-> c.epoch = k.epoch /\ k.y = y /\ r.err # "BOUND_CHECK_FAILED",
                x |-> c.x, y |-> y, err |-> r.err, res |-> r.res]
  /\ UNCHANGED <<inst, s, msk, epoch, pub, cts, keys>>

Next ==
  \/ \E grp \in {inst.grp} \cup NoGroups, b \in inst.bounds : Setup(grp, b)
  \/ s # NoScheme /\ \E key \in Keys : GenerateMasterKeys(key)
  \/ Publish
  \/ \E y \in inst.ys : DeriveFeKey(y)
  \/ \E x \in inst.xs, n \in inst.nonces : Encrypt(x, n)
  \/ \E c \in cts, k \in keys, y \in inst.ys : Decrypt(c, k, y)

Spec == Init /\ [][Next]_vars

-----------------------------------------------------------------------------
\* The types of what the machines hold and exchange.
TypeOK ==
  /\ inst \in Instances
  /\ s.bound \in inst.bounds \cup {-1} /\ epoch \in 0..MaxEpoch /\ pub.epoch \in 0..epoch
  /\ \A c \in cts : IF IsDamgard THEN DamgardIsCiphertext(s, c.ct) ELSE DdhIsCiphertext(s, c.ct)
  /\ \A k \in keys : IF IsDamgard THEN DamgardIsFeKey(s, k.key) ELSE DdhIsFeKey(s, k.key)
  /\ out.err \in {"NONE", "PARAM_GEN_FAILED", "PRECONDITION_FAILED",
                 "BOUND_CHECK_FAILED", "DLOG_NOT_FOUND"}

\* Decrypting bounded data with a key for the same vector, of the same master key as
\* the ciphertext, gives the inner product, even when the master key has changed
\* since and whatever else is in circulation: the masks cancel (damgard.c:225-264,
\* ddh.c:179-213).  It holds when the bound leaves the search no value to mistake for
\* another; the only failure is a logarithm that the search passes over.
DecryptCorrect ==
  out.same /\ Bounded(out.x, s.bound) /\ Bounded(out.y, s.bound)
      /\ Unambiguous(inst.grp, DamgardReach(s))
    => \/ out.err = "NONE" /\ out.res = Dot(out.x, out.y)
       \/ /\ out.err = "DLOG_NOT_FOUND"
          /\ Overlooked(inst.grp, Dot(out.x, out.y), DamgardReach(s))

-----------------------------------------------------------------------------
(* The inductive invariant behind both. *)

\* Before the set-up there is nothing; after it there is a scheme of this instance.
SetUp ==
  IF s = NoScheme THEN epoch = 0 /\ cts = {} /\ keys = {}
  ELSE \E b \in inst.bounds : New(b) = Done(s)

\* Everything in circulation was made with the master key that h has for its epoch:
\* no call mixes two of them, and nothing that is replaced is still used.
Genuine(h) ==
  /\ epoch > 0 => h[epoch] = msk
  /\ pub.epoch > 0 => pub.mpk = PublicKey(h[pub.epoch])
  /\ \A c \in cts :
       /\ c.epoch \in 1..epoch /\ c.x \in inst.xs
       /\ \E n \in inst.nonces : Ciphertext(c.x, PublicKey(h[c.epoch]), n) = Done(c.ct)
  /\ \A k \in keys :
       k.epoch \in 1..epoch /\ k.y \in inst.ys /\ FeKey(h[k.epoch], k.y) = Done(k.key)

\* TypeOK and DecryptCorrect, and that ciphertexts and keys have a history of master
\* keys behind them although the authority keeps the last one only
\* (damgard.c:111-264, ddh.c:98-213).
IInv ==
  /\ TypeOK /\ DecryptCorrect /\ SetUp
  /\ s # NoScheme => \E h \in [1..epoch -> Keys] : Genuine(h)
=============================================================================
