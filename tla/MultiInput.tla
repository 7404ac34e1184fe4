----------------------------- MODULE MultiInput -----------------------------
(***************************************************************************)
(* The multi-input inner-product schemes with an authority, as their       *)
(* machines run them: the authority generates one master key with a part   *)
(* for every client and issues keys for matrices, each client encrypts its *)
(* own vector with the part it has received, a decryptor combines one      *)
(* ciphertext of every client with a key.  Clients receive their parts at  *)
(* different times, so that ciphertexts under different master keys meet.  *)
(* The operations are those of DdhMultiSchemes.                            *)
(***************************************************************************)
EXTENDS DdhMultiSchemes

CONSTANTS
  Instances,    \* which schemes are run, with which arguments and inputs
  MaxEpoch      \* bound of the model: how often master keys are generated


\* An instance: as in SingleInput, with n clients and the pads of the sampler.
IsInstance(n) ==
  /\ n.scheme \in {"damgard_multi", "ddh_multi", "ddh_multi_precomp"}
  /\ n.grp.q \in Nat /\ n.grp.q > 2 /\ n.grp.limbs \in [Exponents(n.grp) -> Nat]
  /\ {n.n, n.l} \subseteq Nat \ {0} /\ n.hexp \in Nat
  /\ n.bounds \subseteq Nat \ {0} /\ n.pads \subseteq Nat
  /\ n.xs \subseteq [1..n.l -> Int] /\ n.ys \subseteq [1..n.l -> Int]
  /\ IF n.scheme = "damgard_multi"
     THEN /\ n.secrets \subseteq DamgardSecretRange(n.grp)
          /\ n.nonces \subseteq DamgardNonceRange(n.grp)
     ELSE /\ n.secrets \subseteq DdhSecretRange(n.grp)
          /\ n.nonces \subseteq DdhNonceRange(n.grp)

InstanceAssumption ==
  (\A n \in Instances : IsInstance(n)) /\ MaxEpoch \in Nat

VARIABLES
  inst,      \* the instance that is run
  m,         \* the scheme; NoScheme before it is set up
  sk, epoch, \* the secret key of the authority, and how often it was generated
  part,      \* what each client has received: its public key and pad, and their epoch
  ct,        \* per client the last ciphertext, with the x, pad and epoch it is for
  feKey,     \* the last functional key, with the y and epoch it is for
  out        \* what the last call returned; for a decryption, also what of

vars == <<inst, m, sk, epoch, part, ct, feKey, out>>

Clients == 0..(inst.n - 1)
NoScheme == [bound |-> -1]
Nothing == [epoch |-> 0]
NotADecryption(r) == [same |-> FALSE, err |-> r.err, res |-> 0]

\* The operations of the scheme that is run.
IsDamgard == inst.scheme = "damgard_multi"
NewIn(grp, b) ==
  IF IsDamgard THEN DamgardMultiNew(inst.n, grp, inst.l, b, inst.hexp)
  ELSE DdhMultiNew(inst.n, grp, inst.l, b, inst.scheme = "ddh_multi_precomp")
New(b) == NewIn(inst.grp, b)
NoGroups ==
  {NoGroup(e) : e \in (IF inst.scheme # "ddh_multi_precomp" THEN {"PARAM_GEN_FAILED"} ELSE {})
                     \cup (IF inst.scheme # "ddh_multi" THEN {"PRECONDITION_FAILED"} ELSE {})}
PadRange == IF IsDamgard THEN DamgardMultiPadRange(m) ELSE DdhMultiPadRange(m)
Keys ==
  IF IsDamgard THEN DamgardMultiSecretKeys(m, inst.secrets, inst.pads \cap PadRange)
               ELSE DdhMultiSecretKeys(m, inst.secrets, inst.pads \cap PadRange)
PublicKey(key, i) ==
  IF IsDamgard THEN DamgardMultiPublicKey(m, key, i) ELSE DdhMultiPublicKey(m, key, i)
FeKey(key, y) ==
  IF IsDamgard THEN DamgardMultiDeriveFeKey(m, key, y) ELSE DdhMultiDeriveFeKey(m, key, y)
Ciphertext(mpk, otp, x, r) ==
  IF IsDamgard THEN DamgardMultiEncrypt(m, x, mpk, otp, r) ELSE DdhMultiEncrypt(m, x, mpk, otp, r)
Plaintext(y) ==
  LET cs == [i \in Clients |-> ct[i].ct]
  IN IF IsDamgard THEN DamgardMultiDecrypt(m, cs, feKey.key, y) ELSE DdhMultiDecrypt(m, cs, feKey.key, y)

Init ==
  /\ inst \in Instances
  /\ m = NoScheme /\ sk = <<>> /\ epoch = 0
  /\ part = [i \in Clients |-> Nothing] /\ ct = [i \in Clients |-> Nothing]
  /\ feKey = Nothing /\ out = NotADecryption(Done(0))

\* The authority sets the scheme up; clients and decryptors copy it.
Setup(grp, b) ==
  /\ m = NoScheme
  /\ LET r == NewIn(grp, b)
     IN m' = (IF r.err = "NONE" THEN r.res ELSE NoScheme) /\ out' = NotADecryption(r)
  /\ UNCHANGED <<inst, sk, epoch, part, ct, feKey>>

\* The keys and pads of all clients, in one call.
GenerateMasterKeys(key) ==
  /\ m # NoScheme /\ epoch < MaxEpoch
  /\ sk' = key /\ epoch' = epoch + 1
  /\ UNCHANGED <<inst, m, part, ct, feKey, out>>

\* Client i receives its current part.
Receive(i) ==
  /\ part[i].epoch # epoch
  /\ part' = [part EXCEPT ![i] = [epoch |-> epoch, mpk |-> PublicKey(sk, i), otp |-> sk.otp[i]]]
  /\ UNCHANGED <<inst, m, sk, epoch, ct, feKey, out>>

DeriveFeKey(y) ==
  /\ epoch > 0
  /\ LET r == FeKey(sk, y)
     IN /\ feKey' = IF r.err = "NONE" THEN [epoch |-> epoch, y |-> y, key |-> r.res] ELSE feKey
        /\ out' = NotADecryption(r)
  /\ UNCHANGED <<inst, m, sk, epoch, part, ct>>

Encrypt(i, x, n) ==
  /\ part[i] # Nothing
  /\ LET r == Ciphertext(part[i].mpk, part[i].otp, x, n)
     IN /\ ct' = IF r.err = "NONE"
                 THEN [ct EXCEPT ![i] = [epoch |-> part[i].epoch, x |-> x,
                                         otp |-> part[i].otp, ct |-> r.res]]
                 ELSE ct
        /\ out' = NotADecryption(r)
  /\ UNCHANGED <<inst, m, sk, epoch, part, feKey>>

\* The decryptor uses one ciphertext of every client.
Decrypt(y) ==
  /\ feKey # Nothing /\ \A i \in Clients : ct[i] # Nothing
  /\ LET r == Plaintext(y)
     IN out' = [same |-> /\ feKey.y = y /\ r.err # "BOUND_CHECK_FAILED"
                         /\ \A i \in Clients : ct[i].epoch = feKey.epoch,
                err |-> r.err, res |-> r.res]
  /\ UNCHANGED <<inst, m, sk, epoch, part, ct, feKey>>

Next ==
  \/ \E grp \in {inst.grp} \cup NoGroups, b \in inst.bounds : Setup(grp, b)
  \/ m # NoScheme /\ \E key \in Keys : GenerateMasterKeys(key)
  \/ \E y \in [Clients -> inst.ys] : DeriveFeKey(y) \/ Decrypt(y)
  \/ \E i \in Clients : Receive(i) \/ \E x \in inst.xs, n \in inst.nonces : Encrypt(i, x, n)

Spec == Init /\ [][Next]_vars

-----------------------------------------------------------------------------
\* What the parties hold, how often keys were generated, and the codes of the calls.
CountersOK ==
  /\ inst \in Instances /\ {DOMAIN part, DOMAIN ct} = {Clients} /\ epoch \in 0..MaxEpoch
  /\ out.err \in {"NONE", "PARAM_GEN_FAILED", "PRECONDITION_FAILED",
                 "BOUND_CHECK_FAILED", "DLOG_NOT_FOUND"}

\* The types of what the parties hold and exchange.
TypeOK ==
  /\ CountersOK /\ m.bound \in inst.bounds \cup {-1}
  /\ \A i \in Clients : {part[i].epoch, ct[i].epoch} \subseteq 0..epoch
  /\ \A i \in Clients : ct[i] # Nothing => ct[i].ct.c \in [1..inst.l -> 0..(inst.grp.q - 1)]
  /\ feKey # Nothing => feKey.key.z \in PadRange

\* The sum that the last decryption was asked for, and whether its data is bounded.
Xs == [i \in Clients |-> ct[i].x]
Sum == MatDot(Xs, feKey.y)
InBounds == MatBounded(Xs, m.bound) /\ MatBounded(feKey.y, m.bound)

\* The search passes over v.
Missed(v, reach) == Overlooked(inst.grp, v, reach)

\* With ciphertexts of all clients and a key of the same master key, the masks of
\* the clients and their pads cancel, whichever order parts, keys and ciphertexts
\* were made in and whatever the sign of bounded data: the Damgard scheme returns the
\* sum (damgard_multi.c:165-211), the DDH scheme the sum modulo the bound
\* (ddh_multi.c:152-178).  The only failure is a logarithm that a search passes
\* over.  It holds when the search has no value to mistake for another.
DecryptCorrect ==
  out.same =>
    IF IsDamgard
    THEN InBounds /\ Unambiguous(inst.grp, DamgardMultiReach(m)) =>
           \/ out.err = "NONE" /\ out.res = Sum
           \/ out.err = "DLOG_NOT_FOUND" /\ Missed(Sum, DamgardMultiReach(m))
    ELSE MatBounded(feKey.y, m.bound) /\ Unambiguous(inst.grp, DdhReach(m.scheme)) =>
           \/ out.err = "NONE" /\ out.res = Sum % m.bound
           \/ /\ out.err = "DLOG_NOT_FOUND"
              /\ \E i \in Clients :
                   Missed(Dot(Padded(m, ct[i].x, ct[i].otp), feKey.y[i]), DdhReach(m.scheme))

-----------------------------------------------------------------------------
(* The inductive invariant behind both. *)

\* Before the set-up there is nothing; after it there is a scheme of this instance.
SetUp ==
  IF m = NoScheme
  THEN epoch = 0 /\ feKey = Nothing /\ \A i \in Clients : part[i] = Nothing /\ ct[i] = Nothing
  ELSE \E b \in inst.bounds : New(b) = Done(m)

\* What client i has received is what the master key h[e] has for it.
HasReceived(i, h) ==
  part[i] # Nothing =>
    LET e == part[i].epoch
    IN e \in 1..epoch /\ part[i].mpk = PublicKey(h[e], i) /\ part[i].otp = h[e].otp[i]

\* What it has sent was made with its part of h[e], which it may since have replaced.
HasSent(i, h) ==
  ct[i] # Nothing =>
    LET e == ct[i].epoch
    IN /\ e \in 1..epoch /\ ct[i].x \in inst.xs /\ ct[i].otp = h[e].otp[i]
       /\ \E n \in inst.nonces :
            Ciphertext(PublicKey(h[e], i), h[e].otp[i], ct[i].x, n) = Done(ct[i].ct)

\* The functional key was made with h[e], all of whose parts it takes off.
HasIssued(h) ==
  feKey # Nothing =>
    LET e == feKey.epoch
    IN e \in 1..epoch /\ feKey.y \in [Clients -> inst.ys] /\ FeKey(h[e], feKey.y) = Done(feKey.key)

Genuine(h) ==
  /\ epoch > 0 => h[epoch] = sk
  /\ HasIssued(h) /\ \A i \in Clients : HasReceived(i, h) /\ HasSent(i, h)

\* Parts, ciphertexts and the key have a history of master keys behind them although the
\* authority keeps the last one only (damgard_multi.c:83-211, ddh_multi.c:75-178).
IInv ==
  /\ CountersOK /\ DecryptCorrect /\ SetUp
  /\ m # NoScheme => \E h \in [1..epoch -> Keys] : Genuine(h)
=============================================================================
