-------------------------------- MODULE Abe ---------------------------------
(***************************************************************************)
(* The attribute-based schemes as their machines run them: authorities     *)
(* generate keys and publish them, an encryptor protects a message with    *)
(* what is published, a user collects one key of every authority and       *)
(* decrypts.  Authorities may generate new keys at any time.  FAME and     *)
(* GPSW have one authority; in DIPPE everyone, authorities included, uses  *)
(* the keys published.  The operations are those of Fame, Gpsw and Dippe.  *)
(***************************************************************************)
EXTENDS Policy

CONSTANTS
  Instances,    \* a sequence: which schemes are run, with which inputs
  Hash(_)       \* the hash functions, as exponents of what they return

F == INSTANCE Fame
G == INSTANCE Gpsw
D == INSTANCE Dippe

\* An instance: the scheme, the group order, how many authorities there are, what
\* ciphertexts and keys are made for, the messages, the tapes of the sampler, which
\* does not return 0 there, and, to bound the model, how often each one
\* generates its keys.
IsInstance(n) ==
  /\ n.scheme \in {"fame", "gpsw", "dippe"}
  /\ n.p \in Nat /\ n.p > 1 /\ \A d \in 2..(n.p - 1) : n.p % d # 0
  /\ n.size \in Nat \ {0} /\ n.k \in Nat \ {0} /\ n.msgs \subseteq Residues(n.p)
  /\ n.scheme # "dippe" => n.size = 1
  /\ \A t \in n.secrets \cup n.nonces : \A i \in DOMAIN t : t[i] \in 1..(n.p - 1)
  /\ n.epochs \in [0..(n.size - 1) -> Nat]

InstanceAssumption == \A i \in DOMAIN Instances : IsInstance(Instances[i])

VARIABLES
  no,         \* the number of the instance that is run
  s,          \* the DIPPE parameters that all share; <<>> before set-up
  msk,        \* the secret keys of the authorities
  epoch,      \* how often each of them has been generated
  pub,        \* the keys published, each with its epoch
  ct,         \* the ciphertext, with what it is made for and under which keys
  held,       \* the key that the user has of each authority, labelled likewise
  out         \* what the last call returned; for a decryption, also what of

vars == <<no, s, msk, epoch, pub, ct, held, out>>

inst == Instances[no]
Authorities == 0..(inst.size - 1)
None == [at |-> <<>>]
NotADecryption(err) == [same |-> FALSE, satisfied |-> FALSE, msg |-> 0, err |-> err, res |-> 0]
IsFame == inst.scheme = "fame"
IsGpsw == inst.scheme = "gpsw"

\* The operations of the scheme that is run.
SecretKey(tape) ==
  CASE IsFame -> F!SecretKey(tape)
    [] IsGpsw -> G!SecretKey(inst.p, inst.k, tape)
    [] OTHER -> D!SecretKey(s, tape)
PublicKey(sk) ==
  CASE IsFame -> F!PublicKey(inst.p, sk) [] IsGpsw -> G!PublicKey(sk)
    [] OTHER -> D!PublicKey(s, sk)
PolicyVector(policy, tape) ==
  IF policy.threshold = -1
  THEN D!ConjunctionVector(inst.p, inst.size - 1, policy.pattern, tape)
  ELSE D!ThresholdVector(inst.p, inst.size - 1, policy.pattern, policy.threshold)
Keys == [a \in Authorities |-> pub[a].pk]

\* A ciphertext of FAME is for a policy and of GPSW for attributes; a key the other
\* way around.  A key of DIPPE is for a user and the attributes that it has.
Ciphertext(for, msg, tape) ==
  CASE IsFame -> LET msp == BooleanToMsp(Text(for), FALSE)
                 IN IF msp.err # "NONE" THEN msp
                    ELSE Done(F!Encrypt(inst.p, msg, msp.res, Keys[0], tape))
    [] IsGpsw -> Done(G!Encrypt(inst.p, msg, for, Keys[0], tape))
    [] OTHER -> LET pv == PolicyVector(for, tape)
                IN IF pv.err # "NONE" THEN pv ELSE D!Encrypt(s, Keys, pv.res, msg, tape)
UserKey(a, for, tape) ==
  CASE IsFame -> Done(F!GenerateAttribKeys(inst.p, for, msk[a], tape))
    [] IsGpsw -> LET msp == BooleanToMsp(Text(for), TRUE)
                 IN IF msp.err # "NONE" THEN msp
                    ELSE Done(G!GeneratePolicyKey(inst.p, msp.res, msk[a], tape))
    [] OTHER -> LET av == D!AttributeVector(inst.size - 1, for.owned)
                IN IF av.err # "NONE" THEN av
                   ELSE D!KeyGen(s, a, Keys, msk[a], av.res, for.gid)
Plaintext(for) ==
  CASE IsFame -> F!Decrypt(inst.p, ct.body, held[0].body)
    [] IsGpsw -> G!Decrypt(inst.p, ct.body, held[0].body)
    [] OTHER -> D!Decrypt(s, [a \in Authorities |-> held[a].body], ct.body,
                          D!AttributeVector(inst.size - 1, for.owned).res, for.gid)

\* What a key is for satisfies what the ciphertext is for.
Allows(ctFor, keyFor) ==
  CASE IsFame -> Satisfied(ctFor, Range(keyFor))
    [] IsGpsw -> Satisfied(keyFor, Range(ctFor))
    [] OTHER -> IF ctFor.threshold = -1 THEN Range(ctFor.pattern) \subseteq Range(keyFor.owned)
                ELSE Cardinality(Range(ctFor.pattern) \cap Range(keyFor.owned)) = ctFor.threshold

Init ==
  /\ no \in DOMAIN Instances
  /\ s = <<>> /\ msk = [a \in Authorities |-> <<>>] /\ epoch = [a \in Authorities |-> 0]
  /\ pub = [a \in Authorities |-> [epoch |-> 0, pk |-> <<>>]]
  /\ ct = None /\ held = [a \in Authorities |-> None] /\ out = NotADecryption("NONE")

\* The parameters that the authorities of DIPPE share.
Setup(tape) ==
  /\ inst.scheme = "dippe" /\ s = <<>>
  /\ s' = D!New(inst.p, inst.k, tape)
  /\ UNCHANGED <<no, msk, epoch, pub, ct, held, out>>

GenerateMasterKeys(a, tape) ==
  /\ inst.scheme = "dippe" => s # <<>>
  /\ epoch[a] < inst.epochs[a]
  /\ msk' = [msk EXCEPT ![a] = SecretKey(tape)]
  /\ epoch' = [epoch EXCEPT ![a] = @ + 1]
  /\ UNCHANGED <<no, s, pub, ct, held, out>>

Publish(a) ==
  /\ pub[a].epoch # epoch[a]
  /\ pub' = [pub EXCEPT ![a] = [epoch |-> epoch[a], pk |-> PublicKey(msk[a])]]
  /\ UNCHANGED <<no, s, msk, epoch, ct, held, out>>

\* The ciphertext takes the place of the one before.  To bound the model there is one
\* for the same published keys, and of every authority one key.
Encrypt ==
  LET at == [a \in Authorities |-> pub[a].epoch]
  IN /\ \A a \in Authorities : pub[a].epoch > 0
     /\ ct.at # at
     /\ \E for \in inst.ctFor, msg \in inst.msgs, tape \in inst.nonces :
          LET r == Ciphertext(for, msg, tape)
          IN /\ ct' = IF r.err = "NONE" THEN [at |-> at, for |-> for, msg |-> msg, body |-> r.res]
                                        ELSE ct
             /\ out' = NotADecryption(r.err)
     /\ UNCHANGED <<no, s, msk, epoch, pub, held>>

\* The key of an authority depends on its own secret and on what the others publish.
KeyGen(a) ==
  LET at == [b \in Authorities |-> IF a = b THEN epoch[a] ELSE pub[b].epoch]
  IN /\ epoch[a] > 0
     /\ inst.scheme = "dippe" => \A b \in Authorities : pub[b].epoch > 0
     /\ held[a].at # at
     /\ \E for \in inst.keyFor, tape \in inst.nonces :
          LET r == UserKey(a, for, tape)
          IN /\ held' = IF r.err = "NONE"
                        THEN [held EXCEPT ![a] = [at |-> at, for |-> for, body |-> r.res]]
                        ELSE held
             /\ out' = NotADecryption(r.err)
     /\ UNCHANGED <<no, s, msk, epoch, pub, ct>>

\* The user decrypts as whom the key of authority a is for.
Decrypt(a) ==
  /\ ct # None /\ \A b \in Authorities : held[b] # None
  /\ LET r == Plaintext(held[a].for)
     IN out' = [same |-> \A b \in Authorities : held[b].at = ct.at /\ held[b].for = held[a].for,
                satisfied |-> Allows(ct.for, held[a].for), msg |-> ct.msg,
                err |-> r.err, res |-> r.res]
  /\ UNCHANGED <<no, s, msk, epoch, pub, ct, held>>

Next ==
  \/ \E tape \in inst.secrets : Setup(tape)
  \/ \E a \in Authorities, tape \in inst.secrets : GenerateMasterKeys(a, tape)
  \/ \E a \in Authorities : Publish(a)
  \/ Encrypt
  \/ \E a \in Authorities : KeyGen(a) \/ Decrypt(a)

Spec == Init /\ [][Next]_vars

-----------------------------------------------------------------------------
\* The types of what the machines hold and exchange.
TypeOK ==
  /\ no \in DOMAIN Instances
  /\ \A a \in Authorities : epoch[a] \in 0..inst.epochs[a] /\ pub[a].epoch \in 0..epoch[a]
  /\ ct # None => CASE IsFame -> F!IsCipher(inst.p, ct.body)
                    [] IsGpsw -> G!IsCipher(inst.p, ct.body)
                    [] OTHER -> D!IsCipher(s, ct.body)
  /\ \A a \in Authorities : held[a] # None =>
       CASE IsFame -> F!IsKey(inst.p, held[a].body) [] IsGpsw -> G!IsKey(inst.p, held[a].body)
         [] OTHER -> D!IsKey(s, held[a].body)
  /\ out.err \in {"NONE", "INSUFFICIENT_KEYS", "CORRUPTED_BOOL_EXPRESSION", "MALFORMED_INPUT"}

\* FAME looks at one row for an attribute only (fame.c:319-331).
OneRowEach == IsFame /\ ct # None => IsInjective(Leaves(ct.for))

\* Keys and a ciphertext made under the same master keys, for the same user, give
\* the message when the attributes satisfy the policy, and otherwise, in the schemes
\* that can tell, the error INSUFFICIENT_KEYS: the conversion of the policy, the
\* choice of the rows, the linear system and the cancellation of the masks agree,
\* whatever keys have been replaced meanwhile.
DecryptCorrect ==
  out.same /\ OneRowEach =>
    IF out.satisfied THEN out.err = "NONE" /\ out.res = out.msg
    ELSE inst.scheme # "dippe" => out.err = "INSUFFICIENT_KEYS"

\* "If the keys were properly generated, this is possible if and only if the rows of
\* the MSP matrix corresponding to owned attributes span the vector [1, 0,..., 0]"
\* (fame.h:202-204).
DecryptIff ==
  out.same =>
    IF out.satisfied THEN out.err = "NONE" /\ out.res = out.msg
    ELSE inst.scheme # "dippe" => out.err = "INSUFFICIENT_KEYS"
=============================================================================
