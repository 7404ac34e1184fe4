--------------------------- MODULE Decentralised ---------------------------
(***************************************************************************)
(* The inner-product schemes without an authority, as their machines run   *)
(* them.  The clients exchange public keys, set their shares of zero,      *)
(* encrypt and send parts of functional keys to a decryptor, each at its   *)
(* own pace.  A client that restarts starts over with new keys, while      *)
(* others may still work with the old ones.  The operations are those of   *)
(* ShareSchemes.                                                           *)
(***************************************************************************)
EXTENDS ShareSchemes

CONSTANT Instances    \* which schemes are run, with which arguments and inputs:
                      \* a sequence, since the two kinds have different fields


\* An instance of either scheme: the shares z, the Diffie-Hellman secrets that the
\* sampler returns, the bound, the data of the clients, the y's, the randomness of
\* ciphertexts or their labels; and bounds of the model: how often a client is
\* initialised, and sets its share and generates keys per initialisation.
IsInstance(n) ==
  /\ n.z.n \in Nat \ {0} /\ n.z.order \in Nat \ {0}
  /\ DOMAIN n.z.pad = Elements(n.z) /\ \A e \in Elements(n.z) : IsShare(n.z, n.z.pad[e])
  /\ n.dh \subseteq Elements(n.z) /\ n.bound \in Nat
  /\ {n.maxInit, n.maxShare, n.maxGen} \subseteq Nat
  /\ n.scheme \in {"damgard_dec_multi", "dmcfe"}
  /\ CASE n.scheme = "damgard_dec_multi" ->
            /\ n.m.scheme.l \in Nat \ {0} /\ n.m.scheme.hexp \in Nat /\ n.m.scheme.grp.q = n.z.order
            /\ DamgardMultiNew(n.z.n, n.m.scheme.grp, n.m.scheme.l, n.bound, n.m.scheme.hexp) = Done(n.m)
            /\ Rows(n.z) = Clients(n.z) /\ Cols(n.z) = 1..n.m.scheme.l
            /\ n.keys \subseteq DecMultiSecretKeys(n.m, DamgardSecretRange(n.m.scheme.grp), Elements(n.z))
            /\ n.nonces \subseteq DamgardNonceRange(n.m.scheme.grp)
            /\ n.xs \subseteq [1..n.m.scheme.l -> Int]
            /\ n.ys \subseteq [Clients(n.z) -> [1..n.m.scheme.l -> Int]]
       [] n.scheme = "dmcfe" ->
            /\ n.d.q = n.z.order /\ n.d.wrap \in Nat /\ Rows(n.z) = Two /\ Cols(n.z) = Two
            /\ n.d.g1 \in [Two -> [n.nonces -> Elements(n.z)]]
            /\ n.d.g2 \in [Two -> [n.ys -> Elements(n.z)]]
            /\ n.keys \subseteq DmcfeSecretKeys(n.d)
            /\ n.xs \subseteq Int /\ n.ys \subseteq [Clients(n.z) -> Int]

ASSUME InstanceAssumption == \A k \in DOMAIN Instances : IsInstance(Instances[k])

VARIABLES
  inst,      \* the instance that is run
  inits,     \* how often each client has been initialised
  secret,    \* the Diffie-Hellman key of each client; the public key is its power of g
  published, \* the public keys (as exponents) that each client has ever published
  share,     \* the share of each client
  used,      \* the shared elements that went into it, per other client
  calls,     \* how often it was set since the client was initialised
  gen, key,  \* how often each client has generated its encryption key, and the key
  ct,        \* the last ciphertext of each client
  part,      \* the last part of a functional key that each client has sent
  out        \* what the last call returned; for a decryption, also what of

sharing == <<inits, secret, published, share, used, calls>>
vars == <<inst, sharing, gen, key, ct, part, out>>

IsDmcfe == inst.scheme = "dmcfe"
Parties == Clients(inst.z)
Nothing == [gen |-> 0]
NotADecryption(r) == [same |-> FALSE, y |-> <<>>, err |-> r.err, res |-> 0]

Ciphertext(k, x, n) ==
  IF IsDmcfe THEN DmcfeEncrypt(inst.d, k, x, n) ELSE DecMultiEncrypt(inst.m, k, x, n)
FeKeyPart(i, k, sh, y) ==
  IF IsDmcfe THEN DmcfeDeriveFeKeyPart(inst.d, i, k, sh, y)
             ELSE DecMultiDeriveFeKeyPart(inst.m, i, k, sh, y)
Plaintext(cs, ps, n, y) ==
  IF IsDmcfe THEN DmcfeDecrypt(inst.d, cs, ps, n, y, inst.bound) ELSE DecMultiDecrypt(inst.m, cs, ps, y)

Init ==
  /\ \E k \in DOMAIN Instances : inst = Instances[k]
  /\ inits = [i \in Parties |-> 0] /\ secret = [i \in Parties |-> 0]
  /\ published = [i \in Parties |-> {}]
  /\ share = [i \in Parties |-> ZeroShare(inst.z)]
  /\ used = [i \in Parties |-> NoneUsed(inst.z)] /\ calls = [i \in Parties |-> 0]
  /\ gen = [i \in Parties |-> 0] /\ key = [i \in Parties |-> Nothing]
  /\ ct = [i \in Parties |-> Nothing] /\ part = [i \in Parties |-> Nothing]
  /\ out = NotADecryption(Done(0))

\* A client is initialised, the first time or after a restart, which loses what it
\* held.
StartOver(i, dh) ==
  /\ inits[i] < inst.maxInit
  /\ inits' = [inits EXCEPT ![i] = @ + 1]
  /\ secret' = [secret EXCEPT ![i] = dh]
  /\ published' = [published EXCEPT ![i] = @ \cup {dh}]
  /\ share' = [share EXCEPT ![i] = ZeroShare(inst.z)]
  /\ used' = [used EXCEPT ![i] = NoneUsed(inst.z)]
  /\ calls' = [calls EXCEPT ![i] = 0]

\* cfe_damgard_dec_multi_client_init: the encryption key comes from another call.
DamgardClientInit(i, dh) ==
  /\ ~IsDmcfe /\ StartOver(i, dh)
  /\ key' = [key EXCEPT ![i] = Nothing] /\ out' = NotADecryption(Done(0))
  /\ UNCHANGED <<inst, gen, ct, part>>

\* cfe_damgard_dec_multi_generate_keys.
GenerateKeys(i, k) ==
  /\ ~IsDmcfe /\ inits[i] > 0 /\ gen[i] < inits[i] * inst.maxGen
  /\ gen' = [gen EXCEPT ![i] = @ + 1]
  /\ key' = [key EXCEPT ![i] = [gen |-> gen[i] + 1, key |-> k]]
  /\ out' = NotADecryption(Done(0))
  /\ UNCHANGED <<inst, sharing, ct, part>>

\* cfe_dmcfe_client_init, which samples the encryption key as well.
DmcfeClientInit(i, dh, k) ==
  /\ IsDmcfe /\ StartOver(i, dh)
  /\ gen' = [gen EXCEPT ![i] = @ + 1]
  /\ key' = [key EXCEPT ![i] = [gen |-> gen[i] + 1, key |-> k]]
  /\ out' = NotADecryption(Done(0))
  /\ UNCHANGED <<inst, ct, part>>

\* The arrays of public keys that a client can have received.
Received == {pks \in [Parties -> UNION {published[k] : k \in Parties}] :
               \A k \in Parties : pks[k] \in published[k]}

\* cfe_damgard_dec_multi_client_set_share and cfe_dmcfe_set_share, with public keys
\* that may have been replaced meanwhile.
SetShareOf(i, pks) ==
  /\ inits[i] > 0 /\ calls[i] < inst.maxShare
  /\ calls' = [calls EXCEPT ![i] = @ + 1]
  /\ share' = [share EXCEPT ![i] = SetShare(inst.z, i, secret[i], @, pks)]
  /\ used' = [used EXCEPT ![i] = Use(inst.z, i, secret[i], @, pks)]
  /\ out' = NotADecryption(Done(0))
  /\ UNCHANGED <<inst, inits, secret, published, gen, key, ct, part>>

Encrypt(i, x, n) ==
  /\ key[i] # Nothing
  /\ LET r == Ciphertext(key[i].key, x, n)
     IN /\ ct' = IF r.err = "NONE"
                 THEN [ct EXCEPT ![i] = [gen |-> key[i].gen, label |-> IF IsDmcfe THEN n ELSE 0,
                                         x |-> x, ct |-> r.res]]
                 ELSE ct
        /\ out' = NotADecryption(r)
  /\ UNCHANGED <<inst, sharing, gen, key, part>>

DeriveFeKeyPart(i, y) ==
  /\ key[i] # Nothing
  /\ LET r == FeKeyPart(i, key[i].key, share[i], y)
     IN /\ part' = IF r.err = "NONE"
                   THEN [part EXCEPT ![i] = [gen |-> key[i].gen, y |-> y, used |-> used[i],
                                             part |-> r.res]]
                   ELSE part
        /\ out' = NotADecryption(r)
  /\ UNCHANGED <<inst, sharing, gen, key, ct>>

\* Ciphertexts and parts that belong together: of the same label and y, under the
\* same keys, and hidden under shares that agree.
Together(n, y) ==
  /\ \A i \in Parties : part[i].gen = ct[i].gen /\ part[i].y = y
  /\ IsDmcfe => \A i \in Parties : ct[i].label = n
  /\ Agree([i \in Parties |-> part[i].used])

\* The decryptor uses one ciphertext and one part of every client.
Decrypt(n, y) ==
  /\ \A i \in Parties : ct[i] # Nothing /\ part[i] # Nothing
  /\ LET r == Plaintext([i \in Parties |-> ct[i].ct], [i \in Parties |-> part[i].part], n, y)
     IN out' = [same |-> Together(n, y) /\ r.err # "BOUND_CHECK_FAILED", y |-> y,
                err |-> r.err, res |-> r.res]
  /\ UNCHANGED <<inst, sharing, gen, key, ct, part>>

Next ==
  \/ \E i \in Parties :
       \/ \E dh \in inst.dh :
            \/ DamgardClientInit(i, dh)
            \/ \E k \in inst.keys : DmcfeClientInit(i, dh, k)
       \/ \E k \in inst.keys : GenerateKeys(i, k)
       \/ \E pks \in Received : SetShareOf(i, pks)
       \/ \E x \in inst.xs, n \in inst.nonces : Encrypt(i, x, n)
       \/ \E y \in inst.ys : DeriveFeKeyPart(i, y)
  \/ \E n \in inst.nonces, y \in inst.ys : Decrypt(n, y)

Spec == Init /\ [][Next]_vars

-----------------------------------------------------------------------------
\* The counters of the clients, and the codes that calls return.
CountersOK ==
  /\ inits \in [Parties -> 0..inst.maxInit] /\ calls \in [Parties -> 0..inst.maxShare]
  /\ gen \in [Parties -> Nat] /\ {DOMAIN key, DOMAIN ct, DOMAIN part} = {Parties}
  /\ out.err \in {"NONE", "BOUND_CHECK_FAILED", "DLOG_NOT_FOUND"}

\* The types of what the clients hold and exchange.
TypeOK ==
  /\ CountersOK /\ {DOMAIN share, DOMAIN used} = {Parties}
  /\ secret \in [Parties -> inst.dh \cup {0}] /\ published \in [Parties -> SUBSET inst.dh]
  /\ \A i \in Parties :
       /\ IsShare(inst.z, share[i])
       /\ key[i] # Nothing => key[i].key \in inst.keys
       /\ part[i] # Nothing =>
            IF IsDmcfe THEN part[i].part \in DmcfeSecretKeys(inst.d)
                       ELSE DecMultiIsFeKeyPart(inst.m, part[i].part)

\* Whenever every two clients have used the same elements for each other, the
\* shares are zero together (damgard_dec_multi.c:45-80, dmcfe.c:52-81), whatever
\* the order and the number of the calls that set them, whichever keys were
\* received late and whoever was restarted before.
SharesCancel ==
  Agree(used) =>
    \A r \in Rows(inst.z), c \in Cols(inst.z) :
      SumFunction([i \in Parties |-> share[i][r][c]]) % inst.z.order = 0

-----------------------------------------------------------------------------
(* The inductive invariant behind it. *)

\* What the client i has used: for every client, elements with their numbers.
IsUsed(z, u) ==
  DOMAIN u = Clients(z) /\ \A k \in Clients(z) : IsABag(u[k]) /\ BagToSet(u[k]) \subseteq Elements(z)

\* How often e is in bag.
Copies(e, bag) == IF BagIn(e, bag) THEN bag[e] ELSE 0

\* What the elements in bag add to the share of i for the client k.
Weight(z, i, k, bag, r, c) ==
  SumFunction([e \in Elements(z) |-> Copies(e, bag) * SignedPad(z, i, k, e, r, c)])

\* The share of the client i that has used u.
ShareOf(z, i, u) ==
  [r \in Rows(z) |-> [c \in Cols(z) |->
     SumFunction([k \in Clients(z) \ {i} |-> Weight(z, i, k, u[k], r, c)]) % z.order]]

\* A share is the sum of what went into it, also after calls that were repeated with
\* other public keys and after a restart (damgard_dec_multi.c:65-77, dmcfe.c:69-78).
SharingOK ==
  /\ secret \in [Parties -> inst.dh \cup {0}] /\ published \in [Parties -> SUBSET inst.dh]
  /\ DOMAIN share = Parties /\ DOMAIN used = Parties
  /\ \A i \in Parties : IsUsed(inst.z, used[i]) /\ share[i] = ShareOf(inst.z, i, used[i])

SharingInv == IsInstance(inst) /\ SharingOK

-----------------------------------------------------------------------------
\* The sum that the last decryption was asked for, and whether its data is bounded.
Xs == [i \in Parties |-> ct[i].x]
Sum == IF IsDmcfe THEN Dot(Xs, out.y) ELSE MatDot(Xs, out.y)
InBounds ==
  IF IsDmcfe THEN Bounded(Xs, inst.bound) /\ Bounded(out.y, inst.bound)
             ELSE MatBounded(Xs, inst.bound) /\ MatBounded(out.y, inst.bound)

\* The bounds for which no search can take a value for another one.
Searchable ==
  IF IsDmcfe THEN UnambiguousGT(inst.d.q, inst.bound * inst.bound * inst.z.n)
             ELSE Unambiguous(inst.m.scheme.grp, DamgardMultiReach(inst.m))

\* Decryption with ciphertexts and parts that belong together returns the sum of
\* the inner products of bounded data, although no party ever held the key
\* (damgard_dec_multi.c:174-201, dmcfe.c:149-215).  In the Damgard scheme a search
\* may pass over it; in the other scheme no encrypted number may be negative.  It
\* holds when the search has no value to mistake for another.
DecryptCorrect ==
  out.same /\ InBounds /\ Searchable /\ (IsDmcfe => \A i \in Parties : ct[i].x >= 0)
    => \/ out.err = "NONE" /\ out.res = Sum
       \/ /\ ~IsDmcfe /\ out.err = "DLOG_NOT_FOUND"
          /\ Overlooked(inst.m.scheme.grp, Sum, DamgardMultiReach(inst.m))

\* The bound that decryption takes is "a bound on all the values of the encrypted
\* vector and inner-product vector" (dmcfe.h:119-120): with data within it,
\* negative or not, decryption returns the inner product.
DecryptBounded ==
  out.same /\ IsDmcfe /\ InBounds => out.err = "NONE" /\ out.res = Sum

-----------------------------------------------------------------------------
(* The inductive invariant behind TypeOK and DecryptCorrect. *)

\* What a client holds and has sent last was made with its keys h, of which there are g:
\* its key a, its ciphertext c, and its part p of a functional key, which is hidden under
\* the share of that moment.
HasKey(a, g, h) == a # Nothing => a.gen \in 1..g /\ a.key = h[a.gen]
HasSent(c, g, h) ==
  c # Nothing =>
    /\ c.gen \in 1..g /\ c.x \in inst.xs
    /\ \E n \in inst.nonces : /\ c.label = IF IsDmcfe THEN n ELSE 0
                             /\ Ciphertext(h[c.gen], c.x, n) = Done(c.ct)
HasDerived(i, p, g, h) ==
  p # Nothing =>
    /\ p.gen \in 1..g /\ p.y \in inst.ys /\ IsUsed(inst.z, p.used)
    /\ FeKeyPart(i, h[p.gen], ShareOf(inst.z, i, p.used), p.y) = Done(p.part)
Genuine(i, h) ==
  HasKey(key[i], gen[i], h) /\ HasSent(ct[i], gen[i], h) /\ HasDerived(i, part[i], gen[i], h)

\* There are such keys although a client that starts over has lost them
\* (damgard_dec_multi.c:95-172, dmcfe.c:83-147).
Genuineness == \A i \in Parties : \E h \in [1..gen[i] -> inst.keys] : Genuine(i, h)

IInv == SharingInv /\ CountersOK /\ Genuineness /\ DecryptCorrect
=============================================================================
