------------------------- MODULE SingleInput_proofs -------------------------
(***************************************************************************)
(* Proofs about the single-input schemes over Z_p: for every group, every  *)
(* length, bound, vector and randomness, and every number of epochs,       *)
(* ciphertexts and keys, what is decrypted is the inner product.  The same *)
(* of the Paillier scheme, for all primes and generators, and of the       *)
(* schemes from lattices, for all moduli, dimensions and tolerated noise.  *)
(***************************************************************************)
EXTENDS MCSingleInput, SchemeLemmas

-----------------------------------------------------------------------------
(* The operations of the scheme that is run *)

\* What the set-up makes of an instance.
LEMMA NewFacts ==
  ASSUME inst \in Instances, NEW b \in inst.bounds, NEW sch, New(b) = Done(sch)
  PROVE  /\ sch.grp = inst.grp /\ sch.l = inst.l /\ sch.bound = b
         /\ IsDamgard => sch.hexp = inst.hexp
<1>0. inst.grp.q # 0
  BY InstanceAssumption DEF IsInstance
<1>1. inst.scheme \in {"damgard", "ddh", "ddh_precomp"}
  BY InstanceAssumption DEF IsInstance
<1>2. CASE inst.scheme = "damgard"
  <2>1. DamgardNew(inst.grp, inst.l, b, inst.hexp) = Done(sch)
    BY <1>2 DEF New, NewIn
  <2>2. sch = [grp |-> inst.grp, l |-> inst.l, bound |-> b, hexp |-> inst.hexp]
    BY <1>0, <2>1 DEF DamgardNew, Done, Failed
  <2> QED BY <2>2
<1>3. CASE inst.scheme # "damgard"
  <2>1. \E precomp \in BOOLEAN : DdhNew(inst.grp, inst.l, b, precomp) = Done(sch)
    BY <1>1, <1>3 DEF New, NewIn
  <2>2. sch = [grp |-> inst.grp, l |-> inst.l, bound |-> b]
    BY <1>0, <2>1 DEF DdhNew, Done, Failed
  <2> QED BY <1>3, <2>2 DEF IsDamgard
<1> QED BY <1>2, <1>3

\* A scheme that has been set up has the parameters of its instance.
LEMMA SchemeFacts ==
  ASSUME inst \in Instances, SetUp, s # NoScheme
  PROVE  /\ IsInstance(inst)
         /\ inst.grp.q \in Nat /\ inst.grp.q # 0 /\ inst.l \in Nat
         /\ s.grp = inst.grp /\ s.l = inst.l /\ s.bound \in Nat
         /\ IsDamgard => s.hexp \in Int
<1>1. IsInstance(inst)
  BY InstanceAssumption
<1>2. PICK b \in inst.bounds : New(b) = Done(s)
  BY DEF SetUp
<1>3. inst.bounds \subseteq Nat
      /\ inst.grp.q \in Nat /\ inst.grp.q > 2 /\ inst.l \in Nat \ {0} /\ inst.hexp \in Nat
  BY <1>1 DEF IsInstance
<1> QED BY <1>1, <1>2, <1>3, NewFacts

\* The secrets, the data and the randomness are vectors of integers and integers.
LEMMA InputFacts ==
  ASSUME inst \in Instances, SetUp, s # NoScheme
  PROVE  /\ \A m \in Keys : IF IsDamgard THEN m.s \in [1..s.l -> Int] /\ m.t \in [1..s.l -> Int]
                                         ELSE m \in [1..s.l -> Int]
         /\ inst.xs \subseteq [1..s.l -> Int] /\ inst.ys \subseteq [1..s.l -> Int]
         /\ inst.nonces \subseteq Int
         /\ ~IsDamgard => inst.nonces \subseteq DdhNonceRange(s.grp)
<1>1. /\ IsInstance(inst) /\ s.grp = inst.grp /\ s.l = inst.l
      /\ inst.grp.q \in Nat /\ Modulus(inst.grp) \in Int
  BY SchemeFacts DEF Modulus
<1>2. inst.secrets \subseteq Int /\ inst.nonces \subseteq Int
  <2>1. CASE inst.scheme = "damgard"
    BY <1>1, <2>1 DEF IsInstance, DamgardSecretRange, DamgardNonceRange
  <2>2. CASE inst.scheme # "damgard"
    BY <1>1, <2>2 DEF IsInstance, DdhSecretRange, DdhNonceRange
  <2> QED BY <2>1, <2>2
<1>3. ASSUME NEW m \in Keys
      PROVE  IF IsDamgard THEN m.s \in [1..s.l -> Int] /\ m.t \in [1..s.l -> Int]
                          ELSE m \in [1..s.l -> Int]
  <2>1. CASE IsDamgard
    <3>1. m.s \in [1..s.l -> inst.secrets] /\ m.t \in [1..s.l -> inst.secrets]
      BY <2>1 DEF Keys, DamgardSecretKeys
    <3> QED BY <1>2, <2>1, <3>1
  <2>2. CASE ~IsDamgard
    <3>1. m \in [1..s.l -> inst.secrets]
      BY <2>2 DEF Keys, DdhSecretKeys
    <3> QED BY <1>2, <2>2, <3>1
  <2> QED BY <2>1, <2>2
<1>4. inst.xs \subseteq [1..s.l -> Int] /\ inst.ys \subseteq [1..s.l -> Int]
      /\ (~IsDamgard => inst.nonces \subseteq DdhNonceRange(s.grp))
  BY <1>1 DEF IsInstance, IsDamgard
<1> QED BY <1>2, <1>3, <1>4

\* The codes that the calls return.
LEMMA CallCodes ==
  /\ \A b : inst \in Instances => New(b).err \in {"NONE", "PRECONDITION_FAILED"}
  /\ \A m, y : FeKey(m, y).err \in {"NONE", "BOUND_CHECK_FAILED"}
  /\ \A x, mpk, n : Ciphertext(x, mpk, n).err \in {"NONE", "BOUND_CHECK_FAILED"}
  /\ \A cx, fk, y : Plaintext(cx, fk, y).err \in {"NONE", "BOUND_CHECK_FAILED", "DLOG_NOT_FOUND"}
<1>1. ASSUME NEW b, inst \in Instances PROVE New(b).err \in {"NONE", "PRECONDITION_FAILED"}
  <2>1. inst.scheme \in {"damgard", "ddh", "ddh_precomp"} /\ inst.grp.q # 0
    BY <1>1, InstanceAssumption DEF IsInstance
  <2> QED BY <2>1 DEF New, NewIn, DamgardNew, DdhNew, Done, Failed
<1>2. ASSUME NEW m, NEW y PROVE FeKey(m, y).err \in {"NONE", "BOUND_CHECK_FAILED"}
  BY DEF FeKey, DamgardDeriveFeKey, DdhDeriveFeKey, Done, Failed
<1>3. ASSUME NEW x, NEW mpk, NEW n
      PROVE  Ciphertext(x, mpk, n).err \in {"NONE", "BOUND_CHECK_FAILED"}
  BY DEF Ciphertext, DamgardEncrypt, DdhEncrypt, Done, Failed
<1>4. ASSUME NEW cx, NEW fk, NEW y
      PROVE  Plaintext(cx, fk, y).err \in {"NONE", "BOUND_CHECK_FAILED", "DLOG_NOT_FOUND"}
  BY SearchCodes DEF Plaintext, DamgardDecrypt, DdhDecrypt, Failed
<1> QED BY <1>1, <1>2, <1>3, <1>4

\* A call that returns no error returns its result.
LEMMA CallResults ==
  /\ \A b : inst \in Instances /\ New(b).err = "NONE" => New(b) = Done(New(b).res)
  /\ \A m, y : FeKey(m, y).err = "NONE" => FeKey(m, y) = Done(FeKey(m, y).res)
  /\ \A x, mpk, n : Ciphertext(x, mpk, n).err = "NONE"
                      => Ciphertext(x, mpk, n) = Done(Ciphertext(x, mpk, n).res)
<1>1. ASSUME NEW b, inst \in Instances, New(b).err = "NONE" PROVE New(b) = Done(New(b).res)
  <2>1. inst.scheme \in {"damgard", "ddh", "ddh_precomp"} /\ inst.grp.q # 0
    BY <1>1, InstanceAssumption DEF IsInstance
  <2> QED BY <1>1, <2>1 DEF New, NewIn, DamgardNew, DdhNew, Done, Failed
<1>2. ASSUME NEW m, NEW y, FeKey(m, y).err = "NONE" PROVE FeKey(m, y) = Done(FeKey(m, y).res)
  BY <1>2 DEF FeKey, DamgardDeriveFeKey, DdhDeriveFeKey, Done, Failed
<1>3. ASSUME NEW x, NEW mpk, NEW n, Ciphertext(x, mpk, n).err = "NONE"
      PROVE  Ciphertext(x, mpk, n) = Done(Ciphertext(x, mpk, n).res)
  BY <1>3 DEF Ciphertext, DamgardEncrypt, DdhEncrypt, Done, Failed
<1> QED BY <1>1, <1>2, <1>3

\* What a search returns for a ciphertext and a key that belong together.
LEMMA PlaintextCorrect ==
  ASSUME inst \in Instances, SetUp, s # NoScheme,
         NEW m \in Keys, NEW x \in inst.xs, NEW y \in inst.ys, NEW n \in inst.nonces,
         NEW cx, NEW fk, NEW r,
         Ciphertext(x, PublicKey(m), n) = Done(cx), FeKey(m, y) = Done(fk),
         r = Plaintext(cx, fk, y), r.err # "BOUND_CHECK_FAILED",
         Bounded(x, s.bound), Bounded(y, s.bound), Unambiguous(inst.grp, DamgardReach(s))
  PROVE  \/ r.err = "NONE" /\ r.res = Dot(x, y)
         \/ /\ r.err = "DLOG_NOT_FOUND"
            /\ Overlooked(inst.grp, Dot(x, y), DamgardReach(s))
<1>1. /\ inst.grp.q \in Nat /\ inst.grp.q # 0 /\ inst.l \in Nat
      /\ s.grp = inst.grp /\ s.l = inst.l /\ s.bound \in Nat /\ (IsDamgard => s.hexp \in Int)
  BY SchemeFacts
<1>2. /\ IF IsDamgard THEN m.s \in [1..s.l -> Int] /\ m.t \in [1..s.l -> Int]
                      ELSE m \in [1..s.l -> Int]
      /\ x \in [1..s.l -> Int] /\ y \in [1..s.l -> Int] /\ n \in Int
  BY InputFacts
<1>0. PICK grp : grp = s.grp
  OBVIOUS
<1>3. PICK l \in Nat, b \in Nat, B \in Nat :
        grp = s.grp /\ l = s.l /\ b = s.bound /\ B = b * b * l
  <2>1. PICK l \in Nat, b \in Nat : l = s.l /\ b = s.bound
    BY <1>1
  <2>2. PICK c \in Nat : c = b * b
    OBVIOUS
  <2>3. c * l \in Nat
    OBVIOUS
  <2> QED BY <1>0, <2>1, <2>2, <2>3
<1>4. DamgardReach(s) = B /\ DdhReach(s) = B
  BY <1>3 DEF DamgardReach, DdhReach
<1>5. r = BabyGiantWithNeg(grp, Dot(x, y) % grp.q, B)
  <2>1. CASE IsDamgard
    <3>1. DamgardEncrypt(s, x, DamgardPublicKey(s, m), n) = Done(cx)
          /\ DamgardDeriveFeKey(s, m, y) = Done(fk)
      BY <2>1 DEF Ciphertext, PublicKey, FeKey
    <3>2. Unmask(s, cx, fk, y) = Dot(x, y) % s.grp.q
      BY <1>1, <1>2, <2>1, <3>1, DamgardCancels
    <3>3. r = BabyGiantWithNeg(s.grp, Unmask(s, cx, fk, y), DamgardReach(s))
      BY <2>1 DEF Plaintext, DamgardDecrypt, Failed
    <3> QED BY <1>3, <1>4, <3>2, <3>3
  <2>2. CASE ~IsDamgard
    <3>1. DdhEncrypt(s, x, DdhPublicKey(s, m), n) = Done(cx) /\ DdhDeriveFeKey(s, m, y) = Done(fk)
      BY <2>2 DEF Ciphertext, PublicKey, FeKey
    <3>2. DdhUnmask(s, cx, fk, y) = Dot(x, y) % s.grp.q
      BY <1>1, <1>2, <2>2, <3>1, DdhCancels
    <3>3. r = BabyGiantWithNeg(s.grp, DdhUnmask(s, cx, fk, y), DdhReach(s))
      BY <2>2 DEF Plaintext, DdhDecrypt, DdhUnmask, Failed
    <3> QED BY <1>3, <1>4, <3>2, <3>3
  <2> QED BY <2>1, <2>2
<1>6. PICK v \in (-B)..B : v = Dot(x, y)
  <2>1. x \in [1..l -> Int] /\ y \in [1..l -> Int] /\ Bounded(x, b) /\ Bounded(y, b)
    BY <1>2, <1>3
  <2>2. Dot(x, y) \in (-(b * b * l))..(b * b * l)
    BY <2>1, DotBounded
  <2> QED BY <1>3, <2>2
<1>7. grp.q \in Nat /\ grp.q # 0 /\ Unambiguous(grp, B)
  BY <1>1, <1>3, <1>4
<1>8. r = BabyGiantWithNeg(grp, v % grp.q, B)
  BY <1>5, <1>6
<1>9. \/ r.err = "NONE" /\ r.res = v
      \/ r.err = "DLOG_NOT_FOUND" /\ Overlooked(grp, v, B)
  BY <1>7, <1>8, SearchOfPower
<1> QED BY <1>1, <1>3, <1>4, <1>6, <1>9

\* What the calls return has the types of TypeOK.
LEMMA ResultTypes ==
  ASSUME inst \in Instances, SetUp, s # NoScheme
  PROVE  /\ \A x, mpk, cx : \A n \in inst.nonces :
              Ciphertext(x, mpk, n) = Done(cx) /\ (\A k \in 1..s.l : mpk[k] \in Int) /\ x \in [1..s.l -> Int]
                => IF IsDamgard THEN DamgardIsCiphertext(s, cx) ELSE DdhIsCiphertext(s, cx)
         /\ \A m \in Keys : \A k \in 1..s.l : PublicKey(m)[k] \in Int
         /\ \A fk : \A m \in Keys : \A y \in inst.ys :
              FeKey(m, y) = Done(fk)
                => IF IsDamgard THEN DamgardIsFeKey(s, fk) ELSE DdhIsFeKey(s, fk)
<1>1. PICK q \in Nat, l \in Nat : q = s.grp.q /\ q # 0 /\ l = s.l
  BY SchemeFacts
<1>2. IsDamgard => s.hexp \in Int
  BY SchemeFacts
<1>3. ASSUME NEW x, NEW mpk, NEW cx, NEW n \in inst.nonces, Ciphertext(x, mpk, n) = Done(cx),
             \A k \in 1..s.l : mpk[k] \in Int, x \in [1..s.l -> Int]
      PROVE  IF IsDamgard THEN DamgardIsCiphertext(s, cx) ELSE DdhIsCiphertext(s, cx)
  <2>1. n \in Int /\ (~IsDamgard => n \in DdhNonceRange(s.grp))
    BY InputFacts
  <2>2. [k \in 1..s.l |-> (mpk[k] * n + x[k]) % s.grp.q] \in [1..s.l -> Exponents(s.grp)]
    <3>1. ASSUME NEW k \in 1..s.l PROVE (mpk[k] * n + x[k]) % s.grp.q \in 0..(q - 1)
      <4>1. PICK a, b \in Int : a = mpk[k] /\ b = x[k]
        BY <1>3
      <4>2. PICK d \in Int : d = a * n + b
        BY <2>1
      <4>3. d % q \in 0..(q - 1)
        BY <1>1, CongruentMod
      <4> QED BY <1>1, <4>1, <4>2, <4>3
    <3> QED BY <1>1, <3>1 DEF Exponents
  <2>3. CASE IsDamgard
    <3>1. CheckBound(x, s.bound)
      BY <1>3, <2>3 DEF Ciphertext, DamgardEncrypt, Done, Failed
    <3>2. cx = [c0 |-> n % s.grp.q, c1 |-> (s.hexp * n) % s.grp.q,
                c |-> [k \in 1..s.l |-> (mpk[k] * n + x[k]) % s.grp.q]]
      BY <1>3, <2>3, <3>1 DEF Ciphertext, DamgardEncrypt, Done
    <3>3. PICK g, a \in Int : g = s.hexp * n /\ a = n
      BY <1>2, <2>1, <2>3
    <3>4. a % q \in 0..(q - 1) /\ g % q \in 0..(q - 1)
      BY <1>1, CongruentMod
    <3>5. cx.c0 \in Exponents(s.grp) /\ cx.c1 \in Exponents(s.grp)
      BY <1>1, <3>2, <3>3, <3>4 DEF Exponents
    <3>6. cx.c \in [1..s.l -> Exponents(s.grp)]
      BY <2>2, <3>2
    <3> QED BY <2>3, <3>5, <3>6 DEF DamgardIsCiphertext
  <2>4. CASE ~IsDamgard
    <3>1. CheckBound(x, s.bound)
      BY <1>3, <2>4 DEF Ciphertext, DdhEncrypt, Done, Failed
    <3>2. cx = [c0 |-> n, c |-> [k \in 1..s.l |-> (mpk[k] * n + x[k]) % s.grp.q]]
      BY <1>3, <2>4, <3>1 DEF Ciphertext, DdhEncrypt, Done
    <3> QED BY <2>1, <2>2, <2>4, <3>2 DEF DdhIsCiphertext
  <2> QED BY <2>3, <2>4
<1>4. ASSUME NEW m \in Keys, NEW k \in 1..s.l PROVE PublicKey(m)[k] \in Int
  <2>1. CASE IsDamgard
    <3>1. PICK a, b, h \in Int : a = m.s[k] /\ b = m.t[k] /\ h = s.hexp
      BY <1>2, <2>1, InputFacts
    <3>2. PICK d \in Int : d = a + h * b
      OBVIOUS
    <3>3. d % q \in Int
      BY <1>1, CongruentMod
    <3>4. PublicKey(m)[k] = (m.s[k] + s.hexp * m.t[k]) % s.grp.q
      BY <2>1 DEF PublicKey, DamgardPublicKey
    <3> QED BY <1>1, <3>1, <3>2, <3>3, <3>4
  <2>2. CASE ~IsDamgard
    <3>1. PICK a \in Int : a = m[k]
      BY <2>2, InputFacts
    <3>2. a % q \in Int
      BY <1>1, CongruentMod
    <3>3. PublicKey(m)[k] = m[k] % s.grp.q
      BY <2>2 DEF PublicKey, DdhPublicKey
    <3> QED BY <1>1, <3>1, <3>2, <3>3
  <2> QED BY <2>1, <2>2
<1>5. ASSUME NEW fk, NEW m \in Keys, NEW y \in inst.ys, FeKey(m, y) = Done(fk)
      PROVE  IF IsDamgard THEN DamgardIsFeKey(s, fk) ELSE DdhIsFeKey(s, fk)
  <2>1. IsFiniteSet(1..l)
    BY FS_Interval
  <2>2. y \in [1..l -> Int]
    BY <1>1, InputFacts
  <2>3. CASE IsDamgard
    <3>1. CheckBound(y, s.bound)
      BY <1>5, <2>3 DEF FeKey, DamgardDeriveFeKey, Done, Failed
    <3>2. fk = [key1 |-> Dot(m.s, y) % (Modulus(s.grp) - 1), key2 |-> Dot(m.t, y) % (Modulus(s.grp) - 1)]
      BY <1>5, <2>3, <3>1 DEF FeKey, DamgardDeriveFeKey, Done
    <3>3. m.s \in [1..l -> Int] /\ m.t \in [1..l -> Int]
      BY <1>1, <2>3, InputFacts
    <3>4. PICK S, T \in Int : S = Dot(m.s, y) /\ T = Dot(m.t, y)
      BY <2>1, <2>2, <3>3, DotIsInt
    <3>5. PICK k \in Nat : k = Modulus(s.grp) - 1 /\ k # 0 /\ Modulus(s.grp) - 2 = k - 1
      BY <1>1 DEF Modulus
    <3>6. S % k \in 0..(k - 1) /\ T % k \in 0..(k - 1)
      BY <3>5, CongruentMod
    <3> QED BY <2>3, <3>2, <3>4, <3>5, <3>6 DEF DamgardIsFeKey
  <2>4. CASE ~IsDamgard
    <3>1. CheckBound(y, s.bound)
      BY <1>5, <2>4 DEF FeKey, DdhDeriveFeKey, Done, Failed
    <3>2. fk = Dot(m, y) % s.grp.q
      BY <1>5, <2>4, <3>1 DEF FeKey, DdhDeriveFeKey, Done
    <3>3. m \in [1..l -> Int]
      BY <1>1, <2>4, InputFacts
    <3>4. PICK S \in Int : S = Dot(m, y)
      BY <2>1, <2>2, <3>3, DotIsInt
    <3>5. S % q \in 0..(q - 1)
      BY <1>1, CongruentMod
    <3> QED BY <1>1, <2>4, <3>2, <3>4, <3>5 DEF DdhIsFeKey, Exponents
  <2> QED BY <2>3, <2>4
<1> QED BY <1>3, <1>4, <1>5

-----------------------------------------------------------------------------
(* The steps *)

\* The invariant holds before the set-up.
LEMMA InitIInv == Init => IInv
<1> SUFFICES ASSUME Init PROVE IInv
  OBVIOUS
<1>1. TypeOK
  BY InstanceAssumption DEF Init, TypeOK, NoScheme, NotADecryption, Done
<1>2. DecryptCorrect
  BY DEF Init, DecryptCorrect, NotADecryption
<1> QED BY <1>1, <1>2 DEF Init, IInv, SetUp

\* A set-up without a group fails.
LEMMA WithoutGroup ==
  ASSUME inst \in Instances, NEW grp \in NoGroups, NEW b
  PROVE  NewIn(grp, b).err \in {"PARAM_GEN_FAILED", "PRECONDITION_FAILED"}
<1>1. PICK e \in {"PARAM_GEN_FAILED", "PRECONDITION_FAILED"} : grp = NoGroup(e)
  BY DEF NoGroups
<1>2. grp.q = 0 /\ grp.err = e
  BY <1>1 DEF NoGroup
<1>3. inst.scheme \in {"damgard", "ddh", "ddh_precomp"}
  BY InstanceAssumption DEF IsInstance
<1>4. NewIn(grp, b) = Failed(e)
  BY <1>2, <1>3 DEF NewIn, DamgardNew, DdhNew
<1> QED BY <1>4 DEF Failed

\* A set-up without a group changes nothing but its result.
LEMMA SetupWithoutGroup == IInv /\ (\E grp \in NoGroups, b \in inst.bounds : Setup(grp, b)) => IInv'
<1> SUFFICES ASSUME IInv, NEW grp \in NoGroups, NEW b \in inst.bounds, Setup(grp, b) PROVE IInv'
  OBVIOUS
<1>1. inst \in Instances
  BY DEF IInv, TypeOK
<1>2. PICK r : /\ r = NewIn(grp, b)
               /\ r.err \in {"PARAM_GEN_FAILED", "PRECONDITION_FAILED"}
  BY <1>1, WithoutGroup
<1>3. s = NoScheme /\ UNCHANGED <<inst, s, msk, epoch, pub, cts, keys>> /\ out' = NotADecryption(r)
  BY <1>2 DEF Setup
<1>4. TypeOK' /\ DecryptCorrect'
  BY <1>2, <1>3 DEF IInv, TypeOK, DecryptCorrect, NotADecryption, IsDamgard
<1> QED BY <1>3, <1>4 DEF IInv, SetUp

\* The set-up.
LEMMA SetupIInv == IInv /\ (\E b \in inst.bounds : Setup(inst.grp, b)) => IInv'
<1> SUFFICES ASSUME IInv, NEW b \in inst.bounds, Setup(inst.grp, b) PROVE IInv'
  OBVIOUS
<1>1. /\ s = NoScheme /\ UNCHANGED <<inst, msk, epoch, pub, cts, keys>>
      /\ s' = (IF New(b).err = "NONE" THEN New(b).res ELSE NoScheme) /\ out' = NotADecryption(New(b))
  BY DEF Setup, New
<1>2. /\ inst \in Instances /\ epoch = 0 /\ cts = {} /\ keys = {} /\ pub.epoch = 0
  BY <1>1 DEF IInv, TypeOK, SetUp
<1>3. CASE s' = NoScheme
  <2>1. TypeOK'
    BY <1>1, <1>2, <1>3, CallCodes, InstanceAssumption DEF TypeOK, NoScheme, NotADecryption
  <2>2. DecryptCorrect'
    BY <1>1 DEF DecryptCorrect, NotADecryption
  <2> QED BY <1>1, <1>2, <1>3, <2>1, <2>2 DEF IInv, SetUp
<1>4. CASE s' # NoScheme
  <2>1. New(b) = Done(s')
    BY <1>1, <1>2, <1>4, CallResults
  <2>2. SetUp'
    BY <1>1, <1>4, <2>1 DEF SetUp, New, NewIn
  <2>3. s'.bound \in inst.bounds
    BY <1>2, <2>1, NewFacts
  <2>4. TypeOK'
    BY <1>1, <1>2, <2>3, CallCodes, InstanceAssumption DEF TypeOK, NotADecryption
  <2>5. DecryptCorrect'
    BY <1>1 DEF DecryptCorrect, NotADecryption
  <2>6. \E h \in [1..epoch -> Keys]' : Genuine(h)'
    <3>1. PICK h : h = [i \in 1..0 |-> 0]
      OBVIOUS
    <3>2. h \in [1..epoch -> Keys]'
      BY <1>1, <1>2, <3>1
    <3>3. Genuine(h)'
      BY <1>1, <1>2 DEF Genuine
    <3> QED BY <3>2, <3>3
  <2> QED BY <1>4, <2>2, <2>4, <2>5, <2>6 DEF IInv
<1> QED BY <1>3, <1>4

\* What depends on the instance and the scheme only does not change with the rest.
LEMMA SameScheme ==
  ASSUME inst' = inst, s' = s
  PROVE  /\ SetUp' <=> (IF s = NoScheme THEN epoch' = 0 /\ cts' = {} /\ keys' = {}
                        ELSE \E b \in inst.bounds : New(b) = Done(s))
         /\ Keys' = Keys /\ IsDamgard' = IsDamgard
         /\ \A m : PublicKey(m)' = PublicKey(m)
         /\ \A m, y : FeKey(m, y)' = FeKey(m, y)
         /\ \A x, mpk, n : Ciphertext(x, mpk, n)' = Ciphertext(x, mpk, n)
<1>1. \A b : New(b)' = New(b)
  BY DEF New, NewIn
<1>2. SetUp' <=> (IF s = NoScheme THEN epoch' = 0 /\ cts' = {} /\ keys' = {}
                  ELSE \E b \in inst.bounds : New(b) = Done(s))
  BY <1>1 DEF SetUp
<1> QED BY <1>2 DEF Keys, IsDamgard, PublicKey, FeKey, Ciphertext

\* A new master key.
LEMMA GenerateIInv ==
  IInv /\ s # NoScheme /\ (\E fk \in Keys : GenerateMasterKeys(fk)) => IInv'
<1> SUFFICES ASSUME IInv, s # NoScheme, NEW fk \in Keys, GenerateMasterKeys(fk) PROVE IInv'
  OBVIOUS
<1>1. /\ epoch < MaxEpoch /\ msk' = fk /\ epoch' = epoch + 1
      /\ UNCHANGED <<inst, s, pub, cts, keys, out>>
  BY DEF GenerateMasterKeys
<1>2. TypeOK /\ DecryptCorrect /\ SetUp /\ epoch \in Nat /\ MaxEpoch \in Nat
  BY InstanceAssumption DEF IInv, TypeOK
<1>3. PICK h \in [1..epoch -> Keys] : Genuine(h)
  BY DEF IInv
<1>4. TypeOK'
  BY <1>1, <1>2 DEF TypeOK, IsDamgard
<1>5. DecryptCorrect'
  BY <1>1, <1>2 DEF DecryptCorrect
<1>6. SetUp'
  BY <1>1, <1>2, SameScheme DEF SetUp
<1>7. PICK k : k = [i \in 1..(epoch + 1) |-> IF i = epoch + 1 THEN fk ELSE h[i]]
  OBVIOUS
<1>8. /\ k \in [1..(epoch + 1) -> Keys] /\ k[epoch + 1] = fk
      /\ \A i \in 1..epoch : i \in 1..(epoch + 1) /\ k[i] = h[i]
  BY <1>2, <1>7
<1>9. k \in [1..epoch -> Keys]'
  BY <1>1, <1>8, SameScheme
<1>10. Genuine(k)'
  <2>1. pub.epoch > 0 => pub.mpk = PublicKey(k[pub.epoch])
    BY <1>2, <1>3, <1>8 DEF Genuine, TypeOK
  <2>2. ASSUME NEW c \in cts
        PROVE  /\ c.epoch \in 1..(epoch + 1) /\ c.x \in inst.xs
               /\ \E n \in inst.nonces : Ciphertext(c.x, PublicKey(k[c.epoch]), n) = Done(c.ct)
    <3>1. c.epoch \in 1..epoch /\ c.x \in inst.xs
          /\ \E n \in inst.nonces : Ciphertext(c.x, PublicKey(h[c.epoch]), n) = Done(c.ct)
      BY <1>3 DEF Genuine
    <3>2. k[c.epoch] = h[c.epoch] /\ c.epoch \in 1..(epoch + 1)
      BY <1>8, <3>1
    <3> QED BY <3>1, <3>2
  <2>3. ASSUME NEW f \in keys
        PROVE  f.epoch \in 1..(epoch + 1) /\ f.y \in inst.ys /\ FeKey(k[f.epoch], f.y) = Done(f.key)
    <3>1. f.epoch \in 1..epoch /\ f.y \in inst.ys /\ FeKey(h[f.epoch], f.y) = Done(f.key)
      BY <1>3 DEF Genuine
    <3>2. k[f.epoch] = h[f.epoch] /\ f.epoch \in 1..(epoch + 1)
      BY <1>8, <3>1
    <3> QED BY <3>1, <3>2
  <2> QED BY <1>1, <1>8, <2>1, <2>2, <2>3, SameScheme DEF Genuine
<1> QED BY <1>1, <1>4, <1>5, <1>6, <1>9, <1>10 DEF IInv

\* The encryptors receive a public key.
LEMMA PublishIInv == IInv /\ Publish => IInv'
<1> SUFFICES ASSUME IInv, Publish PROVE IInv'
  OBVIOUS
<1>1. /\ pub.epoch # epoch /\ pub' = [epoch |-> epoch, mpk |-> PublicKey(msk)]
      /\ UNCHANGED <<inst, s, msk, epoch, cts, keys, out>>
  BY DEF Publish
<1>2. TypeOK /\ DecryptCorrect /\ SetUp /\ epoch \in Nat
  BY InstanceAssumption DEF IInv, TypeOK
<1>3. s # NoScheme /\ epoch > 0
  BY <1>1, <1>2 DEF SetUp, TypeOK
<1>4. PICK h \in [1..epoch -> Keys] : Genuine(h)
  BY <1>3 DEF IInv
<1>5. TypeOK'
  BY <1>1, <1>2 DEF TypeOK, IsDamgard
<1>6. DecryptCorrect'
  BY <1>1, <1>2 DEF DecryptCorrect
<1>7. SetUp'
  BY <1>1, <1>2, SameScheme DEF SetUp
<1>8. h \in [1..epoch -> Keys]'
  BY <1>1, SameScheme
<1>9. Genuine(h)'
  <2>1. h[epoch] = msk /\ pub'.epoch = epoch /\ pub'.mpk = PublicKey(h[epoch])
    BY <1>1, <1>3, <1>4 DEF Genuine
  <2> QED BY <1>1, <1>4, <2>1, SameScheme DEF Genuine
<1> QED BY <1>1, <1>5, <1>6, <1>7, <1>8, <1>9 DEF IInv

\* A functional key is issued.
LEMMA DeriveIInv == IInv /\ (\E y \in inst.ys : DeriveFeKey(y)) => IInv'
<1> SUFFICES ASSUME IInv, NEW y \in inst.ys, DeriveFeKey(y) PROVE IInv'
  OBVIOUS
<1>1. PICK r : r = FeKey(msk, y)
  OBVIOUS
<1>2. /\ epoch > 0
      /\ keys' = (IF r.err = "NONE" THEN keys \cup {[epoch |-> epoch, y |-> y, key |-> r.res]} ELSE keys)
      /\ out' = NotADecryption(r) /\ UNCHANGED <<inst, s, msk, epoch, pub, cts>>
  BY <1>1 DEF DeriveFeKey
<1>3. TypeOK /\ SetUp /\ epoch \in Nat /\ inst \in Instances
  BY InstanceAssumption DEF IInv, TypeOK
<1>4. s # NoScheme
  BY <1>2, <1>3 DEF SetUp
<1>5. PICK h \in [1..epoch -> Keys] : Genuine(h)
  BY <1>4 DEF IInv
<1>6. h[epoch] = msk /\ msk \in Keys /\ epoch \in 1..epoch
  BY <1>2, <1>3, <1>5 DEF Genuine
<1>7. ASSUME NEW f \in keys', f \notin keys
      PROVE  f = [epoch |-> epoch, y |-> y, key |-> r.res] /\ FeKey(msk, y) = Done(r.res)
  BY <1>1, <1>2, <1>7, CallResults
<1>8. TypeOK'
  <2>1. ASSUME NEW f \in keys'
        PROVE  IF IsDamgard THEN DamgardIsFeKey(s, f.key) ELSE DdhIsFeKey(s, f.key)
    <3>1. CASE f \in keys
      BY <1>3, <3>1 DEF TypeOK
    <3>2. CASE f \notin keys
      <4>1. f.key = r.res /\ FeKey(msk, y) = Done(f.key)
        BY <1>7, <3>2
      <4> QED BY <1>3, <1>4, <1>6, <4>1, ResultTypes
    <3> QED BY <3>1, <3>2
  <2>2. r.err \in {"NONE", "BOUND_CHECK_FAILED"}
    BY <1>1, CallCodes
  <2> QED BY <1>2, <1>3, <2>1, <2>2, SameScheme DEF TypeOK, NotADecryption
<1>9. DecryptCorrect'
  BY <1>2 DEF DecryptCorrect, NotADecryption
<1>10. SetUp'
  BY <1>2, <1>3, <1>4, SameScheme DEF SetUp
<1>11. h \in [1..epoch -> Keys]'
  BY <1>2, SameScheme
<1>12. Genuine(h)'
  <2>1. ASSUME NEW f \in keys'
        PROVE  f.epoch \in 1..epoch /\ f.y \in inst.ys /\ FeKey(h[f.epoch], f.y) = Done(f.key)
    <3>1. CASE f \in keys
      BY <1>5, <3>1 DEF Genuine
    <3>2. CASE f \notin keys
      BY <1>6, <1>7, <3>2
    <3> QED BY <3>1, <3>2
  <2> QED BY <1>2, <1>5, <2>1, SameScheme DEF Genuine
<1> QED BY <1>2, <1>8, <1>9, <1>10, <1>11, <1>12 DEF IInv

\* A ciphertext is published.
LEMMA EncryptIInv == IInv /\ (\E x \in inst.xs, n \in inst.nonces : Encrypt(x, n)) => IInv'
<1> SUFFICES ASSUME IInv, NEW x \in inst.xs, NEW n \in inst.nonces, Encrypt(x, n) PROVE IInv'
  OBVIOUS
<1>1. PICK r : r = Ciphertext(x, pub.mpk, n)
  OBVIOUS
<1>2. /\ pub.epoch > 0
      /\ cts' = (IF r.err = "NONE" THEN cts \cup {[epoch |-> pub.epoch, x |-> x, ct |-> r.res]} ELSE cts)
      /\ out' = NotADecryption(r) /\ UNCHANGED <<inst, s, msk, epoch, pub, keys>>
  BY <1>1 DEF Encrypt
<1>3. TypeOK /\ SetUp /\ epoch \in Nat /\ inst \in Instances /\ pub.epoch \in 1..epoch
  BY <1>2, InstanceAssumption DEF IInv, TypeOK
<1>4. s # NoScheme
  BY <1>3 DEF SetUp
<1>5. PICK h \in [1..epoch -> Keys] : Genuine(h)
  BY <1>4 DEF IInv
<1>6. pub.mpk = PublicKey(h[pub.epoch]) /\ h[pub.epoch] \in Keys
  BY <1>2, <1>3, <1>5 DEF Genuine
<1>7. ASSUME NEW c \in cts', c \notin cts
      PROVE  /\ c = [epoch |-> pub.epoch, x |-> x, ct |-> r.res]
             /\ Ciphertext(x, PublicKey(h[pub.epoch]), n) = Done(r.res)
  BY <1>1, <1>2, <1>6, <1>7, CallResults
<1>8. TypeOK'
  <2>1. ASSUME NEW c \in cts'
        PROVE  IF IsDamgard THEN DamgardIsCiphertext(s, c.ct) ELSE DdhIsCiphertext(s, c.ct)
    <3>1. CASE c \in cts
      BY <1>3, <3>1 DEF TypeOK
    <3>2. CASE c \notin cts
      <4>1. c.ct = r.res /\ Ciphertext(x, pub.mpk, n) = Done(c.ct)
        BY <1>6, <1>7, <3>2
      <4>2. \A k \in 1..s.l : pub.mpk[k] \in Int
        BY <1>3, <1>4, <1>6, ResultTypes
      <4>3. x \in [1..s.l -> Int]
        BY <1>3, <1>4, InputFacts
      <4> QED BY <1>3, <1>4, <4>1, <4>2, <4>3, ResultTypes
    <3> QED BY <3>1, <3>2
  <2>2. r.err \in {"NONE", "BOUND_CHECK_FAILED"}
    BY <1>1, CallCodes
  <2> QED BY <1>2, <1>3, <2>1, <2>2, SameScheme DEF TypeOK, NotADecryption
<1>9. DecryptCorrect'
  BY <1>2 DEF DecryptCorrect, NotADecryption
<1>10. SetUp'
  BY <1>2, <1>3, <1>4, SameScheme DEF SetUp
<1>11. h \in [1..epoch -> Keys]'
  BY <1>2, SameScheme
<1>12. Genuine(h)'
  <2>1. ASSUME NEW c \in cts'
        PROVE  /\ c.epoch \in 1..epoch /\ c.x \in inst.xs
               /\ \E i \in inst.nonces : Ciphertext(c.x, PublicKey(h[c.epoch]), i) = Done(c.ct)
    <3>1. CASE c \in cts
      BY <1>5, <3>1 DEF Genuine
    <3>2. CASE c \notin cts
      BY <1>3, <1>7, <3>2
    <3> QED BY <3>1, <3>2
  <2> QED BY <1>2, <1>5, <2>1, SameScheme DEF Genuine
<1> QED BY <1>2, <1>8, <1>9, <1>10, <1>11, <1>12 DEF IInv

\* A decryption of any ciphertext with any key.
LEMMA DecryptIInv ==
  IInv /\ (\E c \in cts, k \in keys, y \in inst.ys : Decrypt(c, k, y)) => IInv'
<1> SUFFICES ASSUME IInv, NEW c \in cts, NEW k \in keys, NEW y \in inst.ys, Decrypt(c, k, y)
             PROVE  IInv'
  OBVIOUS
<1>1. PICK r : r = Plaintext(c.ct, k.key, y)
  OBVIOUS
<1>2. /\ out' = [same |-> c.epoch = k.epoch /\ k.y = y /\ r.err # "BOUND_CHECK_FAILED",
                 x |-> c.x, y |-> y, err |-> r.err, res |-> r.res]
      /\ UNCHANGED <<inst, s, msk, epoch, pub, cts, keys>>
  BY <1>1 DEF Decrypt
<1>3. TypeOK /\ SetUp /\ inst \in Instances
  BY DEF IInv, TypeOK
<1>4. s # NoScheme
  BY <1>3 DEF SetUp
<1>5. PICK h \in [1..epoch -> Keys] : Genuine(h)
  BY <1>4 DEF IInv
<1>6. TypeOK'
  <2>1. r.err \in {"NONE", "BOUND_CHECK_FAILED", "DLOG_NOT_FOUND"}
    BY <1>1, CallCodes
  <2> QED BY <1>2, <1>3, <2>1 DEF TypeOK, IsDamgard
<1>7. DecryptCorrect'
  <2> SUFFICES ASSUME c.epoch = k.epoch, k.y = y, r.err # "BOUND_CHECK_FAILED",
                      Bounded(c.x, s.bound), Bounded(y, s.bound),
                      Unambiguous(inst.grp, DamgardReach(s))
               PROVE  \/ r.err = "NONE" /\ r.res = Dot(c.x, y)
                      \/ /\ r.err = "DLOG_NOT_FOUND"
                         /\ Overlooked(inst.grp, Dot(c.x, y), DamgardReach(s))
    BY <1>2 DEF DecryptCorrect
  <2>1. PICK n \in inst.nonces : Ciphertext(c.x, PublicKey(h[c.epoch]), n) = Done(c.ct)
    BY <1>5 DEF Genuine
  <2>2. c.epoch \in 1..epoch /\ c.x \in inst.xs /\ FeKey(h[k.epoch], k.y) = Done(k.key)
    BY <1>5 DEF Genuine
  <2>3. PICK m \in Keys : m = h[c.epoch]
    BY <2>2
  <2>4. Ciphertext(c.x, PublicKey(m), n) = Done(c.ct) /\ FeKey(m, y) = Done(k.key)
    BY <2>1, <2>2, <2>3
  <2> QED BY <1>1, <1>3, <1>4, <2>2, <2>4, PlaintextCorrect
<1>8. SetUp' /\ h \in [1..epoch -> Keys]'
  BY <1>2, <1>3, <1>4, SameScheme DEF SetUp
<1>9. Genuine(h)'
  BY <1>2, <1>5, SameScheme DEF Genuine
<1> QED BY <1>2, <1>6, <1>7, <1>8, <1>9 DEF IInv

\* Nothing happens.
LEMMA StutterIInv == IInv /\ UNCHANGED vars => IInv'
<1> SUFFICES ASSUME IInv, UNCHANGED vars PROVE IInv'
  OBVIOUS
<1>1. UNCHANGED <<inst, s, msk, epoch, pub, cts, keys, out>>
  BY DEF vars
<1>2. TypeOK' /\ DecryptCorrect' /\ SetUp'
  BY <1>1, SameScheme DEF IInv, TypeOK, DecryptCorrect, SetUp, IsDamgard
<1>3. \A h : Genuine(h)' = Genuine(h)
  BY <1>1, SameScheme DEF Genuine
<1> QED BY <1>1, <1>2, <1>3, SameScheme DEF IInv

-----------------------------------------------------------------------------
(* The theorems *)

\* IInv is an invariant: whatever is in circulation has one master key behind it, and
\* every decryption of what belongs together is right.
THEOREM Invariance == Spec => []IInv
<1>1. IInv /\ [Next]_vars => IInv'
  BY SetupIInv, SetupWithoutGroup, GenerateIInv, PublishIInv, DeriveIInv, EncryptIInv, DecryptIInv, StutterIInv
     DEF Next
<1> QED BY <1>1, InitIInv, PTL DEF Spec

\* The types of what the machines hold and exchange (TypeOK).
THEOREM TypeCorrect == Spec => []TypeOK
<1>1. IInv => TypeOK
  BY DEF IInv
<1> QED BY <1>1, Invariance, PTL

\* The schemes of damgard.c and ddh.c decrypt to the inner product, for all parameters.
THEOREM Decryption == Spec => []DecryptCorrect
<1>1. IInv => DecryptCorrect
  BY DEF IInv
<1> QED BY <1>1, Invariance, PTL

-----------------------------------------------------------------------------
(* Powers modulo m *)

\* The recursion behind a power.
IsPowers(f, b, n, q) ==
  f = [i \in 0..n |-> IF i = 0 THEN 1 ELSE (f[i - 1] * b) % q]

\* What a power is by its definition.
LEMMA PowerDefinition ==
  ASSUME NEW b, NEW n, NEW q
  PROVE  P!Power(b, n, q) = (CHOOSE f : IsPowers(f, b, n, q))[n]
BY DEF P!Power, IsPowers

\* A shorter table of powers is extended by the next one.
LEMMA PowersExtend ==
  ASSUME NEW b, NEW n \in Nat, NEW q, NEW f, IsPowers(f, b, n, q)
  PROVE  IsPowers([i \in 0..(n + 1) |-> IF i = n + 1 THEN (f[n] * b) % q ELSE f[i]], b, n + 1, q)
<1> DEFINE g == [i \in 0..(n + 1) |-> IF i = n + 1 THEN (f[n] * b) % q ELSE f[i]]
           k == [i \in 0..(n + 1) |-> IF i = 0 THEN 1 ELSE (g[i - 1] * b) % q]
<1>1. ASSUME NEW i \in 0..(n + 1) PROVE g[i] = k[i]
  <2>1. CASE i = n + 1
    <3>1. g[n] = f[n] /\ i - 1 = n /\ i # 0
      BY <2>1
    <3> QED BY <2>1, <3>1
  <2>2. CASE i # n + 1 /\ i # 0
    <3>1. i \in 0..n /\ i - 1 \in 0..n /\ i - 1 # n + 1
      BY <2>2
    <3>2. f[i] = (f[i - 1] * b) % q
      BY <2>2, <3>1 DEF IsPowers
    <3>3. g[i] = f[i] /\ g[i - 1] = f[i - 1]
      BY <2>2, <3>1
    <3>4. k[i] = (g[i - 1] * b) % q
      BY <2>2
    <3> QED BY <3>2, <3>3, <3>4
  <2>3. CASE i = 0
    <3>1. f[0] = 1
      BY DEF IsPowers
    <3> QED BY <2>3, <3>1
  <2> QED BY <2>1, <2>2, <2>3
<1>2. g = k
  <2>1. g = [i \in 0..(n + 1) |-> g[i]] /\ k = [i \in 0..(n + 1) |-> k[i]]
    OBVIOUS
  <2> HIDE DEF g, k
  <2> QED BY <1>1, <2>1
<1> QED BY <1>2 DEF IsPowers

\* There is such a table for every exponent.
LEMMA PowersExist ==
  ASSUME NEW b, NEW q, NEW n \in Nat
  PROVE  \E f : IsPowers(f, b, n, q)
<1> DEFINE S == {k \in Nat : \E f : IsPowers(f, b, k, q)}
<1>1. 0 \in S
  <2>1. IsPowers([i \in 0..0 |-> 1], b, 0, q)
    BY DEF IsPowers
  <2> QED BY <2>1
<1>2. ASSUME NEW k \in Nat, k \in S PROVE k + 1 \in S
  <2>1. PICK f : IsPowers(f, b, k, q)
    BY <1>2
  <2>2. \E h : IsPowers(h, b, k + 1, q)
    BY <2>1, PowersExtend
  <2> QED BY <2>2
<1>3. Nat \subseteq S
  <2> HIDE DEF S
  <2> QED BY <1>1, <1>2, InductionOnNat
<1> QED BY <1>3

\* Two tables agree where both are defined.
LEMMA PowersUnique ==
  ASSUME NEW b, NEW q, NEW n \in Nat, NEW k \in Nat, NEW f, NEW g,
         IsPowers(f, b, n, q), IsPowers(g, b, k, q), NEW i \in Nat, i <= n, i <= k
  PROVE  f[i] = g[i]
<1> DEFINE S == {j \in Nat : j <= n /\ j <= k => f[j] = g[j]}
<1>1. 0 \in S
  BY DEF IsPowers
<1>2. ASSUME NEW j \in Nat, j \in S PROVE j + 1 \in S
  <2>1. SUFFICES ASSUME j + 1 <= n, j + 1 <= k PROVE f[j + 1] = g[j + 1]
    OBVIOUS
  <2>2. f[j] = g[j]
    BY <1>2, <2>1
  <2>3. f[j + 1] = (f[j] * b) % q
    <3>1. j + 1 \in 0..n /\ j + 1 # 0 /\ (j + 1) - 1 = j
      BY <2>1
    <3> QED BY <3>1 DEF IsPowers
  <2>4. g[j + 1] = (g[j] * b) % q
    <3>1. j + 1 \in 0..k /\ j + 1 # 0 /\ (j + 1) - 1 = j
      BY <2>1
    <3> QED BY <3>1 DEF IsPowers
  <2> QED BY <2>2, <2>3, <2>4
<1>3. Nat \subseteq S
  <2> HIDE DEF S
  <2> QED BY <1>1, <1>2, InductionOnNat
<1> QED BY <1>3

\* The first power, and the next.
LEMMA PowerNext ==
  ASSUME NEW b, NEW q, NEW n \in Nat
  PROVE  P!Power(b, 0, q) = 1 /\ P!Power(b, n + 1, q) = (P!Power(b, n, q) * b) % q
<1> DEFINE F(k) == CHOOSE f : IsPowers(f, b, k, q)
<1>1. IsPowers(F(0), b, 0, q) /\ IsPowers(F(n), b, n, q) /\ IsPowers(F(n + 1), b, n + 1, q)
  BY PowersExist
<1>2. F(0)[0] = 1
  BY <1>1 DEF IsPowers
<1>3. F(n)[n] = F(n + 1)[n]
  <2> HIDE DEF F
  <2> QED BY <1>1, PowersUnique
<1>4. F(n + 1)[n + 1] = (F(n + 1)[n] * b) % q
  <2>1. n + 1 \in 0..(n + 1) /\ n + 1 # 0 /\ (n + 1) - 1 = n
    OBVIOUS
  <2> HIDE DEF F
  <2> QED BY <1>1, <2>1 DEF IsPowers
<1> QED BY <1>2, <1>3, <1>4, PowerDefinition

\* Powers of integers are integers, and residues unless the modulus is 1.
LEMMA PowerType ==
  ASSUME NEW b \in Int, NEW q \in Nat, q > 1, NEW n \in Nat
  PROVE  P!Power(b, n, q) \in 0..(q - 1) /\ P!Power(b, n, q) \in Int
<1> DEFINE S == {k \in Nat : P!Power(b, k, q) \in 0..(q - 1)}
<1>1. 0 \in S
  BY PowerNext
<1>2. ASSUME NEW k \in Nat, k \in S PROVE k + 1 \in S
  <2>1. PICK a \in Int : a = P!Power(b, k, q) * b
    BY <1>2
  <2>2. a % q \in 0..(q - 1)
    BY Division
  <2> QED BY <2>1, <2>2, PowerNext
<1>3. Nat \subseteq S
  <2> HIDE DEF S
  <2> QED BY <1>1, <1>2, InductionOnNat
<1> QED BY <1>3

\* The next power is congruent to the product.
LEMMA PowerStep ==
  ASSUME NEW b \in Int, NEW q \in Nat, q > 1, NEW n \in Nat
  PROVE  Congruent(P!Power(b, n + 1, q), P!Power(b, n, q) * b, q)
<1>1. PICK a \in Int : a = P!Power(b, n, q) * b
  BY PowerType
<1>2. P!Power(b, n + 1, q) = a % q
  BY <1>1, PowerNext
<1> QED BY <1>1, <1>2, CongruentMod

\* Three numbers in a row of congruences.
LEMMA CongruentChain ==
  ASSUME NEW q \in Nat, NEW a \in Int, NEW b \in Int, NEW c \in Int, NEW d \in Int,
         Congruent(a, b, q), Congruent(b, c, q), Congruent(c, d, q)
  PROVE  Congruent(a, d, q)
<1>1. Congruent(a, c, q)
  BY CongruentTrans
<1> QED BY <1>1, CongruentTrans

\* Exponents are added.
LEMMA PowerAdd ==
  ASSUME NEW b \in Int, NEW q \in Nat, q > 1, NEW i \in Nat, NEW j \in Nat
  PROVE  Congruent(P!Power(b, i + j, q), P!Power(b, i, q) * P!Power(b, j, q), q)
<1> DEFINE S == {k \in Nat : Congruent(P!Power(b, i + k, q), P!Power(b, i, q) * P!Power(b, k, q), q)}
<1>1. 0 \in S
  <2>1. PICK v \in Int : v = P!Power(b, i, q)
    BY PowerType
  <2>2. P!Power(b, 0, q) = 1 /\ i + 0 = i /\ v * 1 = v
    BY PowerNext
  <2>3. Congruent(v, v, q)
    BY CongruentRefl
  <2> QED BY <2>1, <2>2, <2>3
<1>2. ASSUME NEW k \in Nat, k \in S PROVE k + 1 \in S
  <2>0. \A j0 \in Nat : P!Power(b, j0, q) \in Int
    BY PowerType
  <2>1. PICK v, w, y, z, t \in Int :
           /\ v = P!Power(b, i, q) /\ w = P!Power(b, k, q) /\ y = P!Power(b, i + k, q)
           /\ z = P!Power(b, i + k + 1, q) /\ t = P!Power(b, k + 1, q)
    <3>1. i + k \in Nat /\ i + k + 1 \in Nat /\ k + 1 \in Nat
      OBVIOUS
    <3> QED BY <2>0, <3>1
  <2>2. Congruent(z, y * b, q) /\ Congruent(t, w * b, q)
    BY <2>1, PowerStep
  <2>3. Congruent(y, v * w, q)
    BY <1>2, <2>1
  <2>4. Congruent(y * b, (v * w) * b, q) /\ Congruent(v * (w * b), v * t, q)
    <3>1. Congruent(b, b, q) /\ Congruent(v, v, q) /\ Congruent(w * b, t, q)
      BY <2>2, CongruentRefl, CongruentSym
    <3>2. v * w \in Int /\ w * b \in Int
      OBVIOUS
    <3> QED BY <2>3, <3>1, <3>2, CongruentMul
  <2>5. PICK c \in Int : c = v * (w * b) /\ c = (v * w) * b
    OBVIOUS
  <2>6. Congruent(z, v * t, q)
    <3>1. y * b \in Int /\ v * t \in Int
      OBVIOUS
    <3> QED BY <2>2, <2>4, <2>5, <3>1, CongruentChain
  <2>7. i + (k + 1) = i + k + 1
    OBVIOUS
  <2> QED BY <2>1, <2>6, <2>7
<1>3. Nat \subseteq S
  <2> HIDE DEF S
  <2> QED BY <1>1, <1>2, InductionOnNat
<1> QED BY <1>3

\* Powers of a number and of its inverse cancel.
LEMMA PowersCancel ==
  ASSUME NEW g \in Int, NEW u \in Int, NEW q \in Nat, q > 1, Congruent(g * u, 1, q), NEW n \in Nat
  PROVE  Congruent(P!Power(g, n, q) * P!Power(u, n, q), 1, q)
<1> DEFINE S == {k \in Nat : Congruent(P!Power(g, k, q) * P!Power(u, k, q), 1, q)}
<1>1. 0 \in S
  <2>1. Congruent(1, 1, q)
    BY CongruentRefl
  <2> QED BY <2>1, PowerNext
<1>2. ASSUME NEW k \in Nat, k \in S PROVE k + 1 \in S
  <2>0. \A j \in Nat : P!Power(g, j, q) \in Int /\ P!Power(u, j, q) \in Int
    BY PowerType
  <2>1. PICK v, w, y, z \in Int :
           /\ v = P!Power(g, k, q) /\ w = P!Power(u, k, q)
           /\ y = P!Power(g, k + 1, q) /\ z = P!Power(u, k + 1, q)
    BY <2>0
  <2>2. Congruent(y, v * g, q) /\ Congruent(z, w * u, q)
    BY <2>1, PowerStep
  <2>3. PICK a, b \in Int : a = v * w /\ b = g * u
    OBVIOUS
  <2>4. Congruent(a, 1, q) /\ Congruent(b, 1, q)
    BY <1>2, <2>1, <2>3
  <2>5. Congruent(a * b, 1 * 1, q)
    BY <2>4, CongruentMul
  <2>6. (v * g) * (w * u) = a * b
    BY <2>3
  <2>7. Congruent(y * z, (v * g) * (w * u), q)
    <3>1. v * g \in Int /\ w * u \in Int
      OBVIOUS
    <3> QED BY <2>2, <3>1, CongruentMul
  <2>8. Congruent(y * z, 1, q)
    <3>1. y * z \in Int /\ a * b \in Int /\ 1 * 1 = 1
      OBVIOUS
    <3> QED BY <2>5, <2>6, <2>7, <3>1, CongruentTrans
  <2> QED BY <2>1, <2>8
<1>3. Nat \subseteq S
  <2> HIDE DEF S
  <2> QED BY <1>1, <1>2, InductionOnNat
<1> QED BY <1>3

-----------------------------------------------------------------------------
(* The numbers that ciphertexts and keys consist of *)

\* g has the inverse u modulo the square of n.
IsUnit(g, u, n) ==
  /\ g \in Int /\ u \in Int /\ n \in Nat /\ n > 1 /\ n * n \in Nat /\ n * n > 1
  /\ Congruent(g * u, 1, n * n)

\* z is the power of 1 + n with the exponent x times the power of g with the exponent e,
\* which is a - b.
Rep(z, x, e, g, u, n) ==
  /\ z \in Int
  /\ \E a, b \in Nat :
       e = a - b /\ Congruent(z, (1 + x * n) * (P!Power(g, a, n * n) * P!Power(u, b, n * n)), n * n)

\* Congruent numbers stand for the same.
LEMMA RepCongruent ==
  ASSUME NEW g, NEW u, NEW n, IsUnit(g, u, n), NEW x \in Int, NEW e \in Int,
         NEW z, Rep(z, x, e, g, u, n), NEW w \in Int, Congruent(w, z, n * n)
  PROVE  Rep(w, x, e, g, u, n)
<1>1. PICK q \in Nat : q = n * n /\ q > 1 /\ g \in Int /\ u \in Int /\ n \in Nat
  BY DEF IsUnit
<1>2. PICK a, b \in Nat :
        e = a - b /\ Congruent(z, (1 + x * n) * (P!Power(g, a, q) * P!Power(u, b, q)), q)
  BY <1>1 DEF Rep
<1>3. PICK v \in Int : v = (1 + x * n) * (P!Power(g, a, q) * P!Power(u, b, q))
  BY <1>1, PowerType
<1>4. Congruent(w, v, q)
  <2>1. z \in Int
    BY DEF Rep
  <2> QED BY <1>1, <1>2, <1>3, <2>1, CongruentTrans
<1> QED BY <1>1, <1>2, <1>3, <1>4 DEF Rep

\* Products add both exponents.
LEMMA RepMul ==
  ASSUME NEW g, NEW u, NEW n, IsUnit(g, u, n),
         NEW x \in Int, NEW e \in Int, NEW z, Rep(z, x, e, g, u, n),
         NEW y \in Int, NEW f \in Int, NEW w, Rep(w, y, f, g, u, n)
  PROVE  Rep(z * w, x + y, e + f, g, u, n)
<1>1. PICK q \in Nat : q = n * n /\ q > 1 /\ g \in Int /\ u \in Int /\ n \in Nat
  BY DEF IsUnit
<1>2. PICK a, b \in Nat :
        e = a - b /\ Congruent(z, (1 + x * n) * (P!Power(g, a, q) * P!Power(u, b, q)), q)
  BY <1>1 DEF Rep
<1>3. PICK c, d \in Nat :
        f = c - d /\ Congruent(w, (1 + y * n) * (P!Power(g, c, q) * P!Power(u, d, q)), q)
  BY <1>1 DEF Rep
<1>4. PICK ga, ub, gc, ud, gac, ubd \in Int :
        /\ ga = P!Power(g, a, q) /\ ub = P!Power(u, b, q)
        /\ gc = P!Power(g, c, q) /\ ud = P!Power(u, d, q)
        /\ gac = P!Power(g, a + c, q) /\ ubd = P!Power(u, b + d, q)
  <2>1. \A j \in Nat : P!Power(g, j, q) \in Int /\ P!Power(u, j, q) \in Int
    BY <1>1, PowerType
  <2>2. a + c \in Nat /\ b + d \in Nat
    OBVIOUS
  <2> QED BY <2>1, <2>2
<1>5. Congruent(ga * gc, gac, q) /\ Congruent(ub * ud, ubd, q)
  <2>1. Congruent(gac, ga * gc, q) /\ Congruent(ubd, ub * ud, q)
    BY <1>1, <1>4, PowerAdd
  <2>2. ga * gc \in Int /\ ub * ud \in Int
    OBVIOUS
  <2> QED BY <2>1, <2>2, CongruentSym
<1>6. PICK h, t, r \in Int : h = 1 + x * n /\ t = 1 + y * n /\ r = 1 + (x + y) * n
  BY <1>1
<1>7. Congruent(h * t, r, q)
  <2>1. h * t = r + q * (x * y)
    <3>1. PICK k, l \in Int : k = x * n /\ l = y * n
      BY <1>1
    <3>2. (1 + k) * (1 + l) = 1 + k + l + k * l
      OBVIOUS
    <3>3. (x + y) * n = k + l
      BY <1>1, <3>1
    <3>4. k * l = (n * n) * (x * y)
      BY <1>1, <3>1
    <3> QED BY <1>1, <1>6, <3>1, <3>2, <3>3, <3>4
  <2>2. x * y \in Int
    OBVIOUS
  <2> QED BY <2>1, <2>2 DEF Congruent
<1>8. PICK A, B \in Int : A = ga * ub /\ B = gc * ud
  OBVIOUS
<1>9. Congruent(A * B, gac * ubd, q)
  <2>1. A * B = (ga * gc) * (ub * ud)
    BY <1>8
  <2>2. ga * gc \in Int /\ ub * ud \in Int
    OBVIOUS
  <2>3. Congruent((ga * gc) * (ub * ud), gac * ubd, q)
    BY <1>5, <2>2, CongruentMul
  <2> QED BY <2>1, <2>3
<1>10. z \in Int /\ w \in Int
  BY DEF Rep
<1>11. Congruent(z * w, (h * A) * (t * B), q)
  <2>1. Congruent(z, h * A, q) /\ Congruent(w, t * B, q)
    BY <1>2, <1>3, <1>4, <1>6, <1>8
  <2>2. h * A \in Int /\ t * B \in Int
    OBVIOUS
  <2> QED BY <1>10, <2>1, <2>2, CongruentMul
<1>12. Congruent((h * t) * (A * B), r * (gac * ubd), q)
  <2>1. h * t \in Int /\ A * B \in Int /\ gac * ubd \in Int
    OBVIOUS
  <2> QED BY <1>7, <1>9, <2>1, CongruentMul
<1>13. Congruent(z * w, r * (gac * ubd), q)
  <2>1. (h * A) * (t * B) = (h * t) * (A * B)
    OBVIOUS
  <2>2. z * w \in Int /\ (h * t) * (A * B) \in Int /\ r * (gac * ubd) \in Int
    BY <1>10
  <2> QED BY <1>11, <1>12, <2>1, <2>2, CongruentTrans
<1>14. e + f = (a + c) - (b + d) /\ a + c \in Nat /\ b + d \in Nat /\ z * w \in Int
  BY <1>2, <1>3, <1>10
<1> QED BY <1>1, <1>4, <1>6, <1>13, <1>14 DEF Rep

\* Every pair of exponents has such a number: 1 + n, g and 1 among them.
LEMMA RepExists ==
  ASSUME NEW g, NEW u, NEW n, IsUnit(g, u, n), NEW x \in Int, NEW a \in Nat, NEW b \in Nat
  PROVE  Rep((1 + x * n) * (P!Power(g, a, n * n) * P!Power(u, b, n * n)), x, a - b, g, u, n)
<1>1. PICK q \in Nat : q = n * n /\ q > 1 /\ g \in Int /\ u \in Int /\ n \in Nat
  BY DEF IsUnit
<1>2. PICK v \in Int : v = (1 + x * n) * (P!Power(g, a, q) * P!Power(u, b, q))
  BY <1>1, PowerType
<1>3. Congruent(v, v, q)
  BY CongruentRefl
<1> QED BY <1>1, <1>2, <1>3 DEF Rep

\* The same for a number that is known to be that product.
LEMMA RepIntro ==
  ASSUME NEW g, NEW u, NEW n, IsUnit(g, u, n), NEW x \in Int, NEW e \in Int, NEW a \in Nat, NEW b \in Nat,
         e = a - b, NEW z \in Int, (1 + x * n) * (P!Power(g, a, n * n) * P!Power(u, b, n * n)) = z
  PROVE  Rep(z, x, e, g, u, n)
BY RepExists

\* The number 1 stands for no powers, g for itself, and a plaintext for its power of 1 + n.
LEMMA RepUnits ==
  ASSUME NEW g, NEW u, NEW n, IsUnit(g, u, n), NEW x \in Int
  PROVE  Rep(1, 0, 0, g, u, n) /\ Rep(g, 0, 1, g, u, n) /\ Rep(1 + x * n, x, 0, g, u, n)
<1>1. PICK q \in Nat : q = n * n /\ q > 1 /\ g \in Int /\ u \in Int /\ n \in Nat
  BY DEF IsUnit
<1>2. P!Power(g, 0, q) = 1 /\ P!Power(u, 0, q) = 1 /\ P!Power(g, 0 + 1, q) = (P!Power(g, 0, q) * g) % q
  BY PowerNext
<1>3. P!Power(g, 1, q) = g % q /\ g % q \in Int /\ Congruent(g % q, g, q)
  BY <1>1, <1>2, CongruentMod
<1>6. PICK v \in Int : v = P!Power(g, 1, q) /\ Congruent(v, g, q)
  BY <1>3
<1>7. PICK o, i \in Int : o = 0 /\ i = 1
  OBVIOUS
<1>9. ASSUME NEW y \in Int, NEW h \in Int, h = 1 + y * n PROVE Rep(h, y, o, g, u, n)
  <2>1. (1 + y * n) * (P!Power(g, 0, q) * P!Power(u, 0, q)) = h /\ o = 0 - 0
    BY <1>1, <1>2, <1>7, <1>9
  <2> QED BY <1>1, <2>1, RepIntro
<1>10. Rep(v, o, i, g, u, n)
  <2>1. (1 + o * n) * (P!Power(g, 1, q) * P!Power(u, 0, q)) = v /\ i = 1 - 0
    BY <1>1, <1>2, <1>6, <1>7
  <2> QED BY <1>1, <2>1, RepIntro
<1>11. Rep(1, 0, 0, g, u, n)
  <2>1. 1 = 1 + o * n
    BY <1>1, <1>7
  <2>2. Rep(1, o, o, g, u, n)
    BY <1>9, <2>1
  <2> QED BY <1>7, <2>2
<1>12. Rep(1 + x * n, x, 0, g, u, n)
  <2>1. PICK h \in Int : h = 1 + x * n
    BY <1>1
  <2> QED BY <1>7, <1>9, <2>1
<1>8. Congruent(g, v, q)
  BY <1>1, <1>6, CongruentSym
<1>13. Rep(g, 0, 1, g, u, n)
  <2>1. Rep(g, o, i, g, u, n)
    BY <1>1, <1>8, <1>10, RepCongruent
  <2> QED BY <1>7, <2>1
<1> QED BY <1>11, <1>12, <1>13

\* Powers multiply both exponents.
LEMMA RepPower ==
  ASSUME NEW g, NEW u, NEW n, IsUnit(g, u, n),
         NEW x \in Int, NEW e \in Int, NEW z, Rep(z, x, e, g, u, n), NEW k \in Nat
  PROVE  Rep(P!Power(z, k, n * n), k * x, k * e, g, u, n)
<1>1. PICK q \in Nat : q = n * n /\ q > 1
  BY DEF IsUnit
<1>2. z \in Int
  BY DEF Rep
<1> DEFINE S == {j \in Nat : Rep(P!Power(z, j, q), j * x, j * e, g, u, n)}
<1>3. 0 \in S
  <2>1. P!Power(z, 0, q) = 1 /\ 0 * x = 0 /\ 0 * e = 0
    BY PowerNext
  <2>2. Rep(1, 0, 0, g, u, n)
    BY RepUnits
  <2> QED BY <2>1, <2>2
<1>4. ASSUME NEW j \in Nat, j \in S PROVE j + 1 \in S
  <2>1. PICK v, w \in Int : v = P!Power(z, j, q) /\ w = P!Power(z, j + 1, q)
    <3>1. \A i \in Nat : P!Power(z, i, q) \in Int
      BY <1>1, <1>2, PowerType
    <3> QED BY <3>1
  <2>2. Congruent(w, v * z, q)
    BY <1>1, <1>2, <2>1, PowerStep
  <2>3. PICK y, f \in Int : y = j * x /\ f = j * e
    OBVIOUS
  <2>4. Rep(v, y, f, g, u, n)
    BY <1>4, <2>1, <2>3
  <2>5. Rep(v * z, y + x, f + e, g, u, n)
    BY <2>4, RepMul
  <2>6. y + x \in Int /\ f + e \in Int /\ (j + 1) * x = y + x /\ (j + 1) * e = f + e
    BY <2>3
  <2>7. Rep(w, y + x, f + e, g, u, n)
    BY <1>1, <2>2, <2>5, <2>6, RepCongruent
  <2> QED BY <2>1, <2>6, <2>7
<1>5. Nat \subseteq S
  <2> HIDE DEF S
  <2> QED BY <1>3, <1>4, InductionOnNat
<1> QED BY <1>1, <1>5

\* Without powers of g, the number is known.
LEMMA RepValue ==
  ASSUME NEW g, NEW u, NEW n, IsUnit(g, u, n), NEW x \in Int, NEW z, Rep(z, x, 0, g, u, n)
  PROVE  z \in Int /\ Congruent(z, 1 + x * n, n * n)
<1>1. PICK q \in Nat : q = n * n /\ q > 1 /\ g \in Int /\ u \in Int /\ n \in Nat /\ Congruent(g * u, 1, q)
  BY DEF IsUnit
<1>2. PICK a, b \in Nat :
        0 = a - b /\ Congruent(z, (1 + x * n) * (P!Power(g, a, q) * P!Power(u, b, q)), q)
  BY <1>1 DEF Rep
<1>3. a = b
  BY <1>2
<1>4. PICK v \in Int : v = P!Power(g, a, q) * P!Power(u, b, q)
  BY <1>1, PowerType
<1>5. Congruent(v, 1, q)
  BY <1>1, <1>3, <1>4, PowersCancel
<1>6. PICK h \in Int : h = 1 + x * n
  BY <1>1
<1>7. Congruent(h * v, h * 1, q)
  <2>1. Congruent(h, h, q)
    BY CongruentRefl
  <2> QED BY <1>5, <2>1, CongruentMul
<1>8. z \in Int /\ Congruent(z, h * v, q) /\ h * v \in Int /\ h * 1 = h
  BY <1>2, <1>4, <1>6 DEF Rep
<1>9. Congruent(z, h, q)
  BY <1>7, <1>8, CongruentTrans
<1> QED BY <1>1, <1>6, <1>8, <1>9

\* Every such number has an inverse, and the one that is computed has the opposite exponents.
LEMMA RepInverse ==
  ASSUME NEW g, NEW u, NEW n, IsUnit(g, u, n),
         NEW x \in Int, NEW e \in Int, NEW z, Rep(z, x, e, g, u, n)
  PROVE  /\ P!Invertible(z, n * n) /\ P!InverseMod(z, n * n) \in Int
         /\ Rep(P!InverseMod(z, n * n), -x, -e, g, u, n)
<1>1. PICK q \in Nat : q = n * n /\ q > 1 /\ g \in Int /\ u \in Int /\ n \in Nat
  BY DEF IsUnit
<1>2. z \in Int
  BY DEF Rep
<1>3. PICK w \in Int : Rep(w, -x, -e, g, u, n)
  <2>1. PICK a, b \in Nat : e = a - b
    BY DEF Rep
  <2>2. -x \in Int /\ -e = b - a
    BY <2>1
  <2>3. PICK w : Rep(w, -x, -e, g, u, n)
    BY <2>2, RepExists
  <2>4. w \in Int
    BY <2>3 DEF Rep
  <2> QED BY <2>3, <2>4
<1>4. w \in Int
  OBVIOUS
<1>5. Congruent(z * w, 1, q)
  <2>1. -x \in Int /\ -e \in Int /\ x + (-x) = 0 /\ e + (-e) = 0
    OBVIOUS
  <2>2. Rep(z * w, x + (-x), e + (-e), g, u, n)
    BY <1>3, <2>1, RepMul
  <2>3. Rep(z * w, 0, 0, g, u, n)
    BY <2>1, <2>2
  <2>4. Congruent(z * w, 1 + 0 * n, q)
    BY <1>1, <2>3, RepValue
  <2> QED BY <1>1, <2>4
<1>6. 1 % q = 1
  BY <1>1
<1>7. PICK v \in 0..(q - 1) : v = w % q /\ Congruent(v, w, q)
  <2>1. q # 0
    BY <1>1
  <2>2. w % q \in 0..(q - 1)
    BY <2>1, Division
  <2>3. Congruent(w % q, w, q)
    BY <2>1, CongruentMod
  <2> QED BY <2>2, <2>3
<1>8. (z * v) % q = 1
  <2>1. Congruent(z, z, q)
    BY <1>2, CongruentRefl
  <2>2. Congruent(z * v, z * w, q)
    BY <1>2, <1>4, <1>7, <2>1, CongruentMul, SMTT(30)
  <2>3. PICK c, d \in Int : c = z * v /\ d = z * w
    BY <1>2, <1>4
  <2>4. Congruent(c, 1, q)
    BY <1>5, <2>2, <2>3, CongruentTrans
  <2>5. c % q = 1 % q
    BY <1>1, <2>4, SameRemainder
  <2> QED BY <1>6, <2>3, <2>5
<1>9. P!Invertible(z, q)
  BY <1>7, <1>8 DEF P!Invertible
<1>10. PICK t \in 0..(q - 1) : t = P!InverseMod(z, q) /\ (z * t) % q = 1
  BY <1>6, <1>7, <1>8 DEF P!InverseMod, P!Residues
<1>11. Congruent(z * t, 1, q)
  <2>1. z * t \in Int
    BY <1>2
  <2>2. (z * t) % q \in Int /\ Congruent((z * t) % q, z * t, q)
    BY <1>1, <2>1, CongruentMod, SMTT(30)
  <2>3. Congruent(1, z * t, q)
    BY <1>10, <2>2
  <2> QED BY <2>1, <2>3, CongruentSym
<1>12. Congruent(t, w, q)
  <2>1. Congruent(t * (z * w), t * 1, q) /\ Congruent((z * t) * w, 1 * w, q)
    <3>1. Congruent(t, t, q) /\ Congruent(w, w, q)
      BY <1>4, CongruentRefl
    <3>2. PICK c, d, o \in Int : c = z * w /\ d = z * t /\ o = 1
      BY <1>2, <1>4
    <3>3. Congruent(c, o, q) /\ Congruent(d, o, q)
      BY <1>5, <1>11, <3>2
    <3>4. Congruent(t * c, t * o, q) /\ Congruent(d * w, o * w, q)
      BY <1>4, <3>1, <3>3, CongruentMul
    <3> QED BY <3>2, <3>4
  <2>2. PICK c \in Int : c = t * (z * w) /\ c = (z * t) * w /\ t * 1 = t /\ 1 * w = w
    BY <1>2, <1>4
  <2>3. Congruent(c, t, q) /\ Congruent(c, w, q)
    BY <2>1, <2>2
  <2>4. Congruent(t, c, q)
    BY <2>3, CongruentSym
  <2> QED BY <1>4, <2>3, <2>4, CongruentTrans
<1>13. Rep(t, -x, -e, g, u, n)
  <2>1. -x \in Int /\ -e \in Int
    OBVIOUS
  <2> QED BY <1>1, <1>3, <1>12, <2>1, RepCongruent
<1> QED BY <1>1, <1>9, <1>10, <1>13

\* A power that has been found stands for such a number.
Found(p, x, e, g, u, n) ==
  p.err = "NONE" /\ p.res \in 0..(n * n - 1) /\ Rep(p.res, x, e, g, u, n)

\* So powers with any exponent are found, and never end the program.
LEMMA RepPowM ==
  ASSUME NEW g, NEW u, NEW n, IsUnit(g, u, n),
         NEW x \in Int, NEW e \in Int, NEW z, Rep(z, x, e, g, u, n), NEW y \in Int,
         NEW q, q = n * n, NEW v, v = y * x, NEW w, w = y * e
  PROVE  Found(P!PowM(z, y, q), v, w, g, u, n)
<1>1. q \in Nat /\ q > 1
  BY DEF IsUnit
<1>2. z \in Int
  BY DEF Rep
<1>3. CASE y >= 0
  <2>1. PICK t \in Int : t = z % q /\ Congruent(t, z, q)
    BY <1>1, <1>2, CongruentMod
  <2>2. Rep(t, x, e, g, u, n)
    BY <1>1, <2>1, RepCongruent
  <2>3. P!PowM(z, y, q) = [err |-> "NONE", res |-> P!Power(t, y, q)]
    BY <1>3, <2>1 DEF P!PowM, P!Done
  <2>6. y \in Nat
    BY <1>3
  <2>4. P!Power(t, y, q) \in 0..(q - 1)
    BY <1>1, <2>6, PowerType
  <2>5. Rep(P!Power(t, y, q), y * x, y * e, g, u, n)
    BY <1>1, <2>2, <2>6, RepPower
  <2> QED BY <1>1, <2>3, <2>4, <2>5 DEF Found
<1>4. CASE ~(y >= 0)
  <2>1. PICK k \in Nat : k = -y
    BY <1>4
  <2>2. P!Invertible(z, q) /\ P!InverseMod(z, q) \in Int /\ Rep(P!InverseMod(z, q), -x, -e, g, u, n)
    BY <1>1, RepInverse
  <2>3. PICK c \in Int : c = P!InverseMod(z, q)
    BY <2>2
  <2>4. P!PowM(z, y, q) = [err |-> "NONE", res |-> P!Power(c, k, q)]
    BY <1>4, <2>1, <2>2, <2>3 DEF P!PowM, P!Done
  <2>5. P!Power(c, k, q) \in 0..(q - 1)
    BY <1>1, PowerType
  <2>6. -x \in Int /\ -e \in Int /\ k * (-x) = v /\ k * (-e) = w
    BY <2>1
  <2>7. Rep(P!Power(c, k, q), k * (-x), k * (-e), g, u, n)
    BY <1>1, <2>2, <2>3, <2>6, RepPower
  <2> QED BY <1>1, <2>4, <2>5, <2>6, <2>7 DEF Found
<1> QED BY <1>3, <1>4

-----------------------------------------------------------------------------
(* The operations of the Paillier scheme *)

\* The instance adds up as this module does.
LEMMA SameDot == \A x, y : P!Dot(x, y) = Dot(x, y)
<1>1. \A f : P!SumFunction(f) = SumFunction(f)
  BY DEF P!SumFunction, SumFunction, P!SumFunctionOnSet, SumFunctionOnSet,
     P!FoldFunctionOnSet, FoldFunctionOnSet, P!MapThenFoldSet, MapThenFoldSet
<1> QED BY <1>1 DEF P!Dot, Dot

\* The scheme has been set up, with a generator that has the inverse u.
IsPaillier(u) ==
  /\ setup.l \in Nat /\ setup.l # 0 /\ setup.n2 = setup.n * setup.n
  /\ IsUnit(setup.g, u, setup.n)

\* What z stands for in it.
Holds(z, x, e, u) == z \in 0..(setup.n2 - 1) /\ Rep(z, x, e, setup.g, u, setup.n)

\* Numbers of the scheme.
LEMMA PaillierNumbers ==
  ASSUME NEW u, IsPaillier(u)
  PROVE  /\ setup.n \in Nat /\ setup.n > 1 /\ setup.n2 \in Nat /\ setup.n2 > 1 /\ setup.l \in Nat
         /\ setup.n2 = setup.n * setup.n
         /\ IsUnit(setup.g, u, setup.n)
BY DEF IsPaillier, IsUnit

\* A public key holds the powers of the generator.
LEMMA PublicKeyHolds ==
  ASSUME NEW u, IsPaillier(u), NEW D, NEW sec \in [D -> Int], NEW i \in D
  PROVE  /\ P!PublicKey(sec)[i].err = "NONE" /\ Holds(P!PublicKey(sec)[i].res, 0, sec[i], u)
         /\ DOMAIN P!PublicKey(sec) = D
<1>1. PICK n, q, g, y \in Int :
        n = setup.n /\ g = setup.g /\ q = setup.n2 /\ y = sec[i] /\ q = n * n /\ IsUnit(g, u, n)
  BY PaillierNumbers DEF IsUnit
<1>2. DOMAIN P!PublicKey(sec) = D /\ P!PublicKey(sec)[i] = P!PowM(g, y, q)
  BY <1>1 DEF P!PublicKey
<1>3. PICK o, e \in Int : o = 0 /\ e = 1
  OBVIOUS
<1>4. Rep(g, o, e, g, u, n)
  BY <1>1, <1>3, RepUnits
<1>6. y * o = o /\ y * e = y
  BY <1>3
<1>5. Found(P!PowM(g, y, q), o, y, g, u, n)
  BY <1>1, <1>3, <1>4, <1>6, RepPowM
<1> QED BY <1>1, <1>2, <1>3, <1>5 DEF Holds, Found

\* A ciphertext holds the data, masked by powers of the public key.
LEMMA CiphertextHolds ==
  ASSUME NEW u, IsPaillier(u), NEW L1, L1 = 0..(setup.l - 1), NEW sec \in [L1 -> Int], NEW x \in [L1 -> Int],
         NEW r \in Nat, NEW mpub, \A i \in L1 : mpub[i] = P!PublicKey(sec)[i].res,
         NEW c, c = P!Ciphertext(x, mpub, r)
  PROVE  /\ Holds(c[0], 0, r, u)
         /\ \A i \in L1 : Holds(c[i + 1], x[i], r * sec[i], u)
<1>1. PICK n, g, q, l \in Int :
        /\ n = setup.n /\ g = setup.g /\ q = setup.n2 /\ l = setup.l /\ l \in Nat
        /\ n \in Nat /\ q \in Nat /\ q = n * n /\ q > 1 /\ IsUnit(g, u, n)
  BY PaillierNumbers, SMTT(30) DEF IsUnit
<1>2. Holds(c[0], 0, r, u)
  <2>1. c[0] = P!Power(g, r, q)
    BY <1>1 DEF P!Ciphertext
  <2>2. PICK o, e \in Int : o = 0 /\ e = 1
    OBVIOUS
  <2>3. Rep(g, o, e, g, u, n)
    BY <1>1, <2>2, RepUnits
  <2>4. Rep(P!Power(g, r, q), r * o, r * e, g, u, n)
    BY <1>1, <2>3, RepPower
  <2>5. r * o = 0 /\ r * e = r
    BY <2>2
  <2>6. P!Power(g, r, q) \in 0..(q - 1)
    BY <1>1, PowerType
  <2> QED BY <1>1, <2>1, <2>4, <2>5, <2>6 DEF Holds
<1>3. ASSUME NEW i \in L1 PROVE Holds(c[i + 1], x[i], r * sec[i], u)
  <2>1. PICK v, m \in Int : v = x[i] /\ m = sec[i]
    OBVIOUS
  <2>2. PICK b : b = mpub[i] /\ b \in Int /\ Rep(b, 0, m, g, u, n)
    <3>1. PICK b : b = mpub[i] /\ b = P!PublicKey(sec)[i].res
      OBVIOUS
    <3>5. Holds(P!PublicKey(sec)[i].res, 0, sec[i], u)
      BY PublicKeyHolds
    <3>2. Holds(b, 0, m, u)
      BY <2>1, <3>1, <3>5
    <3>3. Rep(b, 0, m, g, u, n)
      BY <1>1, <3>2 DEF Holds
    <3>4. b \in Int
      BY <3>3 DEF Rep
    <3> QED BY <3>1, <3>3, <3>4
  <2>3. PICK w \in Int : w = P!Power(b, r, q)
    BY <1>1, <2>2, PowerType
  <2>4. Rep(w, 0, r * m, g, u, n)
    <3>1. PICK o \in Int : o = 0
      OBVIOUS
    <3>2. Rep(w, r * o, r * m, g, u, n)
      BY <1>1, <2>2, <2>3, <3>1, RepPower
    <3>3. r * o = 0
      BY <3>1
    <3> QED BY <3>2, <3>3
  <2>5. PICK h \in Int : h = 1 + v * n
    BY <1>1
  <2>6. Rep(h, v, 0, g, u, n)
    BY <1>1, <2>5, RepUnits
  <2>7. PICK e \in Int : e = r * m
    OBVIOUS
  <2>8. Rep(h * w, v, e, g, u, n)
    <3>1. PICK o \in Int : o = 0
      OBVIOUS
    <3>2. Rep(h * w, v + o, o + e, g, u, n)
      BY <1>1, <2>4, <2>6, <2>7, <3>1, RepMul
    <3>3. v + o = v /\ o + e = e
      BY <3>1
    <3> QED BY <3>2, <3>3
  <2>9. PICK t \in Int : t = h * w
    OBVIOUS
  <2>10. t % q \in 0..(q - 1) /\ t % q \in Int /\ Congruent(t % q, t, q)
    <3>1. q # 0
      BY <1>1
    <3> QED BY <1>1, <3>1, CongruentMod
  <2>11. Rep(t % q, v, e, g, u, n)
    BY <1>1, <2>8, <2>9, <2>10, RepCongruent
  <2>12. c[i + 1] = t % q
    <3>1. i + 1 \in 0..setup.l /\ i + 1 # 0 /\ (i + 1) - 1 = i
      BY <1>1
    <3>2. c[i + 1] = ((x[i] * n + 1) * P!Power(mpub[i], r, q)) % q
      BY <1>1, <3>1 DEF P!Ciphertext
    <3>3. x[i] * n + 1 = h
      BY <2>1, <2>5
    <3> QED BY <2>2, <2>3, <2>9, <3>2, <3>3
  <2> QED BY <1>1, <2>1, <2>7, <2>10, <2>11, <2>12 DEF Holds
<1> QED BY <1>2, <1>3

\* The recursion of the product.
IsProducts(f, powers, l, q) ==
  f = [i \in 0..l |-> IF i = 0 THEN powers[0].res ELSE (f[i - 1] * powers[i].res) % q]

\* There is such a table for every length.
LEMMA ProductsExist ==
  ASSUME NEW powers, NEW q, NEW l \in Nat
  PROVE  \E f : IsProducts(f, powers, l, q)
<1> DEFINE S == {k \in Nat : \E f : IsProducts(f, powers, k, q)}
<1>1. 0 \in S
  <2>1. IsProducts([i \in 0..0 |-> powers[0].res], powers, 0, q)
    BY DEF IsProducts
  <2> QED BY <2>1
<1>2. ASSUME NEW n \in Nat, n \in S PROVE n + 1 \in S
  <2>1. PICK f : IsProducts(f, powers, n, q)
    BY <1>2
  <2> DEFINE g == [i \in 0..(n + 1) |-> IF i = n + 1 THEN (f[n] * powers[n + 1].res) % q ELSE f[i]]
             k == [i \in 0..(n + 1) |-> IF i = 0 THEN powers[0].res ELSE (g[i - 1] * powers[i].res) % q]
  <2>2. ASSUME NEW i \in 0..(n + 1) PROVE g[i] = k[i]
    <3>1. CASE i = n + 1
      <4>1. g[n] = f[n] /\ i - 1 = n /\ i # 0
        BY <3>1
      <4> QED BY <3>1, <4>1
    <3>2. CASE i # n + 1 /\ i # 0
      <4>1. i \in 0..n /\ i - 1 \in 0..n /\ i - 1 # n + 1
        BY <3>2
      <4>2. f[i] = (f[i - 1] * powers[i].res) % q
        BY <2>1, <3>2, <4>1 DEF IsProducts
      <4>3. g[i] = f[i] /\ g[i - 1] = f[i - 1]
        BY <3>2, <4>1
      <4>4. k[i] = (g[i - 1] * powers[i].res) % q
        BY <3>2
      <4> QED BY <4>2, <4>3, <4>4
    <3>3. CASE i = 0
      <4>1. f[0] = powers[0].res
        BY <2>1 DEF IsProducts
      <4> QED BY <3>3, <4>1
    <3> QED BY <3>1, <3>2, <3>3
  <2>3. g = k
    <3>1. g = [i \in 0..(n + 1) |-> g[i]] /\ k = [i \in 0..(n + 1) |-> k[i]]
      OBVIOUS
    <3> HIDE DEF g, k
    <3> QED BY <2>2, <3>1
  <2>4. IsProducts(g, powers, n + 1, q)
    BY <2>3 DEF IsProducts
  <2> QED BY <2>4
<1>3. Nat \subseteq S
  <2> HIDE DEF S
  <2> QED BY <1>1, <1>2, InductionOnNat
<1> QED BY <1>3

\* What the product stands for, when it is known what its factors stand for.
LEMMA ProductHolds ==
  ASSUME NEW u, IsPaillier(u), NEW l \in Nat, NEW powers, NEW f, IsProducts(f, powers, l, setup.n2),
         NEW d \in Int, NEW a \in [0..(l - 1) -> Int], NEW b \in [0..(l - 1) -> Int],
         Holds(powers[0].res, 0, d, u),
         \A i \in 0..(l - 1) : Holds(powers[i + 1].res, a[i], b[i], u)
  PROVE  Holds(f[l], SumFunctionOnSet(a, 0..(l - 1)), d + SumFunctionOnSet(b, 0..(l - 1)), u)
<1> DEFINE X(i) == SumFunctionOnSet(a, 0..(i - 1))
           E(i) == SumFunctionOnSet(b, 0..(i - 1))
           S == {k \in Nat : k <= l => X(k) \in Int /\ E(k) \in Int /\ Holds(f[k], X(k), d + E(k), u)}
<1>1. 0 \in S
  <2>1. 0..(0 - 1) = {}
    OBVIOUS
  <2>2. X(0) = 0 /\ E(0) = 0
    BY <2>1, SumEmpty
  <2>3. f[0] = powers[0].res /\ d + 0 = d
    BY DEF IsProducts
  <2> QED BY <2>2, <2>3
<1>2. ASSUME NEW k \in Nat, k \in S PROVE k + 1 \in S
  <2>1. SUFFICES ASSUME k + 1 <= l
                 PROVE  /\ X(k + 1) \in Int /\ E(k + 1) \in Int
                        /\ Holds(f[k + 1], X(k + 1), d + E(k + 1), u)
    OBVIOUS
  <2>2. k \in 0..(l - 1) /\ k <= l /\ (k + 1) - 1 = k /\ k + 1 \in 0..l /\ k + 1 # 0
    BY <2>1
  <2>3. X(k) \in Int /\ E(k) \in Int /\ Holds(f[k], X(k), d + E(k), u)
    BY <1>2, <2>2
  <2>4. X(k + 1) = a[k] + X(k) /\ E(k + 1) = b[k] + E(k)
    <3>1. PICK T : T = 0..k
      OBVIOUS
    <3>2. IsFiniteSet(T) /\ k \in T /\ T \ {k} = 0..(k - 1) /\ T = 0..((k + 1) - 1)
      <4>1. IsFiniteSet(0..k)
        BY FS_Interval
      <4> QED BY <3>1, <4>1
    <3>3. \A j \in T : a[j] \in Int /\ b[j] \in Int
      BY <2>2, <3>1
    <3>4. SumFunctionOnSet(a, T) = a[k] + SumFunctionOnSet(a, T \ {k})
      BY <3>2, <3>3, SumRemove
    <3>5. SumFunctionOnSet(b, T) = b[k] + SumFunctionOnSet(b, T \ {k})
      BY <3>2, <3>3, SumRemove
    <3> QED BY <3>2, <3>4, <3>5
  <2> HIDE DEF X, E
  <2>5. PICK x, e, v, w \in Int : x = X(k) /\ e = d + E(k) /\ v = a[k] /\ w = b[k]
    BY <2>2, <2>3
  <2>6. PICK n, q, g \in Int :
          /\ n = setup.n /\ q = setup.n2 /\ g = setup.g /\ q = n * n
          /\ n \in Nat /\ q \in Nat /\ q # 0 /\ IsUnit(g, u, n)
    BY PaillierNumbers DEF IsUnit
  <2>7. PICK z, y \in Int :
          z = f[k] /\ y = powers[k + 1].res /\ Rep(z, x, e, g, u, n) /\ Rep(y, v, w, g, u, n)
    BY <2>2, <2>3, <2>5, <2>6, ZenonT(60) DEF Holds, Rep
  <2>8. Rep(z * y, x + v, e + w, g, u, n)
    BY <2>6, <2>7, RepMul
  <2>9. PICK t, xv, ew \in Int : t = z * y /\ xv = x + v /\ ew = e + w
    OBVIOUS
  <2>10. t % q \in 0..(q - 1) /\ t % q \in Int /\ Congruent(t % q, t, q)
    BY <2>6, CongruentMod
  <2>11. Rep(t % q, xv, ew, g, u, n)
    BY <2>6, <2>8, <2>9, <2>10, RepCongruent
  <2>12. f[k + 1] = t % q
    <3>1. f[k + 1] = (f[k] * powers[k + 1].res) % setup.n2
      BY <2>2 DEF IsProducts
    <3> QED BY <2>6, <2>7, <2>9, <3>1
  <2>13. Holds(f[k + 1], xv, ew, u)
    BY <2>6, <2>10, <2>11, <2>12 DEF Holds
  <2>14. X(k + 1) = xv /\ d + E(k + 1) = ew /\ E(k + 1) \in Int
    <3>1. PICK ek \in Int : ek = E(k)
      BY <2>3
    <3>2. PICK xn, en : xn = X(k + 1) /\ en = E(k + 1)
      OBVIOUS
    <3>3. xn = v + x /\ en = w + ek
      BY <2>4, <2>5, <3>1, <3>2
    <3>4. xn = xv /\ en \in Int
      BY <2>9, <3>1, <3>3
    <3>5. d + en = ew
      <4>1. e = d + ek
        BY <2>5, <3>1
      <4> QED BY <2>9, <3>1, <3>3, <4>1
    <3> QED BY <3>2, <3>4, <3>5
  <2> QED BY <2>13, <2>14
<1>3. l \in S
  <2> HIDE DEF S
  <2> QED BY <1>1, <1>2, InductionOnNat
<1> QED BY <1>3

\* A number that has been found without an error, and what it stands for.
IsFound(p, x, e, u) == p.err = "NONE" /\ Holds(p.res, x, e, u)

\* The powers that a decryption takes, of any ciphertext and with any key: none ends the
\* program.
LEMMA PowersHold ==
  ASSUME NEW u, IsPaillier(u), NEW z, NEW x \in Int, NEW e \in Int, Holds(z, x, e, u), NEW y \in Int,
         NEW v, v = y * x, NEW w, w = y * e
  PROVE  IsFound(P!PowM(z, y, setup.n2), v, w, u)
<1>1. PICK n, q, g \in Int : n = setup.n /\ q = setup.n2 /\ g = setup.g /\ q = n * n /\ IsUnit(g, u, n)
  BY PaillierNumbers DEF IsUnit
<1>2. Rep(z, x, e, g, u, n)
  BY <1>1 DEF Holds
<1>3. Found(P!PowM(z, y, q), v, w, g, u, n)
  BY <1>1, <1>2, RepPowM, SMTT(30)
<1> QED BY <1>1, <1>3 DEF Holds, Found, IsFound

\* A ciphertext: what it is of is known for each of its numbers.
IsCiphertextOf(c, x, r, sec, u) ==
  /\ Holds(c[0], 0, r, u)
  /\ \A i \in 0..(setup.l - 1) : Holds(c[i + 1], x[i], r * sec[i], u)

\* The powers of a decryption.
UnmaskedPowers(c, k, y) ==
  [i \in 0..setup.l |-> P!PowM(c[i], IF i = 0 THEN -k ELSE y[i - 1], setup.n2)]

\* All of them are found, and what each stands for is known.
AreFound(powers, k, y, x, r, sec, u) ==
  /\ \A i \in 0..setup.l : powers[i].err = "NONE"
  /\ Holds(powers[0].res, 0, -(k * r), u)
  /\ \A i \in 0..(setup.l - 1) : Holds(powers[i + 1].res, y[i] * x[i], y[i] * (r * sec[i]), u)

\* Their product.
LEMMA UnmaskedDefinition ==
  ASSUME NEW c, NEW k, NEW y, NEW powers, powers = UnmaskedPowers(c, k, y),
         \A i \in 0..setup.l : powers[i].err = "NONE"
  PROVE  P!Unmasked(c, k, y) =
           [err |-> "NONE", res |-> (CHOOSE f : IsProducts(f, powers, setup.l, setup.n2))[setup.l]]
BY DEF P!Unmasked, UnmaskedPowers, IsProducts, P!Done, P!Failed

\* No decryption ends the program, and the powers stand for what they are taken of.
LEMMA UnmaskedPowersHold ==
  ASSUME NEW u, IsPaillier(u), NEW L1, L1 = 0..(setup.l - 1),
         NEW x \in [L1 -> Int], NEW y \in [L1 -> Int], NEW sec \in [L1 -> Int], NEW r \in Nat,
         NEW k \in Int, NEW c, IsCiphertextOf(c, x, r, sec, u),
         NEW powers, powers = UnmaskedPowers(c, k, y)
  PROVE  AreFound(powers, k, y, x, r, sec, u)
<1>1. setup.l \in Nat
  BY PaillierNumbers
<1>2. powers[0].err = "NONE" /\ Holds(powers[0].res, 0, -(k * r), u)
  <2>1. powers[0] = P!PowM(c[0], -k, setup.n2)
    BY <1>1 DEF UnmaskedPowers
  <2>2. PICK o, m, e \in Int : o = 0 /\ m = -k /\ e = -(k * r)
    OBVIOUS
  <2>3. Holds(c[0], o, r, u)
    BY <2>2 DEF IsCiphertextOf
  <2>4. o = m * o /\ e = m * r
    BY <2>2
  <2>5. IsFound(powers[0], o, e, u)
    BY <2>1, <2>2, <2>3, <2>4, PowersHold
  <2> QED BY <2>2, <2>5 DEF IsFound
<1>3. ASSUME NEW i \in L1
      PROVE  /\ powers[i + 1].err = "NONE"
             /\ Holds(powers[i + 1].res, y[i] * x[i], y[i] * (r * sec[i]), u)
  <2>1. i + 1 \in 0..setup.l /\ i + 1 # 0 /\ (i + 1) - 1 = i
    BY <1>1
  <2>2. powers[i + 1] = P!PowM(c[i + 1], y[i], setup.n2)
    BY <2>1 DEF UnmaskedPowers
  <2>3. PICK v, m, e \in Int : v = x[i] /\ m = y[i] /\ e = r * sec[i]
    OBVIOUS
  <2>4. Holds(c[i + 1], v, e, u)
    BY <2>3 DEF IsCiphertextOf
  <2>5. PICK a, b \in Int : a = m * v /\ b = m * e
    OBVIOUS
  <2>6. IsFound(powers[i + 1], a, b, u)
    BY <2>2, <2>3, <2>4, <2>5, PowersHold, SMTT(30)
  <2> QED BY <2>3, <2>5, <2>6 DEF IsFound
<1>4. ASSUME NEW i \in 0..setup.l PROVE powers[i].err = "NONE"
  <2>1. CASE i = 0
    BY <1>2, <2>1
  <2>2. CASE i # 0
    <3>1. i - 1 \in L1 /\ (i - 1) + 1 = i
      BY <1>1, <2>2
    <3>2. powers[(i - 1) + 1].err = "NONE"
      BY <1>3, <3>1
    <3> QED BY <3>1, <3>2
  <2> QED BY <2>1, <2>2
<1> QED BY <1>2, <1>3, <1>4 DEF AreFound

\* So a decryption returns a number.
LEMMA UnmaskedReturns ==
  ASSUME NEW u, IsPaillier(u), NEW L1, L1 = 0..(setup.l - 1),
         NEW x \in [L1 -> Int], NEW y \in [L1 -> Int], NEW sec \in [L1 -> Int], NEW r \in Nat,
         NEW k \in Int, NEW c, IsCiphertextOf(c, x, r, sec, u)
  PROVE  P!Unmasked(c, k, y).err = "NONE"
<1>1. PICK powers : powers = UnmaskedPowers(c, k, y)
  OBVIOUS
<1>3. AreFound(powers, k, y, x, r, sec, u)
  BY <1>1, UnmaskedPowersHold
<1>2. \A i \in 0..setup.l : powers[i].err = "NONE"
  BY <1>3 DEF AreFound
<1> QED BY <1>1, <1>2, UnmaskedDefinition

\* A number that holds the inner product d and nothing else.
IsUnmasked(p, d) ==
  \E z \in 0..(setup.n2 - 1) :
    p = [err |-> "NONE", res |-> z] /\ Congruent(z, 1 + d * setup.n, setup.n2)

\* With the key for y of the same master keys the masks cancel.
LEMMA UnmaskedValue ==
  ASSUME NEW u, IsPaillier(u), NEW L1, L1 = 0..(setup.l - 1),
         NEW x \in [L1 -> Int], NEW y \in [L1 -> Int], NEW sec \in [L1 -> Int], NEW r \in Nat,
         NEW k, k = Dot(sec, y), NEW c, IsCiphertextOf(c, x, r, sec, u)
  PROVE  IsUnmasked(P!Unmasked(c, k, y), Dot(x, y))
<1>1. IsFiniteSet(L1) /\ setup.l \in Nat
  BY PaillierNumbers, FS_Interval, SMTT(30)
<1>2. k \in Int /\ Dot(x, y) \in Int
  BY <1>1, DotIsInt
<1>3. PICK powers : powers = UnmaskedPowers(c, k, y)
  OBVIOUS
<1>4. /\ \A i \in 0..setup.l : powers[i].err = "NONE"
      /\ Holds(powers[0].res, 0, -(k * r), u)
      /\ \A i \in L1 : Holds(powers[i + 1].res, y[i] * x[i], y[i] * (r * sec[i]), u)
  <2>1. AreFound(powers, k, y, x, r, sec, u)
    BY <1>2, <1>3, UnmaskedPowersHold
  <2> QED BY <2>1 DEF AreFound
<1>5. PICK f : f = (CHOOSE g : IsProducts(g, powers, setup.l, setup.n2))
               /\ IsProducts(f, powers, setup.l, setup.n2)
  BY <1>1, ProductsExist
<1>6. PICK a, b, h : /\ a = [i \in L1 |-> x[i] * y[i]]
                     /\ b = [i \in L1 |-> r * h[i]]
                     /\ h = [i \in L1 |-> sec[i] * y[i]]
  <2>1. PICK h : h = [i \in L1 |-> sec[i] * y[i]]
    OBVIOUS
  <2> QED BY <2>1
<1>7. a \in [L1 -> Int] /\ b \in [L1 -> Int] /\ h \in [L1 -> Int]
  <2>1. \A i \in L1 : x[i] * y[i] \in Int /\ sec[i] * y[i] \in Int
    OBVIOUS
  <2>2. h \in [L1 -> Int]
    BY <1>6, <2>1
  <2>3. \A i \in L1 : r * h[i] \in Int
    BY <2>2
  <2> QED BY <1>6, <2>1, <2>2, <2>3
<1>8. ASSUME NEW i \in L1 PROVE Holds(powers[i + 1].res, a[i], b[i], u)
  <2>1. PICK v, m, w \in Int : v = x[i] /\ m = y[i] /\ w = sec[i]
    OBVIOUS
  <2>2. a[i] = v * m /\ b[i] = r * (w * m)
    BY <1>6, <2>1
  <2>3. m * v = v * m /\ m * (r * w) = r * (w * m)
    OBVIOUS
  <2>4. Holds(powers[i + 1].res, m * v, m * (r * w), u)
    BY <1>4, <2>1
  <2> QED BY <2>2, <2>3, <2>4
<1>9. SumFunctionOnSet(a, L1) = Dot(x, y) /\ SumFunctionOnSet(h, L1) = k
  BY <1>1, <1>6, DotIsSum, ZenonT(60)
<1>10. SumFunctionOnSet(b, L1) = r * SumFunctionOnSet(h, L1)
  <2>1. PICK m \in Int : m = r
    OBVIOUS
  <2>2. \A i \in L1 : h[i] \in Int /\ b[i] = m * h[i]
    BY <1>6, <1>7, <2>1
  <2>3. SumFunctionOnSet(b, L1) = m * SumFunctionOnSet(h, L1)
    BY <1>1, <2>2, SumScaled
  <2> QED BY <2>1, <2>3
<1>11. PICK d \in Int : d = -(k * r)
  BY <1>2
<1>12. Holds(f[setup.l], SumFunctionOnSet(a, L1), d + SumFunctionOnSet(b, L1), u)
  BY <1>1, <1>4, <1>5, <1>7, <1>8, <1>11, ProductHolds
<1>13. d + SumFunctionOnSet(b, L1) = 0
  BY <1>2, <1>9, <1>10, <1>11
<1>14. PICK D, n, q, g \in Int :
         /\ D = Dot(x, y) /\ n = setup.n /\ q = setup.n2 /\ g = setup.g /\ q = n * n
         /\ n \in Nat /\ q \in Nat /\ IsUnit(g, u, n)
  BY <1>2, PaillierNumbers, SMTT(30) DEF IsUnit
<1>15. f[setup.l] \in 0..(q - 1) /\ Rep(f[setup.l], D, 0, g, u, n)
  BY <1>9, <1>12, <1>13, <1>14 DEF Holds
<1>16. Congruent(f[setup.l], 1 + D * n, n * n)
  BY <1>14, <1>15, RepValue
<1>17. P!Unmasked(c, k, y) = [err |-> "NONE", res |-> f[setup.l]]
  BY <1>3, <1>4, <1>5, UnmaskedDefinition
<1> QED BY <1>14, <1>15, <1>16, <1>17 DEF IsUnmasked

-----------------------------------------------------------------------------
(* The plaintext behind the unmasked number *)

\* What is left when the number 1 is subtracted and the rest is divided by n.
LEMMA QuotientModN ==
  ASSUME NEW n \in Nat, n > 1, NEW q \in Nat, q = n * n, NEW D \in Int, NEW z \in Int,
         NEW h \in Int, h = D * n, Congruent(z, 1 + h, q)
  PROVE  \E v \in 0..(n - 1) : ((z - 1) % q) \div n = v /\ Congruent(v, D, n)
<1>1. PICK c \in Int : z = (1 + h) + q * c
  BY DEF Congruent
<1>2. PICK v \in 0..(n - 1), e \in Int : v = D % n /\ D = n * e + v
  <2>1. n # 0
    OBVIOUS
  <2>2. PICK v : v = D % n /\ v \in 0..(n - 1) /\ \E e \in Int : D = (n * e) + v
    BY <2>1, Division
  <2> QED BY <2>2
<1>3. PICK w \in Int : w = v * n
  OBVIOUS
<1>4. PICK t \in Int : t = e + c
  OBVIOUS
<1>5. z - 1 = (q * t) + w
  <2>1. z - 1 = h + q * c
    BY <1>1
  <2>2. D * n = q * e + w
    <3>1. D * n = (n * e + v) * n
      BY <1>2
    <3>2. (n * e + v) * n = (n * n) * e + v * n
      OBVIOUS
    <3> QED BY <1>3, <3>1, <3>2
  <2>3. q * t = q * e + q * c
    BY <1>4
  <2> QED BY <2>1, <2>2, <2>3
<1>6. w \in 0..(q - 1)
  <2>1. 0 <= w
    BY <1>3
  <2>2. w <= (n - 1) * n
    BY <1>3
  <2>3. (n - 1) * n = q - n
    OBVIOUS
  <2> QED BY <2>1, <2>2, <2>3
<1>7. (z - 1) % q = w
  <2>1. ((q * t) + w) % q = w
    BY <1>6, DivisionUnique
  <2> QED BY <1>5, <2>1
<1>8. w \div n = v
  <2>1. PICK d \in Int : d = w \div n
    OBVIOUS
  <2>2. w = (n * d) + (w % n) /\ w % n \in 0..(n - 1)
    BY <2>1
  <2>3. (n * v) + 0 = w
    BY <1>3
  <2>4. ((n * v) + 0) % n = 0
    BY DivisionUnique
  <2>5. w = n * d /\ w = n * v
    BY <2>2, <2>3, <2>4
  <2>6. n * (d - v) = 0
    BY <2>5
  <2>7. d = v
    BY <2>6
  <2> QED BY <2>1, <2>7
<1>9. Congruent(v, D, n)
  <2>1. n # 0
    OBVIOUS
  <2> QED BY <1>2, <2>1, CongruentMod
<1> QED BY <1>7, <1>8, <1>9

\* Around zero that is the number itself, when it is within half of n.
LEMMA CentredValue ==
  ASSUME NEW n \in Nat, n > 1, n = setup.n, NEW D \in Int, 2 * D \in (1 - n)..(n - 1),
         NEW v \in 0..(n - 1), Congruent(v, D, n)
  PROVE  P!Centred(v) = D
<1>1. PICK c \in Int : v = D + n * c
  BY DEF Congruent
<1>2. PICK h \in Int : h = n \div 2 /\ (n = 2 * h \/ n = 2 * h + 1)
  OBVIOUS
<1>3. P!Centred(v) = IF v > h THEN v - n ELSE v
  BY <1>2 DEF P!Centred
<1>4. c = 0 \/ c = 1
  <2>1. c >= 0
    <3>1. SUFFICES ASSUME c <= -1 PROVE FALSE
      OBVIOUS
    <3>2. n * c <= -n
      BY <3>1
    <3> QED BY <1>1, <3>2
  <2>2. c <= 1
    <3>1. SUFFICES ASSUME c >= 2 PROVE FALSE
      OBVIOUS
    <3>2. n * c >= 2 * n
      BY <3>1
    <3> QED BY <1>1, <3>2
  <2> QED BY <2>1, <2>2
<1>5. CASE c = 0
  <2>1. v = D
    BY <1>1, <1>5
  <2>2. ~(v > h)
    BY <1>2, <2>1
  <2> QED BY <1>3, <2>1, <2>2
<1>6. CASE c = 1
  <2>1. v = D + n
    BY <1>1, <1>6
  <2>2. v > h
    BY <1>2, <2>1
  <2> QED BY <1>3, <2>1, <2>2
<1> QED BY <1>4, <1>5, <1>6

-----------------------------------------------------------------------------
(* What is held and exchanged in the Paillier scheme *)

\* A scheme that has been set up has a generator with an inverse.
LEMMA SetUpPaillier ==
  ASSUME arg \in PaillierInstances, P!SetUp, setup # P!NoScheme
  PROVE  setup.l = arg.l /\ \E u : IsPaillier(u)
<1>1. PICK p \in arg.primes, g \in arg.generators, b \in arg.bounds :
        P!New(arg.l, p, g, b) = P!Done(setup)
  BY DEF P!SetUp
<1>2. PICK p1, p2 \in Nat : p1 = p[1] /\ p2 = p[2] /\ p1 > 4 /\ p2 > 4
  BY OthersAssumption DEF P!InstanceAssumption, P!IsInstance
<1>3. arg.l \in Nat /\ arg.l # 0 /\ g \in Nat
  BY OthersAssumption DEF P!InstanceAssumption, P!IsInstance
<1>4. PICK n \in Nat : n = p1 * p2 /\ n > 1
  <2>1. p1 * p2 \in Nat /\ p1 * p2 >= 4 * p2
    BY <1>2
  <2> QED BY <1>2, <2>1
<1>5. PICK q \in Nat : q = n * n /\ q > 1 /\ q # 0
  <2>1. n * n \in Nat /\ n * n >= n
    BY <1>4
  <2> QED BY <1>4, <2>1
<1>6. PICK gen : gen = P!Power(P!Power(g % q, n, q), 2, q)
  OBVIOUS
<1>7. gen \in Int
  <2>1. g % q \in Int
    BY <1>3, <1>5, CongruentMod
  <2>2. P!Power(g % q, n, q) \in Int
    BY <1>4, <1>5, <2>1, PowerType
  <2> QED BY <1>5, <1>6, <2>2, PowerType
<1>8. /\ P!Invertible(gen, q)
      /\ setup = [l |-> arg.l, n |-> n, n2 |-> q, bx |-> b[1], by |-> b[2], g |-> gen]
  BY <1>1, <1>2, <1>4, <1>5, <1>6 DEF P!New, P!Done, P!Failed
<1>9. PICK u \in Int : (gen * u) % q = 1
  <2>1. \E u \in 0..(q - 1) : (gen * u) % q = 1
    BY <1>8 DEF P!Invertible
  <2> QED BY <1>5, <2>1
<1>10. Congruent(gen * u, 1, q)
  <2>1. PICK t \in Int : t = gen * u
    BY <1>7
  <2>2. Congruent(t % q, t, q)
    BY <1>5, CongruentMod
  <2>3. Congruent(1, t, q)
    BY <1>9, <2>1, <2>2
  <2> QED BY <2>1, <2>3, CongruentSym
<1>11. IsPaillier(u)
  BY <1>3, <1>4, <1>5, <1>7, <1>8, <1>9, <1>10 DEF IsPaillier, IsUnit
<1> QED BY <1>8, <1>11

\* Secret keys, data and key requests are vectors of integers.
LEMMA PaillierInputs ==
  ASSUME arg \in PaillierInstances, P!SetUp, setup # P!NoScheme
  PROVE  /\ setup.l \in Nat /\ arg.nonces \subseteq Nat
         /\ arg.xs \subseteq [0..(setup.l - 1) -> Int] /\ arg.ys \subseteq [0..(setup.l - 1) -> Int]
         /\ arg.secrets \subseteq [0..(setup.l - 1) -> Int]
BY SetUpPaillier, OthersAssumption DEF P!InstanceAssumption, P!IsInstance

\* The powers of a public key are all found.
LEMMA PaillierPublic ==
  ASSUME arg \in PaillierInstances, P!SetUp, setup # P!NoScheme, NEW m \in arg.secrets
  PROVE  /\ DOMAIN P!PublicKey(m) = DOMAIN m /\ DOMAIN P!Numbers(m) = DOMAIN m
         /\ \A i \in DOMAIN m : /\ P!PublicKey(m)[i].err = "NONE"
                                /\ P!Numbers(m)[i] \in P!Residues(setup.n2)
                                /\ P!Numbers(m)[i] = P!PublicKey(m)[i].res
<1>1. PICK u : IsPaillier(u)
  BY SetUpPaillier
<1>2. m \in [0..(setup.l - 1) -> Int]
  BY PaillierInputs
<1>3. PICK D : D = 0..(setup.l - 1) /\ m \in [D -> Int] /\ DOMAIN m = D
  BY <1>2
<1>4. DOMAIN P!PublicKey(m) = D /\ P!Numbers(m) = [i \in D |-> P!PublicKey(m)[i].res]
  BY <1>3 DEF P!PublicKey, P!Numbers
<1>5. ASSUME NEW i \in D
      PROVE  P!PublicKey(m)[i].err = "NONE" /\ P!PublicKey(m)[i].res \in P!Residues(setup.n2)
  BY <1>1, <1>3, PublicKeyHolds DEF Holds, P!Residues
<1> QED BY <1>3, <1>4, <1>5

\* A ciphertext of x with the randomness r for the master key m.
LEMMA PaillierCiphertext ==
  ASSUME arg \in PaillierInstances, P!SetUp, setup # P!NoScheme, NEW m \in arg.secrets,
         NEW x \in arg.xs, NEW r \in arg.nonces, NEW u, IsPaillier(u)
  PROVE  IsCiphertextOf(P!Ciphertext(x, P!Numbers(m), r), x, r, m, u)
<1>1. PICK D : D = 0..(setup.l - 1) /\ m \in [D -> Int] /\ x \in [D -> Int] /\ r \in Nat
  BY PaillierInputs
<1>2. \A i \in D : P!Numbers(m)[i] = P!PublicKey(m)[i].res
  BY <1>1, PaillierPublic
<1>3. PICK c : c = P!Ciphertext(x, P!Numbers(m), r)
  OBVIOUS
<1>4. Holds(c[0], 0, r, u) /\ \A i \in D : Holds(c[i + 1], x[i], r * m[i], u)
  BY <1>1, <1>2, <1>3, CiphertextHolds
<1> QED BY <1>1, <1>3, <1>4 DEF IsCiphertextOf

\* Its numbers are residues.
LEMMA CiphertextResidues ==
  ASSUME NEW u, IsPaillier(u), NEW c, NEW x, NEW r, NEW m, IsCiphertextOf(c, x, r, m, u)
  PROVE  \A i \in 0..setup.l : c[i] \in P!Residues(setup.n2)
<1> TAKE i \in 0..setup.l
<1>1. setup.l \in Nat
  BY PaillierNumbers
<1>2. CASE i = 0
  BY <1>2 DEF IsCiphertextOf, Holds, P!Residues
<1>3. CASE i # 0
  <2>1. PICK j \in 0..(setup.l - 1) : i = j + 1
    <3>1. i - 1 \in 0..(setup.l - 1) /\ i = (i - 1) + 1
      BY <1>1, <1>3
    <3> QED BY <3>1
  <2>2. Holds(c[j + 1], x[j], r * m[j], u)
    BY DEF IsCiphertextOf
  <2> QED BY <2>1, <2>2 DEF Holds, P!Residues
<1> QED BY <1>2, <1>3

\* What a decryption returns for a ciphertext of x and a key k.
PlaintextIs(p, k, m, x, y) ==
  /\ p.err \in {"NONE", "BOUND_CHECK_FAILED"}
  /\ p.err = "NONE" /\ k = Dot(m, y) /\ 2 * Dot(x, y) \in (1 - setup.n)..(setup.n - 1)
       => p.res = Dot(x, y)

\* No decryption ends the program, and one with the key for the same vector and master key
\* gives the inner product.
LEMMA PlaintextHolds ==
  ASSUME NEW u, IsPaillier(u), NEW D, D = 0..(setup.l - 1),
         NEW m \in [D -> Int], NEW x \in [D -> Int], NEW y \in [D -> Int], NEW r \in Nat,
         NEW k \in Int, NEW c, IsCiphertextOf(c, x, r, m, u)
  PROVE  PlaintextIs(P!Plaintext(c, k, y), k, m, x, y)
<1>4. P!Unmasked(c, k, y).err = "NONE"
  BY UnmaskedReturns
<1>5. P!Plaintext(c, k, y).err \in {"NONE", "BOUND_CHECK_FAILED"}
  BY <1>4 DEF P!Plaintext, P!Done, P!Failed
<1>6. ASSUME P!Plaintext(c, k, y).err = "NONE", k = Dot(m, y),
             2 * Dot(x, y) \in (1 - setup.n)..(setup.n - 1)
      PROVE  P!Plaintext(c, k, y).res = Dot(x, y)
  <2>1. PICK z \in 0..(setup.n2 - 1) :
          /\ P!Unmasked(c, k, y) = [err |-> "NONE", res |-> z]
          /\ Congruent(z, 1 + Dot(x, y) * setup.n, setup.n2)
    <3>1. IsUnmasked(P!Unmasked(c, k, y), Dot(x, y))
      BY <1>6, UnmaskedValue
    <3> QED BY <3>1 DEF IsUnmasked
  <2>2. P!Plaintext(c, k, y).res = P!Centred(((z - 1) % setup.n2) \div setup.n)
    <3>1. P!CheckBound(y, setup.by)
      BY <1>6 DEF P!Plaintext, P!Failed
    <3> QED BY <2>1, <3>1 DEF P!Plaintext, P!Done
  <2>3. IsFiniteSet(D)
    <3>1. setup.l \in Nat
      BY PaillierNumbers
    <3> QED BY <3>1, FS_Interval, SMTT(30)
  <2>4. Dot(x, y) \in Int
    BY <2>3, DotIsInt
  <2>5. PICK n, q, d, h \in Int :
          /\ n = setup.n /\ q = setup.n2 /\ d = Dot(x, y) /\ h = d * n
          /\ q = n * n /\ n \in Nat /\ n > 1 /\ q \in Nat
    BY <2>4, PaillierNumbers
  <2>6. z \in Int /\ Congruent(z, 1 + h, q)
    BY <2>1, <2>5
  <2>7. PICK v \in 0..(n - 1) : ((z - 1) % q) \div n = v /\ Congruent(v, d, n)
    BY <2>5, <2>6, QuotientModN
  <2>8. P!Centred(v) = d
    BY <1>6, <2>5, <2>7, CentredValue
  <2> QED BY <2>2, <2>5, <2>7, <2>8
<1> QED BY <1>5, <1>6 DEF PlaintextIs

\* The same of a ciphertext that an encryptor has made.
LEMMA PaillierPlaintext ==
  ASSUME arg \in PaillierInstances, P!SetUp, setup # P!NoScheme,
         NEW m \in arg.secrets, NEW x \in arg.xs, NEW y \in arg.ys, NEW r \in arg.nonces,
         NEW k \in Int, NEW c, c = P!Ciphertext(x, P!Numbers(m), r)
  PROVE  PlaintextIs(P!Plaintext(c, k, y), k, m, x, y)
<1>1. PICK u : IsPaillier(u)
  BY SetUpPaillier
<1>2. PICK D : D = 0..(setup.l - 1) /\ m \in [D -> Int] /\ x \in [D -> Int] /\ y \in [D -> Int] /\ r \in Nat
  BY PaillierInputs
<1>3. IsCiphertextOf(c, x, r, m, u)
  BY <1>1, PaillierCiphertext
<1> QED BY <1>1, <1>2, <1>3, PlaintextHolds

-----------------------------------------------------------------------------
(* The steps of the Paillier machines *)

\* What depends on the instance and the scheme only does not change with the rest.
LEMMA SamePaillier ==
  ASSUME arg' = arg, setup' = setup
  PROVE  /\ setup # P!NoScheme /\ P!SetUp => P!SetUp'
         /\ \A m : P!Numbers(m)' = P!Numbers(m)
         /\ \A x, m, r : P!Ciphertext(x, m, r)' = P!Ciphertext(x, m, r)
BY DEF P!SetUp, P!NoScheme, P!New, P!Numbers, P!PublicKey, P!PowM, P!Ciphertext

\* What the invariant is made of.
LEMMA PaillierParts ==
  ASSUME P!IInv
  PROVE  /\ P!TypeOK /\ P!NeverAborts /\ P!DecryptCorrect /\ P!SetUp /\ arg \in PaillierInstances
         /\ MaxEpoch \in Nat /\ count \in Nat /\ public.epoch \in 0..count
BY InstanceAssumption DEF P!IInv, P!TypeOK

\* A step that makes no scheme and decrypts nothing keeps the invariant, when what it holds
\* has a history.
LEMMA PaillierKeeps ==
  ASSUME P!SetUp, arg \in PaillierInstances, setup # P!NoScheme, UNCHANGED <<arg, setup>>,
         P!TypeOK', answer'.err # "ABORT", P!DecryptCorrect',
         NEW h \in [1..count' -> arg.secrets], P!Genuine(h)'
  PROVE  P!IInv'
<1>1. P!SetUp'
  BY SamePaillier
<1>2. h \in [1..count -> arg.secrets]'
  OBVIOUS
<1> QED BY <1>1, <1>2 DEF P!IInv, P!NeverAborts

\* The invariant holds before the set-up.
LEMMA PaillierInit == P!Init => P!IInv
<1> SUFFICES ASSUME P!Init PROVE P!IInv
  OBVIOUS
<1>1. P!TypeOK
  BY InstanceAssumption DEF P!Init, P!TypeOK, P!NoScheme, P!Nothing, P!NotADecryption, P!Done
<1>2. P!DecryptCorrect /\ P!NeverAborts
  BY DEF P!Init, P!DecryptCorrect, P!NeverAborts, P!NotADecryption, P!Done
<1> QED BY <1>1, <1>2 DEF P!Init, P!IInv, P!SetUp

\* The set-up.
LEMMA PaillierSetup ==
  ASSUME P!IInv, NEW p \in arg.primes \cup {P!NoPrimes}, NEW g \in arg.generators, NEW b \in arg.bounds,
         P!Setup(p, g, b)
  PROVE  P!IInv'
<1>0. PICK r : r = P!New(arg.l, p, g, b)
  OBVIOUS
<1>1. /\ setup = P!NoScheme /\ UNCHANGED <<arg, master, count, public, ct, key>>
      /\ setup' = (IF r.err = "NONE" THEN r.res ELSE P!NoScheme) /\ answer' = P!NotADecryption(r)
  BY <1>0 DEF P!Setup
<1>2. /\ count = 0 /\ master = P!Nothing /\ public = P!Nothing /\ ct = P!Nothing /\ key = P!Nothing
      /\ arg \in PaillierInstances /\ MaxEpoch \in Nat
  BY <1>1, PaillierParts DEF P!SetUp
<1>3. /\ r.err \in {"NONE", "PRECONDITION_FAILED", "PARAM_GEN_FAILED"}
      /\ r.err = "NONE" => r = P!Done(r.res) /\ p # P!NoPrimes
  BY <1>0 DEF P!New, P!Done, P!Failed
<1>4. P!TypeOK'
  BY <1>1, <1>2, <1>3 DEF P!TypeOK, P!Nothing, P!NotADecryption
<1>5. P!DecryptCorrect' /\ P!NeverAborts'
  BY <1>1, <1>3 DEF P!DecryptCorrect, P!NeverAborts, P!NotADecryption
<1>6. P!SetUp'
  <2>1. CASE setup' = P!NoScheme
    BY <1>1, <1>2, <2>1 DEF P!SetUp, P!NoScheme, P!Nothing
  <2>2. CASE setup' # P!NoScheme
    <3>1. P!New(arg.l, p, g, b) = P!Done(setup')
      BY <1>0, <1>1, <1>3, <2>2
    <3>2. p \in arg.primes
      BY <1>1, <1>3, <2>2
    <3> QED BY <1>1, <2>2, <3>1, <3>2, ZenonT(60) DEF P!SetUp, P!NoScheme, P!New, P!Done
  <2> QED BY <2>1, <2>2
<1>7. \E h \in [1..count -> arg.secrets]' : P!Genuine(h)'
  <2>1. PICK h : h = [i \in 1..0 |-> 0]
    OBVIOUS
  <2>2. h \in [1..count -> arg.secrets]'
    BY <1>1, <1>2, <2>1
  <2>3. P!Genuine(h)'
    BY <1>1, <1>2 DEF P!Genuine, P!Nothing
  <2> QED BY <2>2, <2>3
<1> QED BY <1>1, <1>2, <1>4, <1>5, <1>6, <1>7 DEF P!IInv

\* Vectors of another size are refused.
LEMMA PaillierRefuse ==
  ASSUME P!IInv, NEW size, P!RefuseMasterKeys(size)
  PROVE  P!IInv'
<1>1. /\ setup # P!NoScheme /\ answer' = P!NotADecryption(P!Failed("MALFORMED_INPUT"))
      /\ UNCHANGED <<arg, setup, master, count, public, ct, key>>
  BY DEF P!RefuseMasterKeys
<1>2. /\ P!TypeOK /\ P!SetUp /\ arg \in PaillierInstances
  BY PaillierParts
<1>3. PICK h \in [1..count -> arg.secrets] : P!Genuine(h)
  BY <1>1 DEF P!IInv
<1>4. answer'.err = "MALFORMED_INPUT" /\ answer'.same = FALSE
  BY <1>1 DEF P!NotADecryption, P!Failed
<1>5. P!TypeOK'
  BY <1>1, <1>2, <1>4 DEF P!TypeOK, P!Residues, P!Nothing
<1>6. P!DecryptCorrect'
  BY <1>4 DEF P!DecryptCorrect
<1>7. P!Genuine(h)'
  BY <1>1, <1>3, SamePaillier DEF P!Genuine, P!Nothing
<1> QED BY <1>1, <1>2, <1>3, <1>4, <1>5, <1>6, <1>7, PaillierKeeps

\* A new master key.
LEMMA PaillierGenerate ==
  ASSUME P!IInv, NEW m \in arg.secrets, P!GenerateMasterKeys(m)
  PROVE  P!IInv'
<1>1. /\ setup # P!NoScheme /\ count < MaxEpoch /\ count' = count + 1
      /\ answer' = P!NotADecryption(IF \E i \in DOMAIN P!PublicKey(m) : P!PublicKey(m)[i].err # "NONE"
                                    THEN P!Failed("ABORT") ELSE P!Done(0))
      /\ master' = [epoch |-> count + 1, msk |-> m,
                    mpk |-> [i \in DOMAIN P!PublicKey(m) |-> P!PublicKey(m)[i].res]]
      /\ UNCHANGED <<arg, setup, public, ct, key>>
  BY DEF P!GenerateMasterKeys
<1>2. /\ P!TypeOK /\ P!SetUp /\ arg \in PaillierInstances /\ count \in Nat /\ MaxEpoch \in Nat
      /\ public.epoch \in 0..count
  BY PaillierParts
<1>3. PICK h \in [1..count -> arg.secrets] : P!Genuine(h)
  BY <1>1 DEF P!IInv
<1>4. /\ DOMAIN P!PublicKey(m) = DOMAIN m /\ DOMAIN P!Numbers(m) = DOMAIN m
      /\ \A i \in DOMAIN m : P!PublicKey(m)[i].err = "NONE" /\ P!Numbers(m)[i] \in P!Residues(setup.n2)
  BY <1>1, <1>2, PaillierPublic
<1>5. master'.msk = m /\ master'.mpk = P!Numbers(m)
  BY <1>1, <1>4 DEF P!Numbers
<1>6. answer' = P!NotADecryption(P!Done(0))
  BY <1>1, <1>4
<1>7. P!TypeOK'
  <2>1. count' \in 0..MaxEpoch /\ public'.epoch \in 0..count'
    BY <1>1, <1>2
  <2>2. \A i \in DOMAIN master'.mpk : master'.mpk[i] \in P!Residues(setup.n2)
    BY <1>4, <1>5
  <2>3. ct # P!Nothing => \A i \in 0..setup.l : ct.c[i] \in P!Residues(setup.n2)
    BY <1>2 DEF P!TypeOK
  <2>4. answer'.err = "NONE"
    BY <1>6 DEF P!NotADecryption, P!Done
  <2> QED BY <1>1, <2>1, <2>2, <2>3, <2>4 DEF P!TypeOK, P!Residues, P!Nothing
<1>8. P!DecryptCorrect' /\ answer'.err # "ABORT"
  BY <1>6 DEF P!DecryptCorrect, P!NotADecryption, P!Done
<1>9. PICK k : k = [i \in 1..(count + 1) |-> IF i = count + 1 THEN m ELSE h[i]]
  OBVIOUS
<1>10. /\ k \in [1..(count + 1) -> arg.secrets] /\ k[count + 1] = m
       /\ \A i \in 1..count : i \in 1..(count + 1) /\ k[i] = h[i]
  BY <1>2, <1>9
<1>11. P!Genuine(k)'
  <2>1. public # P!Nothing => public.epoch \in 1..(count + 1) /\ public.mpk = P!Numbers(k[public.epoch])
    BY <1>3, <1>10 DEF P!Genuine
  <2>2. ASSUME ct # P!Nothing
        PROVE  /\ ct.epoch \in 1..(count + 1) /\ ct.x \in arg.xs
               /\ \E r \in arg.nonces : ct.c = P!Ciphertext(ct.x, P!Numbers(k[ct.epoch]), r)
    BY <1>3, <1>10, <2>2 DEF P!Genuine
  <2>3. ASSUME key # P!Nothing
        PROVE  key.epoch \in 1..(count + 1) /\ key.y \in arg.ys /\ key.key = P!Dot(k[key.epoch], key.y)
    BY <1>3, <1>10, <2>3 DEF P!Genuine
  <2>4. \A e \in 1..(count + 1) : P!Numbers(k[e])' = P!Numbers(k[e])
    BY <1>1, SamePaillier
  <2>5. \A x, n, r : P!Ciphertext(x, n, r)' = P!Ciphertext(x, n, r)
    BY <1>1, SamePaillier
  <2> QED BY <1>1, <1>5, <1>10, <2>1, <2>2, <2>3, <2>4, <2>5, SamePaillier DEF P!Genuine, P!Nothing
<1> QED BY <1>1, <1>2, <1>7, <1>8, <1>10, <1>11, PaillierKeeps

\* The encryptor receives the public key.
LEMMA PaillierPublish ==
  ASSUME P!IInv, P!Publish
  PROVE  P!IInv'
<1>1. /\ public.epoch # count /\ public' = [epoch |-> count, mpk |-> master.mpk]
      /\ UNCHANGED <<arg, setup, master, count, ct, key, answer>>
  BY DEF P!Publish
<1>2. /\ P!TypeOK /\ P!NeverAborts /\ P!DecryptCorrect /\ P!SetUp /\ arg \in PaillierInstances
      /\ count \in Nat /\ MaxEpoch \in Nat /\ public.epoch \in 0..count
  BY PaillierParts
<1>3. count > 0 /\ setup # P!NoScheme
  BY <1>1, <1>2 DEF P!SetUp
<1>4. PICK h \in [1..count -> arg.secrets] : P!Genuine(h)
  BY <1>3 DEF P!IInv
<1>5. P!TypeOK'
  BY <1>1, <1>2 DEF P!TypeOK, P!Residues, P!Nothing
<1>6. P!DecryptCorrect' /\ answer'.err # "ABORT"
  BY <1>1, <1>2 DEF P!DecryptCorrect, P!NeverAborts
<1>7. P!Genuine(h)'
  <2>1. public'.epoch = count /\ public'.mpk = P!Numbers(h[count]) /\ count \in 1..count
    BY <1>1, <1>2, <1>3, <1>4 DEF P!Genuine
  <2> QED BY <1>1, <1>4, <2>1, SamePaillier DEF P!Genuine, P!Nothing
<1> QED BY <1>1, <1>2, <1>3, <1>5, <1>6, <1>7, PaillierKeeps

\* A functional key is issued.
LEMMA PaillierDerive ==
  ASSUME P!IInv, NEW y \in arg.ys, P!DeriveFeKey(y)
  PROVE  P!IInv'
<1>1. /\ count > 0 /\ UNCHANGED <<arg, setup, master, count, public, ct>>
      /\ \/ /\ key' = [epoch |-> count, y |-> y, key |-> P!Dot(master.msk, y)]
            /\ answer' = P!NotADecryption(P!Done(0))
         \/ key' = key /\ answer' = P!NotADecryption(P!Failed("BOUND_CHECK_FAILED"))
  BY DEF P!DeriveFeKey
<1>2. /\ P!TypeOK /\ P!SetUp /\ arg \in PaillierInstances
      /\ count \in Nat /\ MaxEpoch \in Nat /\ public.epoch \in 0..count
  BY PaillierParts
<1>3. setup # P!NoScheme
  BY <1>1, <1>2 DEF P!SetUp
<1>4. PICK h \in [1..count -> arg.secrets] : P!Genuine(h)
  BY <1>3 DEF P!IInv
<1>5. answer'.err \in {"NONE", "BOUND_CHECK_FAILED"} /\ answer'.same = FALSE
  BY <1>1 DEF P!NotADecryption, P!Done, P!Failed
<1>6. P!TypeOK'
  BY <1>1, <1>2, <1>5 DEF P!TypeOK, P!Residues, P!Nothing
<1>7. P!DecryptCorrect'
  BY <1>5 DEF P!DecryptCorrect
<1>8. P!Genuine(h)'
  <2>1. ASSUME key' # P!Nothing
        PROVE  key'.epoch \in 1..count /\ key'.y \in arg.ys /\ key'.key = P!Dot(h[key'.epoch], key'.y)
    <3>1. CASE key' = key
      BY <1>4, <2>1, <3>1 DEF P!Genuine
    <3>2. CASE key' = [epoch |-> count, y |-> y, key |-> P!Dot(master.msk, y)]
      <4>1. count \in 1..count /\ h[count] = master.msk
        BY <1>1, <1>2, <1>4 DEF P!Genuine
      <4> QED BY <3>2, <4>1
    <3> QED BY <1>1, <3>1, <3>2
  <2> QED BY <1>1, <1>4, <2>1, SamePaillier DEF P!Genuine, P!Nothing
<1> QED BY <1>1, <1>2, <1>3, <1>5, <1>6, <1>7, <1>8, PaillierKeeps

\* A ciphertext is published.
LEMMA PaillierEncrypt ==
  ASSUME P!IInv, NEW x \in arg.xs, NEW r \in arg.nonces, P!Encrypt(x, r)
  PROVE  P!IInv'
<1>1. /\ public # P!Nothing /\ UNCHANGED <<arg, setup, master, count, public, key>>
      /\ \/ /\ ct' = [epoch |-> public.epoch, x |-> x, c |-> P!Ciphertext(x, public.mpk, r)]
            /\ answer' = P!NotADecryption(P!Done(0))
         \/ ct' = ct /\ answer' = P!NotADecryption(P!Failed("BOUND_CHECK_FAILED"))
  BY DEF P!Encrypt
<1>2. /\ P!TypeOK /\ P!SetUp /\ arg \in PaillierInstances
      /\ count \in Nat /\ MaxEpoch \in Nat /\ public.epoch \in 0..count
  BY PaillierParts
<1>3. setup # P!NoScheme
  BY <1>1, <1>2 DEF P!SetUp
<1>4. PICK h \in [1..count -> arg.secrets] : P!Genuine(h)
  BY <1>3 DEF P!IInv
<1>5. answer'.err \in {"NONE", "BOUND_CHECK_FAILED"} /\ answer'.same = FALSE
  BY <1>1 DEF P!NotADecryption, P!Done, P!Failed
<1>6. public.epoch \in 1..count /\ public.mpk = P!Numbers(h[public.epoch])
      /\ h[public.epoch] \in arg.secrets
  BY <1>1, <1>4 DEF P!Genuine
<1>7. P!TypeOK'
  <2>1. ASSUME ct' # P!Nothing, NEW i \in 0..setup.l PROVE ct'.c[i] \in P!Residues(setup.n2)
    <3>1. CASE ct' = ct
      BY <1>2, <2>1, <3>1 DEF P!TypeOK
    <3>2. CASE ct' = [epoch |-> public.epoch, x |-> x, c |-> P!Ciphertext(x, public.mpk, r)]
      <4>1. PICK u : IsPaillier(u)
        BY <1>2, <1>3, SetUpPaillier
      <4>2. PICK m \in arg.secrets : public.mpk = P!Numbers(m)
        BY <1>6
      <4>3. IsCiphertextOf(P!Ciphertext(x, P!Numbers(m), r), x, r, m, u)
        BY <1>2, <1>3, <4>1, PaillierCiphertext
      <4>4. P!Ciphertext(x, P!Numbers(m), r)[i] \in P!Residues(setup.n2)
        BY <4>1, <4>3, CiphertextResidues
      <4> QED BY <3>2, <4>2, <4>4
    <3> QED BY <1>1, <3>1, <3>2
  <2> QED BY <1>1, <1>2, <1>5, <2>1 DEF P!TypeOK, P!Residues, P!Nothing
<1>8. P!DecryptCorrect'
  BY <1>5 DEF P!DecryptCorrect
<1>9. P!Genuine(h)'
  <2>1. ASSUME ct' # P!Nothing
        PROVE  /\ ct'.epoch \in 1..count /\ ct'.x \in arg.xs
               /\ \E n \in arg.nonces : ct'.c = P!Ciphertext(ct'.x, P!Numbers(h[ct'.epoch]), n)
    <3>1. CASE ct' = ct
      BY <1>4, <2>1, <3>1 DEF P!Genuine
    <3>2. CASE ct' = [epoch |-> public.epoch, x |-> x, c |-> P!Ciphertext(x, public.mpk, r)]
      BY <1>6, <3>2
    <3> QED BY <1>1, <3>1, <3>2
  <2> QED BY <1>1, <1>4, <2>1, SamePaillier DEF P!Genuine, P!Nothing
<1> QED BY <1>1, <1>2, <1>3, <1>5, <1>7, <1>8, <1>9, PaillierKeeps

\* A decryption, with any vector.
LEMMA PaillierDecrypt ==
  ASSUME P!IInv, NEW y \in arg.ys, P!Decrypt(y)
  PROVE  P!IInv'
<1>0. PICK r : r = P!Plaintext(ct.c, key.key, y)
  OBVIOUS
<1>1. /\ ct # P!Nothing /\ key # P!Nothing /\ UNCHANGED <<arg, setup, master, count, public, ct, key>>
      /\ answer' = IF r.err = "NONE" /\ ct.epoch = key.epoch /\ key.y = y
                   THEN [same |-> TRUE, err |-> r.err, res |-> r.res, x |-> ct.x, y |-> y]
                   ELSE P!NotADecryption(r)
  BY <1>0 DEF P!Decrypt
<1>2. /\ P!TypeOK /\ P!SetUp /\ arg \in PaillierInstances
      /\ count \in Nat /\ MaxEpoch \in Nat /\ public.epoch \in 0..count
  BY PaillierParts
<1>3. setup # P!NoScheme
  BY <1>1, <1>2 DEF P!SetUp
<1>4. PICK h \in [1..count -> arg.secrets] : P!Genuine(h)
  BY <1>3 DEF P!IInv
<1>5. PICK n \in arg.nonces, m, k \in arg.secrets :
        /\ ct.c = P!Ciphertext(ct.x, P!Numbers(m), n) /\ ct.x \in arg.xs
        /\ m = h[ct.epoch] /\ k = h[key.epoch] /\ key.key = P!Dot(k, key.y) /\ key.y \in arg.ys
  <2>1. /\ ct.epoch \in 1..count /\ ct.x \in arg.xs
        /\ \E n \in arg.nonces : ct.c = P!Ciphertext(ct.x, P!Numbers(h[ct.epoch]), n)
    BY <1>1, <1>4 DEF P!Genuine
  <2>2. key.epoch \in 1..count /\ key.y \in arg.ys /\ key.key = P!Dot(h[key.epoch], key.y)
    BY <1>1, <1>4 DEF P!Genuine
  <2> QED BY <2>1, <2>2
<1>6. key.key = Dot(k, key.y) /\ key.key \in Int
  <2>1. PICK D : D = 0..(setup.l - 1) /\ k \in [D -> Int] /\ key.y \in [D -> Int]
    BY <1>2, <1>3, <1>5, PaillierInputs
  <2>2. IsFiniteSet(D)
    <3>1. setup.l \in Nat
      BY <1>2, <1>3, PaillierInputs
    <3> QED BY <2>1, <3>1, FS_Interval
  <2>3. Dot(k, key.y) \in Int
    BY <2>1, <2>2, DotIsInt
  <2> QED BY <1>5, <2>3, SameDot
<1>7. PlaintextIs(r, key.key, m, ct.x, y)
  <2>1. PICK x, c, f : x = ct.x /\ c = ct.c /\ f = key.key
    OBVIOUS
  <2>2. PlaintextIs(P!Plaintext(c, f, y), f, m, x, y)
    BY <1>2, <1>3, <1>5, <1>6, <2>1, PaillierPlaintext
  <2> QED BY <1>0, <2>1, <2>2
<1>8. answer'.err = r.err /\ r.err \in {"NONE", "BOUND_CHECK_FAILED"}
  BY <1>1, <1>7 DEF PlaintextIs, P!NotADecryption
<1>9. P!TypeOK'
  BY <1>1, <1>2, <1>8 DEF P!TypeOK, P!Residues, P!Nothing
<1>10. P!DecryptCorrect'
  <2>1. CASE r.err = "NONE" /\ ct.epoch = key.epoch /\ key.y = y
    <3>1. /\ answer' = [same |-> TRUE, err |-> r.err, res |-> r.res, x |-> ct.x, y |-> y]
          /\ key.key = Dot(m, y)
      BY <1>1, <1>5, <1>6, <2>1
    <3>2. 2 * Dot(ct.x, y) \in (1 - setup.n)..(setup.n - 1) => r.res = Dot(ct.x, y)
      BY <1>7, <2>1, <3>1 DEF PlaintextIs
    <3>3. P!Dot(answer'.x, answer'.y) = Dot(ct.x, y) /\ answer'.res = r.res
      BY <3>1, SameDot
    <3> QED BY <1>1, <3>2, <3>3 DEF P!DecryptCorrect
  <2>2. CASE ~(r.err = "NONE" /\ ct.epoch = key.epoch /\ key.y = y)
    BY <1>1, <2>2 DEF P!DecryptCorrect, P!NotADecryption
  <2> QED BY <2>1, <2>2
<1>11. P!Genuine(h)'
  BY <1>1, <1>4, SamePaillier DEF P!Genuine, P!Nothing
<1> QED BY <1>1, <1>2, <1>3, <1>8, <1>9, <1>10, <1>11, PaillierKeeps

\* The other machines run.
LEMMA PaillierWaits ==
  ASSUME P!IInv, UNCHANGED <<arg, setup, master, count, public, ct, key, answer>>
  PROVE  P!IInv'
<1>1. /\ P!TypeOK /\ P!NeverAborts /\ P!DecryptCorrect /\ P!SetUp /\ arg \in PaillierInstances
  BY PaillierParts
<1>2. P!TypeOK' /\ P!NeverAborts' /\ P!DecryptCorrect'
  BY <1>1 DEF P!TypeOK, P!NeverAborts, P!DecryptCorrect, P!Residues, P!Nothing
<1>3. CASE setup = P!NoScheme
  <2>1. P!SetUp' /\ setup' = P!NoScheme'
    BY <1>1, <1>3 DEF P!SetUp, P!NoScheme, P!Nothing
  <2> QED BY <1>1, <1>2, <2>1 DEF P!IInv
<1>4. CASE setup # P!NoScheme
  <2>1. PICK h \in [1..count -> arg.secrets] : P!Genuine(h)
    BY <1>4 DEF P!IInv
  <2>2. P!Genuine(h)'
    BY <2>1, SamePaillier DEF P!Genuine, P!Nothing
  <2>3. h \in [1..count' -> arg.secrets] /\ answer'.err # "ABORT"
    BY <1>1, <2>1 DEF P!NeverAborts
  <2> QED BY <1>1, <1>2, <1>4, <2>2, <2>3, PaillierKeeps
<1> QED BY <1>3, <1>4

-----------------------------------------------------------------------------
(* The operations on vectors and matrices that the schemes from lattices use *)

\* The module Lattice computes inner products and lengths as the others do.
LEMMA SameLattice ==
  /\ \A x, y : L!Dot(x, y) = Dot(x, y)
  /\ \A x : L!Length(x) = Cardinality(DOMAIN x)
  /\ \A y : L!AbsSum(y) = MagnitudeSum(y)
<1>1. \A f : L!SumFunction(f) = SumFunction(f)
  BY DEF L!SumFunction, SumFunction, L!SumFunctionOnSet, SumFunctionOnSet,
     L!FoldFunctionOnSet, FoldFunctionOnSet, L!MapThenFoldSet, MapThenFoldSet
<1>2. \A x, y : L!Dot(x, y) = Dot(x, y)
  BY <1>1 DEF L!Dot, Dot
<1>3. \A x : L!Length(x) = Cardinality(DOMAIN x)
  BY DEF L!Length, L!Cardinality, Cardinality, L!IsFiniteSet, IsFiniteSet
<1>4. \A y : L!AbsSum(y) = MagnitudeSum(y)
  BY <1>1 DEF L!AbsSum, MagnitudeSum, Magnitude
<1> QED BY <1>2, <1>3, <1>4

\* The numbers of rows and of columns.
LEMMA LengthIs ==
  ASSUME NEW n \in Nat, NEW x, DOMAIN x = 0..(n - 1) PROVE L!Length(x) = n
<1>1. Cardinality(0..(n - 1)) = n
  <2>1. n - 1 \in Int /\ 0 \in Int
    OBVIOUS
  <2>2. Cardinality(0..(n - 1)) = IF 0 > n - 1 THEN 0 ELSE (n - 1) - 0 + 1
    BY <2>1, FS_Interval
  <2> QED BY <2>2
<1> QED BY <1>1, SameLattice

\* A matrix of integers of m rows and n columns.
IsMatrix(A, m, n, M, N) ==
  /\ A \in [M -> [N -> Int]] /\ DOMAIN A = M /\ DOMAIN A[0] = N
  /\ L!Rows(A) = m /\ L!Cols(A) = n

\* What a matrix of the model is.
LEMMA MatrixShape ==
  ASSUME NEW m \in Nat, m # 0, NEW n \in Nat, NEW A, A \in L!IntMat(m, n)
  PROVE  IsMatrix(A, m, n, 0..(m - 1), 0..(n - 1))
<1>1. A \in [0..(m - 1) -> [0..(n - 1) -> Int]]
  BY DEF L!IntMat, L!IntVec
<1>2. 0 \in 0..(m - 1)
  OBVIOUS
<1>3. DOMAIN A = 0..(m - 1) /\ DOMAIN A[0] = 0..(n - 1)
  BY <1>1, <1>2
<1>4. L!Length(A) = m /\ L!Length(A[0]) = n
  BY <1>3, LengthIs
<1> QED BY <1>1, <1>3, <1>4 DEF IsMatrix, L!Rows, L!Cols

\* Transposed matrices.
LEMMA TransposeIs ==
  ASSUME NEW A, NEW R, NEW C, DOMAIN A = R, DOMAIN A[0] = C
  PROVE  L!Transpose(A) = Flip(A, R, C) /\ DOMAIN Flip(A, R, C) = C
BY DEF L!Transpose, L!Col, Flip

\* Products of a matrix with a vector, on both sides.
LEMMA MatrixProducts ==
  ASSUME NEW A, NEW R, NEW C, DOMAIN A = R, DOMAIN A[0] = C, NEW v
  PROVE  /\ L!MulVec(A, v) = Times(A, v, R)
         /\ L!MulMatrix(v, A) = Times(Flip(A, R, C), v, C)
<1>1. L!MulVec(A, v) = Times(A, v, R)
  BY SameLattice DEF L!MulVec, Times
<1>3. L!MulMatrix(v, A) = [k \in C |-> Dot([i \in R |-> A[i][k]], v)]
  BY SameLattice DEF L!MulMatrix, L!Col
<1>4. \A k \in C : Flip(A, R, C)[k] = [i \in R |-> A[i][k]]
  BY DEF Flip
<1>5. Times(Flip(A, R, C), v, C) = [k \in C |-> Dot([i \in R |-> A[i][k]], v)]
  BY <1>4 DEF Times
<1> QED BY <1>1, <1>3, <1>5

\* Products of matrices.
LEMMA MatrixTimesMatrix ==
  ASSUME NEW M, NEW N, NEW D, IsFiniteSet(M), IsFiniteSet(N), IsFiniteSet(D), 0 \in N,
         NEW A \in [M -> [N -> Int]], NEW S \in [N -> [D -> Int]], NEW B, B = L!MatMul(A, S)
  PROVE  IsMatProduct(B, A, S, M, N, D)
<1>1. DOMAIN A = M /\ DOMAIN S = N /\ DOMAIN S[0] = D
  OBVIOUS
<1>2. \A i \in M : L!MulMatrix(A[i], S) = Times(Flip(S, N, D), A[i], D)
  BY <1>1, MatrixProducts
<1>3. B = [i \in M |-> Times(Flip(S, N, D), A[i], D)]
  BY <1>1, <1>2 DEF L!MatMul
<1> QED BY <1>3, MatProductType

\* The remainders of a vector.
LEMMA RemaindersOf ==
  ASSUME NEW q \in Nat, q # 0, NEW D, NEW u \in [D -> Int], NEW w, w = L!VecMod(u, q)
  PROVE  w \in [D -> 0..(q - 1)] /\ w \in [D -> Int] /\ \A k \in D : Congruent(w[k], u[k], q)
<1>1. w = [k \in D |-> u[k] % q]
  BY DEF L!VecMod
<1>2. ASSUME NEW k \in D
      PROVE  u[k] % q \in 0..(q - 1) /\ u[k] % q \in Int /\ Congruent(u[k] % q, u[k], q)
  <2>1. PICK a \in Int : a = u[k]
    OBVIOUS
  <2> QED BY <2>1, CongruentMod
<1> QED BY <1>1, <1>2

\* The remainders of a sum.
LEMMA RemaindersOfSum ==
  ASSUME NEW q \in Nat, q # 0, NEW D, NEW u \in [D -> Int], NEW v \in [D -> Int],
         NEW w, w = L!VecMod(L!VecAdd(u, v), q)
  PROVE  w \in [D -> 0..(q - 1)] /\ w \in [D -> Int] /\ IsSumOf(w, u, v, q, D)
<1>1. PICK t : t = [k \in D |-> u[k] + v[k]]
  OBVIOUS
<1>2. L!VecAdd(u, v) = t
  BY <1>1 DEF L!VecAdd
<1>3. t \in [D -> Int] /\ \A k \in D : t[k] = u[k] + v[k]
  BY <1>1
<1>4. w \in [D -> 0..(q - 1)] /\ w \in [D -> Int] /\ \A k \in D : Congruent(w[k], t[k], q)
  BY <1>2, <1>3, RemaindersOf
<1> QED BY <1>3, <1>4 DEF IsSumOf

\* The remainders of a matrix.
LEMMA RemaindersOfMatrix ==
  ASSUME NEW q \in Nat, q # 0, NEW M, NEW D, NEW B \in [M -> [D -> Int]], NEW K, K = L!MatMod(B, q)
  PROVE  /\ K \in [M -> [D -> 0..(q - 1)]] /\ K \in [M -> [D -> Int]]
         /\ \A i \in M : \A j \in D : Congruent(K[i][j], B[i][j], q)
<1>1. K = [i \in M |-> L!VecMod(B[i], q)]
  BY DEF L!MatMod
<1>2. ASSUME NEW i \in M
      PROVE  /\ L!VecMod(B[i], q) \in [D -> 0..(q - 1)] /\ L!VecMod(B[i], q) \in [D -> Int]
             /\ \A j \in D : Congruent(L!VecMod(B[i], q)[j], B[i][j], q)
  <2>1. B[i] \in [D -> Int]
    OBVIOUS
  <2> QED BY <2>1, RemaindersOf
<1> QED BY <1>1, <1>2

AreSummed(K, B, E, q, M, D) ==
  /\ q \in Nat /\ q # 0 /\ B \in [M -> [D -> Int]] /\ E \in [M -> [D -> Int]]
  /\ K = L!MatMod(L!MatAdd(L!MatMod(B, q), E), q)
IsResidueSum(K, B, E, q, M, D) ==
  K \in [M -> [D -> 0..(q - 1)]] /\ K \in [M -> [D -> Int]] /\ IsMatSum(K, B, E, q, M, D)

\* The remainders of a sum of two matrices, of which the first has been reduced before.
LEMMA RemaindersOfMatrices ==
  ASSUME NEW q, NEW M, NEW D, NEW B, NEW E, NEW K, AreSummed(K, B, E, q, M, D)
  PROVE  IsResidueSum(K, B, E, q, M, D)
<1>0. /\ q \in Nat /\ q # 0 /\ B \in [M -> [D -> Int]] /\ E \in [M -> [D -> Int]]
      /\ K = L!MatMod(L!MatAdd(L!MatMod(B, q), E), q)
  BY DEF AreSummed
<1>1. PICK V : V = L!MatMod(B, q)
  OBVIOUS
<1>2. V \in [M -> [D -> Int]] /\ \A i \in M : \A j \in D : Congruent(V[i][j], B[i][j], q)
  BY <1>0, <1>1, RemaindersOfMatrix
<1>3. PICK W : W = [i \in M |-> [j \in D |-> V[i][j] + E[i][j]]]
  OBVIOUS
<1>4. L!MatAdd(V, E) = W
  BY <1>0, <1>2, <1>3 DEF L!MatAdd, L!VecAdd
<1>5. W \in [M -> [D -> Int]] /\ \A i \in M : \A j \in D : W[i][j] = V[i][j] + E[i][j]
  BY <1>0, <1>2, <1>3
<1>6. /\ K \in [M -> [D -> 0..(q - 1)]] /\ K \in [M -> [D -> Int]]
      /\ \A i \in M : \A j \in D : Congruent(K[i][j], W[i][j], q)
  <2>1. K = L!MatMod(W, q) /\ W \in [M -> [D -> Int]]
    BY <1>0, <1>1, <1>4, <1>5
  <2> QED BY <1>0, <2>1, RemaindersOfMatrix
<1>7. ASSUME NEW i \in M, NEW j \in D PROVE Congruent(K[i][j], B[i][j] + E[i][j], q)
  <2>1. PICK k, v, p, e \in Int : k = K[i][j] /\ v = V[i][j] /\ p = B[i][j] /\ e = E[i][j]
    BY <1>0, <1>2, <1>6
  <2>2. Congruent(k, v + e, q) /\ Congruent(v, p, q)
    BY <1>2, <1>5, <1>6, <2>1
  <2>3. Congruent(k, p + e, q)
    BY <1>0, <2>2, CongruentSum
  <2> QED BY <2>1, <2>3
<1> QED BY <1>6, <1>7 DEF IsMatSum, IsResidueSum

\* The two parts of a ciphertext.
IsJoin(c, v, w, n, l) ==
  L!VecExtract(c, 0, n) = v /\ L!VecExtract(c, n, l) = w /\ L!Length(c) = n + l

\* A ciphertext is cut where it has been joined.
LEMMA PartsOfJoin ==
  ASSUME NEW n \in Nat, n # 0, NEW l \in Nat, l # 0, NEW v \in [0..(n - 1) -> Int],
         NEW w \in [0..(l - 1) -> Int]
  PROVE  IsJoin(L!VecJoin(v, w), v, w, n, l)
<1> DEFINE c == L!VecJoin(v, w)
<1>1. L!Length(v) = n /\ L!Length(w) = l
  BY LengthIs
<1>2. c = [i \in 0..(n + l - 1) |-> IF i < n THEN v[i] ELSE w[i - n]]
  BY <1>1 DEF L!VecJoin
<1>3. \A i \in 0..(n - 1) : i \in 0..(n + l - 1) /\ i < n /\ 0 + i = i
  OBVIOUS
<1>4. \A i \in 0..(l - 1) : n + i \in 0..(n + l - 1) /\ ~(n + i < n) /\ (n + i) - n = i
  OBVIOUS
<1>5. [i \in 0..(n - 1) |-> c[0 + i]] = v
  BY <1>2, <1>3
<1>6. [i \in 0..(l - 1) |-> c[n + i]] = w
  BY <1>2, <1>4
<1>7. L!Length(c) = n + l
  <2>1. DOMAIN c = 0..((n + l) - 1) /\ n + l \in Nat
    BY <1>2
  <2> QED BY <2>1, LengthIs
<1> QED BY <1>5, <1>6, <1>7 DEF L!VecExtract, IsJoin

-----------------------------------------------------------------------------
(* The LWE scheme *)

\* A scheme that has been set up, with the dimensions of its numbers.
HasDimensions(t) == t.l \in Nat /\ t.l # 0 /\ t.n \in Nat /\ t.n # 0 /\ t.m \in Nat /\ t.m # 0
IsLweScheme(t) ==
  /\ HasDimensions(t)
  /\ t.p \in Nat /\ t.p # 0 /\ t.q \in Nat /\ t.q # 0 /\ t.A \in L!IntMat(t.m, t.n)

\* What the intervals of the indices are.
AreIndices(M, N, D, t) ==
  /\ M = 0..(t.m - 1) /\ N = 0..(t.n - 1) /\ D = 0..(t.l - 1)
  /\ IsFiniteSet(M) /\ IsFiniteSet(N) /\ IsFiniteSet(D) /\ 0 \in M /\ 0 \in N /\ 0 \in D

\* An interval of indices is finite.
LEMMA IndicesFinite == ASSUME NEW n \in Nat PROVE IsFiniteSet(0..(n - 1))
<1>1. n - 1 \in Int /\ 0 \in Int
  OBVIOUS
<1> QED BY <1>1, FS_Interval

\* The intervals of a scheme that has been set up.
LEMMA IndicesExist ==
  ASSUME NEW t, HasDimensions(t) PROVE \E M, N, D : AreIndices(M, N, D, t)
<1>0. t.l \in Nat /\ t.l # 0 /\ t.n \in Nat /\ t.n # 0 /\ t.m \in Nat /\ t.m # 0
  BY DEF HasDimensions
<1>1. IsFiniteSet(0..(t.m - 1)) /\ IsFiniteSet(0..(t.n - 1)) /\ IsFiniteSet(0..(t.l - 1))
  BY <1>0, IndicesFinite
<1>2. 0 \in 0..(t.m - 1) /\ 0 \in 0..(t.n - 1) /\ 0 \in 0..(t.l - 1)
  BY <1>0
<1> QED BY <1>1, <1>2 DEF AreIndices

\* The shapes of the matrices between them.
LEMMA ShapesOf ==
  ASSUME NEW t, NEW M, NEW N, NEW D, AreIndices(M, N, D, t), HasDimensions(t), NEW A
  PROVE  /\ A \in L!IntMat(t.m, t.n) => IsMatrix(A, t.m, t.n, M, N)
         /\ A \in L!IntMat(t.n, t.l) => IsMatrix(A, t.n, t.l, N, D)
         /\ A \in L!IntMat(t.m, t.l) => IsMatrix(A, t.m, t.l, M, D)
         /\ A \in L!IntMat(t.l, t.m) => IsMatrix(A, t.l, t.m, D, M)
         /\ A \in L!IntMat(t.l, t.n) => IsMatrix(A, t.l, t.n, D, N)
<1>1. PICK l, n, m \in Nat : l = t.l /\ n = t.n /\ m = t.m /\ l # 0 /\ n # 0 /\ m # 0
  BY DEF HasDimensions
<1>2. M = 0..(m - 1) /\ N = 0..(n - 1) /\ D = 0..(l - 1)
  BY <1>1 DEF AreIndices
<1> QED BY <1>1, <1>2, MatrixShape

\* A public key comes from the secret key S and the noise E.
IsLwePublic(r, S, E, t) ==
  /\ r.err = "NONE" /\ r = L!Done(r.res)
  /\ r.res \in [0..(t.m - 1) -> [0..(t.l - 1) -> 0..(t.q - 1)]] /\ r.res \in L!IntMat(t.m, t.l)
  /\ \E B : /\ IsMatProduct(B, t.A, S, 0..(t.m - 1), 0..(t.n - 1), 0..(t.l - 1))
            /\ IsMatSum(r.res, B, E, t.q, 0..(t.m - 1), 0..(t.l - 1))

\* lwe_generate_pub_key: the products with the secret key, and the noise.
LEMMA LwePublicKey ==
  ASSUME NEW t, IsLweScheme(t), NEW S, S \in L!IntMat(t.n, t.l), NEW E, E \in L!IntMat(t.m, t.l)
  PROVE  IsLwePublic(L!LweGeneratePubKey(t, S, E), S, E, t)
<1>1. PICK M, N, D : AreIndices(M, N, D, t)
  BY IndicesExist DEF IsLweScheme
<1>2. /\ S \in [N -> [D -> Int]] /\ L!Rows(S) = t.n /\ L!Cols(S) = t.l
      /\ E \in [M -> [D -> Int]] /\ t.A \in [M -> [N -> Int]]
  BY <1>1, ShapesOf, ZenonT(60) DEF IsLweScheme, IsMatrix
<1>3. PICK B : B = L!MatMul(t.A, S)
  OBVIOUS
<1>4. IsMatProduct(B, t.A, S, M, N, D)
  BY <1>1, <1>2, <1>3, MatrixTimesMatrix DEF AreIndices
<1>5. PICK q \in Nat : q # 0 /\ q = t.q
  BY DEF IsLweScheme
<1>6. PICK K : K = L!MatMod(L!MatAdd(L!MatMod(B, q), E), q)
  OBVIOUS
<1>7. K \in [M -> [D -> 0..(q - 1)]] /\ K \in [M -> [D -> Int]] /\ IsMatSum(K, B, E, q, M, D)
  <2>1. AreSummed(K, B, E, q, M, D)
    BY <1>2, <1>4, <1>5, <1>6 DEF AreSummed, IsMatProduct
  <2> QED BY <2>1, RemaindersOfMatrices DEF IsResidueSum
<1>8. L!LweGeneratePubKey(t, S, E) = L!Done(K)
  BY <1>2, <1>3, <1>5, <1>6 DEF L!LweGeneratePubKey
<1>9. L!Done(K).err = "NONE" /\ L!Done(K).res = K
  BY DEF L!Done
<1>10. M = 0..(t.m - 1) /\ N = 0..(t.n - 1) /\ D = 0..(t.l - 1)
  BY <1>1 DEF AreIndices
<1>11. K \in L!IntMat(t.m, t.l)
  BY <1>7, <1>10 DEF L!IntMat, L!IntVec
<1> QED BY <1>4, <1>5, <1>7, <1>8, <1>9, <1>10, <1>11 DEF IsLwePublic

\* A functional key for y.
IsLweKey(r, S, y, t) ==
  /\ r.err \in {"NONE", "BOUND_CHECK_FAILED"}
  /\ r.err = "NONE" =>
       /\ r = L!Done(r.res) /\ r.res \in [0..(t.n - 1) -> 0..(t.q - 1)] /\ r.res \in L!IntVec(t.n)
       /\ \A i \in 0..(t.n - 1) : Congruent(r.res[i], Dot(S[i], y), t.q)

\* lwe_derive_fe_key: the products of the rows of the secret key with y.
LEMMA LweKey ==
  ASSUME NEW t, IsLweScheme(t), NEW S, S \in L!IntMat(t.n, t.l), NEW y, y \in L!IntVec(t.l)
  PROVE  IsLweKey(L!LweDeriveFeKey(t, S, y), S, y, t)
<1>1. PICK M, N, D : AreIndices(M, N, D, t)
  BY IndicesExist DEF IsLweScheme
<1>2. S \in [N -> [D -> Int]] /\ L!Rows(S) = t.n /\ L!Cols(S) = t.l /\ DOMAIN S = N /\ DOMAIN S[0] = D
  <2>1. IsMatrix(S, t.n, t.l, N, D)
    BY <1>1, ShapesOf DEF IsLweScheme
  <2> QED BY <2>1 DEF IsMatrix
<1>3. PICK q \in Nat : q # 0 /\ q = t.q /\ y \in [D -> Int]
  BY <1>1 DEF L!IntVec, AreIndices, IsLweScheme
<1>4. PICK u : u = L!MulVec(S, y)
  OBVIOUS
<1>5. IsProduct(u, S, y, N)
  <2>1. u = Times(S, y, N) /\ IsFiniteSet(D)
    BY <1>1, <1>2, <1>4, MatrixProducts DEF AreIndices
  <2> QED BY <1>2, <1>3, <2>1, TimesType
<1>6. u \in [N -> Int] /\ \A i \in N : u[i] = Dot(S[i], y)
  BY <1>5 DEF IsProduct
<1>7. PICK k : k = L!VecMod(u, q)
  OBVIOUS
<1>8. k \in [N -> 0..(q - 1)] /\ k \in [N -> Int] /\ \A i \in N : Congruent(k[i], u[i], q)
  BY <1>3, <1>6, <1>7, RemaindersOf
<1>9. L!LweDeriveFeKey(t, S, y) \in {L!Failed("BOUND_CHECK_FAILED"), L!Done(k)}
  BY <1>2, <1>3, <1>4, <1>7 DEF L!LweDeriveFeKey
<1>10. N = 0..(t.n - 1) /\ k \in L!IntVec(t.n)
  BY <1>1, <1>8 DEF AreIndices, L!IntVec
<1>11. IsLweKey(L!Done(k), S, y, t)
  BY <1>3, <1>6, <1>8, <1>10 DEF IsLweKey, L!Done
<1>12. IsLweKey(L!Failed("BOUND_CHECK_FAILED"), S, y, t)
  BY DEF IsLweKey, L!Failed
<1> QED BY <1>9, <1>11, <1>12

\* A summand may be replaced by a congruent one.
LEMMA SummandReplaced ==
  ASSUME NEW q \in Nat, NEW D, NEW w \in [D -> Int], NEW u \in [D -> Int], NEW v \in [D -> Int],
         NEW c \in [D -> Int], IsSumOf(w, u, v, q, D), \A k \in D : Congruent(v[k], c[k], q)
  PROVE  IsSumOf(w, u, c, q, D)
<1>1. ASSUME NEW k \in D PROVE Congruent(w[k], u[k] + c[k], q)
  <2>1. PICK a, b, d, e \in Int : a = w[k] /\ b = u[k] /\ d = v[k] /\ e = c[k]
    OBVIOUS
  <2>2. Congruent(a, d + b, q) /\ Congruent(d, e, q)
    <3>1. Congruent(a, b + d, q) /\ Congruent(d, e, q)
      BY <2>1 DEF IsSumOf
    <3>2. b + d = d + b
      OBVIOUS
    <3> QED BY <3>1, <3>2
  <2>3. Congruent(a, e + b, q)
    BY <2>2, CongruentSum
  <2>4. e + b = b + e
    OBVIOUS
  <2> QED BY <2>1, <2>3, <2>4
<1> QED BY <1>1 DEF IsSumOf

\* The multiples of q / p, rounded down, modulo q.
IsCentre0(c, x, p, q) == c = L!VecMod(L!VecFdiv(L!VecScale(x, q), p), q)
IsCutModulo(c, d, x, p, q, D) ==
  AreCut(d, x, p, q, D) /\ c \in [D -> Int] /\ \A k \in D : Congruent(c[k], d[k], q)

\* center cuts off less than one of the rational multiples.
LEMMA CentreCuts ==
  ASSUME NEW p \in Nat, p # 0, NEW q \in Nat, q # 0, NEW D, NEW x \in [D -> Int],
         NEW c, IsCentre0(c, x, p, q)
  PROVE  \E d : IsCutModulo(c, d, x, p, q, D)
<1>1. PICK d : d = [k \in D |-> (x[k] * q) \div p]
  OBVIOUS
<1>2. L!VecFdiv(L!VecScale(x, q), p) = d
  BY <1>1 DEF L!VecFdiv, L!VecScale
<1>3. d \in [D -> Int]
  <2>1. ASSUME NEW k \in D PROVE (x[k] * q) \div p \in Int
    <3>1. PICK a \in Int : a = x[k] * q
      <4>1. x[k] \in Int
        OBVIOUS
      <4> QED BY <4>1
    <3>2. a \div p \in Int
      BY QuotientOf
    <3> QED BY <3>1, <3>2
  <2> QED BY <1>1, <2>1
<1>4. AreCut(d, x, p, q, D)
  BY <1>1, <1>3 DEF AreCut
<1>5. c = L!VecMod(d, q)
  BY <1>2 DEF IsCentre0
<1>6. c \in [D -> Int] /\ \A k \in D : Congruent(c[k], d[k], q)
  BY <1>3, <1>5, RemaindersOf
<1> QED BY <1>4, <1>6 DEF IsCutModulo

\* The parts of a ciphertext of x with the public key K and the randomness e.
AreLweParts(res, v, c, K, x, e, t) ==
  /\ L!Length(res) = t.n + t.l
  /\ L!VecExtract(res, 0, t.n) = Times(Flip(t.A, 0..(t.m - 1), 0..(t.n - 1)), e, 0..(t.n - 1))
  /\ L!VecExtract(res, t.n, t.l) = v /\ v \in L!IntVec(t.l)
  /\ AreCut(c, x, t.p, t.q, 0..(t.l - 1))
  /\ IsSumOf(v, Times(Flip(K, 0..(t.m - 1), 0..(t.l - 1)), e, 0..(t.l - 1)), c, t.q, 0..(t.l - 1))
IsLweCiphertext(r, K, x, e, t) ==
  /\ r.err \in {"NONE", "BOUND_CHECK_FAILED", "MALFORMED_INPUT"}
  /\ r.err = "NONE" =>
       r = L!Done(r.res) /\ x \in L!IntVec(t.l) /\ \E v, c : AreLweParts(r.res, v, c, K, x, e, t)

\* lwe_encrypt: the products of both matrices with the randomness, the data on the second.
LEMMA LweCiphertext ==
  ASSUME NEW t, IsLweScheme(t), NEW K, K \in L!IntMat(t.m, t.l), NEW x, x \in L!IntVec(L!Length(x)),
         NEW e, e \in L!IntVec(t.m)
  PROVE  IsLweCiphertext(L!LweEncrypt(t, x, K, e), K, x, e, t)
<1>1. PICK M, N, D : AreIndices(M, N, D, t)
  BY IndicesExist DEF IsLweScheme
<1>2. /\ K \in [M -> [D -> Int]] /\ L!Rows(K) = t.m /\ L!Cols(K) = t.l /\ DOMAIN K = M /\ DOMAIN K[0] = D
      /\ t.A \in [M -> [N -> Int]] /\ DOMAIN t.A = M /\ DOMAIN t.A[0] = N
      /\ e \in [M -> Int]
  <2>1. /\ K \in [M -> [D -> Int]] /\ L!Rows(K) = t.m /\ L!Cols(K) = t.l
        /\ DOMAIN K = M /\ DOMAIN K[0] = D
    <3>1. IsMatrix(K, t.m, t.l, M, D)
      BY <1>1, ShapesOf DEF IsLweScheme
    <3> QED BY <3>1 DEF IsMatrix
  <2>2. t.A \in [M -> [N -> Int]] /\ DOMAIN t.A = M /\ DOMAIN t.A[0] = N
    <3>1. IsMatrix(t.A, t.m, t.n, M, N)
      BY <1>1, ShapesOf DEF IsLweScheme
    <3> QED BY <3>1 DEF IsMatrix
  <2>3. e \in [M -> Int]
    BY <1>1 DEF AreIndices, L!IntVec
  <2> QED BY <2>1, <2>2, <2>3
<1>3. PICK p, q \in Nat : p # 0 /\ q # 0 /\ p = t.p /\ q = t.q
  BY DEF IsLweScheme
<1>4. PICK c0, w, u, v, res :
        /\ c0 = L!LweCenter(t, x) /\ w = L!MulVec(L!Transpose(t.A), e) /\ u = L!MulVec(L!Transpose(K), e)
        /\ v = L!VecMod(L!VecAdd(u, c0), q) /\ res = L!VecJoin(w, v)
  OBVIOUS
<1>5. \/ L!LweEncrypt(t, x, K, e) = L!Failed("BOUND_CHECK_FAILED")
      \/ L!LweEncrypt(t, x, K, e) = L!Failed("MALFORMED_INPUT")
      \/ L!Length(x) = t.l /\ L!LweEncrypt(t, x, K, e) = L!Done(res)
  BY <1>2, <1>3, <1>4 DEF L!LweEncrypt
<1>6. ASSUME L!Length(x) = t.l
      PROVE  x \in L!IntVec(t.l) /\ \E c : AreLweParts(res, v, c, K, x, e, t)
  <2>1. x \in [D -> Int] /\ x \in L!IntVec(t.l)
    BY <1>1, <1>6 DEF AreIndices, L!IntVec
  <2>2. PICK c : IsCutModulo(c0, c, x, p, q, D)
    <3>1. IsCentre0(c0, x, p, q)
      BY <1>3, <1>4 DEF IsCentre0, L!LweCenter
    <3> QED BY <1>3, <2>1, <3>1, CentreCuts
  <2>3. w = Times(Flip(t.A, M, N), e, N) /\ u = Times(Flip(K, M, D), e, D)
    <3>1. L!Transpose(t.A) = Flip(t.A, M, N) /\ L!Transpose(K) = Flip(K, M, D)
      BY <1>2, TransposeIs
    <3>2. DOMAIN Flip(t.A, M, N) = N /\ DOMAIN Flip(K, M, D) = D
      BY DEF Flip
    <3> QED BY <1>4, <3>1, <3>2, MatrixProducts
  <2>4. w \in [N -> Int] /\ u \in [D -> Int]
    <3>1. Flip(t.A, M, N) \in [N -> [M -> Int]] /\ Flip(K, M, D) \in [D -> [M -> Int]] /\ IsFiniteSet(M)
      BY <1>1, <1>2, FlipType DEF AreIndices
    <3>2. IsProduct(w, Flip(t.A, M, N), e, N) /\ IsProduct(u, Flip(K, M, D), e, D)
      BY <1>2, <2>3, <3>1, TimesType
    <3> QED BY <3>2 DEF IsProduct
  <2>5. c0 \in [D -> Int] /\ c \in [D -> Int] /\ \A k \in D : Congruent(c0[k], c[k], q)
    BY <2>2 DEF IsCutModulo, AreCut
  <2>6. v \in [D -> Int] /\ IsSumOf(v, u, c0, q, D)
    BY <1>3, <1>4, <2>4, <2>5, RemaindersOfSum
  <2>7. IsSumOf(v, u, c, q, D)
    BY <2>4, <2>5, <2>6, SummandReplaced
  <2>8. PICK n, l \in Nat : n = t.n /\ l = t.l /\ n # 0 /\ l # 0 /\ N = 0..(n - 1) /\ D = 0..(l - 1)
    BY <1>1 DEF AreIndices, IsLweScheme, HasDimensions
  <2>9. L!VecExtract(res, 0, n) = w /\ L!VecExtract(res, n, l) = v /\ L!Length(res) = n + l
    <3>1. w \in [0..(n - 1) -> Int] /\ v \in [0..(l - 1) -> Int]
      BY <2>4, <2>6, <2>8
    <3>2. n # 0 /\ l # 0
      BY <2>8
    <3>3. IsJoin(L!VecJoin(w, v), w, v, n, l)
      BY <3>1, <3>2, PartsOfJoin
    <3> QED BY <1>4, <3>3 DEF IsJoin
  <2>10. AreLweParts(res, v, c, K, x, e, t)
    <3>1. M = 0..(t.m - 1) /\ N = 0..(t.n - 1) /\ D = 0..(t.l - 1)
      BY <1>1 DEF AreIndices
    <3> QED BY <1>3, <2>2, <2>3, <2>6, <2>7, <2>8, <2>9, <3>1 DEF AreLweParts, IsCutModulo, L!IntVec
  <2> QED BY <2>1, <2>10
<1>7. IsLweCiphertext(L!Failed("BOUND_CHECK_FAILED"), K, x, e, t) /\ IsLweCiphertext(L!Failed("MALFORMED_INPUT"), K, x, e, t)
  BY DEF IsLweCiphertext, L!Failed
<1>8. L!Length(x) = t.l => IsLweCiphertext(L!Done(res), K, x, e, t)
  BY <1>6 DEF IsLweCiphertext, L!Done
<1> QED BY <1>5, <1>7, <1>8

\* A product of a transposed matrix with a vector has integers in it.
LEMMA FlippedProduct ==
  ASSUME NEW R, NEW C, IsFiniteSet(R), NEW A \in [R -> [C -> Int]], NEW u \in [R -> Int]
  PROVE  IsProduct(Times(Flip(A, R, C), u, C), Flip(A, R, C), u, C)
<1>1. Flip(A, R, C) \in [C -> [R -> Int]]
  BY FlipType
<1> QED BY <1>1, TimesType

\* The difference of two remainders.
LEMMA DifferenceOfRemainders ==
  ASSUME NEW q \in Nat, q # 0, NEW a \in Int, NEW b \in Int, NEW z, z = (a % q) - (b % q)
  PROVE  z \in Int /\ Congruent(z, a - b, q)
<1>1. PICK c, d \in Int : c = a % q /\ d = b % q /\ Congruent(c, a, q) /\ Congruent(d, b, q)
  BY CongruentMod
<1>2. Congruent(c - d, a - b, q)
  BY <1>1, CongruentSub
<1> QED BY <1>1, <1>2

\* What decryption rounds.
IsDifference(z, a, b, q) == a \in Int /\ b \in Int /\ z = (a % q) - (b % q)
IsLweSum(z, res, v, k, y, t) ==
  z = (Dot(y, v) % t.q) - (Dot(L!VecExtract(res, 0, t.n), k) % t.q)

\* The codes of decryption, and what it rounds.
LEMMA LwePlaintextIs ==
  ASSUME NEW t, IsLweScheme(t), NEW res, NEW v, NEW c, NEW K, NEW x, NEW e,
         AreLweParts(res, v, c, K, x, e, t), NEW k, k \in L!IntVec(t.n), NEW y, y \in L!IntVec(t.l),
         NEW z, IsLweSum(z, res, v, k, y, t)
  PROVE  \/ L!LweDecrypt(t, res, k, y) = L!Failed("BOUND_CHECK_FAILED")
         \/ L!LweDecrypt(t, res, k, y) = L!Done((CentreOf(z % t.q, t.q) * t.p + t.q \div 2) \div t.q)
<1>1. L!Length(k) = t.n /\ L!Length(y) = t.l
  <2>1. k \in [0..(t.n - 1) -> Int] /\ y \in [0..(t.l - 1) -> Int] /\ t.n \in Nat /\ t.l \in Nat
    BY DEF L!IntVec, IsLweScheme, HasDimensions
  <2> QED BY <2>1, LengthIs
<1>2. L!Length(res) = t.n + t.l /\ L!VecExtract(res, t.n, t.l) = v
  BY DEF AreLweParts
<1>3. \A d : L!LweCentred(d, t.q) = CentreOf(d, t.q)
  BY DEF L!LweCentred, CentreOf
<1>4. \A d : L!LweRounded(t, d) = (d * t.p + t.q \div 2) \div t.q
  BY DEF L!LweRounded
<1>5. z = (L!Dot(y, v) % t.q) - (L!Dot(L!VecExtract(res, 0, t.n), k) % t.q)
  BY SameLattice DEF IsLweSum
<1>6. \/ L!LweDecrypt(t, res, k, y) = L!Failed("BOUND_CHECK_FAILED")
      \/ L!LweDecrypt(t, res, k, y) = L!Done(L!LweRounded(t, L!LweCentred(z % t.q, t.q)))
  BY <1>1, <1>2, <1>5 DEF L!LweDecrypt
<1> QED BY <1>3, <1>4, <1>6

\* Decryption finds the product that is not as large as half of p when the noise of the
\* public key is tolerated.
IsLweDecryption(t, S, E, r, x, e, res, v, c, y, k, z) ==
  /\ IsLweScheme(t) /\ S \in L!IntMat(t.n, t.l) /\ E \in L!IntMat(t.m, t.l) /\ IsLwePublic(r, S, E, t)
  /\ x \in L!IntVec(t.l) /\ e \in L!IntVec(t.m) /\ AreLweParts(res, v, c, r.res, x, e, t)
  /\ y \in L!IntVec(t.l) /\ IsLweKey(k, S, y, t) /\ k.err = "NONE" /\ IsLweSum(z, res, v, k.res, y, t)
  /\ L!LweTolerated(t, L!LweNoise(E, e, y), y) /\ 2 * Dot(x, y) < t.p /\ -2 * Dot(x, y) < t.p

\* The secret keys cancel, rounding takes away the noise and what the centring cut off.
LEMMA LweFinds ==
  ASSUME NEW t, NEW S, NEW E, NEW r, NEW x, NEW e, NEW res, NEW v, NEW c, NEW y, NEW k, NEW z,
         IsLweDecryption(t, S, E, r, x, e, res, v, c, y, k, z)
  PROVE  (CentreOf(z % t.q, t.q) * t.p + t.q \div 2) \div t.q = Dot(x, y)
<1>0. /\ IsLweScheme(t) /\ S \in L!IntMat(t.n, t.l) /\ E \in L!IntMat(t.m, t.l) /\ IsLwePublic(r, S, E, t)
      /\ x \in L!IntVec(t.l) /\ e \in L!IntVec(t.m) /\ AreLweParts(res, v, c, r.res, x, e, t)
      /\ y \in L!IntVec(t.l) /\ IsLweKey(k, S, y, t) /\ k.err = "NONE" /\ IsLweSum(z, res, v, k.res, y, t)
      /\ L!LweTolerated(t, L!LweNoise(E, e, y), y) /\ 2 * Dot(x, y) < t.p /\ -2 * Dot(x, y) < t.p
  BY DEF IsLweDecryption
<1> USE <1>0
<1>1. PICK M, N, D : AreIndices(M, N, D, t)
  BY IndicesExist DEF IsLweScheme
<1>2. /\ M = 0..(t.m - 1) /\ N = 0..(t.n - 1) /\ D = 0..(t.l - 1)
      /\ IsFiniteSet(M) /\ IsFiniteSet(N) /\ IsFiniteSet(D)
  BY <1>1 DEF AreIndices
<1>3. PICK p, q \in Nat : p # 0 /\ q # 0 /\ p = t.p /\ q = t.q
  BY DEF IsLweScheme
<1>4. t.A \in [M -> [N -> Int]] /\ S \in [N -> [D -> Int]] /\ E \in [M -> [D -> Int]]
  BY <1>1, ShapesOf, ZenonT(60) DEF IsLweScheme, IsMatrix
<1>5. /\ x \in [D -> Int] /\ y \in [D -> Int] /\ e \in [M -> Int] /\ v \in [D -> Int]
  BY <1>2 DEF L!IntVec, AreLweParts
<1>6. PICK A, K, B : /\ A = t.A /\ K = r.res /\ K \in L!IntMat(t.m, t.l)
                     /\ IsMatProduct(B, A, S, M, N, D) /\ IsMatSum(K, B, E, q, M, D)
  BY <1>2, <1>3 DEF IsLwePublic
<1>7. K \in [M -> [D -> Int]] /\ A \in [M -> [N -> Int]]
  <2>1. IsMatrix(K, t.m, t.l, M, D)
    BY <1>1, <1>6, ShapesOf DEF IsLweScheme
  <2> QED BY <1>4, <1>6, <2>1 DEF IsMatrix
<1>8. PICK first, mask : first = Times(Flip(A, M, N), e, N) /\ mask = Times(Flip(E, M, D), e, D)
  OBVIOUS
<1>9. first \in [N -> Int] /\ mask \in [D -> Int]
  BY <1>2, <1>4, <1>5, <1>7, <1>8, FlippedProduct DEF IsProduct
<1>10. /\ L!VecExtract(res, 0, t.n) = first /\ AreCut(c, x, p, q, D)
       /\ IsSumOf(v, Times(Flip(K, M, D), e, D), c, q, D)
  BY <1>2, <1>3, <1>6, <1>8 DEF AreLweParts
<1>11. PICK f : f = k.res /\ f \in [N -> Int] /\ \A i \in N : Congruent(f[i], Dot(S[i], y), q)
  BY <1>2, <1>3 DEF IsLweKey, L!IntVec
<1>12. c \in [D -> Int]
  BY <1>10 DEF AreCut
<1>13. Congruent(Dot(v, y) - Dot(first, f), Dot(mask, y) + Dot(c, y), q)
  <2>1. IsLweCall(v, first, mask, c, f, A, S, E, B, K, e, y, q, M, N, D)
    BY <1>2, <1>4, <1>5, <1>6, <1>7, <1>8, <1>10, <1>11, <1>12 DEF IsLweCall
  <2> QED BY <2>1, LweSum
<1>14. PICK a, b, noise, cut \in Int : /\ a = Dot(v, y) /\ b = Dot(first, f) /\ noise = Dot(mask, y) /\ cut = Dot(c, y)
                                       /\ a = Dot(y, v)
  <2>1. Dot(v, y) \in Int /\ Dot(first, f) \in Int /\ Dot(mask, y) \in Int /\ Dot(c, y) \in Int
    BY <1>2, <1>5, <1>9, <1>11, <1>12, DotIsInt
  <2>2. Dot(v, y) = Dot(y, v)
    BY <1>2, <1>5, DotCommutes
  <2> QED BY <2>1, <2>2
<1>15. z \in Int /\ Congruent(z, a - b, q)
  <2>1. z = (a % q) - (b % q)
    BY <1>3, <1>10, <1>11, <1>14 DEF IsLweSum
  <2> QED BY <1>3, <2>1, DifferenceOfRemainders
<1>16. Congruent(z, noise + cut, q)
  <2>1. Congruent(a - b, noise + cut, q)
    BY <1>13, <1>14
  <2>2. a - b \in Int /\ noise + cut \in Int
    OBVIOUS
  <2> QED BY <1>15, <2>1, <2>2, CongruentTrans
<1>17. IsTolerated(noise, y, p, q)
  <2>1. L!LweNoise(E, e, y) = noise
    <3>1. DOMAIN E = M /\ DOMAIN E[0] = D
      <4>1. IsMatrix(E, t.m, t.l, M, D)
        BY <1>1, ShapesOf DEF IsLweScheme
      <4> QED BY <4>1 DEF IsMatrix
    <3>2. L!Transpose(E) = Flip(E, M, D) /\ DOMAIN Flip(E, M, D) = D
      BY <3>1, TransposeIs
    <3>3. L!MulVec(L!Transpose(E), e) = mask
      BY <1>8, <3>2, MatrixProducts
    <3> QED BY <1>14, <3>3, SameLattice DEF L!LweNoise
  <2>2. L!LweTolerated(t, noise, y)
    BY <2>1
  <2> QED BY <1>3, <2>2, SameLattice DEF L!LweTolerated, IsTolerated, Magnitude
<1>18. PICK d : d = CentreOf(z % q, q)
  OBVIOUS
<1>19. (d * p + q \div 2) \div q = Dot(x, y)
  <2>1. 2 * Dot(x, y) < p /\ -2 * Dot(x, y) < p
    BY <1>3
  <2>2. Congruent(z, noise + Dot(c, y), q)
    BY <1>14, <1>16
  <2>3. p # 0 /\ IsFiniteSet(D) /\ z \in Int
    BY <1>2, <1>3, <1>15
  <2> QED BY <1>5, <1>10, <1>17, <1>18, <2>1, <2>2, <2>3, RoundingFinds
<1> QED BY <1>3, <1>18, <1>19

-----------------------------------------------------------------------------
(* The fully secure LWE scheme *)

\* A scheme that has been set up, with the dimensions of its numbers.
IsLweFsScheme(t) ==
  /\ HasDimensions(t) /\ t.K \in Nat /\ t.K # 0 /\ t.q \in Nat /\ t.q # 0
  /\ t.A \in L!IntMat(t.m, t.n)

\* The numbers that a functional key consists of before they are reduced.
FsKeySum(S, y, t) == Times(Flip(S, 0..(t.l - 1), 0..(t.m - 1)), y, 0..(t.m - 1))

\* A secret key has the dimensions of the numbers it is made from.
LEMMA LweFsSecret ==
  ASSUME NEW t, IsLweFsScheme(t), NEW S, S \in L!IntMat(t.l, t.m)
  PROVE  L!LweFsSecretKey(t, S) \in L!IntMat(t.l, t.m)
<1>1. PICK D, M, h : D = 0..(t.l - 1) /\ M = 0..(t.m - 1) /\ h = t.m \div 2
  OBVIOUS
<1>2. S \in [D -> [M -> Int]]
  BY <1>1 DEF L!IntMat, L!IntVec
<1>3. L!LweFsSecretKey(t, S) = [i \in D |-> [j \in M |-> S[i][j] + IF j = h + i THEN 1 ELSE 0]]
  BY <1>1, <1>2 DEF L!LweFsSecretKey
<1>4. L!LweFsSecretKey(t, S) \in [D -> [M -> Int]]
  <2>1. ASSUME NEW i \in D, NEW j \in M PROVE S[i][j] + (IF j = h + i THEN 1 ELSE 0) \in Int
    <3>1. S[i][j] \in Int
      BY <1>2
    <3> QED BY <3>1
  <2> QED BY <1>3, <2>1
<1> QED BY <1>1, <1>4 DEF L!IntMat, L!IntVec

\* A public key comes from the secret key S.
IsLweFsPublic(r, S, t) ==
  /\ r.err = "NONE" /\ r = L!Done(r.res)
  /\ r.res \in [0..(t.l - 1) -> [0..(t.n - 1) -> 0..(t.q - 1)]] /\ r.res \in L!IntMat(t.l, t.n)
  /\ \E B : /\ IsMatProduct(B, S, t.A, 0..(t.l - 1), 0..(t.m - 1), 0..(t.n - 1))
            /\ \A i \in 0..(t.l - 1) : \A j \in 0..(t.n - 1) : Congruent(r.res[i][j], B[i][j], t.q)

\* lwe_fs_generate_pub_key: the products of the secret key with the matrix of the scheme.
LEMMA LweFsPublicKey ==
  ASSUME NEW t, IsLweFsScheme(t), NEW S, S \in L!IntMat(t.l, t.m)
  PROVE  IsLweFsPublic(L!LweFsGeneratePubKey(t, S), S, t)
<1>1. PICK M, N, D : AreIndices(M, N, D, t)
  BY IndicesExist DEF IsLweFsScheme
<1>2. S \in [D -> [M -> Int]] /\ L!Rows(S) = t.l /\ L!Cols(S) = t.m
  <2>1. IsMatrix(S, t.l, t.m, D, M)
    BY <1>1, ShapesOf DEF IsLweFsScheme
  <2> QED BY <2>1 DEF IsMatrix
<1>3. t.A \in [M -> [N -> Int]]
  <2>1. IsMatrix(t.A, t.m, t.n, M, N)
    BY <1>1, ShapesOf DEF IsLweFsScheme
  <2> QED BY <2>1 DEF IsMatrix
<1>4. PICK B : B = L!MatMul(S, t.A)
  OBVIOUS
<1>5. IsMatProduct(B, S, t.A, D, M, N)
  BY <1>1, <1>2, <1>3, <1>4, MatrixTimesMatrix DEF AreIndices
<1>6. PICK q \in Nat : q # 0 /\ q = t.q
  BY DEF IsLweFsScheme
<1>7. PICK K : K = L!MatMod(B, q)
  OBVIOUS
<1>8. /\ K \in [D -> [N -> 0..(q - 1)]] /\ K \in [D -> [N -> Int]]
      /\ \A i \in D : \A j \in N : Congruent(K[i][j], B[i][j], q)
  <2>1. B \in [D -> [N -> Int]] /\ q # 0
    BY <1>5, <1>6 DEF IsMatProduct
  <2> QED BY <1>7, <2>1, RemaindersOfMatrix
<1>9. L!LweFsGeneratePubKey(t, S) = L!Done(K)
  BY <1>2, <1>4, <1>6, <1>7 DEF L!LweFsGeneratePubKey
<1>10. L!Done(K).err = "NONE" /\ L!Done(K).res = K
  BY DEF L!Done
<1>11. M = 0..(t.m - 1) /\ N = 0..(t.n - 1) /\ D = 0..(t.l - 1)
  BY <1>1 DEF AreIndices
<1>12. K \in L!IntMat(t.l, t.n)
  BY <1>8, <1>11 DEF L!IntMat, L!IntVec
<1> QED BY <1>5, <1>6, <1>8, <1>9, <1>10, <1>11, <1>12 DEF IsLweFsPublic

\* A functional key for y.
IsLweFsKey(r, S, y, t) ==
  /\ r.err \in {"NONE", "BOUND_CHECK_FAILED"}
  /\ r.err = "NONE" =>
       /\ r = L!Done(r.res) /\ r.res \in [0..(t.m - 1) -> 0..(t.q - 1)] /\ r.res \in L!IntVec(t.m)
       /\ \A j \in 0..(t.m - 1) : Congruent(r.res[j], FsKeySum(S, y, t)[j], t.q)

\* lwe_fs_derive_fe_key: the sum of the rows of the secret key, y times.
LEMMA LweFsKey ==
  ASSUME NEW t, IsLweFsScheme(t), NEW S, S \in L!IntMat(t.l, t.m), NEW y, y \in L!IntVec(t.l)
  PROVE  /\ IsLweFsKey(L!LweFsDeriveFeKey(t, S, y), S, y, t)
         /\ L!MulMatrix(y, S) = FsKeySum(S, y, t) /\ FsKeySum(S, y, t) \in L!IntVec(t.m)
<1>1. PICK M, N, D : AreIndices(M, N, D, t)
  BY IndicesExist DEF IsLweFsScheme
<1>2. /\ S \in [D -> [M -> Int]] /\ L!Rows(S) = t.l /\ L!Cols(S) = t.m
      /\ DOMAIN S = D /\ DOMAIN S[0] = M
  <2>1. IsMatrix(S, t.l, t.m, D, M)
    BY <1>1, ShapesOf DEF IsLweFsScheme
  <2> QED BY <2>1 DEF IsMatrix
<1>3. PICK q \in Nat : q # 0 /\ q = t.q /\ y \in [D -> Int]
  BY <1>1 DEF L!IntVec, AreIndices, IsLweFsScheme
<1>4. PICK u : u = FsKeySum(S, y, t)
  OBVIOUS
<1>5. L!MulMatrix(y, S) = u /\ u = Times(Flip(S, D, M), y, M)
  <2>1. u = Times(Flip(S, D, M), y, M)
    BY <1>1, <1>4 DEF FsKeySum, AreIndices
  <2> QED BY <1>2, <2>1, MatrixProducts
<1>6. u \in [M -> Int]
  <2>1. IsFiniteSet(D)
    BY <1>1 DEF AreIndices
  <2>2. IsProduct(u, Flip(S, D, M), y, M)
    BY <1>2, <1>3, <1>5, <2>1, FlippedProduct
  <2> QED BY <2>2 DEF IsProduct
<1>7. PICK k : k = L!VecMod(u, q)
  OBVIOUS
<1>8. k \in [M -> 0..(q - 1)] /\ k \in [M -> Int] /\ \A j \in M : Congruent(k[j], u[j], q)
  BY <1>3, <1>6, <1>7, RemaindersOf
<1>9. L!LweFsDeriveFeKey(t, S, y) \in {L!Failed("BOUND_CHECK_FAILED"), L!Done(k)}
  BY <1>2, <1>3, <1>5, <1>7 DEF L!LweFsDeriveFeKey
<1>10. M = 0..(t.m - 1) /\ k \in L!IntVec(t.m) /\ u \in L!IntVec(t.m)
  BY <1>1, <1>6, <1>8 DEF AreIndices, L!IntVec
<1>11. IsLweFsKey(L!Done(k), S, y, t)
  BY <1>3, <1>4, <1>8, <1>10 DEF IsLweFsKey, L!Done
<1>12. IsLweFsKey(L!Failed("BOUND_CHECK_FAILED"), S, y, t)
  BY DEF IsLweFsKey, L!Failed
<1> QED BY <1>4, <1>5, <1>9, <1>10, <1>11, <1>12

\* The sum of two vectors.
LEMMA SumIs ==
  ASSUME NEW q \in Nat, NEW D, NEW u \in [D -> Int], NEW v \in [D -> Int], NEW w, w = L!VecAdd(u, v)
  PROVE  w \in [D -> Int] /\ IsSumOf(w, u, v, q, D)
<1>1. w = [k \in D |-> u[k] + v[k]]
  BY DEF L!VecAdd
<1>2. w \in [D -> Int]
  BY <1>1
<1>3. ASSUME NEW k \in D PROVE Congruent(w[k], u[k] + v[k], q)
  <2>1. PICK a \in Int : a = u[k] + v[k] /\ a = w[k]
    BY <1>1
  <2> QED BY <2>1, CongruentRefl
<1> QED BY <1>2, <1>3 DEF IsSumOf

\* The parts of a ciphertext of x with the public key PK, the randomness c.r and the noise
\* c.e0 and c.e1; g are the masks of the second part, and w is x times the scale.
AreLweFsParts(res, c0, c1, g, w, PK, x, c, t) ==
  /\ L!Length(res) = t.m + t.l
  /\ L!VecExtract(res, 0, t.m) = c0 /\ L!VecExtract(res, t.m, t.l) = c1
  /\ c0 \in L!IntVec(t.m) /\ c1 \in L!IntVec(t.l) /\ g \in L!IntVec(t.l)
  /\ IsSumOf(c0, Times(t.A, c.r, 0..(t.m - 1)), c.e0, t.q, 0..(t.m - 1))
  /\ IsSumOf(g, Times(PK, c.r, 0..(t.l - 1)), c.e1, t.q, 0..(t.l - 1))
  /\ IsSumOf(c1, g, w, t.q, 0..(t.l - 1))
  /\ w = [k \in 0..(t.l - 1) |-> x[k] * (t.q \div t.K)]
IsLweFsCiphertext(r, PK, x, c, t) ==
  /\ r.err \in {"NONE", "BOUND_CHECK_FAILED", "MALFORMED_INPUT"}
  /\ r.err = "NONE" =>
       /\ r = L!Done(r.res) /\ x \in L!IntVec(t.l)
       /\ \E c0, c1, g, w : AreLweFsParts(r.res, c0, c1, g, w, PK, x, c, t)

\* What encryptors draw.
IsFsNonce(c, t) == c.r \in L!IntVec(t.n) /\ c.e0 \in L!IntVec(t.m) /\ c.e1 \in L!IntVec(t.l)

\* A ciphertext of x.
LEMMA LweFsCiphertext ==
  ASSUME NEW t, IsLweFsScheme(t), NEW PK, PK \in L!IntMat(t.l, t.n), NEW x, x \in L!IntVec(L!Length(x)),
         NEW c, IsFsNonce(c, t)
  PROVE  IsLweFsCiphertext(L!LweFsEncrypt(t, x, PK, c), PK, x, c, t)
<1>1. PICK M, N, D : AreIndices(M, N, D, t)
  BY IndicesExist DEF IsLweFsScheme
<1>2. /\ M = 0..(t.m - 1) /\ N = 0..(t.n - 1) /\ D = 0..(t.l - 1)
      /\ IsFiniteSet(M) /\ IsFiniteSet(N) /\ IsFiniteSet(D)
  BY <1>1 DEF AreIndices
<1>3. PICK q, K \in Nat : q # 0 /\ K # 0 /\ q = t.q /\ K = t.K
  BY DEF IsLweFsScheme
<1>4. PK \in [D -> [N -> Int]] /\ L!Rows(PK) = t.l /\ L!Cols(PK) = t.n /\ DOMAIN PK = D /\ DOMAIN PK[0] = N
  <2>1. IsMatrix(PK, t.l, t.n, D, N)
    BY <1>1, ShapesOf DEF IsLweFsScheme
  <2> QED BY <2>1 DEF IsMatrix
<1>5. t.A \in [M -> [N -> Int]] /\ DOMAIN t.A = M /\ DOMAIN t.A[0] = N
  <2>1. IsMatrix(t.A, t.m, t.n, M, N)
    BY <1>1, ShapesOf DEF IsLweFsScheme
  <2> QED BY <2>1 DEF IsMatrix
<1>6. PICK r, e0, e1 : /\ r = c.r /\ e0 = c.e0 /\ e1 = c.e1
                       /\ r \in [N -> Int] /\ e0 \in [M -> Int] /\ e1 \in [D -> Int]
  BY <1>2 DEF IsFsNonce, L!IntVec
<1>7. PICK u, v : u = L!MulVec(t.A, r) /\ v = L!MulVec(PK, r)
  OBVIOUS
<1>8. u = Times(t.A, r, M) /\ v = Times(PK, r, D)
  BY <1>4, <1>5, <1>7, MatrixProducts
<1>9. u \in [M -> Int] /\ v \in [D -> Int]
  <2>1. IsProduct(u, t.A, r, M) /\ IsProduct(v, PK, r, D)
    BY <1>2, <1>4, <1>5, <1>6, <1>8, TimesType
  <2> QED BY <2>1 DEF IsProduct
<1>10. PICK c0, g, w, c1, res :
         /\ c0 = L!VecMod(L!VecAdd(u, e0), q) /\ g = L!VecAdd(v, e1) /\ w = L!VecScale(x, q \div K)
         /\ c1 = L!VecMod(L!VecAdd(g, w), q) /\ res = L!VecJoin(c0, c1)
  OBVIOUS
<1>11. \/ L!LweFsEncrypt(t, x, PK, c) = L!Failed("BOUND_CHECK_FAILED")
       \/ L!LweFsEncrypt(t, x, PK, c) = L!Failed("MALFORMED_INPUT")
       \/ L!Length(x) = t.l /\ L!LweFsEncrypt(t, x, PK, c) = L!Done(res)
  BY <1>3, <1>4, <1>6, <1>7, <1>10 DEF L!LweFsEncrypt
<1>12. ASSUME L!Length(x) = t.l
       PROVE  x \in L!IntVec(t.l) /\ AreLweFsParts(res, c0, c1, g, w, PK, x, c, t)
  <2>1. x \in [D -> Int] /\ x \in L!IntVec(t.l)
    BY <1>2, <1>12 DEF L!IntVec
  <2>2. w \in [D -> Int] /\ w = [k \in D |-> x[k] * (q \div K)]
    <3>1. PICK f \in Int : f = q \div K
      BY <1>3, QuotientOf
    <3>2. w = [k \in D |-> x[k] * f]
      BY <1>10, <2>1, <3>1 DEF L!VecScale
    <3>3. ASSUME NEW k \in D PROVE x[k] * f \in Int
      <4>1. x[k] \in Int
        BY <2>1
      <4> QED BY <4>1
    <3> QED BY <3>1, <3>2, <3>3
  <2>3. c0 \in [M -> Int] /\ IsSumOf(c0, u, e0, q, M)
    BY <1>3, <1>6, <1>9, <1>10, RemaindersOfSum
  <2>4. g \in [D -> Int] /\ IsSumOf(g, v, e1, q, D)
    BY <1>6, <1>9, <1>10, SumIs
  <2>5. c1 \in [D -> Int] /\ IsSumOf(c1, g, w, q, D)
    BY <1>3, <1>10, <2>2, <2>4, RemaindersOfSum
  <2>6. PICK m, l \in Nat : m = t.m /\ l = t.l /\ m # 0 /\ l # 0 /\ M = 0..(m - 1) /\ D = 0..(l - 1)
    BY <1>2 DEF IsLweFsScheme, HasDimensions
  <2>7. L!VecExtract(res, 0, m) = c0 /\ L!VecExtract(res, m, l) = c1 /\ L!Length(res) = m + l
    <3>1. c0 \in [0..(m - 1) -> Int] /\ c1 \in [0..(l - 1) -> Int]
      BY <2>3, <2>5, <2>6
    <3>2. m # 0 /\ l # 0
      BY <2>6
    <3>3. IsJoin(L!VecJoin(c0, c1), c0, c1, m, l)
      BY <3>1, <3>2, PartsOfJoin
    <3> QED BY <1>10, <3>3 DEF IsJoin
  <2>8. c0 \in L!IntVec(t.m) /\ c1 \in L!IntVec(t.l) /\ g \in L!IntVec(t.l)
    BY <1>2, <2>3, <2>4, <2>5 DEF L!IntVec
  <2>9. AreLweFsParts(res, c0, c1, g, w, PK, x, c, t)
    BY <1>2, <1>3, <1>6, <1>8, <2>2, <2>3, <2>4, <2>5, <2>6, <2>7, <2>8 DEF AreLweFsParts
  <2> QED BY <2>1, <2>9
<1>13. /\ IsLweFsCiphertext(L!Failed("BOUND_CHECK_FAILED"), PK, x, c, t)
       /\ IsLweFsCiphertext(L!Failed("MALFORMED_INPUT"), PK, x, c, t)
  BY DEF IsLweFsCiphertext, L!Failed
<1>14. L!Length(x) = t.l => IsLweFsCiphertext(L!Done(res), PK, x, c, t)
  BY <1>12 DEF IsLweFsCiphertext, L!Done
<1> QED BY <1>11, <1>13, <1>14

\* What decryption rounds, and its codes.
IsLweFsSum(z, c0, c1, k, y) == z = Dot(y, c1) - Dot(k, c0)

\* lwe_fs_decrypt refuses y or rounds the difference of the two products.
LEMMA LweFsPlaintextIs ==
  ASSUME NEW t, IsLweFsScheme(t), NEW res, NEW c0, NEW c1, NEW g, NEW w, NEW PK, NEW x, NEW c,
         AreLweFsParts(res, c0, c1, g, w, PK, x, c, t), NEW k, k \in L!IntVec(t.m),
         NEW y, y \in L!IntVec(t.l), NEW z, IsLweFsSum(z, c0, c1, k, y)
  PROVE  \/ L!LweFsDecrypt(t, res, k, y) = L!Failed("BOUND_CHECK_FAILED")
         \/ L!LweFsDecrypt(t, res, k, y) =
              L!Done((CentreOf(z % t.q, t.q) + t.q \div (2 * t.K)) \div (t.q \div t.K))
<1>1. L!Length(k) = t.m /\ L!Length(y) = t.l
  <2>1. k \in [0..(t.m - 1) -> Int] /\ y \in [0..(t.l - 1) -> Int] /\ t.m \in Nat /\ t.l \in Nat
    BY DEF L!IntVec, IsLweFsScheme, HasDimensions
  <2> QED BY <2>1, LengthIs
<1>2. L!Length(res) = t.m + t.l /\ L!VecExtract(res, 0, t.m) = c0 /\ L!VecExtract(res, t.m, t.l) = c1
  BY DEF AreLweFsParts
<1>3. z = L!Dot(y, c1) - L!Dot(k, c0)
  BY SameLattice DEF IsLweFsSum
<1>4. \/ L!LweFsDecrypt(t, res, k, y) = L!Failed("BOUND_CHECK_FAILED")
      \/ L!LweFsDecrypt(t, res, k, y) =
           L!Done(((IF (z % t.q) > t.q \div 2 THEN (z % t.q) - t.q ELSE z % t.q)
                     + t.q \div (2 * t.K)) \div (t.q \div t.K))
  BY <1>1, <1>2, <1>3 DEF L!LweFsDecrypt
<1> QED BY <1>4 DEF CentreOf

\* The inner product with the multiples of a vector.
AreMultiples(w, x, y, u, D) ==
  /\ u \in Int /\ IsFiniteSet(D) /\ x \in [D -> Int] /\ y \in [D -> Int]
  /\ w = [k \in D |-> x[k] * u]
IsScaledDot(w, x, y, u, D) ==
  w \in [D -> Int] /\ Dot(w, y) = u * Dot(x, y) /\ Dot(x, y) \in Int

\* The factor comes out of the product.
LEMMA ScaledProduct ==
  ASSUME NEW w, NEW x, NEW y, NEW u, NEW D, AreMultiples(w, x, y, u, D) PROVE IsScaledDot(w, x, y, u, D)
BY DotScaled DEF AreMultiples, IsScaledDot

\* Decryption finds a product that K tells apart when the noise is tolerated.
IsLweFsDecryption(t, S, r, x, c, res, c0, c1, g, w, y, k, z) ==
  /\ IsLweFsScheme(t) /\ S \in L!IntMat(t.l, t.m) /\ IsLweFsPublic(r, S, t)
  /\ x \in L!IntVec(t.l) /\ IsFsNonce(c, t) /\ AreLweFsParts(res, c0, c1, g, w, r.res, x, c, t)
  /\ y \in L!IntVec(t.l) /\ IsLweFsKey(k, S, y, t) /\ k.err = "NONE" /\ IsLweFsSum(z, c0, c1, k.res, y)
  /\ L!LweFsTolerated(t, L!LweFsNoise(S, c, y)) /\ L!LweFsInRange(t, Dot(x, y))

\* The secret keys cancel, rounding takes away the noise.
LEMMA LweFsFinds ==
  ASSUME NEW t, NEW S, NEW r, NEW x, NEW c, NEW res, NEW c0, NEW c1, NEW g, NEW w, NEW y, NEW k, NEW z,
         IsLweFsDecryption(t, S, r, x, c, res, c0, c1, g, w, y, k, z)
  PROVE  (CentreOf(z % t.q, t.q) + t.q \div (2 * t.K)) \div (t.q \div t.K) = Dot(x, y)
<1>0. /\ IsLweFsScheme(t) /\ S \in L!IntMat(t.l, t.m) /\ IsLweFsPublic(r, S, t)
      /\ x \in L!IntVec(t.l) /\ IsFsNonce(c, t) /\ AreLweFsParts(res, c0, c1, g, w, r.res, x, c, t)
      /\ y \in L!IntVec(t.l) /\ IsLweFsKey(k, S, y, t) /\ k.err = "NONE" /\ IsLweFsSum(z, c0, c1, k.res, y)
      /\ L!LweFsTolerated(t, L!LweFsNoise(S, c, y)) /\ L!LweFsInRange(t, Dot(x, y))
  BY DEF IsLweFsDecryption
<1> USE <1>0
<1>1. PICK M, N, D : AreIndices(M, N, D, t)
  BY IndicesExist DEF IsLweFsScheme
<1>2. /\ M = 0..(t.m - 1) /\ N = 0..(t.n - 1) /\ D = 0..(t.l - 1)
      /\ IsFiniteSet(M) /\ IsFiniteSet(N) /\ IsFiniteSet(D)
  BY <1>1 DEF AreIndices
<1>3. PICK q, K \in Nat : q # 0 /\ K # 0 /\ q = t.q /\ K = t.K
  BY DEF IsLweFsScheme
<1>4. PICK e, e0, e1 : /\ e = c.r /\ e0 = c.e0 /\ e1 = c.e1
                       /\ e \in [N -> Int] /\ e0 \in [M -> Int] /\ e1 \in [D -> Int]
  BY <1>2 DEF IsFsNonce, L!IntVec
<1>5. x \in [D -> Int] /\ y \in [D -> Int] /\ c0 \in [M -> Int] /\ c1 \in [D -> Int] /\ g \in [D -> Int]
  BY <1>2 DEF L!IntVec, AreLweFsParts
<1>6. PICK A, PK, B : /\ A = t.A /\ PK = r.res /\ PK \in L!IntMat(t.l, t.n)
                      /\ IsMatProduct(B, S, A, D, M, N)
                      /\ \A i \in D : \A j \in N : Congruent(PK[i][j], B[i][j], q)
  BY <1>2, <1>3 DEF IsLweFsPublic
<1>7. PK \in [D -> [N -> Int]]
  <2>1. IsMatrix(PK, t.l, t.n, D, N)
    BY <1>1, <1>6, ShapesOf DEF IsLweFsScheme
  <2> QED BY <2>1 DEF IsMatrix
<1>8. PICK sums : sums = FsKeySum(S, y, t)
  OBVIOUS
<1>9. sums = Times(Flip(S, D, M), y, M) /\ L!MulMatrix(y, S) = sums /\ sums \in [M -> Int]
  BY <1>2, <1>8, LweFsKey DEF FsKeySum, L!IntVec
<1>10. PICK f : f = k.res /\ f \in [M -> Int] /\ \A j \in M : Congruent(f[j], sums[j], q)
  BY <1>2, <1>3, <1>8 DEF IsLweFsKey, L!IntVec
<1>11. PICK u \in Int : u = q \div K
  BY <1>3, QuotientOf
<1>12. w = [j \in D |-> x[j] * u]
  BY <1>2, <1>3, <1>11 DEF AreLweFsParts
<1>13. w \in [D -> Int] /\ Dot(w, y) = u * Dot(x, y) /\ Dot(x, y) \in Int
  <2>1. AreMultiples(w, x, y, u, D)
    BY <1>2, <1>5, <1>12 DEF AreMultiples
  <2>2. IsScaledDot(w, x, y, u, D)
    BY <2>1, ScaledProduct
  <2> QED BY <2>2 DEF IsScaledDot
<1>14. Congruent(Dot(c1, y) - Dot(f, c0), (Dot(y, e1) - Dot(sums, e0)) + Dot(w, y), q)
  <2>1. IsSumOf(c0, Times(A, e, M), e0, q, M) /\ IsSumOf(g, Times(PK, e, D), e1, q, D) /\ IsSumOf(c1, g, w, q, D)
    BY <1>2, <1>3, <1>4, <1>6 DEF AreLweFsParts
  <2>2. IsLweFsCall(c1, c0, g, w, f, sums, A, S, B, PK, e, e0, e1, y, q, M, N, D)
    BY <1>4, <1>5, <1>6, <1>7, <1>9, <1>10, <1>13, <2>1 DEF IsLweFsCall
  <2> QED BY <2>2, LweFsSum
<1>15. PICK a, b, v1, v0, p \in Int : /\ a = Dot(y, c1) /\ a = Dot(c1, y) /\ b = Dot(f, c0)
                                      /\ v1 = Dot(y, e1) /\ v0 = Dot(sums, e0) /\ p = Dot(x, y)
  <2>1. /\ Dot(y, c1) \in Int /\ Dot(f, c0) \in Int /\ Dot(y, e1) \in Int /\ Dot(sums, e0) \in Int
    BY <1>2, <1>4, <1>5, <1>9, <1>10, DotIsInt
  <2>2. Dot(c1, y) = Dot(y, c1)
    BY <1>2, <1>5, DotCommutes
  <2> QED BY <1>13, <2>1, <2>2
<1>16. PICK noise, h \in Int : noise = v1 - v0 /\ h = q \div (2 * K) /\ z = a - b
  <2>1. q \div (2 * K) \in Int
    <3>1. 2 * K \in Nat /\ 2 * K # 0
      BY <1>3
    <3> QED BY <3>1, QuotientOf
  <2>2. z = a - b
    BY <1>10, <1>15 DEF IsLweFsSum
  <2> QED BY <2>1, <2>2
<1>17. Congruent(z, noise + u * p, q)
  BY <1>13, <1>14, <1>15, <1>16
<1>18. Magnitude(noise) < h
  <2>1. L!LweFsNoise(S, c, y) = noise
    BY <1>4, <1>9, <1>15, <1>16, SameLattice DEF L!LweFsNoise
  <2>2. L!LweFsTolerated(t, noise)
    BY <2>1
  <2> QED BY <1>3, <1>16, <2>2 DEF L!LweFsTolerated, Magnitude
<1>19. 2 * p < K /\ -2 * p < K
  BY <1>3, <1>15 DEF L!LweFsInRange
<1>20. PICK d : d = CentreOf(z % q, q)
  OBVIOUS
<1>21. (d + h) \div u = p
  <2>1. z \in Int
    BY <1>16
  <2>2. IsFsSum(z, d, noise, p, u, h, K, q)
    BY <1>3, <1>11, <1>16, <1>17, <1>18, <1>19, <1>20, <2>1 DEF IsFsSum
  <2> QED BY <2>2, RoundingFsFinds
<1> QED BY <1>3, <1>11, <1>15, <1>16, <1>20, <1>21

-----------------------------------------------------------------------------
(* The ring-LWE scheme *)

\* A scheme that has been set up, and the intervals of the indices of rows and of
\* coefficients.
IsRingScheme(t) ==
  /\ t.l \in Nat /\ t.l # 0 /\ t.n \in Nat /\ t.n # 0
  /\ t.p \in Nat /\ t.p # 0 /\ t.q \in Nat /\ t.q # 0 /\ t.a \in L!IntVec(t.n)
AreRingIndices(R, D, t) ==
  /\ R = 0..(t.l - 1) /\ D = 0..(t.n - 1) /\ IsFiniteSet(R) /\ IsFiniteSet(D) /\ 0 \in R /\ 0 \in D

\* The intervals of a scheme that has been set up.
LEMMA RingIndicesExist ==
  ASSUME NEW t, IsRingScheme(t) PROVE \E R, D : AreRingIndices(R, D, t)
<1>0. t.l \in Nat /\ t.l # 0 /\ t.n \in Nat /\ t.n # 0
  BY DEF IsRingScheme
<1>1. IsFiniteSet(0..(t.l - 1)) /\ IsFiniteSet(0..(t.n - 1))
  BY <1>0, IndicesFinite
<1>2. 0 \in 0..(t.l - 1) /\ 0 \in 0..(t.n - 1)
  BY <1>0
<1> QED BY <1>1, <1>2 DEF AreRingIndices

\* The rows of a matrix are polynomials.
LEMMA RingShape ==
  ASSUME NEW t, IsRingScheme(t), NEW R, NEW D, AreRingIndices(R, D, t), NEW A, A \in L!IntMat(t.l, t.n)
  PROVE  IsMatrix(A, t.l, t.n, R, D) /\ A \in [R -> Polys(t.n)]
<1>1. PICK l, n \in Nat : l = t.l /\ n = t.n /\ l # 0 /\ n # 0
  BY DEF IsRingScheme
<1>2. R = 0..(l - 1) /\ D = 0..(n - 1)
  BY <1>1 DEF AreRingIndices
<1>3. IsMatrix(A, l, n, R, D)
  BY <1>1, <1>2, MatrixShape
<1>4. A \in [R -> Polys(n)]
  BY <1>2, <1>3 DEF IsMatrix, Polys
<1> QED BY <1>1, <1>3, <1>4

\* Products of polynomials, as the code finds the coefficients.
LEMMA PolyMulIs ==
  ASSUME NEW n \in Nat, NEW v \in Polys(n), NEW w \in Polys(n)
  PROVE  L!PolyMul(v, w) = PolyProd(v, w, n)
<1>1. PICK D : D = 0..(n - 1) /\ DOMAIN v = D
  BY DEF Polys
<1>2. L!Length(v) = n
  BY <1>1, LengthIs
<1>3. \A i, j \in D : (i - j) % n = Back(i, j, n)
  BY <1>1, BackRemainder
<1>4. L!PolyMul(v, w) = [i \in D |-> L!SumFunction([j \in D |-> (IF j <= i THEN 1 ELSE -1) * v[(i - j) % n] * w[j]])]
  BY <1>1, <1>2 DEF L!PolyMul
<1>5. ASSUME NEW i \in D
      PROVE  [j \in D |-> (IF j <= i THEN 1 ELSE -1) * v[(i - j) % n] * w[j]]
               = [j \in D |-> Rot(v, n)[i][j] * w[j]]
  <2>1. ASSUME NEW j \in D
        PROVE  (IF j <= i THEN 1 ELSE -1) * v[(i - j) % n] * w[j] = Rot(v, n)[i][j] * w[j]
    <3>1. Rot(v, n)[i][j] = Turn(i, j) * v[Back(i, j, n)]
      BY <1>1 DEF Rot
    <3>2. (i - j) % n = Back(i, j, n)
      BY <1>3
    <3> QED BY <3>1, <3>2 DEF Turn
  <2> QED BY <2>1
<1>6. \A i \in D : DOMAIN Rot(v, n)[i] = D
  BY <1>1 DEF Rot
<1>7. \A i \in D : L!SumFunction([j \in D |-> Rot(v, n)[i][j] * w[j]]) = L!Dot(Rot(v, n)[i], w)
  BY <1>6 DEF L!Dot
<1>8. L!PolyMul(v, w) = [i \in D |-> Dot(Rot(v, n)[i], w)]
  BY <1>4, <1>5, <1>7, SameLattice
<1> QED BY <1>1, <1>8 DEF PolyProd, Times

\* The product of a vector with a matrix is the inner product with the coefficients.
LEMMA MulMatrixAt ==
  ASSUME NEW A, NEW R, NEW D, DOMAIN A = R, DOMAIN A[0] = D, NEW y
  PROVE  L!MulMatrix(y, A) = [i \in D |-> Dot(Coefficients(A, i, R), y)]
<1>1. \A i : L!Col(A, i) = Coefficients(A, i, R)
  BY DEF L!Col, Coefficients
<1> QED BY <1>1, SameLattice DEF L!MulMatrix

\* Rows times a polynomial, with noise, modulo q.
AreRowsReduced(K, X, v, E, q, n, R) ==
  /\ q \in Nat /\ q # 0 /\ n \in Nat /\ X \in [R -> Polys(n)] /\ v \in Polys(n) /\ E \in [R -> Polys(n)]
  /\ K = L!MatMod([i \in R |-> L!VecAdd(L!PolyMul(X[i], v), E[i])], q)
IsRowSum(K, X, v, E, q, n, R) ==
  /\ K \in [R -> [0..(n - 1) -> 0..(q - 1)]] /\ K \in [R -> Polys(n)]
  /\ AreRowsOf(K, RowsTimes(X, v, n, R), E, q, n, R)

\* The remainders of the rows.
LEMMA RowsReduced ==
  ASSUME NEW K, NEW X, NEW v, NEW E, NEW q, NEW n, NEW R, AreRowsReduced(K, X, v, E, q, n, R)
  PROVE  IsRowSum(K, X, v, E, q, n, R)
<1>0. /\ q \in Nat /\ q # 0 /\ n \in Nat /\ X \in [R -> Polys(n)] /\ v \in Polys(n) /\ E \in [R -> Polys(n)]
      /\ K = L!MatMod([i \in R |-> L!VecAdd(L!PolyMul(X[i], v), E[i])], q)
  BY DEF AreRowsReduced
<1>1. PICK B, D : B = RowsTimes(X, v, n, R) /\ D = 0..(n - 1)
  OBVIOUS
<1>2. ASSUME NEW i \in R
      PROVE  B[i] \in Polys(n) /\ L!PolyMul(X[i], v) = B[i]
  <2>1. X[i] \in Polys(n) /\ B[i] = PolyProd(X[i], v, n)
    BY <1>0, <1>1 DEF RowsTimes
  <2>2. L!PolyMul(X[i], v) = PolyProd(X[i], v, n)
    BY <1>0, <2>1, PolyMulIs
  <2>3. IsProduct(PolyProd(X[i], v, n), Rot(X[i], n), v, 0..(n - 1))
    BY <1>0, <2>1, PolyProdType
  <2> QED BY <2>1, <2>2, <2>3 DEF IsProduct, Polys
<1>3. B \in [R -> Polys(n)]
  <2>1. B = [k \in R |-> PolyProd(X[k], v, n)]
    BY <1>1 DEF RowsTimes
  <2> QED BY <1>2, <2>1
<1>4. K = [i \in R |-> L!VecMod(L!VecAdd(B[i], E[i]), q)]
  BY <1>0, <1>2 DEF L!MatMod
<1>5. ASSUME NEW i \in R
      PROVE  K[i] \in [D -> 0..(q - 1)] /\ K[i] \in [D -> Int] /\ IsSumOf(K[i], B[i], E[i], q, D)
  <2>1. B[i] \in [D -> Int] /\ E[i] \in [D -> Int] /\ K[i] = L!VecMod(L!VecAdd(B[i], E[i]), q)
    BY <1>0, <1>1, <1>2, <1>4 DEF Polys
  <2> QED BY <1>0, <2>1, RemaindersOfSum
<1>6. K \in [R -> [D -> 0..(q - 1)]] /\ K \in [R -> Polys(n)]
  BY <1>1, <1>4, <1>5 DEF Polys
<1> QED BY <1>0, <1>1, <1>3, <1>5, <1>6 DEF IsRowSum, AreRowsOf

\* A public key comes from the secret rows S and the noise E.
IsRingPublic(r, S, E, t) ==
  /\ r.err = "NONE" /\ r = L!Done(r.res)
  /\ r.res \in [0..(t.l - 1) -> [0..(t.n - 1) -> 0..(t.q - 1)]] /\ r.res \in L!IntMat(t.l, t.n)
  /\ AreRowsOf(r.res, RowsTimes(S, t.a, t.n, 0..(t.l - 1)), E, t.q, t.n, 0..(t.l - 1))

\* ring_lwe_generate_pub_key: the products of the secret rows with the polynomial, and the noise.
LEMMA RingPublicKey ==
  ASSUME NEW t, IsRingScheme(t), NEW S, S \in L!IntMat(t.l, t.n), NEW E, E \in L!IntMat(t.l, t.n)
  PROVE  IsRingPublic(L!RingGeneratePubKey(t, S, E), S, E, t)
<1>1. PICK R, D : AreRingIndices(R, D, t)
  BY RingIndicesExist
<1>2. L!Rows(S) = t.l /\ L!Cols(S) = t.n /\ S \in [R -> Polys(t.n)] /\ E \in [R -> Polys(t.n)]
  BY <1>1, RingShape DEF IsMatrix
<1>3. PICK q, n \in Nat : q # 0 /\ q = t.q /\ n = t.n /\ t.a \in Polys(n)
  BY DEF IsRingScheme, L!IntVec, Polys
<1>4. R = 0..(t.l - 1) /\ D = 0..(t.n - 1)
  BY <1>1 DEF AreRingIndices
<1>5. PICK K : K = L!MatMod([i \in R |-> L!VecAdd(L!PolyMul(S[i], t.a), E[i])], q)
  OBVIOUS
<1>6. L!RingGeneratePubKey(t, S, E) = L!Done(K)
  BY <1>2, <1>3, <1>4, <1>5 DEF L!RingGeneratePubKey
<1>7. IsRowSum(K, S, t.a, E, q, n, R)
  <2>1. AreRowsReduced(K, S, t.a, E, q, n, R)
    BY <1>2, <1>3, <1>5 DEF AreRowsReduced
  <2> QED BY <2>1, RowsReduced
<1>8. L!Done(K).err = "NONE" /\ L!Done(K).res = K
  BY DEF L!Done
<1>9. K \in L!IntMat(t.l, t.n)
  BY <1>3, <1>4, <1>7 DEF IsRowSum, L!IntMat, L!IntVec, Polys
<1> QED BY <1>3, <1>4, <1>6, <1>7, <1>8, <1>9 DEF IsRingPublic, IsRowSum

\* A functional key for y, and the sum that it is the remainder of.
RingKeySum(S, y, t) == Times(Flip(S, 0..(t.l - 1), 0..(t.n - 1)), y, 0..(t.n - 1))
IsRingKey(r, S, y, t) ==
  /\ r.err \in {"NONE", "BOUND_CHECK_FAILED"}
  /\ r.err = "NONE" =>
       /\ r = L!Done(r.res) /\ r.res \in [0..(t.n - 1) -> 0..(t.q - 1)] /\ r.res \in L!IntVec(t.n)
       /\ \A j \in 0..(t.n - 1) : Congruent(r.res[j], RingKeySum(S, y, t)[j], t.q)

\* ring_lwe_derive_fe_key: the sum of the secret rows, y times.
LEMMA RingKey ==
  ASSUME NEW t, IsRingScheme(t), NEW S, S \in L!IntMat(t.l, t.n), NEW y, y \in L!IntVec(t.l)
  PROVE  /\ IsRingKey(L!RingDeriveFeKey(t, S, y), S, y, t)
         /\ L!MulMatrix(y, S) = RingKeySum(S, y, t) /\ RingKeySum(S, y, t) \in L!IntVec(t.n)
<1>1. PICK R, D : AreRingIndices(R, D, t)
  BY RingIndicesExist
<1>2. /\ S \in [R -> [D -> Int]] /\ L!Rows(S) = t.l /\ L!Cols(S) = t.n
      /\ DOMAIN S = R /\ DOMAIN S[0] = D
  BY <1>1, RingShape DEF IsMatrix
<1>3. PICK q \in Nat : q # 0 /\ q = t.q /\ y \in [R -> Int]
  BY <1>1 DEF L!IntVec, AreRingIndices, IsRingScheme
<1>4. PICK u : u = RingKeySum(S, y, t)
  OBVIOUS
<1>5. L!MulMatrix(y, S) = u /\ u = Times(Flip(S, R, D), y, D)
  <2>1. u = Times(Flip(S, R, D), y, D)
    BY <1>1, <1>4 DEF RingKeySum, AreRingIndices
  <2> QED BY <1>2, <2>1, MatrixProducts
<1>6. u \in [D -> Int]
  <2>1. IsFiniteSet(R)
    BY <1>1 DEF AreRingIndices
  <2>2. IsProduct(u, Flip(S, R, D), y, D)
    BY <1>2, <1>3, <1>5, <2>1, FlippedProduct
  <2> QED BY <2>2 DEF IsProduct
<1>7. PICK k : k = L!VecMod(u, q)
  OBVIOUS
<1>8. k \in [D -> 0..(q - 1)] /\ k \in [D -> Int] /\ \A j \in D : Congruent(k[j], u[j], q)
  BY <1>3, <1>6, <1>7, RemaindersOf
<1>9. L!RingDeriveFeKey(t, S, y) \in {L!Failed("BOUND_CHECK_FAILED"), L!Done(k)}
  BY <1>2, <1>3, <1>5, <1>7 DEF L!RingDeriveFeKey
<1>10. D = 0..(t.n - 1) /\ k \in L!IntVec(t.n) /\ u \in L!IntVec(t.n)
  BY <1>1, <1>6, <1>8 DEF AreRingIndices, L!IntVec
<1>11. IsRingKey(L!Done(k), S, y, t)
  BY <1>3, <1>4, <1>8, <1>10 DEF IsRingKey, L!Done
<1>12. IsRingKey(L!Failed("BOUND_CHECK_FAILED"), S, y, t)
  BY DEF IsRingKey, L!Failed
<1> QED BY <1>4, <1>5, <1>9, <1>10, <1>11, <1>12

\* The parts of a ciphertext of X with the public key K and the randomness e: the rows C
\* with the masks W and the cut multiples V of the rows of X, and the last row.
AreRingParts(res, C, last, W, V, K, X, e, t) ==
  /\ L!Rows(res) = t.l + 1 /\ L!Cols(res) = t.n
  /\ L!VecExtract(res, 0, t.l) = C /\ res[t.l] = last
  /\ AreRowsOf(W, RowsTimes(K, e.r, t.n, 0..(t.l - 1)), e.E, t.q, t.n, 0..(t.l - 1))
  /\ AreRowsOf(C, W, V, t.q, t.n, 0..(t.l - 1))
  /\ last \in L!IntVec(t.n) /\ IsSumOf(last, PolyProd(t.a, e.r, t.n), e.e, t.q, 0..(t.n - 1))
  /\ \A i \in 0..(t.l - 1) : AreCut(V[i], X[i], t.p, t.q, 0..(t.n - 1))
IsRingCiphertext(r, K, X, e, t) ==
  /\ r.err \in {"NONE", "BOUND_CHECK_FAILED"}
  /\ r.err = "NONE" =>
       r = L!Done(r.res) /\ \E C, last, W, V : AreRingParts(r.res, C, last, W, V, K, X, e, t)

\* What encryptors draw.
IsRingNonce(e, t) == e.r \in L!IntVec(t.n) /\ e.e \in L!IntVec(t.n) /\ e.E \in L!IntMat(t.l, t.n)

\* The multiples of q / p for every row of a matrix, and their remainders.
AreCentred(H, V, X, p, q, n, R) ==
  /\ H \in [R -> Polys(n)] /\ V \in [R -> Polys(n)]
  /\ \A i \in R : /\ AreCut(V[i], X[i], p, q, 0..(n - 1))
                  /\ \A j \in 0..(n - 1) : Congruent(H[i][j], V[i][j], q)

\* ring_lwe_center cuts off less than one of the rational multiples.
LEMMA RowsCentred ==
  ASSUME NEW p \in Nat, p # 0, NEW q \in Nat, q # 0, NEW n \in Nat, NEW R, NEW X \in [R -> Polys(n)],
         NEW H, H = [i \in R |-> L!VecMod(L!VecFdiv(L!VecScale(X[i], q), p), q)]
  PROVE  \E V : AreCentred(H, V, X, p, q, n, R)
<1>1. PICK D : D = 0..(n - 1)
  OBVIOUS
<1>2. ASSUME NEW i \in R
      PROVE  \E d : IsCutModulo(H[i], d, X[i], p, q, D)
  <2>1. X[i] \in [D -> Int]
    BY <1>1 DEF Polys
  <2>2. IsCentre0(H[i], X[i], p, q)
    BY DEF IsCentre0
  <2> QED BY <2>1, <2>2, CentreCuts
<1>3. PICK V : V = [i \in R |-> CHOOSE d : IsCutModulo(H[i], d, X[i], p, q, D)]
  OBVIOUS
<1>4. ASSUME NEW i \in R PROVE IsCutModulo(H[i], V[i], X[i], p, q, D)
  BY <1>2, <1>3
<1>5. ASSUME NEW i \in R
      PROVE  /\ AreCut(V[i], X[i], p, q, D) /\ V[i] \in Polys(n) /\ H[i] \in Polys(n)
             /\ \A j \in D : Congruent(H[i][j], V[i][j], q)
  BY <1>1, <1>4 DEF IsCutModulo, AreCut, Polys
<1>6. V \in [R -> Polys(n)] /\ H \in [R -> Polys(n)]
  BY <1>3, <1>5
<1> QED BY <1>1, <1>5, <1>6 DEF AreCentred

\* Rows with the message on them, modulo q.
AreRowsMasked(C, W, H, V, X, p, q, n, R) ==
  /\ q \in Nat /\ q # 0 /\ n \in Nat /\ W \in [R -> Polys(n)] /\ AreCentred(H, V, X, p, q, n, R)
  /\ C = L!MatMod(L!MatAdd(W, H), q)

\* Masks that have been reduced before leave the same remainders.
LEMMA RowsMasked ==
  ASSUME NEW C, NEW W, NEW H, NEW V, NEW X, NEW p, NEW q, NEW n, NEW R,
         AreRowsMasked(C, W, H, V, X, p, q, n, R)
  PROVE  AreRowsOf(C, W, V, q, n, R)
<1>0. /\ q \in Nat /\ q # 0 /\ n \in Nat /\ W \in [R -> Polys(n)] /\ H \in [R -> Polys(n)]
      /\ V \in [R -> Polys(n)] /\ C = L!MatMod(L!MatAdd(W, H), q)
  BY DEF AreRowsMasked, AreCentred
<1>1. PICK D : D = 0..(n - 1)
  OBVIOUS
<1>2. C = [i \in R |-> L!VecMod(L!VecAdd(W[i], H[i]), q)]
  BY <1>0 DEF L!MatMod, L!MatAdd
<1>3. ASSUME NEW i \in R
      PROVE  C[i] \in Polys(n) /\ IsSumOf(C[i], W[i], V[i], q, D)
  <2>1. /\ W[i] \in [D -> Int] /\ H[i] \in [D -> Int] /\ V[i] \in [D -> Int]
        /\ C[i] = L!VecMod(L!VecAdd(W[i], H[i]), q)
    BY <1>0, <1>1, <1>2 DEF Polys
  <2>2. C[i] \in [D -> Int] /\ IsSumOf(C[i], W[i], H[i], q, D)
    BY <1>0, <2>1, RemaindersOfSum
  <2>3. \A j \in D : Congruent(H[i][j], V[i][j], q)
    BY <1>1 DEF AreRowsMasked, AreCentred
  <2>4. IsSumOf(C[i], W[i], V[i], q, D)
    BY <1>0, <2>1, <2>2, <2>3, SummandReplaced
  <2> QED BY <1>1, <2>2, <2>4 DEF Polys
<1>4. C \in [R -> Polys(n)]
  BY <1>2, <1>3
<1> QED BY <1>0, <1>1, <1>3, <1>4 DEF AreRowsOf

\* The rows of a ciphertext.
AreStacked(res, C, last, n, l) ==
  /\ l \in Nat /\ l # 0 /\ n \in Nat /\ C \in [0..(l - 1) -> Polys(n)] /\ last \in Polys(n)
  /\ res = [i \in 0..l |-> IF i < l THEN C[i] ELSE last]
IsStack(res, C, last, n, l) ==
  L!Rows(res) = l + 1 /\ L!Cols(res) = n /\ L!VecExtract(res, 0, l) = C /\ res[l] = last

\* The rows and the last one are found where they have been put.
LEMMA RowsStacked ==
  ASSUME NEW res, NEW C, NEW last, NEW n, NEW l, AreStacked(res, C, last, n, l)
  PROVE  IsStack(res, C, last, n, l)
<1>0. /\ l \in Nat /\ l # 0 /\ n \in Nat /\ C \in [0..(l - 1) -> Polys(n)] /\ last \in Polys(n)
      /\ res = [i \in 0..l |-> IF i < l THEN C[i] ELSE last]
  BY DEF AreStacked
<1>1. DOMAIN res = 0..((l + 1) - 1) /\ l + 1 \in Nat
  BY <1>0
<1>2. L!Length(res) = l + 1
  BY <1>1, LengthIs
<1>3. DOMAIN res[0] = 0..(n - 1)
  <2>1. 0 \in 0..(l - 1) /\ 0 \in 0..l /\ 0 < l
    BY <1>0
  <2>2. res[0] = C[0] /\ C[0] \in Polys(n)
    BY <1>0, <2>1
  <2> QED BY <2>2 DEF Polys
<1>4. L!Length(res[0]) = n
  BY <1>0, <1>3, LengthIs
<1>5. \A i \in 0..(l - 1) : 0 + i = i /\ i \in 0..l /\ i < l
  BY <1>0
<1>6. [i \in 0..(l - 1) |-> res[0 + i]] = C
  BY <1>0, <1>5
<1>7. res[l] = last
  <2>1. l \in 0..l /\ ~(l < l)
    BY <1>0
  <2> QED BY <1>0, <2>1
<1> QED BY <1>2, <1>4, <1>6, <1>7 DEF IsStack, L!Rows, L!Cols, L!VecExtract

\* A ciphertext of X.
LEMMA RingCiphertext ==
  ASSUME NEW t, IsRingScheme(t), NEW K, K \in L!IntMat(t.l, t.n), NEW X, X \in L!IntMat(t.l, t.n),
         NEW e, IsRingNonce(e, t)
  PROVE  IsRingCiphertext(L!RingEncrypt(t, X, K, e), K, X, e, t)
<1>1. PICK R, D : AreRingIndices(R, D, t)
  BY RingIndicesExist
<1>2. /\ K \in [R -> Polys(t.n)] /\ L!Rows(K) = t.l /\ L!Cols(K) = t.n
      /\ X \in [R -> Polys(t.n)] /\ L!Rows(X) = t.l /\ L!Cols(X) = t.n /\ DOMAIN X = R
      /\ e.E \in [R -> Polys(t.n)]
  BY <1>1, RingShape DEF IsMatrix, IsRingNonce
<1>3. PICK p, q, n, l \in Nat :
        p # 0 /\ q # 0 /\ l # 0 /\ p = t.p /\ q = t.q /\ n = t.n /\ l = t.l /\ t.a \in Polys(n)
  BY DEF IsRingScheme, L!IntVec, Polys
<1>4. R = 0..(l - 1) /\ D = 0..(n - 1)
  BY <1>1, <1>3 DEF AreRingIndices
<1>5. PICK r, f : r = e.r /\ f = e.e /\ r \in Polys(n) /\ f \in Polys(n)
  BY <1>3 DEF IsRingNonce, L!IntVec, Polys
<1>6. PICK W, H, C, last, res :
        /\ W = L!MatMod([i \in R |-> L!VecAdd(L!PolyMul(K[i], r), e.E[i])], q)
        /\ H = L!RingCenter(t, X) /\ C = L!MatMod(L!MatAdd(W, H), q)
        /\ last = L!VecMod(L!VecAdd(L!PolyMul(t.a, r), f), q)
        /\ res = [i \in 0..l |-> IF i < l THEN C[i] ELSE last]
  OBVIOUS
<1>7. L!RingEncrypt(t, X, K, e) \in {L!Failed("BOUND_CHECK_FAILED"), L!Done(res)}
  BY <1>2, <1>3, <1>4, <1>5, <1>6 DEF L!RingEncrypt, L!LastRow
<1>8. W \in [R -> Polys(n)] /\ AreRowsOf(W, RowsTimes(K, r, n, R), e.E, q, n, R)
  <2>1. AreRowsReduced(W, K, r, e.E, q, n, R)
    BY <1>2, <1>3, <1>5, <1>6 DEF AreRowsReduced
  <2>2. IsRowSum(W, K, r, e.E, q, n, R)
    BY <2>1, RowsReduced
  <2> QED BY <2>2 DEF IsRowSum
<1>9. PICK V : AreCentred(H, V, X, p, q, n, R)
  <2>1. H = [i \in R |-> L!VecMod(L!VecFdiv(L!VecScale(X[i], q), p), q)]
    BY <1>2, <1>3, <1>6 DEF L!RingCenter
  <2>2. X \in [R -> Polys(n)]
    BY <1>2, <1>3
  <2> QED BY <1>3, <2>1, <2>2, RowsCentred
<1>10. AreRowsOf(C, W, V, q, n, R)
  <2>1. AreRowsMasked(C, W, H, V, X, p, q, n, R)
    BY <1>3, <1>6, <1>8, <1>9 DEF AreRowsMasked
  <2> QED BY <2>1, RowsMasked
<1>11. last \in Polys(n) /\ IsSumOf(last, PolyProd(t.a, r, n), f, q, D)
  <2>1. PICK u : u = PolyProd(t.a, r, n)
    OBVIOUS
  <2>2. L!PolyMul(t.a, r) = u
    BY <1>3, <1>5, <2>1, PolyMulIs
  <2>3. u \in [D -> Int]
    <3>1. IsProduct(u, Rot(t.a, n), r, D)
      BY <1>3, <1>4, <1>5, <2>1, PolyProdType
    <3> QED BY <3>1 DEF IsProduct
  <2>4. f \in [D -> Int] /\ last = L!VecMod(L!VecAdd(u, f), q)
    BY <1>4, <1>5, <1>6, <2>2 DEF Polys
  <2>5. last \in [D -> Int] /\ IsSumOf(last, u, f, q, D)
    BY <1>3, <2>3, <2>4, RemaindersOfSum
  <2> QED BY <1>4, <2>1, <2>5 DEF Polys
<1>12. IsStack(res, C, last, n, l)
  <2>1. AreStacked(res, C, last, n, l)
    BY <1>3, <1>4, <1>6, <1>10, <1>11 DEF AreStacked, AreRowsOf
  <2> QED BY <2>1, RowsStacked
<1>13. AreRingParts(res, C, last, W, V, K, X, e, t)
  BY <1>3, <1>4, <1>5, <1>8, <1>9, <1>10, <1>11, <1>12 DEF AreRingParts, IsStack, AreCentred, L!IntVec, Polys
<1>14. IsRingCiphertext(L!Failed("BOUND_CHECK_FAILED"), K, X, e, t)
  BY DEF IsRingCiphertext, L!Failed
<1>15. IsRingCiphertext(L!Done(res), K, X, e, t)
  BY <1>13 DEF IsRingCiphertext, L!Done
<1> QED BY <1>7, <1>14, <1>15

\* What decryption rounds in every coefficient.
IsRingSum(z, C, last, k, y, t) ==
  z = [i \in 0..(t.n - 1) |-> (Dot(Coefficients(C, i, 0..(t.l - 1)), y) % t.q)
                                - PolyProd(last, k, t.n)[i]]

\* The columns of the rows, and their inner products.
LEMMA ColumnsAre ==
  ASSUME NEW n \in Nat, NEW R, IsFiniteSet(R), NEW C \in [R -> Polys(n)], NEW y \in [R -> Int],
         NEW i \in 0..(n - 1)
  PROVE  Coefficients(C, i, R) \in [R -> Int] /\ Dot(Coefficients(C, i, R), y) \in Int
<1>1. Coefficients(C, i, R) \in [R -> Int]
  BY DEF Coefficients, Polys
<1> QED BY <1>1, DotIsInt

\* The codes of decryption, and what it rounds.
LEMMA RingPlaintextIs ==
  ASSUME NEW t, IsRingScheme(t), NEW res, NEW C, NEW last, NEW W, NEW V, NEW K, NEW X, NEW e,
         AreRingParts(res, C, last, W, V, K, X, e, t), NEW k, k \in L!IntVec(t.n),
         NEW y, y \in L!IntVec(t.l), NEW z, IsRingSum(z, C, last, k, y, t)
  PROVE  \/ L!RingDecrypt(t, res, k, y) = L!Failed("BOUND_CHECK_FAILED")
         \/ L!RingDecrypt(t, res, k, y) =
              L!Done([i \in 0..(t.n - 1) |-> (CentreOf(z[i] % t.q, t.q) * t.p + t.q \div 2) \div t.q])
<1>1. PICK R, D : AreRingIndices(R, D, t)
  BY RingIndicesExist
<1>2. L!Length(k) = t.n /\ L!Length(y) = t.l
  <2>1. k \in [0..(t.n - 1) -> Int] /\ y \in [0..(t.l - 1) -> Int] /\ t.n \in Nat /\ t.l \in Nat
    BY DEF L!IntVec, IsRingScheme
  <2> QED BY <2>1, LengthIs
<1>3. PICK p, q, n \in Nat : p # 0 /\ q # 0 /\ p = t.p /\ q = t.q /\ n = t.n
  BY DEF IsRingScheme
<1>4. R = 0..(t.l - 1) /\ D = 0..(n - 1) /\ 0 \in R /\ k \in Polys(n) /\ y \in [R -> Int]
  BY <1>1, <1>3 DEF AreRingIndices, L!IntVec, Polys
<1>5. /\ L!Rows(res) = t.l + 1 /\ L!Cols(res) = n /\ L!VecExtract(res, 0, t.l) = C /\ res[t.l] = last
      /\ C \in [R -> Polys(n)] /\ last \in Polys(n)
  BY <1>3, <1>4 DEF AreRingParts, AreRowsOf, L!IntVec, Polys
<1>6. PICK a, b : a = L!MulMatrix(y, C) /\ b = PolyProd(last, k, n)
  OBVIOUS
<1>7. a = [i \in D |-> Dot(Coefficients(C, i, R), y)]
  <2>1. DOMAIN C = R /\ DOMAIN C[0] = D
    BY <1>4, <1>5 DEF Polys
  <2> QED BY <1>6, <2>1, MulMatrixAt
<1>8. L!PolyMul(last, k) = b
  BY <1>4, <1>5, <1>6, PolyMulIs
<1>9. b \in [D -> Int] /\ DOMAIN b = D
  <2>1. IsProduct(b, Rot(last, n), k, D)
    BY <1>4, <1>5, <1>6, PolyProdType
  <2> QED BY <2>1 DEF IsProduct
<1>10. PICK d, u, h : /\ u = L!VecMod(a, q) /\ d = L!VecMod(L!VecAdd(u, L!VecNeg(b)), q) /\ h = q \div 2
  OBVIOUS
<1>11. \/ L!RingDecrypt(t, res, k, y) = L!Failed("BOUND_CHECK_FAILED")
       \/ L!RingDecrypt(t, res, k, y) =
            L!Done(L!VecFdiv([i \in DOMAIN d |-> (IF d[i] > h THEN d[i] - q ELSE d[i]) * p + h], q))
  BY <1>2, <1>3, <1>5, <1>6, <1>8, <1>10 DEF L!RingDecrypt
<1>12. d = [i \in D |-> ((a[i] % q) + (-b[i])) % q]
  <2>1. u = [i \in D |-> a[i] % q]
    BY <1>7, <1>10 DEF L!VecMod
  <2>2. L!VecNeg(b) = [i \in D |-> -b[i]]
    BY <1>9 DEF L!VecNeg
  <2>3. L!VecAdd(u, L!VecNeg(b)) = [i \in D |-> (a[i] % q) + (-b[i])]
    BY <2>1, <2>2 DEF L!VecAdd
  <2> QED BY <1>10, <2>3 DEF L!VecMod
<1>13. ASSUME NEW i \in D PROVE d[i] = z[i] % q
  <2>1. PICK f, g \in Int : f = a[i] % q /\ g = b[i]
    <3>1. b[i] \in Int
      BY <1>9
    <3>2. a[i] \in Int
      <4>1. IsFiniteSet(R)
        BY <1>1 DEF AreRingIndices
      <4> QED BY <1>4, <1>5, <1>7, <4>1, ColumnsAre
    <3>3. a[i] % q \in Int
      BY <1>3, <3>2, CongruentMod
    <3> QED BY <3>1, <3>3
  <2>2. z[i] = f - g
    BY <1>3, <1>4, <1>6, <1>7, <2>1 DEF IsRingSum
  <2>3. d[i] = (f + (-g)) % q
    BY <1>12, <2>1
  <2>4. f + (-g) = f - g
    OBVIOUS
  <2> QED BY <2>2, <2>3, <2>4
<1>14. DOMAIN d = D
  BY <1>12
<1>15. ASSUME NEW i \in D
       PROVE  (IF d[i] > h THEN d[i] - q ELSE d[i]) = CentreOf(z[i] % q, q)
  BY <1>10, <1>13 DEF CentreOf
<1>16. L!VecFdiv([i \in DOMAIN d |-> (IF d[i] > h THEN d[i] - q ELSE d[i]) * p + h], q)
         = [i \in D |-> (CentreOf(z[i] % q, q) * p + h) \div q]
  BY <1>14, <1>15 DEF L!VecFdiv
<1> QED BY <1>3, <1>4, <1>10, <1>11, <1>16

\* What the noises add to every coefficient.
LEMMA RingNoiseAt ==
  ASSUME NEW t, IsRingScheme(t), NEW S, S \in L!IntMat(t.l, t.n), NEW E, E \in L!IntMat(t.l, t.n),
         NEW e, IsRingNonce(e, t), NEW y, y \in L!IntVec(t.l)
  PROVE  \E G : /\ AreRowsOf(G, RowsTimes(E, e.r, t.n, 0..(t.l - 1)), e.E, t.q, t.n, 0..(t.l - 1))
                /\ L!RingNoise(t, S, E, e, y) =
                     [i \in 0..(t.n - 1) |-> Dot(Coefficients(G, i, 0..(t.l - 1)), y)
                                               + (-PolyProd(e.e, RingKeySum(S, y, t), t.n)[i])]
<1>1. PICK R, D : AreRingIndices(R, D, t)
  BY RingIndicesExist
<1>2. E \in [R -> Polys(t.n)] /\ e.E \in [R -> Polys(t.n)]
  BY <1>1, RingShape DEF IsRingNonce
<1>3. PICK q, n \in Nat : q # 0 /\ q = t.q /\ n = t.n
  BY DEF IsRingScheme
<1>4. R = 0..(t.l - 1) /\ D = 0..(n - 1) /\ 0 \in R
  BY <1>1, <1>3 DEF AreRingIndices
<1>5. PICK r, f, F : r = e.r /\ f = e.e /\ F = e.E /\ r \in Polys(n) /\ f \in Polys(n) /\ F \in [R -> Polys(n)]
  BY <1>2, <1>3 DEF IsRingNonce, L!IntVec, Polys
<1>6. PICK G, U : G = [i \in R |-> L!VecAdd(L!PolyMul(E[i], r), F[i])] /\ U = RowsTimes(E, r, n, R)
  OBVIOUS
<1>7. ASSUME NEW i \in R
      PROVE  U[i] \in Polys(n) /\ G[i] \in Polys(n) /\ IsSumOf(G[i], U[i], F[i], q, D)
  <2>1. E[i] \in Polys(n) /\ U[i] = PolyProd(E[i], r, n) /\ F[i] \in [D -> Int]
    BY <1>2, <1>3, <1>4, <1>5, <1>6 DEF RowsTimes, Polys
  <2>2. U[i] \in [D -> Int]
    <3>1. IsProduct(U[i], Rot(E[i], n), r, 0..(n - 1))
      BY <1>5, <2>1, PolyProdType
    <3> QED BY <1>4, <3>1 DEF IsProduct
  <2>3. G[i] = L!VecAdd(U[i], F[i])
    <3>1. L!PolyMul(E[i], r) = U[i]
      BY <1>5, <2>1, PolyMulIs
    <3> QED BY <1>6, <3>1
  <2>4. G[i] \in [D -> Int] /\ IsSumOf(G[i], U[i], F[i], q, D)
    BY <2>1, <2>2, <2>3, SumIs
  <2> QED BY <1>4, <2>2, <2>4 DEF Polys
<1>8. U \in [R -> Polys(n)] /\ G \in [R -> Polys(n)]
  BY <1>6, <1>7 DEF RowsTimes
<1>9. AreRowsOf(G, U, F, q, n, R)
  BY <1>4, <1>5, <1>7, <1>8 DEF AreRowsOf
<1>10. PICK sum : sum = RingKeySum(S, y, t) /\ L!MulMatrix(y, S) = sum /\ sum \in Polys(n)
  <2>1. L!MulMatrix(y, S) = RingKeySum(S, y, t) /\ RingKeySum(S, y, t) \in L!IntVec(t.n)
    BY RingKey
  <2> QED BY <1>3, <2>1 DEF L!IntVec, Polys
<1>11. PICK a, b : a = L!MulMatrix(y, G) /\ b = PolyProd(f, sum, n)
  OBVIOUS
<1>12. a = [i \in D |-> Dot(Coefficients(G, i, R), y)]
  <2>1. DOMAIN G = R /\ DOMAIN G[0] = D
    BY <1>4, <1>8 DEF Polys
  <2> QED BY <1>11, <2>1, MulMatrixAt
<1>13. L!PolyMul(f, sum) = b /\ DOMAIN b = D
  <2>1. L!PolyMul(f, sum) = b
    BY <1>5, <1>10, <1>11, PolyMulIs
  <2> QED BY <1>4, <1>11, <2>1 DEF PolyProd, Times
<1>14. L!RingNoise(t, S, E, e, y) = L!VecAdd(a, L!VecNeg(b))
  BY <1>4, <1>5, <1>6, <1>10, <1>11, <1>13 DEF L!RingNoise
<1>15. L!RingNoise(t, S, E, e, y) = [i \in D |-> a[i] + (-b[i])]
  BY <1>12, <1>13, <1>14 DEF L!VecAdd, L!VecNeg
<1>16. L!RingNoise(t, S, E, e, y) =
         [i \in D |-> Dot(Coefficients(G, i, R), y) + (-PolyProd(f, sum, n)[i])]
  BY <1>11, <1>12, <1>15
<1> QED BY <1>3, <1>4, <1>5, <1>6, <1>9, <1>10, <1>16

\* What is tolerated in every coefficient.
LEMMA RingToleratedAt ==
  ASSUME NEW t, NEW q, q = t.q, NEW p, p = t.p, NEW noise, NEW y, L!RingTolerated(t, noise, y),
         NEW i \in DOMAIN noise
  PROVE  IsTolerated(noise[i], y, p, q)
<1>1. L!AbsSum(y) = MagnitudeSum(y)
  BY SameLattice
<1>2. L!SumFunction([j \in DOMAIN y |-> IF y[j] < 0 THEN -y[j] ELSE y[j]]) = MagnitudeSum(y)
  BY <1>1 DEF L!AbsSum
<1>3. 2 * p * ((IF noise[i] < 0 THEN -noise[i] ELSE noise[i]) + MagnitudeSum(y)) < q
  BY <1>2 DEF L!RingTolerated
<1> QED BY <1>3 DEF IsTolerated, Magnitude

\* Rounding finds the coefficient of the sum that a number modulo q holds.
IsRoundedSum(z, noise, m, x, y, p, q, R) ==
  /\ p \in Nat /\ p # 0 /\ q \in Nat /\ IsFiniteSet(R) /\ AreCut(m, x, p, q, R) /\ y \in [R -> Int]
  /\ noise \in Int /\ IsTolerated(noise, y, p, q) /\ 2 * Dot(x, y) < p /\ -2 * Dot(x, y) < p
  /\ z \in Int /\ Congruent(z, noise + Dot(m, y), q)

\* The noise and what the centring cut off do not move it to another multiple.
LEMMA RoundedSum ==
  ASSUME NEW z, NEW noise, NEW m, NEW x, NEW y, NEW p, NEW q, NEW R,
         IsRoundedSum(z, noise, m, x, y, p, q, R)
  PROVE  (CentreOf(z % q, q) * p + q \div 2) \div q = Dot(x, y)
<1>1. /\ p \in Nat /\ p # 0 /\ q \in Nat /\ IsFiniteSet(R) /\ AreCut(m, x, p, q, R) /\ y \in [R -> Int]
      /\ noise \in Int /\ IsTolerated(noise, y, p, q) /\ 2 * Dot(x, y) < p /\ -2 * Dot(x, y) < p
      /\ z \in Int /\ Congruent(z, noise + Dot(m, y), q)
  BY DEF IsRoundedSum
<1>2. PICK d : d = CentreOf(z % q, q)
  OBVIOUS
<1>3. (d * p + q \div 2) \div q = Dot(x, y)
  BY <1>1, <1>2, RoundingFinds
<1> QED BY <1>2, <1>3

\* Decryption finds the products that are not as large as half of p when the noise is
\* tolerated.
IsRingDecryption(t, S, E, r, X, e, res, C, last, W, V, y, k, z) ==
  /\ IsRingScheme(t) /\ S \in L!IntMat(t.l, t.n) /\ E \in L!IntMat(t.l, t.n) /\ IsRingPublic(r, S, E, t)
  /\ X \in L!IntMat(t.l, t.n) /\ IsRingNonce(e, t) /\ AreRingParts(res, C, last, W, V, r.res, X, e, t)
  /\ y \in L!IntVec(t.l) /\ IsRingKey(k, S, y, t) /\ k.err = "NONE" /\ IsRingSum(z, C, last, k.res, y, t)
  /\ L!RingTolerated(t, L!RingNoise(t, S, E, e, y), y) /\ L!RingInRange(t, L!MulMatrix(y, X))

\* The products of three polynomials cancel, whichever is multiplied first, and rounding
\* takes away the noise.
LEMMA RingFinds ==
  ASSUME NEW t, NEW S, NEW E, NEW r, NEW X, NEW e, NEW res, NEW C, NEW last, NEW W, NEW V, NEW y, NEW k, NEW z,
         IsRingDecryption(t, S, E, r, X, e, res, C, last, W, V, y, k, z)
  PROVE  [i \in 0..(t.n - 1) |-> (CentreOf(z[i] % t.q, t.q) * t.p + t.q \div 2) \div t.q]
           = L!MulMatrix(y, X)
<1>0. /\ IsRingScheme(t) /\ S \in L!IntMat(t.l, t.n) /\ E \in L!IntMat(t.l, t.n) /\ IsRingPublic(r, S, E, t)
      /\ X \in L!IntMat(t.l, t.n) /\ IsRingNonce(e, t) /\ AreRingParts(res, C, last, W, V, r.res, X, e, t)
      /\ y \in L!IntVec(t.l) /\ IsRingKey(k, S, y, t) /\ k.err = "NONE" /\ IsRingSum(z, C, last, k.res, y, t)
      /\ L!RingTolerated(t, L!RingNoise(t, S, E, e, y), y) /\ L!RingInRange(t, L!MulMatrix(y, X))
  BY DEF IsRingDecryption
<1> USE <1>0
<1>1. PICK R, D : AreRingIndices(R, D, t)
  BY RingIndicesExist
<1>2. /\ S \in [R -> Polys(t.n)] /\ E \in [R -> Polys(t.n)] /\ e.E \in [R -> Polys(t.n)]
      /\ X \in [R -> Polys(t.n)] /\ DOMAIN X = R /\ DOMAIN X[0] = D
  <2>1. S \in [R -> Polys(t.n)] /\ E \in [R -> Polys(t.n)]
    BY <1>1, RingShape
  <2>2. e.E \in [R -> Polys(t.n)]
    BY <1>1, RingShape DEF IsRingNonce
  <2>3. X \in [R -> Polys(t.n)] /\ IsMatrix(X, t.l, t.n, R, D)
    BY <1>1, RingShape
  <2> QED BY <2>1, <2>2, <2>3 DEF IsMatrix
<1>3. PICK p, q, n \in Nat : p # 0 /\ q # 0 /\ p = t.p /\ q = t.q /\ n = t.n
  BY DEF IsRingScheme
<1>4. R = 0..(t.l - 1) /\ D = 0..(n - 1) /\ IsFiniteSet(R) /\ y \in [R -> Int]
  BY <1>1, <1>3 DEF AreRingIndices, L!IntVec
<1>5. PICK a, b, f, F, K : /\ a = t.a /\ b = e.r /\ f = e.e /\ F = e.E /\ K = r.res
                           /\ a \in Polys(n) /\ b \in Polys(n) /\ f \in Polys(n)
  BY <1>3 DEF IsRingNonce, IsRingScheme, L!IntVec, Polys
<1>6. /\ AreRowsOf(K, RowsTimes(S, a, n, R), E, q, n, R) /\ AreRowsOf(W, RowsTimes(K, b, n, R), F, q, n, R)
      /\ AreRowsOf(C, W, V, q, n, R) /\ last \in Polys(n) /\ IsSumOf(last, PolyProd(a, b, n), f, q, D)
      /\ \A i \in R : AreCut(V[i], X[i], p, q, D)
  BY <1>3, <1>4, <1>5 DEF IsRingPublic, AreRingParts, L!IntVec, Polys
<1>7. PICK sum, g : /\ sum = RingKeySum(S, y, t) /\ g = k.res /\ g \in Polys(n)
                    /\ \A j \in D : Congruent(g[j], sum[j], q)
  BY <1>3, <1>4 DEF IsRingKey, L!IntVec, Polys
<1>8. sum = Times(Flip(S, R, D), y, D)
  BY <1>3, <1>4, <1>7 DEF RingKeySum
<1>9. IsRingCall(C, last, g, V, K, S, E, W, F, a, b, f, sum, y, q, n, R)
  BY <1>2, <1>3, <1>4, <1>5, <1>6, <1>7, <1>8 DEF IsRingCall
<1>10. PICK G : /\ AreRowsOf(G, RowsTimes(E, b, n, R), F, q, n, R)
                /\ L!RingNoise(t, S, E, e, y) =
                     [i \in D |-> Dot(Coefficients(G, i, R), y) + (-PolyProd(f, sum, n)[i])]
  BY <1>3, <1>4, <1>5, <1>7, RingNoiseAt
<1>11. L!MulMatrix(y, X) = [i \in D |-> Dot(Coefficients(X, i, R), y)]
  BY <1>2, MulMatrixAt
<1>12. ASSUME NEW i \in D
       PROVE  (CentreOf(z[i] % q, q) * p + q \div 2) \div q = Dot(Coefficients(X, i, R), y)
  <2>1. PICK c, m, x : c = Coefficients(C, i, R) /\ m = Coefficients(V, i, R) /\ x = Coefficients(X, i, R)
    OBVIOUS
  <2>2. PICK dc, dl, dg, de, dm \in Int :
          /\ dc = Dot(c, y) /\ dl = PolyProd(last, g, n)[i] /\ dg = Dot(Coefficients(G, i, R), y)
          /\ de = PolyProd(f, sum, n)[i] /\ dm = Dot(m, y)
          /\ Congruent(dc - dl, (dg - de) + dm, q)
    <3>1. i \in 0..(n - 1) /\ AreRowsOf(G, RowsTimes(E, b, n, R), F, q, n, R)
      BY <1>4, <1>10
    <3>2. /\ Dot(Coefficients(C, i, R), y) \in Int /\ PolyProd(last, g, n)[i] \in Int
          /\ Dot(Coefficients(G, i, R), y) \in Int /\ PolyProd(f, sum, n)[i] \in Int
          /\ Dot(Coefficients(V, i, R), y) \in Int
          /\ Congruent(Dot(Coefficients(C, i, R), y) - PolyProd(last, g, n)[i],
                       (Dot(Coefficients(G, i, R), y) - PolyProd(f, sum, n)[i])
                         + Dot(Coefficients(V, i, R), y), q)
      BY <1>9, <3>1, RingSum
    <3> QED BY <2>1, <3>2
  <2>3. PICK noise \in Int : noise = dg - de /\ noise = dg + (-de)
    OBVIOUS
  <2>4. IsTolerated(noise, y, p, q) 
    <3>1. PICK N : N = L!RingNoise(t, S, E, e, y)
      OBVIOUS
    <3>2. i \in DOMAIN N /\ N[i] = noise
      BY <1>10, <2>2, <2>3, <3>1
    <3>3. L!RingTolerated(t, N, y)
      BY <3>1
    <3>4. IsTolerated(N[i], y, p, q)
      BY <1>3, <3>2, <3>3, RingToleratedAt
    <3> QED BY <3>2, <3>4
  <2>5. AreCut(m, x, p, q, R)
    <3>1. V \in [R -> Polys(n)]
      BY <1>6 DEF AreRowsOf
    <3>2. m \in [R -> Int] /\ x \in [R -> Int]
      BY <1>2, <1>3, <1>4, <2>1, <3>1 DEF Coefficients, Polys
    <3>3. \A j \in R : m[j] = V[j][i] /\ x[j] = X[j][i]
      BY <2>1 DEF Coefficients
    <3>4. \A j \in R : V[j][i] = (X[j][i] * q) \div p
      BY <1>6 DEF AreCut
    <3> QED BY <3>2, <3>3, <3>4 DEF AreCut
  <2>6. 2 * Dot(x, y) < p /\ -2 * Dot(x, y) < p
    <3>1. PICK v : v = L!MulMatrix(y, X)
      OBVIOUS
    <3>2. i \in DOMAIN v /\ v[i] = Dot(x, y)
      BY <1>11, <2>1, <3>1
    <3>3. 2 * v[i] < p /\ -2 * v[i] < p
      BY <1>3, <3>1, <3>2 DEF L!RingInRange
    <3> QED BY <3>2, <3>3
  <2>7. z[i] = (dc % q) - dl
    BY <1>3, <1>4, <1>7, <2>1, <2>2 DEF IsRingSum
  <2>8. z[i] \in Int /\ Congruent(z[i], noise + Dot(m, y), q)
    <3>1. PICK u \in Int : u = dc % q /\ Congruent(u, dc, q)
      BY <1>3, CongruentMod
    <3>2. Congruent(u - dl, dc - dl, q)
      <4>1. Congruent(dl, dl, q)
        BY <1>3, CongruentRefl
      <4> QED BY <1>3, <3>1, <4>1, CongruentSub
    <3>3. Congruent(u - dl, noise + dm, q)
      <4>1. u - dl \in Int /\ dc - dl \in Int /\ noise + dm \in Int
        OBVIOUS
      <4>2. Congruent(dc - dl, noise + dm, q)
        BY <2>2, <2>3
      <4> QED BY <1>3, <3>2, <4>1, <4>2, CongruentTrans
    <3>4. z[i] = u - dl
      BY <2>7, <3>1
    <3> QED BY <2>2, <3>3, <3>4
  <2>9. IsRoundedSum(z[i], noise, m, x, y, p, q, R)
    BY <1>3, <1>4, <2>3, <2>4, <2>5, <2>6, <2>8 DEF IsRoundedSum
  <2> QED BY <2>1, <2>9, RoundedSum
<1> QED BY <1>3, <1>4, <1>11, <1>12

-----------------------------------------------------------------------------
(* What the set-up makes of an instance *)

\* mpz_sizeinbase finds the number of bits.
LEMMA BitsIs == ASSUME NEW v \in Nat PROVE HasBits(v, L!Bits(v))
<1>1. L!Bits(v) = CHOOSE b \in 1..(v + 1) : v < 2^b /\ (b = 1 \/ 2^(b - 1) <= v)
  BY DEF L!Bits
<1>2. PICK b \in 1..(v + 1) : HasBits(v, b)
  BY BitsExist
<1>3. v < 2^b /\ (b = 1 \/ 2^(b - 1) <= v)
  BY <1>2 DEF HasBits
<1>4. L!Bits(v) \in 1..(v + 1) /\ v < 2^L!Bits(v) /\ (L!Bits(v) = 1 \/ 2^(L!Bits(v) - 1) <= v)
  BY <1>1, <1>3
<1> QED BY <1>4 DEF HasBits

\* The inner products of the data that LWE admits are below half of p.
LweAdmits(t) ==
  \A x, y \in L!IntVec(t.l) : L!Bounded(x, t.bx) /\ L!Bounded(y, t.by) => 2 * Dot(x, y) < t.p /\ -2 * Dot(x, y) < t.p

\* A product of coordinates within the bounds is at most l times the bounds.
LEMMA ProductBelow ==
  ASSUME NEW l \in Nat, NEW a \in Nat, NEW b \in Nat, NEW p \in Nat, 2 * (a * b * l) < p,
         NEW x \in [0..(l - 1) -> Int], NEW y \in [0..(l - 1) -> Int], Bounded(x, a), Bounded(y, b)
  PROVE  2 * Dot(x, y) < p /\ -2 * Dot(x, y) < p
<1>1. PICK D : D = 0..(l - 1) /\ IsFiniteSet(D) /\ Cardinality(D) = l
  <2>1. l - 1 \in Int /\ 0 \in Int
    OBVIOUS
  <2>2. IsFiniteSet(0..(l - 1)) /\ Cardinality(0..(l - 1)) = IF 0 > l - 1 THEN 0 ELSE (l - 1) - 0 + 1
    BY <2>1, FS_Interval
  <2>3. (IF 0 > l - 1 THEN 0 ELSE (l - 1) - 0 + 1) = l
    OBVIOUS
  <2> QED BY <2>2, <2>3
<1>2. x \in [D -> Int] /\ y \in [D -> Int]
  BY <1>1
<1>3. Dot(x, y) \in Int /\ Dot(x, y) <= a * b * l /\ -Dot(x, y) <= a * b * l
  BY <1>1, <1>2, DotBoundedBy
<1>4. PICK v \in Int : v = a * b * l
  OBVIOUS
<1>5. PICK d \in Int : d = Dot(x, y)
  BY <1>3
<1> QED BY <1>3, <1>4, <1>5

\* The LWE scheme.
IsLweMade(t, n) ==
  /\ IsLweScheme(t) /\ LweAdmits(t) /\ t.l = n.l /\ t.n = n.prm.n /\ t.m = L!LweSamples(n.prm, n.l)

\* What lwe_init makes of it: p has so many bits that it bounds the products.
LEMMA LweMade ==
  ASSUME NEW n, L!IsInstance(n), n.scheme = "lwe", NEW b \in n.bounds, NEW t,
         L!LweNew(n.prm, n.l, b[1], b[2]) = L!Done(t)
  PROVE  IsLweMade(t, n)
<1>1. t = [l |-> n.l, bx |-> b[1], by |-> b[2], n |-> n.prm.n, m |-> L!LweSamples(n.prm, n.l),
           p |-> n.prm.p, q |-> n.prm.q, A |-> n.prm.A]
  BY DEF L!LweNew, L!Done, L!Failed
<1>2. /\ n.l \in Nat /\ n.l # 0 /\ n.prm.n \in Nat /\ n.prm.n # 0 /\ n.prm.q \in Nat /\ n.prm.q > 2
      /\ b[1] \in Nat /\ b[2] \in Nat /\ n.prm.p \in Nat
      /\ L!Bits(n.prm.p) = L!Bits(b[1]) + L!Bits(b[2]) + L!Bits(n.l) + 2
      /\ n.prm.A \in L!IntMat(L!LweSamples(n.prm, n.l), n.prm.n)
  BY DEF L!IsInstance, L!IsLwe, L!LweIsModulus
<1>3. PICK m : m = L!LweSamples(n.prm, n.l)
  OBVIOUS
<1>4. m \in Nat /\ m # 0
  <2>1. PICK c \in Nat : c = L!Bits(n.prm.q)
    BY <1>2, BitsIs DEF HasBits
  <2>2. PICK i, l \in Nat : i = n.prm.n /\ l = n.l
    BY <1>2
  <2>3. m = (i + l + 1) * c + 2 * i + 1
    BY <1>3, <2>1, <2>2 DEF L!LweSamples
  <2>4. (i + l + 1) * c \in Nat
    OBVIOUS
  <2> QED BY <2>3, <2>4
<1>5. PICK u, v, l, p \in Nat : u = b[1] /\ v = b[2] /\ l = n.l /\ p = n.prm.p
  BY <1>2
<1>6. 2 * (u * v * l) < p
  <2>1. HasBits(u, L!Bits(u)) /\ HasBits(v, L!Bits(v)) /\ HasBits(l, L!Bits(l)) /\ HasBits(p, L!Bits(p))
    BY BitsIs
  <2>2. L!Bits(p) = L!Bits(u) + L!Bits(v) + L!Bits(l) + 2
    BY <1>2, <1>5
  <2> QED BY <2>1, <2>2, BitsOfProduct
<1>7. p # 0
  <2>1. u * v * l \in Nat
    OBVIOUS
  <2> QED BY <1>6, <2>1
<1>8. /\ t.l = l /\ t.bx = u /\ t.by = v /\ t.n = n.prm.n /\ t.m = m /\ t.p = p /\ t.q = n.prm.q
      /\ t.A = n.prm.A
  BY <1>1, <1>3, <1>5
<1>9. IsLweScheme(t)
  BY <1>2, <1>3, <1>4, <1>5, <1>7, <1>8 DEF IsLweScheme, HasDimensions
<1>10. LweAdmits(t)
  <2>1. ASSUME NEW x \in L!IntVec(l), NEW y \in L!IntVec(l), L!Bounded(x, u), L!Bounded(y, v)
        PROVE  2 * Dot(x, y) < p /\ -2 * Dot(x, y) < p
    <3>1. x \in [0..(l - 1) -> Int] /\ y \in [0..(l - 1) -> Int]
      BY DEF L!IntVec
    <3>2. Bounded(x, u) /\ Bounded(y, v)
      BY <2>1 DEF L!Bounded, Bounded
    <3> QED BY <1>6, <3>1, <3>2, ProductBelow
  <2> QED BY <1>8, <2>1 DEF LweAdmits
<1> QED BY <1>3, <1>5, <1>8, <1>9, <1>10 DEF IsLweMade

\* The fully secure LWE scheme.
IsLweFsMade(t, n) == IsLweFsScheme(t) /\ t.l = n.l /\ t.n = n.prm.n /\ t.m = n.prm.m

\* What lwe_fs_init makes of it.
LEMMA LweFsMade ==
  ASSUME NEW n, L!IsInstance(n), n.scheme = "lwe_fs", NEW b \in n.bounds, NEW t,
         L!LweFsNew(n.prm, n.l, b[1], b[2]) = L!Done(t)
  PROVE  IsLweFsMade(t, n)
<1>1. t = [l |-> n.l, bx |-> b[1], by |-> b[2], n |-> n.prm.n, m |-> n.prm.m,
           K |-> 2 * n.l * b[1] * b[2], q |-> n.prm.q, A |-> n.prm.A]
  BY DEF L!LweFsNew, L!Done, L!Failed
<1>2. /\ n.l \in Nat /\ n.l # 0 /\ n.prm.n \in Nat /\ n.prm.n # 0 /\ n.prm.q \in Nat /\ n.prm.q # 0
      /\ b[1] \in Nat /\ b[2] \in Nat /\ b[1] # 0 /\ b[2] # 0
      /\ n.prm.m \in Nat /\ n.prm.m # 0 /\ n.prm.A \in L!IntMat(n.prm.m, n.prm.n)
  BY DEF L!IsInstance, L!IsLweFs
<1>3. PICK u, v, l \in Nat : u = b[1] /\ v = b[2] /\ l = n.l /\ u # 0 /\ v # 0 /\ l # 0
  BY <1>2
<1>4. 2 * l * u * v \in Nat /\ 2 * l * u * v # 0
  <2>1. PICK c \in Nat : c = 2 * l /\ c # 0
    BY <1>3
  <2>2. PICK d \in Nat : d = c * u /\ d # 0
    <3>1. c * u \in Nat /\ c * u # 0
      BY <1>3, <2>1
    <3> QED BY <3>1
  <2>3. d * v \in Nat /\ d * v # 0
    BY <1>3, <2>2
  <2> QED BY <2>1, <2>2, <2>3
<1>5. t.l = l /\ t.n = n.prm.n /\ t.m = n.prm.m /\ t.q = n.prm.q /\ t.A = n.prm.A /\ t.K = 2 * l * u * v
  BY <1>1, <1>3
<1> QED BY <1>2, <1>3, <1>4, <1>5 DEF IsLweFsMade, IsLweFsScheme, HasDimensions

\* The ring-LWE scheme.
IsRingMade(t, n) == IsRingScheme(t) /\ t.l = n.l /\ t.n = n.prm.n /\ L!IsPowerOfTwo(n.prm.n)

\* What ring_lwe_init makes of it.
LEMMA RingMade ==
  ASSUME NEW n, L!IsInstance(n), n.scheme = "ring_lwe", NEW b \in n.bounds, NEW t,
         L!RingNew(n.prm, n.l, b[1]) = L!Done(t)
  PROVE  IsRingMade(t, n)
<1>1. /\ t = [l |-> n.l, bx |-> b[1], by |-> b[1], n |-> n.prm.n, p |-> n.prm.p, q |-> n.prm.q,
              a |-> n.prm.a]
      /\ ~(n.prm.p < 2 * n.l * b[1] * b[1]) /\ L!IsPowerOfTwo(n.prm.n)
  BY DEF L!RingNew, L!Done, L!Failed
<1>2. /\ n.l \in Nat /\ n.l # 0 /\ n.prm.n \in Nat /\ n.prm.n # 0 /\ n.prm.q \in Nat /\ n.prm.q # 0
      /\ b[1] \in Nat /\ b[1] # 0 /\ n.prm.p \in Nat
      /\ L!IsPowerOfTwo(n.prm.n) => n.prm.a \in L!IntVec(n.prm.n)
  BY DEF L!IsInstance, L!IsRingLwe
<1>3. PICK u, l, p \in Nat : u = b[1] /\ l = n.l /\ p = n.prm.p /\ u # 0 /\ l # 0
  BY <1>2
<1>4. p # 0
  <2>1. PICK c \in Nat : c = 2 * l /\ c # 0
    BY <1>3
  <2>2. PICK d \in Nat : d = c * u /\ d # 0
    <3>1. c * u \in Nat /\ c * u # 0
      BY <1>3, <2>1
    <3> QED BY <3>1
  <2>3. d * u \in Nat /\ d * u # 0
    BY <1>3, <2>2
  <2>4. ~(p < d * u)
    BY <1>1, <1>3, <2>1, <2>2
  <2> QED BY <2>3, <2>4
<1>5. t.l = l /\ t.n = n.prm.n /\ t.q = n.prm.q /\ t.a = n.prm.a /\ t.p = p
  BY <1>1, <1>3
<1> QED BY <1>1, <1>2, <1>3, <1>4, <1>5 DEF IsRingMade, IsRingScheme

-----------------------------------------------------------------------------
(* What is held and exchanged in the schemes from lattices *)

\* What the set-up has made of the instance, and what the inputs of the calls are then.
LatticeMade ==
  /\ L!IsInstance(arg) /\ arg.scheme \in {"lwe", "lwe_fs", "ring_lwe"}
  /\ arg.scheme = "lwe" => IsLweMade(setup, arg)
  /\ arg.scheme = "lwe_fs" => IsLweFsMade(setup, arg)
  /\ arg.scheme = "ring_lwe" => IsRingMade(setup, arg)

\* Whatever scheme is set up, it was made from the instance.
LEMMA SetUpLattice ==
  ASSUME arg \in LatticeInstances, L!SetUp, setup # L!NoScheme
  PROVE  LatticeMade
<1>1. L!IsInstance(arg)
  BY OthersAssumption DEF L!InstanceAssumption
<1>2. PICK b \in arg.bounds : L!New(b) = L!Done(setup)
  BY DEF L!SetUp
<1>3. arg.scheme \in {"lwe", "lwe_fs", "ring_lwe"}
  BY <1>1 DEF L!IsInstance
<1>4. ASSUME arg.scheme = "lwe" PROVE IsLweMade(setup, arg)
  <2>1. L!LweNew(arg.prm, arg.l, b[1], b[2]) = L!Done(setup)
    BY <1>2, <1>4 DEF L!New
  <2> QED BY <1>1, <1>4, <2>1, LweMade
<1>5. ASSUME arg.scheme = "lwe_fs" PROVE IsLweFsMade(setup, arg)
  <2>1. L!LweFsNew(arg.prm, arg.l, b[1], b[2]) = L!Done(setup)
    BY <1>2, <1>5 DEF L!New
  <2> QED BY <1>1, <1>5, <2>1, LweFsMade
<1>6. ASSUME arg.scheme = "ring_lwe" PROVE IsRingMade(setup, arg)
  <2>1. L!RingNew(arg.prm, arg.l, b[1]) = L!Done(setup)
    BY <1>2, <1>6 DEF L!New
  <2> QED BY <1>1, <1>6, <2>1, RingMade
<1> QED BY <1>1, <1>3, <1>4, <1>5, <1>6 DEF LatticeMade

\* The keys, noise and data of the LWE scheme have the dimensions of the scheme.
LEMMA LweInputs ==
  ASSUME LatticeMade, arg.scheme = "lwe", NEW S \in arg.secrets
  PROVE  /\ IsLweScheme(setup) /\ L!SecretKey(S) = S /\ S \in L!IntMat(setup.n, setup.l)
         /\ \A E \in arg.noises : E \in L!IntMat(setup.m, setup.l)
         /\ \A e \in arg.nonces : e \in L!IntVec(setup.m)
         /\ \A y \in arg.ys : y \in L!IntVec(setup.l)
         /\ \A x \in arg.xs : x \in L!IntVec(L!Length(x))
BY DEF LatticeMade, IsLweMade, L!SecretKey, L!IsInstance, L!IsLwe

\* Those of the fully secure scheme.
LEMMA LweFsInputs ==
  ASSUME LatticeMade, arg.scheme = "lwe_fs", NEW S \in arg.secrets
  PROVE  /\ IsLweFsScheme(setup) /\ L!SecretKey(S) \in L!IntMat(setup.l, setup.m)
         /\ \A e \in arg.nonces : IsFsNonce(e, setup)
         /\ \A y \in arg.ys : y \in L!IntVec(setup.l)
         /\ \A x \in arg.xs : x \in L!IntVec(L!Length(x))
<1>1. IsLweFsScheme(setup) /\ setup.l = arg.l /\ setup.n = arg.prm.n /\ setup.m = arg.prm.m
  BY DEF LatticeMade, IsLweFsMade
<1>2. L!IsInstance(arg) /\ L!IsLweFs(arg)
  BY DEF LatticeMade, L!IsInstance
<1>3. L!SecretKey(S) \in L!IntMat(setup.l, setup.m)
  <2>1. S \in L!IntMat(setup.l, setup.m)
    BY <1>1, <1>2 DEF L!IsLweFs
  <2>2. L!SecretKey(S) = L!LweFsSecretKey(setup, S)
    BY DEF L!SecretKey
  <2> QED BY <1>1, <2>1, <2>2, LweFsSecret
<1>4. \A e \in arg.nonces : IsFsNonce(e, setup)
  BY <1>1, <1>2 DEF IsFsNonce, L!IsLweFs
<1>5. \A y \in arg.ys : y \in L!IntVec(setup.l)
  BY <1>1, <1>2 DEF L!IsInstance
<1>6. \A x \in arg.xs : x \in L!IntVec(L!Length(x))
  BY <1>2 DEF L!IsLweFs
<1> QED BY <1>1, <1>3, <1>4, <1>5, <1>6

\* Those of the ring-LWE scheme.
LEMMA RingInputs ==
  ASSUME LatticeMade, arg.scheme = "ring_lwe", NEW S \in arg.secrets
  PROVE  /\ IsRingScheme(setup) /\ L!SecretKey(S) = S /\ S \in L!IntMat(setup.l, setup.n)
         /\ \A E \in arg.noises : E \in L!IntMat(setup.l, setup.n)
         /\ \A X \in arg.xs : X \in L!IntMat(setup.l, setup.n)
         /\ \A e \in arg.nonces : IsRingNonce(e, setup)
         /\ \A y \in arg.ys : y \in L!IntVec(setup.l)
<1>1. IsRingScheme(setup) /\ setup.l = arg.l /\ setup.n = arg.prm.n /\ L!IsPowerOfTwo(arg.prm.n)
  BY DEF LatticeMade, IsRingMade
<1>2. L!IsInstance(arg) /\ L!IsRingLwe(arg)
  BY DEF LatticeMade, L!IsInstance
<1>3. /\ \A A \in arg.secrets \cup arg.noises \cup arg.xs : A \in L!IntMat(setup.l, setup.n)
      /\ \A e \in arg.nonces : IsRingNonce(e, setup)
  BY <1>1, <1>2 DEF L!IsRingLwe, IsRingNonce
<1>4. \A y \in arg.ys : y \in L!IntVec(setup.l)
  BY <1>1, <1>2 DEF L!IsInstance
<1>5. L!SecretKey(S) = S
  BY DEF L!SecretKey
<1> QED BY <1>1, <1>3, <1>4, <1>5

\* The results of the operations, whichever scheme is run.
IsPublicResult(r) ==
  /\ r.err = "NONE" /\ r = L!Done(r.res)
  /\ \A i \in DOMAIN r.res : \A j \in DOMAIN r.res[i] : r.res[i][j] \in L!Residues(setup.q)
IsKeyResult(r) ==
  /\ r.err \in {"NONE", "BOUND_CHECK_FAILED"}
  /\ r.err = "NONE" => r = L!Done(r.res) /\ \A i \in DOMAIN r.res : r.res[i] \in L!Residues(setup.q)
IsCtResult(r) ==
  /\ r.err \in {"NONE", "BOUND_CHECK_FAILED", "MALFORMED_INPUT"}
  /\ r.err = "NONE" => r = L!Done(r.res)

\* A public key.
LEMMA LatticePublic ==
  ASSUME LatticeMade, NEW S \in arg.secrets, NEW E \in arg.noises, NEW r, r = L!PublicKey(L!SecretKey(S), E)
  PROVE  /\ IsPublicResult(r)
         /\ arg.scheme = "lwe" => IsLwePublic(r, S, E, setup)
         /\ arg.scheme = "lwe_fs" => IsLweFsPublic(r, L!SecretKey(S), setup)
         /\ arg.scheme = "ring_lwe" => IsRingPublic(r, S, E, setup)
<1>1. CASE arg.scheme = "lwe"
  <2>1. r = L!LweGeneratePubKey(setup, S, E)
    BY <1>1, LweInputs DEF L!PublicKey
  <2>2. IsLwePublic(r, S, E, setup)
    BY <1>1, <2>1, LweInputs, LwePublicKey
  <2>3. r.err = "NONE" /\ r = L!Done(r.res) /\ r.res \in [0..(setup.m - 1) -> [0..(setup.l - 1) -> 0..(setup.q - 1)]]
    BY <2>2 DEF IsLwePublic
  <2> QED BY <1>1, <2>2, <2>3 DEF IsPublicResult, L!Residues
<1>2. CASE arg.scheme = "lwe_fs"
  <2>1. r = L!LweFsGeneratePubKey(setup, L!SecretKey(S))
    BY <1>2 DEF L!PublicKey
  <2>2. IsLweFsPublic(r, L!SecretKey(S), setup)
    BY <1>2, <2>1, LweFsInputs, LweFsPublicKey
  <2>3. r.err = "NONE" /\ r = L!Done(r.res) /\ r.res \in [0..(setup.l - 1) -> [0..(setup.n - 1) -> 0..(setup.q - 1)]]
    BY <2>2 DEF IsLweFsPublic
  <2> QED BY <1>2, <2>2, <2>3 DEF IsPublicResult, L!Residues
<1>3. CASE arg.scheme = "ring_lwe"
  <2>1. r = L!RingGeneratePubKey(setup, S, E)
    BY <1>3, RingInputs DEF L!PublicKey
  <2>2. IsRingPublic(r, S, E, setup)
    BY <1>3, <2>1, RingInputs, RingPublicKey
  <2>3. r.err = "NONE" /\ r = L!Done(r.res) /\ r.res \in [0..(setup.l - 1) -> [0..(setup.n - 1) -> 0..(setup.q - 1)]]
    BY <2>2 DEF IsRingPublic
  <2> QED BY <1>3, <2>2, <2>3 DEF IsPublicResult, L!Residues
<1> QED BY <1>1, <1>2, <1>3 DEF LatticeMade

\* A functional key.
LEMMA LatticeKey ==
  ASSUME LatticeMade, NEW S \in arg.secrets, NEW y \in arg.ys, NEW r, r = L!FeKey(L!SecretKey(S), y)
  PROVE  /\ IsKeyResult(r)
         /\ arg.scheme = "lwe" => IsLweKey(r, S, y, setup)
         /\ arg.scheme = "lwe_fs" => IsLweFsKey(r, L!SecretKey(S), y, setup)
         /\ arg.scheme = "ring_lwe" => IsRingKey(r, S, y, setup)
<1>1. CASE arg.scheme = "lwe"
  <2>1. r = L!LweDeriveFeKey(setup, S, y)
    BY <1>1, LweInputs DEF L!FeKey
  <2>2. IsLweKey(r, S, y, setup)
    BY <1>1, <2>1, LweInputs, LweKey
  <2>3. /\ r.err \in {"NONE", "BOUND_CHECK_FAILED"}
        /\ r.err = "NONE" => r = L!Done(r.res) /\ r.res \in [0..(setup.n - 1) -> 0..(setup.q - 1)]
    BY <2>2 DEF IsLweKey
  <2> QED BY <1>1, <2>2, <2>3 DEF IsKeyResult, L!Residues
<1>2. CASE arg.scheme = "lwe_fs"
  <2>1. r = L!LweFsDeriveFeKey(setup, L!SecretKey(S), y)
    BY <1>2 DEF L!FeKey
  <2>2. IsLweFsKey(r, L!SecretKey(S), y, setup)
    BY <1>2, <2>1, LweFsInputs, LweFsKey
  <2>3. /\ r.err \in {"NONE", "BOUND_CHECK_FAILED"}
        /\ r.err = "NONE" => r = L!Done(r.res) /\ r.res \in [0..(setup.m - 1) -> 0..(setup.q - 1)]
    BY <2>2 DEF IsLweFsKey
  <2> QED BY <1>2, <2>2, <2>3 DEF IsKeyResult, L!Residues
<1>3. CASE arg.scheme = "ring_lwe"
  <2>1. r = L!RingDeriveFeKey(setup, S, y)
    BY <1>3, RingInputs DEF L!FeKey
  <2>2. IsRingKey(r, S, y, setup)
    BY <1>3, <2>1, RingInputs, RingKey
  <2>3. /\ r.err \in {"NONE", "BOUND_CHECK_FAILED"}
        /\ r.err = "NONE" => r = L!Done(r.res) /\ r.res \in [0..(setup.n - 1) -> 0..(setup.q - 1)]
    BY <2>2 DEF IsRingKey
  <2> QED BY <1>3, <2>2, <2>3 DEF IsKeyResult, L!Residues
<1> QED BY <1>1, <1>2, <1>3 DEF LatticeMade

\* A ciphertext, under a public key of a secret key of the instance.
LEMMA LatticeCiphertext ==
  ASSUME LatticeMade, NEW S \in arg.secrets, NEW E \in arg.noises, NEW x \in arg.xs, NEW e \in arg.nonces,
         NEW K, K = L!PublicKey(L!SecretKey(S), E).res, NEW r, r = L!Ciphertext(x, K, e)
  PROVE  /\ IsCtResult(r)
         /\ arg.scheme = "lwe" => IsLweCiphertext(r, K, x, e, setup)
         /\ arg.scheme = "lwe_fs" => IsLweFsCiphertext(r, K, x, e, setup)
         /\ arg.scheme = "ring_lwe" => IsRingCiphertext(r, K, x, e, setup)
<1>0. PICK f : f = L!PublicKey(L!SecretKey(S), E) /\ K = f.res
  OBVIOUS
<1>1. CASE arg.scheme = "lwe"
  <2>1. r = L!LweEncrypt(setup, x, K, e)
    BY <1>1 DEF L!Ciphertext
  <2>2. K \in L!IntMat(setup.m, setup.l)
    <3>1. IsLwePublic(f, S, E, setup)
      BY <1>0, <1>1, LatticePublic
    <3> QED BY <1>0, <3>1 DEF IsLwePublic
  <2>3. IsLweScheme(setup) /\ x \in L!IntVec(L!Length(x)) /\ e \in L!IntVec(setup.m)
    BY <1>1, LweInputs
  <2>4. IsLweCiphertext(r, K, x, e, setup)
    BY <2>1, <2>2, <2>3, LweCiphertext
  <2> QED BY <1>1, <2>4 DEF IsLweCiphertext, IsCtResult
<1>2. CASE arg.scheme = "lwe_fs"
  <2>1. r = L!LweFsEncrypt(setup, x, K, e)
    BY <1>2 DEF L!Ciphertext
  <2>2. K \in L!IntMat(setup.l, setup.n)
    <3>1. IsLweFsPublic(f, L!SecretKey(S), setup)
      BY <1>0, <1>2, LatticePublic
    <3> QED BY <1>0, <3>1 DEF IsLweFsPublic
  <2>3. IsLweFsScheme(setup) /\ x \in L!IntVec(L!Length(x)) /\ IsFsNonce(e, setup)
    BY <1>2, LweFsInputs
  <2>4. IsLweFsCiphertext(r, K, x, e, setup)
    BY <2>1, <2>2, <2>3, LweFsCiphertext
  <2> QED BY <1>2, <2>4 DEF IsLweFsCiphertext, IsCtResult
<1>3. CASE arg.scheme = "ring_lwe"
  <2>1. r = L!RingEncrypt(setup, x, K, e)
    BY <1>3 DEF L!Ciphertext
  <2>2. K \in L!IntMat(setup.l, setup.n)
    <3>1. IsRingPublic(f, S, E, setup)
      BY <1>0, <1>3, LatticePublic
    <3> QED BY <1>0, <3>1 DEF IsRingPublic
  <2>3. IsRingScheme(setup) /\ x \in L!IntMat(setup.l, setup.n) /\ IsRingNonce(e, setup)
    BY <1>3, RingInputs
  <2>4. IsRingCiphertext(r, K, x, e, setup)
    BY <2>1, <2>2, <2>3, RingCiphertext
  <2> QED BY <1>3, <2>4 DEF IsRingCiphertext, IsCtResult
<1> QED BY <1>1, <1>2, <1>3 DEF LatticeMade

\* A decryption with a key for any vector of the instance: its codes, and what it finds with
\* a key of the same secret key for the same vector.
IsRun(S, T, E, x, e, u, c, k) ==
  /\ S \in arg.secrets /\ T \in arg.secrets /\ E \in arg.noises /\ x \in arg.xs /\ e \in arg.nonces
  /\ u \in arg.ys
  /\ c = L!Ciphertext(x, L!PublicKey(L!SecretKey(S), E).res, e) /\ c.err = "NONE"
  /\ k = L!FeKey(L!SecretKey(T), u) /\ k.err = "NONE"
Finds(r, S, T, E, x, e, u, y) ==
  /\ r.err \in {"NONE", "BOUND_CHECK_FAILED"}
  /\ (/\ r.err = "NONE" /\ S = T /\ u = y
      /\ L!NoiseTolerated(L!SecretKey(S), E, e, y) /\ L!Fits(x, y))
       => r.res = L!Product(x, y)

\* A run of the LWE scheme.
LEMMA LweRun ==
  ASSUME LatticeMade, arg.scheme = "lwe", NEW S, NEW T, NEW E, NEW x, NEW e, NEW u, NEW c, NEW k,
         IsRun(S, T, E, x, e, u, c, k), NEW y \in arg.ys, NEW r, r = L!Plaintext(c.res, k.res, y)
  PROVE  Finds(r, S, T, E, x, e, u, y)
<1>1. /\ S \in arg.secrets /\ T \in arg.secrets /\ E \in arg.noises /\ x \in arg.xs /\ e \in arg.nonces
      /\ u \in arg.ys /\ c.err = "NONE" /\ k.err = "NONE" /\ k = L!FeKey(L!SecretKey(T), u)
  BY DEF IsRun
<1>2. PICK f : f = L!PublicKey(L!SecretKey(S), E)
  OBVIOUS
<1>3. IsLwePublic(f, S, E, setup)
  BY <1>1, <1>2, LatticePublic
<1>4. IsLweCiphertext(c, f.res, x, e, setup)
  BY <1>1, <1>2, LatticeCiphertext DEF IsRun
<1>5. IsLweKey(k, T, u, setup)
  BY <1>1, LatticeKey
<1>6. /\ IsLweScheme(setup) /\ S \in L!IntMat(setup.n, setup.l) /\ E \in L!IntMat(setup.m, setup.l)
      /\ e \in L!IntVec(setup.m) /\ y \in L!IntVec(setup.l)
  BY <1>1, LweInputs
<1>7. PICK v, d : AreLweParts(c.res, v, d, f.res, x, e, setup) /\ x \in L!IntVec(setup.l)
  BY <1>1, <1>4 DEF IsLweCiphertext
<1>8. k.res \in L!IntVec(setup.n)
  BY <1>1, <1>5 DEF IsLweKey
<1>9. PICK z : IsLweSum(z, c.res, v, k.res, y, setup)
  BY DEF IsLweSum
<1>10. PICK w : w = (CentreOf(z % setup.q, setup.q) * setup.p + setup.q \div 2) \div setup.q
  OBVIOUS
<1>11. r = L!Failed("BOUND_CHECK_FAILED") \/ r = L!Done(w)
  <2>1. r = L!LweDecrypt(setup, c.res, k.res, y)
    BY DEF L!Plaintext
  <2> QED BY <1>6, <1>7, <1>8, <1>9, <1>10, <2>1, LwePlaintextIs
<1>12. ASSUME S = T, u = y, L!NoiseTolerated(L!SecretKey(S), E, e, y), L!Fits(x, y)
       PROVE  w = L!Product(x, y)
  <2>1. L!LweTolerated(setup, L!LweNoise(E, e, y), y)
    BY <1>12 DEF L!NoiseTolerated
  <2>2. L!Bounded(x, setup.bx) /\ L!Bounded(y, setup.by)
    BY <1>12 DEF L!Fits
  <2>3. 2 * Dot(x, y) < setup.p /\ -2 * Dot(x, y) < setup.p
    <3>1. LweAdmits(setup)
      BY DEF LatticeMade, IsLweMade
    <3> QED BY <1>6, <1>7, <2>2, <3>1 DEF LweAdmits
  <2>4. IsLweKey(k, S, y, setup)
    BY <1>5, <1>12
  <2>5. w = Dot(x, y)
    <3>1. k.err = "NONE"
      BY <1>1
    <3>2. IsLweDecryption(setup, S, E, f, x, e, c.res, v, d, y, k, z)
      BY <1>3, <1>6, <1>7, <1>9, <2>1, <2>3, <2>4, <3>1 DEF IsLweDecryption
    <3>3. (CentreOf(z % setup.q, setup.q) * setup.p + setup.q \div 2) \div setup.q = Dot(x, y)
      BY <3>2, LweFinds
    <3> QED BY <1>10, <3>3
  <2> QED BY <2>5, SameLattice DEF L!Product
<1> QED BY <1>11, <1>12 DEF Finds, L!Done, L!Failed

\* A run of the fully secure scheme.
LEMMA LweFsRun ==
  ASSUME LatticeMade, arg.scheme = "lwe_fs", NEW S, NEW T, NEW E, NEW x, NEW e, NEW u, NEW c, NEW k,
         IsRun(S, T, E, x, e, u, c, k), NEW y \in arg.ys, NEW r, r = L!Plaintext(c.res, k.res, y)
  PROVE  Finds(r, S, T, E, x, e, u, y)
<1>1. /\ S \in arg.secrets /\ T \in arg.secrets /\ E \in arg.noises /\ x \in arg.xs /\ e \in arg.nonces
      /\ u \in arg.ys /\ c.err = "NONE" /\ k.err = "NONE" /\ k = L!FeKey(L!SecretKey(T), u)
  BY DEF IsRun
<1>2. PICK f, A, B : f = L!PublicKey(L!SecretKey(S), E) /\ A = L!SecretKey(S) /\ B = L!SecretKey(T)
  OBVIOUS
<1>3. IsLweFsPublic(f, A, setup)
  BY <1>1, <1>2, LatticePublic
<1>4. IsLweFsCiphertext(c, f.res, x, e, setup)
  BY <1>1, <1>2, LatticeCiphertext DEF IsRun
<1>5. IsLweFsKey(k, B, u, setup)
  BY <1>1, <1>2, LatticeKey
<1>6. /\ IsLweFsScheme(setup) /\ A \in L!IntMat(setup.l, setup.m)
      /\ IsFsNonce(e, setup) /\ y \in L!IntVec(setup.l)
  BY <1>1, <1>2, LweFsInputs
<1>7. PICK c0, c1, g, v : AreLweFsParts(c.res, c0, c1, g, v, f.res, x, e, setup) /\ x \in L!IntVec(setup.l)
  BY <1>1, <1>4 DEF IsLweFsCiphertext
<1>8. k.res \in L!IntVec(setup.m)
  BY <1>1, <1>5 DEF IsLweFsKey
<1>9. PICK z : IsLweFsSum(z, c0, c1, k.res, y)
  BY DEF IsLweFsSum
<1>10. PICK w : w = (CentreOf(z % setup.q, setup.q) + setup.q \div (2 * setup.K)) \div (setup.q \div setup.K)
  OBVIOUS
<1>11. r = L!Failed("BOUND_CHECK_FAILED") \/ r = L!Done(w)
  <2>1. r = L!LweFsDecrypt(setup, c.res, k.res, y)
    BY DEF L!Plaintext
  <2> QED BY <1>6, <1>7, <1>8, <1>9, <1>10, <2>1, LweFsPlaintextIs
<1>12. ASSUME S = T, u = y, L!NoiseTolerated(L!SecretKey(S), E, e, y), L!Fits(x, y)
       PROVE  w = L!Product(x, y)
  <2>1. L!LweFsTolerated(setup, L!LweFsNoise(A, e, y))
    BY <1>2, <1>12 DEF L!NoiseTolerated
  <2>2. L!LweFsInRange(setup, Dot(x, y))
    <3>1. L!LweFsInRange(setup, L!Dot(x, y))
      BY <1>12 DEF L!Fits, L!Product
    <3> QED BY <3>1, SameLattice
  <2>3. IsLweFsKey(k, A, y, setup)
    BY <1>2, <1>5, <1>12
  <2>4. w = Dot(x, y)
    <3>1. k.err = "NONE"
      BY <1>1
    <3>2. IsLweFsDecryption(setup, A, f, x, e, c.res, c0, c1, g, v, y, k, z)
      BY <1>3, <1>6, <1>7, <1>9, <2>1, <2>2, <2>3, <3>1 DEF IsLweFsDecryption
    <3>3. (CentreOf(z % setup.q, setup.q) + setup.q \div (2 * setup.K)) \div (setup.q \div setup.K)
            = Dot(x, y)
      BY <3>2, LweFsFinds
    <3> QED BY <1>10, <3>3
  <2> QED BY <2>4, SameLattice DEF L!Product
<1> QED BY <1>11, <1>12 DEF Finds, L!Done, L!Failed

\* A run of the ring-LWE scheme.
LEMMA RingRun ==
  ASSUME LatticeMade, arg.scheme = "ring_lwe", NEW S, NEW T, NEW E, NEW x, NEW e, NEW u, NEW c, NEW k,
         IsRun(S, T, E, x, e, u, c, k), NEW y \in arg.ys, NEW r, r = L!Plaintext(c.res, k.res, y)
  PROVE  Finds(r, S, T, E, x, e, u, y)
<1>1. /\ S \in arg.secrets /\ T \in arg.secrets /\ E \in arg.noises /\ x \in arg.xs /\ e \in arg.nonces
      /\ u \in arg.ys /\ c.err = "NONE" /\ k.err = "NONE" /\ k = L!FeKey(L!SecretKey(T), u)
  BY DEF IsRun
<1>2. PICK f : f = L!PublicKey(L!SecretKey(S), E)
  OBVIOUS
<1>3. IsRingPublic(f, S, E, setup)
  BY <1>1, <1>2, LatticePublic
<1>4. IsRingCiphertext(c, f.res, x, e, setup)
  BY <1>1, <1>2, LatticeCiphertext DEF IsRun
<1>5. IsRingKey(k, T, u, setup)
  BY <1>1, LatticeKey
<1>6. /\ IsRingScheme(setup) /\ S \in L!IntMat(setup.l, setup.n) /\ E \in L!IntMat(setup.l, setup.n)
      /\ x \in L!IntMat(setup.l, setup.n) /\ IsRingNonce(e, setup) /\ y \in L!IntVec(setup.l)
  BY <1>1, RingInputs
<1>7. PICK C, last, W, V : AreRingParts(c.res, C, last, W, V, f.res, x, e, setup)
  BY <1>1, <1>4 DEF IsRingCiphertext
<1>8. k.res \in L!IntVec(setup.n)
  BY <1>1, <1>5 DEF IsRingKey
<1>9. PICK z : IsRingSum(z, C, last, k.res, y, setup)
  BY DEF IsRingSum
<1>10. PICK w : w = [i \in 0..(setup.n - 1) |->
                       (CentreOf(z[i] % setup.q, setup.q) * setup.p + setup.q \div 2) \div setup.q]
  OBVIOUS
<1>11. r = L!Failed("BOUND_CHECK_FAILED") \/ r = L!Done(w)
  <2>1. r = L!RingDecrypt(setup, c.res, k.res, y)
    BY DEF L!Plaintext
  <2> QED BY <1>6, <1>7, <1>8, <1>9, <1>10, <2>1, RingPlaintextIs
<1>12. ASSUME S = T, u = y, L!NoiseTolerated(L!SecretKey(S), E, e, y), L!Fits(x, y)
       PROVE  w = L!Product(x, y)
  <2>1. L!RingTolerated(setup, L!RingNoise(setup, S, E, e, y), y)
    <3>1. L!SecretKey(S) = S
      BY <1>1, RingInputs
    <3> QED BY <1>12, <3>1 DEF L!NoiseTolerated
  <2>2. L!Product(x, y) = L!MulMatrix(y, x)
    BY DEF L!Product
  <2>3. L!RingInRange(setup, L!MulMatrix(y, x))
    <3>1. L!RingInRange(setup, L!Product(x, y))
      BY <1>12 DEF L!Fits
    <3> QED BY <2>2, <3>1
  <2>4. IsRingKey(k, S, y, setup)
    BY <1>5, <1>12
  <2>5. w = L!MulMatrix(y, x)
    <3>1. k.err = "NONE"
      BY <1>1
    <3>2. IsRingDecryption(setup, S, E, f, x, e, c.res, C, last, W, V, y, k, z)
      BY <1>3, <1>6, <1>7, <1>9, <2>1, <2>3, <2>4, <3>1 DEF IsRingDecryption
    <3>3. [i \in 0..(setup.n - 1) |->
            (CentreOf(z[i] % setup.q, setup.q) * setup.p + setup.q \div 2) \div setup.q]
            = L!MulMatrix(y, x)
      BY <3>2, RingFinds
    <3> QED BY <1>10, <3>3
  <2> QED BY <2>2, <2>5
<1> QED BY <1>11, <1>12 DEF Finds, L!Done, L!Failed

\* A decryption, whichever scheme is run.
LEMMA LatticePlaintext ==
  ASSUME LatticeMade, NEW S, NEW T, NEW E, NEW x, NEW e, NEW u, NEW c, NEW k,
         IsRun(S, T, E, x, e, u, c, k), NEW y \in arg.ys, NEW r, r = L!Plaintext(c.res, k.res, y)
  PROVE  Finds(r, S, T, E, x, e, u, y)
<1>1. arg.scheme = "lwe" \/ arg.scheme = "lwe_fs" \/ arg.scheme = "ring_lwe"
  BY DEF LatticeMade
<1> QED BY <1>1, LweRun, LweFsRun, RingRun

-----------------------------------------------------------------------------
(* The steps of the machines of the schemes from lattices *)

\* What depends on the instance and the scheme only does not change with the rest.
LEMMA SameLatticeCalls ==
  ASSUME arg' = arg, setup' = setup
  PROVE  /\ \A b : L!New(b)' = L!New(b)
         /\ \A m : L!SecretKey(m)' = L!SecretKey(m)
         /\ \A K, E : L!PublicKey(K, E)' = L!PublicKey(K, E)
         /\ \A K, y : L!FeKey(K, y)' = L!FeKey(K, y)
         /\ \A x, K, n : L!Ciphertext(x, K, n)' = L!Ciphertext(x, K, n)
<1>1. \A b : L!New(b)' = L!New(b)
  BY DEF L!New
<1>2. \A m : L!SecretKey(m)' = L!SecretKey(m)
  BY DEF L!SecretKey
<1>3. \A K, E : L!PublicKey(K, E)' = L!PublicKey(K, E)
  BY DEF L!PublicKey
<1>4. \A K, y : L!FeKey(K, y)' = L!FeKey(K, y)
  BY DEF L!FeKey
<1>5. \A x, K, n : L!Ciphertext(x, K, n)' = L!Ciphertext(x, K, n)
  BY DEF L!Ciphertext
<1> QED BY <1>1, <1>2, <1>3, <1>4, <1>5

\* The scheme is still one of the instance.
LEMMA SameLatticeSetUp ==
  ASSUME arg' = arg, setup' = setup, setup # L!NoScheme, L!SetUp
  PROVE  L!SetUp'
<1>1. PICK b \in arg.bounds : L!New(b) = L!Done(setup)
  BY DEF L!SetUp
<1>2. L!New(b)' = L!Done(setup)
  BY <1>1, SameLatticeCalls
<1>3. setup' # L!NoScheme'
  BY DEF L!NoScheme
<1>4. \E c \in arg'.bounds : L!New(c)' = L!Done(setup')
  BY <1>1, <1>2
<1> QED BY <1>3, <1>4 DEF L!SetUp

\* Which data a scheme can return the product of, and what the product is, stays the same.
LEMMA SameLatticeFits ==
  ASSUME arg' = arg, setup' = setup
  PROVE  \A x, y : L!Product(x, y)' = L!Product(x, y) /\ L!Fits(x, y)' = L!Fits(x, y)
<1>1. \A x, y : L!Product(x, y)' = L!Product(x, y)
  BY DEF L!Product
<1>2. \A x, y : L!Fits(x, y)' = L!Fits(x, y)
  BY <1>1, Zenon DEF L!Fits
<1> QED BY <1>1, <1>2

\* What the last decryption has found is right for the same instance and scheme.
LEMMA SameLatticeAnswer ==
  ASSUME UNCHANGED <<arg, setup, answer>>, L!DecryptCorrect
  PROVE  L!DecryptCorrect'
BY SameLatticeFits DEF L!DecryptCorrect

\* What the invariant is made of.
LEMMA LatticeParts ==
  ASSUME L!IInv
  PROVE  /\ L!TypeOK /\ L!DecryptCorrect /\ L!SetUp /\ arg \in LatticeInstances
         /\ MaxEpoch \in Nat /\ count \in Nat /\ count <= MaxEpoch /\ public.epoch \in 0..count
         /\ setup # L!NoScheme => LatticeMade /\ \E h \in [1..count -> arg.secrets] : L!Genuine(h)
         /\ setup = L!NoScheme => count = 0 /\ public = L!Nothing /\ ct = L!Nothing /\ key = L!Nothing
<1>1. L!TypeOK /\ L!DecryptCorrect /\ L!SetUp /\ arg \in LatticeInstances /\ MaxEpoch \in Nat
  BY InstanceAssumption DEF L!IInv
<1>2. count \in Nat /\ count <= MaxEpoch /\ public.epoch \in 0..count
  BY <1>1 DEF L!TypeOK
<1>3. setup # L!NoScheme => LatticeMade
  BY <1>1, SetUpLattice
<1>4. setup # L!NoScheme => \E h \in [1..count -> arg.secrets] : L!Genuine(h)
  BY DEF L!IInv
<1>5. setup = L!NoScheme => count = 0 /\ public = L!Nothing /\ ct = L!Nothing /\ key = L!Nothing
  BY <1>1 DEF L!SetUp
<1> QED BY <1>1, <1>2, <1>3, <1>4, <1>5

\* A step that makes no scheme keeps the invariant, when what it holds has a history.
LEMMA LatticeKeeps ==
  ASSUME L!SetUp, arg \in LatticeInstances, setup # L!NoScheme, UNCHANGED <<arg, setup>>,
         L!TypeOK', L!DecryptCorrect', NEW h \in [1..count' -> arg.secrets], L!Genuine(h)'
  PROVE  L!IInv'
<1>1. L!SetUp'
  BY SameLatticeSetUp
<1>2. h \in [1..count -> arg.secrets]'
  OBVIOUS
<1> QED BY <1>1, <1>2 DEF L!IInv

\* The invariant holds before the set-up.
LEMMA LatticeInit == L!Init => L!IInv
<1> SUFFICES ASSUME L!Init PROVE L!IInv
  OBVIOUS
<1>1. L!TypeOK
  BY InstanceAssumption DEF L!Init, L!TypeOK, L!NoScheme, L!Nothing, L!NotADecryption, L!Done
<1>2. L!DecryptCorrect
  BY DEF L!Init, L!DecryptCorrect, L!NotADecryption, L!Done
<1> QED BY <1>1, <1>2 DEF L!Init, L!IInv, L!SetUp

\* What a set-up returns.
LEMMA SetUpReturns ==
  ASSUME arg \in LatticeInstances, NEW b, NEW r, r = L!New(b)
  PROVE  /\ r.err \in {"NONE", "ABORT", "PRIME_GEN_FAILED", "PARAM_GEN_FAILED", "PRECONDITION_FAILED"}
         /\ r.err = "NONE" => r = L!Done(r.res)
<1>1. L!IsInstance(arg)
  BY OthersAssumption DEF L!InstanceAssumption
<1>2. /\ arg.scheme \in {"lwe", "lwe_fs", "ring_lwe"}
      /\ arg.scheme # "ring_lwe" => arg.prm.err \in {"NONE", "PRIME_GEN_FAILED", "PARAM_GEN_FAILED"}
  BY <1>1 DEF L!IsInstance
<1>3. CASE arg.scheme = "lwe"
  <2>1. r = L!LweNew(arg.prm, arg.l, b[1], b[2])
    BY <1>3 DEF L!New
  <2>2. \/ r.err \in {"PRIME_GEN_FAILED", "PARAM_GEN_FAILED"}
        \/ r.err = "NONE" /\ r = L!Done(r.res)
    BY <1>2, <1>3, <2>1 DEF L!LweNew, L!Done, L!Failed
  <2> QED BY <2>2
<1>4. CASE arg.scheme = "lwe_fs"
  <2>1. r = L!LweFsNew(arg.prm, arg.l, b[1], b[2])
    BY <1>4 DEF L!New
  <2>2. \/ r.err \in {"ABORT", "PRIME_GEN_FAILED", "PARAM_GEN_FAILED"}
        \/ r.err = "NONE" /\ r = L!Done(r.res)
    BY <1>2, <1>4, <2>1 DEF L!LweFsNew, L!Done, L!Failed
  <2> QED BY <2>2
<1>5. CASE arg.scheme = "ring_lwe"
  <2>1. r = L!RingNew(arg.prm, arg.l, b[1])
    BY <1>5 DEF L!New
  <2>2. r.err = "PRECONDITION_FAILED" \/ (r.err = "NONE" /\ r = L!Done(r.res))
    BY <2>1 DEF L!RingNew, L!Done, L!Failed
  <2> QED BY <2>2
<1> QED BY <1>2, <1>3, <1>4, <1>5

\* The set-up.
LEMMA LatticeSetup ==
  ASSUME L!IInv, NEW b \in arg.bounds, L!Setup(b)
  PROVE  L!IInv'
<1>0. PICK r : r = L!New(b)
  OBVIOUS
<1>1. /\ setup = L!NoScheme /\ UNCHANGED <<arg, master, count, public, ct, key>>
      /\ setup' = (IF r.err = "NONE" THEN r.res ELSE L!NoScheme) /\ answer' = L!NotADecryption(r)
  BY <1>0 DEF L!Setup
<1>2. /\ count = 0 /\ public = L!Nothing /\ ct = L!Nothing /\ key = L!Nothing
      /\ arg \in LatticeInstances /\ MaxEpoch \in Nat
  BY <1>1, LatticeParts
<1>3. /\ r.err \in {"NONE", "ABORT", "PRIME_GEN_FAILED", "PARAM_GEN_FAILED", "PRECONDITION_FAILED"}
      /\ r.err = "NONE" => r = L!Done(r.res)
  BY <1>0, <1>2, SetUpReturns
<1>4. L!TypeOK'
  BY <1>1, <1>2, <1>3 DEF L!TypeOK, L!Nothing, L!NotADecryption
<1>5. L!DecryptCorrect'
  BY <1>1 DEF L!DecryptCorrect, L!NotADecryption
<1>6. L!SetUp'
  <2>1. CASE setup' = L!NoScheme
    BY <1>1, <1>2, <2>1 DEF L!SetUp, L!NoScheme, L!Nothing
  <2>2. CASE setup' # L!NoScheme
    <3>1. L!New(b) = L!Done(setup')
      BY <1>0, <1>1, <1>3, <2>2
    <3>2. L!New(b)' = L!New(b)
      BY <1>1 DEF L!New
    <3> QED BY <1>1, <2>2, <3>1, <3>2 DEF L!SetUp, L!NoScheme
  <2> QED BY <2>1, <2>2
<1>7. \E h \in [1..count -> arg.secrets]' : L!Genuine(h)'
  <2>1. PICK h : h = [i \in 1..0 |-> 0]
    OBVIOUS
  <2>2. h \in [1..count -> arg.secrets]'
    BY <1>1, <1>2, <2>1
  <2>3. L!Genuine(h)'
    BY <1>1, <1>2 DEF L!Genuine, L!Nothing
  <2> QED BY <2>2, <2>3
<1> QED BY <1>1, <1>2, <1>4, <1>5, <1>6, <1>7 DEF L!IInv

\* A new secret key.
LEMMA LatticeGenerate ==
  ASSUME L!IInv, NEW m \in arg.secrets, L!GenerateSecKey(m)
  PROVE  L!IInv'
<1>1. /\ setup # L!NoScheme /\ count < MaxEpoch /\ count' = count + 1 /\ master' = L!SecretKey(m)
      /\ UNCHANGED <<arg, setup, public, ct, key, answer>>
  BY DEF L!GenerateSecKey
<1>2. /\ L!TypeOK /\ L!DecryptCorrect /\ L!SetUp /\ arg \in LatticeInstances /\ count \in Nat
      /\ MaxEpoch \in Nat /\ public.epoch \in 0..count
  BY LatticeParts
<1>3. PICK h \in [1..count -> arg.secrets] : L!Genuine(h)
  BY <1>1, LatticeParts
<1>4. L!TypeOK'
  <2>1. count' \in 0..MaxEpoch /\ public'.epoch \in 0..count'
    BY <1>1, <1>2
  <2> QED BY <1>1, <1>2, <2>1 DEF L!TypeOK, L!Residues, L!Nothing
<1>5. L!DecryptCorrect'
  BY <1>1, <1>2, SameLatticeAnswer
<1>6. PICK k : k = [i \in 1..(count + 1) |-> IF i = count + 1 THEN m ELSE h[i]]
  OBVIOUS
<1>7. /\ k \in [1..(count + 1) -> arg.secrets] /\ k[count + 1] = m
      /\ \A i \in 1..count : i \in 1..(count + 1) /\ k[i] = h[i]
  BY <1>2, <1>6
<1>8. L!Genuine(k)'
  <2>1. master' = L!SecretKey(k[count'])
    BY <1>1, <1>7
  <2>2. ASSUME public # L!Nothing
        PROVE  /\ public.epoch \in 1..(count + 1) /\ public.E \in arg.noises
               /\ L!PublicKey(L!SecretKey(k[public.epoch]), public.E) = L!Done(public.pk)
    BY <1>3, <1>7, <2>2 DEF L!Genuine
  <2>3. ASSUME ct # L!Nothing
        PROVE  /\ ct.epoch \in 1..(count + 1) /\ ct.x \in arg.xs /\ ct.E \in arg.noises /\ ct.n \in arg.nonces
               /\ L!Ciphertext(ct.x, L!PublicKey(L!SecretKey(k[ct.epoch]), ct.E).res, ct.n) = L!Done(ct.ct)
    BY <1>3, <1>7, <2>3 DEF L!Genuine
  <2>4. ASSUME key # L!Nothing
        PROVE  /\ key.epoch \in 1..(count + 1) /\ key.y \in arg.ys /\ key.sk = L!SecretKey(k[key.epoch])
               /\ L!FeKey(key.sk, key.y) = L!Done(key.key)
    BY <1>3, <1>7, <2>4 DEF L!Genuine
  <2> QED BY <1>1, <1>2, <2>1, <2>2, <2>3, <2>4, SameLatticeCalls DEF L!Genuine, L!Nothing
<1> QED BY <1>1, <1>2, <1>4, <1>5, <1>7, <1>8, LatticeKeeps

\* A public key is issued, with new noise.
LEMMA LatticeIssue ==
  ASSUME L!IInv, NEW E \in arg.noises, L!GeneratePubKey(E)
  PROVE  L!IInv'
<1>0. PICK r : r = L!PublicKey(master, E)
  OBVIOUS
<1>1. /\ count > 0 /\ UNCHANGED <<arg, setup, master, count, ct, key>>
      /\ public' = IF r.err = "NONE" THEN [epoch |-> count, E |-> E, pk |-> r.res] ELSE public
      /\ answer' = L!NotADecryption(r)
  BY <1>0 DEF L!GeneratePubKey
<1>2. /\ L!TypeOK /\ L!SetUp /\ arg \in LatticeInstances /\ count \in Nat
      /\ MaxEpoch \in Nat /\ public.epoch \in 0..count /\ setup # L!NoScheme /\ LatticeMade
  BY <1>1, LatticeParts
<1>3. PICK h \in [1..count -> arg.secrets] : L!Genuine(h)
  BY <1>2, LatticeParts
<1>4. count \in 1..count /\ master = L!SecretKey(h[count]) /\ h[count] \in arg.secrets
  BY <1>1, <1>2, <1>3 DEF L!Genuine
<1>5. IsPublicResult(r)
  BY <1>0, <1>2, <1>4, LatticePublic
<1>6. /\ r.err = "NONE" /\ r = L!Done(r.res)
      /\ \A i \in DOMAIN r.res : \A j \in DOMAIN r.res[i] : r.res[i][j] \in L!Residues(setup.q)
  BY <1>5 DEF IsPublicResult
<1>7. public' = [epoch |-> count, E |-> E, pk |-> r.res] /\ answer'.err = "NONE" /\ answer'.same = FALSE
  BY <1>1, <1>6 DEF L!NotADecryption
<1>8. L!TypeOK'
  BY <1>1, <1>2, <1>6, <1>7 DEF L!TypeOK, L!Residues, L!Nothing
<1>9. L!DecryptCorrect'
  BY <1>7 DEF L!DecryptCorrect
<1>10. L!Genuine(h)'
  <2>1. /\ public'.epoch \in 1..count /\ public'.E \in arg.noises
        /\ L!PublicKey(L!SecretKey(h[public'.epoch]), public'.E) = L!Done(public'.pk)
    BY <1>0, <1>4, <1>6, <1>7
  <2> QED BY <1>1, <1>3, <2>1, SameLatticeCalls DEF L!Genuine, L!Nothing
<1>11. h \in [1..count' -> arg.secrets]
  BY <1>1
<1> QED BY <1>1, <1>2, <1>8, <1>9, <1>10, <1>11, LatticeKeeps

\* A functional key is issued.
LEMMA LatticeDerive ==
  ASSUME L!IInv, NEW y \in arg.ys, L!DeriveFeKey(y)
  PROVE  L!IInv'
<1>0. PICK r : r = L!FeKey(master, y)
  OBVIOUS
<1>1. /\ count > 0 /\ UNCHANGED <<arg, setup, master, count, public, ct>>
      /\ key' = IF r.err = "NONE" THEN [epoch |-> count, y |-> y, sk |-> master, key |-> r.res] ELSE key
      /\ answer' = L!NotADecryption(r)
  BY <1>0 DEF L!DeriveFeKey
<1>2. /\ L!TypeOK /\ L!SetUp /\ arg \in LatticeInstances /\ count \in Nat
      /\ MaxEpoch \in Nat /\ public.epoch \in 0..count /\ setup # L!NoScheme /\ LatticeMade
  BY <1>1, LatticeParts
<1>3. PICK h \in [1..count -> arg.secrets] : L!Genuine(h)
  BY <1>2, LatticeParts
<1>4. count \in 1..count /\ master = L!SecretKey(h[count]) /\ h[count] \in arg.secrets
  BY <1>1, <1>2, <1>3 DEF L!Genuine
<1>5. IsKeyResult(r)
  BY <1>0, <1>2, <1>4, LatticeKey
<1>6. /\ r.err \in {"NONE", "BOUND_CHECK_FAILED"}
      /\ r.err = "NONE" => r = L!Done(r.res) /\ \A i \in DOMAIN r.res : r.res[i] \in L!Residues(setup.q)
  BY <1>5 DEF IsKeyResult
<1>7. answer'.err = r.err /\ answer'.same = FALSE
  BY <1>1 DEF L!NotADecryption
<1>8. L!TypeOK'
  <2>1. ASSUME key' # L!Nothing, NEW i \in DOMAIN key'.key PROVE key'.key[i] \in L!Residues(setup.q)
    <3>1. CASE r.err = "NONE"
      BY <1>1, <1>6, <2>1, <3>1
    <3>2. CASE r.err # "NONE"
      BY <1>1, <1>2, <2>1, <3>2 DEF L!TypeOK
    <3> QED BY <3>1, <3>2
  <2> QED BY <1>1, <1>2, <1>6, <1>7, <2>1 DEF L!TypeOK, L!Residues, L!Nothing
<1>9. L!DecryptCorrect'
  BY <1>7 DEF L!DecryptCorrect
<1>10. L!Genuine(h)'
  <2>1. ASSUME key' # L!Nothing
        PROVE  /\ key'.epoch \in 1..count /\ key'.y \in arg.ys /\ key'.sk = L!SecretKey(h[key'.epoch])
               /\ L!FeKey(key'.sk, key'.y) = L!Done(key'.key)
    <3>1. CASE r.err = "NONE"
      <4>1. /\ key'.epoch = count /\ key'.y = y /\ key'.sk = master /\ key'.key = r.res
        BY <1>1, <3>1
      <4> QED BY <1>0, <1>4, <1>6, <3>1, <4>1
    <3>2. CASE r.err # "NONE"
      BY <1>1, <1>3, <2>1, <3>2 DEF L!Genuine
    <3> QED BY <3>1, <3>2
  <2> QED BY <1>1, <1>3, <2>1, SameLatticeCalls DEF L!Genuine, L!Nothing
<1>11. h \in [1..count' -> arg.secrets]
  BY <1>1
<1> QED BY <1>1, <1>2, <1>8, <1>9, <1>10, <1>11, LatticeKeeps

\* A ciphertext is made.
LEMMA LatticeEncrypt ==
  ASSUME L!IInv, NEW x \in arg.xs, NEW n \in arg.nonces, L!Encrypt(x, n)
  PROVE  L!IInv'
<1>0. PICK r : r = L!Ciphertext(x, public.pk, n)
  OBVIOUS
<1>1. /\ public # L!Nothing /\ UNCHANGED <<arg, setup, master, count, public, key>>
      /\ ct' = IF r.err = "NONE"
               THEN [epoch |-> public.epoch, x |-> x, E |-> public.E, n |-> n, ct |-> r.res] ELSE ct
      /\ answer' = L!NotADecryption(r)
  BY <1>0 DEF L!Encrypt
<1>2. /\ L!TypeOK /\ L!SetUp /\ arg \in LatticeInstances /\ count \in Nat
      /\ MaxEpoch \in Nat /\ public.epoch \in 0..count /\ setup # L!NoScheme /\ LatticeMade
  BY <1>1, LatticeParts
<1>3. PICK h \in [1..count -> arg.secrets] : L!Genuine(h)
  BY <1>2, LatticeParts
<1>4. /\ public.epoch \in 1..count /\ public.E \in arg.noises /\ h[public.epoch] \in arg.secrets
      /\ L!PublicKey(L!SecretKey(h[public.epoch]), public.E) = L!Done(public.pk)
  BY <1>1, <1>3 DEF L!Genuine
<1>5. public.pk = L!PublicKey(L!SecretKey(h[public.epoch]), public.E).res
  BY <1>4 DEF L!Done
<1>6. IsCtResult(r)
  BY <1>0, <1>2, <1>4, <1>5, LatticeCiphertext
<1>7. /\ r.err \in {"NONE", "BOUND_CHECK_FAILED", "MALFORMED_INPUT"}
      /\ r.err = "NONE" => r = L!Done(r.res)
      /\ answer'.err = r.err /\ answer'.same = FALSE
  BY <1>1, <1>6 DEF IsCtResult, L!NotADecryption
<1>8. L!TypeOK'
  BY <1>1, <1>2, <1>7 DEF L!TypeOK, L!Residues, L!Nothing
<1>9. L!DecryptCorrect'
  BY <1>7 DEF L!DecryptCorrect
<1>10. L!Genuine(h)'
  <2>1. ASSUME ct' # L!Nothing
        PROVE  /\ ct'.epoch \in 1..count /\ ct'.x \in arg.xs /\ ct'.E \in arg.noises /\ ct'.n \in arg.nonces
               /\ L!Ciphertext(ct'.x, L!PublicKey(L!SecretKey(h[ct'.epoch]), ct'.E).res, ct'.n)
                    = L!Done(ct'.ct)
    <3>1. CASE r.err = "NONE"
      <4>1. ct'.epoch = public.epoch /\ ct'.x = x /\ ct'.E = public.E /\ ct'.n = n /\ ct'.ct = r.res
        BY <1>1, <3>1
      <4> QED BY <1>0, <1>4, <1>5, <1>7, <3>1, <4>1
    <3>2. CASE r.err # "NONE"
      BY <1>1, <1>3, <2>1, <3>2 DEF L!Genuine
    <3> QED BY <3>1, <3>2
  <2> QED BY <1>1, <1>3, <2>1, SameLatticeCalls DEF L!Genuine, L!Nothing
<1>11. h \in [1..count' -> arg.secrets]
  BY <1>1
<1> QED BY <1>1, <1>2, <1>8, <1>9, <1>10, <1>11, LatticeKeeps

\* A decryption, with any vector.
LEMMA LatticeDecrypt ==
  ASSUME L!IInv, NEW y \in arg.ys, L!Decrypt(y)
  PROVE  L!IInv'
<1>0. PICK r : r = L!Plaintext(ct.ct, key.key, y)
  OBVIOUS
<1>1. /\ ct # L!Nothing /\ key # L!Nothing /\ UNCHANGED <<arg, setup, master, count, public, ct, key>>
      /\ answer' = IF r.err = "NONE" /\ ct.epoch = key.epoch /\ key.y = y
                   THEN [same |-> L!NoiseTolerated(key.sk, ct.E, ct.n, y), err |-> r.err,
                         res |-> r.res, x |-> ct.x, y |-> y]
                   ELSE L!NotADecryption(r)
  BY <1>0 DEF L!Decrypt
<1>2. /\ L!TypeOK /\ L!SetUp /\ arg \in LatticeInstances /\ count \in Nat
      /\ MaxEpoch \in Nat /\ public.epoch \in 0..count /\ setup # L!NoScheme /\ LatticeMade
  BY <1>1, LatticeParts
<1>3. PICK h \in [1..count -> arg.secrets] : L!Genuine(h)
  BY <1>2, LatticeParts
<1>4. PICK x, E, n, u : x = ct.x /\ E = ct.E /\ n = ct.n /\ u = key.y
  OBVIOUS
<1>5. PICK S, T : S = h[ct.epoch] /\ T = h[key.epoch]
  OBVIOUS
<1>6. PICK c, k : c = L!Done(ct.ct) /\ k = L!Done(key.key)
  OBVIOUS
<1>7. c.err = "NONE" /\ k.err = "NONE" /\ c.res = ct.ct /\ k.res = key.key
  BY <1>6 DEF L!Done
<1>8. /\ ct.epoch \in 1..count /\ x \in arg.xs /\ E \in arg.noises /\ n \in arg.nonces
      /\ S \in arg.secrets /\ c = L!Ciphertext(x, L!PublicKey(L!SecretKey(S), E).res, n)
  BY <1>1, <1>3, <1>4, <1>5, <1>6 DEF L!Genuine
<1>9. /\ key.epoch \in 1..count /\ u \in arg.ys /\ T \in arg.secrets /\ key.sk = L!SecretKey(T)
      /\ k = L!FeKey(L!SecretKey(T), u)
  BY <1>1, <1>3, <1>4, <1>5, <1>6 DEF L!Genuine
<1>10. IsRun(S, T, E, x, n, u, c, k)
  BY <1>7, <1>8, <1>9 DEF IsRun
<1>11. Finds(r, S, T, E, x, n, u, y)
  <2>1. r = L!Plaintext(c.res, k.res, y)
    BY <1>0, <1>7
  <2> QED BY <1>2, <1>10, <2>1, LatticePlaintext
<1>12. /\ r.err \in {"NONE", "BOUND_CHECK_FAILED"}
       /\ (/\ r.err = "NONE" /\ S = T /\ u = y
           /\ L!NoiseTolerated(L!SecretKey(S), E, n, y) /\ L!Fits(x, y))
            => r.res = L!Product(x, y)
  BY <1>11 DEF Finds
<1>13. answer'.err = r.err
  BY <1>1 DEF L!NotADecryption
<1>14. L!TypeOK'
  BY <1>1, <1>2, <1>12, <1>13 DEF L!TypeOK, L!Residues, L!Nothing
<1>15. ASSUME answer'.same, L!Fits(answer'.x, answer'.y) PROVE answer'.res = L!Product(answer'.x, answer'.y)
  <2>1. r.err = "NONE" /\ ct.epoch = key.epoch /\ key.y = y
    BY <1>1, <1>15 DEF L!NotADecryption
  <2>2. /\ answer'.same = L!NoiseTolerated(key.sk, ct.E, ct.n, y) /\ answer'.res = r.res
        /\ answer'.x = x /\ answer'.y = y
    BY <1>1, <1>4, <2>1
  <2>3. S = T /\ u = y /\ L!NoiseTolerated(L!SecretKey(S), E, n, y)
    BY <1>4, <1>5, <1>9, <1>15, <2>1, <2>2
  <2> QED BY <1>12, <1>15, <2>1, <2>2, <2>3
<1>16. L!DecryptCorrect'
  BY <1>1, <1>15, SameLatticeFits DEF L!DecryptCorrect
<1>17. L!Genuine(h)'
  BY <1>1, <1>3, SameLatticeCalls DEF L!Genuine, L!Nothing
<1>18. h \in [1..count' -> arg.secrets]
  BY <1>1
<1> QED BY <1>1, <1>2, <1>14, <1>16, <1>17, <1>18, LatticeKeeps

\* The other machines run.
LEMMA LatticeWaits ==
  ASSUME L!IInv, UNCHANGED <<arg, setup, master, count, public, ct, key, answer>>
  PROVE  L!IInv'
<1>1. L!TypeOK /\ L!DecryptCorrect /\ L!SetUp /\ arg \in LatticeInstances
  BY LatticeParts
<1>2. L!TypeOK'
  BY <1>1 DEF L!TypeOK, L!Residues, L!Nothing
<1>3. L!DecryptCorrect'
  BY <1>1, SameLatticeAnswer
<1>4. CASE setup = L!NoScheme
  <2>1. L!SetUp' /\ setup' = L!NoScheme'
    BY <1>1, <1>4 DEF L!SetUp, L!NoScheme, L!Nothing
  <2> QED BY <1>1, <1>2, <1>3, <2>1 DEF L!IInv
<1>5. CASE setup # L!NoScheme
  <2>1. PICK h \in [1..count -> arg.secrets] : L!Genuine(h)
    BY <1>5, LatticeParts
  <2>2. L!Genuine(h)'
    BY <2>1, SameLatticeCalls DEF L!Genuine, L!Nothing
  <2>3. h \in [1..count' -> arg.secrets]
    BY <2>1
  <2> QED BY <1>1, <1>2, <1>3, <1>5, <2>2, <2>3, LatticeKeeps
<1> QED BY <1>4, <1>5

-----------------------------------------------------------------------------
(* The theorems about the machines that run in turn *)

\* The Paillier machines keep their invariant while they run: every number of which a power
\* is taken has an inverse, and what is exchanged has a history of master keys behind it.
THEOREM PaillierInvariance == OneSpec => [](turn = "paillier" => P!IInv)
<1> DEFINE Inv == turn = "paillier" => P!IInv
<1>1. OneInit => Inv
  BY PaillierInit DEF OneInit
<1>2. ASSUME Inv, [OneNext]_all PROVE Inv'
  <2> SUFFICES ASSUME turn' = "paillier" PROVE P!IInv'
    OBVIOUS
  <2>1. CASE UNCHANGED all
    <3>1. turn = "paillier" /\ UNCHANGED <<arg, setup, master, count, public, ct, key, answer>>
      BY <2>1 DEF all, ofOthers
    <3> QED BY <1>2, <3>1, PaillierWaits
  <2>2. CASE OneNext
    <3>1. turn = "paillier" /\ P!Next
      BY <2>2 DEF OneNext
    <3>2. P!IInv
      BY <1>2, <3>1
    <3> QED BY <3>1, <3>2, PaillierSetup, PaillierGenerate, PaillierRefuse, PaillierPublish, PaillierDerive,
               PaillierEncrypt, PaillierDecrypt DEF P!Next
  <2> QED BY <1>2, <2>1, <2>2
<1> QED BY <1>1, <1>2, PTL DEF OneSpec

\* The scheme of paillier.c keeps its types, never takes a negative power of a number
\* without an inverse, and decrypts to the inner product when that is within half of n, for
\* all primes, generators, lengths, keys, data, randomness and orders of the calls.
THEOREM PaillierDecryption == OneSpec => []PaillierDecrypts
<1>1. (turn = "paillier" => P!IInv) => PaillierDecrypts
  BY DEF PaillierDecrypts, P!IInv
<1> QED BY <1>1, PaillierInvariance, PTL

\* The machines of the schemes from lattices keep their invariant while they run: what is
\* exchanged was made from secret keys and noise of the samplers.
THEOREM LatticeInvariance == OneSpec => [](turn = "lattices" => L!IInv)
<1> DEFINE Inv == turn = "lattices" => L!IInv
<1>1. OneInit => Inv
  BY LatticeInit DEF OneInit
<1>2. ASSUME Inv, [OneNext]_all PROVE Inv'
  <2> SUFFICES ASSUME turn' = "lattices" PROVE L!IInv'
    OBVIOUS
  <2>1. CASE UNCHANGED all
    <3>1. turn = "lattices" /\ UNCHANGED <<arg, setup, master, count, public, ct, key, answer>>
      BY <2>1 DEF all, ofOthers
    <3> QED BY <1>2, <3>1, LatticeWaits
  <2>2. CASE OneNext
    <3>1. turn = "lattices" /\ L!Next
      BY <2>2 DEF OneNext
    <3>2. L!IInv
      BY <1>2, <3>1
    <3> QED BY <3>1, <3>2, LatticeSetup, LatticeGenerate, LatticeIssue, LatticeDerive,
               LatticeEncrypt, LatticeDecrypt DEF L!Next
  <2> QED BY <1>2, <2>1, <2>2
<1> QED BY <1>1, <1>2, PTL DEF OneSpec

\* The schemes from lattices keep their types and decrypt to the product itself, for all
\* moduli, dimensions, keys, data, noise and orders of the calls, whenever the noise is
\* within what rounding takes away.
THEOREM LatticeDecryption == OneSpec => []LatticesDecrypt
<1>1. (turn = "lattices" => L!IInv) => LatticesDecrypt
  BY DEF LatticesDecrypt, L!IInv
<1> QED BY <1>1, LatticeInvariance, PTL

\* The machines of SingleInput run as its specification says, whichever machine has the
\* turn: what is proved of them holds of the composition that the runs check.
THEOREM Composition == OneSpec => Spec
<1>1. OneInit => Init
  BY DEF OneInit, Waits
<1>2. [OneNext]_all => [Next]_vars
  BY DEF OneNext, all
<1> QED BY <1>1, <1>2, PTL DEF OneSpec, Spec

=============================================================================
