----------------------------- MODULE Transport ------------------------------
(***************************************************************************)
(* Programs that pass keys and ciphertexts on as buffers: an object        *)
(* is made, serialised, and read again, by another program or after a      *)
(* restart, and used there.  Buffers may get damaged on the way.  What is  *)
(* made from objects that were read is serialised in turn.  The secret key *)
(* of GPSW is a plain vector, which no function serialises.                *)
(***************************************************************************)
EXTENDS Policy

CONSTANTS
  Sessions,     \* a sequence: who uses what
  Hash(_),      \* cfe_hash_G1, as in Fame
  Limb,         \* the bits of a limb: 64 in the code
  Byte,         \* the bits of a byte
  Coord         \* the bytes of a coordinate of a point, MODBYTES_256_56

-----------------------------------------------------------------------------
\* What the functions of src/serialization put into messages, and what they make of
\* them again.  A message has the fields of its .proto file; repeated fields that the
\* code fills by an index of its own are numbered from 0 here, the others from 1.

\* A number of w bits read as a signed one, and its digits of w bits, the highest first.
Signed(d, w) == IF d % 2^w >= 2^(w - 1) THEN (d % 2^w) - 2^w ELSE d % 2^w
Digits(a, n, w) == [i \in 1..n |-> Signed(a \div 2^(w * (n - i)), w)]
Number(digits, w) ==
  SumFunction([i \in DOMAIN digits |-> (digits[i] % 2^w) * 2^(w * (Len(digits) - i))])

\* cfe_mpz_pack: the limbs of the absolute value, none for 0, and the sign.
MpzPack(a) ==
  LET abs == IF a < 0 THEN -a ELSE a
      count == CHOOSE c \in 0..abs : abs < 2^(Limb * c) /\ (c = 0 \/ abs >= 2^(Limb * (c - 1)))
  IN [val |-> Digits(abs, count, Limb), neg |-> a < 0]

MpzUnpack(msg) == IF msg.neg THEN -Number(msg.val, Limb) ELSE Number(msg.val, Limb)

\* Matrices row by row; the rows are numbered from 1 and the columns from 0.
MatPack(A) ==
  [rows |-> Len(A.rows), cols |-> A.cols,
   val |-> [k \in 0..(Len(A.rows) * A.cols - 1) |-> MpzPack(A.rows[k \div A.cols + 1][k % A.cols])]]

MatUnpack(msg) ==
  [cols |-> msg.cols,
   rows |-> [i \in 1..msg.rows |-> [j \in 0..(msg.cols - 1) |->
               MpzUnpack(msg.val[(i - 1) * msg.cols + j])]]]

-----------------------------------------------------------------------------
\* AMCL writes a point into bytes and reads it from there; how many there are depends on
\* the group.  The bytes are signed.
Width(group) == CASE group = "G1" -> Coord + 1 [] group = "G2" -> 4 * Coord [] group = "GT" -> 12 * Coord
ToOctet(group, g) == Digits(g, Width(group), Byte)
FromOctet(oct) == Number(oct, Byte)

OctetPack(oct) == [val |-> oct, len |-> Len(oct), max |-> Len(oct)]
OctetUnpack(msg) == [i \in 1..msg.len |-> Signed(msg.val[i], Byte)]

PointPack(group, g) == OctetPack(ToOctet(group, g))
PointUnpack(msg) == FromOctet(OctetUnpack(msg))

\* Several points: a field for each, or, in a vector, with their number.
PointsPack(group, v) == [i \in DOMAIN v |-> PointPack(group, v[i])]
PointsUnpack(msgs, dom) == [i \in dom |-> PointUnpack(msgs[i])]
VecPack(group, v) == [vec |-> PointsPack(group, v), size |-> Len(v)]
VecUnpack(msg) == PointsUnpack(msg.vec, 1..msg.size)
VecOctetPack(v) == [vec |-> [i \in DOMAIN v |-> OctetPack(v[i])], size |-> Len(v)]
VecOctetUnpack(msg) == [i \in 1..msg.size |-> OctetUnpack(msg.vec[i])]

\* The triples of FAME, one after the other.
TriplesPack(k) == [n \in 0..(3 * Len(k) - 1) |-> PointPack("G1", k[n \div 3 + 1][n % 3])]
TriplesUnpack(msgs, len) ==
  [j \in 1..len |-> [i \in 0..2 |-> PointUnpack(msgs[3 * (j - 1) + i])]]

MspPack(msp) ==
  [mat |-> MatPack([cols |-> msp.cols, rows |-> [i \in DOMAIN msp.rows |-> msp.rows[i].row]]),
   row_to_attrib |-> [i \in DOMAIN msp.rows |-> msp.rows[i].attr]]
MspUnpack(msg) ==
  LET A == MatUnpack(msg.mat)
  IN [cols |-> A.cols,
      rows |-> [i \in DOMAIN msg.row_to_attrib |-> [attr |-> msg.row_to_attrib[i], row |-> A.rows[i]]]]

-----------------------------------------------------------------------------
\* The keys and ciphertexts of FAME.
FamePubPack(pk) ==
  [part_G2_1 |-> PointPack("G2", pk.g2[0]), part_G2_2 |-> PointPack("G2", pk.g2[1]),
   part_GT_1 |-> PointPack("GT", pk.gt[0]), part_GT_2 |-> PointPack("GT", pk.gt[1])]
FamePubUnpack(msg) ==
  [g2 |-> [j \in 0..1 |-> PointUnpack(IF j = 0 THEN msg.part_G2_1 ELSE msg.part_G2_2)],
   gt |-> [j \in 0..1 |-> PointUnpack(IF j = 0 THEN msg.part_GT_1 ELSE msg.part_GT_2)]]

FameSecPack(sk) ==
  [part_int |-> [i \in DOMAIN sk.int |-> MpzPack(sk.int[i])], part_G1 |-> PointsPack("G1", sk.g1)]
FameSecUnpack(msg) ==
  [int |-> [i \in 0..3 |-> MpzUnpack(msg.part_int[i])], g1 |-> PointsUnpack(msg.part_G1, 0..2)]

FameKeysPack(keys) ==
  [k0 |-> PointsPack("G2", keys.k0), k |-> TriplesPack(keys.k),
   k_prime |-> PointsPack("G1", keys.prime), row_to_attrib |-> keys.gamma]
FameKeysUnpack(msg) ==
  [k0 |-> PointsUnpack(msg.k0, 1..3), k |-> TriplesUnpack(msg.k, Len(msg.row_to_attrib)),
   prime |-> PointsUnpack(msg.k_prime, 0..2), gamma |-> msg.row_to_attrib]

FameCipherPack(c) ==
  [ct0 |-> PointsPack("G2", c.ct0), ct |-> TriplesPack(c.ct), ct_prime |-> PointPack("GT", c.prime),
   msp |-> MspPack(c.msp)]
FameCipherUnpack(msg) ==
  [ct0 |-> PointsUnpack(msg.ct0, 1..3), ct |-> TriplesUnpack(msg.ct, Len(msg.msp.row_to_attrib)),
   prime |-> PointUnpack(msg.ct_prime), msp |-> MspUnpack(msg.msp)]

-----------------------------------------------------------------------------
\* The keys and ciphertexts of GPSW; attributes are numbered from 0.
GpswPubPack(pk) ==
  LET size == Cardinality(DOMAIN pk.t)
  IN [t |-> VecPack("G2", [i \in 1..size |-> pk.t[i - 1]]), y |-> PointPack("GT", pk.y)]
GpswPubUnpack(msg) ==
  LET t == VecUnpack(msg.t)
  IN [t |-> [a \in 0..(Len(t) - 1) |-> t[a + 1]], y |-> PointUnpack(msg.y)]

GpswKeyPack(key) == [d |-> VecPack("G1", key.d), msp |-> MspPack(key.msp)]
GpswKeyUnpack(msg) == [d |-> VecUnpack(msg.d), msp |-> MspUnpack(msg.msp)]

GpswCipherPack(c) ==
  [gamma |-> c.gamma, e0 |-> PointPack("GT", c.e0), e |-> VecPack("G2", c.e)]
GpswCipherUnpack(msg) ==
  [gamma |-> [j \in DOMAIN msg.gamma |-> msg.gamma[j]], e0 |-> PointUnpack(msg.e0),
   e |-> VecUnpack(msg.e)]

-----------------------------------------------------------------------------
Kinds == {"mpz", "mat", "G1", "G2", "GT", "msp", "octets", "vecG2", "famePub", "fameSec", "fameKeys",
          "fameCipher", "gpswPub", "gpswKey", "gpswCipher"}

Pack(kind, v) ==
  CASE kind = "mpz" -> MpzPack(v) [] kind = "mat" -> MatPack(v)
    [] kind \in {"G1", "G2", "GT"} -> PointPack(kind, v)
    [] kind = "msp" -> MspPack(v) [] kind = "octets" -> VecOctetPack(v)
    [] kind = "vecG2" -> VecPack("G2", v)
    [] kind = "famePub" -> FamePubPack(v) [] kind = "fameSec" -> FameSecPack(v)
    [] kind = "fameKeys" -> FameKeysPack(v) [] kind = "fameCipher" -> FameCipherPack(v)
    [] kind = "gpswPub" -> GpswPubPack(v) [] kind = "gpswKey" -> GpswKeyPack(v)
    [] kind = "gpswCipher" -> GpswCipherPack(v)

Unpack(kind, msg) ==
  CASE kind = "mpz" -> MpzUnpack(msg) [] kind = "mat" -> MatUnpack(msg)
    [] kind \in {"G1", "G2", "GT"} -> PointUnpack(msg)
    [] kind = "msp" -> MspUnpack(msg) [] kind = "octets" -> VecOctetUnpack(msg)
    [] kind = "vecG2" -> VecUnpack(msg)
    [] kind = "famePub" -> FamePubUnpack(msg) [] kind = "fameSec" -> FameSecUnpack(msg)
    [] kind = "fameKeys" -> FameKeysUnpack(msg) [] kind = "fameCipher" -> FameCipherUnpack(msg)
    [] kind = "gpswPub" -> GpswPubUnpack(msg) [] kind = "gpswKey" -> GpswKeyUnpack(msg)
    [] kind = "gpswCipher" -> GpswCipherUnpack(msg)

-----------------------------------------------------------------------------
F == INSTANCE Fame
G == INSTANCE Gpsw

\* A session: the scheme, the group order, a span program and attributes that are made
\* for it, the message, and the tapes, one for every time the keys are generated; or
\* plain data, with the object of each kind.
IsSession(n) ==
  IF n.scheme = "data" THEN DOMAIN n.objects \subseteq Kinds
  ELSE /\ n.scheme \in {"fame", "gpsw"} /\ n.p \in Nat /\ n.p > 1 /\ n.msg \in Residues(n.p)
       /\ \A e \in DOMAIN n.tapes : \A i \in DOMAIN n.tapes[e] : n.tapes[e][i] \in 1..(n.p - 1)

SessionAssumption ==
  /\ {Limb, Byte, Coord} \subseteq Nat \ {0}
  /\ \A i \in DOMAIN Sessions :
       /\ IsSession(Sessions[i])
       /\ Sessions[i].scheme # "data" => 2^(Byte * (Coord + 1)) >= Sessions[i].p

VARIABLES
  no,       \* the number of the session
  epoch,    \* how often the keys, or the data, have been made
  held,     \* for every kind the object in memory, with the epoch of its keys
  store,    \* for every kind the buffer, with the epoch of the object in it
  err       \* what the last call returned

vars == <<no, epoch, held, store, err>>

n == Sessions[no]
Named ==
  CASE n.scheme = "fame" -> {"famePub", "fameSec", "fameKeys", "fameCipher"}
    [] n.scheme = "gpsw" -> {"gpswPub", "gpswSec", "gpswKey", "gpswCipher"}
    [] OTHER -> DOMAIN n.objects
\* Epoch 0 is that of nothing, and Unknown that of what nobody has made.
Unknown == -1
Nothing == [at |-> 0, what |-> <<>>]
Has(kinds) == \A k \in kinds : held[k].at # 0

\* The objects that the operations make.
MasterKeys(tape) ==
  IF n.scheme = "fame"
  THEN [k \in {"famePub", "fameSec"} |->
          IF k = "fameSec" THEN F!SecretKey(tape) ELSE F!PublicKey(n.p, F!SecretKey(tape))]
  ELSE [k \in {"gpswPub", "gpswSec"} |-> G!SecretKey(n.p, n.l, tape)]
Cipher(pk) ==
  IF n.scheme = "fame" THEN F!Encrypt(n.p, n.msg, n.msp, pk, n.nonce)
  ELSE G!Encrypt(n.p, n.msg, n.gamma, pk, n.nonce)
UserKey(sk) ==
  IF n.scheme = "fame" THEN F!GenerateAttribKeys(n.p, n.gamma, sk, n.nonce)
  ELSE G!GeneratePolicyKey(n.p, n.msp, sk, n.nonce)
Plaintext(cipher, key) ==
  IF n.scheme = "fame" THEN F!Decrypt(n.p, cipher, key) ELSE G!Decrypt(n.p, cipher, key)

Pub == IF n.scheme = "fame" THEN "famePub" ELSE "gpswPub"
Sec == IF n.scheme = "fame" THEN "fameSec" ELSE "gpswSec"
Key == IF n.scheme = "fame" THEN "fameKeys" ELSE "gpswKey"
Ct == IF n.scheme = "fame" THEN "fameCipher" ELSE "gpswCipher"

Init ==
  /\ no \in DOMAIN Sessions
  /\ epoch = 0 /\ err = 0
  /\ held = [k \in Named |-> Nothing]
  /\ store = [k \in Named \ {"gpswSec"} |-> [at |-> 0, msg |-> <<>>, ok |-> FALSE]]

\* Objects in memory are replaced by the newly made ones; the others stay.
Made(objects, at) ==
  held' = [k \in Named |-> IF k \in DOMAIN objects THEN [at |-> at, what |-> objects[k]] ELSE held[k]]

Generate ==
  /\ IF n.scheme = "data" THEN epoch = 0 ELSE epoch < Len(n.tapes)
  /\ epoch' = epoch + 1
  /\ Made(IF n.scheme = "data" THEN n.objects ELSE MasterKeys(n.tapes[epoch + 1]), epoch + 1)
  /\ UNCHANGED <<no, store, err>>

Encrypt ==
  /\ n.scheme # "data" /\ Has({Pub})
  /\ Made([k \in {Ct} |-> Cipher(held[Pub].what)], held[Pub].at)
  /\ UNCHANGED <<no, epoch, store, err>>

KeyGen ==
  /\ n.scheme # "data" /\ Has({Sec})
  /\ Made([k \in {Key} |-> UserKey(held[Sec].what)], held[Sec].at)
  /\ UNCHANGED <<no, epoch, store, err>>

\* cfe_..._ser.
Serialise(kind) ==
  /\ Has({kind})
  /\ store' = [store EXCEPT ![kind] = [at |-> held[kind].at, msg |-> Pack(kind, held[kind].what), ok |-> TRUE]]
  /\ UNCHANGED <<no, epoch, held, err>>

\* A buffer that the unpacking function of its message will refuse; to bound the
\* model, one at a time.
Damage(kind) ==
  /\ store[kind].ok /\ \A k \in DOMAIN store : store[k].at # 0 => store[k].ok
  /\ store' = [store EXCEPT ![kind].ok = FALSE, ![kind].msg = <<>>]
  /\ UNCHANGED <<no, epoch, held, err>>

\* What a vector of octets that was never set may hold; to bound the model, at most two.
Unset == {<<>>, <<3>>, <<0, 7>>}

\* Mutant of ReadOf: every reader goes on without a message.
ReadOfUnchecked(kind, buf) ==
  IF buf.ok THEN {[at |-> buf.at, what |-> Unpack(kind, buf.msg)]} ELSE {[at |-> Unknown, what |-> v] : v \in Unset}

\* cfe_..._read: what may be in memory afterwards.  A buffer that is refused leaves it
\* alone, except for cfe_vec_ECP2_BN254_read: it ignores the error, makes its vector
\* from octets that were never set, if the program survives that, and returns 0.
ReadOf(kind, buf) ==
  IF buf.ok THEN {[at |-> buf.at, what |-> Unpack(kind, buf.msg)]}
  ELSE IF kind = "vecG2" THEN {[at |-> Unknown, what |-> v] : v \in Unset} ELSE {held[kind]}
Read(kind) ==
  /\ store[kind].at # 0
  /\ \E object \in ReadOf(kind, store[kind]) : held' = [held EXCEPT ![kind] = object]
  /\ err' = IF store[kind].ok \/ kind = "vecG2" THEN 0 ELSE 1
  /\ UNCHANGED <<no, epoch, store>>

\* The program starts again, with its buffers.
Restart ==
  /\ held' = [k \in Named |-> Nothing] /\ err' = 0
  /\ UNCHANGED <<no, epoch, store>>

Next ==
  \/ Generate \/ Encrypt \/ KeyGen \/ Restart
  \/ \E kind \in DOMAIN store : Serialise(kind) \/ Damage(kind) \/ Read(kind)

Spec == Init /\ [][Next]_vars

-----------------------------------------------------------------------------
\* The types of the variables, with the shape of what is in memory.
TypeOK ==
  /\ epoch \in Nat /\ err \in {0, 1}
  /\ \A k \in Named : held[k].at \in Unknown..epoch
  /\ \A k \in DOMAIN store : store[k].at \in Unknown..epoch
  /\ n.scheme = "fame" =>
       (Has({Ct}) => F!IsCipher(n.p, held[Ct].what)) /\ (Has({Key}) => F!IsKey(n.p, held[Key].what))
  /\ n.scheme = "gpsw" =>
       (Has({Ct}) => G!IsCipher(n.p, held[Ct].what)) /\ (Has({Key}) => G!IsKey(n.p, held[Key].what))

\* What is in memory is what was made in its epoch, however often it, and what it was
\* made from, went through a buffer in between.  Only a vector of G2 can be what nobody
\* has made (data_ser.c:425-439).
Original(kind, at) ==
  IF n.scheme = "data" THEN n.objects[kind]
  ELSE LET keys == MasterKeys(n.tapes[at])
       IN CASE kind = Ct -> Cipher(keys[Pub]) [] kind = Key -> UserKey(keys[Sec]) [] OTHER -> keys[kind]
HeldIsMade ==
  \A k \in Named : Has({k}) =>
    IF held[k].at = Unknown THEN k = "vecG2" ELSE held[k].what = Original(k, held[k].at)

\* A key and a ciphertext of the same master keys decrypt, however they were passed on
\* (README.md:549-554).
DecryptCorrect ==
  n.scheme # "data" /\ Has({Ct, Key}) /\ held[Ct].at = held[Key].at =>
    Plaintext(held[Ct].what, held[Key].what) = Done(n.msg)
=============================================================================
