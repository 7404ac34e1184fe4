------------------------------- MODULE MCAbe --------------------------------
(***************************************************************************)
(* Linear algebra, and attribute-based encryption, which solves systems:   *)
(* the solver and the calls of MCGaussSolver, the schemes as the machines  *)
(* of Abe run them, calls of the conversion of expressions, or programs    *)
(* that pass keys and ciphertexts on as buffers.  One of them runs.        *)
(***************************************************************************)
EXTENDS MCGaussSolver, Policy

CONSTANTS
  Instances, Hash(_),             \* of Abe
  Expressions, P,                 \* of PolicyCall
  Sessions, Limb, Byte, Coord     \* of Transport

VARIABLES
  no, s, msk, epoch, pub, ct, held,    \* of Abe; out is that of MCGaussSolver
  e, ones,        \* of PolicyCall
  store           \* of Transport, which has its epochs, objects and results where Abe has them

A == INSTANCE Abe
B == INSTANCE PolicyCall WITH pc <- turn
T == INSTANCE Transport WITH err <- out

ASSUME A!InstanceAssumption /\ B!ExpressionAssumption /\ T!SessionAssumption

-----------------------------------------------------------------------------
MCHash(t) == 1 + SumFunction([i \in DOMAIN t |-> (i + 2) * (t[i] + i) * (t[i] + 1)])

\* A tape of numbers that are not 0 modulo p.
Tape(q, seed) == [i \in 0..20 |-> 1 + ((seed * (i + 1) * (i + 1) + 3 * i) % (q - 1))]

MCNothing == << >>
MCNoExpressions == {}

\* The trees with a given number of leaves.
RECURSIVE Trees(_, _)
Trees(leaves, attrs) ==
  IF leaves = 1 THEN {<<"attr", a>> : a \in attrs}
  ELSE UNION {{<<gate, l, r>> : gate \in {"AND", "OR"}, l \in Trees(left, attrs),
                                r \in Trees(leaves - left, attrs)} : left \in 1..(leaves - 1)}

And(l, r) == <<"AND", l, r>>
Or(l, r) == <<"OR", l, r>>
At(a) == <<"attr", a>>

\* Four leaves, so that both sides of a gate add columns.
Deep == {And(And(At(0), At(1)), And(At(2), At(3))), Or(And(At(3), At(0)), And(At(1), At(2))),
         And(Or(And(At(0), At(1)), At(2)), At(3)), And(At(1), Or(At(3), And(At(2), At(0))))}
Shallow == {And(Or(At(0), At(1)), At(2)), Or(And(At(0), At(2)), At(1))}
Corrupted == {And(At(1), At(-1))}

\* The subsets of a set of attributes, in order, and some out of order.
Owned(attrs) == {SetToSortSeq(o, <) : o \in SUBSET attrs} \cup {<<2, 0, 1>>}

OneAuthority(scheme, q, ctFor, keyFor, msgs, secrets, nonces, epochs) ==
  [scheme |-> scheme, p |-> q, size |-> 1, k |-> 4, ctFor |-> ctFor, keyFor |-> keyFor,
   msgs |-> msgs, secrets |-> secrets, nonces |-> nonces, epochs |-> [a \in {0} |-> epochs]]

\* DIPPE with an authority for every attribute, and one more.
Dippe(q, assump, attrs, policies, users, seeds, epochs) ==
  [scheme |-> "dippe", p |-> q, size |-> attrs + 1, k |-> assump, ctFor |-> policies,
   keyFor |-> users, msgs |-> {2}, secrets |-> {Tape(q, i) : i \in seeds}, nonces |-> {Tape(q, 3)},
   epochs |-> [a \in 0..attrs |-> epochs[a + 1]]]
Conjunction(pattern) == [pattern |-> pattern, threshold |-> -1]
Threshold(pattern, t) == [pattern |-> pattern, threshold |-> t]
User(gid, owned) == [gid |-> gid, owned |-> owned]

AllTrees == Trees(1, {0, 1}) \cup Trees(2, {0, 1}) \cup Trees(3, {0, 1, 2}) \cup Deep \cup Corrupted

OneAuthorityInstances == <<
  OneAuthority("fame", 3, AllTrees, Owned(0..3), {2}, {Tape(3, 1)}, {Tape(3, 2)}, 1),
  OneAuthority("gpsw", 3, Owned(0..3), AllTrees, {2}, {Tape(3, 1)}, {Tape(3, 2)}, 1),
  OneAuthority("fame", 5, Shallow, {<<1>>, <<2, 0>>}, {0, 4}, {Tape(5, 1), Tape(5, 3)},
               {Tape(5, 2), Tape(5, 3)}, 2),
  OneAuthority("gpsw", 5, {<<1>>, <<2, 0>>}, Shallow, {0, 4}, {Tape(5, 1), Tape(5, 3)},
               {Tape(5, 2), Tape(5, 3)}, 2)>>

DippeInstances == <<
  Dippe(5, 1, 2, {Conjunction(<<0, 1>>), Threshold(<<0, 1>>, 1)},
        {User(1, <<0, 1>>), User(2, <<1>>)}, {2}, <<1, 1, 1>>),
  Dippe(3, 1, 1, {Conjunction(<<0>>)}, {User(1, <<0>>)}, {2, 3}, <<2, 1>>),
  Dippe(7, 2, 1, {Conjunction(<<0>>), Threshold(<<0>>, 0), Threshold(<<1>>, 0)},
        {User(1, <<0>>), User(1, <<>>), User(1, <<1>>)}, {2}, <<1, 1>>)>>

MCInstances == OneAuthorityInstances \o DippeInstances

\* A policy with an attribute that labels two rows.
MCTwoRows == <<
  OneAuthority("fame", 5, {Or(And(At(0), At(1)), And(At(0), At(2)))}, Owned(0..2), {2},
               {Tape(5, 1)}, {Tape(5, 2)}, 1)>>

-----------------------------------------------------------------------------
\* All short sequences of words, and longer expressions in the proper form with those
\* that one word less makes of them.
Words == {Word("("), Word(")"), Word("AND"), Word("OR"), At(0), At(1)}
Separate(x) == \A i \in 2..Len(x) : x[i][1] # "attr" \/ x[i - 1][1] # "attr"
Short(n) == {x \in UNION {[1..words -> Words] : words \in 0..n} : Separate(x)}

GateWords == {"AND", "OR"}
TwoLeaves == {<<g, At(a), At(b)>> : g \in GateWords, a, b \in {0, 1}}
ThreeLeaves == {<<g, t, At(2)>> : g \in GateWords, t \in TwoLeaves} \cup {<<g, At(2), t>> : g \in GateWords, t \in TwoLeaves}
FourLeaves == {<<g, <<l, At(0), At(1)>>, <<r, At(2), At(3)>>>> : g, l, r \in GateWords}
         \cup {<<g, <<l, At(3), <<r, At(0), At(1)>>>>, At(2)>> : g, l, r \in GateWords}
Texts == {Text(t) : t \in ThreeLeaves \cup FourLeaves}
Shortened == {x \in UNION {{RemoveAt(t, i) : i \in DOMAIN t} : t \in Texts} : Separate(x)}
Chain == {<<At(a), Word(g), At(b), Word(l), At(2), Word(r), At(3)>> : a, b \in {0, 1}, g, l, r \in GateWords}

MCExpressions == Short(5) \cup Texts \cup Shortened \cup Chain \cup {<<At(-1)>>, <<At(1), Word("OR"), At(-1)>>}

-----------------------------------------------------------------------------
\* Sessions: FAME and GPSW with policies of two and of three rows, generated twice; data
\* with numbers of no, one and three limbs, negative ones, and matrices that are not
\* square.
Program(tree, ofOnes) == BooleanToMsp(Text(tree), ofOnes).res

Session(scheme, q, tree, gamma, seeds) ==
  [scheme |-> scheme, p |-> q, l |-> 4, msp |-> Program(tree, scheme = "gpsw"), gamma |-> gamma,
   msg |-> 2, nonce |-> Tape(q, 2), tapes |-> [i \in DOMAIN seeds |-> Tape(q, seeds[i])]]
ThreeRows == <<"AND", <<"OR", At(0), At(3)>>, At(2)>>

Row(a, b, c) == [i \in 0..2 |-> <<a, b, c>>[i + 1]]
Numbers(mpz, mat) ==
  [scheme |-> "data", objects |-> [kind \in {"mpz", "mat", "msp"} |->
     CASE kind = "mpz" -> mpz [] kind = "mat" -> mat [] kind = "msp" -> Program(ThreeRows, FALSE)]]
Points(g1, g2, gt) ==
  [scheme |-> "data", objects |-> [kind \in {"G1", "G2", "GT"} |->
     CASE kind = "G1" -> g1 [] kind = "G2" -> g2 [] kind = "GT" -> gt]]
Octets(octets, points) ==
  [scheme |-> "data", objects |-> [kind \in {"octets", "vecG2"} |-> IF kind = "octets" THEN octets ELSE points]]

MCSessions == <<
  Session("fame", 5, ThreeRows, <<2, 0>>, <<1, 3>>),
  Session("gpsw", 5, ThreeRows, <<2, 0>>, <<1, 3>>),
  Session("fame", 13, <<"AND", At(1), At(2)>>, <<0, 1, 2>>, <<1>>),
  Session("gpsw", 13, <<"AND", At(1), At(2)>>, <<0, 1, 2>>, <<1>>),
  Numbers(-37, [cols |-> 3, rows |-> <<Row(0, -1, 9), Row(4, 64, -8)>>]),
  Numbers(0, [cols |-> 3, rows |-> <<Row(1, 2, 3)>>]),
  Points(7, 200, 3000), Points(0, 0, 0),
  Octets(<<<<1, -2>>, <<>>, <<-1>>>>, <<5, 0>>), Octets(<<>>, <<>>)>>

-----------------------------------------------------------------------------
IsScheme == turn = "scheme"
IsSession == turn = "session"
IsPolicy == turn \in {"call", "done"}

ofScheme == <<s, msk, pub, ct>>
exchanged == <<no, epoch, held>>
ofPolicy == <<e, ones>>
all == <<vars, others, ofScheme, exchanged, ofPolicy, store>>

SchemeOff == s = 0 /\ msk = 0 /\ pub = 0 /\ ct = 0
ExchangeOff == no = 0 /\ epoch = 0 /\ held = 0
PolicyOff == e = <<>> /\ ones = FALSE
StoreOff == store = <<>>
MatricesOff == Idle /\ op = "none" /\ call = <<>>

AllInit ==
  \/ OneInit /\ SchemeOff /\ ExchangeOff /\ PolicyOff /\ StoreOff
  \/ turn = "scheme" /\ A!Init /\ PolicyOff /\ StoreOff /\ MatricesOff
  \/ turn = "session" /\ T!Init /\ SchemeOff /\ PolicyOff /\ MatricesOff
  \/ B!Init /\ SchemeOff /\ ExchangeOff /\ StoreOff /\ MatricesOff
AllNext ==
  \/ OneNext /\ UNCHANGED <<ofScheme, exchanged, ofPolicy, store>>
  \/ IsScheme /\ A!Next /\ UNCHANGED <<vars, turn, op, call, ofPolicy, store>>
  \/ IsSession /\ T!Next /\ UNCHANGED <<vars, turn, op, call, ofScheme, ofPolicy>>
  \/ IsPolicy /\ B!Next /\ UNCHANGED <<vars, op, call, ofScheme, exchanged, store>>
AllSpec == AllInit /\ [][AllNext]_all /\ WF_vars(IsSolver /\ Next)

\* The types of what the machines hold and exchange.
TypesOK ==
  /\ IsScheme => A!TypeOK
  /\ IsSession => T!TypeOK
  /\ IsPolicy => B!TypeOK

\* A key and a ciphertext of the same master keys decrypt exactly when the attributes
\* satisfy the policy (fame.c:297-372, gpsw.c:134-210, dippe.c:319-388).
SchemesDecrypt == IsScheme => A!DecryptCorrect

\* "If the keys were properly generated, this is possible if and only if the rows of
\* the MSP matrix corresponding to owned attributes span the vector [1, 0,..., 0]"
\* (fame.h:202-204), also for a policy that has an attribute twice.
DecryptIff == IsScheme => A!DecryptIff

\* What is in the proper form becomes a span program of a tree that it can be read as
\* (policy.h:53-55); what is not is refused, unless an attribute is missing.
Converted == IsPolicy => B!Converted

\* "Returns an error if the boolean expression is not in the proper form and cannot be
\* transformed." (policy.h:66-67)
ImproperRefused == IsPolicy => B!ImproperRefused

\* Whatever way an object took through buffers, restarts and damage, it is what was made,
\* and keys and ciphertexts that were made and used on different sides decrypt
\* (README.md:549-554).  Only a vector of elements of G2 may be read from a damaged
\* buffer without an error (data_ser.c:425-439).
Transported == IsSession => T!HeldIsMade /\ T!DecryptCorrect
=============================================================================
