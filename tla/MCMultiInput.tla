---------------------------- MODULE MCMultiInput ----------------------------
(***************************************************************************)
(* The schemes of several clients, and the secret-key schemes over         *)
(* pairings, of which one has several clients: those of Decentralised,     *)
(* which are run without an authority, and those of MultiInput and         *)
(* FunctionHiding, which have one.  One of the three machines runs; the    *)
(* others wait where they start.  Those with an authority share their      *)
(* variables.                                                              *)
(***************************************************************************)
EXTENDS Decentralised

CONSTANTS AuthorityInstances, HidingInstances, MaxEpoch, MaxUses

VARIABLES
  turn,                                                      \* which machine runs
  arg, setup, master, epoch, held, sent, feKey, answer       \* of those with an authority

M == INSTANCE MultiInput WITH Instances <- AuthorityInstances,
       inst <- arg, m <- setup, sk <- master, part <- held, ct <- sent, out <- answer
H == INSTANCE FunctionHiding WITH Instances <- HidingInstances,
       inst <- arg, s <- setup, msk <- master, key <- feKey, out <- answer

ASSUME AuthorityAssumption == M!InstanceAssumption /\ H!InstanceAssumption

-----------------------------------------------------------------------------
\* A group of one limb, and one of two: the powers of g modulo p = 2q + 1, those
\* below base in one limb.
Narrow(q) == [q |-> q, limbs |-> [e \in 0..(q - 1) |-> 1]]
Wide(q, g, base) ==
  [q |-> q, limbs |-> [e \in 0..(q - 1) |-> IF (g^e) % (2 * q + 1) < base THEN 1 ELSE 2]]

\* Without an authority.  Hashes and expanded elements are some functions that tell
\* their arguments apart.
Pads(order, rows, cols) ==
  [e \in 0..(order - 1) |-> [r \in rows |-> [c \in cols |->
     (e * e + 3 * e + 2 * r + 5 * c) % order]]]

\* The Damgard scheme with vectors of length l. The values are given to each
\* coordinate.
Damgard(n, q, l, dh, xs, ys, maxInit, maxShare) ==
  LET m == DamgardMultiNew(n, Narrow(q), l, 1, 3).res
  IN [scheme |-> "damgard_dec_multi", m |-> m, bound |-> 1,
      z |-> [n |-> n, order |-> q, pad |-> Pads(q, 0..(n - 1), 1..l)],
      dh |-> dh, keys |-> DecMultiSecretKeys(m, {2 * q - 2}, {3}), nonces |-> {q + 4},
      xs |-> [1..l -> xs], ys |-> [0..(n - 1) -> [1..l -> ys]],
      maxInit |-> maxInit, maxShare |-> maxShare, maxGen |-> 1]

\* The multi-client scheme.
MultiClient(n, q, labels, dh, xs, ys, maxInit) ==
  [scheme |-> "dmcfe", bound |-> 1,
   d |-> [q |-> q, wrap |-> 8,
          g1 |-> [k \in 0..1 |-> [l \in labels |-> (5 * l + 7 * k + 2) % q]],
          g2 |-> [k \in 0..1 |-> [y \in ys |->
                    (3 * k + SumFunction([i \in 0..(n - 1) |-> (4 * i + 5) * y[i]])) % q]]],
   z |-> [n |-> n, order |-> q, pad |-> Pads(q, 0..1, 0..1)],
   dh |-> dh, keys |-> {[k \in 0..1 |-> (6 + 3 * k) % q]}, nonces |-> labels,
   xs |-> xs, ys |-> ys, maxInit |-> maxInit, maxShare |-> 1, maxGen |-> 1]

Ones(n) == [i \in 0..(n - 1) |-> 1]
OneMinusOne == [i \in 0..1 |-> IF i = 0 THEN 1 ELSE -1]

MCInstances == <<
  \* all interleavings of the calls of two clients, once each
  Damgard(2, 11, 1, {4}, {-1, 2}, {0, 1}, 1, 1),
  \* two clients that restart with a fresh key at any time
  Damgard(2, 11, 1, {4, 7}, {1}, {1}, 2, 1),
  \* three clients: the middle one adds one matrix and subtracts the other
  Damgard(3, 11, 1, {2, 5}, {1}, {1}, 1, 1),
  \* shares that are set once or twice, and clients that restart; nothing bounded
  \* is encrypted
  [Damgard(3, 11, 1, {4, 7}, {2}, {2}, 2, 1) EXCEPT !.maxGen = 0],
  [Damgard(3, 11, 1, {4}, {2}, {2}, 1, 2) EXCEPT !.maxGen = 0],
  \* two labels, and vectors y with a negative coordinate
  MultiClient(2, 17, {1, 2}, {4}, {0, 1}, {Ones(2), OneMinusOne}, 1),
  MultiClient(2, 17, {1}, {4, 9}, {1}, {Ones(2)}, 2)>>

\* A client that encrypts a negative number.
Negative == <<MultiClient(2, 17, {1}, {4}, {-1, 1}, {Ones(2), OneMinusOne}, 1)>>

-----------------------------------------------------------------------------
\* Schemes with an authority, with data below and above the bounds, every pad of the
\* DDH scheme, and in a group of several limbs logarithms that are passed over: n
\* clients with one coordinate each.
EachOne(scheme, n, grp, bounds, xs, ys, secrets, pads, nonces) ==
  [scheme |-> scheme, n |-> n, grp |-> grp, l |-> 1, hexp |-> 3, bounds |-> bounds,
   xs |-> [1..1 -> xs], ys |-> [1..1 -> ys],
   secrets |-> secrets, pads |-> pads, nonces |-> nonces]

MCAuthority == {
  EachOne("damgard_multi", 2, Narrow(11), {1, 3}, {-1, 2}, {-1, 1},
      {20}, {3, 10}, {15}),
  EachOne("damgard_multi", 2, Wide(23, 2, 8), {2}, {1, 2}, {-1, 2}, {20}, {3}, {15}),
  EachOne("ddh_multi", 2, Narrow(29), {2, 3}, {-4, 2}, {-1, 2}, {21}, {1, 2}, {17}),
  EachOne("ddh_multi_precomp", 2, Wide(23, 2, 8), {2}, {-2, 2}, {1, 2}, {21}, {1}, {17})}

\* Secret-key schemes over pairings.  The orders leave a search of the largest bound no
\* value to mistake for another one, except where said.
Vec1(a) == [i \in {0} |-> a]
Vec2(a, b) == [i \in 0..1 |-> IF i = 0 THEN a ELSE b]
Mat2(a, b, c, d) == Vec2(Vec2(a, b), Vec2(c, d))

\* Matrices that need an exchange of rows, and one that is singular.
FhipePair ==
  [scheme |-> "fhipe", q |-> 61, l |-> 2, clients |-> 1, sec |-> 0,
   bounds |-> {<<2, 2>>, <<6, 6>>},
   masters |-> {[g1 |-> 3, g2 |-> 5, B |-> Mat2(0, 1, 7, 4)], [g1 |-> 8, g2 |-> 1, B |-> Mat2(9, 2, 3, 11)],
                [g1 |-> 1, g2 |-> 1, B |-> Mat2(2, 4, 1, 2)]},
   xs |-> {Vec2(1, -2), Vec2(2, 2), Vec2(0, 3)},
   ys |-> {Vec2(2, 1), Vec2(-2, 2)},
   keyNonces |-> {0, 60}, nonces |-> {17}]

\* One coordinate, and numbers that are ambiguous.
FhipeOne(q, b) ==
  [scheme |-> "fhipe", q |-> q, l |-> 1, clients |-> 1, sec |-> 0, bounds |-> {<<b, b>>},
   masters |-> {[g1 |-> 2, g2 |-> 3, B |-> Vec1(Vec1(4))], [g1 |-> 0, g2 |-> 3, B |-> Vec1(Vec1(1))]},
   xs |-> {Vec1(v) : v \in {-b, 1, b, b + 1}}, ys |-> {Vec1(v) : v \in {-b, 1, b}},
   keyNonces |-> {2}, nonces |-> {1, 2}]

\* An invertible matrix with a zero on its diagonal.
Basis(n, a) == [i \in 0..(n - 1) |-> [j \in 0..(n - 1) |->
                  IF i = n - 1 - j THEN a ELSE IF i + j >= n THEN (i * a + 2 * j) % 7 ELSE 0]]

FhMulti(q, l, sec, clients, bounds, xs, ys, gammas, phis) ==
  LET n == 2 * l + 2 * sec + 1
  IN [scheme |-> "fh_multi_ipe", q |-> q, l |-> l, clients |-> clients, sec |-> sec, bounds |-> bounds,
      masters |-> {[mu |-> 3, Bs |-> [i \in 0..(clients - 1) |-> Basis(n, i + 1)]],
                   [mu |-> 1, Bs |-> [i \in 0..(clients - 1) |-> Basis(n, 5 - i)]],
                   [mu |-> 2, Bs |-> [i \in 0..(clients - 1) |-> Basis(n, i)]]},
      xs |-> xs, ys |-> ys, keyNonces |-> gammas, nonces |-> phis]

FhMultiTwo ==
  FhMulti(41, 1, 1, 2, {<<1, 2>>, <<5, 5>>}, {Vec1(-1), Vec1(2)},
          {Vec2(Vec1(-2), Vec1(2)), Vec2(Vec1(0), Vec1(3))},
          {Vec1(Vec2(4, 7))}, {Vec1(9)})
FhMultiOne ==
  FhMulti(61, 2, 2, 1, {<<2, 2>>}, {Vec2(1, -2), Vec2(2, 2)}, {Vec1(Vec2(2, 1)), Vec1(Vec2(-1, -2))},
          {Vec2(Vec1(5), Vec1(8))}, {Vec2(3, 40)})

SgpPair ==
  [scheme |-> "sgp", q |-> 53, l |-> 2, clients |-> 1, sec |-> 0, bounds |-> {<<1, 0>>, <<3, 0>>},
   masters |-> {[s |-> Vec2(4, 50), t |-> Vec2(0, 9)]},
   xs |-> {[x |-> x, y |-> y] : x \in {Vec2(1, -1), Vec2(0, 2), Vec1(1)}, y \in {Vec2(1, 1), Vec2(-1, 0)}},
   ys |-> {Mat2(1, -1, 0, 1), Mat2(-1, 1, 1, 1), Mat2(0, 1, 2, 0), Vec1(Vec2(1, 1))},
   keyNonces |-> {0},
   nonces |-> {[W |-> Mat2(3, 1, 0, 7), gamma |-> 6], [W |-> Mat2(0, 5, 2, 1), gamma |-> 0],
               [W |-> Mat2(2, 1, 4, 2), gamma |-> 1]}]
SgpOne ==
  [scheme |-> "sgp", q |-> 31, l |-> 1, clients |-> 1, sec |-> 0, bounds |-> {<<2, 0>>},
   masters |-> {[s |-> Vec1(4), t |-> Vec1(30)], [s |-> Vec1(1), t |-> Vec1(2)]},
   xs |-> {[x |-> Vec1(a), y |-> Vec1(b)] : a \in {-2, 1, 3}, b \in {-2, 1}},
   ys |-> {Vec1(Vec1(v)) : v \in {-2, 1, 2}},
   keyNonces |-> {0},
   nonces |-> {[W |-> Mat2(3, 1, 1, 7), gamma |-> 2], [W |-> Mat2(1, 0, 0, 1), gamma |-> 1]}]

MCHiding == {FhipePair, FhipeOne(29, 2), FhipeOne(17, 3), FhMultiTwo, FhMultiOne, SgpPair, SgpOne}

-----------------------------------------------------------------------------
ofOthers == <<arg, setup, master, epoch, held, sent, feKey, answer>>
varsOfAll == <<vars, turn, ofOthers>>

Waits == Init /\ IsDmcfe /\ inst.maxInit = 1
OthersWait ==
  /\ arg = 0 /\ setup = 0 /\ master = 0 /\ epoch = 0
  /\ held = 0 /\ sent = 0 /\ feKey = 0 /\ answer = 0

OneInit ==
  \/ turn = "decentralised" /\ Init /\ OthersWait
  \/ turn = "authority" /\ Waits /\ M!Init
  \/ turn = "hiding" /\ Waits /\ H!Init
OneNext ==
  /\ UNCHANGED turn
  /\ \/ turn = "decentralised" /\ Next /\ UNCHANGED ofOthers
     \/ turn = "authority" /\ M!Next /\ UNCHANGED vars
     \/ turn = "hiding" /\ H!Next /\ UNCHANGED vars
OneSpec == OneInit /\ [][OneNext]_varsOfAll

\* With an authority, types are kept, and ciphertexts of all clients and a key of the same
\* master key decrypt to the sum (damgard_multi.c:165-211, ddh_multi.c:152-178).
AuthorityDecrypts == turn = "authority" => M!TypeOK /\ M!DecryptCorrect

\* The schemes over pairings keep their types, and inputs under the master key of the
\* functional key decrypt to the value of the function (fhipe.c:199-221,
\* fh_multi_ipe.c:264-287, sgp.c:175-249).
HidingDecrypts == turn = "hiding" => H!TypeOK /\ H!DecryptCorrect
=============================================================================
