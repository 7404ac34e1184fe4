--------------------------- MODULE MCSingleInput ---------------------------
(***************************************************************************)
(* The schemes for single inputs: those of SingleInput, Paillier and the   *)
(* schemes from lattices.  One of the three machines runs; the others wait *)
(* where they start.  Paillier and the lattices share their variables.     *)
(***************************************************************************)
EXTENDS SingleInput

CONSTANTS PaillierInstances, LatticeInstances

VARIABLES
  turn,                                                      \* which machine runs
  arg, setup, master, count, public, ct, key, answer        \* of the two others

P == INSTANCE Paillier WITH Instances <- PaillierInstances,
       inst <- arg, s <- setup, keys <- master, epoch <- count, pub <- public, out <- answer
L == INSTANCE Lattice WITH Instances <- LatticeInstances,
       inst <- arg, s <- setup, sk <- master, epoch <- count, pub <- public, out <- answer

ASSUME OthersAssumption == P!InstanceAssumption /\ L!InstanceAssumption

-----------------------------------------------------------------------------
\* Small groups, data below and above the bounds, and, in a group of several limbs,
\* logarithms that the search passes over.
Narrow(q) == [q |-> q, limbs |-> [e \in 0..(q - 1) |-> 1]]

\* The powers of g modulo p = 2q + 1, those below base in one limb.
Wide(q, g, base) ==
  [q |-> q, limbs |-> [e \in 0..(q - 1) |-> IF (g^e) % (2 * q + 1) < base THEN 1 ELSE 2]]

\* A scheme with one coordinate and every value in the ranges.
One(scheme, grp, bounds, lo, hi, secrets, nonces) ==
  [scheme |-> scheme, grp |-> grp, l |-> 1, hexp |-> 3, bounds |-> bounds,
   xs |-> [1..1 -> lo..hi], ys |-> [1..1 -> lo..hi],
   secrets |-> secrets, nonces |-> nonces]

\* A scheme with two coordinates and the given values.
Two(scheme, grp, bounds, values, secrets, nonces) ==
  [scheme |-> scheme, grp |-> grp, l |-> 2, hexp |-> 3, bounds |-> bounds,
   xs |-> [1..2 -> values], ys |-> [1..2 -> values],
   secrets |-> secrets, nonces |-> nonces]

MCInstances == {
  One("damgard", Narrow(29), {1, 3}, -1, 3, {2, 19}, {1, 9}),
  One("ddh", Narrow(23), {2, 5}, -2, 3, {2, 21}, {17}),
  One("ddh_precomp", Narrow(29), {2, 3}, -2, 3, {21}, {1, 17}),
  Two("damgard", Wide(23, 2, 8), {2, 3}, {-2, 1, 2}, {30}, {29}),
  Two("ddh", Wide(23, 2, 8), {2}, {-2, 0, 2}, {21}, {17})}

\* Paillier with the safe primes 5, 7 and 11.
Vec1(a) == [i \in {0} |-> a]
Vec2(a, b) == [i \in 0..1 |-> IF i = 0 THEN a ELSE b]

\* Generators with and without an inverse; data up to and beyond the bounds.
PaillierOne ==
  [scheme |-> "paillier", l |-> 1, primes |-> {<<5, 7>>, <<5, 5>>}, generators |-> {2, 7, 12},
   bounds |-> {<<4, 4>>, <<2, 6>>}, secrets |-> {Vec1(v) : v \in {-9, 13}},
   xs |-> {Vec1(v) : v \in {-5, -4, 3, 4}}, ys |-> {Vec1(v) : v \in {-3, 4, 6}},
   nonces |-> {0, 5, 8}]
PaillierTwo ==
  [scheme |-> "paillier", l |-> 2, primes |-> {<<7, 11>>}, generators |-> {3, 11},
   bounds |-> {<<3, 5>>}, secrets |-> {Vec2(-9, 31), Vec2(6, -2)},
   xs |-> {Vec2(3, -3), Vec2(-2, 1), Vec2(3, 3)}, ys |-> {Vec2(5, -5), Vec2(-4, 2), Vec2(6, 1)},
   nonces |-> {1, 17}]

MCPaillier == {PaillierOne, PaillierTwo}

\* LWE with the smallest parameters that its set-up chooses, the other schemes from
\* lattices with q scaled down to what 32 bits hold.
Vector(v) == [i \in 0..0 |-> v]
Column(n, f(_)) == [i \in 0..(n - 1) |-> Vector(f(i))]

\* l = n = 1 and bounds 1: p has 5 bits, q has 15 bits, m = 48.
LweSmallest ==
  [scheme |-> "lwe", l |-> 1, bounds |-> {<<1, 1>>},
   prm |-> [err |-> "NONE", n |-> 1, p |-> 17, q |-> 16411, A |-> Column(48, LAMBDA i : (37 * i + 5) % 101)],
   secrets |-> {Vector(Vector(5)), Vector(Vector(16000))},
   noises |-> {Column(48, LAMBDA i : (i % 19) - 9), Column(48, LAMBDA i : 9),
               Column(48, LAMBDA i : -30)},
   nonces |-> {[i \in 0..47 |-> 1], [i \in 0..47 |-> i % 2], [i \in 0..47 |-> 0]},
   xs |-> {Vector(v) : v \in {-2, -1, 1}} \cup {[i \in 0..1 |-> 1]},
   ys |-> {Vector(v) : v \in {-1, 1, 2}}]

\* Vectors of two.
LwePair ==
  [scheme |-> "lwe", l |-> 2, bounds |-> {<<1, 1>>},
   prm |-> [err |-> "NONE", n |-> 1, p |-> 37, q |-> 65537, A |-> Column(71, LAMBDA i : (11 * i + 3) % 53)],
   secrets |-> {Vector([i \in 0..1 |-> 65000 * i + 7])},
   noises |-> {[i \in 0..70 |-> [j \in 0..1 |-> (i % 21) - 10 + j]]},
   nonces |-> {[i \in 0..70 |-> 1], [i \in 0..70 |-> (i % 3) % 2]},
   xs |-> [0..1 -> {-1, 1}], ys |-> [0..1 -> {-1, 0, 1}]]

\* With K = 8, and the noises of both signs up to and beyond what is tolerated.
LweFsSmall(n) ==
  [scheme |-> "lwe_fs", l |-> 1, bounds |-> {<<2, 2>>, <<1, 1>>},
   prm |-> [err |-> "NONE", n |-> n, m |-> 4, q |-> 1009,
            A |-> [i \in 0..3 |-> [j \in 0..(n - 1) |-> 301 * i + 77 * j]]],
   secrets |-> {[i \in {0} |-> [j \in 0..3 |-> 2 - j]], [i \in {0} |-> [j \in 0..3 |-> j - 3]]},
   noises |-> {<<>>},
   nonces |-> [r : {[j \in 0..(n - 1) |-> 500 + j]}, e1 : {Vector(-7), Vector(7), Vector(62)},
               e0 : {[j \in 0..3 |-> 7 - 2 * j], [j \in 0..3 |-> 0]}],
   xs |-> {Vector(v) : v \in {-2, -1, 2, 3}}, ys |-> {Vector(v) : v \in {-2, 1, 3}}]

\* Polynomials of two coefficients, p = 2 l bound^2 or more, and refused parameters.
Poly(a, b) == [i \in 0..1 |-> IF i = 0 THEN a ELSE b]
RingSmall(l, p, n, xs) ==
  [scheme |-> "ring_lwe", l |-> l, bounds |-> {<<2, 2>>},
   prm |-> [n |-> n, p |-> p, q |-> 4099, a |-> Poly(2011, 77)],
   secrets |-> {[i \in 0..(l - 1) |-> Poly(1, -2)], [i \in 0..(l - 1) |-> Poly(i, 1)]},
   noises |-> {[i \in 0..(l - 1) |-> Poly(1, -1)], [i \in 0..(l - 1) |-> Poly(2, 2 * i)]},
   nonces |-> [r : {Poly(1, 2), Poly(-1, 0)}, E : {[i \in 0..(l - 1) |-> Poly(i - 1, 2)]},
               e : {Poly(0, 1), Poly(-2, 2)}],
   xs |-> [0..(l - 1) -> xs], ys |-> [0..(l - 1) -> {-2, 1}]]

MCLattice ==
  {LweSmallest, LwePair, [LweSmallest EXCEPT !.prm.err = "PARAM_GEN_FAILED"], LweFsSmall(2), LweFsSmall(1),
   RingSmall(1, 8, 2, {Poly(a, b) : a \in {-1, 2}, b \in {-2, 0, 1, 3}}),
   RingSmall(2, 17, 2, {Poly(1, 2), Poly(-2, -1)}),
   RingSmall(1, 7, 2, {Poly(0, 0)}), RingSmall(1, 8, 3, {Poly(0, 0)})}

-----------------------------------------------------------------------------
ofOthers == <<arg, setup, master, count, public, ct, key, answer>>
all == <<vars, turn, ofOthers>>

Waits == Init /\ inst = CHOOSE n \in Instances : TRUE
OthersWait ==
  arg = 0 /\ setup = 0 /\ master = 0 /\ count = 0 /\ public = 0 /\ ct = 0 /\ key = 0 /\ answer = 0

OneInit ==
  \/ turn = "groups" /\ Init /\ OthersWait
  \/ turn = "paillier" /\ Waits /\ P!Init
  \/ turn = "lattices" /\ Waits /\ L!Init
OneNext ==
  /\ UNCHANGED turn
  /\ \/ turn = "groups" /\ Next /\ UNCHANGED ofOthers
     \/ turn = "paillier" /\ P!Next /\ UNCHANGED vars
     \/ turn = "lattices" /\ L!Next /\ UNCHANGED vars
OneSpec == OneInit /\ [][OneNext]_all

\* Paillier keeps its types, never asks for a negative power of a number without an
\* inverse, and decrypts to the inner product when that is within half of n
\* (paillier.c:198-228).
PaillierDecrypts == turn = "paillier" => P!TypeOK /\ P!NeverAborts /\ P!DecryptCorrect

\* The schemes from lattices keep their types and decrypt to the product as long as the
\* noise is within what they tolerate (lwe.c:270-329, lwe_fs.c:286-330,
\* ring_lwe.c:243-310).
LatticesDecrypt == turn = "lattices" => L!TypeOK /\ L!DecryptCorrect
=============================================================================
