------------------------------ MODULE MCRandom ------------------------------
(***************************************************************************)
(* The computations that depend on random numbers: Pollard's rho modulo a  *)
(* small prime, the samplers and the search for primes.  One of them runs, *)
(* and the others are off; the search of PollardRho is then done.          *)
(***************************************************************************)
EXTENDS PollardRho, MCGroup

CONSTANTS
  ByteBits, Ranges, DetCalls, Streams, MaxRounds,              \* of UniformSampler
  Samplers, TableWord,                                         \* of NormalSamplers
  Calls, Byte, SmallPrimes, SmallProduct, SmallBits, Word, DeltaLimit        \* of PrimeSearch

MCPart(a) == a % 3
MCGcd(a, b) == CHOOSE k \in 1..b :
  /\ a % k = 0 /\ b % k = 0
  /\ \A c \in (k + 1)..b : a % c # 0 \/ b % c # 0
MCInvert(a, b) == CHOOSE k \in 0..(b - 1) : (\E n \in 0..(b - 1) : (n * a) % b = 1 % b) => (k * a) % b = 1 % b

\* Ranges that end at, below and above powers of two, for bytes of two bits.
MCRanges == {<<0, n>> : n \in {-1, 0, 1, 2, 3, 4, 5, 8, 9, 15, 16, 17}} \cup {<<-3, 2>>, <<-3, -3>>}

\* Streams that are too short at first: a pattern, more ones or not, and zeros.
Stream(b, ones) == [k \in 1..64 |-> IF k <= Len(b) THEN b[k] ELSE IF k <= ones THEN 1 ELSE 0]
MCStreams ==
  {Stream(b, 0) : b \in [1..4 -> {0, 1}]} \cup {Stream(b, 18) : b \in [1..3 -> {0, 1}]}
    \cup {Stream([k \in 1..24 |-> (k + (k \div 3)) % 2], 0)}
MCDetCalls == {<<1, 2>>, <<1, 3>>, <<2, 1>>, <<2, 2>>, <<2, 3>>, <<1, 5>>, <<2, 4>>}

\* Samplers with a few bits of precision, for units of 1 and 2, and tables of two and of
\* three entries.  With n bits the deviation of 0.849 / sqrt(unit) gives the whole part
\* of its product with sqrt(n) as cut of a negative sampler and as top; the cut of
\* cumulative ones, and, for the deviation divided by k, of the first sampler of double
\* ones, is one more.
MCSamplers ==
  {[kind |-> "cumulative", n |-> 6, unit |-> 1, cut |-> 3, two_sided |-> b] : b \in BOOLEAN}
  \cup {[kind |-> "cumulative", n |-> n, unit |-> 2, cut |-> 2, two_sided |-> TRUE] : n \in {4, 6}}
  \cup {[kind |-> "negative", n |-> 6, unit |-> 1, cut |-> 2], [kind |-> "negative", n |-> 5, unit |-> 1, cut |-> 1]}
  \cup {[kind |-> "double", n |-> 6, unit |-> 1, k |-> 2, cut |-> 2, top |-> 2],
        [kind |-> "double", n |-> 4, unit |-> 2, k |-> 1, cut |-> 2, top |-> 1],
        [kind |-> "double", n |-> 4, unit |-> 1, k |-> 0, cut |-> 2, top |-> 1]}
  \cup {[kind |-> "constant", k |-> 2, frac |-> 2, len |-> 4, table |-> <<<<1, 2>>, <<2, 0>>>>]}
  \cup {[kind |-> "cdt", table |-> <<<<1, 2>>, <<0, 2>>, <<3, 0>>>>]}

\* Lengths of one byte of four bits, of two, and of one bit more than a byte, for which
\* the search ends: for safe primes not 2, 4, 5 and 9, and for groups not 3.  The
\* product of the small primes is less than a word, and twice the product more, as it
\* is for the real ones.
Calling(lengths, safe, group) == [bits : lengths, safe : {safe}, group : {group}]
MCCalls ==
  Calling(0..9, FALSE, FALSE) \cup Calling({0, 1, 3, 6, 7, 8}, TRUE, FALSE)
  \cup Calling({1, 6, 7}, TRUE, TRUE)
MCEndless == Calling({2, 4, 5, 9}, TRUE, FALSE) \cup Calling({3}, TRUE, TRUE)

-----------------------------------------------------------------------------
VARIABLES
  uniform, normal, prime,    \* where the samplers and the search for primes are
  call,                      \* what they are called with
  got, more, error           \* what they have found

U == INSTANCE UniformSampler WITH pc <- uniform, args <- call, bytes <- more, res <- got
N == INSTANCE NormalSamplers WITH Word <- TableWord, pc <- normal, s <- call, res <- got
P == INSTANCE PrimeSearch WITH pc <- prime, c <- call, p <- got, g <- more, err <- error

ASSUME PartsAssumption == U!SamplerAssumption /\ N!WordAssumption /\ P!CallAssumption

all == <<vars, uniform, normal, prime, call, got, more, error>>

RhoDone ==
  /\ h = One /\ pc = "done" /\ i = 0
  /\ slow = [x |-> One, a |-> 0, b |-> 0] /\ fast = slow
  /\ q = 0 /\ d = 1 /\ j = 0 /\ res = 0 /\ err = "NONE"
UniformOff == uniform = "off"
NormalOff == normal = "off"
PrimeOff == prime = "off"

OneInit ==
  \/ Init /\ UniformOff /\ NormalOff /\ PrimeOff /\ call = 0 /\ got = 0 /\ more = 0 /\ error = 0
  \/ RhoDone /\ U!Init /\ NormalOff /\ PrimeOff /\ error = 0
  \/ RhoDone /\ UniformOff /\ N!Init /\ PrimeOff /\ more = 0 /\ error = 0
  \/ RhoDone /\ UniformOff /\ NormalOff /\ P!Init

OneNext ==
  \/ Next /\ UNCHANGED <<uniform, normal, prime, call, got, more, error>>
  \/ U!Next /\ UNCHANGED <<vars, normal, prime, error>>
  \/ N!Next /\ UNCHANGED <<vars, uniform, prime, more, error>>
  \/ P!Next /\ UNCHANGED <<vars, uniform, normal>>

OneSpec ==
  OneInit /\ [][OneNext]_all /\ WF_vars(Next) /\ U!Fairness /\ N!Fairness /\ P!Fairness

-----------------------------------------------------------------------------
\* The types of the variables of the part that runs.
TypesOK ==
  /\ TypeOK
  /\ uniform # "off" => U!TypeOK
  /\ normal # "off" => N!TypeOK
  /\ prime # "off" => P!TypeOK

\* As many byte strings are accepted for one number of the range as for any other, and
\* for none outside of it (uniform.c:39-45).
Uniform == uniform # "off" => U!Uniform /\ U!InRange

\* A vector from a key is cut from the stream of its last round (uniform.c:127-140).
CutFromStream == uniform # "off" => U!CutFromStream

\* The comparisons with exponentials are decided as normal.c:80-82 promises, and the trial
\* of the constant-time sampler has a meaning (normal.c:254).
ExpDecided == normal # "off" => N!ExpDecided /\ N!TrialDefined

\* A table gives every number the draws between two of its entries (normal_cdt.c:53-55,
\* normal_cumulative.c:111-124), and numbers and their negatives are returned by as many
\* draws, also 0 (normal_double.c:103, normal_double_constant.c:74).
Distributed == normal # "off" => N!Symmetric /\ N!TableRead

\* The primes have the length and the form that was asked for (prime.c:46-49), every round
\* tests what it drew, and the generators generate the squares (keygen.h:34).
PrimeFound == prime # "off" => P!PrimeFound /\ P!CandidateMet /\ P!GeneratorFound

\* All of them return what they are called for: the search of dlog.c:128-210, sampling
\* from a range that is not empty (uniform.c:26; from an empty one it never does), the
\* rounds of rejection of the normal samplers, and the search for primes and generators
\* (prime.c:46, keygen.h:40) of the lengths of MCCalls, which leave out those of MCEndless.
Returns == Termination /\ U!Returns /\ N!Returns /\ P!Returns

\* "Finds a prime number of specified bit length.  If the safe parameter is true, the
\* prime will be a safe prime [...]  Returns 0 on success, and some other value != 0 on
\* failure." (prime.c:46-50), for every length.
PrimesReturn == P!Returns
=============================================================================
