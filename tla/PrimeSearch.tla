---------------------------- MODULE PrimeSearch -----------------------------
(***************************************************************************)
(* The search for primes (src/internal/prime.c) and for the group of the   *)
(* schemes modulo a safe prime (src/internal/keygen.c): both repeat a      *)
(* random choice until it passes some tests.                               *)
(***************************************************************************)
EXTENDS Integers, FiniteSetsExt, Functions

CONSTANTS
  Calls,        \* records with the number of bits, safe, and group: only the prime, or a group
  Byte,         \* the bits of a byte
  SmallPrimes,  \* what candidates are divided by
  SmallProduct, \* their product
  SmallBits,    \* small primes have at most as many bits: 6 in the code
  Word,         \* the bits of the sums that are divided: 64
  DeltaLimit    \* how far the search goes on from a random number: 2^20

IsPrime(k) == k > 1 /\ \A d \in 2..(k - 1) : d <= k \div d => k % d # 0
Bits(k) == CHOOSE b \in 1..(k + 1) : k < 2^b /\ (b = 1 \/ k >= 2^(b - 1))

CallAssumption ==
  /\ Byte > 1 /\ SmallProduct = ProductSet(SmallPrimes) /\ SmallProduct < 2^Word
  /\ \A s \in SmallPrimes : IsPrime(s) /\ s > 2 /\ Bits(s) <= SmallBits
  /\ \A c \in Calls : c.bits \in Nat /\ {c.safe, c.group} \subseteq BOOLEAN /\ (c.group => c.safe)

VARIABLES
  pc,      \* "call", "prime", "generator" or "done"
  c,       \* the call
  p,       \* the prime, 0 before
  g,       \* the generator, 0 before
  err

vars == <<pc, c, p, g, err>>

\* What is searched has one bit less when it is doubled afterwards.  Mutant of TopBits:
\* a whole byte is taken for no bits.
NumBits(call) == IF call.safe THEN call.bits - 1 ELSE call.bits
NumBytes(call) == (call.bits + Byte - 1) \div Byte
TopBitsZero(call) == NumBits(call) % Byte
TopBits(call) == IF NumBits(call) % Byte = 0 THEN Byte ELSE NumBits(call) % Byte

\* The random bytes, the highest first, as a number: the two highest bits that belong
\* to the number and the lowest one are set, those above are cleared.
Odd(k) == IF k % 2 = 0 THEN k + 1 ELSE k
Masked(call, top, rest) ==
  LET b == TopBits(call)
      weight == 2^(Byte * (NumBytes(call) - 1))
      Half(k) == IF weight > 1 THEN weight \div 2 + (k % (weight \div 2)) ELSE k
  IN IF b >= 2 THEN Odd((3 * 2^(b - 2) + (top % 2^(b - 2))) * weight + rest)
     ELSE Odd(weight + Half(rest))
Guesses(call) ==
  {Masked(call, top, rest) : top \in 0..(2^Byte - 1), rest \in 0..(2^(Byte * (NumBytes(call) - 1)) - 1)}

\* Neither the number nor, for a safe prime, its double plus 1, which wraps around,
\* has a small factor.
IsCandidate(call, m) ==
  LET Passes(k, s) == k % s # 0 \/ (NumBits(call) <= SmallBits /\ k = s)
      m1 == ((2 * m + 1) % 2^Word) % SmallProduct
  IN \A s \in SmallPrimes : Passes(m, s) /\ (call.safe => Passes(m1, s))

\* The first candidate from a guess on; the guess itself if there is none, and then
\* what is tested as its double is a number of the round before.
Found(call, guess) ==
  LET Hit(d) == d % 2 = 0 /\ IsCandidate(call, (guess % SmallProduct) + d)
      some == \E d \in 0..(DeltaLimit - 1) : Hit(d)
  IN [some |-> some,
      p |-> guess + IF some THEN CHOOSE d \in 0..(DeltaLimit - 1) : Hit(d) /\ \A e \in 0..(d - 1) : ~Hit(e)
                    ELSE 0]

Accepted(call, q) == IsPrime(q) /\ Bits(q) = NumBits(call) /\ (call.safe => IsPrime(2 * q + 1))

\* Mutant of Generators: the square may be any.
GeneratorsAny(prime) == {(r * r) % prime : r \in 3..(prime - 1)}

\* The squares that cfe_elgamal_init takes for a generator: neither they nor their
\* inverses divide p - 1.
Generators(prime) ==
  LET InverseOf(s) == CHOOSE i \in 1..(prime - 1) : (i * s) % prime = 1
      Divides(d) == (prime - 1) % d = 0
  IN {s \in {(r * r) % prime : r \in 3..(prime - 1)} : ~Divides(s) /\ ~Divides(InverseOf(s))}

Init == pc = "call" /\ c \in Calls /\ p = 0 /\ g = 0 /\ err = "NONE"

Call ==
  /\ pc = "call"
  /\ IF c.bits < 2 THEN pc' = "done" /\ err' = "PRECONDITION_FAILED" ELSE pc' = "prime" /\ UNCHANGED err
  /\ UNCHANGED <<c, p, g>>

\* One round of the search for a prime.
Round(guess) ==
  /\ LET q == Found(c, guess).p
         res == IF c.safe THEN 2 * q + 1 ELSE q
     IN IF ~Accepted(c, q) THEN UNCHANGED <<pc, p, err>>
        ELSE IF Bits(res) # c.bits THEN pc' = "done" /\ err' = "PRIME_GEN_FAILED" /\ UNCHANGED p
        ELSE p' = res /\ pc' = (IF c.group THEN "generator" ELSE "done") /\ UNCHANGED err
  /\ UNCHANGED <<c, g>>

\* One round of the search for a generator.
Choose(r) ==
  /\ LET s == (r * r) % p IN IF s \in Generators(p) THEN g' = s /\ pc' = "done" ELSE UNCHANGED <<pc, g>>
  /\ UNCHANGED <<c, p, err>>

\* The search goes on with any random number.
SearchPrime == pc = "prime" /\ \E guess \in Guesses(c) : Round(guess)
SearchGenerator == pc = "generator" /\ \E r \in 3..(p - 1) : Choose(r)

\* A program calls again.
Return ==
  /\ pc = "done"
  /\ pc' = "call" /\ p' = 0 /\ g' = 0 /\ err' = "NONE" /\ c' \in Calls

Next == Call \/ SearchPrime \/ SearchGenerator \/ Return

\* Random numbers do not forever avoid what ends a search.
LuckyPrime == SearchPrime /\ pc' # "prime"
LuckyGenerator == SearchGenerator /\ pc' = "done"

Fairness == WF_vars(Call) /\ SF_vars(LuckyPrime) /\ SF_vars(LuckyGenerator)

Spec == Init /\ [][Next]_vars /\ Fairness

-----------------------------------------------------------------------------
\* The types of the variables.
TypeOK ==
  /\ pc \in {"call", "prime", "generator", "done"} /\ c \in Calls
  /\ p \in Nat /\ (g = 0 \/ g \in 1..(p - 1)) /\ err \in {"NONE", "PRECONDITION_FAILED", "PRIME_GEN_FAILED"}

\* A prime that is returned is one, of the length that was asked for, and a safe one if
\* that was asked for (prime.c:46-49); the only error is for a length below 2.
PrimeFound ==
  /\ pc = "done" /\ err = "NONE" => IsPrime(p) /\ Bits(p) = c.bits /\ (c.safe => IsPrime((p - 1) \div 2))
  /\ pc = "done" /\ err # "NONE" => c.bits < 2

\* The generator generates all the squares, of which there are q = (p - 1) / 2
\* (keygen.h:34), and neither it nor its inverse is a divisor of p - 1
\* (keygen.c:44).
GeneratorFound ==
  LET powers[i \in 0..(p - 1)] ==
        IF i = 0 THEN 1
        ELSE LET half == powers[i \div 2] IN (half * half * (IF i % 2 = 1 THEN g ELSE 1)) % p
      OrderOf == Min({i \in 1..(p - 1) : powers[i] = 1})
  IN pc = "done" /\ err = "NONE" /\ c.group =>
       OrderOf = (p - 1) \div 2 /\ (p - 1) % g # 0 /\ (p - 1) % powers[OrderOf - 1] # 0

\* A candidate is met before the search from a random number gives up: otherwise the
\* double of the number of an earlier round would be tested in place of its own.
CandidateMet == pc = "prime" => \A guess \in Guesses(c) : Found(c, guess).some

\* Every call of Calls returns (prime.c:46-50, keygen.h:40-46).
Returns == pc = "call" ~> pc = "done"
=============================================================================
