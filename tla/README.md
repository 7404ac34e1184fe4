# CiFEr in TLA+

CiFEr is a C library of functional-encryption schemes: a key holder learns a
function of the encrypted data, an inner product or a message whose policy its
attributes satisfy, and nothing else. This directory holds TLA+ models of its
schemes and algorithms, TLC configurations that check them on small instances,
and proofs, checked by TLAPS, that hold for all parameters: about the searches
for discrete logarithms that most decryptions end in, the solver of linear
systems, and the inner-product schemes over groups of known order and of Paillier,
for one client and for several, with and without an authority.

What is modelled is functional correctness: which calls may be made in which
order, by whom and with what stale data, and what each call returns then. The
secrecy of the schemes is not a subject of these models.

Paths below are relative to the repository (`src/abe/fame.c`). `tlc -config X.cfg
M` runs a model, `tlapm M.tla` checks the proofs of a module.

## 1. The system

CiFEr is a library without threads, files or sockets. Every function runs on its
caller's thread and changes only what it is given. Three things make it hard to
get right nevertheless:

* **Its users are distributed.** A scheme is run by several machines, which
  exchange public keys, ciphertexts and functional keys by means that the library
  does not provide. Nothing in a ciphertext or key says which master key it
  belongs to. Keys are replaced, clients restart, messages are late: data that
  does and does not belong together meets.
* **Its results hang on arithmetic at several places that must agree**: the
  modulus that a key is reduced by, the precondition that leaves a search room,
  the columns of a matrix, the sign of a share, what rounding takes away.
* **Its samplers repeat until they are lucky.** What they return must have the
  right range and form for every outcome, and they must be able to get lucky.

### Components

| component | source | state | operations | what makes it correct |
|---|---|---|---|---|
| discrete logarithms | `internal/dlog.c` | locals of the loops, a hash table | three baby-step giant-step searches; Pollard's rho | what is returned is a logarithm; "not found" means that there is none in range; the call returns |
| vectors, matrices | `data/vec*.c`, `data/mat*.c` | none | arithmetic modulo p, bound checks, determinants, inverses, a linear solver, products of polynomials, products with group elements | inverse and solution are found exactly when they exist; elements follow their exponents |
| single-input inner products | `innerprod/simple/ddh.c`, `lwe.c`, `ring_lwe.c`, `innerprod/fullysec/damgard.c`, `paillier.c`, `lwe_fs.c` | the scheme; a master key | set up, generate master keys, derive a key, encrypt, decrypt | a ciphertext and a key under the same master key give the inner product, whatever noise they carry |
| multi-input inner products | `simple/ddh_multi.c`, `fullysec/damgard_multi.c` | the same, with a key and a pad per client | the same per client | the masks and pads of all clients cancel |
| decentralised schemes | `fullysec/damgard_dec_multi.c`, `fullysec/dmcfe.c` | per client: Diffie-Hellman key, share of zero, encryption key | initialise, set share, generate keys, encrypt, derive a part of a key; decrypt | shares that agree are zero together; parts that belong together make up a key that nobody held |
| secret-key schemes over pairings | `fullysec/fhipe.c`, `fh_multi_ipe.c`, `quadratic/sgp.c` | a master key of matrices and vectors | as above, for inner products and for x F y | dual bases and random numbers cancel |
| policies | `abe/policy.c` | none | expression to span program | attributes satisfy the expression exactly when their rows span the target |
| attribute-based schemes | `abe/fame.c`, `abe/gpsw.c`, `abe/dippe.c` | keys of one or many authorities | set up, generate keys, encrypt, issue keys, decrypt | decryption succeeds exactly when the attributes satisfy the policy |
| samplers | `sample/` | none | uniform and Gaussian numbers, from system bytes or from a key | no number of the range is favoured; tables are read at the right entry; the loops end |
| primes, groups | `internal/prime.c`, `internal/keygen.c` | none | (safe) primes, generators | length and form are what was asked for; the loops end |
| serialisation | `serialization/` | none | to and from Protocol Buffers | a round trip changes nothing; a failed one leaves memory alone |

The components call downwards: schemes call the searches, the linear algebra, the
policy conversion, the samplers and the vector operations; the decentralised
schemes embed the operations of the multi-input ones. There are no callbacks and
there is no shared state; machines interact by the data that they exchange.

### What is hard to test

`PROJECT.json` lists the hazards at their lines with the properties that cover
them. In short: stale keys and ciphertexts after a key is replaced; clients that
restart or set their share twice or from late public keys; a search that works on
memory of an earlier number; two loops whose sizes come from a rounded square
root; hash-table keys that share one buffer; unsigned counters that wrap around;
one vector with two meanings; columns of a matrix that two branches number; noise
that is up to what rounding tolerates; master keys that are replaced in part;
buffers that cannot be read; loops that end only when random bytes allow it.

## 2. The modules

Every module is parameterised by constants with named assumptions; modules named
`MC...` give them values for TLC.

### Arithmetic and algorithms

| module | models | notes |
|---|---|---|
| `FiniteGroup` | Z_p\* and the target group of the pairing | only the laws that the searches use, as assumptions |
| `DiscreteLog` | what the loops of `internal/dlog.c` keep of a search | abstract specification: one step, to a logarithm in a range or to an error that says that none of those required is there; the range is that of the loops, which is wider than the bound of the caller (finding 2) |
| `BabyGiant` | `cfe_baby_giant`, `cfe_baby_giant_with_neg` | one action per loop iteration; the table is keyed by limbs, and the temporary of the lookup keeps stale limbs as GMP does |
| `BabyGiantGT` | `cfe_baby_giant_FP12_BN256_with_neg` | the hash table as uthash sees it: an entry matches when hash values do |
| `PollardRho` | `cfe_pollard_rho` | one action per iteration of the walks and per solution that is tried; how elements are split into three classes is a parameter |
| `LinearSystem`, `GaussSolver` | `cfe_gaussian_elimination_solver` | `GaussSolver` has one action per column of each loop, and its inductive invariant; `LinearSystem` defines what the result is |
| `Vectors`, `Matrices` | `data/vec.c`, `data/mat.c`, `data/vec_curve.c`, `data/mat_curve.c` | operators with the loop limits of the code; bound checks look at one side, as in the code |
| `MatrixCalls` | a caller of these operations | one action per operation; the result is compared with the definitions of linear algebra |
| `SchemeGroups` | the groups of the schemes | elements are exponents of a generator, and the searches are single steps |
| `UniformSampler` | `sample/uniform.c` | one action per round of bytes; a stream from a key is a sequence of bits |
| `NormalSamplers` | `sample/normal*.c` | one action per round; deviations for which all exponentials are powers of two, so that n bits of them are exact |
| `PrimeSearch` | `internal/prime.c`, `internal/keygen.c` | one action per round; bytes of few bits, small lists of primes |

**Exponents.** All groups of the schemes are cyclic of known order, and
everything the code computes with elements is a product or a power, so an element
is written as its exponent modulo q: products are sums, pairings are products of
exponents. This loses nothing, and TLC computes with small numbers. (Paillier
works modulo n^2, in a group of unknown order: `Paillier` computes with the
residues themselves, and its negative powers need inverses.) What an element's
*bytes* are used for, hashing and looking up, is kept where it matters: the limbs
in `BabyGiant`, the hash values in `BabyGiantGT`, the octets in `Transport`. Hash
functions to curves are constants. That the one-step searches of `SchemeGroups`
are what the loops compute is checked and proved (`MatchesExpGroup`,
`MatchesSearchGT`), including the values that the search over Z_p passes over
(finding 1): a group in `SchemeGroups` says how many limbs the element of each
exponent has.

**Randomness.** What a sampler returns is chosen by `\E` from a set of numbers
in its range, or, for schemes with many random numbers, read from a *tape* that
is chosen from a set. Tapes contain no 0: where the code inverts a random number
modulo p, 0 has no inverse, and `mpz_invert` leaves its result undefined (the
probability is 2^-254). Noise is any number within its bound, of either sign.

### Schemes

The operations of each scheme are operators that take state and randomness and
return an error code and a result, named after the functions:

| module | schemes |
|---|---|
| `DdhSchemes` | Damgard, DDH |
| `DdhMultiSchemes` | their forms for several clients |
| `ShareSchemes` | decentralised Damgard and DMCFE, and the shares of zero that they have in common |
| `Paillier` | Paillier, with its machine |
| `Lattice` | LWE, fully secure LWE, ring-LWE, with their machine |
| `FunctionHiding` | FHIPE, its form for several clients, the quadratic scheme, with their machine |
| `Fame`, `Gpsw`, `Dippe`, `Policy` | the attribute-based schemes, and the conversion of expressions |

State machines run them, one for each shape of use; an *instance* says which
scheme, and with which arguments:

| machine | who | actions |
|---|---|---|
| `SingleInput` | authority, encryptors, decryptor | `Setup`, `GenerateMasterKeys`, `Publish`, `DeriveFeKey`, `Encrypt`, `Decrypt` |
| `Paillier` | the same | the same |
| `Lattice` | the same | the same, with the secret key and the public key generated separately |
| `MultiInput` | authority, n clients, decryptor | the same, with `Receive(i)` and `Encrypt(i)` per client |
| `Decentralised` | n clients, decryptor | `DamgardClientInit` or `DmcfeClientInit`, `GenerateKeys`, `SetShareOf`, `Encrypt`, `DeriveFeKeyPart`, `Decrypt` |
| `FunctionHiding` | authority, clients with parts of the master key, decryptor | `Setup`, `GenerateMasterKey`, `Receive(i)`, `DeriveFeKey`, `Encrypt(i)`, `Decrypt` |
| `Abe` | authorities, encryptor, user | `Setup`, `GenerateMasterKeys(a)`, `Publish(a)`, `Encrypt`, `KeyGen(a)`, `Decrypt(a)` |
| `PolicyCall` | a caller with any sequence of words | `Call` |
| `Transport` | programs that exchange buffers | `Generate`, `Encrypt`, `KeyGen`, `Serialise(kind)`, `Damage(kind)`, `Read(kind)`, `Restart` |

One action is one call of the library, with its checks, its result and its error;
calls of different parties interleave in any order. Transport is an action of its
own (`Publish`, `Receive`) or a choice (`Received`: any public key that a client
ever published), so that everything may be late. Each ciphertext and key carries a
label of what it was made with (epoch, generation, the elements used, x, y): the
library does not look at the labels, the properties do.

Crash and restart are in `Decentralised`, where a client that is initialised
again loses its share and keys while what it sent before remains in use, and in
`Transport`, where a program keeps only its buffers.

### Composition of the runs

A TLC run checks many machines. An `MC` module extends one machine, the one whose
properties are proved for all parameters where there is one, and instantiates
others. What the initial state chooses, an instance or a turn, says which machine
runs; the others stay as they began. Machines of one shape share their
variables. This adds no behaviour to any of them: a step of the composite is a
step of the machine whose turn it is, and each property says for which of them
it is meant.

| `MC` module | extends | instantiates |
|---|---|---|
| `MCSingleInput` | `SingleInput` | `Paillier`, `Lattice` |
| `MCMultiInput` | `Decentralised` | `MultiInput`, `FunctionHiding` |
| `MCGaussSolver` | `GaussSolver` | `MatrixCalls` |
| `MCAbe` | `MCGaussSolver` | `Abe`, `PolicyCall`, `Transport` |
| `MCRandom` | `PollardRho` | `UniformSampler`, `NormalSamplers`, `PrimeSearch` |
| `MCBabyGiant` | `BabyGiant` | |
| `MCBabyGiantGT` | `MCBabyGiant` | `BabyGiantGT`, in a group of its own |

Proofs are in modules of their own. A module of proofs extends the module whose
properties it proves: `MCBabyGiant`, `MCSingleInput`, `MCMultiInput` and `MCRandom`
where the property relates the machine to another module or belongs
to a machine that is instantiated, and the machine itself otherwise. The constants
of an `MC` module are parameters there, with named assumptions, so its theorems too
hold for all of their values.

| module | proofs about |
|---|---|
| `GroupLemmas` | remainders, groups and powers; used by the searches |
| `SchemeLemmas` | induction over finite sets, sums, the operators of the schemes |
| `BabyGiant_proofs`, `BabyGiantGT_proofs`, `PollardRho_proofs` | the searches |
| `SingleInput_proofs` | Damgard, DDH and Paillier |
| `Decentralised_proofs` | the schemes of several clients, without an authority and with one |
| `GaussSolver_proofs` | the linear solver |

## 3. What is checked

| run | question | size |
|---|---|---|
| `Searches_any` | over Z_p: `TypeOK`; `SmallFound`; `MatchesExpGroup`; `SearchesRange`, refinement of `DiscreteLog`; over the target group: `TypeOKGT`; `MatchesSearchGT`; `NeverMissed`; `SearchesRangeGT`; of both: `Returns` | p = 23 with limbs in base 5, so that four residues have one limb and the others two; all h; NULL arguments; a group of order 52 with 47 hash values; bounds around squares and around the orders |
| `Searches_bound` | violation, finding 2 | groups of order 5 and 10, bounds 1 to 4 |
| `BabyGiant_lookup` | violation, finding 1 | p = 11, limbs in base 4 |
| `BabyGiantGT_unsound` | violation, finding 3 | 7 hash values |
| `SingleInput_any` | `TypeOK`; `DecryptCorrect`, `PaillierDecrypts`, `LatticesDecrypt`: what belongs together decrypts to the product | groups of order 23 and 29; moduli 35, 25 and 77 for Paillier, generators with and without an inverse; LWE with the smallest parameters of its set-up, fully secure LWE with K = 8, polynomials of 2 coefficients; data from below -bound to above it; 2 master keys |
| `MultiInput_any` | `TypeOK`; `SharesCancel`; `DecryptCorrect`, `AuthorityDecrypts`, `HidingDecrypts` | without authority 2 clients in full, 2 with restarts, 3 clients, shares set twice, 2 labels; with one 2 clients, every pad below the bound, 2 master keys; over pairings orders from 17 to 61, matrices of 1 to 9 rows that need exchanges or are singular, zero as a random number |
| `MultiInput_negative` | violation, finding 4 | 2 clients, data -1 and 1 |
| `Abe_any` | `TypeOK`, `PivotInRow`, `Outcome`, `Ends` (the solver); `Inverses`, `Products`, `Elements`; `TypesOK`; `SchemesDecrypt`; `Converted`; `Transported` | all systems 2x3 and 3x2 modulo 3 and 2x2 modulo 5, unreduced entries, no columns; all 2x2 matrices modulo 2 and 3 and some 3x3; polynomials of degree 1 and 3; all policies of up to 3 leaves and some of 4, all sets of 4 attributes, 2 generations of keys, DIPPE with 2 and 3 authorities, and with one that replaces its keys; all sequences of 5 words, longer ones with a word missing; FAME, GPSW and data through buffers, one damaged at a time |
| `Abe_rows` | violation, finding 5 | one policy with an attribute in both branches |
| `Abe_improper` | violation, finding 6 | the sequences of words of `Abe_any` |
| `Random_any` | `TypesOK`; `Represented`, `Sound`, `Answered` (rho); `Uniform`, `CutFromStream`; `ExpDecided`, `Distributed`; `PrimeFound`; `Returns` | a base of composite order and every element; bounds at, below and above powers of two with bytes of 2 bits; samplers of 4 to 6 bits; primes of up to 9 bits with bytes of 4 |
| `Random_lengths` | violation, finding 7 | safe primes of 2, 4, 5 and 9 bits and groups of 3, with bytes of 4 bits |

**Why these bounds suffice.** Decryption is a cancellation of masks that are
linear in the exponents: two generations of keys make every pairing of old and new
possible, and a third adds none. The bounds on data go past both sides of what is
accepted, so that errors and wrap-around happen. Three clients are the least for
which one is neither first nor last, so that both signs of a share occur in one
client. With one ciphertext and key in circulation any two still meet, since
which ones there are is arbitrary; several would only wait for their turn. For
the linear solver, the shapes include more rows than columns and the reverse, all
ranks, and columns without pivots before, between and after others. The lattice
instances have noise of both signs up to and beyond what is tolerated, so that
`LatticesDecrypt` is not true for want of noise. Bytes are scaled down so that a
number has one byte, several, and one bit more than a byte.

**Fairness.** The state machines of schemes have safety properties only: nothing
obliges a party to call. The searches and the solver assume `WF_vars(Next)`: the
code is a loop on the caller's thread, and a thread that may run does;
`Returns` of `Searches_any`, `Ends` and the rho search's part of `Returns` of
`Random_any` rest on nothing else. The
samplers and the searches for primes and generators also assume `SF` of a lucky
round (`Lucky`, `LuckyPrime`, `LuckyGenerator`): random bytes take a value that
they may take again and again. `SF` helps only if there is such a value, so
`Returns` says that one can always be drawn. This is what could fail, and what
fails for the lengths of finding 7, which the calls of `Random_any` leave out.

**Deadlock** is not checked where the program stops: a call that has returned,
and clients whose numbers of calls are used up. No party waits for another inside
the library, so no run has a deadlock to find.

**Conditions.** Decryption is conditional on what the labels say: ciphertexts and
keys were made under the same keys for the same vector or user, and the call
passed the bound check. Beyond that

* for the schemes that end in a search it asks that the group leaves the search
  no two values to confuse (`Unambiguous`, `UnambiguousGT`), which is a little
  more than the precondition of the code (section 6), and over Z_p it names the
  one failure that then remains, a logarithm that the search passes over
  (finding 1);
* over the searches by baby and giant steps, `SearchesRange`, `MatchesExpGroup` and
  their counterparts leave out the calls in which the limbs of one residue are taken
  for another's (`Mistaken`), or the hash value of one element for another's
  (`Disturbed`); `SmallFound` and `NeverMissed` hold of those calls too;
* for Paillier, that the product is within half of n; for the lattice schemes,
  that it is within half of p and the noise within half of a rounding step;
* for FHIPE and its form for several clients, that the sampled numbers leave the
  base of the logarithm other than 1, and for the quadratic scheme that the
  structure of the ciphertext was not used before (section 6);
* for FAME, that no attribute labels two rows (finding 5). For DIPPE it asks
  nothing of users who may not decrypt: the scheme cannot tell, and what they get
  is some number.

Each property has a mutant in `PROJECT.json`: a definition changed as a bug would
change the code (a key reduced by the wrong modulus, a sign that is the same for
all, rows swapped without the vector, a reader that goes on without a message), for
which TLC finds the property violated.

## 4. Findings

1. **A lookup may miss a residue that is in the table** (`internal/dlog.c:86`,
   `BabyGiant_lookup`). The bytes compared are those *allocated* to a
   temporary that never shrinks. With a modulus of several limbs, a residue that is
   shorter than one of an earlier round, such as 1, is compared together with stale
   limbs, and the logarithm that is met in that round is passed over.
   `SmallFound`, `SearchesRange` and `MatchesExpGroup` say exactly what remains true.
2. **The searches return logarithms beyond the bound** (`internal/dlog.c:45`,
   `Searches_bound`). The loops run for the square root of the bound, rounded
   down, plus one, and return whatever their last steps meet. `dlog.h` promises a
   solution within the bound or an error, for all three searches. What decryption
   makes of it is below, in section 6.
3. **Elements that share a hash value are confused** (`internal/dlog.c:260`,
   `BabyGiantGT_unsound`). All keys of the table are one buffer, which is
   overwritten: an entry matches as soon as the 32-bit hash values do.
   `NeverMissed` still holds.
4. **DMCFE encrypts a negative number as another one** (`fullysec/dmcfe.c:101`,
   `MultiInput_negative`).
5. **FAME refuses some attributes that satisfy the policy** (`abe/fame.c:325`,
   `Abe_rows`): of an attribute that labels two rows, only the first is used.
6. **Malformed policies are converted** (`abe/policy.c:134`, `Abe_improper`).
   What is left of an expression without gates and brackets goes to
   `cfe_str_to_int`, which returns 0 for an empty string: `"AND 5"`, `"()"` and the
   empty expression get the attribute 0 where none stands, although
   `policy.h:66-67` promises an error. `Converted` says that this is all that is
   converted beyond the proper form.
7. **Some searches for primes never end** (`internal/prime.c:61`,
   `Random_lengths`). Bytes are drawn for `bits` and masked for `bits - 1`, so that for
   a safe prime whose length is 1 modulo 8 every result is a byte too long. For safe
   primes of 2, 4 and 5 bits, and for the generator of a group of 3
   (`keygen.c:38-59`), no number passes the tests. The comment of `prime.c:46-50`
   promises a prime or an error.

Smaller differences between code and words, which the models have but no run of
their own shows, are in section 6.

## 5. What is proved

The proofs hold for every value of the constants that the named assumptions
admit: every group, base, bound, modulus, order, representation by limbs, hash
function and rule of the walks; every prime, shape and content of a linear
system; every set of instances of a scheme, with any number of clients and calls.
TLC evaluates every assumption on the instances of the runs, so none of them is
empty.

| theorem | statement |
|---|---|
| `BabyGiant_proofs!Invariance` | `Spec => []IInv` |
| `BabyGiant_proofs!TypeCorrect` | `Spec => []TypeOK` |
| `BabyGiant_proofs!SmallLogsFound` | `Spec => []SmallFound`: whatever the limbs, a logarithm up to the square root of the bound is found, and what is returned for it is one |
| `BabyGiant_proofs!Implements` | `Spec => SearchesRange`: whatever the limbs, the loops end with a logarithm in their range, or there is none up to the bound but those that they skip |
| `BabyGiant_proofs!MatchesOneStep` | `Spec => []MatchesExpGroup`, whatever the limbs: the loops return what the one step of `SchemeGroups` returns, and pass over the same logarithms |
| `BabyGiantGT_proofs!Invariance`, `TypeCorrect` | as above |
| `BabyGiantGT_proofs!CollisionsNeverHide` | `Spec => []NeverMissed`, for every hash function |
| `BabyGiantGT_proofs!Implements` | `Spec => SearchesRange`, for every hash function, of the calls whose lookups meet no hash value of another element |
| `BabyGiantGT_proofs!MatchesOneStep` | if the base generates the group, `Spec => []MatchesSearchGT`, of the same calls: where the values that are tried are different elements, the loops return what the one step of `SchemeGroups` returns |
| `PollardRho_proofs!RhoTypeCorrect` | `Spec => []TypeOK` |
| `PollardRho_proofs!RhoRepresented` | `Spec => []Represented`: the exponents of both walks say what their elements are, after any number of iterations |
| `PollardRho_proofs!RhoSound` | `Spec => []Sound`: an answer for an element that the base generates is its logarithm |
| `PollardRho_proofs!RhoAnswered` | `Spec => []Answered`: a logarithm is missed only when the equation of the walks says nothing of it, or the iterations are used up |
| `PollardRho_proofs!Composition` | `OneSpec => [](TypeOK /\ Represented /\ Sound /\ Answered)`: also in `MCRandom`, where the search may be done from the start and other machines run |
| `PollardRho_proofs!UniformNumbers` | `OneSpec => []Uniform`: every number of a range is left by as many byte strings as any other, and no number outside of it is returned |
| `PollardRho_proofs!VectorsCutFromStreams` | `OneSpec => []CutFromStream`: a vector from a key has the first numbers below the bound in the stream of its last round |
| `SingleInput_proofs!Invariance`, `TypeCorrect` | `Spec => []IInv`, `Spec => []TypeOK` |
| `SingleInput_proofs!Decryption` | `Spec => []DecryptCorrect`: what belongs together decrypts to the inner product, in the Damgard and the DDH scheme |
| `SingleInput_proofs!PaillierInvariance` | `OneSpec => []((turn = "paillier") => P!IInv)` |
| `SingleInput_proofs!PaillierDecryption` | `OneSpec => []PaillierDecrypts`: a ciphertext and a functional key under the same master key give the inner product, for any generator that set-up accepts and any noise |
| `SingleInput_proofs!LatticeInvariance` | `OneSpec => []((turn = "lattices") => L!IInv)` |
| `SingleInput_proofs!LatticeDecryption` | `OneSpec => []LatticesDecrypt`: LWE, fully secure LWE and ring-LWE decrypt to the product itself when the noise is within what rounding takes away |
| `SingleInput_proofs!Composition` | `OneSpec => Spec`: beside the machines that `MCSingleInput` adds, this one still runs as its specification says |
| `Decentralised_proofs!SharesAreUsed` | `Spec => []SharingInv`: a share is the sum of the elements that the client has used |
| `Decentralised_proofs!Cancellation` | `Spec => []SharesCancel`: shares that agree are zero together |
| `Decentralised_proofs!Invariance`, `TypeCorrect` | `Spec => []IInv`, `Spec => []TypeOK` |
| `Decentralised_proofs!Decryption` | `Spec => []DecryptCorrect`: what belongs together decrypts to the sum of the inner products, in both decentralised schemes |
| `Decentralised_proofs!AuthorityInvariance` | `OneSpec => []((turn = "authority") => M!IInv)` |
| `Decentralised_proofs!AuthorityDecryption` | `OneSpec => []AuthorityDecrypts`: with an authority, the ciphertexts of all clients under one master key and a functional key under it decrypt to the sum of the inner products |
| `Decentralised_proofs!Composition` | `OneSpec => Spec`, as above, for `MCMultiInput` |
| `SchemeLemmas!DamgardMultiDecrypts`, `DdhMultiDecrypts` | the operators of the two schemes: the masks of every client cancel, and so do the pads together with the key's last number |
| `SchemeLemmas!SearchOfPower`, `SearchGTOfPower` | the one-step searches return the exponent of a power that they may meet, or, over Z_p, pass over it |
| `GaussSolver_proofs!Invariance`, `TypeCorrect` | `Spec => []IInv`, `Spec => []TypeOK` |
| `GaussSolver_proofs!Pivoting` | `Spec => []PivotInRow`: the back substitution has a row with a pivot whenever it needs one |
| `GaussSolver_proofs!Correct` | `Spec => []Outcome`: the solver returns the solution that is zero outside the pivot columns, or an error exactly when there is no solution |

**Assumptions.** `GroupAssumption` and `PowAssumption` (the laws of a commutative
group and of powers, for exponents up to `MaxExp`), `ArgAssumption` and, in the
target group, `IsBound` (`Sqrt` is the integer square root, and `MaxExp` covers the
loops),
`LimbAssumption` (numbers with the same limbs are equal), `RhoAssumption` (the
base has an order that divides what the caller passes, powers of powers multiply)
and `OrderAssumption` (it is the order; only `RhoAnswered` uses it),
`GmpAssumption` (`mpz_gcd` is the greatest of the common divisors, and `mpz_invert`
an inverse where there is one); `PartsAssumption` (a byte has bits, ranges are of
integers, and a stream has bits for every round that the sampler may ask for);
`InstanceAssumption` of the machines of schemes (an instance has a group of some
order, vectors of the length of the scheme, and keys in the ranges that the
samplers draw from; for Paillier that numbers are integers of the ranges that its
samplers draw from; for the lattice schemes that samples and keys are integers in
matrices of the scheme's dimensions, that q is above 2, and that the p of LWE has the
length that set-up asks the search for primes for); `SubgroupAssumption` and
`Cyclic` (the generator of the searches has the order of its group and, in the target group, generates it:
only `MatchesOneStep` uses them); `SolverAssumption` (a prime modulus, a row, and no system
without columns but one that the vector rules out, section 6).

**Induction and sums.** Inner products and sums over clients are the library's
`SumFunctionOnSet`, which recurs over the subsets of an index set. The induction
theorems of the library take a predicate, which the provers cannot instantiate;
`SchemeLemmas` proves induction with a *set* in place of the predicate, over the
naturals (`InductionOnNat`, from the existence of a least element) and over
finite sets (`InductionOnSet`), shows by it that the recursion has exactly one value
(`SummationUnique`, `SummationExists`), and derives the laws of sums that everything
else cites: one summand taken out, sums term by term, scaled, over disjoint sets
and with the order of two summations exchanged. Remainders are compared by
`Congruent`, so that sums and products may be reduced anywhere.

**The searches by baby and giant steps.** That a result is a logarithm is not
inductive by itself: it needs what the table holds and what x is. `IInv` says,
for each loop, what it has established: after i baby steps the table holds the
powers below i; after i giant steps, x times base^(i m) is h, and *no exponent
below i m is a logarithm*. The last part, the loop invariant that makes "not
found" true, is kept by a round that misses because a logarithm i m + j with
j < m would have made x a power that the table holds. Stale limbs weaken it: what is
compared is as long as the longest residue so far, so a round may miss a residue
that is shorter than one of an earlier round, and no other (`SkippedIs`).
`Skipped` names these logarithms by the lengths of residues alone, `NoneMet` says
that all others below i m are excluded, and the first round, whose temporary is
fresh, excludes without exception (`NoLog`). After the last round the numbers
excluded are those below m^2, which is above the bound. The second search, for the inverse base, carries along that the
first has failed (`NegInv`). The refinement maps every loop step to a stutter and
the return to the one step of `DiscreteLog`; there it needs `DoneInv`. For each
action there is a lemma `IInv /\ Action => IInv'`.

That the loops return what the *one step* of the schemes returns (`MatchesOneStep`)
needs the converse too: not only is what they pass over no logarithm, but they
do not meet one before the one that the step takes. `MetInv` says that the value
found is the first that is not skipped (`FirstMet`). The one step computes with
exponents where the loops have elements: the order of the generator makes the
exponent that the table holds for an element the only one below the order, and the
lengths that a group of `SchemeGroups` gives are those of the loops' residues, for the
inverse base as well (`Mirror`). So both pass over the same logarithms, whatever the
lengths are. In the target group both signs are excluded round by round
(`NoLog`), and the last round reaches `Farthest`, the largest exponent that the
one step considers. Calls in which a lookup is answered by the limbs, or the hash
value, of another element are left out one by one (`Mistaken`, `Disturbed`), and no
hypothesis is made on limbs or hash values as such.

**The rho search.** `Sound` needs `Represented`: x = g^a h^b for both walks. A
step squares or multiplies x and doubles or increments an exponent *modulo the
order*, so the lemmas `PowReduced` and `PowModulo` show that a power of an element
whose n-th power is 1 does not change when its exponent is reduced; for h that
holds because the base generates it (`SubgroupOrder`). Where the walks meet
(`MetInv`), g^t = h^r (`MetEquation`). If r has an inverse modulo the order, h is
g^(t/r) (`Solved`); otherwise the code compares every candidate with h before it
answers, and `TryInv` keeps the candidates below the order. That one of them *is* the
logarithm x (`OneSolves`) needs the exact order: then x r and t are congruent modulo
it (`SameExponents`), so that e = gcd(r, n) divides t, r / e has an inverse modulo
n / e (`GcdFacts`), and x is one of the e numbers below n with the right remainder
modulo n / e. `CandidateInv` carries along that it is still to come, and therefore
`GoOn`, the walks' going on after the candidates, never happens for an element that
the base generates.

**The schemes with an authority.** `DecryptCorrect` speaks of ciphertexts and
keys that were made under the same master key, but the authority keeps only the
last one. The invariant therefore asserts a *history* h of master keys, one for
each epoch (`Genuine`), of which the current key is the last: every ciphertext
and every functional key is what the operators of the scheme give for the key
that h has for its epoch. Each call either extends h or leaves it alone, so what
is replaced or late stays explained. Given that, `DamgardCancels` and `DdhCancels`
show that the masks cancel in the exponent, and `SearchOfPower` that the search
returns the exponent: it meets the values below the square of its number of
steps, `ISqrt` being the integer square root (`ISqrtValue`), and under
`Unambiguous` no other of them is the same element. The failure that
`DecryptCorrect` admits, a logarithm that is passed over, is exactly the one of
finding 1.

With several clients (`Decentralised_proofs!AuthorityInvariance`) the history is of
master keys of *all* clients, and the functional key and the pads must agree with
it jointly: `HasReceived`, `HasSent` and `HasIssued` say of the public key that a
client holds, of its ciphertext and of the key that was issued that they are what
the operators give for the master key of their epoch. A client keeps its public
key over later epochs, so a decryption may combine ciphertexts of several, and the
promise is about those of one. `DamgardMultiDecrypts` and
`DdhMultiDecrypts` then give the sum. This machine runs by turns with others, so
the theorems are of the composed specification `OneSpec`: `IInv` holds while the
turn is the authority's, and nothing else changes its variables (`Composition`).

**Paillier.** Modulo n^2 every number the scheme computes is (1 + n)^x g^e, where g
is the generator that set-up has drawn: `Rep` asserts this with exponents of
either sign, because g has the inverse that set-up has looked for. Products add the
exponents and powers multiply them; a ciphertext has its data in x, its nonce
times the secret key in e, and the functional key takes the latter away in the sum,
so that e is 0 and 1 + n D is left, from which D is read off (`PaillierDecryption`).
The history of master keys is as above. That no call ends the program, because
what it divides by has an inverse, is part of `IInv`: it is not a matter of the
numbers drawn, but of what set-up has tested.

**Lattices.** What decryption rounds is, modulo q, the product scaled by q / p (by
q / K), plus noise: the secret keys cancel because a product of matrices may be
taken from either side (`LweFinds`, `LweFsFinds`), for polynomials because the
products modulo x^n + 1 of three of them do not depend on the order (`RingFinds`).
Scaling has cut off less than one in each coordinate (`CentreCuts`), which
together costs at most the sum of the |y_i|; the tolerance in the model is exactly what
keeps noise and cuts below half a step, so the representative that is closest to 0
is the number itself and rounding finds the multiple (`RoundedSum`). That the
product is within half of p is a condition for ring-LWE and, with K, for the
fully secure scheme; for LWE it is proved (`LweMade`): p has as many bits as both
bounds and l together and two more, and a number with b bits is below 2^b and not below
2^(b-1). The history is of sampled secret keys, and `Genuine` also keeps the noise that
each public key was made with, because the authority may issue several for
one secret key.

**The schemes without one.** That shares cancel is not inductive: a share does
not say what went into it. `SharingInv` says that the share of a client is, for
each entry, the sum over the other clients and over the *bag* of elements used for
them of a pad whose sign depends on who is the greater (`ShareOf`). A repeated
call adds a copy to the bag, a restart empties it, and a late public key puts
another element in. When every two clients have used the same elements for each
other (`Agree`), the weights of i for k and of k for i are opposite, and numbers
that are antisymmetric sum to zero (`SumAntisymmetric`, by `SumExchange`).
Decryption needs this of *past* shares, those that the parts of the functional
key were hidden under; `HasDerived` keeps for each part what its client had used
then, and `Genuineness` a history of the client's own keys, which a client that
starts over loses. Then the masks cancel per client, the shares cancel across
clients, and the search finds the sum (`SumOfPadded`, `MatDotsOfZeros`). The
theorem for DMCFE has the hypothesis that no encrypted number is negative, which is
finding 3, and asks nothing of the bytes of hashes.

**The linear solver.** `IInv` has a part for each phase.

* `SameSolutions`: the matrix and the vector at hand have the solutions of the
  system that was passed, and so has the matrix with the *zero vector*. The second
  conjunct says that the row operations keep which columns are combinations of
  which, and with it that pivots of the result are pivots of the input. A row
  operation keeps the solutions because it subtracts a multiple of a row that
  stays (`RowHolds` in both directions) or exchanges two.
* `EliminateInv`: the columns that have been passed are in echelon form, with a
  column of lead for each of the first h rows, and -1 marks the columns of lead and
  those that have not been reached.
* `SubstituteInv`: the rows below h hold with the coefficients computed so far,
  and rows up to h are those that begin in the columns still to come. A column
  that is marked therefore is the one in which row h begins, which is `PivotInRow`
  and the reason why the unsigned counter is not used after it wraps around.
* `DoneInv`: all rows hold, or a row of zeros contradicts the vector.

`Outcome` follows: the columns of lead are the columns that no earlier columns
span (`PivotsAreLeads`, which needs a combination for every other column: by
back substitution, `BackExists`), and two solutions that are zero outside them are
equal (`EchelonDetermines`), so the CHOOSE in `Solve` is the vector returned. That
a residue other than 0 has an inverse modulo a prime is itself a lemma: the least
positive remainder of its multiples divides the prime.
TLC checked `IInv` as an invariant of the systems of `Abe_any` before it
was proved; so were the invariants of the schemes.

**Only model-checked.**

* Termination: liveness is out of reach of the prover.
* The function-hiding and quadratic schemes over pairings: decryption rests on dual
  bases, whose inverse matrices are determinants or results of the solver.
* The attribute-based schemes and the conversion of policies, which recurs over
  expressions with a RECURSIVE operator; inverses, products of polynomials and of
  elements, which `MCGaussSolver` compares with their definitions.
* The samplers of normal numbers: how many draws give a number is a count over all
  the draws of a round. The searches for primes: that a round finds a candidate is a
  fact about the small primes of an instance, and that a square generates needs the
  theory of the multiplicative group. Serialisation.

## 6. Where code and words differ, without a run

Discrete logarithms and group schemes:

* The searches meet every value below the square of the number of steps and so
  return values above the bound (finding 2). Near the limit of the precondition of
  `damgard.c:40` a negative inner product is then taken for a positive one; this is
  what `Unambiguous` excludes, and matters for moduli of a few bits only.
* `cfe_ddh_init` compares `2 * l * bound^2` with the modulus p, and
  `cfe_ddh_precomp_init` with the order q = (p - 1) / 2, as the header says.
* The precondition of `damgard_multi.c:26` is that of one client, and does not
  count the clients over which decryption sums.
* `cfe_vec_check_bound` accepts any negative number; the headers speak of bounded
  vectors.
* `ddh_multi.c:173` returns the sum modulo the bound; the test reduces what it
  expects likewise.
* `..._set_share` adds to the share what a second call adds again; two clients
  cancel only if both called equally often (`Agree` is a condition on multisets).

Paillier, lattices and pairings:

* `paillier.c:43` accepts bounds with l * bound^2 below n, and decryption takes
  every result above n / 2 for a negative one: a product between n / 2 and n comes
  back as the product minus n.
* Ring-LWE accepts coordinates that equal the bound (`ring_lwe.h:42` says
  "strictly smaller"); a product of half of p, with noise, comes back negative.
* `sgp.c:165` multiplies `g1MulGamma` of the structure that it is given, which
  only `cfe_sgp_cipher_init` sets: the second ciphertext that is stored to a
  structure decrypts to something else. `FunctionHiding` has such calls; its
  property speaks of first uses.

Linear algebra:

* `cfe_mat_determinant_gauss` (`mat.c:535`) forgets that rows were exchanged, so
  that its result may be the negative determinant, against "Additionally
  the determinant of the matrix is returned" (`mat.h:222`) and "calculates the
  determinant of a matrix" (`mat.h:232`): that of the rows (0, 1) and (1, 0) comes
  back as 1. `MatrixCalls` has these calls, and no property of a
  passing run accepts the sign. FHIPE, the only caller, multiplies by this number
  and divides by that of `cfe_mat_inverse_mod_gauss`, which forgets the sign alike;
  `HidingDecrypts` depends on it, with matrices that need an exchange.
* `cfe_mat_inverse_mod` ends the program for a matrix with one entry
  (`mat.c:361`): the minor has no rows, and a size below zero is allocated.
* `cfe_mat_mul_scalar` (`mat.c:390`) and `cfe_mat_mul_G1_mat`, `..._G2_mat`
  (`mat_curve.c:69`) count rows by the columns, or by the rows of the other
  factor: with more rows than that the last ones are not computed. The schemes
  multiply by square matrices.
* `cfe_mat_mul_G1` and `..._G2` (`mat_curve.c:44`) turn a negative entry into
  another element than its power of the generator; `cfe_vec_mul_G1` looks at the
  sign.
* The solver reads column k - 1 before it tests k, so that a system without
  columns and with a zero vector is out of bounds, and so is a system without
  rows, where the counter starts at column -1. No scheme passes one (`fame.c` and
  `gpsw.c` pass a target that is not zero, and a row for each of its entries):
  `IsInput` states it, and the instances have systems without columns that end
  before.

Policies, samplers, primes, serialisation:

* A repeated entry in the pattern of a DIPPE conjunction makes a vector whose sum
  is not 0.
* The uniform samplers never return for a bound of 0 or an empty range
  (`uniform.c:26`). `UniformSampler` has these calls, which stay in the loop;
  `Returns` is about the others.
* `cfe_vec_ECP2_BN254_read` (`data_ser.c:425-439`) does not look at the error of the
  reader that it calls, makes a vector from octets that were never set, and returns
  0. In `Transport` there is then in memory what nobody has made (`Unknown`), of any
  length up to 2, and it may be serialised again; that programs may end in such a
  call is left out. `Transported` says that this happens to vectors of G2 only.

## 7. What is not modelled, and the plan

All components with logic of their own have a model. Within them are left out:

* how LWE and ring-LWE parameters are computed from a level of security
  (`lwe_fs.c:83-140` and the like): floating-point searches; the models take the
  parameters and check what depends on them;
* the distributions of the Gaussian samplers: TLC has no probability. What is
  checked is that both signs and all entries of a table have their share of the
  draws;
* hashing to curves, which is a constant, and the parsing of characters, which
  starts from words;
* `serialization/*.pb-c.c` (generated) and the byte format of Protocol Buffers;
  AMCL, GMP, libsodium and uthash beyond what the code relies on;
* memory management (`_init` and `_free` functions carry no behaviour but the
  sizes), and secrecy.

What is left to prove: decryption of the function-hiding schemes, along the argument
of the others (a history of keys, and the algebra of the operators).
