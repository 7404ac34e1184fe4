--------------------------- MODULE UniformSampler ---------------------------
(***************************************************************************)
(* The samplers of src/sample/uniform.c: rejection loops over bytes from   *)
(* the system, and the one that cuts a stream of bytes which a key         *)
(* determines.  A byte has ByteBits bits.                                  *)
(***************************************************************************)
EXTENDS Integers, Sequences, FiniteSets, Functions

CONSTANTS
  ByteBits,     \* the bits of a byte
  Ranges,       \* pairs of the lower and the upper end that numbers are sampled between
  DetCalls,     \* sizes of vectors, and their bounds, that are sampled from a key
  Streams,      \* what a key may expand to, as a sequence of bits, the highest of a byte first
  MaxRounds     \* bound of the model: how often a longer stream is asked for

VARIABLES
  pc,        \* "idle", "sample", "det" or "done"
  args,      \* the arguments of the call
  bytes,     \* for a vector from a key, the stream and how much of it is read
  res        \* the number, or the coordinates so far

vars == <<pc, args, bytes, res>>

\* mpz_sizeinbase(v, 2); it is 1 for 0.
Bits(v) ==
  LET a == IF v < 0 THEN -v ELSE v
  IN CHOOSE b \in 1..(a + 1) : a < 2^b /\ (b = 1 \/ a >= 2^(b - 1))
Bytes(bits) == ((bits - 1) \div ByteBits) + 1

\* Mutant of Shortened: a number that is too big is reduced by the bound.
ShortenedModulo(r, upper) == IF upper > 0 THEN r % upper ELSE r

\* What becomes of the bytes that are drawn, read as the number r.
Shortened(r, upper) == IF Bits(r) > Bits(upper) THEN r % 2^Bits(upper) ELSE r

Drawn(upper) == 0..(2^(ByteBits * Bytes(Bits(upper))) - 1)

Accepted(v, upper) == v < upper

\* The number in some bits of a stream, the first of them the least significant.
Chunk(bits, from, n) == SumFunction([i \in 1..n |-> bits[from + i] * 2^(i - 1)])

\* The bits of a stream for a vector, in a round.
StreamLength(size, max, round) == round * Bytes(Bits(max) * size) * ByteBits

\* A stream has bits for every round.
SamplerAssumption ==
  /\ ByteBits \in Nat \ {0} /\ MaxRounds \in Nat /\ MaxRounds >= 3
  /\ Ranges \subseteq Int \X Int /\ DetCalls \subseteq (Nat \ {0}) \X (Nat \ {0})
  /\ \A b \in Streams, c \in DetCalls :
       \A i \in 1..StreamLength(c[1], c[2], MaxRounds) : b[i] \in 0..1

Init == pc = "idle" /\ args = <<>> /\ bytes = <<>> /\ res = <<>>

\* cfe_uniform_sample_range and those that call it; cfe_uniform_sample is the range
\* from 0.
CallRange(min, max) ==
  /\ pc = "idle"
  /\ pc' = "sample" /\ args' = [min |-> min, upper |-> max - min]
  /\ UNCHANGED <<bytes, res>>

\* One round of cfe_uniform_sample.
Draw(r) ==
  /\ pc = "sample"
  /\ LET v == Shortened(r, args.upper)
     IN IF Accepted(v, args.upper)
        THEN pc' = "done" /\ res' = <<v + args.min>>
        ELSE UNCHANGED <<pc, res>>
  /\ UNCHANGED <<args, bytes>>

\* cfe_uniform_sample_vec_det, and cfe_uniform_sample_mat_det for a matrix that is
\* written as a vector.
CallDet(size, max, stream) ==
  /\ pc = "idle"
  /\ pc' = "det" /\ args' = [size |-> size, max |-> max, stream |-> stream]
  /\ bytes' = [round |-> 3, read |-> 0] /\ res' = <<>>

Length(round) == StreamLength(args.size, args.max, round)

\* Mutant of HasChunk: the last chunk may lie outside of the stream.
HasChunkBeyond == bytes.read <= Length(bytes.round)
HasChunk == bytes.read <= Length(bytes.round) - Bits(args.max)

\* The first bits of a stream in the order in which they are read: as a number, of which
\* the last byte is the lowest.
FromEnd(stream, length) == [i \in 1..length |-> stream[length + 1 - i]]

\* Bits outside of the stream are 0.
BitsOfRound == [i \in 1..(Length(bytes.round) + Bits(args.max)) |->
                  IF i <= Length(bytes.round) THEN FromEnd(args.stream, Length(bytes.round))[i] ELSE 0]

\* The next coordinate is cut off the stream.
NextChunk ==
  /\ pc = "det" /\ HasChunk
  /\ LET v == Chunk(BitsOfRound, bytes.read, Bits(args.max))
     IN res' = IF Accepted(v, args.max) THEN Append(res, v) ELSE res
  /\ bytes' = [bytes EXCEPT !.read = @ + Bits(args.max)]
  /\ pc' = IF Len(res') = args.size THEN "done" ELSE "det"
  /\ UNCHANGED args

\* A stream that is not long enough is asked for again, one step longer, and all of the
\* vector is cut from the new one.
LongerStream ==
  /\ pc = "det" /\ ~HasChunk /\ bytes.round < MaxRounds
  /\ bytes' = [round |-> bytes.round + 1, read |-> 0] /\ res' = <<>>
  /\ UNCHANGED <<pc, args>>

Return ==
  /\ pc = "done"
  /\ pc' = "idle" /\ args' = <<>> /\ bytes' = <<>> /\ res' = <<>>

Next ==
  \/ \E r \in Ranges : CallRange(r[1], r[2])
  \/ pc = "sample" /\ \E r \in Drawn(args.upper) : Draw(r)
  \/ \E c \in DetCalls, b \in Streams : CallDet(c[1], c[2], b)
  \/ NextChunk \/ LongerStream \/ Return

\* The system does not forever avoid bytes that a sampler is waiting for.
Lucky == pc = "sample" /\ \E r \in Drawn(args.upper) : Draw(r) /\ pc' = "done"

Fairness == WF_vars(Next) /\ SF_vars(Lucky)

Spec == Init /\ [][Next]_vars /\ Fairness

-----------------------------------------------------------------------------
\* The types of the variables.
TypeOK ==
  /\ pc \in {"idle", "sample", "det", "done"}
  /\ \A i \in DOMAIN res : res[i] \in Int
  /\ pc = "det" => bytes.round \in 3..MaxRounds /\ Len(res) < args.size

\* Numbers are within their range, the upper end of which is excluded
\* (uniform.h:30, 91); of an empty range none is ever returned.
InRange ==
  pc = "done" =>
    \A i \in DOMAIN res :
      IF "upper" \in DOMAIN args THEN res[i] \in args.min..(args.min + args.upper - 1)
      ELSE res[i] \in 0..(args.max - 1)

\* As many byte strings are accepted for one number of the range as for any other
\* (uniform.c:39-45).
Uniform ==
  pc = "sample" /\ args.upper > 0 =>
    LET Strings(v) == {r \in Drawn(args.upper) :
                         LET w == Shortened(r, args.upper) IN w = v /\ Accepted(w, args.upper)}
    IN \A v \in 0..(args.upper - 1) : Cardinality(Strings(v)) = Cardinality(Strings(0)) /\ Strings(v) # {}

\* A vector from a key consists of the first numbers below the bound in the stream of
\* the last round, from its end on, each from bits of its own, and no bits outside of
\* the stream (uniform.c:126-140).
CutFromStream ==
  pc = "done" /\ "stream" \in DOMAIN args =>
    LET n == Bits(args.max)
        Number(c) == Chunk(FromEnd(args.stream, Length(bytes.round)), (c - 1) * n, n)
        below == {c \in 1..(Length(bytes.round) \div n) : Number(c) < args.max}
        Rank(c) == Cardinality(below \cap 1..c)
    IN /\ Cardinality(below) >= args.size /\ Len(res) = args.size
       /\ \A c \in below : Rank(c) <= args.size => res[Rank(c)] = Number(c)

\* Sampling from a range that is not empty returns.
Returns == pc = "sample" /\ args.upper > 0 ~> pc = "done"
=============================================================================
