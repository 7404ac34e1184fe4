----------------------------- MODULE PolicyCall -----------------------------
(***************************************************************************)
(* Calls of cfe_boolean_to_msp (src/abe/policy.c) with any sequence of     *)
(* words, in the proper form or not.  Two numbers are not next to each     *)
(* other: without the space between them they are one.                     *)
(***************************************************************************)
EXTENDS Policy

CONSTANTS
  Expressions,    \* the expressions of the calls
  P               \* the prime modulo which the rows of a program are combined

ExpressionAssumption ==
  \A x \in Expressions : \A i \in DOMAIN x :
    i > 1 => x[i][1] # "attr" \/ x[i - 1][1] # "attr"

VARIABLES
  pc,      \* "call" or "done"
  e,       \* the expression
  ones,    \* which vector the rows shall span
  out      \* the result

vars == <<pc, e, ones, out>>

Init == pc = "call" /\ e \in Expressions /\ ones \in BOOLEAN /\ out = Failed("NONE")

Call == pc = "call" /\ pc' = "done" /\ out' = BooleanToMsp(e, ones) /\ UNCHANGED <<e, ones>>

Next == Call

Spec == Init /\ [][Next]_vars

-----------------------------------------------------------------------------
(* What an expression means: the trees that it can be read as.  Where         *)
(* brackets do not define the order of the gates there are several.           *)

\* With lax, what is empty is read as the attribute 0.
RECURSIVE Readings(_, _)
Readings(x, lax) ==
  LET n == Len(x)
      Split(i) == {<<x[i][1], l, r>> : l \in Readings(SubSeq(x, 1, i - 1), lax),
                                       r \in Readings(SubSeq(x, i + 1, n), lax)}
  IN (IF lax /\ n = 0 THEN {<<"attr", 0>>} ELSE {})
     \cup (IF n = 1 /\ x[1][1] = "attr" /\ x[1][2] >= 0 THEN {x[1]} ELSE {})
     \cup (IF n > 1 /\ x[1] = Word("(") /\ x[n] = Word(")") THEN Readings(SubSeq(x, 2, n - 1), lax) ELSE {})
     \cup UNION {Split(i) : i \in {k \in 1..(n - 1) : x[k][1] \in {"AND", "OR"}}}
Proper == Readings(e, FALSE) # {}

\* The rows of a program that are labelled with attributes of a set span its target.
Spans(msp, owned) ==
  LET chosen == {i \in DOMAIN msp.rows : msp.rows[i].attr \in owned}
      target == [k \in 0..(msp.cols - 1) |-> IF k = 0 \/ ones THEN 1 ELSE 0]
  IN \E f \in [chosen -> 0..(P - 1)] : \A k \in DOMAIN target :
       SumFunction([i \in chosen |-> f[i] * msp.rows[i].row[k]]) % P = target[k] % P

\* The rows of a program have its number of columns, and labels from the expression, or
\* 0 for what is missing there.
TypeOK ==
  /\ pc \in {"call", "done"} /\ ones \in BOOLEAN
  /\ out.err \in {"NONE", "CORRUPTED_BOOL_EXPRESSION"}
  /\ pc = "done" /\ out.err = "NONE" => \A i \in DOMAIN out.res.rows :
       /\ DOMAIN out.res.rows[i].row = 0..(out.res.cols - 1)
       /\ out.res.rows[i].attr = 0 \/ <<"attr", out.res.rows[i].attr>> \in Range(e)

\* An expression in the proper form is converted, and the attributes of a set satisfy it,
\* as it can be read, if and only if their rows span the vector (policy.h:53-55): whatever
\* the brackets, the program keeps the columns of its gates apart.  Of all others those
\* are refused in which no attribute is missing; ImproperRefused is about the rest.
Converted ==
  pc = "done" =>
    /\ Proper => /\ out.err = "NONE"
                 /\ \E tree \in Readings(e, FALSE) : \A owned \in SUBSET Range(Leaves(tree)) :
                      Spans(out.res, owned) <=> Satisfied(tree, owned)
    /\ Readings(e, TRUE) = {} => out.err # "NONE"

\* "Returns an error if the boolean expression is not in the proper form and cannot be
\* transformed." (policy.h:66-67)
ImproperRefused == pc = "done" /\ ~Proper => out.err # "NONE"
=============================================================================
