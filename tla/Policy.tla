------------------------------- MODULE Policy -------------------------------
(***************************************************************************)
(* Boolean policies and the monotone span programs made of them            *)
(* (src/abe/policy.c).  An expression is read as the sequence of its words *)
(* with the spaces gone: a word is <<"(", 0>>, <<")", 0>>, <<"AND", 0>>,   *)
(* <<"OR", 0>> or <<"attr", n>>, with n = -1 for a word that is no number. *)
(* A span program has cols columns, numbered from 0, and a sequence of     *)
(* rows, each labelled with an attribute.                                  *)
(***************************************************************************)
EXTENDS LinearSystem, SequencesExt

Word(w) == <<w, 0>>

\* What an expression means: a tree, written with all its brackets by Text.
RECURSIVE Text(_), Satisfied(_, _), Leaves(_)
Text(tree) ==
  IF tree[1] = "attr" THEN <<tree>>
  ELSE LET Side(t) == IF t[1] = "attr" THEN Text(t)
                      ELSE <<Word("(")>> \o Text(t) \o <<Word(")")>>
       IN Side(tree[2]) \o <<Word(tree[1])>> \o Side(tree[3])

\* The attributes of a set satisfy the expression.
Satisfied(tree, owned) ==
  CASE tree[1] = "attr" -> tree[2] \in owned
    [] tree[1] = "AND" -> Satisfied(tree[2], owned) /\ Satisfied(tree[3], owned)
    [] tree[1] = "OR" -> Satisfied(tree[2], owned) \/ Satisfied(tree[3], owned)

\* The attributes of a tree, from left to right.
Leaves(tree) ==
  IF tree[1] = "attr" THEN <<tree[2]>> ELSE Leaves(tree[2]) \o Leaves(tree[3])

-----------------------------------------------------------------------------
\* The words that the expression can be split at: the gates outside of all
\* brackets, the last word excepted.
Depth(e, i) == Cardinality({j \in 1..(i - 1) : e[j] = Word("(")})
                 - Cardinality({j \in 1..(i - 1) : e[j] = Word(")")})
Gates(e) == {i \in 1..(Len(e) - 1) : e[i][1] \in {"AND", "OR"} /\ Depth(e, i) = 0}

\* A vector as a row of c columns.
Padded(vec, c) == [k \in 0..(c - 1) |-> IF k \in DOMAIN vec THEN vec[k] ELSE 0]

\* Mutant of AndVectors: the new column has no share in the second vector.
AndVectorsOneSided(vec, c) ==
  <<[k \in 0..c |-> IF k = c THEN -1 ELSE 0], Padded(vec, c + 1)>>

\* cfe_init_set_vecs_and: the two vectors add up to the given one, and both have a
\* share in a new column.
AndVectors(vec, c) ==
  <<[k \in 0..c |-> IF k = c THEN -1 ELSE 0],
    [Padded(vec, c + 1) EXCEPT ![c] = 1]>>

\* cfe_str_to_int of an expression without gates and brackets; the empty one is 0.
AttributeOf(e) ==
  IF e = <<>> THEN 0
  ELSE IF Len(e) = 1 /\ e[1][1] = "attr" THEN e[1][2] ELSE -1

\* The rows of two programs one above the other.
Stacked(one, two) ==
  [cols |-> two.cols,
   rows |-> [i \in DOMAIN one.rows |->
               [one.rows[i] EXCEPT !.row = Padded(@, two.cols)]] \o two.rows]

\* cfe_boolean_to_msp_iterative, which splits at the leftmost gate.
RECURSIVE Msp(_, _, _)
Msp(e, vec, c) ==
  IF Gates(e) # {} THEN
    LET i == Min(Gates(e))
        isAnd == e[i] = Word("AND")
        pair == IF isAnd THEN AndVectors(vec, c) ELSE <<vec, vec>>
        one == Msp(SubSeq(e, 1, i - 1), pair[1], IF isAnd THEN c + 1 ELSE c)
        two == Msp(SubSeq(e, i + 1, Len(e)), pair[2], one.res.cols)
    IN IF one.err # "NONE" THEN one
       ELSE IF two.err # "NONE" THEN two ELSE Done(Stacked(one.res, two.res))
  ELSE IF e # <<>> /\ e[1] = Word("(") /\ e[Len(e)] = Word(")")
  THEN Msp(SubSeq(e, 2, Len(e) - 1), vec, c)
  ELSE IF AttributeOf(e) = -1 THEN Failed("CORRUPTED_BOOL_EXPRESSION")
  ELSE Done([cols |-> c, rows |-> <<[attr |-> AttributeOf(e), row |-> Padded(vec, c)]>>])

\* cfe_boolean_to_msp: the rows span <<1, 0, ..., 0>>, or, converted, <<1, ..., 1>>.
BooleanToMsp(e, convertToOnes) ==
  LET r == Msp(e, [k \in {0} |-> 1], 1)
      Converted(row) == [k \in DOMAIN row |-> IF k = 0 THEN row[0] ELSE row[0] + row[k]]
  IN IF r.err # "NONE" \/ ~convertToOnes THEN r
     ELSE Done([r.res EXCEPT !.rows = [i \in DOMAIN @ |-> [@[i] EXCEPT !.row = Converted(@)]]])

\* What the decryption functions compute of the rows that they have chosen: the
\* coefficients, numbered from 0, with which the rows add up to the target.
Combine(rows, cols, target, p) ==
  Solve([j \in 0..(cols - 1) |-> [i \in 0..(Len(rows) - 1) |-> rows[i + 1].row[j]]],
        Len(rows), [j \in 0..(cols - 1) |-> target[j]], p)
=============================================================================
