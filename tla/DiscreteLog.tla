---------------------------- MODULE DiscreteLog ----------------------------
(***************************************************************************)
(* What the loops of src/internal/dlog.c keep of a search for a discrete   *)
(* logarithm: it ends with a logarithm of the element given, among the     *)
(* values that the loops reach, or with an error that says that no value   *)
(* it is required to find is one.  The values reached are not the bound of *)
(* the caller: the loops round the bound up to a square.                   *)
(***************************************************************************)
EXTENDS Integers

VARIABLES
  solutions,    \* the logarithms among the values that the loops reach
  required,     \* the integers that the call must not miss
  mayRefuse,    \* may the call refuse to search?
  status,       \* "running", "NONE", or the name of an error
  answer        \* the value returned, meaningful when status = "NONE"

call == <<solutions, required, mayRefuse>>
vars == <<call, status, answer>>

Init == status = "running" /\ answer = 0

\* The call returns a solution.
Found ==
  /\ status = "running" /\ status' = "NONE"
  /\ answer' \in solutions
  /\ UNCHANGED call

\* The call reports that there is no solution, and there is none it must find.
NotFound ==
  /\ status = "running" /\ status' = "DLOG_NOT_FOUND"
  /\ solutions \cap required = {}
  /\ UNCHANGED call

\* The call refuses to search.
Refused ==
  /\ status = "running" /\ status' = "DLOG_CALC_FAILED"
  /\ mayRefuse
  /\ UNCHANGED call

Next == Found \/ NotFound \/ Refused

Spec == Init /\ [][Next]_vars
=============================================================================
