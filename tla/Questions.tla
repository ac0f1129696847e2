------------------------------- MODULE Questions -------------------------------
(***************************************************************************)
(* A pure calculation as a behaviour: one input, the question, which stays *)
(* what it is.  The modules of the calculations say which questions there  *)
(* are and what the answer promises.                                       *)
(***************************************************************************)

VARIABLE question   \* [kind, ...]

Asked(kind) == question.kind = kind
Stays       == [][UNCHANGED question]_question

=============================================================================
