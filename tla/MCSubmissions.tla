--------------------------- MODULE MCSubmissions ---------------------------
(***************************************************************************)
(* A bound for model checking Submissions.                                 *)
(***************************************************************************)
EXTENDS Submissions

\* No more than two kinds of trouble meet: an overlap and a crash, say, or
\* an overlap and a re-verification.
FewTroubles == Cardinality(met) <= 2
=============================================================================
