---------------------------- MODULE MCRetention ----------------------------
(***************************************************************************)
(* Symmetry and a bound for model checking Retention.                      *)
(***************************************************************************)
EXTENDS Retention, TLC

\* Workers are interchangeable, and so are the earnings of the clip.
Symmetry == Permutations(Workers) \cup Permutations(Earnings)

\* No two kinds of trouble meet, but for an overlap and a crash.
FewTroubles == Cardinality(met) <= 1 \/ met = {"overlap", "crash"}
=============================================================================
