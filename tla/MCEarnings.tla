----------------------------- MODULE MCEarnings -----------------------------
(***************************************************************************)
(* One creator with every submission, for model checking Earnings: the     *)
(* creator's cap and the campaign's budget are both under contention.      *)
(***************************************************************************)
EXTENDS Earnings, TLC

CONSTANT creator
OneCreator == [s \in Submissions |-> creator]

Symmetry == Permutations(Submissions) \cup Permutations(Workers)
=============================================================================
