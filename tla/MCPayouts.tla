----------------------------- MODULE MCPayouts -----------------------------
(***************************************************************************)
(* Model values, symmetry and bounds for model checking Payouts.           *)
(***************************************************************************)
EXTENDS Payouts, TLC

\* Users, requests and workers are interchangeable.
Symmetry == Permutations(Users) \cup Permutations(PayoutIds) \cup Permutations(Workers)

Disbursed == {p \in PayoutIds : disbursements[p] # <<>>}

\* Bound: beside another request, no request repeats an event and only one
\* of them is sent to disbursement; a request that is alone lives on as
\* long as MaxAttempts lets it.
ShortLives ==
  \/ Cardinality({p \in PayoutIds : status[p] # "NONE"}) <= 1
  \/ /\ Cardinality(Disbursed) <= 1
     /\ \A p \in PayoutIds, t \in EventTypes : events[p][t] <= 1

\* Bound: the account is suspended and earnings are deducted only before
\* the first disbursement.
EarlyTrouble ==
  Disbursed # {} => \A u \in Users : active[u] /\ deducted[u] = 0

=============================================================================
