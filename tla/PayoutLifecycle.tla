-------------------------- MODULE PayoutLifecycle --------------------------
(***************************************************************************)
(* What the payout component promises: a request appears as REQUESTED and  *)
(* from then on its status moves only along the lifecycle table.           *)
(***************************************************************************)
EXTENDS PayoutStatus

CONSTANT PayoutIds
VARIABLE status

Init == status = [p \in PayoutIds |-> "NONE"]

Request(p) ==
  /\ status[p] = "NONE"
  /\ status' = [status EXCEPT ![p] = "REQUESTED"]

Move(p, to) ==
  /\ CanMove(status[p], to)
  /\ status' = [status EXCEPT ![p] = to]

Next == \E p \in PayoutIds : Request(p) \/ \E to \in EventTypes : Move(p, to)

Spec == Init /\ [][Next]_status
=============================================================================
