--------------------------- MODULE PayoutHistory ---------------------------
(***************************************************************************)
(* What the payout component guarantees when its transactions overlap: a   *)
(* status is entered only if the lifecycle table allows it from some       *)
(* status the request has held, which need not be the one it holds now.    *)
(***************************************************************************)
EXTENDS PayoutStatus

CONSTANT PayoutIds
VARIABLES status,  \* current status of each request
          held     \* the statuses it has ever held
vars == <<status, held>>

Init ==
  /\ status = [p \in PayoutIds |-> "NONE"]
  /\ held = [p \in PayoutIds |-> {}]

Enter(p, to) ==
  /\ status' = [status EXCEPT ![p] = to]
  /\ held' = [held EXCEPT ![p] = @ \cup {to}]

Request(p) == status[p] = "NONE" /\ Enter(p, "REQUESTED")

Move(p, to) == (\E from \in held[p] : CanMove(from, to)) /\ Enter(p, to)

Next == \E p \in PayoutIds : Request(p) \/ \E to \in EventTypes : Move(p, to)

Spec == Init /\ [][Next]_vars
=============================================================================
