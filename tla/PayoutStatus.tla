---------------------------- MODULE PayoutStatus ----------------------------
(***************************************************************************)
(* The payout request state machine (payout.state-machine.js).  "NONE" is  *)
(* a request that has no row yet.                                          *)
(***************************************************************************)

EventTypes == {"REQUESTED", "UNDER_REVIEW", "APPROVED", "REJECTED",
               "CANCELLED", "PROCESSING", "COMPLETED", "FAILED"}

Statuses == EventTypes \cup {"NONE"}

\* Statuses that hold back part of the creator's balance.
Reserving == {"REQUESTED", "UNDER_REVIEW", "APPROVED", "PROCESSING"}

\* Unsuccessful statuses: the reservation is released.
Released == {"REJECTED", "CANCELLED", "FAILED"}

\* Statuses documented as final.
Terminal == {"COMPLETED", "REJECTED", "CANCELLED"}

AllowedTransitions ==
  [NONE         |-> {},
   REQUESTED    |-> {"UNDER_REVIEW", "CANCELLED", "REJECTED"},
   UNDER_REVIEW |-> {"APPROVED", "REJECTED", "CANCELLED"},
   APPROVED     |-> {"PROCESSING", "CANCELLED"},
   PROCESSING   |-> {"COMPLETED", "FAILED"},
   FAILED       |-> {"PROCESSING"},
   COMPLETED    |-> {},
   REJECTED     |-> {},
   CANCELLED    |-> {}]

CanMove(from, to) == to \in AllowedTransitions[from]

=============================================================================
