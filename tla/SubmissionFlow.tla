--------------------------- MODULE SubmissionFlow ---------------------------
(***************************************************************************)
(* What a campaign promises of each clip: it is submitted at most once,    *)
(* waits for its first verdict, is never put back to waiting, and is       *)
(* reviewed after approval only if it has been approved.  System and staff *)
(* may decide as often as they like, and overrule each other.              *)
(***************************************************************************)
CONSTANTS Clips, None
VARIABLES
  verdict,   \* the status of each clip, None before it is submitted
  held       \* the statuses each clip has had

vars == <<verdict, held>>

Verdicts == {"UNDER_REVIEW", "APPROVED", "REJECTED", "FLAGGED", "POST_APPROVAL_REVIEW"}

Init == verdict = [x \in Clips |-> None] /\ held = [x \in Clips |-> {}]

Enter(x, v) ==
  /\ verdict' = [verdict EXCEPT ![x] = v]
  /\ held' = [held EXCEPT ![x] = @ \cup {v}]

Submit(x) == verdict[x] = None /\ Enter(x, "PENDING_VERIFICATION")

Decide(x) ==
  /\ verdict[x] # None
  /\ \E v \in Verdicts :
       /\ v = "POST_APPROVAL_REVIEW" => "APPROVED" \in held[x]
       /\ Enter(x, v)

Next == \E x \in Clips : Submit(x) \/ Decide(x)

Spec == Init /\ [][Next]_vars
=============================================================================
