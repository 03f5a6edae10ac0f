---------------------------- MODULE MCStaffPanel ----------------------------
(* StaffPanel for TLC: the hubs of three channels.  Runs in which presses  *)
(* overlap, or something goes wrong, are cut off earlier.                  *)
EXTENDS StaffPanel

CONSTANTS s1, s2, c1, p1

MCPlaces == [channel: {"review-queue", "payout-queue", "dashboard"}, public: {TRUE}]

FewTroubles ==
  clicks + 2 * (faults + crashes) + roles + outside + (IF overlapped THEN 1 ELSE 0) <= 5

=============================================================================
