SPECIFICATION FairSpec
CONSTANTS
  s1 = s1 s2 = s2 c1 = c1 p1 = p1 None = None
  Staff = {s1, s2}
  Places <- MCPlaces
  Submissions = {c1} Facebook = {c1} Creators = {} Campaigns = {} Payouts = {p1}
  Verdicts = {"FLAGGED", "APPROVED"}
  MaxClicks = 5 MaxFaults = 1 MaxCrashes = 1 MaxRoles = 1 MaxOutside = 1
CONSTRAINT FewTroubles
INVARIANTS ShowsTruth WayBack RefreshReleased
PROPERTY LoadingEnds
CHECK_DEADLOCK FALSE
