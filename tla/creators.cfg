SPECIFICATION FairSpec
CONSTANTS
  u1 = u1 u2 = u2 c1 = c1 c2 = c2 v1 = v1 p1 = p1 p2 = p2 None = None
  Creators = {u1, u2} Campaigns = {c1, c2} Clips = {v1} Messages = {1, 2} Presses = {p1, p2}
  Amounts = {3} Minimum = 2 Balance = 4
  Scenes <- MCScenes
  Newcomers = {u2}
  MaxRequests = 2 MaxProfiles = 1
INVARIANTS OneRequestPerDraft 
PROPERTY ThinkingEnds
CHECK_DEADLOCK FALSE
