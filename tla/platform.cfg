SPECIFICATION MCSpec
CONSTANTS
  a = a w1 = w1 w2 = w2 r1 = r1
  MaxClients = 2 MaxLimits = 1 MaxFailures = 2
  Production = TRUE
  Accidents = {"bind", "database", "redis", "exception"}
  Workers = {w1, w2}
  HubJobs = {"reset", "timer"}
  HubChannel = "creator"
  Window = 2 SetupWindow = 2
  Posts = {"text", "error"}
  Removals = TRUE
  MaxPosts = 2 MaxRuns = 1 MaxMishaps = 1
  Runs = {r1}
  Declared = {"Creator", "CREATOR", "dashboard", "stats", "STAFF", "payout-queue", "SYSTEM", "bot-errors"}
  Legacy <- MCLegacy
  Edits = {"delete", "move", "open", "promote"}
  Faulty = {"create", "rename", "parent", "retitle", "topic", "access"}
  MaxStarts = 3 MaxEdits = 1 MaxSetupCrashes = 1 MaxSetupFaults = 1
INVARIANTS CleanExit ReadyIsComplete
PROPERTIES HubKept BackToHub EveryClipPolled BotGetsThrough
CHECK_DEADLOCK FALSE
