SPECIFICATION FairSpec
CONSTANTS
  c1 = c1
  c2 = c2
  p1 = p1
  p2 = p2
  Clients <- OneClient
  Posts <- OnePost
  Creator <- ByFirst
  UserOf <- SameUser
  RejectsWrites = FALSE
  RejectsListens = FALSE
  MaxSessions <- TwoScreens
  MaxRemovals <- NoTaps
  MaxDrops = 2
  MaxCrashes = 0
CHECK_DEADLOCK FALSE
PROPERTIES
  EveryWriteSettles
