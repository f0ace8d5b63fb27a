SPECIFICATION FairSpec
CONSTANTS
  c1 = c1
  c2 = c2
  p1 = p1
  p2 = p2
  Clients <- OneClient
  Posts <- OnePost
  Creator <- ByFirst
  UserOf <- SameUser
  RejectsWrites = TRUE
  RejectsListens = TRUE
  MaxSessions <- TwoScreens
  MaxRemovals <- OneTapEach
  MaxDrops = 1
  MaxCrashes = 1
CHECK_DEADLOCK FALSE
INVARIANTS
  TypeOK
  SettledBoard
  HeldForAListen
PROPERTIES
  EveryWriteAnswered
  EveryLoadEnds
