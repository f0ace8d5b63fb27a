SPECIFICATION Spec
CONSTANTS
  c1 = c1
  c2 = c2
  p1 = p1
  p2 = p2
  Clients <- MCClients
  Posts <- OnePost
  Creator <- ByFirst
  UserOf <- TwoUsers
  RejectsWrites = FALSE
  RejectsListens = FALSE
  MaxSessions <- OneScreen
  MaxRemovals <- OneTapEach
  MaxDrops = 1
  MaxCrashes = 0
CHECK_DEADLOCK FALSE
INVARIANTS
  LiveRowsExact
  SettledBoard
  CacheFollowsServer
  EveryWriteTracked
  RemovedStaysRemoved
  NoPhantomRemoval
PROPERTIES
  AckMeetsWholeView
  ImplementsLiveList
