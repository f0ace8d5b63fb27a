SPECIFICATION FairSpec
CONSTANTS
  w1 = w1
  w2 = w2
  w3 = w3
  Writes <- MCWrites
  SyncWrites <- MCSyncWrites
  CompactionTrigger = 1
  StopTrigger = 2
  MaxCrashes = 2
  MaxFaults = 1
CHECK_DEADLOCK FALSE
INVARIANTS
  TypeOK
  Durable
  ReadersKeepTables
PROPERTIES
  ImplementsDurableStore
  WritersAnswered
