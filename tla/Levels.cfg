SPECIFICATION Spec
CONSTANTS
  Keys <- TwoKeys
  Deletable <- FirstOnly
  NumLevels = 4
  MaxMemLevel = 2
  MaxFileSize = 2
  GrandparentLimit = 1
  ExpandLimit = 6
  MaxSeq = 4
  MaxSnapshots = 1
CHECK_DEADLOCK FALSE
INVARIANTS
  TypeOK
  ReadsExact
  EntriesNeverHop
  ScansExact
