SPECIFICATION Spec
CONSTANTS
  Keys <- ThreeKeys
  Deletable = {}
  NumLevels = 4
  MaxMemLevel = 2
  MaxFileSize = 2
  GrandparentLimit = 1
  ExpandLimit = 6
  MaxSeq = 5
  MaxSnapshots = 0
CHECK_DEADLOCK FALSE
INVARIANTS
  LevelsDisjoint
