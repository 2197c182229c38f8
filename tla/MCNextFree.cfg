SPECIFICATION WalkFairSpec
CONSTANTS
  Ids <- MCIds
  Lo = 1
  Hi = 3
  Hints <- MCHints
  MaxEntries = 4
INVARIANTS
  WalkTypeOK
  FoundIsFirstGap
PROPERTIES
  WalkEnds
CHECK_DEADLOCK FALSE
