SPECIFICATION MCFairSpec
CONSTANTS
  root = root  ou = ou  a1 = a1  v1 = v1
  NoEntry = NoEntry  NoAttr = NoAttr
  Entry <- MCEntries
  Root = root
  ParentOf <- MCParents
  Attr <- MCAttrs
  Value <- MCOneValue
  Parts <- MCPlain
  MaxAsks = 4
  MaxEdits = 1
  MaxLoads = 2
CHECK_DEADLOCK FALSE
INVARIANTS
  TypeOK
  WritesOnlyTyped
  NoTwins
PROPERTIES
  UnsavedCanBeSaved
