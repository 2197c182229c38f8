SPECIFICATION FairSpec
CONSTANTS
  c1 = c1  c2 = c2  n1 = n1
  None = None
  Computer <- MCComputer
  New <- MCNew
  Directories <- MCDirectories
  Spn <- MCSpn
  SpnOf <- MCSpnOf
  Slot <- MCSlot
INVARIANTS
  TypeOK
  SpnsOfOwn
  UnsavedSpnsCanBeSaved
PROPERTIES
  PanelReturns
CHECK_DEADLOCK FALSE
