SPECIFICATION FairSpec
CONSTANTS
  g1 = g1  g2 = g2
  None = None  Freed = Freed
  Group <- MCGroup
  Builtin <- MCBuiltin
  Slot <- MCSlot
INVARIANTS
  TypeOK
  DialogIsAboutSelected
  DetailIsSelected
PROPERTIES
  PanelReturns
CHECK_DEADLOCK FALSE
