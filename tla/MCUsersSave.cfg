SPECIFICATION FairSpec
CONSTANTS
  u1 = u1  u2 = u2  n1 = n1  n2 = n2  s1 = s1  s2 = s2
  NoUser = NoUser
  NoCn = NoCn
  FirstCn = n1
  User <- MCUser1
  Cn <- MCCn2
  Slot <- MCSlot1
  MaxClicks = 4
  MaxOthers = 0
PROPERTIES
  EnableChangesOneFlag
  PanelReturns
CHECK_DEADLOCK FALSE
