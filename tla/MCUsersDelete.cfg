SPECIFICATION Spec
CONSTANTS
  u1 = u1  u2 = u2  n1 = n1  n2 = n2  s1 = s1  s2 = s2
  NoUser = NoUser
  NoCn = NoCn
  FirstCn = n1
  User <- MCUser2
  Cn <- MCCn1
  Slot <- MCSlot2
  MaxClicks = 3
  MaxOthers = 1
SYMMETRY Symmetric
INVARIANTS
  TypeOK
  SelectionIsRow
  DeleteAsConfirmed
CHECK_DEADLOCK FALSE
