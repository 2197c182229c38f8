SPECIFICATION MCFairSpec
CONSTANTS
  u1 = u1  u2 = u2  NoUser = NoUser  NoId = NoId
  User <- MCUsers
  Id <- MCIds
  MayFail = TRUE
  MaxChecks = 2
  MaxWrites = 1
CHECK_DEADLOCK FALSE
INVARIANTS
  TypeOK
  WarningIsAboutEntry
  TypedIsChecked
PROPERTIES
  PaneRests
