SPECIFICATION FairSpec
CONSTANTS
  c1 = c1  c2 = c2  c3 = c3
  p1 = p1  p2 = p2
  NoConn = NoConn  NoProfile = NoProfile
  Conn <- MCConn3
  Profile <- MCProfile
  Kerberos <- MCOneKerberos
  Unsaved <- MCNone
  Added <- MCOneAdded
  MaxTasks = 1
INVARIANTS
  TypeOK
  RefExact
  StatusDescribesConnection
PROPERTIES
  WindowReturns
CHECK_DEADLOCK FALSE
