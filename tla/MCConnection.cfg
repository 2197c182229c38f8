SPECIFICATION Spec
CONSTANTS
  t1 = t1  t2 = t2  t3 = t3
  p1 = p1  p2 = p2
  h1 = h1  h2 = h2  h3 = h3
  Main = Main  NoOne = NoOne  NoHandle = NoHandle  NoProfile = NoProfile
  Task <- MCTask
  Profile <- MCProfile
  TlsProfile <- MCTlsProfile
  Handle <- MCHandle3
  Kinds <- AllKinds
  AppClient = FALSE
SYMMETRY Symmetric
INVARIANTS
  TypeOK
  HandleSafety
  NoHandleLeak
  BaseOfServerAsked
  FinalizedClean
PROPERTIES
  ImplementsSession
CHECK_DEADLOCK FALSE
