SPECIFICATION FairSpec
CONSTANTS
  t1 = t1  t2 = t2  t3 = t3
  p1 = p1  p2 = p2
  h1 = h1  h2 = h2  h3 = h3
  Main = Main  NoOne = NoOne  NoHandle = NoHandle  NoProfile = NoProfile
  Task <- MCTask
  Profile <- MCProfile
  TlsProfile <- MCTlsProfile
  Handle <- MCHandle2
  Kinds <- AllKinds
  AppClient = TRUE
PROPERTIES
  EveryRequestDelivered
  DroppedIsFinalized
