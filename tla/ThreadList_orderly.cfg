SPECIFICATION Spec
CONSTANTS
  Threads = {t1, t2, t3}
  NoThread = NoThread
  Pid = Pid
  Descs = {d1, d2, d3}
  NoDesc = NoDesc
  Sets = {e1}
  Listers = {t1, t2}
  Rooms = {0, 2}
  Fits = {t1, t2}
  Rules = {"init", "shutdown"}
SYMMETRY MCSymmetry
INVARIANTS
  TypeOK
  ListIntact
  TLSLive
  WalkersSafe
  SetsGoWithTheirThread
  LockHolderGoesOn
PROPERTIES
  ImplementsRegistry
