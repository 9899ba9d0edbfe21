SPECIFICATION Spec
CONSTANTS
  Threads = {t1, t2}
  NoThread = NoThread
  Pid = Pid
  Descs = {d1, d2}
  NoDesc = NoDesc
  Sets = {e1}
  Listers = {t1, t2}
  Rooms = {0}
  Fits = {t1, t2}
  Rules = {"init"}
SYMMETRY MCSymmetry
INVARIANTS
  TLSLive
CHECK_DEADLOCK FALSE
