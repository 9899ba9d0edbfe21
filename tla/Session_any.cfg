SPECIFICATION Spec
CONSTANTS
  NoEvent = NoEvent
  FpIns = FpIns
  FpOps = FpOps
  TotIns = TotIns
  TotCyc = TotCyc
  RefCyc = RefCyc
  Typo = Typo
  Codes <- MCCodes
  Names <- MCNames
  Countable <- MCNoRefCyc
  NumCounters = 3
  Faults = {"init", "add", "start", "stop"}
  Uninit = TRUE
  Profilers <- AllProfilers
  EventRequests <- MCEvents
  EpcRequests <- MCEpcEvents
  Happens = {"error", "other", "catch", "interrupt", "nest", "direct"}
  MaxDepth = 2
  MaxWork = 3
INVARIANTS
  TypeOK
  EventFaithful
