SPECIFICATION Spec
CONSTANTS
  NoEvent = NoEvent
  FpIns = FpIns
  FpOps = FpOps
  TotIns = TotIns
  TotCyc = TotCyc
  RefCyc = RefCyc
  Typo = Typo
  Codes <- MCCodes
  Names <- MCNames
  Countable <- MCCodes
  NumCounters = 3
  Faults = {"init", "add"}
  Uninit = FALSE
  Profilers <- AllProfilers
  EventRequests <- MCEvents
  EpcRequests <- MCEpcEvents
  Happens = {"catch", "direct"}
  MaxDepth = 1
  MaxWork = 4
INVARIANTS
  RateFaithful
