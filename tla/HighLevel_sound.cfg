SPECIFICATION Spec
CONSTANTS
  NoEvent = NoEvent
  FpIns = FpIns
  FpOps = FpOps
  TotIns = TotIns
  TotCyc = TotCyc
  RefCyc = RefCyc
  Codes <- MCCodes
  Countable <- MCNoRefCyc
  NumCounters = 2
  Faults = {"init", "add", "read", "reset"}
  Requests <- MCRequests
  Lengths <- MCLengths
  EpcChoices <- MCEpcChoices
  MaxWork = 3
INVARIANTS
  TypeOK
  QuietWhenStopped
  Conservation
  ArrayFits
PROPERTIES
  ErrorsAreHarmless
  ImplementsMeter
