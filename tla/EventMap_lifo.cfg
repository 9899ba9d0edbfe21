SPECIFICATION Spec
CONSTANTS
  n1 = n1
  n2 = n2
  n3 = n3
  n4 = n4
  Sum = Sum
  Ratio = Ratio
  Missing = Missing
  Sets = {s1, s2}
  NoSet = NoSet
  Natives = {n1, n2, n3, n4}
  NoNative = NoNative
  Presets <- MCPresets
  NumCounters = 2
  MaxNatives = 3
  Faults = {"add", "reopen", "start", "read", "stop"}
  Offered = {n1, n4, Sum, Ratio, Missing}
  AnyOrder = FALSE
SYMMETRY MCSymmetry
INVARIANTS
  TypeOK
  OwnersAreUsers
  CountersServeEvents
PROPERTIES
  ImplementsEventSet
