\* A client that reconnects, and one that polls or waits through the SDK.
CONSTANTS
  c1 = c1
  c2 = c2
  a1 = a1
  Conns = {c1, c2}
  Askers = {a1}
  MaxNudges = 1
  MaxAsks = 2
SPECIFICATION FairSpec
INVARIANTS
  TypeOK
  NoOrphan
  ToldTruth
  ToldBeforeEnd
PROPERTIES
  StreamsEnd
  WaitsReturn
CHECK_DEADLOCK FALSE
