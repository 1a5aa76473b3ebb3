\* A tiup request and a multi-arch collection whose caller waits; a failed call.
SPECIFICATION FairSpec
CONSTANTS
  g1 = g1 g2 = g2 g3 = g3 r1 = r1 r2 = r2 Null = Null
  Requests = {r1, r2}
  Groups = {g1, g2}
  Kind <- TiupAndImage
  Target <- ToEach
  Sync = {r2}
  DLQ = {g1, g2}
  MaxRetries = 1
  MaxFaults = 1
  MaxCrashes = 0
INVARIANT RetriesBounded
PROPERTIES WrittenIsHandled CallerIsAnswered
CHECK_DEADLOCK FALSE
