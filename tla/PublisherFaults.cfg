\* Two requests, a mirror and an image worker with a dead letter queue, one crash
\* and one fault.
SPECIFICATION Spec
CONSTANTS
  g1 = g1 g2 = g2 g3 = g3 r1 = r1 r2 = r2 Null = Null
  Requests = {r1, r2}
  Groups = {g1, g2}
  Kind <- TiupAndImage
  Target <- ToEach
  Sync = {r2}
  DLQ = {g2}
  MaxRetries = 1
  MaxFaults = 1
  MaxCrashes = 1
INVARIANTS TypeOK StatusIsWritten SuccessIsPublished ResultBeforeSuccess
PROPERTY ForwardOnly
CHECK_DEADLOCK FALSE
