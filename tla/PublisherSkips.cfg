\* One event that the worker of another mirror skips.
SPECIFICATION Spec
CONSTANTS
  g1 = g1 g2 = g2 g3 = g3 r1 = r1 r2 = r2 Null = Null
  Requests = {r1}
  Groups = {g1, g2}
  Kind <- AllTiup
  Target <- ToG1
  Sync = {}
  DLQ = {g1, g2}
  MaxRetries = 1
  MaxFaults = 0
  MaxCrashes = 0
PROPERTY SkipsAreNotCounted
CHECK_DEADLOCK FALSE
