\* One event read by the workers of three mirrors, two faults.
SPECIFICATION Spec
CONSTANTS
  g1 = g1 g2 = g2 g3 = g3 r1 = r1 r2 = r2 Null = Null
  Requests = {r1}
  Groups = {g1, g2, g3}
  Kind <- ThreeMirrors
  Target <- ToG1
  Sync = {}
  DLQ = {g1, g2, g3}
  MaxRetries = 2
  MaxFaults = 2
  MaxCrashes = 0
INVARIANT RetriesBounded
CHECK_DEADLOCK FALSE
