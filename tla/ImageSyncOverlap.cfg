\* A replica starts while another one copies.
SPECIFICATION Spec
CONSTANTS
  r1 = r1 r2 = r2
  Replicas = {r1, r2}
  NumTasks = 2
  BatchSize = 1
  MaxRetries = 2
  MaxFaults = 0
  MaxStops = 0
INVARIANT OneCopy
CHECK_DEADLOCK FALSE
