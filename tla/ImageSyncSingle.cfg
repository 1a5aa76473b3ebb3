\* One replica, two tasks, three stops or crashes, two failed calls.
SPECIFICATION Spec
CONSTANTS
  r1 = r1 r2 = r2
  Replicas = {r1}
  NumTasks = 2
  BatchSize = 2
  MaxRetries = 3
  MaxFaults = 2
  MaxStops = 3
INVARIANT TypeOK
PROPERTY LifeCycle
CHECK_DEADLOCK FALSE
