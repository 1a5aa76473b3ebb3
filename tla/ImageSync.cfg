\* Two replicas, two tasks, one at a time, two stops or crashes, a failed call.
SPECIFICATION FairSpec
CONSTANTS
  r1 = r1 r2 = r2
  Replicas = {r1, r2}
  NumTasks = 2
  BatchSize = 1
  MaxRetries = 2
  MaxFaults = 1
  MaxStops = 2
INVARIANTS TypeOK TriesBeforeFailed NoOrphans
PROPERTY TasksEnd
CHECK_DEADLOCK FALSE
