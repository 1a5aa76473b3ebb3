\* A build for two platforms, with one replica, two updates and two faults.
SPECIFICATION Spec
CONSTANTS
  b1 = b1 r1 = r1 r2 = r2 Null = Null
  Builds = {b1}
  Replicas = {r1}
  Platforms <- TwoPlatforms
  ApiStatuses = {"PROCESSING", "ABORTED"}
  MaxUpdates = 2
  MaxFaults = 2
INVARIANT TypeOK
PROPERTY FinishedStays
CHECK_DEADLOCK FALSE
