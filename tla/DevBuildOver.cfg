\* A build for two platforms, the two replicas of a rolling update, two updates and
\* one fault.
SPECIFICATION Spec
CONSTANTS
  b1 = b1 r1 = r1 r2 = r2 Null = Null
  Builds = {b1}
  Replicas = {r1, r2}
  Platforms <- TwoPlatforms
  ApiStatuses = {"PROCESSING", "ABORTED"}
  MaxUpdates = 2
  MaxFaults = 1
INVARIANT TypeOK
PROPERTY OverIsOver
CHECK_DEADLOCK FALSE
