\* A build for two platforms, reconciled by the two replicas of a rolling update.
SPECIFICATION FairSpec
CONSTANTS
  b1 = b1 r1 = r1 r2 = r2 Null = Null
  Builds = {b1}
  Replicas = {r1, r2}
  Platforms <- TwoPlatforms
  ApiStatuses = {"PROCESSING", "ABORTED"}
  MaxUpdates = 1
  MaxFaults = 1
INVARIANT TriggeredIsAnswered
CHECK_DEADLOCK FALSE
