\* One worker, commands that end: a crash or a lost update loses no build.
CONSTANTS
  a1 = a1
  a2 = a2
  b1 = b1
  b2 = b2
  Agents = {a1}
  Builds = {b1}
  GC = gc
  Null = null
  AgentArch <- AllAmd64Agents
  BuildArch <- AllAmd64Builds
  Publishes = {b1}
  BuildTimeout = 1
  TTL <- TtlZero
  MaxFaults = 2
SPECIFICATION FairSpec
PROPERTIES EveryBuildFinishes FinishedIsCollected
CHECK_DEADLOCK FALSE
