\* The commands of a1 may hang; a2, of the other architecture, watches the timeout.
CONSTANTS
  a1 = a1
  a2 = a2
  b1 = b1
  b2 = b2
  Agents = {a1, a2}
  Builds = {b1}
  GC = gc
  Null = null
  AgentArch <- MixedAgents
  BuildArch <- AllAmd64Builds
  Publishes = {b1}
  BuildTimeout = 0
  TTL <- TtlNone
  MaxFaults = 0
SPECIFICATION FairSpec
INVARIANT RunsOnMatchingArch
PROPERTY BuildingIsBounded
CHECK_DEADLOCK FALSE
