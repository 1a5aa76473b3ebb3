\* An amd64 and an arm64 worker and the collector share an amd64 build; one crash
\* or failed update.
CONSTANTS
  a1 = a1
  a2 = a2
  b1 = b1
  b2 = b2
  Agents = {a1, a2}
  Builds = {b1}
  GC = gc
  Null = null
  AgentArch <- MixedAgents
  BuildArch <- AllAmd64Builds
  Publishes = {b1}
  BuildTimeout = 0
  TTL <- TtlZero
  MaxFaults = 1
SPECIFICATION Spec
INVARIANTS CacheIsCurrent NoBuildIsForgotten FinishedIsWatched
PROPERTY RestIsFinal
CHECK_DEADLOCK FALSE
