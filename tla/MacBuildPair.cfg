\* Two interchangeable amd64 workers and the collector share one build.
CONSTANTS
  a1 = a1
  a2 = a2
  b1 = b1
  b2 = b2
  Agents = {a1, a2}
  Builds = {b1}
  GC = gc
  Null = null
  AgentArch <- AllAmd64Agents
  BuildArch <- AllAmd64Builds
  Publishes = {b1}
  BuildTimeout = 0
  TTL <- TtlZero
  MaxFaults = 0
SPECIFICATION Spec
INVARIANTS TypeOK StatusConsistent
SYMMETRY AgentSymmetry
PROPERTY Retained
CHECK_DEADLOCK FALSE
