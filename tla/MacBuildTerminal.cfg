\* A single worker reconciles again before it has seen its own final update.
CONSTANTS
  a1 = a1
  a2 = a2
  b1 = b1
  b2 = b2
  Agents = {a1}
  Builds = {b1}
  GC = gc
  Null = null
  AgentArch <- AllAmd64Agents
  BuildArch <- AllAmd64Builds
  Publishes = {b1}
  BuildTimeout = 1
  TTL <- TtlNone
  MaxFaults = 0
SPECIFICATION Spec
PROPERTY TerminalIsFinal
CHECK_DEADLOCK FALSE
