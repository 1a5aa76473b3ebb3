\* A tiup command outlives the lease of the mutex.
SPECIFICATION Spec
CONSTANTS
  w1 = w1 w2 = w2 p1 = p1 p2 = p2 Null = Null
  Workers = {w1, w2}
  Packages = {p2}
  Nightly = {}
  Interval = 2
  Expiry = 2
  Tries = 2
  MaxFaults = 0
  MaxResets = 0
INVARIANT OneCommand
