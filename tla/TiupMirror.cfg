\* Two workers, a nightly and a released package; a tiup command may outlive the lease.
SPECIFICATION FairSpec
CONSTANTS
  w1 = w1 w2 = w2 p1 = p1 p2 = p2 Null = Null
  Workers = {w1, w2}
  Packages = {p1, p2}
  Nightly = {p1}
  Interval = 2
  Expiry = 3
  Tries = 2
  MaxFaults = 1
  MaxResets = 1
INVARIANTS TypeOK LeaseExcludes MutexIsInUse
PROPERTIES NightlyIsLimited MutexIsFreed LimitEnds
