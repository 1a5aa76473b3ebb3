\* Two batches and four deliveries, with two failures or crashes.
SPECIFICATION Spec
CONSTANTS
  e1 = e1 e2 = e2 e3 = e3 u1 = u1 u2 = u2 u3 = u3 Null = Null
  MaxJob = 3
  Malformed = {3}
  Events = {e1, e2, e3}
  UrlOf <- Url
  JobOf <- Named
  Log <- Delivered
  BatchSize = 2
  MaxFaults = 2
INVARIANTS TypeOK OneRowPerJob ClashesPass CommittedIsSettled
CHECK_DEADLOCK FALSE
