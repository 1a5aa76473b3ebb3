\* Two consumers with the dead letter writer they share, an event without a
\* handler, a handler that swallows its failures, a stop or crash, failed calls.
SPECIFICATION Spec
CONSTANTS
  e1 = e1 e2 = e2 e3 = e3 t1 = t1 t2 = t2 h1 = h1 h2 = h2 Null = Null
  Events = {e1, e2, e3}
  Topics = {t1, t2}
  Handlers = {h1, h2}
  Route <- Routes
  HandlersOf <- Registered
  Swallows = {h2}
  MaxFaults = 2
  MaxStops = 2
INVARIANTS TypeOK AckedIsOnItsWay
PROPERTIES ExitDropsUnsentOnly
CHECK_DEADLOCK FALSE
