SPECIFICATION MCSpec
CONSTANTS
  h1 = h1  h2 = h2  s1 = s1  s2 = s2
  Requests = {r1, r2}
  Handlers <- MCHandlers
  Sessions <- MCSessions
  SessionOf <- MCSessionOf
  Deploys = {d1}
  NoDeploy = NoDeploy
  MaxWriteFailures = 0
  Clients = {c1, c2}
  Streams = {1, 2}
  MaxSessions = 1
CHECK_DEADLOCK FALSE
INVARIANT StopIsLast
PROPERTIES
  CommandsEnd
  SessionsEnd
