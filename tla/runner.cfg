SPECIFICATION MCSpec
CONSTANTS
  Requests = {r1, r2}
  Invocations = {i1}
  ShutdownCall = stop
  Permits = 1
  HttpPermits = 2
  QueueCap = 1
  MaxFailures = 3
  MaxFaults = 2
  Services <- MCServices
  Bindings <- MCBindings
  Runners = {p1, p2}
  Calls = {c1, c2}
  Daemon = daemon
  InboundSlots = 1
  ControlSlots = 1
  TokenTtl = 1
  MaxTime = 1
CHECK_DEADLOCK FALSE
PROPERTIES
  ProcessExits
  ReadyIsServing
  ConnectionsEnd
  InvocationsReturn
  InvokedIsResolved
