SPECIFICATION Spec
CONSTANTS
  h1 = h1  h2 = h2  h3 = h3  s1 = s1  s2 = s2
  Requests = {r1, r2}
  Handlers <- MCHandlers
  Sessions <- MCSessions
  SessionOf <- MCSessionOf
  Deploys = {d1}
  NoDeploy = NoDeploy
  MaxWriteFailures = 1
SYMMETRY Symmetry
CHECK_DEADLOCK FALSE
INVARIANTS
  CancelHonoured
  CanceledOnlyOnGrant
  EntryFollowsHandler
  AbandonedOnlyMidway
