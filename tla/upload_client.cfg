SPECIFICATION FairSpec
CONSTANTS
  Deploys = {1, 2, 3, 4, 5}
  Keys = {k1}
  Prints = {p1}
  Chunks = {c1, c2}
  Tasks = {t1, t2}
  UploadTtl = 1
  CommittedTtl = 3
  MaxCommitted = 1
  MaxInflight = 1
  MaxTime = 1
  MaxAborts = 1
  UploadAttempts = 2
  StreamAttempts = 2
  MaxFaults = 1
CHECK_DEADLOCK FALSE
INVARIANTS
  UploadedIsCommitted
  FailureHasCause
PROPERTIES
  RunEnds
  UploadGetsThrough
