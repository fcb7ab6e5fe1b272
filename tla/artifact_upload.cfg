SPECIFICATION MCSpec
CONSTANTS
  Deploys = {1, 2}
  Keys = {k1, k2}
  Prints = {p1, p2}
  Chunks = {c1}
  Tasks = {t1, t2}
  UploadTtl = 1
  CommittedTtl = 2
  MaxCommitted = 1
  MaxInflight = 1
  MaxTime = 2
  MaxAborts = 1
  Total = 10
  MaxChunk = 4
SYMMETRY Symmetry
CHECK_DEADLOCK FALSE
INVARIANTS
  CommittedIsVerified
  KeyHasOneSession
  StagedIsVerified
  WorkKeepsSession
  RangesAreExact
PROPERTY CommitKeepsLimit
