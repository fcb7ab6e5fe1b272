SPECIFICATION MCSpec
CONSTANTS
  Deploys = {1, 2}
  Keys = {k1, k2}
  Prints = {p1, p2}
  Chunks = {c1}
  Tasks = {t1, t2}
  UploadTtl = 1
  CommittedTtl = 2
  MaxCommitted = 1
  MaxInflight = 1
  MaxTime = 2
  MaxAborts = 0
  Total = 2
  MaxChunk = 1
SYMMETRY Symmetry
CHECK_DEADLOCK FALSE
INVARIANT RemovedFileIsDeleted
