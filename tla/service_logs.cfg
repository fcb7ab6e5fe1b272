SPECIFICATION MCSpec
CONSTANTS
  Streams = {stdout, stderr}
  Readers = {q1}
  MaxRuns = 1
  MaxEvents = 3
  BufferCap = 2
  ChannelCap = 1
  QueueCap = 1
  TailLines = 1
  MaxBytes = 5
  MaxRead = 6
  Names = {a, b}
  Capacity = 3
  MaxSize = 2
  MaxUpserts = 3
  MaxFaults = 2
CHECK_DEADLOCK FALSE
INVARIANTS
  WarnedIffLost
  NoHole
  TailIsNewestLines
  RetainedIsLatest
PROPERTY FollowEnds
