SPECIFICATION FairSpec
CONSTANTS
  User = User
  Zk = Zk
  MaxStarts = 1
  MaxChanges = 0
  TopicChange = FALSE
  Partitions = {0}
  BatchSize = 2
  MaxBatches = 3
  MaxErrors = 2
CHECK_DEADLOCK FALSE
INVARIANTS TypeOK CachedHasPolled
PROPERTIES StopCloses
