SPECIFICATION FairSpec
CONSTANTS
  User = User
  Zk = Zk
  MaxStarts = 2
  MaxChanges = 1
  TopicChange = TRUE
  Partitions = {0, 1}
  BatchSize = 1
  MaxBatches = 1
  MaxErrors = 0
CHECK_DEADLOCK FALSE
INVARIANTS RunningIsPolled
PROPERTIES BatchEnds EventThreadReturns
