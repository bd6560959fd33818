SPECIFICATION FairSpec
CONSTANTS
  User = User
  Zk = Zk
  MaxStarts = 2
  MaxChanges = 1
  TopicChange = FALSE
  Partitions = {0}
  BatchSize = 1
  MaxBatches = 1
  MaxErrors = 0
CHECK_DEADLOCK FALSE
PROPERTIES ChangeTakesEffect
