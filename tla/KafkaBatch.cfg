\* A batch listener, an acks queue smaller than a batch, and no commit that fails.
SPECIFICATION FairSpec
CONSTANTS
  c1 = c1  c2 = c2  p1 = p1  p2 = p2
  NoConsumer = NoConsumer
  Consumers <- ConsumerPair
  Partitions <- OnePartition
  Executors <- SharedPool
  ExecutorOf <- SharedExecutor
  Threads = 1
  QueueCapacity = 0
  MaxPoll = 3
  AckCapacity = 1
  BatchListener = TRUE
  LogSize = 3
  MaxFaults = 1
  MaxCommitFailures = 0
  MaxInFlight = 2

PROPERTIES ImplementsPromise EventuallyCommitted
