\* Not orderly: one pool of two threads, and a batch of three that comes back out of order.
SPECIFICATION FairSpec
CONSTANTS
  c1 = c1  c2 = c2  p1 = p1  p2 = p2
  NoConsumer = NoConsumer
  Consumers <- ConsumerPair
  Partitions <- OnePartition
  Executors <- SharedPool
  ExecutorOf <- SharedExecutor
  Threads = 2
  QueueCapacity = 0
  MaxPoll = 3
  AckCapacity = 3
  BatchListener = FALSE
  LogSize = 3
  MaxFaults = 1
  MaxCommitFailures = 1
  MaxInFlight = 2
INVARIANTS CommitSafe
PROPERTIES ImplementsPromise Delivered
