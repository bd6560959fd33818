\* Two members, two partitions, single-thread executors, crash, expulsion or poll error.
SPECIFICATION Spec
CONSTANTS
  c1 = c1  c2 = c2  p1 = p1  p2 = p2
  NoConsumer = NoConsumer
  Consumers <- ConsumerPair
  Partitions <- TwoPartitions
  Executors <- TwoPartitions
  ExecutorOf <- OwnExecutor
  Threads = 1
  QueueCapacity = 1
  MaxPoll = 2
  AckCapacity = 2
  BatchListener = FALSE
  LogSize = 2
  MaxFaults = 1
  MaxCommitFailures = 0
  MaxInFlight = 1
SYMMETRY MemberSymmetry
INVARIANTS TypeOK FirstDeliveryInOrder NoStaleAcks
