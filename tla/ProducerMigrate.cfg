SPECIFICATION FairSpec
CONSTANTS
  s1 = s1
  PlainSenders = {s1}
  PropertySenders = {}
  Stopper = Stopper
  Zk = Zk
  MaxProxies = 3
  MaxChanges = 1
  MaxStops = 0
  StopsZms = FALSE
CHECK_DEADLOCK FALSE
PROPERTIES MigrationReachesProducer
