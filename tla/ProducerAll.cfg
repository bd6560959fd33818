SPECIFICATION FairSpec
CONSTANTS
  s1 = s1
  s2 = s2
  PlainSenders = {s1, s2}
  PropertySenders = {}
  Stopper = Stopper
  Zk = Zk
  MaxProxies = 6
  MaxChanges = 1
  MaxStops = 1
  StopsZms = TRUE
CHECK_DEADLOCK FALSE
INVARIANTS TypeOK RunningIsOpen OneProducer RunningIsReachable
PROPERTIES Answered KeepsSending
