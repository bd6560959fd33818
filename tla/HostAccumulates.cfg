\* The page of hosts and the way to it.
CONSTANTS
  r1 = r1
  r2 = r2
  boss = boss
  dev = dev
  Users = {boss, dev}
  Admins = {boss}
  Nobody = Nobody
  Targets = {"home", "hostList"}
  Hubs = {"login", "Welcome"}
  Rows = {r1, r2}
  Approved = {r1}
  Applicant <- App
  MaxCalls = 2
  Instances = {i1, i2}
  MaxPolls = 2
  MaxLoads = 1
  MaxChecks = 2
SPECIFICATION Spec
INVARIANT SendsConfirmedHosts
CHECK_DEADLOCK FALSE
