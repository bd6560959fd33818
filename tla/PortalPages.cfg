\* Every page, one after another: an admin and a developer, two rows of which one is
\* approved, two requests under way, two instances with two overlapping polls.
CONSTANTS
  r1 = r1
  r2 = r2
  boss = boss
  dev = dev
  Users = {boss, dev}
  Admins = {boss}
  Nobody = Nobody
  Targets <- Pages
  Hubs = {"login", "Welcome"}
  Rows = {r1, r2}
  Approved = {r1}
  Applicant <- App
  MaxCalls = 2
  Instances = {i1, i2}
  MaxPolls = 2
  MaxLoads = 1
  MaxChecks = 2
SPECIFICATION Spec
INVARIANTS
  PortalTypeOK
  
  OneSavePerOpening
  MaskedOnlyByFailure
  
  CompleteMeansFinished
  CompleteShowsResults
  RunsOnOnlyAfterFailure
  FinishesAfterCompletion
  AddsOnce
SYMMETRY Alike
CHECK_DEADLOCK FALSE
