\* One request at a time; refusals, one death of the portal, one migration.
SPECIFICATION Spec
CONSTANTS
  e1 = e1  e2 = e2  A = A  B = B  r1 = r1
  NoCluster = NoCluster
  Absent = Absent
  Envs <- TwoEnvs
  Clusters <- TwoClusters
  Requests <- OneRequest
  IsKafka = TRUE
  MaxPartitions = 2
  MaxFailures = 1
  MaxCrashes = 1
  MaxMigrations = 1
SYMMETRY ClusterSymmetry
CHECK_DEADLOCK FALSE
INVARIANTS TypeOK RegisteredExists    PartitionsApplied
