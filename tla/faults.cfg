SPECIFICATION Spec
CONSTANTS
  MaxMachines = 2
  MaxVersion = 2
  FailureDomains = {}
  Replicas = {1}
  MemberAnswers = {"ok"}
  UserOps = {"upgrade", "annotate", "machine", "delete"}
  UserMode = "serial"
  StaleCluster = FALSE
  StaleMachines = FALSE
  Faults = TRUE
  Crashes = TRUE
CHECK_DEADLOCK FALSE
INVARIANTS NoOrphanMachines ReadyMeansHealthy
