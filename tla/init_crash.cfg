SPECIFICATION Spec
CONSTANTS
  MaxMachines = 1
  MaxVersion = 1
  FailureDomains = {}
  Replicas = {1}
  MemberAnswers = {"ok"}
  UserOps = {}
  UserMode = "serial"
  StaleCluster = FALSE
  StaleMachines = FALSE
  Faults = FALSE
  Crashes = TRUE
INVARIANTS InitializationRecorded
