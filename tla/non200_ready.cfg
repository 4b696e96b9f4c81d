SPECIFICATION Spec
CONSTANTS
  MaxMachines = 1
  MaxVersion = 1
  FailureDomains = {}
  Replicas = {1}
  MemberAnswers = {"ok", "non200"}
  UserOps = {}
  UserMode = "serial"
  StaleCluster = FALSE
  StaleMachines = FALSE
  Faults = FALSE
  Crashes = FALSE
INVARIANTS ReadyMeansHealthy
