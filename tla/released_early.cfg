SPECIFICATION Spec
CONSTANTS
  MaxMachines = 4
  MaxVersion = 2
  FailureDomains = {}
  Replicas = {3}
  MemberAnswers = {"ok"}
  UserOps = {"upgrade", "controlplane"}
  UserMode = "serial"
  StaleCluster = FALSE
  StaleMachines = FALSE
  Faults = FALSE
  Crashes = TRUE
CHECK_DEADLOCK FALSE
PROPERTIES DisownedKept
