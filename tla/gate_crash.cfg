SPECIFICATION Spec
CONSTANTS
  MaxMachines = 2
  MaxVersion = 2
  FailureDomains = {}
  Replicas = {1}
  MemberAnswers = {"ok"}
  UserOps = {"upgrade"}
  UserMode = "serial"
  StaleCluster = FALSE
  StaleMachines = FALSE
  Faults = FALSE
  Crashes = TRUE
PROPERTIES RolloutGated
