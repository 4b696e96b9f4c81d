SPECIFICATION FairSpec
CONSTANTS
  MaxMachines = 6
  MaxVersion = 2
  FailureDomains = {}
  Replicas = {1, 3}
  MemberAnswers = {"ok"}
  UserOps = {"upgrade", "controlplane", "scaleDown", "delete"}
  UserMode = "serial"
  StaleCluster = FALSE
  StaleMachines = FALSE
  Faults = FALSE
  Crashes = FALSE
CHECK_DEADLOCK FALSE
PROPERTIES Converges DeletionCompletes EndpointsPublished
