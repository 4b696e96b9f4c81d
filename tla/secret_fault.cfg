SPECIFICATION Spec
CONSTANTS
  MaxMachines = 3
  MaxVersion = 1
  FailureDomains = {}
  Replicas = {1, 3}
  MemberAnswers = {"ok"}
  UserOps = {"scaleUp"}
  UserMode = "forward"
  StaleCluster = FALSE
  StaleMachines = FALSE
  Faults = TRUE
  Crashes = FALSE
PROPERTIES EndpointsPublished
