SPECIFICATION Spec
CONSTANTS
  MaxMachines = 5
  MaxVersion = 2
  FailureDomains = {"a", "b"}
  Replicas = {1, 2, 3}
  MemberAnswers = {"ok", "bad"}
  UserOps = {"upgrade", "controlplane", "scaleDown"}
  UserMode = "forward"
  StaleCluster = FALSE
  StaleMachines = FALSE
  Faults = FALSE
  Crashes = FALSE
INVARIANTS BalancedWhenConverged
PROPERTIES RolloutGated
