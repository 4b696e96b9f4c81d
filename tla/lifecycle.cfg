SPECIFICATION Spec
CONSTANTS
  MaxMachines = 3
  MaxVersion = 2
  FailureDomains = {}
  Replicas = {1}
  MemberAnswers = {"ok"}
  UserOps = {"upgrade", "controlplane", "delete"}
  UserMode = "serial"
  StaleCluster = TRUE
  StaleMachines = TRUE
  Faults = FALSE
  Crashes = TRUE
CHECK_DEADLOCK FALSE
INVARIANTS TypeOK NoOrphanMachines OwnedBounded
PROPERTIES OwnershipNeverReturns DisownedKept CreationCompleteStable ImplementsLifecycle
