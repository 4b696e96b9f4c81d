SPECIFICATION FairSystemSpec
CONSTANTS
  MaxMachines = 5
  MaxVersion = 1
  FailureDomains = {}
  Replicas = {3}
  MemberAnswers = {"ok"}
  UserOps = {}
  UserMode = "serial"
  StaleCluster = FALSE
  StaleMachines = FALSE
  Faults = FALSE
  Crashes = FALSE
  RetriesAnnotation = "valid"
  Retries = 2
  StartCreated = TRUE
  MaxDisturbances = 3
  Fragile = {1}
  Deletable = {1}
  TimelyBootstrap = TRUE
INVARIANTS SystemTypeOK QueuedHaveFailed
PROPERTIES Repairs ImplementsLifecycle
