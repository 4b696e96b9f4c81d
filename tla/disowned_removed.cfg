SPECIFICATION SystemSpec
CONSTANTS
  MaxMachines = 4
  MaxVersion = 2
  FailureDomains = {}
  Replicas = {3}
  MemberAnswers = {"ok"}
  UserOps = {"upgrade"}
  UserMode = "serial"
  StaleCluster = FALSE
  StaleMachines = FALSE
  Faults = FALSE
  Crashes = FALSE
  RetriesAnnotation = "valid"
  Retries = 1
  StartCreated = TRUE
  MaxDisturbances = 1
  Fragile = {1}
  Deletable = {}
  TimelyBootstrap = FALSE
PROPERTIES OnlyOwnedTouched
