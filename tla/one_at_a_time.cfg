SPECIFICATION SystemSpec
CONSTANTS
  MaxMachines = 6
  MaxVersion = 1
  FailureDomains = {}
  Replicas = {5}
  MemberAnswers = {"ok"}
  UserOps = {}
  UserMode = "serial"
  StaleCluster = FALSE
  StaleMachines = FALSE
  Faults = FALSE
  Crashes = FALSE
  RetriesAnnotation = "valid"
  Retries = 1
  StartCreated = TRUE
  MaxDisturbances = 2
  Fragile = {1, 2}
  Deletable = {}
  TimelyBootstrap = FALSE
PROPERTIES OneAtATime
