SPECIFICATION Spec
CONSTANTS
  t1 = t1
  Runs = {"r"}
  NoRun = NoRun
  Tasks <- OneTask
  RunOf <- OneRun
  Projects = {"p"}
  Dependencies <- NoDependencies
  ProjectOf <- OneProject
  ResourceRequest <- AllResources
  MaxParallelTasks = 1
  MaxParallelTasksPerProject = 1
  MaxModelConcurrency = 1
  MaxSandboxConcurrency = 1
  MaxTaskAttempts = 2
  MaxRunCost = 1
  CallCosts = {0, 1}
  ExternalTools = TRUE
  MaxLeases = 3
  MaxFaults = 2
INVARIANTS ClaimConsistency AttemptCeiling SuccessIsBacked SingleWinner
PROPERTIES StaleExecutionIsFenced
CHECK_DEADLOCK FALSE
