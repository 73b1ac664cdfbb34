SPECIFICATION Spec
CONSTANTS
  t1 = t1
  Runs = {"r"}
  NoRun = NoRun
  Tasks <- OneTask
  RunOf <- OneRun
  Projects = {"p"}
  Dependencies <- NoDependencies
  ProjectOf <- OneProject
  ResourceRequest <- AllResources
  MaxParallelTasks = 1
  MaxParallelTasksPerProject = 1
  MaxModelConcurrency = 1
  MaxSandboxConcurrency = 1
  MaxTaskAttempts = 1
  MaxRunCost = 1
  CallCosts = {0}
  ExternalTools = FALSE
  MaxLeases = 2
  MaxFaults = 2
PROPERTY StaleDispatchIsHarmless
CHECK_DEADLOCK FALSE
