SPECIFICATION Spec
CONSTANTS
  a = a
  b = b
  c = c
  Runs = {"r", "s"}
  NoRun = NoRun
  RunOf <- DagRunOf
  Tasks <- DagTasks
  Projects = {"p", "q"}
  Dependencies <- DagDependencies
  ProjectOf <- DagProjects
  ResourceRequest <- DagRequests
  MaxParallelTasks = 2
  MaxParallelTasksPerProject = 1
  MaxModelConcurrency = 1
  MaxSandboxConcurrency = 1
  MaxTaskAttempts = 1
  MaxRunCost = 1
  CallCosts = {0}
  ExternalTools = FALSE
  MaxLeases = 1
  MaxFaults = 0
INVARIANTS DependencyOrder CancelledRunIsSettled
PROPERTIES ImplementsLedger
CHECK_DEADLOCK FALSE
