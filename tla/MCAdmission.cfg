SPECIFICATION Spec
CONSTANTS
  d1 = d1
  d2 = d2
  a = a
  b = b
  c = c
  e = e
  NoOne = NoOne
  Dispatchers <- TwoDispatchers
  Tasks <- FourTasks
  Priority <- Ranks
  Projects = {1, 2}
  ProjectOf <- TwoProjects
  ResourceRequest <- Requests
  MaxParallelTasks = 2
  MaxParallelTasksPerProject = 1
  MaxModelConcurrency = 1
  MaxSandboxConcurrency = 1
  Limit = 2
INVARIANTS CeilingsAreExact OneClaimPerTask
