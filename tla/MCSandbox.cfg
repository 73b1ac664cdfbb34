SPECIFICATION MCSpec
CONSTANTS
  Requests = {"r1", "r2"}
  Containers = {"c1", "c2"}
  NoContainer = NoContainer
  MaxFaults = 1
  Chunks = {1, 3}
  MaxFrames = 3
  MaxStdout = 2
  MaxStderr = 3
  MaxTotal = 4
  SlowDrain = FALSE
INVARIANTS NoStrayContainer ReportIsTruthful
PROPERTIES OutcomeIsFinal ExecutionsEnd
CHECK_DEADLOCK FALSE
