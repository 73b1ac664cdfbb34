SPECIFICATION Spec
CONSTANTS
  Runs = {1}
  Dispatchers = {"d1"}
  Nobody = Nobody
  MaxRevision = 2
  Failures = {"f1"}
  Trees = {"t1"}
  Lessons = {{1}}
  Faults = {}
  MaxFaults = 0
INVARIANT CancelledIsQuiet
CHECK_DEADLOCK FALSE
