SPECIFICATION MCSpec
CONSTANTS
  Runs = {1, 2}
  Dispatchers = {"d1", "d2"}
  Nobody = Nobody
  MaxRevision = 2
  Failures = {"f1"}
  Trees = {"t1", "t2"}
  Lessons = {{1, 2}}
  Faults = {"crash", "slow", "raise", "edit", "corrupt", "uams"}
  MaxFaults = 2
INVARIANTS CommitIsApproved CompletedIsDelivered OneRelease RepairsAreProgress
 
CHECK_DEADLOCK FALSE
