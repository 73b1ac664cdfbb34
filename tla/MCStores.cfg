SPECIFICATION MCSpec
CONSTANTS
  Artifacts = {"a1", "a2"}
  Contents = {"c1"}
  Digest <- OneContent
  Actors = {"p1", "p2"}
  Nobody = Nobody
  Readers = {"evidence", "decision", "download"}
  MaxMishaps = 2
  Messages = {1}
  Calls = {1}
  LastWrite = 2
  MaxTime = 5
  PayloadPeriod = 2
  DeadLetterPeriod = 1
  MetadataPeriod = 3
  CheckpointPeriod = 1
  Writers = {"scheduler"}
  Nothing = Nothing
  MaxEvents = 6
  Limit = 2
INVARIANTS EvidenceIsAccounted EvidenceHasSubject 
  
CHECK_DEADLOCK FALSE
