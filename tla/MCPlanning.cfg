SPECIFICATION MCSpec
CONSTANTS
  p1 = p1
  p2 = p2
  NoRun = NoRun
  Runs = {1, 2}
  Planners <- TwoPlanners
  MaxClaims = 3
  MaxFaults = 2
INVARIANTS OnePlanPerRun VerdictIsExact StoredPlanStaysValid
PROPERTIES OnlyTheOwnerSettles EveryRunIsPlanned
CHECK_DEADLOCK FALSE
