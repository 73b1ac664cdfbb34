SPECIFICATION MCSpec
CONSTANTS
  c1 = c1
  c2 = c2
  Callers <- TwoCallers
  Specs <- AllSpecs
  MaxFaults = 1
  Nodes = {"evidence", "investigate", "implement", "refactor", "targeted_test"}
  AllowedTools = {"read_file", "search_code", "apply_patch", "run_tests"}
  CalledTools = {"read_file", "search_code", "apply_patch", "run_tests"}
  MaxCalls = 1
  Models = 2
  TurnBudget = 4
  TokenBudget = 11
  CostBudget = 4
  Inputs = {1, 2}
  Outputs = {0, 3}
  Prices = {0, 1}
  MIN_OUTPUT_TOKENS = 1
  MAX_OUTPUT_TOKENS = 3
INVARIANTS CallIsMadeOnce EffectNeedsApproval  AcceptedIsEvidenced OffersLeadToEvidence
PROPERTIES CallsAndStagesEnd
CHECK_DEADLOCK FALSE
