------------------------------ MODULE TaskPolicy ------------------------------
(***************************************************************************)
(* What a task is granted, independent of what the model asks for: the      *)
(* static tables of domain/task_policy.py, the risk calculation of the      *)
(* policy engine and the authorization check of a registered tool, with the *)
(* four tools ProductionToolSet registers.                                  *)
(***************************************************************************)
EXTENDS Integers, FiniteSets

TaskType == {"RESEARCH", "IMPLEMENTATION", "TEST", "REFACTOR", "DOCUMENTATION", "VALIDATION"}

\* _RISK_ORDER
LOW == 0
MEDIUM == 1
HIGH == 2
CRITICAL == 3
RiskLevel == LOW..CRITICAL

maximum_risk(levels) == CHOOSE l \in levels : \A k \in levels : k <= l

risk_exceeds(level, ceiling) == level > ceiling

TASK_CAPABILITY_NAMES ==
  [RESEARCH |-> {"research", "researcher", "analysis"}, IMPLEMENTATION |-> {"implementation", "coder"},
   TEST |-> {"test", "testing", "tester"}, REFACTOR |-> {"refactor", "refactoring"},
   DOCUMENTATION |-> {"documentation"}, VALIDATION |-> {"validation"}]

TASK_REQUIRED_TOOLS ==
  [t \in TaskType |->
     {"read_file"} \cup (IF t = "RESEARCH" THEN {"search_code"} ELSE {"run_tests"})
                   \cup (IF t \in {"RESEARCH", "VALIDATION"} THEN {} ELSE {"apply_patch"})]

task_minimum_risk(t) == IF t = "RESEARCH" THEN LOW ELSE MEDIUM

capabilities_for_assignment(assignment) ==
  LET types == {t \in TaskType : assignment \in TASK_CAPABILITY_NAMES[t]}
  IN  IF types = {} THEN {assignment}
      ELSE {"repository-read"} \cup (IF "RESEARCH" \in types THEN {} ELSE {"verification"})
             \cup (IF types \cap {"RESEARCH", "VALIDATION"} # {} THEN {} ELSE {"repository-write"})

\* ProductionToolSet.registry: the fields of a ToolSpec that calls depend on.
Registry ==
  [read_file |-> [capability |-> "repository-read", risk |-> LOW, effect |-> "none"],
   search_code |-> [capability |-> "repository-read", risk |-> LOW, effect |-> "none"],
   apply_patch |-> [capability |-> "repository-write", risk |-> MEDIUM, effect |-> "local"],
   run_tests |-> [capability |-> "verification", risk |-> MEDIUM, effect |-> "local"]]

\* ToolRiskPolicy.calculate; whether an argument is a protected path
\* (_is_protected_path) or the name a consequential one is given.
calculate(base, effect, protectedPath, consequential) ==
  maximum_risk({base, LOW}
     \cup (IF effect = "local" THEN {MEDIUM} ELSE IF effect = "external" THEN {HIGH} ELSE {})
     \cup (IF protectedPath \/ consequential THEN {HIGH} ELSE {}))

\* RegisteredTool.authorize for an agent whose role is eligible.
authorize(tool, capabilities, ceiling, protectedPath) ==
  /\ Registry[tool].capability \in capabilities
  /\ ~risk_exceeds(calculate(Registry[tool].risk, Registry[tool].effect, protectedPath, FALSE), ceiling)
=============================================================================
