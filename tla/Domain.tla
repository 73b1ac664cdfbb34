-------------------------------- MODULE Domain --------------------------------
(***************************************************************************)
(* The closed vocabularies of domain/enums.py: the states of a scheduler   *)
(* task, of its LangGraph execution row and of a run, and the three        *)
(* transition matrices that every guarded writer consults                  *)
(* (require_task_transition, require_graph_transition and                  *)
(* require_run_transition in domain/events.py raise outside of them).      *)
(***************************************************************************)

TaskStatus == {"PENDING", "READY", "LEASED", "RUNNING", "BLOCKED",
               "COMPLETED", "FAILED", "CANCELLED"}

TerminalTask == {"COMPLETED", "FAILED", "CANCELLED"}

GraphExecutionState ==
  {"NOT_STARTED", "RUNNING", "WAITING_FOR_TOOL", "WAITING_FOR_APPROVAL",
   "WAITING_FOR_MEMORY", "PAUSED", "NEEDS_RECONCILIATION",
   "COMPLETED", "FAILED", "CANCELLED"}

TerminalGraph == {"COMPLETED", "FAILED", "CANCELLED"}

RunStatus == {"PENDING", "PLANNING", "EXECUTING", "WAITING_FOR_APPROVAL",
              "WAITING_FOR_MEMORY", "COMPLETED", "FAILED", "CANCELLED"}

TerminalRun == {"COMPLETED", "FAILED", "CANCELLED"}

-----------------------------------------------------------------------------

TASK_TRANSITIONS ==
  [s \in TaskStatus |->
     CASE s = "PENDING" -> {"READY", "CANCELLED"}
       [] s = "READY"   -> {"LEASED", "BLOCKED", "FAILED", "CANCELLED"}
       [] s = "LEASED"  -> {"RUNNING", "READY", "FAILED", "CANCELLED"}
       [] s = "RUNNING" -> {"READY", "BLOCKED"} \cup TerminalTask
       [] s = "BLOCKED" -> {"READY", "FAILED", "CANCELLED"}
       [] OTHER         -> {}]

GRAPH_EXECUTION_TRANSITIONS ==
  [s \in GraphExecutionState |->
     CASE s = "NOT_STARTED" -> {"RUNNING", "CANCELLED"}
       [] s = "RUNNING" -> GraphExecutionState \ {"NOT_STARTED", "RUNNING"}
       [] s = "WAITING_FOR_TOOL" ->
            {"RUNNING", "FAILED", "CANCELLED", "NEEDS_RECONCILIATION"}
       [] s \in {"WAITING_FOR_APPROVAL", "WAITING_FOR_MEMORY", "PAUSED"} ->
            {"RUNNING", "FAILED", "CANCELLED"}
       [] s = "NEEDS_RECONCILIATION" -> {"RUNNING"} \cup TerminalGraph
       [] OTHER -> {}]

RUN_TRANSITIONS ==
  [s \in RunStatus |->
     CASE s = "PENDING"   -> {"PLANNING", "CANCELLED"}
       [] s = "PLANNING"  -> {"EXECUTING", "FAILED", "CANCELLED"}
       [] s = "EXECUTING" ->
            {"WAITING_FOR_APPROVAL", "WAITING_FOR_MEMORY"} \cup TerminalRun
       [] s = "WAITING_FOR_APPROVAL" -> {"WAITING_FOR_MEMORY"} \cup TerminalRun
       [] s = "WAITING_FOR_MEMORY" -> TerminalRun
       [] OTHER -> {}]
=============================================================================
