---------------------------- MODULE Reconciliation ----------------------------
(***************************************************************************)
(* The deterministic decision of execution/scheduler/reconciliation.py:    *)
(* given the task state, the state of its graph row ("NOT_STARTED" when    *)
(* there is no row), whether the lease on the task has expired and whether *)
(* the row's identity (run, repository, baseline) disagrees with the       *)
(* task's, which correction is due and what it writes.                     *)
(***************************************************************************)
EXTENDS Domain

ReconciliationAction ==
  {"NOOP", "RESUME_CHECKPOINT", "FINALIZE_DOMAIN", "REQUEUE_MISSING_CHECKPOINT",
   "DOMAIN_TERMINAL_WINS", "GRAPH_TERMINAL_WINS", "QUARANTINE"}

\* A terminal task: agreement, or a cancelled or absent graph, is left alone.
DecideTerminal(task, graph) ==
  IF graph \in {"NOT_STARTED", "CANCELLED", task} THEN "NOOP"
  ELSE IF graph \in TerminalGraph THEN "QUARANTINE"
  ELSE "DOMAIN_TERMINAL_WINS"

DecideRunning(graph, expired) ==
  IF graph = "NOT_STARTED" THEN "REQUEUE_MISSING_CHECKPOINT"
  ELSE IF graph = "COMPLETED" THEN "FINALIZE_DOMAIN"
  ELSE IF expired THEN "RESUME_CHECKPOINT"
  ELSE "NOOP"

Decide(task, graph, expired, mismatch) ==
  IF graph = "NEEDS_RECONCILIATION" THEN "NOOP"
  ELSE IF graph = "CANCELLED" /\ task \notin TerminalTask THEN "GRAPH_TERMINAL_WINS"
  ELSE IF graph # "NOT_STARTED" /\ mismatch THEN "QUARANTINE"
  ELSE IF task \in TerminalTask THEN DecideTerminal(task, graph)
  ELSE IF task = "RUNNING" THEN DecideRunning(graph, expired)
  ELSE "NOOP"

-----------------------------------------------------------------------------
(* What reconcile writes for a decision.  Every action but NOOP also       *)
(* releases the lease and the reservations.                                *)

\* Mutant: a finished graph finalizes the task, whatever it finished as.
TaskAfterFinalizing(action, task) ==
  CASE action \in {"RESUME_CHECKPOINT", "REQUEUE_MISSING_CHECKPOINT"} -> "READY"
    [] action \in {"FINALIZE_DOMAIN", "GRAPH_TERMINAL_WINS"} -> "COMPLETED"
    [] OTHER -> task

TaskAfter(action, task) ==
  CASE action \in {"RESUME_CHECKPOINT", "REQUEUE_MISSING_CHECKPOINT"} -> "READY"
    [] action = "FINALIZE_DOMAIN" -> "COMPLETED"
    [] action = "GRAPH_TERMINAL_WINS" -> "CANCELLED"
    [] action = "QUARANTINE" /\ task \notin TerminalTask ->
         IF "BLOCKED" \in TASK_TRANSITIONS[task] THEN "BLOCKED" ELSE "CANCELLED"
    [] OTHER -> task

GraphAfter(action, graph) ==
  CASE action = "DOMAIN_TERMINAL_WINS" -> "CANCELLED"
    [] action = "QUARANTINE" -> "NEEDS_RECONCILIATION"
    [] OTHER -> graph

ExpiredAfter(action, expired) == action = "NOOP" /\ expired

-----------------------------------------------------------------------------
(* The periodic scan of reconcile_due: in-flight tasks whose lease expired *)
(* or whose graph is terminal, and settled tasks beside a graph row that   *)
(* disagrees.                                                              *)

\* Mutant: expired leases are left to reclaim_expired.
InFlightTerminal(task, graph, expired) ==
  task \in {"RUNNING", "LEASED"} /\ graph \in TerminalGraph

InFlightDue(task, graph, expired) ==
  task \in {"RUNNING", "LEASED"} /\ (expired \/ graph \in TerminalGraph)

SettledDue(task, graph) ==
  task \in TerminalTask /\ graph # "NOT_STARTED" /\ graph # task

(* The operator's exit from NEEDS_RECONCILIATION: the graph row has left   *)
(* that state through the matrix, and the task must be able to follow.     *)
ResolvedGraph(resolution) == IF resolution = "fail" THEN "FAILED" ELSE "CANCELLED"

ResolvedTask(resolution) == IF resolution = "fail" THEN "FAILED" ELSE "READY"

ResolutionAccepted(resolution, task, graph) ==
  /\ graph = "NEEDS_RECONCILIATION"
  /\ \/ resolution = "fail" /\ task = "FAILED"
     \/ ResolvedTask(resolution) \in TASK_TRANSITIONS[task]
=============================================================================
