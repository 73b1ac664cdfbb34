------------------------------- MODULE Scheduler -------------------------------
(***************************************************************************)
(* The task lifecycle of executing runs: SchedulerService and              *)
(* ReconciliationService (execution/scheduler), the dispatcher that        *)
(* publishes claims, the worker that executes them                         *)
(* (apps/worker/executor.py, workflows/runtime.py) and the operator.       *)
(*                                                                         *)
(* Every action is one PostgreSQL transaction (row and advisory locks make *)
(* it atomic); what a worker does between two transactions is a value of   *)
(* exec.  A lease token is the ordinal of the lease on its task: uuid4     *)
(* tokens are unique, and attempt_id and the graph thread are derived from *)
(* the token, so one number names the lease, the attempt and the thread.   *)
(* Expiry is the age of the lease: "live", "expired" (expires_at <= now)   *)
(* or "lapsed" (expires_at <= now - ttl, beyond finish_claim's grace).     *)
(***************************************************************************)
EXTENDS Reconciliation, Capacity

CONSTANTS
  Runs, NoRun,           \* RunRow rows
  RunOf,                 \* TaskRow.run_id
  Dependencies,          \* [Tasks -> SUBSET Tasks], within a run
  MaxTaskAttempts,       \* policy.max_task_attempts
  MaxRunCost, CallCosts, \* policy.max_run_cost_usd; costs one execution may add
  ExternalTools,         \* some registered tool may report an unknown outcome
  MaxLeases,             \* bound: leases granted per task
  MaxFaults              \* bound: crashes, lost messages, missed heartbeats

Tokens == 1..MaxLeases
NoToken == 0

ASSUME SchedulerAssumption ==
  /\ NoRun \notin Runs
  /\ RunOf \in [Tasks -> Runs]
  /\ Dependencies \in [Tasks -> SUBSET Tasks]
  /\ \A t \in Tasks : \A d \in Dependencies[t] : RunOf[d] = RunOf[t]
  /\ \A t, u \in Tasks : RunOf[t] = RunOf[u] => ProjectOf[t] = ProjectOf[u]
  /\ {MaxTaskAttempts, MaxRunCost} \subseteq Nat \ {0}
  /\ CallCosts \subseteq Nat
  /\ ExternalTools \in BOOLEAN
  /\ MaxLeases \in Nat /\ MaxFaults \in Nat

VARIABLES
  taskState,       \* TaskRow.state
  leaseToken,      \* LeaseRow.token, NoToken when there is no row
  leaseAge,        \* LeaseRow.expires_at against the clock
  reserved,        \* ReservationRow rows with released_at NULL, per task
  issued,          \* leases ever created for the task
  attempts,        \* TaskAttemptRow.status per token, "NONE" without a row
  graph,           \* GraphExecutionRow: state and thread
  exec,            \* where the execution of each dispatch message stands
  cost,            \* per run: sum of ModelCallRow.cost_usd, up to the ceiling
  cancelRequested, \* runs whose cancellation_requested_at is set
  runState,        \* RunRow.state, from EXECUTING on
  sweep,           \* progress of cancel_requested_runs in the dispatcher
  faults,          \* faults injected so far
  chainsDone       \* history: threads whose graph reached COMPLETED

claimVars == <<leaseToken, leaseAge, reserved>>
runVars == <<cancelRequested, runState, sweep>>
vars == <<taskState, leaseToken, leaseAge, reserved, issued, attempts, graph,
          exec, cost, cancelRequested, runState, sweep, faults, chainsDone>>

Ages == {"live", "expired", "lapsed"}
AttemptStatus == {"NONE", "RUNNING", "COMPLETED", "FAILED"}
Unstarted == {"unpublished", "queued"}
\* Positions at which the heartbeat task runs beside the execution.
Working == {"started", "prepared", "asserted", "invoked", "ran",
            "erring", "cancelling", "finishing"}
Positions == {"none", "refusing", "failing", "done"} \cup Unstarted \cup Working

TypeOK ==
  /\ taskState \in [Tasks -> TaskStatus]
  /\ leaseToken \in [Tasks -> Tokens \cup {NoToken}]
  /\ leaseAge \in [Tasks -> Ages]
  /\ reserved \in Accounts
  /\ issued \in [Tasks -> 0..MaxLeases]
  /\ attempts \in [Tasks -> [Tokens -> AttemptStatus]]
  /\ graph \in [Tasks -> [state : GraphExecutionState, thread : Tokens \cup {NoToken}]]
  /\ exec \in [Tasks -> [Tokens -> Positions]]
  /\ cost \in [Runs -> 0..MaxRunCost]
  /\ cancelRequested \in SUBSET Runs
  /\ runState \in [Runs -> {"EXECUTING", "CANCELLED"}]
  /\ sweep \in [run : Runs \cup {NoRun}, todo : SUBSET Tasks]
  /\ faults \in 0..MaxFaults
  /\ chainsDone \in [Tasks -> SUBSET Tokens]

Idle == [run |-> NoRun, todo |-> {}]

\* _persist_plan has just created the tasks: those without dependencies READY.
Init ==
  /\ taskState = [t \in Tasks |-> IF Dependencies[t] = {} THEN "READY" ELSE "PENDING"]
  /\ leaseToken = [t \in Tasks |-> NoToken]
  /\ leaseAge = [t \in Tasks |-> "live"]
  /\ reserved = Empty
  /\ issued = [t \in Tasks |-> 0]
  /\ attempts = [t \in Tasks |-> [k \in Tokens |-> "NONE"]]
  /\ graph = [t \in Tasks |-> [state |-> "NOT_STARTED", thread |-> NoToken]]
  /\ exec = [t \in Tasks |-> [k \in Tokens |-> "none"]]
  /\ cost = [r \in Runs |-> 0]
  /\ cancelRequested = {}
  /\ runState = [r \in Runs |-> "EXECUTING"]
  /\ sweep = Idle
  /\ faults = 0
  /\ chainsDone = [t \in Tasks |-> {}]

-----------------------------------------------------------------------------
(* Writes shared by the transactions.                                      *)

CanBecome(t, target) == target \in TASK_TRANSITIONS[taskState[t]]

SetTask(t, target) == taskState' = [taskState EXCEPT ![t] = target]

\* Mutants: the reservations, or those other than the task slot, are forgotten.
ReleaseLeaseOnly(t) ==
  /\ leaseToken' = [leaseToken EXCEPT ![t] = NoToken]
  /\ leaseAge' = [leaseAge EXCEPT ![t] = "live"]
  /\ UNCHANGED reserved

ReleaseTaskSlotOnly(t) ==
  /\ leaseToken' = [leaseToken EXCEPT ![t] = NoToken]
  /\ leaseAge' = [leaseAge EXCEPT ![t] = "live"]
  /\ reserved' = [reserved EXCEPT ![t] = @ \ {"task"}]

\* _release_reservations / _release_lease, always with the lease row deleted.
ReleaseClaim(t) ==
  /\ leaseToken' = [leaseToken EXCEPT ![t] = NoToken]
  /\ leaseAge' = [leaseAge EXCEPT ![t] = "live"]
  /\ reserved' = [reserved EXCEPT ![t] = {}]

Goto(t, k, position) == exec' = [exec EXCEPT ![t][k] = position]

Expired(t) == leaseToken[t] # NoToken /\ leaseAge[t] # "live"

Fault == faults < MaxFaults /\ faults' = faults + 1

\* transition_graph_execution: a missing row may be created RUNNING or
\* CANCELLED, another thread may only be rolled over to RUNNING, the same
\* thread obeys the matrix and repeating its state is a no-op.
GraphAccepts(t, k, target) ==
  IF graph[t].state = "NOT_STARTED" THEN target \in {"RUNNING", "CANCELLED"}
  ELSE IF graph[t].thread # k THEN target = "RUNNING"
  ELSE \/ graph[t].state = target
       \/ target \in GRAPH_EXECUTION_TRANSITIONS[graph[t].state]

SetGraph(t, k, target) == graph' = [graph EXCEPT ![t] = [state |-> target, thread |-> k]]

\* The transition, or the ValueError that leaves the row as it is.
TryGraph(t, k, target) ==
  IF GraphAccepts(t, k, target) THEN SetGraph(t, k, target) ELSE UNCHANGED graph

-----------------------------------------------------------------------------
(* The dispatcher's cycle.                                                 *)

DependenciesSatisfied(t) == \A d \in Dependencies[t] : taskState[d] = "COMPLETED"

\* Mutant: settled dependencies are enough.
PromotionOfSettled ==
  {t \in Tasks : /\ taskState[t] = "PENDING"
                 /\ \A d \in Dependencies[t] : taskState[d] \in TerminalTask}

PromotionCandidates == {t \in Tasks : taskState[t] = "PENDING" /\ DependenciesSatisfied(t)}

PromoteDependencyReady ==
  /\ PromotionCandidates # {}
  /\ taskState' = [t \in Tasks |-> IF t \in PromotionCandidates THEN "READY" ELSE taskState[t]]
  /\ UNCHANGED <<claimVars, issued, attempts, graph, exec, cost, runVars, faults, chainsDone>>

BlockedDependents ==
  {t \in Tasks : /\ taskState[t] = "PENDING"
                 /\ \E d \in Dependencies[t] : taskState[d] \in {"FAILED", "CANCELLED"}}

\* One round; the next round sees the tasks this one cancelled.
CancelBlockedDependents ==
  /\ BlockedDependents # {}
  /\ taskState' = [t \in Tasks |-> IF t \in BlockedDependents THEN "CANCELLED" ELSE taskState[t]]
  /\ UNCHANGED <<claimVars, issued, attempts, graph, exec, cost, runVars, faults, chainsDone>>

\* One candidate of the claim_ready transaction.  Once admitted, the
\* conditional inserts of _reserve_with_global_cap succeed (module Admission
\* interleaves them with those of other dispatchers).
ClaimReady(t) ==
  /\ taskState[t] = "READY"
  /\ Admitted(reserved, t)
  /\ issued[t] < MaxLeases
  /\ issued' = [issued EXCEPT ![t] = @ + 1]
  /\ reserved' = [reserved EXCEPT ![t] = ResourceRequest[t]]
  /\ SetTask(t, "LEASED")
  /\ leaseToken' = [leaseToken EXCEPT ![t] = issued[t] + 1]
  /\ leaseAge' = [leaseAge EXCEPT ![t] = "live"]
  /\ Goto(t, issued[t] + 1, "unpublished")
  /\ UNCHANGED <<attempts, graph, cost, runVars, faults, chainsDone>>

\* The dispatch graph publishes the claim to the task-dispatch stream.
Publish(t, k) ==
  /\ exec[t][k] = "unpublished"
  /\ Goto(t, k, "queued")
  /\ UNCHANGED <<taskState, claimVars, issued, attempts, graph, cost, runVars, faults, chainsDone>>

\* One candidate of reclaim_expired, re-verified under its lock pair.
ReclaimExpired(t) ==
  /\ Expired(t)
  /\ taskState[t] # "RUNNING"
  /\ SetTask(t, IF taskState[t] = "LEASED" THEN "READY" ELSE taskState[t])
  /\ ReleaseClaim(t)
  /\ UNCHANGED <<issued, attempts, graph, exec, cost, runVars, faults, chainsDone>>

Decision(t) == Decide(taskState[t], graph[t].state, Expired(t), FALSE)

\* ReconciliationService.reconcile for a task of an unchanged identity.
Reconcile(t) ==
  /\ Decision(t) # "NOOP"
  /\ SetTask(t, TaskAfter(Decision(t), taskState[t]))
  /\ graph' = [graph EXCEPT ![t].state = GraphAfter(Decision(t), @)]
  /\ ReleaseClaim(t)
  /\ UNCHANGED <<issued, attempts, exec, cost, runVars, faults, chainsDone>>

\* The periodic reconciler only visits what its scan finds.
ReconcileDue(t) ==
  /\ \/ InFlightDue(taskState[t], graph[t].state, Expired(t))
     \/ SettledDue(taskState[t], graph[t].state)
  /\ Reconcile(t)

\* Mutant: the listing misses leased tasks.
CancellableUnleased(r) ==
  {t \in Tasks : RunOf[t] = r /\ taskState[t] \notin TerminalTask \cup {"LEASED"}}

\* cancel_requested_runs, run by run: the unlocked listing, one cancel_task
\* transaction per listed task, then the run.  An illegal cancellation aborts
\* the cycle.
Cancellable(r) ==
  {t \in Tasks : RunOf[t] = r /\ taskState[t] \notin TerminalTask}

SweepList(r) ==
  /\ r \in cancelRequested /\ runState[r] \notin TerminalRun /\ sweep.run = NoRun
  /\ sweep' = [run |-> r, todo |-> Cancellable(r)]
  /\ UNCHANGED <<taskState, claimVars, issued, attempts, graph, exec, cost,
                 cancelRequested, runState, faults, chainsDone>>

CancelTaskRow(t) ==
  /\ SetTask(t, "CANCELLED")
  /\ ReleaseClaim(t)

\* Mutant: an illegal cancellation is retried for ever.
SweepCancelRetrying(t) ==
  /\ t \in sweep.todo
  /\ taskState[t] = "CANCELLED" \/ CanBecome(t, "CANCELLED")
  /\ CancelTaskRow(t)
  /\ sweep' = [sweep EXCEPT !.todo = @ \ {t}]
  /\ UNCHANGED <<issued, attempts, graph, exec, cost, cancelRequested, runState,
                 faults, chainsDone>>

SweepCancel(t) ==
  /\ t \in sweep.todo
  /\ IF taskState[t] = "CANCELLED" \/ CanBecome(t, "CANCELLED")
       THEN /\ CancelTaskRow(t)
            /\ sweep' = [sweep EXCEPT !.todo = @ \ {t}]
       ELSE /\ sweep' = Idle
            /\ UNCHANGED <<taskState, claimVars>>
  /\ UNCHANGED <<issued, attempts, graph, exec, cost, cancelRequested, runState,
                 faults, chainsDone>>

SweepFinish ==
  /\ sweep.run # NoRun /\ sweep.todo = {}
  /\ "CANCELLED" \in RUN_TRANSITIONS[runState[sweep.run]]
  /\ runState' = [runState EXCEPT ![sweep.run] = "CANCELLED"]
  /\ sweep' = Idle
  /\ UNCHANGED <<taskState, claimVars, issued, attempts, graph, exec, cost,
                 cancelRequested, faults, chainsDone>>

-----------------------------------------------------------------------------
(* The worker: DispatchedTaskExecutor.execute for message k of task t.     *)

AttemptRows(t) == {k \in Tokens : attempts[t][k] # "NONE"}

\* Mutant: one attempt too many.
ExhaustedBeyond(t) ==
  Cardinality(AttemptRows(t)) > MaxTaskAttempts \/ cost[RunOf[t]] >= MaxRunCost

\* _exhaustion_reason
Exhausted(t) == Cardinality(AttemptRows(t)) >= MaxTaskAttempts \/ cost[RunOf[t]] >= MaxRunCost

HoldsLease(t, k) == leaseToken[t] = k /\ leaseAge[t] = "live"

\* _admit_claim when it grants the execution.
AdmitClaim(t, k) ==
  /\ taskState[t] # "COMPLETED" /\ ~Exhausted(t)
  /\ HoldsLease(t, k) /\ taskState[t] \in {"LEASED", "RUNNING"}
  /\ SetTask(t, "RUNNING")
  /\ attempts' = [attempts EXCEPT ![t][k] = IF @ = "NONE" THEN "RUNNING" ELSE @]
  /\ Goto(t, k, "started")

\* The ceilings are consulted before the lease is.
RefuseClaim(t, k) ==
  /\ taskState[t] # "COMPLETED" /\ Exhausted(t)
  /\ Goto(t, k, "refusing")
  /\ UNCHANGED <<taskState, attempts>>

\* Already COMPLETED, or a missing, mismatched or expired lease.
DropClaim(t, k) ==
  /\ \/ taskState[t] = "COMPLETED"
     \/ ~Exhausted(t) /\ ~(HoldsLease(t, k) /\ taskState[t] \in {"LEASED", "RUNNING"})
  /\ Goto(t, k, "done")
  /\ UNCHANGED <<taskState, attempts>>

StartClaim(t, k) ==
  /\ exec[t][k] = "queued"
  /\ AdmitClaim(t, k) \/ RefuseClaim(t, k) \/ DropClaim(t, k)
  /\ UNCHANGED <<claimVars, issued, graph, cost, runVars, faults, chainsDone>>

\* The refusal, in a transaction of its own after the one that read.
RefuseExhaustedTask(t, k) ==
  /\ exec[t][k] = "refusing"
  /\ IF CanBecome(t, "FAILED")
       THEN SetTask(t, "FAILED") /\ ReleaseClaim(t)
       ELSE UNCHANGED <<taskState, claimVars>>
  /\ Goto(t, k, "done")
  /\ UNCHANGED <<issued, attempts, graph, cost, runVars, faults, chainsDone>>

\* _record_preparation_state(RUNNING): the graph row is created or rolled over.
RecordPreparation(t, k) ==
  /\ exec[t][k] = "started"
  /\ GraphAccepts(t, k, "RUNNING")
  /\ SetGraph(t, k, "RUNNING")
  /\ Goto(t, k, "prepared")
  /\ UNCHANGED <<taskState, claimVars, issued, attempts, cost, runVars, faults, chainsDone>>

\* That write is refused or fails, or the worktree or the node executor cannot
\* be prepared: FAILED is recorded, and when even that is refused the cleanup
\* is given up without finishing the claim.
PreparationFails(t, k) ==
  /\ exec[t][k] \in {"started", "prepared"}
  /\ TryGraph(t, k, "FAILED")
  /\ Goto(t, k, IF GraphAccepts(t, k, "FAILED") THEN "failing" ELSE "done")
  /\ UNCHANGED <<taskState, claimVars, issued, attempts, cost, runVars, faults, chainsDone>>

Active(t) == taskState[t] = "RUNNING" /\ RunOf[t] \notin cancelRequested

\* invoke: the first _assert_active, outside of its exception handlers.
AssertActive(t, k) ==
  /\ exec[t][k] = "prepared"
  /\ Goto(t, k, IF Active(t) THEN "asserted" ELSE "failing")
  /\ UNCHANGED <<taskState, claimVars, issued, attempts, graph, cost, runVars, faults, chainsDone>>

PersistRunning(t, k) ==
  /\ exec[t][k] = "asserted"
  /\ TryGraph(t, k, "RUNNING")
  /\ Goto(t, k, IF GraphAccepts(t, k, "RUNNING") THEN "invoked" ELSE "failing")
  /\ UNCHANGED <<taskState, claimVars, issued, attempts, cost, runVars, faults, chainsDone>>

\* ToolGateway._uncertain writes whatever thread the row currently has.
ToolUncertain(t, k) ==
  /\ ExternalTools
  /\ exec[t][k] = "invoked"
  /\ "NEEDS_RECONCILIATION" \in GRAPH_EXECUTION_TRANSITIONS[graph[t].state]
  /\ graph' = [graph EXCEPT ![t].state = "NEEDS_RECONCILIATION"]
  /\ UNCHANGED <<taskState, claimVars, issued, attempts, exec, cost, runVars, faults, chainsDone>>

Charge(r, c) ==
  cost' = [cost EXCEPT ![r] = IF @ + c < MaxRunCost THEN @ + c ELSE MaxRunCost]

\* ainvoke returns and the second _assert_active decides.
GraphReturns(t, k) ==
  /\ exec[t][k] = "invoked"
  /\ Goto(t, k, IF Active(t) THEN "ran"
                ELSE IF taskState[t] = "CANCELLED" \/ RunOf[t] \in cancelRequested THEN "cancelling"
                ELSE "erring")
  /\ \E c \in CallCosts : Charge(RunOf[t], c)
  /\ UNCHANGED <<taskState, claimVars, issued, attempts, graph, runVars, faults, chainsDone>>

\* A node fails, or notices that its task was cancelled (WorkflowCancelled).
GraphRaises(t, k) ==
  /\ exec[t][k] = "invoked"
  /\ Goto(t, k, "erring")
  /\ \E c \in CallCosts : Charge(RunOf[t], c)
  /\ UNCHANGED <<taskState, claimVars, issued, attempts, graph, runVars, faults, chainsDone>>

PersistCompleted(t, k) ==
  /\ exec[t][k] = "ran"
  /\ TryGraph(t, k, "COMPLETED")
  /\ IF GraphAccepts(t, k, "COMPLETED")
       THEN /\ chainsDone' = [chainsDone EXCEPT ![t] = @ \cup {k}]
            /\ Goto(t, k, "finishing")
       ELSE /\ Goto(t, k, "erring")
            /\ UNCHANGED chainsDone
  /\ UNCHANGED <<taskState, claimVars, issued, attempts, cost, runVars, faults>>

\* The runtime's exception handlers; either way the executor cleans up next.
PersistFailed(t, k) ==
  /\ exec[t][k] = "erring"
  /\ TryGraph(t, k, "FAILED")
  /\ Goto(t, k, "failing")
  /\ UNCHANGED <<taskState, claimVars, issued, attempts, cost, runVars, faults, chainsDone>>

PersistCancelled(t, k) ==
  /\ exec[t][k] = "cancelling"
  /\ TryGraph(t, k, "CANCELLED")
  /\ Goto(t, k, "failing")
  /\ UNCHANGED <<taskState, claimVars, issued, attempts, cost, runVars, faults, chainsDone>>

\* Mutant: a replayed finish also marks its attempt.
FinishReplayedMarking(t, k, target) ==
  /\ taskState[t] = target /\ leaseToken[t] \in {NoToken, k}
  /\ IF leaseToken[t] = k THEN ReleaseClaim(t) ELSE UNCHANGED claimVars
  /\ attempts' = [attempts EXCEPT ![t][k] = target]
  /\ UNCHANGED taskState

\* finish_claim on a task that is already in the target state: a lease that is
\* still there must be the caller's and is released, attempts are left alone.
FinishReplayed(t, k, target) ==
  /\ taskState[t] = target /\ leaseToken[t] \in {NoToken, k}
  /\ IF leaseToken[t] = k THEN ReleaseClaim(t) ELSE UNCHANGED claimVars
  /\ UNCHANGED <<taskState, attempts>>

\* Mutant: the owner of the lease is not checked.
FinishWithoutToken(t, k, target) ==
  /\ taskState[t] # target
  /\ leaseToken[t] # NoToken /\ leaseAge[t] # "lapsed"
  /\ graph[t].state = target
  /\ CanBecome(t, target)
  /\ attempts[t][k] # "NONE"

\* The lease must be the caller's, within one TTL of its expiry, and the graph
\* row must already be in the state the task is to enter.
FinishAllowed(t, k, target) ==
  /\ taskState[t] # target
  /\ leaseToken[t] = k /\ leaseAge[t] # "lapsed"
  /\ graph[t].state = target
  /\ CanBecome(t, target)
  /\ attempts[t][k] # "NONE"

FinishApplied(t, k, target) ==
  /\ FinishAllowed(t, k, target)
  /\ SetTask(t, target)
  /\ attempts' = [attempts EXCEPT ![t][k] = target]
  /\ ReleaseClaim(t)

FinishRefused(t, k, target) ==
  /\ ~FinishAllowed(t, k, target)
  /\ taskState[t] = target => leaseToken[t] \notin {NoToken, k}
  /\ UNCHANGED <<taskState, attempts, claimVars>>

FinishCompleted(t, k) ==
  /\ exec[t][k] = "finishing"
  /\ \/ FinishReplayed(t, k, "COMPLETED") /\ Goto(t, k, "done")
     \/ FinishApplied(t, k, "COMPLETED") /\ Goto(t, k, "done")
     \/ FinishRefused(t, k, "COMPLETED") /\ Goto(t, k, "failing")
  /\ UNCHANGED <<issued, graph, cost, runVars, faults, chainsDone>>

\* The executor's cleanup; a refusal is logged or swallowed.
FinishFailed(t, k) ==
  /\ exec[t][k] = "failing"
  /\ \/ FinishReplayed(t, k, "FAILED")
     \/ FinishApplied(t, k, "FAILED")
     \/ FinishRefused(t, k, "FAILED")
  /\ Goto(t, k, "done")
  /\ UNCHANGED <<issued, graph, cost, runVars, faults, chainsDone>>

\* A heartbeat renews the lease even when it had already expired.
HeartbeatRenews(t, k) ==
  /\ exec[t][k] \in Working
  /\ taskState[t] \notin TerminalTask
  /\ leaseToken[t] = k /\ leaseAge[t] # "live"
  /\ leaseAge' = [leaseAge EXCEPT ![t] = "live"]
  /\ UNCHANGED <<taskState, leaseToken, reserved, issued, attempts, graph, exec,
                 cost, runVars, faults, chainsDone>>

\* A heartbeat that finds the task settled or the lease gone cancels the
\* execution: inside ainvoke the runtime first records CANCELLED.
HeartbeatLost(t, k) ==
  /\ exec[t][k] \in Working
  /\ taskState[t] \in TerminalTask \/ leaseToken[t] # k
  /\ Goto(t, k, IF exec[t][k] \in {"invoked", "ran"} THEN "cancelling" ELSE "failing")
  /\ UNCHANGED <<taskState, claimVars, issued, attempts, graph, cost, runVars,
                 faults, chainsDone>>

-----------------------------------------------------------------------------
(* Time, faults and operators.                                             *)

NextAge(age) == IF age = "live" THEN "expired" ELSE "lapsed"

\* The clock passes the lease's expiry, or one TTL more.  While an execution
\* of that lease waits or works this is a fault: no heartbeat for a whole TTL.
LeaseAges(t) ==
  /\ leaseToken[t] # NoToken /\ leaseAge[t] # "lapsed"
  /\ leaseAge' = [leaseAge EXCEPT ![t] = NextAge(@)]
  /\ IF exec[t][leaseToken[t]] \in Unstarted \cup Working THEN Fault ELSE UNCHANGED faults
  /\ UNCHANGED <<taskState, leaseToken, reserved, issued, attempts, graph, exec,
                 cost, runVars, chainsDone>>

WorkerCrash(t, k) ==
  /\ exec[t][k] \in Working \cup {"refusing", "failing"}
  /\ Fault
  /\ Goto(t, k, "done")
  /\ UNCHANGED <<taskState, claimVars, issued, attempts, graph, cost, runVars, chainsDone>>

\* Redis loses the stream, or the reaper acknowledges a stalled entry.
MessageLost(t, k) ==
  /\ exec[t][k] = "queued"
  /\ Fault
  /\ Goto(t, k, "done")
  /\ UNCHANGED <<taskState, claimVars, issued, attempts, graph, cost, runVars, chainsDone>>

\* A dispatcher restart forgets its unpublished claims and its sweep.
DispatcherCrash ==
  /\ sweep.run # NoRun \/ \E t \in Tasks, k \in Tokens : exec[t][k] = "unpublished"
  /\ Fault
  /\ exec' = [t \in Tasks |-> [k \in Tokens |->
                IF exec[t][k] = "unpublished" THEN "done" ELSE exec[t][k]]]
  /\ sweep' = Idle
  /\ UNCHANGED <<taskState, claimVars, issued, attempts, graph, cost,
                 cancelRequested, runState, chainsDone>>

\* POST /projects/{project}/tasks/{task}/cancel
CancelTask(t) ==
  /\ CanBecome(t, "CANCELLED")
  /\ CancelTaskRow(t)
  /\ UNCHANGED <<issued, attempts, graph, exec, cost, runVars, faults, chainsDone>>

\* POST /runs/{run}/cancel on an EXECUTING run
RequestRunCancel(r) ==
  /\ runState[r] \notin TerminalRun /\ r \notin cancelRequested
  /\ cancelRequested' = cancelRequested \cup {r}
  /\ UNCHANGED <<taskState, claimVars, issued, attempts, graph, exec, cost,
                 runState, sweep, faults, chainsDone>>

\* scripts/reconcile.sh resolve <project> <task> <fail|retry>
ResolveNeedsReconciliation(t, resolution) ==
  /\ ResolutionAccepted(resolution, taskState[t], graph[t].state)
  /\ SetTask(t, ResolvedTask(resolution))
  /\ graph' = [graph EXCEPT ![t].state = ResolvedGraph(resolution)]
  /\ ReleaseClaim(t)
  /\ UNCHANGED <<issued, attempts, exec, cost, runVars, faults, chainsDone>>

-----------------------------------------------------------------------------

ExecStep(t, k) ==
  \/ Publish(t, k) \/ StartClaim(t, k) \/ RefuseExhaustedTask(t, k)
  \/ RecordPreparation(t, k) \/ PreparationFails(t, k)
  \/ AssertActive(t, k) \/ PersistRunning(t, k)
  \/ GraphReturns(t, k) \/ GraphRaises(t, k)
  \/ PersistCompleted(t, k) \/ PersistFailed(t, k) \/ PersistCancelled(t, k)
  \/ FinishCompleted(t, k) \/ FinishFailed(t, k)

WorkerStep(t, k) ==
  \/ ExecStep(t, k) \/ ToolUncertain(t, k)
  \/ HeartbeatRenews(t, k) \/ HeartbeatLost(t, k)
  \/ WorkerCrash(t, k) \/ MessageLost(t, k)

DispatcherStep ==
  \/ PromoteDependencyReady \/ CancelBlockedDependents
  \/ SweepFinish \/ DispatcherCrash
  \/ \E r \in Runs : SweepList(r)
  \/ \E t \in Tasks : \/ ClaimReady(t) \/ ReclaimExpired(t)
                      \/ ReconcileDue(t) \/ SweepCancel(t)

OperatorStep ==
  \/ \E r \in Runs : RequestRunCancel(r)
  \/ \E t \in Tasks : \/ CancelTask(t)
                      \/ Reconcile(t)   \* scripts/reconcile.sh visits every task
                      \/ \E r \in {"fail", "retry"} : ResolveNeedsReconciliation(t, r)

Next ==
  \/ DispatcherStep
  \/ OperatorStep
  \/ \E t \in Tasks : LeaseAges(t)
  \/ \E t \in Tasks, k \in Tokens : WorkerStep(t, k)

Spec == Init /\ [][Next]_vars

-----------------------------------------------------------------------------
(* Safety.                                                                 *)

\* Capacity is neither leaked nor used unaccounted: across claims, finishes,
\* reclaims, refusals, cancellations and reconciliations a task has a lease
\* row exactly while it is LEASED or RUNNING, and holds exactly its admitted
\* reservations exactly while it has a lease.
ClaimConsistency ==
  \A t \in Tasks :
    /\ leaseToken[t] # NoToken <=> taskState[t] \in {"LEASED", "RUNNING"}
    /\ reserved[t] = IF leaseToken[t] # NoToken THEN ResourceRequest[t] ELSE {}

Ledger == INSTANCE CapacityLedger WITH held <- reserved

\* No ceiling of ConcurrencyPolicy is ever exceeded, per project or globally,
\* by the reservations claims take and reclaims, finishes, cancellations and
\* reconciliations give back.
CapacityRespected == Fits(reserved)

\* The task lifecycle implements the abstract account of reservations: only a
\* claim grants one, whole, and whatever ends a lease gives all of it back.
ImplementsLedger == Ledger!LedgerSpec

\* However leases expire, messages linger and tasks are requeued, a task never
\* accumulates more attempt rows than max_task_attempts.
AttemptCeiling == \A t \in Tasks : Cardinality(AttemptRows(t)) <= MaxTaskAttempts

\* A task that left PENDING other than by cancellation has every dependency
\* COMPLETED, and keeps it so whatever reconciliation does to the dependency.
DependencyOrder ==
  \A t \in Tasks : taskState[t] \in {"PENDING", "CANCELLED"} \/ DependenciesSatisfied(t)

\* Success is never inferred: a COMPLETED task has an attempt whose own
\* checkpoint chain was persisted as COMPLETED, even when it was
\* reconciliation that finalized it or a zombie that finished the chain.
SuccessIsBacked ==
  \A t \in Tasks : taskState[t] = "COMPLETED" =>
    \E k \in chainsDone[t] : attempts[t][k] # "NONE"

\* At most one attempt of a task is recorded COMPLETED, and only beside a
\* COMPLETED task: two workers of the same task cannot both win.
SingleWinner ==
  \A t \in Tasks : \A k \in Tokens : attempts[t][k] = "COMPLETED" =>
    /\ taskState[t] = "COMPLETED"
    /\ \A j \in Tokens : attempts[t][j] = "COMPLETED" => j = k

\* The second pass of the reconciler is a no-op (recovery-guide.md): in every
\* reachable state the correction that is due leaves nothing to correct.
ReconcileIdempotent ==
  \A t \in Tasks :
    LET due == Decision(t)
    IN  Decide(TaskAfter(due, taskState[t]), GraphAfter(due, graph[t].state),
               ExpiredAfter(due, Expired(t)), FALSE) = "NOOP"

\* cancel_requested_runs lists tasks without locking them and cancels each in
\* its own transaction, yet a run is CANCELLED only once all its tasks settled.
CancelledRunIsSettled ==
  \A t \in Tasks : runState[RunOf[t]] = "CANCELLED" => taskState[t] \in TerminalTask

\* A settled task never changes state again, whichever of the worker, the
\* dispatcher, the reconciler and the operator acts on it.
TerminalIsFinal ==
  [][\A t \in Tasks : taskState[t] \in TerminalTask => taskState'[t] = taskState[t]]_vars

\* Fencing: once its lease is gone or superseded, a step of an admitted
\* execution no longer moves the task, its lease or its reservations.
StaleExecutionIsFenced ==
  [][\A t \in Tasks, k \in Tokens :
       /\ exec[t][k] \in Working \cup {"failing"}
       /\ exec'[t][k] # exec[t][k]
       /\ leaseToken[t] # k
       => UNCHANGED <<taskState[t], leaseToken[t], reserved[t]>>]_vars

\* A dispatch message whose lease is not the current one changes nothing:
\* start_claim is documented to "validate an exact dispatch lease".
StaleDispatchIsHarmless ==
  [][\A t \in Tasks, k \in Tokens :
       exec'[t][k] # exec[t][k] /\ leaseToken[t] # k
       /\ exec[t][k] \in {"queued", "refusing"}
       => UNCHANGED <<taskState[t], leaseToken[t], reserved[t]>>]_vars

\* "A new lease attempt rolls the execution over to a fresh checkpoint chain":
\* the graph row only ever moves on to the thread of a later attempt.
RolloverIsForward ==
  [][\A t \in Tasks : graph'[t].thread >= graph[t].thread]_vars

\* NEEDS_RECONCILIATION has an exit: "the reconcile CLI's resolve <project>
\* <task> <fail|retry> command provides that exit".
ParkedTaskHasExit ==
  \A t \in Tasks : graph[t].state = "NEEDS_RECONCILIATION" =>
    \E r \in {"fail", "retry"} : ResolutionAccepted(r, taskState[t], graph[t].state)
=============================================================================
