------------------------------ MODULE MCSettles ------------------------------
(***************************************************************************)
(* The liveness of the scheduler for TLC: one task with faults, or a chain  *)
(* of two tasks whose first may complete, fail or be cancelled.             *)
(***************************************************************************)
EXTENDS Integers
CONSTANT NoRun
VARIABLES
  part, taskState, leaseToken, leaseAge, reserved, issued, attempts, graph,
  exec, cost, cancelRequested, runState, sweep, faults, chainsDone

schedulerVars ==
  <<taskState, leaseToken, leaseAge, reserved, issued, attempts, graph,
    exec, cost, cancelRequested, runState, sweep, faults, chainsDone>>

Runs == {"r"}
AllResources == {"task", "model", "sandbox"}

Task == INSTANCE Scheduler WITH
  Tasks <- {"t"}, Projects <- {"p"}, RunOf <- [t \in {"t"} |-> "r"], ProjectOf <- [t \in {"t"} |-> "p"],
  Dependencies <- [t \in {"t"} |-> {}], ResourceRequest <- [t \in {"t"} |-> AllResources],
  MaxParallelTasks <- 1, MaxParallelTasksPerProject <- 1, MaxModelConcurrency <- 1, MaxSandboxConcurrency <- 1,
  MaxTaskAttempts <- 1, MaxRunCost <- 1, CallCosts <- {0}, ExternalTools <- FALSE,
  MaxLeases <- 4, MaxFaults <- 2

Links == {"a", "c"}
Chain == INSTANCE Scheduler WITH
  Tasks <- Links, Projects <- {"p"}, RunOf <- [t \in Links |-> "r"], ProjectOf <- [t \in Links |-> "p"],
  Dependencies <- [t \in Links |-> IF t = "c" THEN {"a"} ELSE {}],
  ResourceRequest <- [t \in Links |-> IF t = "a" THEN AllResources ELSE {"task", "sandbox"}],
  MaxParallelTasks <- 2, MaxParallelTasksPerProject <- 1, MaxModelConcurrency <- 1, MaxSandboxConcurrency <- 1,
  MaxTaskAttempts <- 1, MaxRunCost <- 1, CallCosts <- {0}, ExternalTools <- FALSE,
  MaxLeases <- 2, MaxFaults <- 0

MCInit == (part = "task" /\ Task!Init) \/ (part = "chain" /\ Chain!Init)

MCNext ==
  \/ part = "task" /\ Task!Next /\ UNCHANGED part
  \/ part = "chain" /\ Chain!Next /\ UNCHANGED part

\* The dispatcher repeats its cycle for ever, a consumer group hands every
\* message to some worker, agent budgets bound every execution, heartbeats are
\* periodic and the clock runs on once nobody renews a lease.
TaskFairness ==
  LET on == part = "task" IN
  /\ WF_schedulerVars(on /\ Task!PromoteDependencyReady)
  /\ WF_schedulerVars(on /\ Task!CancelBlockedDependents)
  /\ WF_schedulerVars(on /\ Task!SweepFinish) /\ WF_schedulerVars(on /\ Task!SweepList("r"))
  /\ \A t \in {"t"} :
       /\ WF_schedulerVars(on /\ Task!ClaimReady(t)) /\ WF_schedulerVars(on /\ Task!ReclaimExpired(t))
       /\ WF_schedulerVars(on /\ Task!ReconcileDue(t)) /\ WF_schedulerVars(on /\ Task!SweepCancel(t))
       /\ WF_schedulerVars(on /\ Task!LeaseAges(t))
       /\ \A k \in 1..4 :
            WF_schedulerVars(on /\ Task!ExecStep(t, k)) /\ WF_schedulerVars(on /\ Task!HeartbeatLost(t, k))

ChainFairness ==
  LET on == part = "chain" IN
  /\ WF_schedulerVars(on /\ Chain!PromoteDependencyReady)
  /\ WF_schedulerVars(on /\ Chain!CancelBlockedDependents)
  /\ WF_schedulerVars(on /\ Chain!SweepFinish) /\ WF_schedulerVars(on /\ Chain!SweepList("r"))
  /\ \A t \in Links :
       /\ WF_schedulerVars(on /\ Chain!ClaimReady(t)) /\ WF_schedulerVars(on /\ Chain!ReclaimExpired(t))
       /\ WF_schedulerVars(on /\ Chain!ReconcileDue(t)) /\ WF_schedulerVars(on /\ Chain!SweepCancel(t))
       /\ WF_schedulerVars(on /\ Chain!LeaseAges(t))
       /\ \A k \in 1..2 :
            WF_schedulerVars(on /\ Chain!ExecStep(t, k)) /\ WF_schedulerVars(on /\ Chain!HeartbeatLost(t, k))

MCSpec == MCInit /\ [][MCNext]_<<part, schedulerVars>> /\ TaskFairness /\ ChainFairness

-----------------------------------------------------------------------------

\* No crash, lost message, missed heartbeat or divergence wedges a task, and neither
\* does a dependency that fails or is cancelled: with finitely many faults every task
\* settles.
EveryTaskSettles == <>(\A t \in DOMAIN taskState : taskState[t] \in Task!TerminalTask)

\* A requested run cancellation is eventually carried out, although a task
\* that settles under the sweep makes it abort and start over.
CancellationCompletes ==
  \A r \in Runs : r \in cancelRequested ~> runState[r] = "CANCELLED"
=============================================================================
