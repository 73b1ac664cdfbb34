---------------------------- MODULE SchedulerProofs ----------------------------
(***************************************************************************)
(* Safety of the task lifecycle for any number of runs, tasks, leases and  *)
(* faults, and any dependency graph and policy.                            *)
(***************************************************************************)
EXTENDS Scheduler, CapacityProofs

-----------------------------------------------------------------------------
(* What the decision table guarantees for every pair of states a task and  *)
(* its graph row can be in, reachable or not.                              *)

\* A correction is settled by one pass: decided again on what it wrote, with
\* the lease released, the table answers NOOP (scripts/reconcile.sh run twice).
THEOREM DecideIsIdempotent ==
  ASSUME NEW task \in TaskStatus, NEW g \in GraphExecutionState, NEW expired \in BOOLEAN
  PROVE  LET a == Decide(task, g, expired, FALSE)
         IN  Decide(TaskAfter(a, task), GraphAfter(a, g), ExpiredAfter(a, expired), FALSE)
               = "NOOP"
<1>1. CASE task \in TerminalTask
  BY <1>1 DEF Decide, DecideTerminal, DecideRunning, TaskAfter, GraphAfter, ExpiredAfter,
    TerminalTask, TerminalGraph, TaskStatus, GraphExecutionState
<1>2. CASE task = "RUNNING"
  <2>1. CASE g \in {"NEEDS_RECONCILIATION", "CANCELLED", "NOT_STARTED", "COMPLETED"}
    BY <1>2, <2>1 DEF Decide, DecideTerminal, DecideRunning, TaskAfter, GraphAfter,
      ExpiredAfter, TerminalTask, TerminalGraph, TaskStatus, GraphExecutionState
  <2>2. CASE g \notin {"NEEDS_RECONCILIATION", "CANCELLED", "NOT_STARTED", "COMPLETED"}
    BY <1>2, <2>2 DEF Decide, DecideTerminal, DecideRunning, TaskAfter, GraphAfter,
      ExpiredAfter, TerminalTask, TerminalGraph, TaskStatus, GraphExecutionState
  <2> QED BY <2>1, <2>2, Zenon
<1>3. CASE task \in {"PENDING", "READY", "LEASED", "BLOCKED"}
  BY <1>3 DEF Decide, DecideTerminal, DecideRunning, TaskAfter, GraphAfter, ExpiredAfter,
    TerminalTask, TerminalGraph, TaskStatus, GraphExecutionState
<1> QED BY <1>1, <1>2, <1>3, Zenon DEF TaskStatus, TerminalTask

\* A correction obeys TASK_TRANSITIONS although it writes the row directly: it
\* leaves a settled task alone and otherwise takes a legal transition out of
\* the leased states, so that releasing the lease with it is sound.
THEOREM DecisionIsLegal ==
  ASSUME NEW task \in TaskStatus, NEW g \in GraphExecutionState, NEW expired \in BOOLEAN,
         NEW a, a = Decide(task, g, expired, FALSE), a # "NOOP"
  PROVE  /\ TaskAfter(a, task) \notin {"LEASED", "RUNNING", "PENDING"}
         /\ \/ task \in TerminalTask /\ TaskAfter(a, task) = task
            \/ TaskAfter(a, task) \in TASK_TRANSITIONS[task]
         /\ task = "PENDING" => TaskAfter(a, task) = "CANCELLED"
<1>1. CASE task \in TerminalTask
  BY <1>1 DEF Decide, DecideTerminal, TaskAfter, TerminalTask
<1>2. CASE task = "RUNNING"
  BY <1>2 DEF Decide, DecideRunning, TaskAfter, TerminalTask, TASK_TRANSITIONS, TaskStatus
<1>3. CASE task \in {"PENDING", "READY", "LEASED", "BLOCKED"}
  BY <1>3 DEF Decide, TaskAfter, TerminalTask, TASK_TRANSITIONS, TaskStatus
<1> QED BY <1>1, <1>2, <1>3, Zenon DEF TaskStatus, TerminalTask

-----------------------------------------------------------------------------
(* Type correctness.                                                       *)

LEMMA DecisionTypes ==
  ASSUME NEW task \in TaskStatus, NEW g \in GraphExecutionState,
         NEW a \in ReconciliationAction
  PROVE  /\ TaskAfter(a, task) \in TaskStatus
         /\ GraphAfter(a, g) \in GraphExecutionState
BY DEF TaskAfter, GraphAfter, TaskStatus, GraphExecutionState, ReconciliationAction,
       TerminalTask

LEMMA DecideType ==
  ASSUME NEW task, NEW g, NEW expired, NEW mismatch
  PROVE  Decide(task, g, expired, mismatch) \in ReconciliationAction
BY DEF Decide, DecideTerminal, DecideRunning, ReconciliationAction

LEMMA InitType == Init => TypeOK
BY SchedulerAssumption
DEF Init, TypeOK, Idle, TaskStatus, Ages, AttemptStatus, GraphExecutionState, Positions,
    Tokens, NoToken, Empty, Accounts

LEMMA ReleaseType ==
  ASSUME NEW t \in Tasks, TypeOK, ReleaseClaim(t)
  PROVE  /\ leaseToken' \in [Tasks -> Tokens \cup {NoToken}]
         /\ leaseAge' \in [Tasks -> Ages]
         /\ reserved' \in Accounts
BY DEF ReleaseClaim, TypeOK, Ages, Accounts

LEMMA GotoType ==
  ASSUME NEW t \in Tasks, NEW k \in Tokens, NEW p \in Positions, TypeOK, Goto(t, k, p)
  PROVE  exec' \in [Tasks -> [Tokens -> Positions]]
BY DEF Goto, TypeOK

LEMMA SetGraphType ==
  ASSUME NEW t \in Tasks, NEW k \in Tokens, NEW g \in GraphExecutionState, TypeOK,
         SetGraph(t, k, g)
  PROVE  graph' \in [Tasks -> [state : GraphExecutionState, thread : Tokens \cup {NoToken}]]
<1>1. [state |-> g, thread |-> k] \in [state : GraphExecutionState, thread : Tokens \cup {NoToken}]
  OBVIOUS
<1> QED BY <1>1 DEF SetGraph, TypeOK

LEMMA TryGraphType ==
  ASSUME NEW t \in Tasks, NEW k \in Tokens, NEW g \in GraphExecutionState, TypeOK,
         TryGraph(t, k, g)
  PROVE  graph' \in [Tasks -> [state : GraphExecutionState, thread : Tokens \cup {NoToken}]]
<1>1. CASE GraphAccepts(t, k, g)
  BY <1>1, SetGraphType DEF TryGraph
<1>2. CASE ~GraphAccepts(t, k, g)
  BY <1>2 DEF TryGraph, TypeOK
<1> QED BY <1>1, <1>2

LEMMA PreparationIsATry ==
  ASSUME NEW t \in Tasks, NEW k \in Tokens, RecordPreparation(t, k)
  PROVE  TryGraph(t, k, "RUNNING")
BY DEF RecordPreparation, TryGraph

LEMMA GraphStateType ==
  ASSUME NEW t \in Tasks, NEW g \in GraphExecutionState, TypeOK,
         graph' = [graph EXCEPT ![t].state = g]
  PROVE  graph' \in [Tasks -> [state : GraphExecutionState, thread : Tokens \cup {NoToken}]]
<1>1. graph[t] \in [state : GraphExecutionState, thread : Tokens \cup {NoToken}]
  BY DEF TypeOK
<1>2. [graph[t] EXCEPT !.state = g]
        \in [state : GraphExecutionState, thread : Tokens \cup {NoToken}]
  BY <1>1
<1>3. graph' = [graph EXCEPT ![t] = [graph[t] EXCEPT !.state = g]]
  OBVIOUS
<1> QED BY <1>2, <1>3 DEF TypeOK

LEMMA SetTaskType ==
  ASSUME NEW t \in Tasks, NEW target \in TaskStatus, TypeOK, SetTask(t, target)
  PROVE  taskState' \in [Tasks -> TaskStatus]
BY DEF SetTask, TypeOK

LEMMA ChargeType ==
  ASSUME NEW r \in Runs, NEW c \in CallCosts, TypeOK, Charge(r, c)
  PROVE  cost' \in [Runs -> 0..MaxRunCost]
BY SchedulerAssumption DEF Charge, TypeOK

LEMMA TypeStep == TypeOK /\ [Next]_vars => TypeOK'
<1> SUFFICES ASSUME TypeOK, [Next]_vars PROVE TypeOK'
  OBVIOUS
<1> USE SchedulerAssumption, CapacityAssumption DEF claimVars, runVars
<1>p. {"none", "refusing", "failing", "done", "unpublished", "queued", "started", "prepared",
         "asserted", "invoked", "ran", "erring", "cancelling", "finishing"} \subseteq Positions
  BY DEF Positions, Unstarted, Working
<1>r. ASSUME NEW t \in Tasks, Reconcile(t) PROVE TypeOK'
  <2>1. Decision(t) \in ReconciliationAction
    BY DecideType, Zenon DEF Decision
  <2>2. /\ TaskAfter(Decision(t), taskState[t]) \in TaskStatus
        /\ GraphAfter(Decision(t), graph[t].state) \in GraphExecutionState
    BY <2>1, DecisionTypes DEF TypeOK
  <2>3. graph' = [graph EXCEPT ![t].state = GraphAfter(Decision(t), graph[t].state)]
    BY <1>r DEF Reconcile, TypeOK
  <2> QED BY <1>r, <2>2, <2>3, ReleaseType, SetTaskType, GraphStateType, ZenonT(20)
    DEF Reconcile, TypeOK, runVars
<1>1. ASSUME PromoteDependencyReady PROVE TypeOK'
  BY <1>1 DEF PromoteDependencyReady, PromotionCandidates, TaskStatus, TypeOK
<1>2. ASSUME CancelBlockedDependents PROVE TypeOK'
  BY <1>2 DEF CancelBlockedDependents, BlockedDependents, TaskStatus, TypeOK
<1>3. ASSUME SweepFinish PROVE TypeOK'
  BY <1>3 DEF SweepFinish, Idle, TypeOK
<1>4. ASSUME DispatcherCrash PROVE TypeOK'
  BY <1>4 DEF DispatcherCrash, Idle, Fault, Positions, TypeOK
<1>5. ASSUME NEW r \in Runs, SweepList(r) PROVE TypeOK'
  BY <1>5 DEF SweepList, Cancellable, TypeOK
<1>6. ASSUME NEW t \in Tasks, ClaimReady(t) PROVE TypeOK'
  <2>1. issued[t] + 1 \in Tokens /\ issued' \in [Tasks -> 0..MaxLeases]
    BY <1>6 DEF ClaimReady, Tokens, TypeOK
  <2>2. exec' \in [Tasks -> [Tokens -> Positions]]
    BY <1>6, <1>p, <2>1, GotoType DEF ClaimReady
  <2>3. taskState' \in [Tasks -> TaskStatus]
    BY <1>6, SetTaskType DEF ClaimReady, TaskStatus
  <2>4. reserved' \in Accounts
    BY <1>6 DEF ClaimReady, Accounts, TypeOK
  <2>5. leaseToken' \in [Tasks -> Tokens \cup {NoToken}] /\ leaseAge' \in [Tasks -> Ages]
    BY <1>6, <2>1 DEF ClaimReady, Ages, TypeOK
  <2> QED BY <1>6, <2>1, <2>2, <2>3, <2>4, <2>5 DEF ClaimReady, TypeOK
<1>7. ASSUME NEW t \in Tasks, ReclaimExpired(t) PROVE TypeOK'
  BY <1>7, ReleaseType, Zenon DEF ReclaimExpired, SetTask, TaskStatus, TypeOK
<1>8. ASSUME NEW t \in Tasks, ReconcileDue(t) PROVE TypeOK'
  BY <1>8, <1>r DEF ReconcileDue
<1>9. ASSUME NEW t \in Tasks, SweepCancel(t) PROVE TypeOK'
  <2>1. CASE taskState[t] = "CANCELLED" \/ CanBecome(t, "CANCELLED")
    <3>1. CancelTaskRow(t) /\ sweep' = [sweep EXCEPT !.todo = @ \ {t}]
      BY <1>9, <2>1 DEF SweepCancel
    <3>2. taskState' \in [Tasks -> TaskStatus]
      BY <3>1, SetTaskType DEF CancelTaskRow, TaskStatus
    <3> QED BY <1>9, <3>1, <3>2, ReleaseType, Zenon DEF SweepCancel, CancelTaskRow, TypeOK
  <2>2. CASE ~(taskState[t] = "CANCELLED" \/ CanBecome(t, "CANCELLED"))
    BY <1>9, <2>2 DEF SweepCancel, Idle, TypeOK
  <2> QED BY <2>1, <2>2
<1>10. ASSUME NEW r \in Runs, RequestRunCancel(r) PROVE TypeOK'
  BY <1>10 DEF RequestRunCancel, TypeOK
<1>11. ASSUME NEW t \in Tasks, CancelTask(t) PROVE TypeOK'
  BY <1>11, ReleaseType, Zenon DEF CancelTask, CancelTaskRow, SetTask, TaskStatus, TypeOK
<1>12. ASSUME NEW t \in Tasks, NEW r \in {"fail", "retry"}, ResolveNeedsReconciliation(t, r) PROVE TypeOK'
  BY <1>12, ReleaseType, GraphStateType, SetTaskType, Zenon DEF ResolveNeedsReconciliation,
    ResolvedTask, ResolvedGraph, TaskStatus, GraphExecutionState, TypeOK
<1>13. ASSUME NEW t \in Tasks, LeaseAges(t) PROVE TypeOK'
  BY <1>13 DEF LeaseAges, Fault, NextAge, Ages, TypeOK
<1>14. ASSUME NEW t \in Tasks, NEW k \in Tokens, Publish(t, k) PROVE TypeOK'
  BY <1>14, <1>p, GotoType, Zenon DEF Publish, TypeOK
<1>15. ASSUME NEW t \in Tasks, NEW k \in Tokens, StartClaim(t, k) PROVE TypeOK'
  <2>1. exec' \in [Tasks -> [Tokens -> Positions]]
    BY <1>15, <1>p, GotoType DEF StartClaim, AdmitClaim, RefuseClaim, DropClaim
  <2>2. CASE AdmitClaim(t, k)
    <3>1. taskState' \in [Tasks -> TaskStatus]
      BY <2>2, SetTaskType DEF AdmitClaim, TaskStatus
    <3>2. attempts' \in [Tasks -> [Tokens -> AttemptStatus]]
      BY <2>2 DEF AdmitClaim, TypeOK, AttemptStatus
    <3> QED BY <1>15, <2>1, <3>1, <3>2 DEF StartClaim, TypeOK
  <2>3. CASE RefuseClaim(t, k) \/ DropClaim(t, k)
    BY <1>15, <2>1, <2>3 DEF StartClaim, RefuseClaim, DropClaim, TypeOK
  <2> QED BY <1>15, <2>2, <2>3 DEF StartClaim
<1>16. ASSUME NEW t \in Tasks, NEW k \in Tokens, RefuseExhaustedTask(t, k) PROVE TypeOK'
  BY <1>16, <1>p, GotoType, ReleaseType, Zenon DEF RefuseExhaustedTask, SetTask, TaskStatus, TypeOK
<1>17. ASSUME NEW t \in Tasks, NEW k \in Tokens, RecordPreparation(t, k) PROVE TypeOK'
  BY <1>17, <1>p, GotoType, PreparationIsATry, TryGraphType, Zenon
  DEF RecordPreparation, GraphExecutionState, TypeOK
<1>18. ASSUME NEW t \in Tasks, NEW k \in Tokens, PreparationFails(t, k) PROVE TypeOK'
  BY <1>18, <1>p, GotoType, TryGraphType, Zenon DEF PreparationFails, GraphExecutionState, TypeOK
<1>19. ASSUME NEW t \in Tasks, NEW k \in Tokens, PersistRunning(t, k) PROVE TypeOK'
  BY <1>19, <1>p, GotoType, TryGraphType, Zenon DEF PersistRunning, GraphExecutionState, TypeOK
<1>20. ASSUME NEW t \in Tasks, NEW k \in Tokens, PersistFailed(t, k) PROVE TypeOK'
  BY <1>20, <1>p, GotoType, TryGraphType, Zenon DEF PersistFailed, GraphExecutionState, TypeOK
<1>21. ASSUME NEW t \in Tasks, NEW k \in Tokens, PersistCancelled(t, k) PROVE TypeOK'
  BY <1>21, <1>p, GotoType, TryGraphType, Zenon DEF PersistCancelled, GraphExecutionState, TypeOK
<1>22. ASSUME NEW t \in Tasks, NEW k \in Tokens, PersistCompleted(t, k) PROVE TypeOK'
  <2>1. exec' \in [Tasks -> [Tokens -> Positions]]
    BY <1>22, <1>p, GotoType, Zenon DEF PersistCompleted
  <2>2. graph' \in [Tasks -> [state : GraphExecutionState, thread : Tokens \cup {NoToken}]]
    BY <1>22, TryGraphType DEF PersistCompleted, GraphExecutionState
  <2>3. chainsDone' \in [Tasks -> SUBSET Tokens]
    <3>1. \/ chainsDone' = [chainsDone EXCEPT ![t] = chainsDone[t] \cup {k}]
          \/ UNCHANGED chainsDone
      BY <1>22 DEF PersistCompleted, TypeOK
    <3>2. chainsDone[t] \cup {k} \in SUBSET Tokens
      BY DEF TypeOK
    <3>3. chainsDone \in [Tasks -> SUBSET Tokens]
      BY DEF TypeOK
    <3>4. CASE chainsDone' = [chainsDone EXCEPT ![t] = chainsDone[t] \cup {k}]
      BY <3>2, <3>3, <3>4
    <3>5. CASE UNCHANGED chainsDone
      BY <3>3, <3>5
    <3> QED BY <3>1, <3>4, <3>5
  <2> QED BY <1>22, <2>1, <2>2, <2>3 DEF PersistCompleted, TypeOK
<1>23. ASSUME NEW t \in Tasks, NEW k \in Tokens, AssertActive(t, k) PROVE TypeOK'
  BY <1>23, <1>p, GotoType, Zenon DEF AssertActive, TypeOK
<1>24. ASSUME NEW t \in Tasks, NEW k \in Tokens, GraphReturns(t, k) PROVE TypeOK'
  BY <1>24, <1>p, GotoType, ChargeType, Zenon DEF GraphReturns, TypeOK
<1>25. ASSUME NEW t \in Tasks, NEW k \in Tokens, GraphRaises(t, k) PROVE TypeOK'
  BY <1>25, <1>p, GotoType, ChargeType, Zenon DEF GraphRaises, TypeOK
<1>26. ASSUME NEW t \in Tasks, NEW k \in Tokens, FinishCompleted(t, k) PROVE TypeOK'
  <2>1. exec' \in [Tasks -> [Tokens -> Positions]]
    BY <1>26, <1>p, GotoType DEF FinishCompleted
  <2>2. CASE FinishReplayed(t, k, "COMPLETED") \/ FinishRefused(t, k, "COMPLETED")
    BY <1>26, <2>1, <2>2, ReleaseType, Zenon DEF FinishCompleted, FinishReplayed, FinishRefused, TypeOK
  <2>3. CASE FinishApplied(t, k, "COMPLETED")
    <3>1. taskState' \in [Tasks -> TaskStatus]
      BY <2>3, SetTaskType DEF FinishApplied, TaskStatus
    <3>2. attempts' \in [Tasks -> [Tokens -> AttemptStatus]]
      BY <2>3 DEF FinishApplied, TypeOK, AttemptStatus
    <3> QED BY <1>26, <2>1, <2>3, <3>1, <3>2, ReleaseType, Zenon DEF FinishCompleted, FinishApplied, TypeOK
  <2> QED BY <1>26, <2>2, <2>3 DEF FinishCompleted
<1>27. ASSUME NEW t \in Tasks, NEW k \in Tokens, FinishFailed(t, k) PROVE TypeOK'
  <2>1. exec' \in [Tasks -> [Tokens -> Positions]]
    BY <1>27, <1>p, GotoType DEF FinishFailed
  <2>2. CASE FinishReplayed(t, k, "FAILED") \/ FinishRefused(t, k, "FAILED")
    BY <1>27, <2>1, <2>2, ReleaseType, Zenon DEF FinishFailed, FinishReplayed, FinishRefused, TypeOK
  <2>3. CASE FinishApplied(t, k, "FAILED")
    <3>1. taskState' \in [Tasks -> TaskStatus]
      BY <2>3, SetTaskType DEF FinishApplied, TaskStatus
    <3>2. attempts' \in [Tasks -> [Tokens -> AttemptStatus]]
      BY <2>3 DEF FinishApplied, TypeOK, AttemptStatus
    <3> QED BY <1>27, <2>1, <2>3, <3>1, <3>2, ReleaseType, Zenon DEF FinishFailed, FinishApplied, TypeOK
  <2> QED BY <1>27, <2>2, <2>3 DEF FinishFailed
<1>28. ASSUME NEW t \in Tasks, NEW k \in Tokens, ToolUncertain(t, k) PROVE TypeOK'
  BY <1>28, GraphStateType, Zenon DEF ToolUncertain, GraphExecutionState, TypeOK
<1>29. ASSUME NEW t \in Tasks, NEW k \in Tokens, HeartbeatRenews(t, k) PROVE TypeOK'
  BY <1>29 DEF HeartbeatRenews, Ages, TypeOK
<1>30. ASSUME NEW t \in Tasks, NEW k \in Tokens, HeartbeatLost(t, k) PROVE TypeOK'
  BY <1>30, <1>p, GotoType, Zenon DEF HeartbeatLost, TypeOK
<1>31. ASSUME NEW t \in Tasks, NEW k \in Tokens, WorkerCrash(t, k) PROVE TypeOK'
  <2>1. exec' \in [Tasks -> [Tokens -> Positions]]
    BY <1>31, <1>p, GotoType DEF WorkerCrash
  <2>2. faults' \in 0..MaxFaults
    BY <1>31, SMTT(20) DEF WorkerCrash, Fault, TypeOK
  <2> QED BY <1>31, <2>1, <2>2 DEF WorkerCrash, TypeOK
<1>32. ASSUME NEW t \in Tasks, NEW k \in Tokens, MessageLost(t, k) PROVE TypeOK'
  <2>1. exec' \in [Tasks -> [Tokens -> Positions]]
    BY <1>32, <1>p, GotoType DEF MessageLost
  <2>2. faults' \in 0..MaxFaults
    BY <1>32, SMTT(20) DEF MessageLost, Fault, TypeOK
  <2> QED BY <1>32, <2>1, <2>2 DEF MessageLost, TypeOK
<1>33. CASE UNCHANGED vars
  BY <1>33 DEF vars, TypeOK
<1> QED
  BY <1>r, <1>1, <1>2, <1>3, <1>4, <1>5, <1>6, <1>7, <1>8, <1>9, <1>10, <1>11, <1>12, <1>13, <1>14, <1>15, <1>16, <1>17, <1>18, <1>19, <1>20, <1>21, <1>22, <1>23, <1>24, <1>25, <1>26, <1>27, <1>28, <1>29, <1>30, <1>31, <1>32, <1>33
  DEF Next, DispatcherStep, OperatorStep, WorkerStep, ExecStep

\* Every column of every row keeps to its vocabulary, whatever interleaves.
THEOREM TypeCorrect == Spec => []TypeOK
<1>1. TypeOK /\ [Next]_vars => TypeOK'
  BY TypeStep
<1> QED BY InitType, <1>1, PTL DEF Spec

-----------------------------------------------------------------------------
(* The safety properties of the task lifecycle.  Everything the many       *)
(* transactions do to a task row, its lease and its reservations is one of *)
(* five effects; the invariants follow from the effects.                   *)

\* A task is left in a state without a lease and gives its claim back.
Ends(t, x) ==
  /\ x \in {"READY", "BLOCKED", "COMPLETED", "FAILED", "CANCELLED"}
  /\ \/ taskState[t] \in TerminalTask /\ x = taskState[t]
     \/ x \in TASK_TRANSITIONS[taskState[t]]
  /\ x = "READY" => taskState[t] # "PENDING"
  /\ SetTask(t, x)
  /\ ReleaseClaim(t)

\* A leased task is started, its claim kept.
Starts(t) ==
  /\ taskState[t] \in {"LEASED", "RUNNING"}
  /\ SetTask(t, "RUNNING")
  /\ UNCHANGED <<leaseToken, reserved>>

\* Pending tasks become ready or are cancelled, a whole set at a time.
Leaves(S, x) ==
  /\ \/ x = "READY" /\ \A t \in S : DependenciesSatisfied(t)
     \/ x = "CANCELLED"
  /\ \A t \in S : taskState[t] = "PENDING"
  /\ taskState' = [t \in Tasks |-> IF t \in S THEN x ELSE taskState[t]]
  /\ UNCHANGED <<leaseToken, reserved>>

Effect ==
  \/ UNCHANGED <<taskState, leaseToken, reserved>>
  \/ \E t \in Tasks, x \in TaskStatus : Ends(t, x)
  \/ \E t \in Tasks : Starts(t)
  \/ \E t \in Tasks : ClaimReady(t)
  \/ \E S \in SUBSET Tasks, x \in TaskStatus : Leaves(S, x)

\* Nothing has happened to a task whose dependencies have not been met: it has
\* no graph row and no message, which keeps resolutions away from it.
PendingIsUntouched ==
  \A t \in Tasks : taskState[t] = "PENDING" =>
    graph[t].state = "NOT_STARTED" /\ \A k \in Tokens : exec[t][k] = "none"

LEMMA TerminalHasNoExit ==
  ASSUME NEW s \in TerminalTask
  PROVE  TASK_TRANSITIONS[s] = {} /\ s \in TaskStatus
BY DEF TASK_TRANSITIONS, TerminalTask, TaskStatus

LEMMA EveryStateCanBeCancelled ==
  ASSUME NEW t \in Tasks, TypeOK, taskState[t] = "CANCELLED" \/ CanBecome(t, "CANCELLED"),
         CancelTaskRow(t)
  PROVE  Ends(t, "CANCELLED")
BY DEF Ends, CancelTaskRow, CanBecome, TerminalTask

LEMMA FinishEffect ==
  ASSUME NEW t \in Tasks, NEW k \in Tokens, NEW target \in {"COMPLETED", "FAILED"}, TypeOK,
         \/ FinishReplayed(t, k, target)
         \/ FinishApplied(t, k, target)
         \/ FinishRefused(t, k, target)
  PROVE  Effect
<1>1. CASE FinishReplayed(t, k, target) /\ leaseToken[t] = k
  <2>1. Ends(t, target)
    BY <1>1, Zenon DEF FinishReplayed, Ends, TerminalTask, SetTask, TypeOK
  <2> QED BY <2>1 DEF Effect, TaskStatus
<1>2. CASE FinishReplayed(t, k, target) /\ leaseToken[t] # k
  BY <1>2, Zenon DEF FinishReplayed, claimVars, Effect
<1>3. CASE FinishApplied(t, k, target)
  <2>1. Ends(t, target)
    BY <1>3 DEF FinishApplied, FinishAllowed, CanBecome, Ends
  <2> QED BY <2>1 DEF Effect, TaskStatus
<1>4. CASE FinishRefused(t, k, target)
  BY <1>4, Zenon DEF FinishRefused, claimVars, Effect
<1> QED BY <1>1, <1>2, <1>3, <1>4

(* The actions that leave task, lease, reservations and attempts alone.    *)
LEMMA QuietExecution ==
  ASSUME NEW t \in Tasks, NEW k \in Tokens,
         \/ Publish(t, k) \/ RecordPreparation(t, k) \/ PreparationFails(t, k)
         \/ AssertActive(t, k) \/ PersistRunning(t, k) \/ GraphReturns(t, k)
         \/ GraphRaises(t, k) \/ PersistCompleted(t, k) \/ PersistFailed(t, k)
         \/ PersistCancelled(t, k) \/ ToolUncertain(t, k) \/ HeartbeatRenews(t, k)
         \/ HeartbeatLost(t, k) \/ WorkerCrash(t, k) \/ MessageLost(t, k)
  PROVE  UNCHANGED <<taskState, leaseToken, reserved, attempts>>
BY DEF Publish, RecordPreparation, PreparationFails, AssertActive, PersistRunning,
  GraphReturns, GraphRaises, PersistCompleted, PersistFailed, PersistCancelled,
  ToolUncertain, HeartbeatRenews, HeartbeatLost, WorkerCrash, MessageLost, claimVars

LEMMA QuietSteps ==
  ASSUME \/ \E t \in Tasks : LeaseAges(t)
         \/ \E r \in Runs : SweepList(r) \/ RequestRunCancel(r)
         \/ SweepFinish \/ DispatcherCrash \/ UNCHANGED vars
  PROVE  UNCHANGED <<taskState, leaseToken, reserved, attempts>>
BY DEF SweepList, SweepFinish, DispatcherCrash, LeaseAges, RequestRunCancel, claimVars, vars

LEMMA ReconcileEffect ==
  ASSUME NEW t \in Tasks, TypeOK, Reconcile(t)
  PROVE  Ends(t, TaskAfter(Decision(t), taskState[t]))
<1>1. /\ taskState[t] \in TaskStatus /\ graph[t].state \in GraphExecutionState
      /\ Expired(t) \in BOOLEAN
  BY DEF TypeOK, Expired
<1>2. /\ Decision(t) # "NOOP"
      /\ SetTask(t, TaskAfter(Decision(t), taskState[t])) /\ ReleaseClaim(t)
  BY DEF Reconcile
<1>3. TaskAfter(Decision(t), taskState[t]) \in TaskStatus
  BY <1>1, DecideType, DecisionTypes, Zenon DEF Decision
<1>4. /\ TaskAfter(Decision(t), taskState[t]) \notin {"LEASED", "RUNNING", "PENDING"}
      /\ \/ taskState[t] \in TerminalTask /\ TaskAfter(Decision(t), taskState[t]) = taskState[t]
         \/ TaskAfter(Decision(t), taskState[t]) \in TASK_TRANSITIONS[taskState[t]]
      /\ taskState[t] = "PENDING" => TaskAfter(Decision(t), taskState[t]) = "CANCELLED"
  BY <1>1, <1>2, DecisionIsLegal, Zenon DEF Decision
<1> QED BY <1>2, <1>3, <1>4 DEF Ends, TaskStatus

LEMMA Effects ==
  ASSUME TypeOK, ClaimConsistency, PendingIsUntouched, [Next]_vars
  PROVE  Effect
<1>1. ASSUME NEW t \in Tasks, Reconcile(t) PROVE Effect
  <2>1. TaskAfter(Decision(t), taskState[t]) \in TaskStatus
    BY DecideType, DecisionTypes, Zenon DEF Decision, TypeOK
  <2> QED BY <1>1, <2>1, ReconcileEffect DEF Effect
<1>2. ASSUME PromoteDependencyReady PROVE Effect
  <2>1. Leaves(PromotionCandidates, "READY")
    BY <1>2 DEF PromoteDependencyReady, PromotionCandidates, Leaves, claimVars
  <2> QED BY <2>1 DEF Effect, PromotionCandidates, TaskStatus
<1>3. ASSUME CancelBlockedDependents PROVE Effect
  <2>1. Leaves(BlockedDependents, "CANCELLED")
    BY <1>3 DEF CancelBlockedDependents, BlockedDependents, Leaves, claimVars
  <2> QED BY <2>1 DEF Effect, BlockedDependents, TaskStatus
<1>4. ASSUME NEW t \in Tasks, ClaimReady(t) PROVE Effect
  BY <1>4 DEF Effect
<1>5. ASSUME NEW t \in Tasks, ReclaimExpired(t) PROVE Effect
  <2>1. taskState[t] = "LEASED"
    BY <1>5 DEF ReclaimExpired, Expired, ClaimConsistency
  <2>2. "READY" \in TASK_TRANSITIONS["LEASED"]
    BY DEF TASK_TRANSITIONS, TaskStatus
  <2>3. Ends(t, "READY")
    BY <1>5, <2>1, <2>2 DEF ReclaimExpired, Ends
  <2> QED BY <2>3 DEF Effect, TaskStatus
<1>6. ASSUME NEW t \in Tasks, SweepCancel(t) PROVE Effect
  <2>1. CASE taskState[t] = "CANCELLED" \/ CanBecome(t, "CANCELLED")
    <3>1. CancelTaskRow(t)
      BY <1>6, <2>1 DEF SweepCancel
    <3> QED BY <2>1, <3>1, EveryStateCanBeCancelled DEF Effect, TaskStatus
  <2>2. CASE ~(taskState[t] = "CANCELLED" \/ CanBecome(t, "CANCELLED"))
    BY <1>6, <2>2 DEF SweepCancel, claimVars, Effect
  <2> QED BY <2>1, <2>2
<1>7. ASSUME NEW t \in Tasks, CancelTask(t) PROVE Effect
  BY <1>7, EveryStateCanBeCancelled DEF CancelTask, Effect, TaskStatus
<1>8. ASSUME NEW t \in Tasks, NEW r \in {"fail", "retry"}, ResolveNeedsReconciliation(t, r)
      PROVE  Effect
  <2>1. taskState[t] # "PENDING"
    BY <1>8 DEF ResolveNeedsReconciliation, ResolutionAccepted, PendingIsUntouched
  <2>2. Ends(t, ResolvedTask(r))
    BY <1>8, <2>1 DEF ResolveNeedsReconciliation, ResolutionAccepted, ResolvedTask, Ends,
      TerminalTask
  <2> QED BY <2>2 DEF Effect, ResolvedTask, TaskStatus
<1>9. ASSUME NEW t \in Tasks, NEW k \in Tokens, StartClaim(t, k) PROVE Effect
  BY <1>9 DEF StartClaim, AdmitClaim, RefuseClaim, DropClaim, Starts, Effect, claimVars
<1>10. ASSUME NEW t \in Tasks, NEW k \in Tokens, RefuseExhaustedTask(t, k) PROVE Effect
  <2>1. CASE CanBecome(t, "FAILED")
    <3>1. Ends(t, "FAILED")
      BY <1>10, <2>1 DEF RefuseExhaustedTask, CanBecome, Ends
    <3> QED BY <3>1 DEF Effect, TaskStatus
  <2>2. CASE ~CanBecome(t, "FAILED")
    BY <1>10, <2>2 DEF RefuseExhaustedTask, claimVars, Effect
  <2> QED BY <2>1, <2>2
<1>11. ASSUME NEW t \in Tasks, NEW k \in Tokens, FinishCompleted(t, k) \/ FinishFailed(t, k)
       PROVE  Effect
  BY <1>11, FinishEffect DEF FinishCompleted, FinishFailed
<1>12. ASSUME UNCHANGED <<taskState, leaseToken, reserved>> PROVE Effect
  BY <1>12 DEF Effect
<1> QED
  BY <1>1, <1>2, <1>3, <1>4, <1>5, <1>6, <1>7, <1>8, <1>9, <1>10, <1>11, <1>12,
     QuietExecution, QuietSteps, Zenon
  DEF Next, DispatcherStep, OperatorStep, WorkerStep, ExecStep, ReconcileDue

-----------------------------------------------------------------------------
(* Settled tasks, leases and reservations.                                 *)

\* No effect leaves the transition matrix, and none makes a task PENDING.
LEMMA EffectIsLegal ==
  ASSUME TypeOK, Effect, NEW t \in Tasks
  PROVE  /\ taskState'[t] = taskState[t] \/ taskState'[t] \in TASK_TRANSITIONS[taskState[t]]
         /\ taskState'[t] = "PENDING" => taskState[t] = "PENDING"
<1>1. CASE UNCHANGED <<taskState, leaseToken, reserved>>
  BY <1>1
<1>2. ASSUME NEW u \in Tasks, NEW x \in TaskStatus, Ends(u, x)
      PROVE  /\ taskState'[t] = taskState[t] \/ taskState'[t] \in TASK_TRANSITIONS[taskState[t]]
             /\ taskState'[t] = "PENDING" => taskState[t] = "PENDING"
  BY <1>2 DEF Ends, SetTask, TypeOK
<1>3. ASSUME NEW u \in Tasks, Starts(u) \/ ClaimReady(u)
      PROVE  /\ taskState'[t] = taskState[t] \/ taskState'[t] \in TASK_TRANSITIONS[taskState[t]]
             /\ taskState'[t] = "PENDING" => taskState[t] = "PENDING"
  BY <1>3 DEF Starts, ClaimReady, SetTask, TypeOK, TASK_TRANSITIONS, TaskStatus
<1>4. ASSUME NEW S \in SUBSET Tasks, NEW x \in TaskStatus, Leaves(S, x)
      PROVE  /\ taskState'[t] = taskState[t] \/ taskState'[t] \in TASK_TRANSITIONS[taskState[t]]
             /\ taskState'[t] = "PENDING" => taskState[t] = "PENDING"
  BY <1>4 DEF Leaves, TypeOK, TASK_TRANSITIONS, TaskStatus
<1> QED BY <1>1, <1>2, <1>3, <1>4 DEF Effect

LEMMA EffectKeepsClaims ==
  ASSUME TypeOK, ClaimConsistency, Effect
  PROVE  ClaimConsistency'
<1> SUFFICES ASSUME NEW t \in Tasks
             PROVE  /\ leaseToken'[t] # NoToken <=> taskState'[t] \in {"LEASED", "RUNNING"}
                    /\ reserved'[t] = IF leaseToken'[t] # NoToken THEN ResourceRequest[t] ELSE {}
  BY DEF ClaimConsistency
<1>1. CASE UNCHANGED <<taskState, leaseToken, reserved>>
  BY <1>1 DEF ClaimConsistency
<1>2. ASSUME NEW u \in Tasks, NEW x \in TaskStatus, Ends(u, x)
      PROVE  /\ leaseToken'[t] # NoToken <=> taskState'[t] \in {"LEASED", "RUNNING"}
             /\ reserved'[t] = IF leaseToken'[t] # NoToken THEN ResourceRequest[t] ELSE {}
  BY <1>2, Zenon DEF Ends, SetTask, ReleaseClaim, TypeOK, Accounts, ClaimConsistency
<1>3. ASSUME NEW u \in Tasks, Starts(u)
      PROVE  /\ leaseToken'[t] # NoToken <=> taskState'[t] \in {"LEASED", "RUNNING"}
             /\ reserved'[t] = IF leaseToken'[t] # NoToken THEN ResourceRequest[t] ELSE {}
  BY <1>3 DEF Starts, SetTask, TypeOK, ClaimConsistency
<1>4. ASSUME NEW u \in Tasks, ClaimReady(u)
      PROVE  /\ leaseToken'[t] # NoToken <=> taskState'[t] \in {"LEASED", "RUNNING"}
             /\ reserved'[t] = IF leaseToken'[t] # NoToken THEN ResourceRequest[t] ELSE {}
  <2>1. issued[u] + 1 # NoToken
    BY SchedulerAssumption DEF TypeOK, NoToken
  <2> QED BY <1>4, <2>1, Zenon DEF ClaimReady, SetTask, TypeOK, Accounts, ClaimConsistency
<1>5. ASSUME NEW S \in SUBSET Tasks, NEW x \in TaskStatus, Leaves(S, x)
      PROVE  /\ leaseToken'[t] # NoToken <=> taskState'[t] \in {"LEASED", "RUNNING"}
             /\ reserved'[t] = IF leaseToken'[t] # NoToken THEN ResourceRequest[t] ELSE {}
  BY <1>5 DEF Leaves, TypeOK, ClaimConsistency
<1> QED BY <1>1, <1>2, <1>3, <1>4, <1>5 DEF Effect

LEMMA EffectKeepsOrder ==
  ASSUME TypeOK, DependencyOrder, Effect
  PROVE  DependencyOrder'
<1> SUFFICES ASSUME NEW t \in Tasks, taskState'[t] \notin {"PENDING", "CANCELLED"},
                    NEW d \in Dependencies[t]
             PROVE  taskState'[d] = "COMPLETED"
  BY DEF DependencyOrder, DependenciesSatisfied
<1>0. d \in Tasks
  BY SchedulerAssumption
<1>1. ASSUME taskState[d] = "COMPLETED" PROVE taskState'[d] = "COMPLETED"
  BY <1>0, <1>1, EffectIsLegal, TerminalHasNoExit DEF TerminalTask
<1>2. ASSUME taskState[t] \notin {"PENDING", "CANCELLED"} PROVE taskState[d] = "COMPLETED"
  BY <1>2 DEF DependencyOrder, DependenciesSatisfied
<1>3. taskState[t] # "CANCELLED"
  BY EffectIsLegal, TerminalHasNoExit DEF TerminalTask
<1>4. ASSUME taskState[t] = "PENDING" PROVE taskState[d] = "COMPLETED"
  <2>1. taskState'[t] # taskState[t]
    BY <1>4
  <2>2. ASSUME NEW u \in Tasks, NEW x \in TaskStatus, Ends(u, x) PROVE FALSE
    <3>1. u = t /\ x = taskState'[t]
      BY <2>1, <2>2 DEF Ends, SetTask, TypeOK
    <3>2. x \in TASK_TRANSITIONS["PENDING"]
      BY <1>4, <2>2, <3>1 DEF Ends, TerminalTask
    <3> QED BY <1>4, <2>2, <3>1, <3>2 DEF Ends, TASK_TRANSITIONS, TaskStatus
  <2>3. ASSUME NEW u \in Tasks, Starts(u) \/ ClaimReady(u) PROVE FALSE
    BY <1>4, <2>1, <2>3, Zenon DEF Starts, ClaimReady, SetTask, TypeOK
  <2>4. ASSUME NEW S \in SUBSET Tasks, NEW x \in TaskStatus, Leaves(S, x)
        PROVE  taskState[d] = "COMPLETED"
    BY <1>4, <2>1, <2>4 DEF Leaves, DependenciesSatisfied
  <2> QED BY <2>1, <2>2, <2>3, <2>4 DEF Effect
<1> QED BY <1>1, <1>2, <1>3, <1>4

-----------------------------------------------------------------------------
(* What steps leave alone.                                                 *)

LEMMA TryGraphFrame ==
  ASSUME TypeOK, NEW u \in Tasks, NEW k \in Tokens, NEW g, TryGraph(u, k, g)
  PROVE  \A t \in Tasks \ {u} : graph'[t] = graph[t]
BY DEF TryGraph, SetGraph, TypeOK

LEMMA GotoFrame ==
  ASSUME TypeOK, NEW u \in Tasks, NEW k \in Tokens, NEW p, Goto(u, k, p)
  PROVE  /\ \A t \in Tasks \ {u} : exec'[t] = exec[t]
         /\ exec'[u][k] = p
         /\ \A j \in Tokens \ {k} : exec'[u][j] = exec[u][j]
BY DEF Goto, TypeOK

\* A worker's step is one of an execution that exists, and touches nothing of
\* any other task.
LEMMA WorkerFrame ==
  ASSUME TypeOK, NEW u \in Tasks, NEW k \in Tokens, WorkerStep(u, k)
  PROVE  /\ exec[u][k] # "none"
         /\ \A t \in Tasks \ {u} : exec'[t] = exec[t] /\ graph'[t] = graph[t]
         /\ \A j \in Tokens \ {k} : exec'[u][j] = exec[u][j]
<1>1. CASE ExecStep(u, k)
  <2>1. CASE Publish(u, k) \/ AssertActive(u, k) \/ GraphReturns(u, k) \/ GraphRaises(u, k)
             \/ RefuseExhaustedTask(u, k)
    BY <2>1, GotoFrame, Zenon
    DEF Publish, AssertActive, GraphReturns, GraphRaises, RefuseExhaustedTask
  <2>2. CASE StartClaim(u, k)
    BY <2>2, GotoFrame DEF StartClaim, AdmitClaim, RefuseClaim, DropClaim
  <2>3. CASE RecordPreparation(u, k) \/ PreparationFails(u, k) \/ PersistRunning(u, k)
             \/ PersistFailed(u, k) \/ PersistCancelled(u, k)
    BY <2>3, GotoFrame, PreparationIsATry, TryGraphFrame, Zenon
    DEF RecordPreparation, PreparationFails, PersistRunning, PersistFailed, PersistCancelled
  <2>4. CASE PersistCompleted(u, k)
    BY <2>4, GotoFrame, TryGraphFrame, Zenon DEF PersistCompleted
  <2>5. CASE FinishCompleted(u, k) \/ FinishFailed(u, k)
    BY <2>5, GotoFrame DEF FinishCompleted, FinishFailed
  <2> QED BY <1>1, <2>1, <2>2, <2>3, <2>4, <2>5, Zenon DEF ExecStep
<1>2. CASE ToolUncertain(u, k)
  BY <1>2 DEF ToolUncertain, TypeOK
<1>3. CASE HeartbeatRenews(u, k)
  BY <1>3 DEF HeartbeatRenews, Working
<1>4. CASE HeartbeatLost(u, k) \/ WorkerCrash(u, k) \/ MessageLost(u, k)
  BY <1>4, GotoFrame DEF HeartbeatLost, WorkerCrash, MessageLost, Working
<1> QED BY <1>1, <1>2, <1>3, <1>4 DEF WorkerStep

\* The other steps write executions only by claiming or by a restart, and
\* graph rows only by a correction or a resolution.
LEMMA OtherFrame ==
  ASSUME \/ DispatcherStep \/ OperatorStep \/ \E t \in Tasks : LeaseAges(t)
         \/ UNCHANGED vars
  PROVE  /\ UNCHANGED <<attempts, chainsDone>>
         /\ \/ UNCHANGED exec
            \/ \E t \in Tasks : ClaimReady(t)
            \/ DispatcherCrash
         /\ \/ UNCHANGED graph
            \/ \E t \in Tasks : Reconcile(t)
            \/ \E t \in Tasks, r \in {"fail", "retry"} : ResolveNeedsReconciliation(t, r)
<1>1. ASSUME NEW t \in Tasks, Reconcile(t) PROVE UNCHANGED <<attempts, chainsDone, exec>>
  BY <1>1 DEF Reconcile
<1>2. ASSUME NEW t \in Tasks, NEW r \in {"fail", "retry"}, ResolveNeedsReconciliation(t, r)
      PROVE  UNCHANGED <<attempts, chainsDone, exec>>
  BY <1>2 DEF ResolveNeedsReconciliation
<1>3. ASSUME NEW t \in Tasks, ClaimReady(t) PROVE UNCHANGED <<attempts, chainsDone, graph>>
  BY <1>3 DEF ClaimReady
<1>4. ASSUME DispatcherCrash PROVE UNCHANGED <<attempts, chainsDone, graph>>
  BY <1>4, Zenon DEF DispatcherCrash
<1>5. ASSUME \/ PromoteDependencyReady \/ CancelBlockedDependents \/ SweepFinish
             \/ \E r \in Runs : SweepList(r) \/ RequestRunCancel(r)
             \/ UNCHANGED vars
      PROVE  UNCHANGED <<attempts, chainsDone, exec, graph>>
  BY <1>5 DEF PromoteDependencyReady, CancelBlockedDependents, SweepFinish, SweepList,
    RequestRunCancel, vars
<1>6. ASSUME NEW t \in Tasks,
             ReclaimExpired(t) \/ CancelTask(t) \/ LeaseAges(t) \/ SweepCancel(t)
      PROVE  UNCHANGED <<attempts, chainsDone, exec, graph>>
  BY <1>6 DEF ReclaimExpired, SweepCancel, CancelTask, LeaseAges
<1> QED BY <1>1, <1>2, <1>3, <1>4, <1>5, <1>6, Zenon DEF DispatcherStep, OperatorStep, ReconcileDue

LEMMA PendingStep ==
  ASSUME TypeOK, PendingIsUntouched, Effect, [Next]_vars
  PROVE  PendingIsUntouched'
<1> SUFFICES ASSUME NEW t \in Tasks, taskState'[t] = "PENDING"
             PROVE  graph'[t].state = "NOT_STARTED" /\ \A j \in Tokens : exec'[t][j] = "none"
  BY DEF PendingIsUntouched
<1>1. taskState[t] = "PENDING"
  BY EffectIsLegal
<1>2. graph[t].state = "NOT_STARTED" /\ \A j \in Tokens : exec[t][j] = "none"
  BY <1>1 DEF PendingIsUntouched
<1>3. ASSUME NEW u \in Tasks, NEW k \in Tokens, WorkerStep(u, k)
      PROVE  graph'[t].state = "NOT_STARTED" /\ \A j \in Tokens : exec'[t][j] = "none"
  <2>1. u # t
    BY <1>1, <1>3, WorkerFrame DEF PendingIsUntouched
  <2> QED BY <1>2, <1>3, <2>1, WorkerFrame
<1>4. ASSUME \/ DispatcherStep \/ OperatorStep \/ \E u \in Tasks : LeaseAges(u)
             \/ UNCHANGED vars
      PROVE  graph'[t].state = "NOT_STARTED" /\ \A j \in Tokens : exec'[t][j] = "none"
  <2>1. \A j \in Tokens : exec'[t][j] = "none"
    <3>1. ASSUME NEW u \in Tasks, ClaimReady(u) PROVE \A j \in Tokens : exec'[t][j] = "none"
      BY <1>1, <1>2, <3>1, Zenon DEF ClaimReady, Goto, TypeOK
    <3>2. ASSUME DispatcherCrash PROVE \A j \in Tokens : exec'[t][j] = "none"
      BY <1>2, <3>2, Zenon DEF DispatcherCrash
    <3> QED BY <1>2, <1>4, <3>1, <3>2, OtherFrame
  <2>2. graph'[t].state = "NOT_STARTED"
    <3>1. ASSUME NEW u \in Tasks, Reconcile(u) PROVE graph'[t] = graph[t]
      <4>1. taskState'[u] # "PENDING"
        BY <3>1, ReconcileEffect, Zenon DEF Ends, SetTask, TypeOK
      <4> QED BY <3>1, <4>1 DEF Reconcile, TypeOK
    <3>2. ASSUME NEW u \in Tasks, NEW r \in {"fail", "retry"}, ResolveNeedsReconciliation(u, r)
          PROVE  graph'[t] = graph[t]
      BY <1>2, <3>2 DEF ResolveNeedsReconciliation, ResolutionAccepted, TypeOK
    <3> QED BY <1>2, <1>4, <3>1, <3>2, OtherFrame, Zenon
  <2> QED BY <2>1, <2>2
<1> QED BY <1>3, <1>4 DEF Next

-----------------------------------------------------------------------------
(* The abstract account of reservations.                                   *)

LEMMA EffectOnLedger ==
  ASSUME TypeOK, ClaimConsistency, CapacityRespected, Effect
  PROVE  CapacityRespected' /\ [Ledger!Grant \/ Ledger!Release]_reserved
<1>1. ASSUME UNCHANGED reserved
      PROVE  CapacityRespected' /\ [Ledger!Grant \/ Ledger!Release]_reserved
  BY <1>1 DEF CapacityRespected
<1>2. ASSUME NEW t \in Tasks, NEW x \in TaskStatus, Ends(t, x)
      PROVE  CapacityRespected' /\ [Ledger!Grant \/ Ledger!Release]_reserved
  <2>1. reserved' = [reserved EXCEPT ![t] = {}]
    BY <1>2 DEF Ends, ReleaseClaim
  <2>2. \A u \in Tasks : reserved'[u] \subseteq reserved[u]
    BY <2>1 DEF TypeOK, Accounts
  <2>3. CapacityRespected'
    BY <2>2, ShrinkFits DEF CapacityRespected
  <2> QED BY <2>1, <2>3, Zenon DEF Ledger!Release
<1>3. ASSUME NEW t \in Tasks, ClaimReady(t)
      PROVE  CapacityRespected' /\ [Ledger!Grant \/ Ledger!Release]_reserved
  <2>1. /\ reserved' = [reserved EXCEPT ![t] = ResourceRequest[t]]
        /\ Admitted(reserved, t) /\ taskState[t] = "READY"
    BY <1>3 DEF ClaimReady
  <2>2. reserved \in Accounts /\ reserved[t] = {}
    BY <2>1, Zenon DEF TypeOK, ClaimConsistency
  <2>3. Fits(reserved')
    BY <2>1, <2>2, AdmissionIsSufficient, Zenon DEF CapacityRespected
  <2>4. reserved' = [u \in Tasks |-> IF u \in {t} THEN ResourceRequest[u] ELSE reserved[u]]
    BY <2>1, <2>2, Zenon DEF Accounts
  <2>5. Ledger!Grant
    BY <2>2, <2>3, <2>4, Zenon DEF Ledger!Grant
  <2> QED BY <2>3, <2>5 DEF CapacityRespected
<1> QED BY <1>1, <1>2, <1>3 DEF Effect, Starts, Leaves

-----------------------------------------------------------------------------
(* The inductive invariant of tasks, leases and reservations.              *)

LifecycleInv ==
  TypeOK /\ ClaimConsistency /\ CapacityRespected /\ DependencyOrder /\ PendingIsUntouched

LEMMA LifecycleInit == Init => LifecycleInv
<1> SUFFICES ASSUME Init PROVE LifecycleInv
  OBVIOUS
<1>1. TypeOK
  BY InitType
<1>2. ClaimConsistency
  BY DEF Init, ClaimConsistency, Empty
<1>3. CapacityRespected
  BY EmptyFits DEF Init, CapacityRespected
<1>4. DependencyOrder
  BY DEF Init, DependencyOrder, DependenciesSatisfied
<1>5. PendingIsUntouched
  BY DEF Init, PendingIsUntouched
<1> QED BY <1>1, <1>2, <1>3, <1>4, <1>5 DEF LifecycleInv

LEMMA LifecycleStep == LifecycleInv /\ [Next]_vars => LifecycleInv'
<1> SUFFICES ASSUME LifecycleInv, [Next]_vars PROVE LifecycleInv'
  OBVIOUS
<1>1. Effect
  BY Effects DEF LifecycleInv
<1>2. TypeOK'
  BY TypeStep DEF LifecycleInv
<1>3. ClaimConsistency'
  BY <1>1, EffectKeepsClaims DEF LifecycleInv
<1>4. CapacityRespected'
  BY <1>1, EffectOnLedger DEF LifecycleInv
<1>5. DependencyOrder'
  BY <1>1, EffectKeepsOrder DEF LifecycleInv
<1>6. PendingIsUntouched'
  BY <1>1, PendingStep DEF LifecycleInv
<1> QED BY <1>2, <1>3, <1>4, <1>5, <1>6 DEF LifecycleInv

LEMMA LifecycleHolds == Spec => []LifecycleInv
BY LifecycleInit, LifecycleStep, PTL DEF Spec

\* Leases, reservations and the states LEASED and RUNNING always go together,
\* so no crash, refusal, cancellation or correction leaks capacity.
THEOREM ClaimsAreConsistent == Spec => []ClaimConsistency
<1>1. LifecycleInv => ClaimConsistency
  BY DEF LifecycleInv
<1> QED BY <1>1, LifecycleHolds, PTL

\* The ceilings of ConcurrencyPolicy are never exceeded.
THEOREM CapacityIsRespected == Spec => []CapacityRespected
<1>1. LifecycleInv => CapacityRespected
  BY DEF LifecycleInv
<1> QED BY <1>1, LifecycleHolds, PTL

\* A task that runs, ran or may run has all of its dependencies COMPLETED.
THEOREM DependenciesComeFirst == Spec => []DependencyOrder
<1>1. LifecycleInv => DependencyOrder
  BY DEF LifecycleInv
<1> QED BY <1>1, LifecycleHolds, PTL

\* The lifecycle implements the account of whole grants and whole releases.
THEOREM LifecycleImplementsLedger == Spec => ImplementsLedger
<1>1. Init => Ledger!LedgerInit
  BY DEF Init, Empty, Ledger!LedgerInit
<1>2. LifecycleInv /\ [Next]_vars => [Ledger!Grant \/ Ledger!Release]_reserved
  BY Effects, EffectOnLedger DEF LifecycleInv
<1> QED BY <1>1, <1>2, LifecycleHolds, PTL DEF Spec, ImplementsLedger, Ledger!LedgerSpec

\* COMPLETED, FAILED and CANCELLED are final, whoever acts on the task.
THEOREM SettledTasksStaySettled == Spec => TerminalIsFinal
<1>1. LifecycleInv /\ [Next]_vars =>
        [\A t \in Tasks : taskState[t] \in TerminalTask => taskState'[t] = taskState[t]]_vars
  <2> SUFFICES ASSUME LifecycleInv, [Next]_vars, NEW t \in Tasks, taskState[t] \in TerminalTask
               PROVE  taskState'[t] = taskState[t]
    OBVIOUS
  <2>1. taskState'[t] = taskState[t] \/ taskState'[t] \in TASK_TRANSITIONS[taskState[t]]
    BY Effects, EffectIsLegal DEF LifecycleInv
  <2> QED BY <2>1, TerminalHasNoExit
<1> QED BY <1>1, LifecycleHolds, PTL DEF Spec, TerminalIsFinal

-----------------------------------------------------------------------------
(* What attempts and their outcomes may be: the attempt ceiling, success   *)
(* that is backed by a finished graph, a single winner, the fencing of     *)
(* stale executions and the cancellation of runs.                          *)

\* Positions an execution reaches only once start_claim admitted it.
Attempted == Working \cup {"failing"}

-----------------------------------------------------------------------------
(* The steps that write attempts, finished chains and executions.          *)

LEMMA AttemptSteps ==
  ASSUME [Next]_vars
  PROVE  \/ UNCHANGED attempts
         \/ \E t \in Tasks, k \in Tokens : AdmitClaim(t, k)
         \/ \E t \in Tasks, k \in Tokens, x \in {"COMPLETED", "FAILED"} : FinishApplied(t, k, x)
<1>1. ASSUME NEW t \in Tasks, NEW k \in Tokens, StartClaim(t, k), ~AdmitClaim(t, k)
      PROVE  UNCHANGED attempts
  BY <1>1, Zenon DEF StartClaim, RefuseClaim, DropClaim
<1>2. ASSUME NEW t \in Tasks, NEW k \in Tokens, RefuseExhaustedTask(t, k)
      PROVE  UNCHANGED attempts
  BY <1>2 DEF RefuseExhaustedTask
<1>3. ASSUME NEW t \in Tasks, NEW k \in Tokens, FinishCompleted(t, k) \/ FinishFailed(t, k),
             ~\E x \in {"COMPLETED", "FAILED"} : FinishApplied(t, k, x)
      PROVE  UNCHANGED attempts
  BY <1>3 DEF FinishCompleted, FinishFailed, FinishReplayed, FinishRefused
<1> QED BY <1>1, <1>2, <1>3, QuietExecution, OtherFrame DEF Next, WorkerStep, ExecStep

LEMMA ChainSteps ==
  ASSUME [Next]_vars
  PROVE  UNCHANGED chainsDone \/ \E t \in Tasks, k \in Tokens : PersistCompleted(t, k)
<1>1. ASSUME NEW t \in Tasks, NEW k \in Tokens, WorkerStep(t, k), ~PersistCompleted(t, k)
      PROVE  UNCHANGED chainsDone
  BY <1>1
  DEF WorkerStep, ExecStep, Publish, StartClaim, RefuseExhaustedTask, RecordPreparation,
    PreparationFails, AssertActive, PersistRunning, GraphReturns, GraphRaises, PersistFailed,
    PersistCancelled, FinishCompleted, FinishFailed, ToolUncertain, HeartbeatRenews,
    HeartbeatLost, WorkerCrash, MessageLost
<1> QED BY <1>1, OtherFrame DEF Next

\* An execution is admitted by start_claim or not at all.
LEMMA AdmissionOnly ==
  ASSUME TypeOK, NEW t \in Tasks, NEW k \in Tokens, WorkerStep(t, k),
         exec'[t][k] \in Attempted
  PROVE  exec[t][k] \in Attempted \/ AdmitClaim(t, k)
<1>1. CASE Publish(t, k) \/ RefuseExhaustedTask(t, k) \/ WorkerCrash(t, k) \/ MessageLost(t, k)
  <2>1. exec'[t][k] \in {"queued", "done"}
    BY <1>1, GotoFrame, Zenon DEF Publish, RefuseExhaustedTask, WorkerCrash, MessageLost
  <2> QED BY <2>1 DEF Attempted, Working
<1>2. CASE StartClaim(t, k)
  <2>1. AdmitClaim(t, k) \/ exec'[t][k] \in {"refusing", "done"}
    BY <1>2, GotoFrame, Zenon DEF StartClaim, RefuseClaim, DropClaim
  <2> QED BY <2>1 DEF Attempted, Working
<1>3. CASE ~(Publish(t, k) \/ RefuseExhaustedTask(t, k) \/ WorkerCrash(t, k)
             \/ MessageLost(t, k) \/ StartClaim(t, k))
  BY <1>3
  DEF WorkerStep, ExecStep, RecordPreparation, PreparationFails, AssertActive, PersistRunning,
    GraphReturns, GraphRaises, PersistCompleted, PersistFailed, PersistCancelled,
    FinishCompleted, FinishFailed, ToolUncertain, HeartbeatRenews, HeartbeatLost, Attempted,
    Working
<1> QED BY <1>1, <1>2, <1>3

\* Only a finished graph makes the row COMPLETED.
LEMMA GraphCompletion ==
  ASSUME TypeOK, [Next]_vars, NEW t \in Tasks, graph'[t].state = "COMPLETED",
         graph[t].state # "COMPLETED"
  PROVE  \E k \in Tokens : PersistCompleted(t, k) /\ GraphAccepts(t, k, "COMPLETED")
<1>0. graph[t] \in [state : GraphExecutionState, thread : Tokens \cup {NoToken}]
  BY DEF TypeOK
<1>1. ASSUME NEW u \in Tasks, NEW k \in Tokens, NEW g, g # "COMPLETED", TryGraph(u, k, g)
      PROVE  FALSE
  <2>1. u = t
    BY <1>1, TryGraphFrame
  <2>2. graph'[t] = [state |-> g, thread |-> k]
    BY <1>1, <2>1 DEF TryGraph, SetGraph, TypeOK
  <2> QED BY <1>1, <2>2
<1>2. ASSUME NEW u \in Tasks, NEW k \in Tokens, WorkerStep(u, k)
      PROVE  PersistCompleted(t, k) /\ GraphAccepts(t, k, "COMPLETED")
  <2>1. u = t
    BY <1>2, WorkerFrame
  <2>2. graph' # graph
    OBVIOUS
  <2>3. CASE RecordPreparation(u, k) \/ PreparationFails(u, k) \/ PersistRunning(u, k)
             \/ PersistFailed(u, k) \/ PersistCancelled(u, k)
    BY <1>1, <2>3, PreparationIsATry, Zenon
    DEF PreparationFails, PersistRunning, PersistFailed, PersistCancelled
  <2>4. CASE PersistCompleted(u, k)
    BY <2>1, <2>2, <2>4, Zenon DEF PersistCompleted, TryGraph
  <2>5. CASE ToolUncertain(u, k)
    BY <2>1, <2>5 DEF ToolUncertain, TypeOK
  <2> QED
    BY <1>2, <2>2, <2>3, <2>4, <2>5, Zenon
    DEF WorkerStep, ExecStep, Publish, StartClaim, RefuseExhaustedTask, AssertActive,
      GraphReturns, GraphRaises, FinishCompleted, FinishFailed, HeartbeatRenews,
      HeartbeatLost, WorkerCrash, MessageLost
<1>3. ASSUME NEW u \in Tasks, Reconcile(u) PROVE FALSE
  BY <1>0, <1>3 DEF Reconcile, GraphAfter, TypeOK
<1>4. ASSUME NEW u \in Tasks, NEW r \in {"fail", "retry"}, ResolveNeedsReconciliation(u, r)
      PROVE  FALSE
  BY <1>0, <1>4 DEF ResolveNeedsReconciliation, ResolvedGraph, TypeOK
<1>5. graph' # graph
  OBVIOUS
<1> QED BY <1>2, <1>3, <1>4, <1>5, OtherFrame DEF Next

\* A task completes only beside a graph row that is COMPLETED.
LEMMA TaskCompletion ==
  ASSUME LifecycleInv, [Next]_vars, NEW t \in Tasks, taskState'[t] = "COMPLETED",
         taskState[t] # "COMPLETED"
  PROVE  graph[t].state = "COMPLETED"
<1> USE DEF LifecycleInv
<1>0. taskState \in [Tasks -> TaskStatus] /\ graph[t].state \in GraphExecutionState
  BY DEF TypeOK
<1>1. ASSUME NEW u \in Tasks, NEW x, SetTask(u, x) PROVE u = t /\ x = "COMPLETED"
  BY <1>0, <1>1 DEF SetTask
<1>2. taskState' # taskState
  OBVIOUS
<1>3. ASSUME NEW u \in Tasks, Reconcile(u) PROVE graph[t].state = "COMPLETED"
  <2>1. u = t /\ TaskAfter(Decision(t), taskState[t]) = "COMPLETED"
    BY <1>1, <1>3 DEF Reconcile
  <2>2. Decision(t) = "FINALIZE_DOMAIN"
    BY <2>1 DEF TaskAfter
  <2> QED BY <2>2 DEF Decision, Decide, DecideTerminal, DecideRunning
<1>4. ASSUME NEW u \in Tasks, NEW k \in Tokens, WorkerStep(u, k)
      PROVE  graph[t].state = "COMPLETED"
  <2>1. CASE StartClaim(u, k)
    BY <1>1, <1>2, <2>1 DEF StartClaim, AdmitClaim, RefuseClaim, DropClaim
  <2>2. CASE RefuseExhaustedTask(u, k)
    BY <1>1, <1>2, <2>2 DEF RefuseExhaustedTask
  <2>3. CASE FinishCompleted(u, k) \/ FinishFailed(u, k)
    BY <1>1, <1>2, <2>3
    DEF FinishCompleted, FinishFailed, FinishReplayed, FinishApplied, FinishRefused,
      FinishAllowed
  <2> QED BY <1>2, <1>4, <2>1, <2>2, <2>3, QuietExecution, Zenon DEF WorkerStep, ExecStep
<1>5. ASSUME NEW u \in Tasks, ReclaimExpired(u) \/ ClaimReady(u) \/ CancelTask(u)
      PROVE  FALSE
  <2>1. CASE ReclaimExpired(u)
    BY <1>0, <1>1, <2>1 DEF ReclaimExpired
  <2>2. CASE ClaimReady(u)
    BY <1>0, <1>1, <2>2 DEF ClaimReady
  <2>3. CASE CancelTask(u)
    <3>1. SetTask(u, "CANCELLED")
      BY <2>3, Zenon DEF CancelTask, CancelTaskRow
    <3> QED BY <1>1, <3>1
  <2> QED BY <1>5, <2>1, <2>2, <2>3
<1>6. ASSUME NEW u \in Tasks, SweepCancel(u) PROVE FALSE
  BY <1>1, <1>2, <1>6 DEF SweepCancel, CancelTaskRow
<1>7. ASSUME PromoteDependencyReady \/ CancelBlockedDependents PROVE FALSE
  BY <1>7 DEF PromoteDependencyReady, CancelBlockedDependents
<1>8. ASSUME NEW u \in Tasks, NEW r \in {"fail", "retry"}, ResolveNeedsReconciliation(u, r)
      PROVE  FALSE
  BY <1>1, <1>8 DEF ResolveNeedsReconciliation, ResolvedTask
<1> QED
  BY <1>2, <1>3, <1>4, <1>5, <1>6, <1>7, <1>8, QuietSteps, Zenon
  DEF Next, DispatcherStep, OperatorStep, ReconcileDue

\* Attempt rows appear only for the admitted claim, and never disappear.
LEMMA AttemptRowsStep ==
  ASSUME TypeOK, [Next]_vars, NEW t \in Tasks
  PROVE  /\ AttemptRows(t) \subseteq AttemptRows(t)'
         /\ \/ AttemptRows(t)' = AttemptRows(t)
            \/ \E k \in Tokens : ~Exhausted(t) /\ AttemptRows(t)' \subseteq AttemptRows(t) \cup {k}
<1>1. CASE UNCHANGED attempts
  BY <1>1 DEF AttemptRows
<1>2. ASSUME NEW u \in Tasks, NEW k \in Tokens, AdmitClaim(u, k)
      PROVE  /\ AttemptRows(t) \subseteq AttemptRows(t)'
             /\ \/ AttemptRows(t)' = AttemptRows(t)
                \/ ~Exhausted(t) /\ AttemptRows(t)' \subseteq AttemptRows(t) \cup {k}
  <2>1. CASE u = t
    BY <1>2, <2>1 DEF AdmitClaim, AttemptRows, TypeOK
  <2>2. CASE u # t
    BY <1>2, <2>2 DEF AdmitClaim, AttemptRows, TypeOK
  <2> QED BY <2>1, <2>2
<1>3. ASSUME NEW u \in Tasks, NEW k \in Tokens, NEW x \in {"COMPLETED", "FAILED"},
             FinishApplied(u, k, x)
      PROVE  AttemptRows(t)' = AttemptRows(t)
  <2>1. attempts' = [attempts EXCEPT ![u][k] = x] /\ attempts[u][k] # "NONE"
    BY <1>3 DEF FinishApplied, FinishAllowed
  <2> QED BY <2>1 DEF AttemptRows, TypeOK
<1> QED BY <1>1, <1>2, <1>3, AttemptSteps

-----------------------------------------------------------------------------
(* The inductive invariant of attempts and outcomes.                       *)

\* Every admitted execution has an attempt row.
ExecutionsAreRecorded ==
  \A t \in Tasks, k \in Tokens : exec[t][k] \in Attempted => k \in AttemptRows(t)

\* Finished chains belong to attempts, and completed rows and tasks to chains.
ChainsBackOutcomes ==
  \A t \in Tasks :
    /\ chainsDone[t] \subseteq AttemptRows(t)
    /\ graph[t].state = "COMPLETED" \/ taskState[t] = "COMPLETED" => chainsDone[t] # {}

\* Tokens are fresh: no execution carries one that was not issued yet.
TokensAreIssued ==
  \A t \in Tasks, k \in Tokens : k > issued[t] => exec[t][k] = "none"

OutcomeInv ==
  ExecutionsAreRecorded /\ ChainsBackOutcomes /\ TokensAreIssued
  /\ AttemptCeiling /\ SingleWinner

LEMMA AttemptsAreBounded == MaxTaskAttempts \in Nat /\ MaxTaskAttempts > 0
<1>1. MaxTaskAttempts \in Nat \ {0}
  BY SchedulerAssumption
<1> QED BY <1>1

LEMMA OutcomeInit == Init => OutcomeInv
<1> SUFFICES ASSUME Init PROVE OutcomeInv
  OBVIOUS
<1>1. \A t \in Tasks : AttemptRows(t) = {}
  BY Zenon DEF Init, AttemptRows
<1>2. ExecutionsAreRecorded /\ TokensAreIssued
  BY DEF Init, ExecutionsAreRecorded, TokensAreIssued, Attempted, Working
<1>3. ChainsBackOutcomes
  BY DEF Init, ChainsBackOutcomes
<1>4. AttemptCeiling
  <2>1. Cardinality({}) = 0
    BY FS_EmptySet
  <2> QED BY <1>1, <2>1, AttemptsAreBounded DEF AttemptCeiling
<1>5. SingleWinner
  BY DEF Init, SingleWinner
<1> QED BY <1>2, <1>3, <1>4, <1>5 DEF OutcomeInv

LEMMA RecordedStep ==
  ASSUME TypeOK, ExecutionsAreRecorded, [Next]_vars
  PROVE  ExecutionsAreRecorded'
<1> SUFFICES ASSUME NEW t \in Tasks, NEW k \in Tokens, exec'[t][k] \in Attempted
             PROVE  k \in AttemptRows(t)'
  BY DEF ExecutionsAreRecorded
<1>1. ASSUME exec[t][k] \in Attempted PROVE k \in AttemptRows(t)'
  BY <1>1, AttemptRowsStep DEF ExecutionsAreRecorded
<1>2. ASSUME NEW u \in Tasks, NEW j \in Tokens, WorkerStep(u, j) PROVE k \in AttemptRows(t)'
  <2>1. CASE u = t /\ j = k
    <3>1. ASSUME AdmitClaim(t, k) PROVE k \in AttemptRows(t)'
      BY <3>1 DEF AdmitClaim, AttemptRows, TypeOK
    <3> QED BY <1>1, <1>2, <2>1, <3>1, AdmissionOnly
  <2>2. CASE u # t \/ j # k
    <3>1. exec'[t][k] = exec[t][k]
      BY <1>2, <2>2, WorkerFrame
    <3> QED BY <1>1, <3>1
  <2> QED BY <2>1, <2>2
<1>3. ASSUME NEW u \in Tasks, ClaimReady(u) PROVE k \in AttemptRows(t)'
  <2>1. exec[t][k] \in Attempted
    BY <1>3 DEF ClaimReady, Goto, TypeOK, Attempted, Working
  <2> QED BY <1>1, <2>1
<1>4. ASSUME DispatcherCrash PROVE k \in AttemptRows(t)'
  <2>1. exec[t][k] \in Attempted
    BY <1>4, Zenon DEF DispatcherCrash, Attempted, Working
  <2> QED BY <1>1, <2>1
<1> QED BY <1>1, <1>2, <1>3, <1>4, OtherFrame DEF Next

LEMMA ChainsStep ==
  ASSUME LifecycleInv, ExecutionsAreRecorded, ChainsBackOutcomes, [Next]_vars
  PROVE  ChainsBackOutcomes'
<1> SUFFICES ASSUME NEW t \in Tasks
             PROVE  /\ chainsDone'[t] \subseteq AttemptRows(t)'
                    /\ graph'[t].state = "COMPLETED" \/ taskState'[t] = "COMPLETED"
                         => chainsDone'[t] # {}
  BY DEF ChainsBackOutcomes
<1>0. TypeOK
  BY DEF LifecycleInv
<1>1. AttemptRows(t) \subseteq AttemptRows(t)'
  BY <1>0, AttemptRowsStep
<1>2. ASSUME NEW u \in Tasks, NEW k \in Tokens, PersistCompleted(u, k)
      PROVE  chainsDone[t] \subseteq chainsDone'[t] /\ chainsDone'[t] \subseteq AttemptRows(t)'
  <2>1. k \in AttemptRows(u)
    BY <1>2 DEF PersistCompleted, ExecutionsAreRecorded, Attempted, Working
  <2>2. chainsDone[t] \subseteq AttemptRows(t)
    BY DEF ChainsBackOutcomes
  <2>3. chainsDone' = chainsDone \/ chainsDone' = [chainsDone EXCEPT ![u] = @ \cup {k}]
    BY <1>2 DEF PersistCompleted
  <2>4. chainsDone'[t] = chainsDone[t] \/ (u = t /\ chainsDone'[t] = chainsDone[t] \cup {k})
    <3>1. chainsDone \in [Tasks -> SUBSET Tokens]
      BY <1>0 DEF TypeOK
    <3>2. ASSUME chainsDone' = [chainsDone EXCEPT ![u] = @ \cup {k}]
          PROVE  chainsDone'[t] = IF u = t THEN chainsDone[t] \cup {k} ELSE chainsDone[t]
      BY <3>1, <3>2
    <3>3. CASE u = t /\ chainsDone' # chainsDone
      BY <2>3, <3>2, <3>3
    <3>4. CASE u # t /\ chainsDone' # chainsDone
      BY <2>3, <3>2, <3>4
    <3>5. CASE chainsDone' = chainsDone
      BY <3>5
    <3> QED BY <3>3, <3>4, <3>5
  <2> QED BY <1>1, <2>1, <2>2, <2>4
<1>3. chainsDone[t] \subseteq chainsDone'[t] /\ chainsDone'[t] \subseteq AttemptRows(t)'
  BY <1>1, <1>2, ChainSteps DEF ChainsBackOutcomes
<1>4. ASSUME graph'[t].state = "COMPLETED" PROVE chainsDone'[t] # {}
  <2>1. CASE graph[t].state = "COMPLETED"
    BY <1>3, <2>1 DEF ChainsBackOutcomes
  <2>2. CASE graph[t].state # "COMPLETED"
    <3>1. PICK k \in Tokens : PersistCompleted(t, k) /\ GraphAccepts(t, k, "COMPLETED")
      BY <1>0, <1>4, <2>2, GraphCompletion, Zenon
    <3>2. chainsDone' = [chainsDone EXCEPT ![t] = @ \cup {k}]
      BY <3>1 DEF PersistCompleted
    <3> QED BY <1>0, <3>2 DEF TypeOK
  <2> QED BY <2>1, <2>2
<1>5. ASSUME taskState'[t] = "COMPLETED" PROVE chainsDone'[t] # {}
  BY <1>3, <1>5, TaskCompletion DEF ChainsBackOutcomes
<1> QED BY <1>3, <1>4, <1>5

LEMMA TokensStep ==
  ASSUME TypeOK, TokensAreIssued, [Next]_vars
  PROVE  TokensAreIssued'
<1> SUFFICES ASSUME NEW t \in Tasks, NEW k \in Tokens, k > issued'[t]
             PROVE  exec'[t][k] = "none"
  BY Zenon DEF TokensAreIssued
<1>0. k \in Nat /\ issued[t] \in Nat
  <2>1. issued \in [Tasks -> 0..MaxLeases]
    BY Zenon DEF TypeOK
  <2> QED BY <2>1, SchedulerAssumption DEF Tokens
<1>1. ASSUME NEW u \in Tasks, ClaimReady(u) PROVE exec'[t][k] = "none"
  <2>1. /\ issued' = [issued EXCEPT ![u] = @ + 1]
        /\ exec' = [exec EXCEPT ![u][issued[u] + 1] = "unpublished"]
    BY <1>1 DEF ClaimReady, Goto
  <2>2. CASE u = t
    <3>1. issued'[t] = issued[t] + 1
      BY <2>1, <2>2 DEF TypeOK
    <3>2. k > issued[t] /\ k # issued[t] + 1
      BY <1>0, <3>1
    <3>3. exec'[t][k] = exec[t][k]
      BY <2>1, <2>2, <3>2 DEF TypeOK
    <3> QED BY <3>2, <3>3 DEF TokensAreIssued
  <2>3. CASE u # t
    BY <2>1, <2>3 DEF TypeOK, TokensAreIssued
  <2> QED BY <2>2, <2>3
<1>2. ASSUME NEW u \in Tasks, NEW j \in Tokens, WorkerStep(u, j) PROVE exec'[t][k] = "none"
  <2>1. UNCHANGED issued
    BY <1>2, Zenon
    DEF WorkerStep, ExecStep, Publish, StartClaim, RefuseExhaustedTask, RecordPreparation,
      PreparationFails, AssertActive, PersistRunning, GraphReturns, GraphRaises,
      PersistCompleted, PersistFailed, PersistCancelled, FinishCompleted, FinishFailed,
      ToolUncertain, HeartbeatRenews, HeartbeatLost, WorkerCrash, MessageLost
  <2>2. exec[t][k] = "none"
    BY <2>1 DEF TokensAreIssued
  <2> QED BY <1>2, <2>2, WorkerFrame
<1>3. ASSUME ~\E u \in Tasks : ClaimReady(u),
             DispatcherStep \/ OperatorStep \/ (\E u \in Tasks : LeaseAges(u)) \/ UNCHANGED vars
      PROVE  exec'[t][k] = "none"
  <2>1. UNCHANGED issued
    BY <1>3
    DEF DispatcherStep, OperatorStep, PromoteDependencyReady, CancelBlockedDependents,
      SweepFinish, DispatcherCrash, SweepList, ReclaimExpired, ReconcileDue, Reconcile,
      SweepCancel, RequestRunCancel, CancelTask, ResolveNeedsReconciliation, LeaseAges, vars
  <2>2. exec[t][k] = "none"
    BY <2>1 DEF TokensAreIssued
  <2>3. ASSUME DispatcherCrash PROVE exec'[t][k] = "none"
    BY <2>2, <2>3 DEF DispatcherCrash
  <2> QED BY <1>3, <2>2, <2>3, OtherFrame
<1> QED BY <1>1, <1>2, <1>3 DEF Next

LEMMA CeilingStep ==
  ASSUME TypeOK, AttemptCeiling, [Next]_vars
  PROVE  AttemptCeiling'
<1> SUFFICES ASSUME NEW t \in Tasks
             PROVE  Cardinality(AttemptRows(t)') <= MaxTaskAttempts
  BY DEF AttemptCeiling
<1>0. IsFiniteSet(AttemptRows(t))
  <2>1. IsFiniteSet(Tokens)
    BY FS_Interval, SchedulerAssumption DEF Tokens
  <2> QED BY <2>1, FS_Subset DEF AttemptRows
<1>1. CASE AttemptRows(t)' = AttemptRows(t)
  BY <1>1 DEF AttemptCeiling
<1>2. ASSUME NEW k \in Tokens, ~Exhausted(t), AttemptRows(t)' \subseteq AttemptRows(t) \cup {k}
      PROVE  Cardinality(AttemptRows(t)') <= MaxTaskAttempts
  <2>1. /\ Cardinality(AttemptRows(t)') \in Nat /\ Cardinality(AttemptRows(t)) \in Nat
        /\ Cardinality(AttemptRows(t)') <= Cardinality(AttemptRows(t)) + 1
    BY <1>0, <1>2, CardinalityGrowsByOne, Zenon
  <2>2. ~(Cardinality(AttemptRows(t)) >= MaxTaskAttempts)
    BY <1>2 DEF Exhausted
  <2> QED BY <2>1, <2>2, AttemptsAreBounded
<1> QED BY <1>1, <1>2, AttemptRowsStep

LEMMA WinnerStep ==
  ASSUME LifecycleInv, SingleWinner, [Next]_vars
  PROVE  SingleWinner'
<1> SUFFICES ASSUME NEW t \in Tasks, NEW k \in Tokens, attempts'[t][k] = "COMPLETED"
             PROVE  /\ taskState'[t] = "COMPLETED"
                    /\ \A j \in Tokens : attempts'[t][j] = "COMPLETED" => j = k
  BY DEF SingleWinner
<1>0. TypeOK /\ Effect
  BY Effects DEF LifecycleInv
<1>1. ASSUME taskState[t] = "COMPLETED" PROVE taskState'[t] = "COMPLETED"
  BY <1>0, <1>1, EffectIsLegal, TerminalHasNoExit DEF TerminalTask
<1>2. ASSUME attempts'[t] = attempts[t]
      PROVE  /\ taskState'[t] = "COMPLETED"
             /\ \A j \in Tokens : attempts'[t][j] = "COMPLETED" => j = k
  BY <1>1, <1>2 DEF SingleWinner
<1>3. ASSUME NEW u \in Tasks, NEW m \in Tokens, AdmitClaim(u, m) PROVE attempts'[t] = attempts[t]
  <2>1. CASE u = t
    <3>1. \A j \in Tokens : attempts[t][j] # "COMPLETED"
      BY <1>3, <2>1 DEF AdmitClaim, SingleWinner
    <3>2. \A j \in Tokens : attempts'[t][j] # "COMPLETED"
      BY <1>0, <1>3, <2>1, <3>1 DEF AdmitClaim, TypeOK
    <3> QED BY <3>2
  <2>2. CASE u # t
    BY <1>0, <1>3, <2>2 DEF AdmitClaim, TypeOK
  <2> QED BY <2>1, <2>2
<1>4. ASSUME NEW u \in Tasks, NEW m \in Tokens, NEW x \in {"COMPLETED", "FAILED"},
             FinishApplied(u, m, x)
      PROVE  /\ taskState'[t] = "COMPLETED"
             /\ \A j \in Tokens : attempts'[t][j] = "COMPLETED" => j = k
  <2>1. CASE u = t
    <3>1. taskState[t] # "COMPLETED"
      BY <1>4, <2>1, TerminalHasNoExit DEF FinishApplied, FinishAllowed, CanBecome, TerminalTask
    <3>2. \A j \in Tokens : attempts[t][j] # "COMPLETED"
      BY <3>1 DEF SingleWinner
    <3>3. \A j \in Tokens \ {m} : attempts'[t][j] # "COMPLETED"
      BY <1>0, <1>4, <2>1, <3>2 DEF FinishApplied, TypeOK
    <3>4. attempts'[t][m] = x
      BY <1>0, <1>4, <2>1 DEF FinishApplied, TypeOK
    <3>5. taskState'[t] = x
      BY <1>0, <1>4, <2>1 DEF FinishApplied, SetTask, TypeOK
    <3> QED BY <3>3, <3>4, <3>5
  <2>2. CASE u # t
    <3>1. attempts'[t] = attempts[t]
      BY <1>0, <1>4, <2>2 DEF FinishApplied, TypeOK
    <3> QED BY <1>2, <3>1
  <2> QED BY <2>1, <2>2
<1> QED BY <1>2, <1>3, <1>4, AttemptSteps

LEMMA OutcomeHolds == Spec => [](LifecycleInv /\ OutcomeInv)
<1>1. LifecycleInv /\ OutcomeInv /\ [Next]_vars => OutcomeInv'
  BY RecordedStep, ChainsStep, TokensStep, CeilingStep, WinnerStep DEF OutcomeInv, LifecycleInv
<1> QED BY <1>1, OutcomeInit, LifecycleHolds, PTL DEF Spec

\* A task never has more attempt rows than max_task_attempts.
THEOREM AttemptsAreLimited == Spec => []AttemptCeiling
<1>1. OutcomeInv => AttemptCeiling
  BY DEF OutcomeInv
<1> QED BY <1>1, OutcomeHolds, PTL

\* A COMPLETED task has an attempt whose own chain was persisted COMPLETED.
THEOREM SuccessHasAChain == Spec => []SuccessIsBacked
<1>1. LifecycleInv /\ OutcomeInv => SuccessIsBacked
  BY DEF LifecycleInv, TypeOK, OutcomeInv, ChainsBackOutcomes, AttemptRows, SuccessIsBacked
<1> QED BY <1>1, OutcomeHolds, PTL

\* At most one attempt of a task wins, and then the task is COMPLETED.
THEOREM OneAttemptWins == Spec => []SingleWinner
<1>1. OutcomeInv => SingleWinner
  BY DEF OutcomeInv
<1> QED BY <1>1, OutcomeHolds, PTL

\* A second pass of the reconciler finds nothing to correct.
THEOREM SecondPassIsNoop == Spec => []ReconcileIdempotent
<1>1. LifecycleInv => ReconcileIdempotent
  BY DecideIsIdempotent, Zenon DEF LifecycleInv, TypeOK, Expired, Decision, ReconcileIdempotent
<1> QED BY <1>1, LifecycleHolds, PTL

-----------------------------------------------------------------------------
(* Fencing.                                                                *)

\* A step of an admitted execution whose lease is gone or superseded leaves
\* the task, its lease and its reservations alone.
THEOREM StaleExecutionsAreFenced == Spec => StaleExecutionIsFenced
<1>1. ASSUME LifecycleInv, OutcomeInv, [Next]_vars, NEW t \in Tasks, NEW k \in Tokens,
             exec[t][k] \in Attempted, exec'[t][k] # exec[t][k], leaseToken[t] # k
      PROVE  UNCHANGED <<taskState[t], leaseToken[t], reserved[t]>>
  <2>0. TypeOK /\ TokensAreIssued
    BY <1>1, Zenon DEF LifecycleInv, OutcomeInv
  <2>1. ASSUME NEW u \in Tasks, NEW j \in Tokens, WorkerStep(u, j)
        PROVE  UNCHANGED <<taskState[t], leaseToken[t], reserved[t]>>
    <3>1. u = t /\ j = k
      <4>1. /\ \A v \in Tasks \ {u} : exec'[v] = exec[v]
            /\ \A i \in Tokens \ {j} : exec'[u][i] = exec[u][i]
        BY <2>0, <2>1, WorkerFrame, Zenon
      <4>2. u = t
        BY <1>1, <4>1
      <4>3. j = k
        BY <1>1, <4>1, <4>2
      <4> QED BY <4>2, <4>3
    <3>2. CASE StartClaim(t, k) \/ RefuseExhaustedTask(t, k)
      BY <1>1, <3>2, Zenon DEF StartClaim, RefuseExhaustedTask, Attempted, Working
    <3>3. CASE FinishCompleted(t, k) \/ FinishFailed(t, k)
      BY <1>1, <3>3, Zenon
      DEF FinishCompleted, FinishFailed, FinishReplayed, FinishApplied, FinishAllowed,
        FinishRefused, claimVars
    <3> QED BY <2>1, <3>1, <3>2, <3>3, QuietExecution, Zenon DEF WorkerStep, ExecStep
  <2>2. ASSUME NEW u \in Tasks, ClaimReady(u) PROVE FALSE
    <3>1. exec' = [exec EXCEPT ![u][issued[u] + 1] = "unpublished"] /\ issued[u] < MaxLeases
      BY <2>2 DEF ClaimReady, Goto
    <3>2. u = t /\ k = issued[t] + 1
      BY <1>1, <2>0, <3>1 DEF TypeOK
    <3>3. k > issued[t]
      BY <2>0, <3>2, SchedulerAssumption DEF TypeOK
    <3> QED BY <1>1, <2>0, <3>3 DEF TokensAreIssued, Attempted, Working
  <2>3. ASSUME DispatcherCrash PROVE FALSE
    BY <1>1, <2>3, Zenon DEF DispatcherCrash, Attempted, Working
  <2> QED BY <1>1, <2>1, <2>2, <2>3, OtherFrame, Zenon DEF Next
<1>2. LifecycleInv /\ OutcomeInv /\ [Next]_vars =>
        [\A t \in Tasks, k \in Tokens :
           /\ exec[t][k] \in Working \cup {"failing"}
           /\ exec'[t][k] # exec[t][k]
           /\ leaseToken[t] # k
           => UNCHANGED <<taskState[t], leaseToken[t], reserved[t]>>]_vars
  BY <1>1 DEF Attempted
<1> QED BY <1>2, OutcomeHolds, PTL DEF Spec, StaleExecutionIsFenced

-----------------------------------------------------------------------------
(* Cancelled runs.                                                         *)

\* What the sweep has done with is settled, and stays so.
SweepInv ==
  \A t \in Tasks :
    \/ taskState[t] \in TerminalTask
    \/ /\ runState[RunOf[t]] # "CANCELLED"
       /\ sweep.run = RunOf[t] => t \in sweep.todo

LEMMA SweepFrame ==
  ASSUME [Next]_vars,
         ~(SweepFinish \/ DispatcherCrash \/ \E r \in Runs : SweepList(r)),
         ~\E t \in Tasks : SweepCancel(t)
  PROVE  UNCHANGED <<sweep, runState>>
<1>1. ASSUME NEW t \in Tasks, NEW k \in Tokens, WorkerStep(t, k) PROVE UNCHANGED runVars
  BY <1>1
  DEF WorkerStep, ExecStep, Publish, StartClaim, RefuseExhaustedTask, RecordPreparation,
    PreparationFails, AssertActive, PersistRunning, GraphReturns, GraphRaises,
    PersistCompleted, PersistFailed, PersistCancelled, FinishCompleted, FinishFailed,
    ToolUncertain, HeartbeatRenews, HeartbeatLost, WorkerCrash, MessageLost
<1>2. ASSUME NEW t \in Tasks, \/ ClaimReady(t) \/ ReclaimExpired(t) \/ Reconcile(t)
                              \/ CancelTask(t) \/ LeaseAges(t)
      PROVE  UNCHANGED runVars
  BY <1>2 DEF ClaimReady, ReclaimExpired, Reconcile, CancelTask, LeaseAges
<1>3. ASSUME NEW t \in Tasks, NEW r \in {"fail", "retry"}, ResolveNeedsReconciliation(t, r)
      PROVE  UNCHANGED runVars
  BY <1>3 DEF ResolveNeedsReconciliation
<1>4. ASSUME PromoteDependencyReady \/ CancelBlockedDependents PROVE UNCHANGED runVars
  BY <1>4 DEF PromoteDependencyReady, CancelBlockedDependents
<1> QED
  BY <1>1, <1>2, <1>3, <1>4, Zenon
  DEF Next, DispatcherStep, OperatorStep, ReconcileDue, RequestRunCancel, runVars, vars

LEMMA SweepStep == LifecycleInv /\ SweepInv /\ [Next]_vars => SweepInv'
<1> SUFFICES ASSUME LifecycleInv, SweepInv, [Next]_vars, NEW t \in Tasks,
                    taskState'[t] \notin TerminalTask
             PROVE  /\ runState'[RunOf[t]] # "CANCELLED"
                    /\ sweep'.run = RunOf[t] => t \in sweep'.todo
  BY DEF SweepInv
<1>0. TypeOK /\ Effect /\ RunOf[t] \in Runs /\ RunOf[t] # NoRun
  BY Effects, SchedulerAssumption DEF LifecycleInv
<1>1. taskState[t] \notin TerminalTask
  BY <1>0, EffectIsLegal, TerminalHasNoExit
<1>2. runState[RunOf[t]] # "CANCELLED" /\ (sweep.run = RunOf[t] => t \in sweep.todo)
  BY <1>1 DEF SweepInv
<1>3. ASSUME DispatcherCrash
      PROVE  runState'[RunOf[t]] # "CANCELLED" /\ (sweep'.run = RunOf[t] => t \in sweep'.todo)
  BY <1>0, <1>2, <1>3 DEF DispatcherCrash, Idle
<1>4. ASSUME NEW r \in Runs, SweepList(r)
      PROVE  runState'[RunOf[t]] # "CANCELLED" /\ (sweep'.run = RunOf[t] => t \in sweep'.todo)
  BY <1>1, <1>2, <1>4 DEF SweepList, Cancellable
<1>5. ASSUME SweepFinish
      PROVE  runState'[RunOf[t]] # "CANCELLED" /\ (sweep'.run = RunOf[t] => t \in sweep'.todo)
  <2>1. sweep.run # RunOf[t]
    BY <1>2, <1>5 DEF SweepFinish
  <2>2. runState' = [runState EXCEPT ![sweep.run] = "CANCELLED"] /\ sweep' = Idle
    BY <1>5 DEF SweepFinish
  <2> QED BY <1>0, <1>2, <2>1, <2>2, Zenon DEF Idle, TypeOK
<1>6. ASSUME NEW u \in Tasks, SweepCancel(u)
      PROVE  runState'[RunOf[t]] # "CANCELLED" /\ (sweep'.run = RunOf[t] => t \in sweep'.todo)
  <2>1. CASE taskState[u] = "CANCELLED" \/ CanBecome(u, "CANCELLED")
    <3>1. /\ taskState' = [taskState EXCEPT ![u] = "CANCELLED"]
          /\ sweep' = [sweep EXCEPT !.todo = @ \ {u}] /\ runState' = runState
      BY <1>6, <2>1 DEF SweepCancel, CancelTaskRow, SetTask
    <3>2. u # t
      BY <1>0, <3>1 DEF TypeOK, TerminalTask
    <3>3. sweep'.run = sweep.run /\ sweep'.todo = sweep.todo \ {u}
      BY <1>0, <3>1 DEF TypeOK
    <3> QED BY <1>2, <3>1, <3>2, <3>3
  <2>2. CASE ~(taskState[u] = "CANCELLED" \/ CanBecome(u, "CANCELLED"))
    BY <1>0, <1>2, <1>6, <2>2 DEF SweepCancel, Idle
  <2> QED BY <2>1, <2>2
<1> QED BY <1>2, <1>3, <1>4, <1>5, <1>6, SweepFrame

\* A run is CANCELLED only once every one of its tasks has settled.
THEOREM CancelledRunsAreSettled == Spec => []CancelledRunIsSettled
<1>1. Init => SweepInv
  BY SchedulerAssumption, SMTT(20) DEF Init, Idle, SweepInv
<1>2. SweepInv => CancelledRunIsSettled
  BY DEF SweepInv, CancelledRunIsSettled
<1> QED BY <1>1, <1>2, SweepStep, LifecycleHolds, PTL DEF Spec
=============================================================================
