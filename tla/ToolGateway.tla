------------------------------ MODULE ToolGateway ------------------------------
(***************************************************************************)
(* One tool call, made by several processes: tools/gateway.py (claim by     *)
(* idempotency key, the attempt loop, the waiters, the uncertain outcome)   *)
(* and tools/approval.py (request, decide, authorize).  The identity of the *)
(* call - its key, ids and arguments - is fixed; a call that differs from   *)
(* the stored one is refused by _validate_replay before it changes state.   *)
(* One action is one transaction, or one run of the executor.               *)
(***************************************************************************)
EXTENDS Domain, Integers

CONSTANTS Callers, Specs, MaxFaults

VARIABLES
  spec,       \* ToolSpec of the called tool: what the gateway reads of it
  row,        \* ToolExecutionRow
  approval,   \* ApprovalRow, and whether expires_at has passed
  caller,     \* what a process calling execute is at
  effects,    \* times the executor took effect in the world
  graph,      \* state of the task's graph execution row
  running,    \* the task is RUNNING
  lawful,     \* history: every authorization was of an approved row, in time
  faults

vars == <<spec, row, approval, caller, effects, graph, running, lawful, faults>>

ToolSpec == {s \in [effect: {"none", "local", "external"}, replay: {"NEVER", "SAFE", "IDEMPOTENT"},
                    approval_required: BOOLEAN, max_attempts: 1..2, retry: BOOLEAN] :
               s.replay = "NEVER" => s.max_attempts = 1}

ASSUME GatewayAssumption == Specs \subseteq ToolSpec /\ MaxFaults \in Nat

TERMINAL == {"COMPLETED", "FAILED", "NEEDS_RECONCILIATION"}
ToolExecutionStatus == {"NONE", "WAITING_FOR_APPROVAL", "CLAIMED"} \cup TERMINAL
ApprovalRow == [status: {"NONE", "PENDING", "APPROVED", "REJECTED", "EXPIRED"}, late: BOOLEAN]

\* Where a call can stop; "persist" carries the outcome it is about to store.
Positions == {"idle", "claim", "approve", "authorize", "promote", "run", "persist", "quarantine", "wait"}
Call == [at: Positions, attempt: 0..2, outcome: {"none"} \cup TERMINAL,
         result: {"none", "raised", "approval"} \cup TERMINAL]
Resting == [at |-> "idle", attempt |-> 0, outcome |-> "none", result |-> "none"]

TypeOK ==
  /\ spec \in Specs /\ row \in ToolExecutionStatus /\ approval \in ApprovalRow
  /\ caller \in [Callers -> Call]
  /\ effects \in 0..2 /\ graph \in GraphExecutionState
  /\ running \in BOOLEAN /\ lawful \in BOOLEAN /\ faults \in 0..MaxFaults

Init ==
  /\ spec \in Specs
  /\ row = "NONE" /\ approval = [status |-> "NONE", late |-> FALSE]
  /\ caller = [c \in Callers |-> Resting]
  /\ effects = 0 /\ graph = "RUNNING" /\ running = TRUE /\ lawful = TRUE /\ faults = 0

Go(c, at) == caller' = [caller EXCEPT ![c].at = at]
Return(c, result) == caller' = [caller EXCEPT ![c] = [Resting EXCEPT !.result = result]]

-----------------------------------------------------------------------------
(* ToolGateway.execute                                                     *)

\* _validate_context, then the checks that read no state.
validate_context(c) ==
  /\ caller[c].at = "idle" /\ caller[c].result \in {"none", "approval"}
  /\ IF running THEN Go(c, "claim") ELSE Return(c, "raised")
  /\ UNCHANGED <<spec, row, approval, effects, graph, running, lawful, faults>>

\* _claim: the first insert owns the call; a stored outcome is replayed.
claim(c) ==
  /\ caller[c].at = "claim"
  /\ row' = IF row # "NONE" THEN row
            ELSE IF spec.approval_required THEN "WAITING_FOR_APPROVAL" ELSE "CLAIMED"
  /\ IF row \in TERMINAL THEN Return(c, row)
     ELSE IF spec.approval_required THEN Go(c, "approve")
     ELSE IF row = "NONE"
       THEN caller' = [caller EXCEPT ![c] = [@ EXCEPT !.at = "run", !.attempt = 1]]
       ELSE Go(c, "wait")
  /\ UNCHANGED <<spec, approval, effects, graph, running, lawful, faults>>

\* ApprovalService.request; without the approval's id the call ends in ApprovalRequired.
request(c) ==
  /\ caller[c].at = "approve"
  /\ approval' = IF approval.status = "NONE" THEN [status |-> "PENDING", late |-> FALSE] ELSE approval
  /\ \/ Return(c, "approval")
     \/ caller[c].result = "approval" /\ Go(c, "authorize")
  /\ UNCHANGED <<spec, row, effects, graph, running, lawful, faults>>

\* Mutant: the expiry is not looked at.
authorized_late == approval.status = "APPROVED"

authorized == ~approval.late /\ approval.status = "APPROVED"

\* ApprovalService.authorize
authorize(c) ==
  /\ caller[c].at = "authorize"
  /\ IF authorized THEN Go(c, "promote") ELSE Return(c, "raised")
  /\ lawful' = (lawful /\ (authorized => approval.status = "APPROVED" /\ ~approval.late))
  /\ UNCHANGED <<spec, row, approval, effects, graph, running, faults>>

\* _promote_approved: one of those that hold the approval becomes the owner.
promote_approved(c) ==
  /\ caller[c].at = "promote"
  /\ IF row = "WAITING_FOR_APPROVAL"
       THEN row' = "CLAIMED" /\ caller' = [caller EXCEPT ![c] = [@ EXCEPT !.at = "run", !.attempt = 1]]
       ELSE Go(c, "wait") /\ UNCHANGED row
  /\ UNCHANGED <<spec, approval, effects, graph, running, lawful, faults>>

-----------------------------------------------------------------------------
(* _execute_owned                                                          *)

Outcome(c, status) == caller' = [caller EXCEPT ![c] = [@ EXCEPT !.at = "persist", !.outcome = status]]

Effect == effects' = effects + 1

\* Mutant: the number of attempts is not looked at.
may_retry_always(c) == spec.replay # "NEVER"

may_retry(c) == spec.replay # "NEVER" /\ caller[c].attempt < spec.max_attempts

\* The executor answers and the answer has the declared shape.
tool_succeeds(c) == caller[c].at = "run" /\ Effect /\ Outcome(c, "COMPLETED")

\* Any other exception, validate_result's included: the effect may have happened.
tool_fails(c) == caller[c].at = "run" /\ (Effect \/ UNCHANGED effects) /\ Outcome(c, "FAILED")

\* UnknownSideEffectOutcome
tool_unknown(c) ==
  caller[c].at = "run" /\ (Effect \/ UNCHANGED effects) /\ Outcome(c, "NEEDS_RECONCILIATION")

\* TimeoutError or TransientToolError: uncertain outside, retried or failed inside.
Retry(c) ==
  IF spec.effect = "external" THEN Outcome(c, "NEEDS_RECONCILIATION")
  ELSE IF spec.retry /\ may_retry(c)
    THEN caller' = [caller EXCEPT ![c] = [caller[c] EXCEPT !.at = "run", !.outcome = "none",
                                                           !.attempt = caller[c].attempt + 1]]
    ELSE Outcome(c, "FAILED")

tool_times_out(c) ==
  /\ caller[c].at = "run"
  /\ Effect \/ UNCHANGED effects
  /\ Retry(c)

execute_owned(c) ==
  /\ tool_succeeds(c) \/ tool_fails(c) \/ tool_unknown(c) \/ tool_times_out(c)
  /\ UNCHANGED <<spec, row, approval, graph, running, lawful, faults>>

\* Mutant: only a success is stored.
persist_terminal_success(c) ==
  /\ caller[c].at = "persist"
  /\ row' = IF caller[c].outcome = "COMPLETED" THEN "COMPLETED" ELSE row
  /\ Return(c, caller[c].outcome)
  /\ UNCHANGED <<spec, approval, effects, graph, running, lawful, faults>>

\* _persist_terminal; a stored outcome is returned as it is.
persist_terminal(c) ==
  /\ caller[c].at = "persist"
  /\ row' = IF row \in TERMINAL THEN row ELSE caller[c].outcome
  /\ IF caller[c].outcome = "NEEDS_RECONCILIATION" THEN Go(c, "quarantine") ELSE Return(c, row')
  /\ UNCHANGED <<spec, approval, effects, graph, running, lawful, faults>>

\* The transaction fails.  The one that stores a success is inside the try: its
\* exception fails the call, and a TimeoutError of the database is taken for one
\* of the tool.
persist_fails(c) ==
  /\ caller[c].at = "persist" /\ faults < MaxFaults
  /\ IF caller[c].outcome = "COMPLETED" THEN Outcome(c, "FAILED") \/ Retry(c) ELSE Return(c, "raised")
  /\ faults' = faults + 1
  /\ UNCHANGED <<spec, row, approval, effects, graph, running, lawful>>

\* The second transaction of _uncertain.
quarantine_graph(c) ==
  /\ caller[c].at = "quarantine"
  /\ LET legal == "NEEDS_RECONCILIATION" \in GRAPH_EXECUTION_TRANSITIONS[graph] IN
     IF graph = "NEEDS_RECONCILIATION" \/ legal
       THEN graph' = "NEEDS_RECONCILIATION" /\ Return(c, row)
       ELSE UNCHANGED graph /\ Return(c, "raised")
  /\ UNCHANGED <<spec, row, approval, effects, running, lawful, faults>>

\* _wait_for_terminal: a poll that finds the outcome, or the deadline.
wait_for_terminal(c) ==
  /\ caller[c].at = "wait"
  /\ \/ row \in TERMINAL /\ Return(c, row)
     \/ Return(c, "raised")
  /\ UNCHANGED <<spec, row, approval, effects, graph, running, lawful, faults>>

-----------------------------------------------------------------------------
(* The operator, the clock, the scheduler and crashes                      *)

\* ApprovalService.decide: too late, it expires the row, decided or not.
decide(approved) ==
  /\ approval.status # "NONE"
  /\ IF approval.late THEN approval' = [approval EXCEPT !.status = "EXPIRED"]
     ELSE /\ approval.status = "PENDING"
          /\ approval' = [approval EXCEPT !.status = IF approved THEN "APPROVED" ELSE "REJECTED"]
  /\ UNCHANGED <<spec, row, caller, effects, graph, running, lawful, faults>>

approval_expires ==
  /\ approval.status # "NONE" /\ ~approval.late
  /\ approval' = [approval EXCEPT !.late = TRUE]
  /\ UNCHANGED <<spec, row, caller, effects, graph, running, lawful, faults>>

\* The task is cancelled or fenced while the call is under way.
task_leaves ==
  /\ running /\ running' = FALSE
  /\ graph' \in {graph} \cup ({"CANCELLED"} \cap GRAPH_EXECUTION_TRANSITIONS[graph])
  /\ UNCHANGED <<spec, row, approval, caller, effects, lawful, faults>>

\* The process dies and makes the call again after its restart.
crash(c) ==
  /\ caller[c].at # "idle" /\ faults < MaxFaults
  /\ caller' = [caller EXCEPT ![c] = [Resting EXCEPT !.result =
                  IF approval.status = "NONE" THEN "none" ELSE "approval"]]
  /\ faults' = faults + 1
  /\ UNCHANGED <<spec, row, approval, effects, graph, running, lawful>>

CallStep(c) ==
  \/ claim(c) \/ request(c) \/ authorize(c) \/ promote_approved(c) \/ execute_owned(c)
  \/ persist_terminal(c) \/ quarantine_graph(c) \/ wait_for_terminal(c)

Next ==
  \/ \E c \in Callers : validate_context(c) \/ CallStep(c) \/ persist_fails(c) \/ crash(c)
  \/ \E approved \in BOOLEAN : decide(approved)
  \/ approval_expires \/ task_leaves

Spec == Init /\ [][Next]_vars

-----------------------------------------------------------------------------

Finished(c) == caller[c].at = "idle" /\ caller[c].result \in TERMINAL

\* A call is made once.  One that is not replayable, or acts outside, takes effect at
\* most once, whoever makes it, crashes or waits; any other at most max_attempts
\* times.  And it has one outcome: everyone who made the call got the one that is
\* stored, and keeps it.
CallIsMadeOnce ==
  /\ effects <= spec.max_attempts
  /\ spec.replay = "NEVER" \/ spec.effect = "external" => effects <= 1
  /\ \A c \in Callers : Finished(c) => caller[c].result = row

\* A consequential call takes effect only for a caller that found it approved
\* before the approval's expiry.
EffectNeedsApproval ==
  spec.approval_required /\ effects > 0 => lawful /\ approval.status \in {"APPROVED", "EXPIRED"}

\* "If an external outcome is unknown, the operation becomes NEEDS_RECONCILIATION":
\* a call whose effect happened outside is not recorded as failed.
UnknownOutcomeIsQuarantined ==
  spec.effect = "external" /\ effects > 0 => row # "FAILED"
=============================================================================
