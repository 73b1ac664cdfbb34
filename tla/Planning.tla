------------------------------- MODULE Planning -------------------------------
(***************************************************************************)
(* Runs from creation to their first plan: dispatchers that claim a run, or *)
(* take it over when planning looks stale, call the architect model, repair *)
(* its output and persist it, beside an operator who cancels.  One action   *)
(* is one transaction or one model call.  started_at of the stage row is    *)
(* the ownership fence; as it only ever moves on, it is an ordinal here.    *)
(***************************************************************************)
EXTENDS Domain, Integers, FiniteSets

CONSTANTS
  Runs,          \* numbered in the order of created_at
  Planners,      \* dispatchers
  NoRun,
  MaxClaims,     \* claims of one run that may happen
  MaxFaults

ASSUME PlanningAssumption ==
  /\ Runs \subseteq Nat /\ NoRun \notin Runs
  /\ MaxClaims \in Nat \ {0} /\ MaxFaults \in Nat

\* plan_next calls the model up to three times, with feedback.
ModelAttempts == 3

VARIABLES
  run,        \* RunRow: state, cancellation requested, older than stale_after
  stage,      \* RunStageAttemptRow "architect": status and fence
  planner,    \* what a dispatcher is at
  plans,      \* plan revisions persisted, with the fence they were written under
  ownerStale, \* history: the current owner has been at it for stale_after
  faults

vars == <<run, stage, planner, plans, ownerStale, faults>>

RunRow == [state: {"NONE"} \cup RunStatus, cancel: BOOLEAN, stale: BOOLEAN]
RunStageAttemptRow ==
  [status: {"NONE", "RUNNING", "COMPLETED", "FAILED", "CANCELLED"}, fence: 0..MaxClaims]
Resting == [run |-> NoRun, fence |-> 0, attempt |-> 0, at |-> "idle"]

TypeOK ==
  /\ run \in [Runs -> RunRow]
  /\ stage \in [Runs -> RunStageAttemptRow]
  /\ planner \in [Planners -> [run: Runs \cup {NoRun}, fence: 0..MaxClaims, attempt: 0..ModelAttempts,
                               at: {"idle", "context", "check", "model", "planned", "failing"}]]
  /\ plans \in [Runs -> SUBSET (1..MaxClaims)]
  /\ ownerStale \in [Runs -> BOOLEAN]
  /\ faults \in 0..MaxFaults

Init ==
  /\ run = [r \in Runs |-> [state |-> "NONE", cancel |-> FALSE, stale |-> FALSE]]
  /\ stage = [r \in Runs |-> [status |-> "NONE", fence |-> 0]]
  /\ planner = [p \in Planners |-> Resting]
  /\ plans = [r \in Runs |-> {}]
  /\ ownerStale = [r \in Runs |-> FALSE]
  /\ faults = 0

-----------------------------------------------------------------------------

require_run_transition(r, target) == target \in RUN_TRANSITIONS[run[r].state]

\* A state is entered now.
Enter(r, target) == run' = [run EXCEPT ![r].state = target, ![r].stale = FALSE]

create_run(r) ==
  /\ run[r].state = "NONE" /\ \A q \in Runs : q < r => run[q].state # "NONE"
  /\ Enter(r, "PENDING")
  /\ UNCHANGED <<stage, planner, plans, ownerStale, faults>>

\* POST /runs/{id}/cancel: before execution the run is settled at once.
cancel_run(r) ==
  /\ run[r].state \notin TerminalRun \cup {"NONE"}
  /\ IF run[r].state \in {"PENDING", "PLANNING"}
       THEN /\ run' = [run EXCEPT ![r] = [state |-> "CANCELLED", cancel |-> TRUE, stale |-> FALSE]]
            /\ stage' = [stage EXCEPT ![r].status = IF @ = "RUNNING" THEN "CANCELLED" ELSE @]
       ELSE run' = [run EXCEPT ![r].cancel = TRUE] /\ UNCHANGED stage
  /\ UNCHANGED <<planner, plans, ownerStale, faults>>

-----------------------------------------------------------------------------
(* RunPlanningService.plan_next                                            *)

\* Mutant: a run whose planner died is not taken over.
Claimable_pending(r) == run[r].state = "PENDING" /\ ~run[r].cancel

\* PENDING, or PLANNING for longer than stale_after, and not being cancelled.
Claimable(r) ==
  /\ run[r].state = "PENDING" \/ (run[r].state = "PLANNING" /\ run[r].stale)
  /\ ~run[r].cancel

\* _claim_run; a row locked by a concurrent transaction is skipped, so any
\* claimable run may be the first.  A takeover leaves state_entered_at alone.
claim_run(p, r) ==
  /\ planner[p] = Resting
  /\ Claimable(r) /\ stage[r].fence < MaxClaims
  /\ run' = IF run[r].state = "PENDING"
              THEN [run EXCEPT ![r].state = "PLANNING", ![r].stale = FALSE] ELSE run
  /\ stage' = [stage EXCEPT ![r] = [status |-> "RUNNING", fence |-> @.fence + 1]]
  /\ planner' = [planner EXCEPT ![p] = [run |-> r, fence |-> stage[r].fence + 1,
                                        attempt |-> 0, at |-> "context"]]
  /\ ownerStale' = [ownerStale EXCEPT ![r] = FALSE]
  /\ UNCHANGED <<plans, faults>>

\* default_repository_context, in a thread; when it raises the run is failed.
repository_context(p) ==
  /\ planner[p].at = "context"
  /\ \E at \in {"check", "failing"} : planner' = [planner EXCEPT ![p].at = at]
  /\ UNCHANGED <<run, stage, plans, ownerStale, faults>>

\* The run is still PLANNING, not cancelled, and the stage row carries the fence.
is_current_owner(p) ==
  LET r == planner[p].run
  IN  /\ run[r].state = "PLANNING" /\ ~run[r].cancel
      /\ stage[r].status = "RUNNING" /\ stage[r].fence = planner[p].fence

\* The head of the loop: a planner that is no longer the owner goes home.
next_attempt(p) ==
  /\ planner[p].at = "check"
  /\ planner' = [planner EXCEPT ![p] =
       IF is_current_owner(p)
         THEN [planner[p] EXCEPT !.at = "model", !.attempt = planner[p].attempt + 1] ELSE Resting]
  /\ UNCHANGED <<run, stage, plans, ownerStale, faults>>

\* _watch_planning_owner notices the loss first and cancels the model call.
ownership_lost(p) ==
  /\ planner[p].at = "model" /\ ~is_current_owner(p)
  /\ planner' = [planner EXCEPT ![p] = Resting]
  /\ UNCHANGED <<run, stage, plans, ownerStale, faults>>

\* The model returned; scope and validator accept the plan, ...
model_plans(p) ==
  /\ planner[p].at = "model"
  /\ planner' = [planner EXCEPT ![p].at = "planned"]
  /\ UNCHANGED <<run, stage, plans, ownerStale, faults>>

\* An exception in an attempt: another one, or the run is failed.
Raised(p) ==
  planner' = [planner EXCEPT ![p].at = IF planner[p].attempt < ModelAttempts THEN "check" ELSE "failing"]

\* ... or it raised, or its plan is invalid.
model_fails(p) ==
  /\ planner[p].at = "model"
  /\ Raised(p)
  /\ UNCHANGED <<run, stage, plans, ownerStale, faults>>

\* The checks of _persist_plan under the run's row lock.
Fenced(p) == is_current_owner(p)

\* Mutant: whoever computed a plan persists it.
persist_plan_late(p) ==
  LET r == planner[p].run
  IN  /\ planner[p].at = "planned"
      /\ plans' = [plans EXCEPT ![r] = @ \cup {planner[p].fence}]
      /\ Enter(r, "EXECUTING")
      /\ stage' = [stage EXCEPT ![r].status = "COMPLETED"]
      /\ planner' = [planner EXCEPT ![p] = Resting]
      /\ UNCHANGED <<ownerStale, faults>>

\* Mutant: the stage row stays RUNNING.
persist_plan_open(p) ==
  LET r == planner[p].run
  IN  /\ planner[p].at = "planned"
      /\ IF Fenced(p)
           THEN plans' = [plans EXCEPT ![r] = @ \cup {planner[p].fence}] /\ Enter(r, "EXECUTING")
           ELSE UNCHANGED <<run, plans>>
      /\ planner' = [planner EXCEPT ![p] = Resting]
      /\ UNCHANGED <<stage, ownerStale, faults>>

\* _persist_plan: revision 1 and its tasks, the run EXECUTING, the stage done.
persist_plan(p) ==
  LET r == planner[p].run
  IN  /\ planner[p].at = "planned"
      /\ IF Fenced(p)
           THEN /\ require_run_transition(r, "EXECUTING")
                /\ plans' = [plans EXCEPT ![r] = @ \cup {planner[p].fence}]
                /\ Enter(r, "EXECUTING")
                /\ stage' = [stage EXCEPT ![r].status = "COMPLETED"]
           ELSE UNCHANGED <<run, stage, plans>>
      /\ planner' = [planner EXCEPT ![p] = Resting]
      /\ UNCHANGED <<ownerStale, faults>>

\* A statement of _persist_plan failed (a task id taken by another run meanwhile):
\* rolled back, and the attempt counts as failed.
persist_fails(p) ==
  /\ planner[p].at = "planned" /\ Fenced(p)
  /\ Raised(p)
  /\ UNCHANGED <<run, stage, plans, ownerStale, faults>>

\* _fail_run
fail_run(p) ==
  LET r == planner[p].run
  IN  /\ planner[p].at = "failing"
      /\ IF Fenced(p)
           THEN /\ require_run_transition(r, "FAILED")
                /\ Enter(r, "FAILED")
                /\ stage' = [stage EXCEPT ![r].status = "FAILED"]
           ELSE UNCHANGED <<run, stage>>
      /\ planner' = [planner EXCEPT ![p] = Resting]
      /\ UNCHANGED <<plans, ownerStale, faults>>

-----------------------------------------------------------------------------

\* The owner's planning lasts longer than stale_after.
goes_stale(r) ==
  /\ run[r].state = "PLANNING" /\ ~(run[r].stale /\ ownerStale[r])
  /\ run' = [run EXCEPT ![r].stale = TRUE]
  /\ ownerStale' = [ownerStale EXCEPT ![r] = TRUE]
  /\ UNCHANGED <<stage, planner, plans, faults>>

\* The dispatcher dies or is restarted.
crash(p) ==
  /\ planner[p] # Resting /\ faults < MaxFaults
  /\ planner' = [planner EXCEPT ![p] = Resting]
  /\ faults' = faults + 1
  /\ UNCHANGED <<run, stage, plans, ownerStale>>

PlanStep(p) ==
  \/ repository_context(p) \/ next_attempt(p) \/ model_plans(p) \/ model_fails(p)
  \/ persist_plan(p) \/ fail_run(p)

Next ==
  \/ \E r \in Runs : create_run(r) \/ cancel_run(r) \/ goes_stale(r)
  \/ \E p \in Planners :
       \/ \E r \in Runs : claim_run(p, r)
       \/ PlanStep(p) \/ ownership_lost(p) \/ persist_fails(p) \/ crash(p)

Spec == Init /\ [][Next]_vars

-----------------------------------------------------------------------------

Owns(p, r) == planner[p].run = r /\ planner[p].fence = stage[r].fence

\* Two dispatchers never both plan a run to the end: a run has at most one plan,
\* exactly when it got past planning, written under the last fence handed out.
OnePlanPerRun ==
  \A r \in Runs :
    /\ plans[r] \subseteq {stage[r].fence}
    /\ plans[r] # {} <=> stage[r].status = "COMPLETED"
    /\ run[r].state = "EXECUTING" <=> plans[r] # {}

\* What a planner that was taken over, or whose run was cancelled, still does
\* changes nothing: only the dispatcher of the last claim settles a run, and a
\* settled run stays as it is.
OnlyTheOwnerSettles ==
  [][\A r \in Runs :
       /\ run[r].state = "PLANNING" /\ run'[r].state \in {"EXECUTING", "FAILED"} =>
            \E p \in Planners : Owns(p, r) /\ planner'[p] = Resting
       /\ run[r].state \in TerminalRun => run'[r].state = run[r].state /\ plans'[r] = plans[r]]_vars

\* "A stale-takeover restarts the stage clock": a run is taken over only when
\* its current owner has been planning for stale_after.
TakeoverRestartsClock ==
  [][\A r \in Runs :
       stage[r].fence > 0 /\ stage'[r].fence > stage[r].fence => ownerStale[r]]_vars
=============================================================================
