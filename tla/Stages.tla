------------------------------- MODULE Stages -------------------------------
(***************************************************************************)
(* The stages of tasks beside the gateway and the planner: AgentStage with *)
(* constants and variables of its own, and what is stated of it.           *)
(***************************************************************************)
EXTENDS Integers

CONSTANTS
  Nodes, AllowedTools, Models, TurnBudget, TokenBudget, CostBudget, Inputs, Outputs,
  MIN_OUTPUT_TOKENS, MAX_OUTPUT_TOKENS, Prices, CalledTools, MaxCalls

\* Budgets, sizes and prices are numbers; every request has a prompt and may be
\* answered, and there is a model to send it to.
Budgets ==
  /\ Inputs \in SUBSET Nat /\ Inputs # {} /\ Outputs \in SUBSET Nat /\ Prices \in SUBSET Nat
  /\ TurnBudget \in Nat /\ TokenBudget \in Nat /\ Models \in Nat \ {0}
  /\ MIN_OUTPUT_TOKENS \in Nat \ {0} /\ MAX_OUTPUT_TOKENS \in Nat
ASSUME StagesAssumption == Budgets

VARIABLES node, prior, agent, pending, calls, results, recorded, code, claimed

S == INSTANCE AgentStage

\* A stage stays within its budgets through retries, fallbacks and repairs.  Its
\* requests are bounded, the recorded rows add up to the totals the budgets are held
\* to, at most one prompt and one least completion exceed the token budget, and an
\* output is accepted only inside both budgets.
SpendingIsBounded == S!SpendingIsBounded

\* An accepted output rests on what this stage did, no tool's last call having
\* failed: a mutation stage on a patch that is the worktree's last write, a
\* verification stage on tests of the code as it is.  No test result, cached or not,
\* is older than a patch that completed before it.
AcceptedIsEvidenced == S!AcceptedIsEvidenced

\* As long as no call failed, a model that uses what it is offered is not left
\* without a tool while its answer still lacks evidence.
OffersLeadToEvidence == S!OffersLeadToEvidence
=============================================================================
