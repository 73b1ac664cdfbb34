----------------------------- MODULE AgentStage -----------------------------
(***************************************************************************)
(* One stage of a task: AgentRuntime's loop of model requests and tool      *)
(* calls, GatewayToolDispatcher under it and the evidence its answer needs. *)
(* The model is free to answer anything; the provider and the tools may     *)
(* fail at any call.  One action is one model request or one tool call.     *)
(***************************************************************************)
EXTENDS Integers, Sequences

CONSTANTS
  Nodes,        \* stages to look at
  AllowedTools, \* tools the task's policy allows
  Models,       \* length of (primary_model, *fallback_models)
  TurnBudget,
  TokenBudget,
  CostBudget,
  Inputs,       \* prompt sizes
  Outputs,      \* completion sizes, as far as max_output_tokens permits
  MIN_OUTPUT_TOKENS, MAX_OUTPUT_TOKENS,
  Prices,       \* cost of one call
  CalledTools,  \* names the model comes up with
  MaxCalls      \* tool calls in one response

MAX_SAME_MODEL_RETRIES == 3
max_schema_repairs == 3

VARIABLES
  node,      \* the stage
  prior,     \* results of the attempt's earlier stages, in order
  agent,     \* AgentRuntime._run's locals
  pending,   \* tool calls of the last response still to dispatch
  calls,     \* all_calls: name, and whether the id is in successful_calls
  results,   \* GatewayToolDispatcher.results
  recorded,  \* ModelCallRow: rows, one for each ordinal of a request, and their tokens
  code,      \* history: number of writes to the worktree
  claimed    \* verification_passed of the output that was accepted

vars == <<node, prior, agent, pending, calls, results, recorded, code, claimed>>

Tools == {"read_file", "search_code", "apply_patch", "run_tests"}
Reads == {"read_file", "search_code"}
Operations == {"lint", "full_test"}   \* two of run_tests' operations
Claims == {"passed", "failed", "none"}

NODE_TOOL_POLICY(n) ==
  CASE n \in {"recall", "evidence", "synthesis"} -> {}
    [] n \in {"investigate", "inspect"} -> Reads
    [] n \in {"implement", "generate_tests", "refactor", "draft"} -> Tools
    [] OTHER -> Reads \cup {"run_tests"}

mutation_nodes == {"implement", "generate_tests", "refactor", "draft"}
verification_nodes == {"targeted_test", "execute", "regression_verify", "verify", "validate_examples"}
Granted == NODE_TOOL_POLICY(node) \cap AllowedTools   \* tool_grants

\* ToolCallResult: version and operation say what a test result really is about.
ToolCallResult ==
  [tool: Tools, ok: BOOLEAN, version: Nat, passed: Claims, operation: Operations \cup {"none"},
   asked: Operations \cup {"none"}]

Result(tool, ok, version) ==
  [tool |-> tool, ok |-> ok, version |-> version, passed |-> "none", operation |-> "none", asked |-> "none"]
Tested(version, passed, operation) ==
  [tool |-> "run_tests", ok |-> TRUE, version |-> version, passed |-> passed,
   operation |-> operation, asked |-> operation]

\* Patches and tests the attempt's earlier stages may have left, by the task's
\* sequence of stages.
TestsOf(version) == {<<Tested(version, p, "full_test")>> : p \in {"passed", "failed"}}
Patched == <<Result("apply_patch", TRUE, 1)>>
Histories(n) ==
  CASE n \in {"refactor", "evidence"} -> {<<>>} \cup TestsOf(0)
    [] n \in {"targeted_test", "execute", "validate_examples", "regression_verify"} ->
         {Patched \o t : t \in {<<>>} \cup TestsOf(1)}
    [] n = "review" -> {Patched \o t : t \in TestsOf(1)}
    [] OTHER -> {<<>>}

\* Mutable locals of _run; at is where it waits.
Locals ==
  [at: {"recall", "request", "calls", "accepted", "failed"}, repair: {"none", "apply_patch", "run_tests", "other"},
   turn: Nat, requests: Nat, model: Nat, transient: Nat, schema: Nat, tokens: Nat, cost: Nat]

Start == [at |-> "recall", turn |-> 1, requests |-> 0, model |-> 1, transient |-> 0, schema |-> 0,
          repair |-> "none", tokens |-> 0, cost |-> 0]

TypeOK ==
  /\ node \in Nodes /\ prior \in Histories(node)
  /\ agent \in Locals /\ agent.turn \in 1..TurnBudget + 1 /\ agent.model \in 1..Models
  /\ agent.transient \in 0..MAX_SAME_MODEL_RETRIES /\ agent.schema \in 0..max_schema_repairs
  /\ pending \in Seq(CalledTools) /\ Len(pending) <= MaxCalls
  /\ calls \in Seq([name: CalledTools, ok: BOOLEAN]) /\ results \in Seq(ToolCallResult)
  /\ recorded \in [rows: Nat, tokens: Nat] /\ code \in Nat /\ claimed \in Claims

Init ==
  /\ node \in Nodes /\ prior \in Histories(node)
  /\ agent = Start /\ pending = <<>> /\ calls = <<>> /\ results = <<>>
  /\ recorded = [rows |-> 0, tokens |-> 0]
  /\ code = IF \E i \in DOMAIN prior : prior[i].tool = "apply_patch" THEN 1 ELSE 0
  /\ claimed = "none"

-----------------------------------------------------------------------------
(* The tools offered with a request                                        *)

Succeeded(i, name) == calls[i].name = name /\ calls[i].ok

has_patch == \E i \in DOMAIN calls : Succeeded(i, "apply_patch")
has_tests ==
  \E i \in DOMAIN calls :
    Succeeded(i, "run_tests") /\ \A j \in DOMAIN calls : Succeeded(j, "apply_patch") => j < i
has_reads == \E i \in DOMAIN calls : calls[i].name \in Reads

\* Mutant: reading is taken for the work of a mutation stage.
active_tools_read ==
  IF has_reads THEN {} ELSE Granted

active_tools ==
  Granted \cap
    CASE agent.repair = "apply_patch" -> {"apply_patch", "read_file"}
      [] agent.repair = "run_tests" -> {"run_tests"}
      [] OTHER ->
           IF "apply_patch" \in Granted
             THEN IF has_patch
                    THEN IF "run_tests" \in Granted /\ ~has_tests THEN {"run_tests"} ELSE {}
                    ELSE IF has_reads \/ has_tests THEN {"apply_patch", "read_file"} ELSE Reads
             ELSE IF "run_tests" \in Granted
                    THEN IF has_tests THEN {} ELSE {"run_tests"}
                    ELSE IF Granted \cap Reads # {} /\ has_reads THEN {} ELSE Tools

-----------------------------------------------------------------------------
(* AgentRuntime._run                                                       *)

remaining_tokens == TokenBudget - agent.tokens

\* Mutant: the completion is not held to what is left.
max_output_uncapped == MAX_OUTPUT_TOKENS

max_output_tokens ==
  LET share == remaining_tokens \div 4
      fair == IF share < MAX_OUTPUT_TOKENS THEN share ELSE MAX_OUTPUT_TOKENS
  IN  IF fair < MIN_OUTPUT_TOKENS THEN MIN_OUTPUT_TOKENS ELSE fair

\* MemoryPort.get_context, or the exception it raised.
get_context ==
  /\ agent.at = "recall"
  /\ \E at \in {"request", "failed"} : agent' = [agent EXCEPT !.at = at]
  /\ UNCHANGED <<node, prior, pending, calls, results, recorded, code, claimed>>

\* The head of the loop: no turn, or no token, is left.
budget_exhausted ==
  /\ agent.at = "request" /\ (agent.turn > TurnBudget \/ remaining_tokens <= 0)
  /\ agent' = [agent EXCEPT !.at = "failed"]
  /\ UNCHANGED <<node, prior, pending, calls, results, recorded, code, claimed>>

Requesting == agent.at = "request" /\ agent.turn <= TurnBudget /\ remaining_tokens > 0

\* UsageRecorder.record: one row for each ordinal, the first wins.
record(tokens) ==
  recorded' = IF agent.requests + 1 <= recorded.rows THEN recorded
              ELSE [rows |-> recorded.rows + 1, tokens |-> recorded.tokens + tokens]

Spent(tokens, price) ==
  [agent EXCEPT !.requests = @ + 1, !.tokens = @ + tokens, !.cost = @ + price]

\* Retry the same model, fall back to the next, or raise.
after_failure(a, class) ==
  IF class = "transient" /\ a.transient < MAX_SAME_MODEL_RETRIES THEN [a EXCEPT !.transient = @ + 1]
  ELSE IF class \in {"transient", "permanent"} /\ a.model < Models
    THEN [a EXCEPT !.model = @ + 1, !.transient = 0]
  ELSE [a EXCEPT !.at = "failed"]

\* _failed_call_usage: TRANSIENT and TIMEOUT are charged the prompt.
failed_call_usage(class, tokens) == IF class = "transient" THEN tokens ELSE 0

\* GatewayError: TRANSIENT or TIMEOUT, PERMANENT or CAPABILITY, CANCELLED or BUDGET.
complete_fails(class) ==
  /\ Requesting
  /\ \E input \in Inputs, price \in Prices :
       LET t == failed_call_usage(class, input)
       IN  record(t) /\ agent' = after_failure(Spent(t, failed_call_usage(class, price)), class)
  /\ UNCHANGED <<node, prior, pending, calls, results, code, claimed>>

\* _check_budget
within_budget(a) == a.tokens <= TokenBudget /\ a.cost <= CostBudget

\* What a response may leave of the stage's state once its usage is charged.
Charged ==
  {Spent(input + output, price) :
     input \in Inputs, output \in {n \in Outputs : n <= max_output_tokens}, price \in Prices}

\* Whatever the response holds, it came too late.
complete_exceeds ==
  /\ Requesting
  /\ \E a \in Charged :
       record(a.tokens - agent.tokens) /\ ~within_budget(a) /\ agent' = [a EXCEPT !.at = "failed"]
  /\ UNCHANGED <<node, prior, pending, calls, results, code, claimed>>

\* The model calls tools, offered ones or not.
complete_calls ==
  /\ Requesting
  /\ \E a \in Charged :
       /\ record(a.tokens - agent.tokens) /\ within_budget(a)
       /\ agent' = [a EXCEPT !.at = "calls", !.schema = 0, !.repair = "none"]
  /\ pending' \in UNION {[1..n -> CalledTools] : n \in 1..MaxCalls}
  /\ UNCHANGED <<node, prior, calls, results, code, claimed>>

-----------------------------------------------------------------------------
(* The evidence an output needs: require_evidence, validate_tool_evidence  *)

LatestOf(s, tool) == {i \in DOMAIN s : s[i].tool = tool /\ \A j \in DOMAIN s : s[j].tool = tool => j <= i}
unrecovered == {t \in Tools : \E i \in LatestOf(results, t) : ~results[i].ok}

\* The first complaint, by the tool its text names; changed_paths are cut to the
\* actual writes and the claim is replaced by the latest test's before they are compared.
missing_evidence ==
  CASE node \in mutation_nodes /\ ~\E i \in LatestOf(results, "apply_patch") : results[i].ok -> "apply_patch"
    [] "apply_patch" \in unrecovered -> "apply_patch"
    [] "run_tests" \in unrecovered -> "run_tests"
    [] unrecovered # {} -> "other"
    [] node = "investigate" /\ ~\E i \in DOMAIN results : results[i].tool \in Reads -> "other"
    [] node \in verification_nodes /\ ~\E i \in DOMAIN results : results[i].tool = "run_tests" -> "run_tests"
    [] OTHER -> "none"

\* repair_instructions: what the error names if it is granted, else what is offered.
repair_instructions(error) ==
  CASE error = "apply_patch" /\ "apply_patch" \in Granted -> "apply_patch"
    [] error = "run_tests" -> IF "run_tests" \in Granted THEN "run_tests" ELSE "other"
    [] "apply_patch" \in active_tools -> "apply_patch"
    [] "run_tests" \in active_tools -> "run_tests"
    [] active_tools # {} -> "other"
    [] OTHER -> "none"

\* The model answers with an output; it may not fit the schema.
complete_answers ==
  /\ Requesting
  /\ \E a \in Charged, valid \in BOOLEAN, said \in Claims :
       LET error == IF valid THEN missing_evidence ELSE "other" IN
       /\ record(a.tokens - agent.tokens) /\ within_budget(a)
       /\ IF error = "none"
            THEN agent' = [a EXCEPT !.at = "accepted"] /\ claimed' = said
            ELSE /\ agent' = IF a.schema >= max_schema_repairs THEN [a EXCEPT !.at = "failed"]
                             ELSE [a EXCEPT !.schema = @ + 1, !.turn = @ + 1,
                                            !.repair = repair_instructions(error)]
                 /\ UNCHANGED claimed
  /\ UNCHANGED <<node, prior, pending, calls, results, code>>

-----------------------------------------------------------------------------
(* AgentRuntime._dispatch_tools, GatewayToolDispatcher.dispatch            *)

\* A call is done: the next one, or the next turn.
Answered(ok) ==
  /\ pending' = Tail(pending) /\ calls' = Append(calls, [name |-> Head(pending), ok |-> ok])
  /\ agent' = IF Len(pending) = 1 THEN [agent EXCEPT !.at = "request", !.turn = @ + 1] ELSE agent

Dispatching(tool) == agent.at = "calls" /\ Head(pending) = tool

\* A tool that is not granted is answered with an error and never dispatched.
refuse ==
  /\ agent.at = "calls" /\ Head(pending) \notin Granted
  /\ Answered(FALSE)
  /\ UNCHANGED <<node, prior, results, recorded, code, claimed>>

\* A file read before and not patched since is answered from the results, as success.
dispatch_read(tool) ==
  /\ tool \in Granted \cap Reads /\ Dispatching(tool)
  /\ \E ok \in BOOLEAN : Answered(ok) /\ results' = Append(results, Result(tool, ok, code))
  /\ UNCHANGED <<node, prior, recorded, code, claimed>>

\* apply_patch; one that failed may have written, when its answer was lost.
dispatch_patch ==
  /\ "apply_patch" \in Granted /\ Dispatching("apply_patch")
  /\ \E ok, written \in BOOLEAN :
       /\ ok => written
       /\ Answered(ok)
       /\ code' = IF written THEN code + 1 ELSE code
       /\ results' = Append(results, Result("apply_patch", ok, code'))
  /\ UNCHANGED <<node, prior, recorded, claimed>>

\* Mutant: the first test of the stage answers for all.
cached_tests_ever == {i \in DOMAIN results : results[i].tool = "run_tests" /\ results[i].ok}

\* Completed tests after the last completed patch, whatever they were asked for.
cached_tests ==
  {i \in DOMAIN results :
     /\ results[i].tool = "run_tests" /\ results[i].ok
     /\ \A j \in DOMAIN results : results[j].tool = "apply_patch" /\ results[j].ok => j < i}

dispatch_tests ==
  /\ "run_tests" \in Granted /\ Dispatching("run_tests")
  /\ \E asked \in Operations :
       \/ \E i \in cached_tests :
            /\ \A j \in cached_tests : i <= j
            /\ results' = Append(results, [results[i] EXCEPT !.asked = asked]) /\ Answered(TRUE)
       \/ /\ cached_tests = {}
          /\ \/ \E p \in {"passed", "failed"} : results' = Append(results, Tested(code, p, asked)) /\ Answered(TRUE)
             \/ results' = Append(results, Result("run_tests", FALSE, code)) /\ Answered(FALSE)
  /\ UNCHANGED <<node, prior, recorded, code, claimed>>

\* The dispatcher raised, or wall_time_seconds have passed.
raises ==
  /\ agent.at \in {"request", "calls"}
  /\ agent' = [agent EXCEPT !.at = "failed"]
  /\ UNCHANGED <<node, prior, pending, calls, results, recorded, code, claimed>>

-----------------------------------------------------------------------------

Step ==
  \/ get_context \/ budget_exhausted \/ complete_exceeds \/ complete_calls \/ complete_answers
  \/ \E class \in {"transient", "permanent", "cancelled"} : complete_fails(class)
  \/ refuse \/ dispatch_patch \/ dispatch_tests
  \/ \E tool \in Reads : dispatch_read(tool)

Next == Step \/ raises

Spec == Init /\ [][Next]_vars

-----------------------------------------------------------------------------
(* Properties                                                              *)

\* A stage stays within its budgets through retries, fallbacks and repairs.  Its
\* requests are bounded by the turns and the retries of each model with the last try;
\* the recorded rows, one for each outbound request, add up to the totals the budgets
\* are held to; the cap on each completion leaves at most one prompt and one least
\* completion that the token budget did not hold; an output is accepted only inside
\* both budgets.
SpendingIsBounded ==
  /\ agent.requests <= TurnBudget + Models * (MAX_SAME_MODEL_RETRIES + 1)
  /\ recorded = [rows |-> agent.requests, tokens |-> agent.tokens]
  /\ \E input \in Inputs : agent.tokens < TokenBudget + input + MIN_OUTPUT_TOKENS
  /\ agent.at = "accepted" => agent.tokens <= TokenBudget /\ agent.cost <= CostBudget

\* The comment on the reservation: "the ceiling becomes a pre-condition".
CeilingIsAPrecondition == agent.tokens <= TokenBudget

\* An accepted output rests on what this stage did, no tool's last call having
\* failed: a mutation stage on a patch that is the worktree's last write, a
\* verification stage on tests of the code as it is.  No test result, cached or not,
\* is older than a patch that completed before it.
AcceptedIsEvidenced ==
  /\ agent.at = "accepted" =>
       /\ \A t \in Tools : \A i \in DOMAIN results :
            (results[i].tool = t /\ ~results[i].ok) =>
              \E j \in DOMAIN results : j > i /\ results[j].tool = t /\ results[j].ok
       /\ node \in mutation_nodes =>
            \E i \in DOMAIN results :
              results[i].tool = "apply_patch" /\ results[i].ok /\ results[i].version = code
       /\ node \in verification_nodes =>
            \E i \in DOMAIN results :
              results[i].tool = "run_tests" /\ results[i].ok /\ results[i].version = code
  /\ \A i, j \in DOMAIN results :
       /\ j < i /\ results[j].tool = "apply_patch" /\ results[j].ok
       /\ results[i].tool = "run_tests" /\ results[i].ok
       => results[i].version >= results[j].version

\* As long as no call failed, a model that uses what it is offered is not left
\* without a tool while its answer still lacks evidence.
OffersLeadToEvidence ==
  agent.at = "request" /\ (\A i \in DOMAIN calls : calls[i].ok) /\ active_tools = {}
    => missing_evidence = "none"

\* "Use the granted tools when evidence is missing": after a failed call too, a
\* stage that lacks evidence offers a tool it was granted.
RecoveryIsOffered ==
  agent.at = "request" /\ missing_evidence # "none" /\ Granted # {} => active_tools # {}

\* "Prevent repetitive duplicate test executions": a test answered from the cache
\* repeats the operation that was run.
CachedIsDuplicate ==
  \A i \in DOMAIN results :
    results[i].tool = "run_tests" /\ results[i].ok => results[i].operation = results[i].asked

\* "Refuse model claims that are not supported by the durable tool outcomes": the
\* claim that is stored is the last completed test's, of the code as it is.
ClaimIsBacked ==
  agent.at = "accepted" /\ claimed # "none" =>
    \E i \in DOMAIN (prior \o results) :
      LET r == (prior \o results)[i]
      IN  r.tool = "run_tests" /\ r.ok /\ r.passed = claimed /\ r.version = code
=============================================================================
