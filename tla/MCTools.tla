------------------------------- MODULE MCTools -------------------------------
(***************************************************************************)
(* What a worker runs, for TLC: a call of a tool through the gateway and a  *)
(* stage of an agent, which share no state.  A behaviour is one of two      *)
(* callers of one tool call, of a stage that is after evidence, or of a     *)
(* stage that is after its budgets.                                         *)
(***************************************************************************)
EXTENDS ToolGateway, Stages
CONSTANTS c1, c2
VARIABLE part

agentVars == <<node, prior, agent, pending, calls, results, recorded, code, claimed>>

TwoCallers == {c1, c2}
\* Retrying on timeouts is set wherever the replay policy allows it.
AllSpecs == {s \in ToolSpec : s.retry}

Stage == INSTANCE AgentStage WITH
  Nodes <- {"investigate", "implement", "refactor", "targeted_test"},
  Inputs <- {1}, Outputs <- {0}, Prices <- {0}
Budget == INSTANCE AgentStage WITH
  Nodes <- {"evidence"}, CalledTools <- {"read_file"}, Prices <- {1}

NoAgent == Budget!Init /\ prior = <<>>
NoCall == Init /\ spec = CHOOSE s \in Specs : TRUE

MCInit ==
  \/ part = "gateway" /\ Init /\ NoAgent
  \/ part = "stage" /\ NoCall /\ Stage!Init
  \/ part = "budget" /\ NoCall /\ Budget!Init

\* Retries of a model call are left to the other stage.
NoRetry == agent'.transient = 0

MCNext ==
  \/ part = "gateway" /\ Next /\ UNCHANGED <<part, agentVars>>
  \/ part = "stage" /\ Stage!Next /\ NoRetry /\ UNCHANGED <<part, vars>>
  \/ part = "budget" /\ Budget!Next /\ UNCHANGED <<part, vars>>

\* A started call goes on: the executor is bounded by its timeout, the waiter by
\* its deadline.  The coroutine of a stage goes on: every request and tool call
\* ends within its own timeout.
Fairness ==
  /\ \A c \in Callers : WF_vars(part = "gateway" /\ CallStep(c))
  /\ WF_agentVars(part = "budget" /\ Budget!Step)

MCSpec == MCInit /\ [][MCNext]_<<part, vars, agentVars>> /\ Fairness

-----------------------------------------------------------------------------

\* Every call returns, also one that waits for another caller's claim; without a crash
\* a claim ends in an outcome; and every stage ends, accepted or failed, although
\* transport retries use up no turn.
CallsAndStagesEnd ==
  /\ part = "gateway" => \A c \in Callers : caller[c].at # "idle" ~> caller[c].at = "idle"
  /\ part = "gateway" => (row = "CLAIMED" ~> row \in TERMINAL \/ faults > 0)
  /\ part = "budget" => <>(agent.at \in {"accepted", "failed"})
=============================================================================
