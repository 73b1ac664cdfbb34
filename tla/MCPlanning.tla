------------------------------ MODULE MCPlanning ------------------------------
(***************************************************************************)
(* Planning for TLC: the stage that plans a run, and the validator that it  *)
(* and the repair controller put every plan through.  The two share no      *)
(* state: a behaviour is one of the stage, of two dispatchers that race or  *)
(* of one under fairness, or one of the validator on a given proposal.      *)
(***************************************************************************)
EXTENDS Planning
CONSTANTS p1, p2
VARIABLES part, plan, revision, phase

validatorVars == <<plan, revision, phase>>

TwoPlanners == {p1, p2}
One == INSTANCE Planning WITH Planners <- {p1}

Inputs == INSTANCE MCValidator WITH
  Proposals <- {}, Mutations <- {}, TakenIds <- {1},
  MaxPlanDepth <- 3, MaxDynamicTasks <- 2, MaxTotalBudget <- 4, MaxTotalSeconds <- 5, MaxRevision <- 2
Answered == Inputs!Answered
Repairs == Inputs!Repairs

V == INSTANCE Validator WITH
  Proposals <- Answered, Mutations <- Repairs, TakenIds <- {1},
  MaxPlanDepth <- 3, MaxDynamicTasks <- 2, MaxTotalBudget <- 4, MaxTotalSeconds <- 5, MaxRevision <- 2

MCInit ==
  \/ Init /\ part \in {"race", "fair"} /\ plan = {} /\ revision = 0 /\ phase = "none"
  \/ Init /\ part = "validator" /\ V!Init

OneFault == faults' <= 1

MCNext ==
  \/ part = "race" /\ Next /\ OneFault /\ UNCHANGED <<part, validatorVars>>
  \/ part = "fair" /\ One!Next /\ UNCHANGED <<part, validatorVars>>
  \/ part = "validator" /\ V!Next /\ UNCHANGED <<part, vars>>

\* plan_next is called in every cycle of the dispatcher, model calls are bounded
\* by their timeouts, and the clock goes on.
Fairness ==
  LET on == part = "fair" IN
  /\ WF_vars(on /\ PlanStep(p1)) /\ WF_vars(on /\ \E r \in Runs : claim_run(p1, r))
  /\ \A r \in Runs : WF_vars(on /\ goes_stale(r))

MCSpec == MCInit /\ [][MCNext]_<<vars, part, validatorVars>> /\ Fairness

\* Every accepted run is planned, failed or cancelled, whatever crashes.
EveryRunIsPlanned ==
  part = "fair" =>
    \A r \in Runs : run[r].state = "PENDING" ~> run[r].state \in TerminalRun \cup {"EXECUTING"}

\* As far as the task graph goes, the validator accepts exactly the sound plans:
\* Kahn's order, the depth pass and the ancestor search agree with the definitions
\* of acyclic, longest chain and reachability, and the depth is the longest chain.
VerdictIsExact == part = "validator" => V!VerdictIsExact

\* What was validated is what is stored: renaming ids that other runs have, and
\* adding repair tasks, leaves a plan that still passes, and finalization finds
\* one validation sink among the tasks of its latest revision.  No stage of it is
\* refused a tool it needs.
StoredPlanStaysValid == part = "validator" => V!StoredPlanStaysValid
=============================================================================
