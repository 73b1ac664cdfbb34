------------------------------- MODULE Validator -------------------------------
(***************************************************************************)
(* A plan on its way from the architect's output to the tasks table, and    *)
(* its repair mutations: TaskPlanValidator (planning/validator.py) with the *)
(* settings the dispatcher uses, _assign_required_tools and the id remap of *)
(* _persist_plan, and the sink rules of workflows/finalization/evidence.py. *)
(* A plan is a set of task records; what the validator computes is compared *)
(* with definitions that do not follow its algorithm.                       *)
(***************************************************************************)
EXTENDS TaskPolicy, Sequences, SequencesExt

CONSTANTS
  Proposals,       \* plans the architect may answer with
  Mutations,       \* sets of tasks the debugger may answer with
  TakenIds,        \* task ids other runs already have
  MaxPlanDepth, MaxDynamicTasks, MaxTotalBudget, MaxTotalSeconds,  \* PlanLimits
  MaxRevision      \* bound on the accepted mutations

VARIABLES
  plan,       \* the plan at hand, and its revision
  revision,
  phase       \* "proposed", "accepted", "persisted", "rejected", "raised"

vars == <<plan, revision, phase>>

\* "." has no parts, "../x" escapes, "c:x" names a drive.
Paths == {[absolute |-> FALSE, parts |-> <<"src">>], [absolute |-> FALSE, parts |-> <<>>],
          [absolute |-> FALSE, parts |-> <<"..", "x">>], [absolute |-> TRUE, parts |-> <<"x">>],
          [absolute |-> FALSE, parts |-> <<":", "x">>]}

\* TaskSpec: its validator refuses a self-dependency, and dependencies are unique.
TaskSpec(t) ==
  /\ t.type \in TaskType /\ t.risk \in RiskLevel /\ t.rev \in 1..MaxRevision
  /\ t.id \notin t.deps /\ t.paths \subseteq Paths /\ t.criteria \in BOOLEAN

Ids(p) == {t.id : t \in p}
Task(p, i) == CHOOSE t \in p : t.id = i

-----------------------------------------------------------------------------
(* TaskPlanValidator, with require_final_validation_sink and               *)
(* enforce_execution_policy on and all four tools allowed                  *)

\* path.parts[0] is only looked at when nothing before decides.
path_raises(path) == ~path.absolute /\ path.parts = <<>>

is_repository_relative(path) ==
  /\ ~path.absolute /\ ".." \notin ToSet(path.parts)
  /\ path.parts # <<>> => Head(path.parts) # ":"

validate_task_scope(t, rev) == IF t.rev > rev THEN {"PLAN_REVISION"} ELSE {}

If(condition, code) == IF condition THEN {code} ELSE {}

validate_task_semantics(t, p) ==
     If(t.capability \notin TASK_CAPABILITY_NAMES[t.type], "INVALID_TASK_CAPABILITY")
  \cup If(~(TASK_REQUIRED_TOOLS[t.type] \subseteq t.tools), "MISSING_STAGE_TOOL")
  \cup If(risk_exceeds(task_minimum_risk(t.type), t.risk), "INSUFFICIENT_TASK_RISK")
  \cup If(~t.criteria, "MISSING_ACCEPTANCE_CRITERIA")
  \cup If(~(t.tools \subseteq DOMAIN Registry), "UNSUPPORTED_TOOL")
  \cup If(risk_exceeds(t.risk, HIGH), "RISK_CEILING_EXCEEDS_POLICY")
  \cup If(\E path \in t.paths : ~is_repository_relative(path), "REPOSITORY_PATH_ESCAPE")
  \cup If(t.id \in t.deps, "SELF_DEPENDENCY")
  \cup If(~(t.deps \subseteq Ids(p) \cup {t.id}), "MISSING_DEPENDENCY")

\* Kahn's algorithm with a heap: the ready task with the smallest id goes next, and
\* frees the dependents whose last open dependency it was.
topological_order(p) ==
  LET RECURSIVE Kahn(_, _)
      Kahn(ready, result) ==
        IF ready = {} THEN result
        ELSE LET next == CHOOSE i \in ready : \A j \in ready : i <= j
                 done == ToSet(result) \cup {next}
                 freed == {t.id : t \in {u \in p : next \in u.deps /\ u.deps \cap Ids(p) \subseteq done}}
             IN  Kahn((ready \ {next}) \cup freed, Append(result, next))
  IN  Kahn({t.id : t \in {u \in p : u.deps \cap Ids(p) = {}}}, <<>>)

\* Mutant: the depth of the dependency listed last, not of the deepest one.
maximum_depth_of_one(p, order) ==
  LET depths == FoldLeft(LAMBDA depth, i :
        LET known == Task(p, i).deps \cap DOMAIN depth
            below == IF known = {} THEN 0 ELSE depth[CHOOSE j \in known : \A k \in known : k <= j]
        IN  [j \in DOMAIN depth \cup {i} |-> IF j = i THEN 1 + below ELSE depth[j]], <<>>, order)
  IN  IF DOMAIN depths = {} THEN 0 ELSE maximum_risk({depths[i] : i \in DOMAIN depths})

\* One pass over the order; what a cycle left out of it has no depth.
maximum_depth(p, order) ==
  LET Max0(S) == IF S = {} THEN 0 ELSE CHOOSE n \in S : \A m \in S : m <= n
      depths == FoldLeft(LAMBDA depth, i :
        LET known == Task(p, i).deps \cap DOMAIN depth
            below == Max0({depth[j] : j \in known})
        IN  [j \in DOMAIN depth \cup {i} |-> IF j = i THEN 1 + below ELSE depth[j]], <<>>, order)
  IN  Max0({depths[i] : i \in DOMAIN depths})

Sinks(p) == {t \in p : \A u \in p : t.id \notin u.deps}

\* The worklist of `ancestors`.
RECURSIVE Collect(_, _, _)
Collect(p, pending, found) ==
  IF pending \subseteq found THEN found
  ELSE Collect(p, UNION {Task(p, i).deps : i \in pending \cap Ids(p)}, found \cup pending)

ancestors(p, i) == Collect(p, Task(p, i).deps, {})

\* tasks_by_id[dependency] of a task the plan does not have is a KeyError.
ancestors_raise(p) ==
  \E t \in Sinks(p) : t.type = "VALIDATION" /\ ~(ancestors(p, t.id) \subseteq Ids(p))

has_final_validation_sink(p) ==
  Cardinality({t \in Sinks(p) :
    t.type = "VALIDATION" /\ ancestors(p, t.id) \cup {t.id} = Ids(p)}) = 1

validate(p, rev) ==
  LET order == topological_order(p)
      acyclic == Len(order) = Cardinality(Ids(p))
      checked == acyclic /\ ~ancestors_raise(p)
  IN  [raises |-> (\E t \in p : \E path \in t.paths : path_raises(path)) \/ (acyclic /\ ancestors_raise(p)),
       issues |->
         UNION {validate_task_scope(t, rev) \cup validate_task_semantics(t, p) : t \in p}
         \cup If(~acyclic, "CYCLE")
         \cup If(checked /\ ~has_final_validation_sink(p), "FINAL_VALIDATION_SINK")
         \cup If(maximum_depth(p, order) > MaxPlanDepth, "MAX_PLAN_DEPTH")
         \cup If(Cardinality({t \in p : t.rev > 1}) > MaxDynamicTasks, "MAX_DYNAMIC_TASKS")
         \cup If(FoldSet(LAMBDA t, sum : sum + t.cost, 0, p) > MaxTotalBudget, "MAX_TOTAL_BUDGET")
         \cup If(FoldSet(LAMBDA t, sum : sum + t.seconds, 0, p) > MaxTotalSeconds, "MAX_TOTAL_EXECUTION_TIME")]

\* The checks before validate_mutation builds the proposed plan.
mutation_issues(p, rev, base, tasks) ==
  If(base # rev, "STALE_PLAN_REVISION")
  \cup If(Ids(tasks) \cap Ids(p) # {}, "EXISTING_TASK_MUTATION")
  \cup If(\E t \in tasks : t.rev # rev + 1, "PLAN_REVISION")

\* RunPlanningService._assign_required_tools
assign_required_tools(t) ==
  IF t.capability \in TASK_CAPABILITY_NAMES[t.type]
    THEN [t EXCEPT !.tools = @ \cup (TASK_REQUIRED_TOOLS[t.type] \cap DOMAIN Registry)] ELSE t

\* uuid5 of the run and the id: new, and the same every time.
NewId(i) == i + 100

\* Mutant: ids that other runs have are kept.
remap_nothing(p, taken) == p

\* An id another run has becomes uuid5(run, id); dependencies follow.
remap(p, taken) ==
  LET id_map(i) == IF i \in taken \cap Ids(p) THEN NewId(i) ELSE i
  IN  {[t EXCEPT !.id = id_map(@), !.deps = {id_map(d) : d \in @}] : t \in p}

\* _require_integration_sink
require_integration_sink(p) ==
  \E t \in Sinks(p) : t.type = "VALIDATION" /\ ancestors(p, t.id) \cup {t.id} = Ids(p)

\* integration_sink of finalization: over the tasks of the latest revision only.
integration_sink(latest) == {t \in Sinks(latest) : t.type = "VALIDATION"}

-----------------------------------------------------------------------------

Init ==
  /\ plan \in Proposals /\ \A t \in plan : TaskSpec(t)
  /\ revision = 1
  /\ phase = "proposed"

\* An attempt of plan_next between the model call and _persist_plan.
propose ==
  LET assigned == {assign_required_tools(t) : t \in plan}
      result == validate(assigned, revision)
  IN  /\ phase = "proposed"
      /\ plan' = assigned
      /\ phase' = IF result.raises THEN "raised" ELSE IF result.issues = {} THEN "accepted" ELSE "rejected"
      /\ UNCHANGED revision

\* The plan part of _persist_plan.
persist_plan ==
  /\ phase = "accepted"
  /\ plan' = remap(plan, TakenIds)
  /\ phase' = IF require_integration_sink(plan') THEN "persisted" ELSE "raised"
  /\ UNCHANGED revision

\* validate_mutation, for the repair controller: the base is the revision read
\* before the model call, so it may be an older one.
validate_mutation(base, tasks) ==
  LET proposed == plan \cup tasks
      result == validate(proposed, revision + 1)
  IN  /\ phase = "persisted" /\ revision < MaxRevision
      /\ \A t \in tasks : TaskSpec(t)
      /\ IF mutation_issues(plan, revision, base, tasks) # {} \/ result.issues # {} \/ result.raises
           THEN UNCHANGED vars
           ELSE plan' = proposed /\ revision' = revision + 1 /\ UNCHANGED phase

Next ==
  \/ propose \/ persist_plan
  \/ \E tasks \in Mutations, base \in 1..MaxRevision : validate_mutation(base, tasks)

Spec == Init /\ [][Next]_vars

-----------------------------------------------------------------------------
(* Reference definitions                                                   *)

\* Every set of tasks has one that depends on none of them.
Acyclic(p) ==
  \A S \in SUBSET Ids(p) : S # {} => \E i \in S : Task(p, i).deps \cap S = {}

\* A sequence of tasks each depending on the one before.
Chains(p) ==
  {s \in UNION {[1..n -> Ids(p)] : n \in 1..Cardinality(p)} :
     \A k \in 1..(Len(s) - 1) : s[k] \in Task(p, s[k + 1]).deps}

\* The plan needs nothing else and ends in one validation that waits for all of it.
Sound(p) ==
  /\ \A t \in p : t.deps \subseteq Ids(p)
  /\ Acyclic(p)
  /\ \A s \in Chains(p) : Len(s) <= MaxPlanDepth
  /\ \E v \in p : /\ v.type = "VALIDATION"
                  /\ \A t \in p : \E s \in Chains(p) : Head(s) = t.id /\ Last(s) = v.id

Longest(p, n) ==
  (\A chain \in Chains(p) : Len(chain) <= n) /\ \E chain \in Chains(p) : Len(chain) = n

\* As far as the task graph goes, the validator accepts exactly the sound plans:
\* Kahn's order, the depth pass and the ancestor search agree with the definitions
\* of acyclic, longest chain and reachability, and the depth is the longest chain.
VerdictIsExact ==
  LET result == validate(plan, revision)
      graph == {"CYCLE", "MISSING_DEPENDENCY", "MAX_PLAN_DEPTH", "FINAL_VALIDATION_SINK"}
  IN  phase \in {"accepted", "rejected", "persisted"} =>
        /\ result.issues \cap graph = {} <=> Sound(plan)
        /\ Acyclic(plan) => Longest(plan, maximum_depth(plan, topological_order(plan)))

\* What was validated is what is stored: renaming ids that other runs have, and
\* adding repair tasks, leaves a plan that still passes, and finalization finds
\* one validation sink among the tasks of its latest revision.  No stage of it is
\* refused a tool it needs.
StoredPlanStaysValid ==
  phase = "persisted" =>
    /\ validate(plan, revision).issues = {}
    /\ Ids(plan) \cap TakenIds = {}
    /\ Cardinality(integration_sink({t \in plan : t.rev = revision})) = 1
    /\ \A t \in plan : \A tool \in TASK_REQUIRED_TOOLS[t.type] :
         tool \in t.tools /\ authorize(tool, capabilities_for_assignment(t.capability), t.risk, FALSE)

\* A plan with a missing dependency is answered with the issue, for the model to
\* correct, not with an exception of the validator.
MissingDependencyIsReported ==
  (\E t \in plan : ~(t.deps \subseteq Ids(plan))) => phase # "raised"
=============================================================================
