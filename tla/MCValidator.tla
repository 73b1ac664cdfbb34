------------------------------ MODULE MCValidator ------------------------------
(* Plans and repairs for the validator. *)
EXTENDS Validator

Plain(i, type, deps) ==
  [id |-> i, rev |-> 1, type |-> type, deps |-> deps,
   capability |-> IF type = "VALIDATION" THEN "validation" ELSE "coder",
   tools |-> {}, risk |-> MEDIUM, criteria |-> TRUE, paths |-> {}, cost |-> 1, seconds |-> 1]

Kinds == {"IMPLEMENTATION", "VALIDATION"}

\* Every graph on one to three tasks; 9 is no task.
Graphs3 ==
  UNION {{{Plain(i, kind[i], deps[i]) : i \in 1..n} :
     kind \in [1..n -> Kinds],
     deps \in {f \in [1..n -> SUBSET (1..n \cup {9})] : \A i \in 1..n : i \notin f[i]}} : n \in 1..3}

\* One task with every combination of its other fields.
Single ==
  {{[id |-> 1, rev |-> 1, type |-> type, deps |-> {}, capability |-> capability, tools |-> tools,
     risk |-> risk, criteria |-> criteria, paths |-> paths, cost |-> 1, seconds |-> 1]} :
     type \in {"RESEARCH", "IMPLEMENTATION", "VALIDATION"},
     capability \in {"analysis", "coder", "validation", "repository-write"},
     tools \in {{}, {"read_file", "run_tests"}, {"shell"}}, risk \in RiskLevel,
     criteria \in BOOLEAN, paths \in {{}} \cup {{path} : path \in Paths}}

\* Outside of the two inputs that raise.
Answered == {p \in Graphs3 \cup Single :
  ~validate({assign_required_tools(t) : t \in p}, 1).raises}

\* The debugger names a task's tools itself: a repair task comes with what its
\* stage needs, or with none.
Repair(i, type, deps, rev) == assign_required_tools([Plain(i, type, deps) EXCEPT !.rev = rev])

\* One or two repair tasks, on old tasks (101 is task 1 renamed) and each other.
Repairs ==
  {{Repair(4, kind, deps, rev)} : kind \in Kinds, rev \in 1..2, deps \in SUBSET {2, 3, 101, 9}}
  \cup {{[Plain(4, "VALIDATION", deps) EXCEPT !.rev = 2]} : deps \in SUBSET {2, 3, 101}}
  \cup {{Repair(i, "VALIDATION", {101}, 2), Repair(j, kind, deps, 2)} :
     i \in {3, 4}, j \in {5, 6}, kind \in Kinds, deps \in {{}, {2}, {3}, {4}, {3, 2}, {4, 2}, {4, 101}}}
=============================================================================
