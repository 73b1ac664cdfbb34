---------------------------- MODULE MCSchedulerDag ----------------------------
(* A run of two chained tasks beside a run of one task of another project. *)
EXTENDS Scheduler
CONSTANTS a, b, c
DagTasks == {a, b, c}
DagRunOf == [t \in Tasks |-> IF t = b THEN "s" ELSE "r"]
DagProjects == [t \in Tasks |-> IF t = b THEN "q" ELSE "p"]
DagDependencies == [t \in Tasks |-> IF t = c THEN {a} ELSE {}]
DagRequests == [t \in Tasks |-> IF t = a THEN {"task", "model", "sandbox"}
                                ELSE IF t = b THEN {"task", "model"} ELSE {"task", "sandbox"}]
=============================================================================
