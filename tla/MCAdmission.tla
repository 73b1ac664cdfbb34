----------------------------- MODULE MCAdmission -----------------------------
(* Two dispatchers over two tasks of each of two projects; with batches of *)
(* two a claim may span both projects.                                     *)
EXTENDS Admission
CONSTANTS d1, d2, a, b, c, e
TwoDispatchers == {d1, d2}
FourTasks == {a, b, c, e}
Ranks == [t \in Tasks |-> CASE t = a -> 1 [] t = b -> 2 [] t = c -> 3 [] t = e -> 4]
TwoProjects == [t \in Tasks |-> IF t \in {a, e} THEN 1 ELSE 2]
Requests == [t \in Tasks |-> IF t = a THEN {"task", "model", "sandbox"}
                             ELSE IF t = b THEN {"task", "model"} ELSE {"task", "sandbox"}]
=============================================================================
