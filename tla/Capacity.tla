-------------------------------- MODULE Capacity --------------------------------
(***************************************************************************)
(* Reservations against the ceilings of ConcurrencyPolicy.  An account     *)
(* maps each task to the resources it has active ReservationRow rows for.  *)
(***************************************************************************)
EXTENDS Integers, FiniteSets

CONSTANTS
  Tasks, Projects, ProjectOf,  \* TaskRow.project_id
  ResourceRequest,             \* _resource_request: [Tasks -> SUBSET Resources]
  MaxParallelTasks, MaxParallelTasksPerProject,
  MaxModelConcurrency, MaxSandboxConcurrency

Resources == {"task", "model", "sandbox"}

ASSUME CapacityAssumption ==
  /\ IsFiniteSet(Tasks)
  /\ ProjectOf \in [Tasks -> Projects]
  /\ ResourceRequest \in [Tasks -> SUBSET Resources]
  /\ \A t \in Tasks : "task" \in ResourceRequest[t]
  /\ {MaxParallelTasks, MaxParallelTasksPerProject, MaxModelConcurrency,
      MaxSandboxConcurrency} \subseteq Nat \ {0}

Accounts == [Tasks -> SUBSET Resources]

Empty == [t \in Tasks |-> {}]

\* The cap a reservation of the resource is admitted against.
Ceiling(resource) ==
  IF resource = "task" THEN MaxParallelTasks
  ELSE IF resource = "model" THEN MaxModelConcurrency
  ELSE MaxSandboxConcurrency

HoldersOf(account, resource) == {t \in Tasks : resource \in account[t]}

HoldersIn(account, p) == {t \in HoldersOf(account, "task") : ProjectOf[t] = p}

\* One more unit of the resource is within its ceiling.
HasRoom(account, resource) == Cardinality(HoldersOf(account, resource)) + 1 <= Ceiling(resource)

HasRoomInProject(account, p) == Cardinality(HoldersIn(account, p)) + 1 <= MaxParallelTasksPerProject

\* _admission_snapshot and evaluate_admission; the totals of resources that are
\* not requested are compared too, but are never above their ceiling.
Admitted(account, t) ==
  /\ \A r \in ResourceRequest[t] : HasRoom(account, r)
  /\ HasRoomInProject(account, ProjectOf[t])

\* No total is above its ceiling.
Fits(account) ==
  /\ \A r \in Resources : Cardinality(HoldersOf(account, r)) <= Ceiling(r)
  /\ \A p \in Projects : Cardinality(HoldersIn(account, p)) <= MaxParallelTasksPerProject
=============================================================================
