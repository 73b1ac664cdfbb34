------------------------------- MODULE Sandbox -------------------------------
(***************************************************************************)
(* The sandbox manager and one execution: the requests for it (the tool     *)
(* gateway sends a retry of a call under the same execution id), a          *)
(* cancellation, the container in Docker, the row that names it, and a      *)
(* manager that may crash and reconciles when it comes up again.            *)
(* execution/sandbox/manager.py, the Docker calls of runner.py.             *)
(***************************************************************************)
EXTENDS Integers, FiniteSets

CONSTANTS
  Requests,    \* POST /executions with the same execution id
  Containers,  \* container ids Docker gives out; one per request is enough
  NoContainer,
  MaxFaults    \* crashes of the manager and failing calls

ASSUME SandboxAssumption ==
  /\ NoContainer \notin Containers /\ IsFiniteSet(Containers)
  /\ Cardinality(Requests) <= Cardinality(Containers)
  /\ MaxFaults \in Nat

VARIABLES
  row,        \* SandboxContainerRow
  outcome,    \* SandboxExecutionRow.exit_reason
  docker,     \* the container's status
  killed,     \* whether it was ended by SIGKILL
  started,    \* containers that ever ran
  active,     \* DockerSandboxRunner._active and _cancelled for this execution
  cancelled,
  req, canceller,
  manager,    \* "up", "down" or a step of reconcile_after_worker_restart
  faults

tables == <<row, outcome>>
engine == <<docker, killed, started>>
memory == <<active, cancelled>>
vars == <<tables, engine, memory, req, canceller, manager, faults>>

ActiveStatus == {"CREATED", "RUNNING", "CANCEL_REQUESTED"}
Present == {"created", "running", "exited"}
Over == {"none", "done", "failed", "lost"}
Positions == Over \cup {"list", "create", "register", "insert", "mark", "bind", "start", "watch", "reload",
                        "exit", "consult", "finish", "interrupt", "kill", "remove", "forget"}
Outcomes == {"none", "CANCELLED", "LIMIT", "COMPLETED", "NON_ZERO_EXIT"}
ContainerIds == Containers \cup {NoContainer}

SandboxContainerRow ==
  [status: ActiveStatus \cup {"NONE", "FINISHED", "INTERRUPTED"}, container: ContainerIds, cancel: BOOLEAN]
\* What a request knows: its container, whether the row is its own, the status it
\* read, and what it found so far.
Request ==
  [at: Positions, container: ContainerIds, registered: BOOLEAN, seen: Present, late: BOOLEAN,
   triggered: {"no", "cancellation", "limit"}, reason: Outcomes, ok: BOOLEAN]
Cancellation == [at: {"none", "flag", "kill", "accepted", "refused"}, container: ContainerIds]

TypeOK ==
  /\ row \in SandboxContainerRow /\ outcome \in Outcomes
  /\ docker \in [Containers -> Present \cup {"none", "removed"}]
  /\ killed \in [Containers -> BOOLEAN] /\ started \subseteq Containers
  /\ active \in ContainerIds /\ cancelled \in BOOLEAN
  /\ req \in [Requests -> Request] /\ canceller \in Cancellation
  /\ manager \in {"up", "down", "kill", "remove", "interrupt"}
  /\ faults \in 0..MaxFaults

Unsent == [at |-> "none", container |-> NoContainer, registered |-> FALSE, seen |-> "created",
           late |-> FALSE, triggered |-> "no", reason |-> "none", ok |-> FALSE]

Init ==
  /\ row = [status |-> "NONE", container |-> NoContainer, cancel |-> FALSE]
  /\ outcome = "none"
  /\ docker = [c \in Containers |-> "none"] /\ killed = [c \in Containers |-> FALSE] /\ started = {}
  /\ active = NoContainer /\ cancelled = FALSE
  /\ req = [r \in Requests |-> Unsent]
  /\ canceller = [at |-> "none", container |-> NoContainer]
  /\ manager = "up" /\ faults = 0

Fault == faults < MaxFaults /\ faults' = faults + 1
At(r, position) == req[r].at = position
Its(r) == req[r].container
Go(r, position) == req' = [req EXCEPT ![r].at = position]

\* The except clause of execute.
Raise(r) == Go(r, IF req[r].registered THEN "interrupt" ELSE "kill")

\* kill_container: only what runs is killed, and a container that is gone is no error.
kill_container(c) ==
  /\ docker' = [docker EXCEPT ![c] = IF @ = "running" THEN "exited" ELSE @]
  /\ killed' = [killed EXCEPT ![c] = @ \/ docker[c] = "running"]
  /\ UNCHANGED started

remove_container(c) ==
  docker' = [docker EXCEPT ![c] = IF @ \in Present THEN "removed" ELSE @] /\ UNCHANGED <<killed, started>>

-----------------------------------------------------------------------------
(* SandboxManager.execute                                                   *)

begin(r) ==
  /\ manager = "up" /\ At(r, "none")
  /\ Go(r, "list") /\ UNCHANGED <<tables, engine, memory, canceller, manager, faults>>

\* _existing_container, by its label.
list(r) ==
  LET existing == {c \in Containers : docker[c] \in Present}
  IN  /\ At(r, "list")
      /\ \/ Cardinality(existing) > 1 /\ Go(r, "failed") /\ UNCHANGED active
         \/ existing = {} /\ Go(r, "create") /\ UNCHANGED active
         \/ \E c \in existing : /\ existing = {c} /\ active' = c
                                /\ req' = [req EXCEPT ![r].at = "register", ![r].container = c]
      /\ UNCHANGED <<tables, engine, cancelled, canceller, manager, faults>>

create(r) ==
  /\ At(r, "create")
  /\ LET unused == {d \in Containers : docker[d] = "none"}
         c == CHOOSE d \in unused : TRUE
     IN  /\ unused # {}
         /\ docker' = [docker EXCEPT ![c] = "created"]
         /\ active' = c
         /\ req' = [req EXCEPT ![r].at = "register", ![r].container = c]
  /\ UNCHANGED <<tables, killed, started, cancelled, canceller, manager, faults>>

\* Mutant: a row of the same execution is taken for one of the same container.
register_by_id(r) ==
  /\ At(r, "register")
  /\ IF row.status = "NONE" THEN Go(r, "insert")
     ELSE req' = [req EXCEPT ![r].at = "mark", ![r].registered = TRUE]
  /\ UNCHANGED <<tables, engine, memory, canceller, manager, faults>>

\* register, up to what it reads: _require_identity compares the container.
register(r) ==
  /\ At(r, "register")
  /\ IF row.status = "NONE" THEN Go(r, "insert")
     ELSE IF row.container = Its(r) THEN req' = [req EXCEPT ![r].at = "mark", ![r].registered = TRUE]
     ELSE Raise(r)
  /\ UNCHANGED <<tables, engine, memory, canceller, manager, faults>>

\* The primary key refuses a row another request inserted meanwhile.
insert(r) ==
  /\ At(r, "insert")
  /\ IF row.status = "NONE"
       THEN /\ row' = [status |-> "CREATED", container |-> Its(r), cancel |-> FALSE]
            /\ req' = [req EXCEPT ![r].at = "mark", ![r].registered = TRUE]
       ELSE Raise(r) /\ UNCHANGED row
  /\ UNCHANGED <<outcome, engine, memory, canceller, manager, faults>>

mark_running(r) ==
  /\ At(r, "mark")
  /\ IF row.status \in ActiveStatus
       THEN Go(r, "bind") /\ row' = [row EXCEPT !.status = IF @ = "CREATED" THEN "RUNNING" ELSE @]
       ELSE Raise(r) /\ UNCHANGED row
  /\ UNCHANGED <<outcome, engine, memory, canceller, manager, faults>>

\* run_created up to attach.
bind(r) ==
  /\ At(r, "bind")
  /\ IF active \notin {NoContainer, Its(r)} THEN Raise(r) /\ UNCHANGED active
     ELSE /\ active' = Its(r)
          /\ IF docker[Its(r)] \in {"created", "running"}
               THEN req' = [req EXCEPT ![r].at = "start", ![r].seen = docker[Its(r)]]
               ELSE Raise(r)
  /\ UNCHANGED <<tables, engine, cancelled, canceller, manager, faults>>

\* container.start, on the status read before: Docker runs an exited container
\* again, and leaves a running one alone.
start(r) ==
  /\ At(r, "start")
  /\ IF req[r].seen = "running" THEN Go(r, "watch") /\ UNCHANGED engine
     ELSE IF docker[Its(r)] \notin Present THEN Raise(r) /\ UNCHANGED engine
     ELSE /\ Go(r, "watch")
          /\ docker' = [docker EXCEPT ![Its(r)] = "running"]
          /\ killed' = [killed EXCEPT ![Its(r)] = FALSE]
          /\ started' = started \cup {Its(r)}
  /\ UNCHANGED <<tables, memory, canceller, manager, faults>>

\* timeout_seconds have passed since the start.
deadline(r) ==
  /\ req[r].at \in {"watch", "reload"} /\ ~req[r].late
  /\ req' = [req EXCEPT ![r].late = TRUE]
  /\ UNCHANGED <<tables, engine, memory, canceller, manager, faults>>

\* Mutant: without the wall time.
watch_untimed(r) ==
  /\ At(r, "watch")
  /\ LET triggered == IF cancelled THEN "cancellation" ELSE req[r].triggered
     IN  /\ req' = [req EXCEPT ![r].at = "reload", ![r].triggered = triggered]
         /\ IF triggered = "no" THEN UNCHANGED engine ELSE kill_container(Its(r))
  /\ UNCHANGED <<tables, memory, canceller, manager, faults>>

\* One round of the loop, up to the kill: output and CPU limits may be reached at
\* any time.
watch(r) ==
  /\ At(r, "watch")
  /\ \E triggered \in IF cancelled THEN {"cancellation"} ELSE IF req[r].late THEN {"limit"}
                      ELSE {"limit", req[r].triggered} :
       /\ req' = [req EXCEPT ![r].at = "reload", ![r].triggered = triggered]
       /\ IF triggered = "no" THEN UNCHANGED engine ELSE kill_container(Its(r))
  /\ UNCHANGED <<tables, memory, canceller, manager, faults>>

reload(r) ==
  /\ At(r, "reload")
  /\ CASE docker[Its(r)] = "running" -> Go(r, "watch")
       [] docker[Its(r)] = "exited" -> Go(r, "exit")
       [] OTHER -> Raise(r)
  /\ UNCHANGED <<tables, engine, memory, canceller, manager, faults>>

\* _exit_reason of the state that is read after the output is drained; Docker gives
\* a container that runs, as one started again does, the exit code 0.
exit_reason(r) ==
  /\ At(r, "exit")
  /\ IF docker[Its(r)] \notin Present THEN Raise(r)
     ELSE \E other \in {"COMPLETED", "NON_ZERO_EXIT"} :
            /\ killed[Its(r)] => other = "NON_ZERO_EXIT"
            /\ docker[Its(r)] = "running" => other = "COMPLETED"
            /\ req' = [req EXCEPT ![r].at = "consult", ![r].reason =
                 CASE req[r].triggered = "cancellation" -> "CANCELLED"
                   [] req[r].triggered = "limit" -> "LIMIT"
                   [] OTHER -> other]
  /\ UNCHANGED <<tables, engine, memory, canceller, manager, faults>>

\* cancellation_requested, in a transaction of its own.
consult(r) ==
  /\ At(r, "consult")
  /\ req' = [req EXCEPT ![r].at = "finish", ![r].reason = IF row.cancel THEN "CANCELLED" ELSE @]
  /\ UNCHANGED <<tables, engine, memory, canceller, manager, faults>>

\* finish: a second outcome of the execution has to equal the first in every
\* measurement, which two requests on one container seldom do.
finish(r) ==
  /\ At(r, "finish")
  /\ \/ /\ outcome \in {"none", req[r].reason}
        /\ outcome' = req[r].reason /\ row' = [row EXCEPT !.status = "FINISHED"]
        /\ req' = [req EXCEPT ![r].at = "remove", ![r].ok = TRUE]
     \/ outcome # "none" /\ Raise(r) /\ UNCHANGED tables
  /\ UNCHANGED <<engine, memory, canceller, manager, faults>>

\* Mutant: whatever the row says.
interrupted_always == row' = [row EXCEPT !.status = "INTERRUPTED"]

\* PostgresSandboxRunStore.interrupt
interrupted == row' = [row EXCEPT !.status = IF @ = "FINISHED" THEN @ ELSE "INTERRUPTED"]

interrupt(r) ==
  /\ At(r, "interrupt")
  /\ interrupted /\ Go(r, "kill")
  /\ UNCHANGED <<outcome, engine, memory, canceller, manager, faults>>

kill(r) ==
  /\ At(r, "kill")
  /\ kill_container(Its(r)) /\ Go(r, "remove")
  /\ UNCHANGED <<tables, memory, canceller, manager, faults>>

\* release: the container first, then _active and _cancelled under the lock.
release(r) ==
  /\ At(r, "remove")
  /\ remove_container(Its(r)) /\ Go(r, "forget")
  /\ UNCHANGED <<tables, memory, canceller, manager, faults>>

forget(r) ==
  /\ At(r, "forget")
  /\ active' = IF active = Its(r) THEN NoContainer ELSE active
  /\ cancelled' = FALSE
  /\ Go(r, IF req[r].ok THEN "done" ELSE "failed")
  /\ UNCHANGED <<tables, engine, canceller, manager, faults>>

\* A call of Docker or PostgreSQL raises: creating before the try, the work inside
\* it, and the calls of the except and finally clauses, which skip what follows.
call_fails(r) ==
  /\ Fault
  /\ \/ req[r].at \in {"list", "create", "remove"} /\ Go(r, "failed")
     \/ /\ req[r].at \in {"register", "insert", "mark", "bind", "start", "watch", "reload", "exit", "consult", "finish"}
        /\ Raise(r)
     \/ req[r].at \in {"interrupt", "kill"} /\ Go(r, "remove")
  /\ UNCHANGED <<tables, engine, memory, canceller, manager>>

-----------------------------------------------------------------------------
(* SandboxManager.cancel                                                    *)

request_cancellation ==
  /\ manager = "up" /\ canceller.at = "none"
  /\ IF row.status \in ActiveStatus
       THEN /\ row' = [row EXCEPT !.status = "CANCEL_REQUESTED", !.cancel = TRUE]
            /\ canceller' = [at |-> "flag", container |-> row.container]
       ELSE canceller' = [canceller EXCEPT !.at = "refused"] /\ UNCHANGED row
  /\ UNCHANGED <<outcome, engine, memory, req, manager, faults>>

\* DockerSandboxRunner.cancel: a container bound here is killed, else the row's.
cancel ==
  /\ canceller.at = "flag"
  /\ cancelled' = TRUE
  /\ canceller' = [at |-> "kill", container |-> IF active = NoContainer THEN canceller.container ELSE active]
  /\ UNCHANGED <<tables, engine, active, req, manager, faults>>

cancel_kills ==
  /\ canceller.at = "kill"
  /\ kill_container(canceller.container) /\ canceller' = [canceller EXCEPT !.at = "accepted"]
  /\ UNCHANGED <<tables, memory, req, manager, faults>>

-----------------------------------------------------------------------------
(* The container, and the life of the manager                               *)

exits(c) ==
  /\ docker[c] = "running" /\ docker' = [docker EXCEPT ![c] = "exited"]
  /\ UNCHANGED <<tables, killed, started, memory, req, canceller, manager, faults>>

crash ==
  /\ manager # "down" /\ manager' = "down" /\ Fault
  /\ active' = NoContainer /\ cancelled' = FALSE
  /\ req' = [r \in Requests |-> [req[r] EXCEPT !.at = IF @ \in Over THEN @ ELSE "lost"]]
  /\ canceller' = [canceller EXCEPT !.at = IF @ \in {"flag", "kill"} THEN "refused" ELSE @]
  /\ UNCHANGED <<tables, engine>>

\* reconcile_after_worker_restart, before the first request: active() and then, for
\* each of its rows, three calls.
restart ==
  /\ manager = "down" /\ manager' = IF row.status \in ActiveStatus THEN "kill" ELSE "up"
  /\ UNCHANGED <<tables, engine, memory, req, canceller, faults>>

reap ==
  /\ \/ manager = "kill" /\ kill_container(row.container) /\ manager' = "remove" /\ UNCHANGED row
     \/ manager = "remove" /\ remove_container(row.container) /\ manager' = "interrupt" /\ UNCHANGED row
     \/ manager = "interrupt" /\ interrupted /\ manager' = "up" /\ UNCHANGED engine
  /\ UNCHANGED <<outcome, memory, req, canceller, faults>>

-----------------------------------------------------------------------------

Handle(r) ==
  \/ list(r) \/ create(r) \/ register(r) \/ insert(r) \/ mark_running(r) \/ bind(r) \/ start(r)
  \/ watch(r) \/ reload(r) \/ exit_reason(r) \/ consult(r) \/ finish(r)
  \/ interrupt(r) \/ kill(r) \/ release(r) \/ forget(r)

Next ==
  \/ \E r \in Requests : begin(r) \/ Handle(r) \/ deadline(r) \/ call_fails(r)
  \/ request_cancellation \/ cancel \/ cancel_kills
  \/ \E c \in Containers : exits(c)
  \/ crash \/ restart \/ reap

Spec == Init /\ [][Next]_vars

-----------------------------------------------------------------------------
(* Properties                                                               *)

\* README: "Container identity was persisted before start".  Whatever requests and
\* crashes interleave, the only container that ever runs is the one the row names.
\* Without a crash and with Docker answering, no container is left when the last
\* request has returned, conflicts and raced creations included.
NoStrayContainer ==
  /\ \A c \in started : row.container = c
  /\ faults = 0 /\ (\A r \in Requests : req[r].at \in Over) =>
       \A c \in Containers : docker[c] \in {"none", "removed"}

\* The recorded outcome is the last word: a replay, a late interruption or the
\* reconciliation changes neither it nor FINISHED, and only an outcome makes a row
\* FINISHED.
OutcomeIsFinal ==
  [][/\ outcome # "none" => outcome' = outcome /\ row'.status = "FINISHED"
     /\ row'.status = "FINISHED" => outcome' # "none"]_vars

-----------------------------------------------------------------------------
(* What the documents and the tests state, and the code does not keep.      *)

\* README: "Startup reaps orphans and records interruption".  While the manager is
\* up and serves no request, no container runs.
OrphansAreReaped ==
  manager = "up" /\ (\A r \in Requests : req[r].at \in Over) =>
    \A c \in Containers : docker[c] # "running"

\* test_manager.py: a cancellation that was accepted shows as the recorded outcome.
AcceptedIsCancelled ==
  canceller.at = "accepted" /\ outcome # "none" => outcome = "CANCELLED"
=============================================================================
