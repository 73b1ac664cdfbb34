------------------------------- MODULE Admission -------------------------------
(***************************************************************************)
(* claim_ready run by several dispatchers at once, statement by statement: *)
(* the candidate rows it locks (FOR UPDATE SKIP LOCKED), the advisory lock *)
(* per project, the admission snapshot, and per resource the advisory lock *)
(* and the conditional insert of _reserve_with_global_cap.  PostgreSQL is  *)
(* at READ COMMITTED: a statement sees what was committed before it plus   *)
(* the transaction's own writes, and locks last until commit or rollback.  *)
(***************************************************************************)
EXTENDS Capacity

CONSTANTS
  Dispatchers, NoOne,
  Priority,   \* order_by(priority desc, created_at, id) as a rank
  Limit       \* batch size of a claim

ASSUME AdmissionAssumption ==
  /\ NoOne \notin Dispatchers
  /\ Priority \in [Tasks -> Nat]
  /\ \A t, u \in Tasks : Priority[t] = Priority[u] => t = u
  /\ Projects \subseteq Nat   \* numbered in the order their ids sort in
  /\ Limit \in Nat \ {0}

VARIABLES
  leased,     \* tasks whose committed state is LEASED; the others are READY
  committed,  \* committed ReservationRow rows with released_at NULL, per task
  own,        \* uncommitted rows of each dispatcher's transaction, per task
  rowLock,    \* holder of the task's row lock
  projectLock, resourceLock,   \* holders of the advisory locks
  todo,       \* candidates the transaction has not dealt with
  at,         \* where the transaction stands
  current,    \* the candidate being reserved for, when at = "reserve"
  need        \* totals still to be read, or resources still to be inserted

\* The sums of _admission_snapshot: per resource, and task slots in the project.
Totals == Resources \cup {"project"}

vars == <<leased, committed, own, rowLock, projectLock, resourceLock, todo, at, current, need>>
locks == <<rowLock, projectLock, resourceLock>>

TypeOK ==
  /\ leased \in SUBSET Tasks
  /\ committed \in Accounts
  /\ own \in [Dispatchers -> Accounts]
  /\ rowLock \in [Tasks -> Dispatchers \cup {NoOne}]
  /\ projectLock \in [Projects -> Dispatchers \cup {NoOne}]
  /\ resourceLock \in [Resources -> Dispatchers \cup {NoOne}]
  /\ todo \in [Dispatchers -> SUBSET Tasks]
  /\ at \in [Dispatchers -> {"idle", "project", "admit", "reserve"}]
  /\ current \in [Dispatchers -> Tasks \cup {NoOne}]
  /\ need \in [Dispatchers -> SUBSET Totals]

Init ==
  /\ leased = {} /\ committed = Empty
  /\ own = [d \in Dispatchers |-> Empty]
  /\ rowLock = [t \in Tasks |-> NoOne]
  /\ projectLock = [p \in Projects |-> NoOne]
  /\ resourceLock = [r \in Resources |-> NoOne]
  /\ todo = [d \in Dispatchers |-> {}]
  /\ at = [d \in Dispatchers |-> "idle"]
  /\ current = [d \in Dispatchers |-> NoOne]
  /\ need = [d \in Dispatchers |-> {}]

-----------------------------------------------------------------------------

Ledger == INSTANCE CapacityLedger WITH held <- committed

\* What a statement of d's transaction sees.
Visible(d) == [t \in Tasks |-> committed[t] \cup own[d][t]]

FirstByPriority(S, n) == {t \in S : Cardinality({u \in S : Priority[u] < Priority[t]}) < n}

Unlocked(holder, d) == holder \in {NoOne, d}

\* Mutant: a plain SELECT, which does not skip locked rows.
SelectCandidatesUnlocked(d) ==
  LET batch == FirstByPriority(Tasks \ leased, Limit)
  IN  /\ at[d] = "idle"
      /\ batch # {}
      /\ todo' = [todo EXCEPT ![d] = batch]
      /\ rowLock' = [t \in Tasks |-> IF t \in batch THEN d ELSE rowLock[t]]
      /\ at' = [at EXCEPT ![d] = "project"]
      /\ UNCHANGED <<leased, committed, own, projectLock, resourceLock, current, need>>

\* SELECT ... WHERE state = READY ORDER BY ... LIMIT n FOR UPDATE SKIP LOCKED
SelectCandidates(d) ==
  LET free == {t \in Tasks \ leased : rowLock[t] = NoOne}
      batch == FirstByPriority(free, Limit)
  IN  /\ at[d] = "idle"
      /\ free # {}
      /\ todo' = [todo EXCEPT ![d] = batch]
      /\ rowLock' = [t \in Tasks |-> IF t \in batch THEN d ELSE rowLock[t]]
      /\ at' = [at EXCEPT ![d] = "project"]
      /\ UNCHANGED <<leased, committed, own, projectLock, resourceLock, current, need>>

\* The candidate to deal with next: projects in order, then by priority.
IsNext(d, t) ==
  \A u \in todo[d] : \/ ProjectOf[t] < ProjectOf[u]
                     \/ ProjectOf[t] = ProjectOf[u] /\ Priority[t] <= Priority[u]

\* pg_advisory_xact_lock(project): waits while another transaction holds it.
LockProject(d) ==
  /\ at[d] = "project"
  /\ \E t \in todo[d] :
       /\ IsNext(d, t)
       /\ Unlocked(projectLock[ProjectOf[t]], d)
       /\ projectLock' = [projectLock EXCEPT ![ProjectOf[t]] = d]
  /\ at' = [at EXCEPT ![d] = "admit"]
  /\ UNCHANGED <<leased, committed, own, rowLock, resourceLock, todo, current, need>>

\* After a candidate: the next one of this project, else the next project.
Proceed(d, t) ==
  /\ todo' = [todo EXCEPT ![d] = @ \ {t}]
  /\ at' = [at EXCEPT ![d] =
              IF \E u \in todo[d] \ {t} : ProjectOf[u] = ProjectOf[t] THEN "admit" ELSE "project"]
  /\ current' = [current EXCEPT ![d] = NoOne]
  /\ need' = [need EXCEPT ![d] = {}]

\* Totals are read, and resources reserved, in this order.
FirstOf(S) ==
  IF "task" \in S THEN "task" ELSE IF "project" \in S THEN "project"
  ELSE IF "model" \in S THEN "model" ELSE "sandbox"

RoomFor(account, total, t) ==
  IF total = "project" THEN HasRoomInProject(account, ProjectOf[t]) ELSE HasRoom(account, total)

\* One of the four sums of the snapshot, each a statement of its own that sees
\* the transaction's own rows too; a total without room refuses the candidate.
EvaluateAdmission(d) ==
  /\ at[d] = "admit"
  /\ \E t \in todo[d] :
       LET left == IF need[d] = {} THEN ResourceRequest[t] \cup {"project"} ELSE need[d]
           total == FirstOf(left)
       IN  /\ IsNext(d, t)
           /\ \/ /\ ~RoomFor(Visible(d), total, t)
                 /\ Proceed(d, t)
              \/ /\ RoomFor(Visible(d), total, t) /\ left # {total}
                 /\ need' = [need EXCEPT ![d] = left \ {total}]
                 /\ UNCHANGED <<todo, at, current>>
              \/ /\ RoomFor(Visible(d), total, t) /\ left = {total}
                 /\ current' = [current EXCEPT ![d] = t]
                 /\ need' = [need EXCEPT ![d] = ResourceRequest[t]]
                 /\ at' = [at EXCEPT ![d] = "reserve"]
                 /\ UNCHANGED todo
  /\ UNCHANGED <<leased, committed, own, locks>>

\* The insert guarded by the ceiling; without room what this task already got
\* is released and the candidate is passed over.
InsertReservation(d, r) ==
  LET t == current[d]
  IN  IF HasRoom(Visible(d), r)
        THEN /\ own' = [own EXCEPT ![d][t] = @ \cup {r}]
             /\ IF need[d] = {r} THEN Proceed(d, t)
                ELSE need' = [need EXCEPT ![d] = @ \ {r}] /\ UNCHANGED <<todo, at, current>>
        ELSE own' = [own EXCEPT ![d][t] = {}] /\ Proceed(d, t)

\* Mutant: the guarded insert alone, without the advisory lock.
ReserveWithoutLock(d) ==
  /\ at[d] = "reserve"
  /\ InsertReservation(d, FirstOf(need[d]))
  /\ UNCHANGED <<leased, committed, locks>>

\* _reserve_with_global_cap: the resource lock, then the guarded insert.
ReserveWithGlobalCap(d) ==
  /\ at[d] = "reserve"
  /\ Unlocked(resourceLock[FirstOf(need[d])], d)
  /\ resourceLock' = [resourceLock EXCEPT ![FirstOf(need[d])] = d]
  /\ InsertReservation(d, FirstOf(need[d]))
  /\ UNCHANGED <<leased, committed, rowLock, projectLock>>

FreeLocks(d) ==
  /\ rowLock' = [t \in Tasks |-> IF rowLock[t] = d THEN NoOne ELSE rowLock[t]]
  /\ projectLock' = [p \in Projects |-> IF projectLock[p] = d THEN NoOne ELSE projectLock[p]]
  /\ resourceLock' = [r \in Resources |-> IF resourceLock[r] = d THEN NoOne ELSE resourceLock[r]]

EndTransaction(d) ==
  /\ FreeLocks(d)
  /\ own' = [own EXCEPT ![d] = Empty]
  /\ todo' = [todo EXCEPT ![d] = {}]
  /\ at' = [at EXCEPT ![d] = "idle"]
  /\ current' = [current EXCEPT ![d] = NoOne]
  /\ need' = [need EXCEPT ![d] = {}]

Commit(d) ==
  /\ at[d] = "project" /\ todo[d] = {}
  /\ committed' = Visible(d)
  /\ leased' = leased \cup {t \in Tasks : own[d][t] # {}}
  /\ EndTransaction(d)

\* A failed statement, a lost connection or the deadlock detector.
Rollback(d) ==
  /\ at[d] # "idle"
  /\ EndTransaction(d)
  /\ UNCHANGED <<leased, committed>>

\* Another transaction (finish, reclaim, cancel) ends the lease of a task it
\* has locked and releases its reservations; the task may be claimed again.
ReleaseTask(t) ==
  /\ t \in leased /\ rowLock[t] = NoOne
  /\ leased' = leased \ {t}
  /\ committed' = [committed EXCEPT ![t] = {}]
  /\ UNCHANGED <<own, locks, todo, at, current, need>>

Next ==
  \/ \E d \in Dispatchers :
       \/ SelectCandidates(d) \/ LockProject(d) \/ EvaluateAdmission(d)
       \/ ReserveWithGlobalCap(d) \/ Commit(d) \/ Rollback(d)
  \/ \E t \in Tasks : ReleaseTask(t)

Spec == Init /\ [][Next]_vars

-----------------------------------------------------------------------------

(* All reservation rows, committed or not.                                 *)
AllRows == [t \in Tasks |-> committed[t] \cup UNION {own[d][t] : d \in Dispatchers}]

\* However dispatchers interleave, the rows already committed together with
\* all those still in open transactions exceed no ceiling, so every order of
\* commits is safe.  The per-project ceiling rests on the project lock, the
\* global ones on the resource locks: two projects that both observe the last
\* unit must not both insert.
CeilingsAreExact == Fits(AllRows)

\* FOR UPDATE SKIP LOCKED gives a task to one dispatcher: rows are written only
\* for READY tasks without reservations whose row the transaction has locked.
OneClaimPerTask ==
  \A d \in Dispatchers, t \in Tasks :
    own[d][t] # {} => rowLock[t] = d /\ t \notin leased /\ committed[t] = {}

\* Concurrent claims, partial reservations that are taken back and rollbacks
\* included, implement the abstract account: a commit grants whole requests
\* within the ceilings and nothing else adds a reservation.
ImplementsLedger == Ledger!LedgerSpec

-----------------------------------------------------------------------------
(* The transaction whose advisory lock d is waiting for, if any.           *)
WaitsFor(d, e) ==
  /\ d # e
  /\ \/ at[d] = "project" /\ \E t \in todo[d] : IsNext(d, t) /\ projectLock[ProjectOf[t]] = e
     \/ at[d] = "reserve" /\ resourceLock[FirstOf(need[d])] = e

\* "Independent projects admit concurrently": two claims never end up waiting
\* for each other's advisory locks.
NoLockCycle ==
  \A d, e \in Dispatchers : ~(WaitsFor(d, e) /\ WaitsFor(e, d))
=============================================================================
