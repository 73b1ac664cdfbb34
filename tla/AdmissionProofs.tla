---------------------------- MODULE AdmissionProofs ----------------------------
(***************************************************************************)
(* Concurrent claims keep the ceilings, for any number of dispatchers.     *)
(***************************************************************************)
EXTENDS Admission, CapacityProofs

\* Rows are written, and candidates considered, under the locks they need.
LocksHeld(d) ==
  /\ \A t \in Tasks : own[d][t] # {} =>
       rowLock[t] = d /\ t \notin leased /\ committed[t] = {} /\ projectLock[ProjectOf[t]] = d
  /\ \A t \in Tasks, r \in Resources : r \in own[d][t] => resourceLock[r] = d
  /\ \A t \in todo[d] : rowLock[t] = d /\ t \notin leased
  /\ at[d] = "admit" => \A t \in todo[d] : IsNext(d, t) => projectLock[ProjectOf[t]] = d
  /\ at[d] = "reserve" => /\ current[d] \in todo[d] /\ IsNext(d, current[d])
                          /\ projectLock[ProjectOf[current[d]]] = d

\* A transaction holds all of a task's request or nothing, but for the task it
\* is reserving for.
RequestsWhole(d) ==
  /\ \A t \in todo[d] : at[d] # "reserve" \/ t # current[d] => own[d][t] = {}
  /\ \A t \in Tasks \ todo[d] : own[d][t] \in {{}, ResourceRequest[t]}
  /\ at[d] \in {"idle", "project"} => need[d] = {}
  /\ at[d] = "reserve" =>
       /\ need[d] # {} /\ need[d] \subseteq ResourceRequest[current[d]]
       /\ own[d][current[d]] = ResourceRequest[current[d]] \ need[d]

\* The project's total, once read, cannot grow under the project lock.
RoomKept(d) ==
  /\ at[d] = "admit" /\ need[d] # {} /\ "project" \notin need[d] =>
       \A t \in todo[d] : IsNext(d, t) => HasRoomInProject(AllRows, ProjectOf[t])
  /\ at[d] = "reserve" /\ "task" \in need[d] => HasRoomInProject(AllRows, ProjectOf[current[d]])

DispatcherInv(d) == LocksHeld(d) /\ RequestsWhole(d) /\ RoomKept(d)

\* The inductive invariant: every state claim_ready can reach is explained by
\* the locks it holds.
AdmissionInv ==
  /\ TypeOK
  /\ \A t \in Tasks \ leased : committed[t] = {}
  /\ \A d \in Dispatchers : DispatcherInv(d)
  /\ CeilingsAreExact

LEMMA Facts ==
  /\ NoOne \notin Dispatchers
  /\ \A t \in Tasks : /\ ProjectOf[t] \in Projects /\ ProjectOf[t] \in Nat
                      /\ Priority[t] \in Nat
                      /\ ResourceRequest[t] \subseteq Resources /\ "task" \in ResourceRequest[t]
  /\ \A t, u \in Tasks : Priority[t] = Priority[u] => t = u
BY CapacityAssumption, AdmissionAssumption

\* A unit is held by somebody: committed, or in an open transaction.
LEMMA RowsAre ==
  ASSUME NEW c, NEW o
  PROVE  LET rows == [t \in Tasks |-> c[t] \cup UNION {o[d][t] : d \in Dispatchers}]
         IN  \A t \in Tasks : \A r :
               r \in rows[t] <=> r \in c[t] \/ \E d \in Dispatchers : r \in o[d][t]
OBVIOUS

LEMMA FirstIsOne ==
  ASSUME NEW S \in SUBSET Totals, S # {}
  PROVE  /\ FirstOf(S) \in S
         /\ "task" \in S => FirstOf(S) = "task"
BY DEF FirstOf, Totals, Resources

\* Fewer task slots held in a project leave it room.
LEMMA RoomStays ==
  ASSUME NEW a, NEW b, NEW p \in Projects,
         \A t \in Tasks : ProjectOf[t] = p /\ "task" \in b[t] => "task" \in a[t],
         HasRoomInProject(a, p)
  PROVE  HasRoomInProject(b, p)
<1>1. HoldersIn(b, p) \subseteq HoldersIn(a, p)
  BY DEF HoldersIn, HoldersOf
<1>2. /\ IsFiniteSet(HoldersIn(a, p))
      /\ Cardinality(HoldersIn(a, p)) \in Nat /\ Cardinality(HoldersIn(b, p)) \in Nat
  BY HoldersAreFinite, FS_CardinalityType
<1>3. Cardinality(HoldersIn(b, p)) <= Cardinality(HoldersIn(a, p))
  BY <1>1, <1>2, FS_Subset
<1>4. MaxParallelTasksPerProject \in Nat
  BY CeilingsAreNaturals
<1> QED BY <1>2, <1>3, <1>4 DEF HasRoomInProject

\* Under its lock a total a transaction reads is the total of all transactions.
LEMMA ProjectTotalIsExact ==
  ASSUME AdmissionInv, NEW d \in Dispatchers, NEW p \in Projects, projectLock[p] = d
  PROVE  HasRoomInProject(Visible(d), p) => HasRoomInProject(AllRows, p)
<1>1. ASSUME NEW t \in Tasks, ProjectOf[t] = p, "task" \in AllRows[t]
      PROVE  "task" \in Visible(d)[t]
  <2>1. "task" \in committed[t] \/ \E e \in Dispatchers : "task" \in own[e][t]
    BY <1>1, RowsAre DEF AllRows
  <2>2. \A e \in Dispatchers : "task" \in own[e][t] => e = d
    BY <1>1 DEF AdmissionInv, DispatcherInv, LocksHeld
  <2> QED BY <2>1, <2>2 DEF Visible
<1> QED BY <1>1, RoomStays

LEMMA ResourceTotalIsExact ==
  ASSUME AdmissionInv, NEW d \in Dispatchers, NEW r \in Resources, Unlocked(resourceLock[r], d)
  PROVE  HasRoom(Visible(d), r) => HasRoom(AllRows, r)
<1>1. ASSUME NEW t \in Tasks PROVE r \in AllRows[t] <=> r \in Visible(d)[t]
  <2>1. r \in AllRows[t] <=> r \in committed[t] \/ \E e \in Dispatchers : r \in own[e][t]
    BY RowsAre DEF AllRows
  <2>2. \A e \in Dispatchers : r \in own[e][t] => e = d
    BY Facts DEF AdmissionInv, DispatcherInv, LocksHeld, Unlocked
  <2> QED BY <2>1, <2>2 DEF Visible
<1>2. HoldersOf(AllRows, r) = HoldersOf(Visible(d), r)
  BY <1>1 DEF HoldersOf
<1> QED BY <1>2 DEF HasRoom

LEMMA NextIsUnique ==
  ASSUME NEW d \in Dispatchers, TypeOK, NEW t \in todo[d], NEW u \in todo[d], IsNext(d, t), IsNext(d, u)
  PROVE  t = u
<1>1. t \in Tasks /\ u \in Tasks
  BY DEF TypeOK
<1>2. ProjectOf[t] \in Nat /\ ProjectOf[u] \in Nat /\ Priority[t] \in Nat /\ Priority[u] \in Nat
  BY <1>1, Facts
<1>3. Priority[t] = Priority[u]
  BY <1>2 DEF IsNext
<1> QED BY <1>1, <1>3, Facts

\* A step of another transaction leaves what a dispatcher relies on in place.
LEMMA Bystander ==
  ASSUME AdmissionInv, NEW e \in Dispatchers,
         own'[e] = own[e], todo'[e] = todo[e], at'[e] = at[e],
         current'[e] = current[e], need'[e] = need[e],
         \A t \in Tasks : rowLock[t] = e =>
           /\ rowLock'[t] = e
           /\ t \in leased' => t \in leased
           /\ committed[t] = {} => committed'[t] = {},
         \A r \in Resources : resourceLock[r] = e => resourceLock'[r] = e,
         \A p \in Projects : projectLock[p] = e =>
           /\ projectLock'[p] = e
           /\ \A t \in Tasks :
                ProjectOf[t] = p /\ "task" \in AllRows'[t] => "task" \in AllRows[t]
  PROVE  DispatcherInv(e)'
<1>1. \A t \in Tasks : ProjectOf[t] \in Projects
  BY Facts
<1>2. DispatcherInv(e) /\ todo[e] \subseteq Tasks
  BY DEF AdmissionInv, TypeOK
<1>3. LocksHeld(e)'
  BY <1>1, <1>2 DEF DispatcherInv, LocksHeld, IsNext
<1>4. RequestsWhole(e)'
  BY <1>2 DEF DispatcherInv, RequestsWhole
<1>5. \A p \in Projects :
        projectLock[p] = e /\ HasRoomInProject(AllRows, p) => HasRoomInProject(AllRows', p)
  BY RoomStays
<1>6. RoomKept(e)'
  <2>1. ASSUME at[e] = "admit", need[e] # {}, "project" \notin need[e],
               NEW t \in todo[e], IsNext(e, t)
        PROVE  HasRoomInProject(AllRows', ProjectOf[t])
    BY <1>1, <1>2, <1>5, <2>1 DEF DispatcherInv, LocksHeld, RoomKept
  <2>2. ASSUME at[e] = "reserve", "task" \in need[e]
        PROVE  HasRoomInProject(AllRows', ProjectOf[current[e]])
    BY <1>1, <1>2, <1>5, <2>2 DEF DispatcherInv, LocksHeld, RoomKept
  <2>3. \A t : IsNext(e, t)' <=> IsNext(e, t)
    BY DEF IsNext
  <2>4. \A p : HasRoomInProject(AllRows, p)' <=> HasRoomInProject(AllRows', p)
    BY DEF HasRoomInProject, HoldersIn, HoldersOf
  <2> QED BY <2>1, <2>2, <2>3, <2>4 DEF RoomKept
<1> QED BY <1>3, <1>4, <1>6 DEF DispatcherInv

\* Rows, locks and candidates are typed; used by every step.
LEMMA Typed ==
  ASSUME AdmissionInv, NEW d \in Dispatchers
  PROVE  /\ todo[d] \subseteq Tasks /\ own[d] \in Accounts
         /\ need[d] \in SUBSET Totals /\ d # NoOne
         /\ DispatcherInv(d) /\ LocksHeld(d) /\ RequestsWhole(d) /\ RoomKept(d)
BY Facts DEF AdmissionInv, TypeOK, DispatcherInv

LEMMA InitInv == Init => AdmissionInv
<1> SUFFICES ASSUME Init PROVE AdmissionInv
  OBVIOUS
<1>1. TypeOK
  BY DEF Init, TypeOK, Empty, Accounts
<1>2. \A t \in Tasks : committed[t] = {} /\ \A d \in Dispatchers : own[d][t] = {}
  BY DEF Init, Empty
<1>3. ASSUME NEW d \in Dispatchers PROVE DispatcherInv(d)
  BY <1>2, <1>3 DEF Init, DispatcherInv, LocksHeld, RequestsWhole, RoomKept
<1>4. CeilingsAreExact
  <2>1. \A t \in Tasks : AllRows[t] = {}
    BY <1>2 DEF AllRows
  <2>2. \A t \in Tasks : AllRows[t] \subseteq Empty[t]
    BY <2>1
  <2> QED BY <2>2, EmptyFits, ShrinkFits DEF CeilingsAreExact
<1> QED BY <1>1, <1>2, <1>3, <1>4 DEF AdmissionInv

LEMMA SelectStep ==
  ASSUME AdmissionInv, NEW d \in Dispatchers, SelectCandidates(d)
  PROVE  AdmissionInv'
<1> DEFINE batch == FirstByPriority({t \in Tasks \ leased : rowLock[t] = NoOne}, Limit)
<1>1. batch \subseteq {t \in Tasks \ leased : rowLock[t] = NoOne}
  BY DEF FirstByPriority
<1>2. /\ at[d] = "idle"
      /\ todo' = [todo EXCEPT ![d] = batch]
      /\ rowLock' = [t \in Tasks |-> IF t \in batch THEN d ELSE rowLock[t]]
      /\ at' = [at EXCEPT ![d] = "project"]
      /\ UNCHANGED <<leased, committed, own, projectLock, resourceLock, current, need>>
  BY DEF SelectCandidates
<1> HIDE DEF batch
<1>3. TypeOK'
  BY <1>1, <1>2 DEF AdmissionInv, TypeOK
<1>4. AllRows' = AllRows
  BY <1>2 DEF AllRows
<1>5. ASSUME NEW e \in Dispatchers, e # d PROVE DispatcherInv(e)'
  <2>1. todo'[e] = todo[e] /\ at'[e] = at[e]
    BY <1>2, <1>5 DEF AdmissionInv, TypeOK
  <2>2. \A t \in Tasks : rowLock[t] = e => rowLock'[t] = e
    BY <1>1, <1>2, Facts
  <2> QED BY <1>2, <1>4, <2>1, <2>2, Bystander
<1>6. DispatcherInv(d)'
  <2>1. todo'[d] = batch /\ at'[d] = "project"
    BY <1>2 DEF AdmissionInv, TypeOK
  <2>2. \A t \in batch : rowLock'[t] = d /\ t \notin leased /\ own[d][t] = {}
    BY <1>1, <1>2, Typed, Facts DEF DispatcherInv, LocksHeld
  <2>3. \A t \in Tasks : own[d][t] # {} => rowLock'[t] = d
    BY <1>2, Typed DEF DispatcherInv, LocksHeld
  <2>4. LocksHeld(d)'
    BY <1>2, <2>1, <2>2, <2>3, Typed DEF DispatcherInv, LocksHeld
  <2>5. RequestsWhole(d)'
    BY <1>2, <2>1, <2>2, Typed DEF DispatcherInv, RequestsWhole
  <2>6. RoomKept(d)'
    BY <2>1 DEF RoomKept
  <2> QED BY <2>4, <2>5, <2>6 DEF DispatcherInv
<1>7. CeilingsAreExact'
  BY <1>4 DEF AdmissionInv, CeilingsAreExact, Fits, HoldersIn, HoldersOf
<1> QED BY <1>2, <1>3, <1>5, <1>6, <1>7 DEF AdmissionInv

LEMMA LockStep ==
  ASSUME AdmissionInv, NEW d \in Dispatchers, LockProject(d)
  PROVE  AdmissionInv'
<1>1. PICK t \in todo[d] :
        /\ IsNext(d, t)
        /\ Unlocked(projectLock[ProjectOf[t]], d)
        /\ projectLock' = [projectLock EXCEPT ![ProjectOf[t]] = d]
  BY DEF LockProject
<1>2. /\ at[d] = "project" /\ at' = [at EXCEPT ![d] = "admit"]
      /\ UNCHANGED <<leased, committed, own, rowLock, resourceLock, todo, current, need>>
  BY DEF LockProject
<1>3. t \in Tasks /\ ProjectOf[t] \in Projects
  BY Typed, Facts
<1>4. TypeOK'
  BY <1>1, <1>2, <1>3 DEF AdmissionInv, TypeOK
<1>5. AllRows' = AllRows
  BY <1>2 DEF AllRows
<1>6. /\ projectLock'[ProjectOf[t]] = d
      /\ \A p \in Projects : p # ProjectOf[t] => projectLock'[p] = projectLock[p]
  BY <1>1, <1>3 DEF AdmissionInv, TypeOK
<1>7. ASSUME NEW e \in Dispatchers, e # d PROVE DispatcherInv(e)'
  <2>1. at'[e] = at[e]
    BY <1>2, <1>7 DEF AdmissionInv, TypeOK
  <2>2. \A p \in Projects : projectLock[p] = e => projectLock'[p] = e
    BY <1>1, <1>6, <1>7, Facts DEF Unlocked
  <2> QED BY <1>2, <1>5, <2>1, <2>2, Bystander
<1>8. DispatcherInv(d)'
  <2>1. at'[d] = "admit" /\ todo'[d] = todo[d] /\ need'[d] = {}
    BY <1>2, Typed DEF AdmissionInv, TypeOK, DispatcherInv, RequestsWhole
  <2>2. \A p \in Projects : projectLock[p] = d => projectLock'[p] = d
    BY <1>6
  <2>3. \A u \in todo[d] : IsNext(d, u) => u = t
    BY <1>1, NextIsUnique DEF AdmissionInv
  <2>4. \A u : IsNext(d, u)' <=> IsNext(d, u)
    BY <2>1 DEF IsNext
  <2>5. LocksHeld(d)'
    <3>1. LocksHeld(d) /\ \A u \in Tasks : ProjectOf[u] \in Projects
      BY Typed, Facts
    <3>2. \A u \in todo[d] : IsNext(d, u) => projectLock'[ProjectOf[u]] = d
      BY <1>6, <2>3
    <3> QED BY <1>2, <2>1, <2>2, <2>4, <3>1, <3>2 DEF LocksHeld
  <2>6. RequestsWhole(d)'
    BY <1>2, <2>1, Typed DEF DispatcherInv, RequestsWhole
  <2>7. RoomKept(d)'
    BY <2>1 DEF RoomKept
  <2> QED BY <2>5, <2>6, <2>7 DEF DispatcherInv
<1>9. CeilingsAreExact'
  BY <1>5 DEF AdmissionInv, CeilingsAreExact, Fits, HoldersIn, HoldersOf
<1> QED BY <1>2, <1>4, <1>7, <1>8, <1>9 DEF AdmissionInv

\* Leaving a candidate behind, with its whole request or with nothing, keeps
\* what the transaction relies on: the next candidate of the project is
\* considered under the lock already held.
LEMMA ProceedKeeps ==
  ASSUME AdmissionInv, NEW d \in Dispatchers, NEW t \in todo[d], IsNext(d, t), Proceed(d, t),
         at[d] \in {"admit", "reserve"}, at[d] = "reserve" => t = current[d],
         projectLock[ProjectOf[t]] = d,
         UNCHANGED <<leased, committed, rowLock, projectLock>>,
         \A u \in Tasks \ {t} : own'[d][u] = own[d][u],
         own'[d][t] \in {{}, ResourceRequest[t]},
         \A u \in Tasks, r \in Resources : r \in own'[d][u] => resourceLock'[r] = d
  PROVE  DispatcherInv(d)'
<1>1. /\ t \in Tasks /\ todo[d] \subseteq Tasks
      /\ LocksHeld(d) /\ RequestsWhole(d)
      /\ rowLock[t] = d /\ t \notin leased /\ committed[t] = {}
  <2>1. t \in Tasks /\ todo[d] \subseteq Tasks /\ LocksHeld(d) /\ RequestsWhole(d)
    BY Typed
  <2>2. rowLock[t] = d /\ t \notin leased
    BY <2>1 DEF LocksHeld
  <2>3. committed[t] = {}
    BY <2>1, <2>2 DEF AdmissionInv
  <2> QED BY <2>1, <2>2, <2>3
<1>2. /\ todo'[d] = todo[d] \ {t} /\ need'[d] = {}
      /\ at'[d] \in {"admit", "project"}
      /\ at'[d] = "admit" => \E v \in todo[d] \ {t} : ProjectOf[v] = ProjectOf[t]
  BY DEF Proceed, AdmissionInv, TypeOK
<1>3. ASSUME at'[d] = "admit", NEW u \in todo'[d], IsNext(d, u)'
      PROVE  ProjectOf[u] = ProjectOf[t]
  <2>1. PICK v \in todo[d] \ {t} : ProjectOf[v] = ProjectOf[t]
    BY <1>2, <1>3
  <2>2. ProjectOf[u] \in Nat /\ ProjectOf[v] \in Nat /\ ProjectOf[t] \in Nat
    BY <1>1, <1>2, Facts
  <2>3. ProjectOf[u] <= ProjectOf[t]
    BY <1>2, <1>3, <2>1, <2>2 DEF IsNext
  <2>4. ProjectOf[t] <= ProjectOf[u]
    BY <1>2, <2>2 DEF IsNext
  <2> QED BY <2>2, <2>3, <2>4
<1>4. LocksHeld(d)'
  BY <1>1, <1>2, <1>3 DEF LocksHeld
<1>5. RequestsWhole(d)'
  BY <1>1, <1>2 DEF RequestsWhole
<1>6. RoomKept(d)'
  BY <1>2 DEF RoomKept
<1> QED BY <1>4, <1>5, <1>6 DEF DispatcherInv

LEMMA EvaluateStep ==
  ASSUME AdmissionInv, NEW d \in Dispatchers, EvaluateAdmission(d)
  PROVE  AdmissionInv'
<1> DEFINE left(t) == IF need[d] = {} THEN ResourceRequest[t] \cup {"project"} ELSE need[d]
           total(t) == FirstOf(left(t))
           refuse(t) == ~RoomFor(Visible(d), total(t), t) /\ Proceed(d, t)
           more(t) == /\ RoomFor(Visible(d), total(t), t) /\ left(t) # {total(t)}
                      /\ need' = [need EXCEPT ![d] = left(t) \ {total(t)}]
                      /\ UNCHANGED <<todo, at, current>>
           admit(t) == /\ RoomFor(Visible(d), total(t), t) /\ left(t) = {total(t)}
                       /\ current' = [current EXCEPT ![d] = t]
                       /\ need' = [need EXCEPT ![d] = ResourceRequest[t]]
                       /\ at' = [at EXCEPT ![d] = "reserve"]
                       /\ UNCHANGED todo
<1>1. PICK t \in todo[d] : IsNext(d, t) /\ (refuse(t) \/ more(t) \/ admit(t))
  BY DEF EvaluateAdmission
<1>2. at[d] = "admit" /\ UNCHANGED <<leased, committed, own, rowLock, projectLock, resourceLock>>
  BY DEF EvaluateAdmission, locks
<1>3. /\ t \in Tasks /\ todo[d] \subseteq Tasks /\ ProjectOf[t] \in Projects
      /\ LocksHeld(d) /\ RequestsWhole(d) /\ RoomKept(d)
      /\ projectLock[ProjectOf[t]] = d /\ own[d][t] = {}
  <2>1. /\ t \in Tasks /\ todo[d] \subseteq Tasks
        /\ LocksHeld(d) /\ RequestsWhole(d) /\ RoomKept(d)
    BY Typed
  <2>2. projectLock[ProjectOf[t]] = d
    BY <1>1, <1>2, <2>1 DEF LocksHeld
  <2>3. own[d][t] = {}
    BY <1>2, <2>1 DEF RequestsWhole
  <2> QED BY <2>1, <2>2, <2>3, Facts
<1>4. left(t) \in SUBSET Totals /\ left(t) # {} /\ total(t) \in left(t)
  BY <1>3, Typed, Facts, FirstIsOne DEF Totals
<1>5. AllRows' = AllRows
  BY <1>2 DEF AllRows
<1>6. \A u \in todo[d] : IsNext(d, u) => u = t
  BY <1>1, NextIsUnique DEF AdmissionInv
\* Once the project's total is read, there is room in the project.
<1>7. RoomFor(Visible(d), total(t), t) /\ (total(t) = "project" \/ "project" \notin left(t))
        => HasRoomInProject(AllRows, ProjectOf[t])
  <2>1. CASE total(t) = "project"
    BY <1>3, <2>1, ProjectTotalIsExact DEF RoomFor
  <2>2. CASE "project" \notin left(t)
    <3>1. need[d] # {} /\ "project" \notin need[d]
      BY <2>2
    <3> QED BY <1>1, <1>2, <1>3, <3>1 DEF RoomKept
  <2> QED BY <2>1, <2>2
<1> HIDE DEF total
<1>8. TypeOK'
  <2>1. UNCHANGED <<leased, committed, own, rowLock, projectLock, resourceLock>> /\ TypeOK
    BY <1>2 DEF AdmissionInv
  <2>2. ResourceRequest[t] \in SUBSET Totals
    BY <1>3, Facts DEF Totals
  <2>3. CASE refuse(t)
    BY <2>1, <2>3 DEF TypeOK, Proceed
  <2>4. CASE more(t)
    <3>1. left(t) \ {total(t)} \in SUBSET Totals
      BY <1>4
    <3> HIDE DEF left
    <3> QED BY <2>1, <2>4, <3>1 DEF TypeOK
  <2>5. CASE admit(t)
    BY <1>3, <2>1, <2>2, <2>5 DEF TypeOK
  <2> QED BY <1>1, <2>3, <2>4, <2>5
<1>9. ASSUME NEW e \in Dispatchers, e # d PROVE DispatcherInv(e)'
  <2>1. todo'[e] = todo[e] /\ at'[e] = at[e] /\ current'[e] = current[e] /\ need'[e] = need[e]
    <3> HIDE DEF left
    <3> QED BY <1>1, <1>9 DEF Proceed, AdmissionInv, TypeOK
  <2> QED BY <1>2, <1>5, <2>1, Bystander
<1>10. DispatcherInv(d)'
  <2>1. CASE refuse(t)
    <3>1. \A u \in Tasks, r \in Resources : r \in own'[d][u] => resourceLock'[r] = d
      BY <1>2, <1>3 DEF LocksHeld
    <3>2. own'[d][t] = {} /\ \A u \in Tasks \ {t} : own'[d][u] = own[d][u]
      BY <1>2, <1>3
    <3>3. Proceed(d, t) BY <2>1
    <3> QED BY <1>1, <1>2, <1>3, <3>1, <3>2, <3>3, ProceedKeeps
  <2>2. CASE more(t)
    <3>1. /\ need'[d] = left(t) \ {total(t)} /\ todo'[d] = todo[d] /\ at'[d] = "admit"
          /\ current'[d] = current[d]
      <4> HIDE DEF left
      <4> QED BY <1>2, <2>2 DEF AdmissionInv, TypeOK
    <3>2. \A u : IsNext(d, u)' <=> IsNext(d, u)
      BY <3>1 DEF IsNext
    <3>3. LocksHeld(d)'
      BY <1>2, <1>3, <3>1, <3>2 DEF LocksHeld
    <3>4. RequestsWhole(d)'
      BY <1>2, <1>3, <3>1 DEF RequestsWhole
    <3>5. "project" \notin need'[d] => HasRoomInProject(AllRows, ProjectOf[t])
      <4> HIDE DEF left
      <4> QED BY <1>7, <2>2, <3>1
    <3>6. RoomKept(d)'
      BY <1>5, <1>6, <3>1, <3>2, <3>5 DEF RoomKept, HasRoomInProject, HoldersIn, HoldersOf
    <3> QED BY <3>3, <3>4, <3>6 DEF DispatcherInv
  <2>3. CASE admit(t)
    <3>1. /\ need'[d] = ResourceRequest[t] /\ todo'[d] = todo[d] /\ at'[d] = "reserve"
          /\ current'[d] = t
      BY <2>3 DEF AdmissionInv, TypeOK
    <3>2. \A u : IsNext(d, u)' <=> IsNext(d, u)
      BY <3>1 DEF IsNext
    <3>3. LocksHeld(d)'
      BY <1>1, <1>2, <1>3, <3>1, <3>2 DEF LocksHeld
    <3>4. RequestsWhole(d)'
      <4>1. /\ \A u \in todo[d] : own[d][u] = {}
            /\ \A u \in Tasks \ todo[d] : own[d][u] \in {{}, ResourceRequest[u]}
        BY <1>2, <1>3 DEF RequestsWhole
      <4>2. ResourceRequest[t] # {} /\ own[d][t] = ResourceRequest[t] \ ResourceRequest[t]
        BY <1>3, Facts
      <4> QED BY <1>2, <3>1, <4>1, <4>2 DEF RequestsWhole
    <3>5. HasRoomInProject(AllRows, ProjectOf[t])
      <4>1. total(t) = "project" \/ "project" \notin left(t)
        <5> HIDE DEF left
        <5> QED BY <2>3
      <4> QED BY <1>7, <2>3, <4>1
    <3>6. RoomKept(d)'
      BY <1>5, <3>1, <3>5 DEF RoomKept, HasRoomInProject, HoldersIn, HoldersOf
    <3> QED BY <3>3, <3>4, <3>6 DEF DispatcherInv
  <2> QED BY <1>1, <2>1, <2>2, <2>3
<1>11. CeilingsAreExact'
  BY <1>5 DEF AdmissionInv, CeilingsAreExact, Fits, HoldersIn, HoldersOf
<1> QED BY <1>2, <1>8, <1>9, <1>10, <1>11 DEF AdmissionInv

LEMMA ReserveStep ==
  ASSUME AdmissionInv, NEW d \in Dispatchers, ReserveWithGlobalCap(d)
  PROVE  AdmissionInv'
<1> DEFINE t == current[d]
           r == FirstOf(need[d])
           got == own[d][t] \cup {r}
<1>1. /\ t \in todo[d] /\ t \in Tasks /\ todo[d] \subseteq Tasks /\ IsNext(d, t)
      /\ projectLock[ProjectOf[t]] = d /\ rowLock[t] = d /\ t \notin leased /\ committed[t] = {}
      /\ need[d] # {} /\ need[d] \subseteq ResourceRequest[t]
      /\ own[d][t] = ResourceRequest[t] \ need[d]
      /\ at[d] = "reserve" /\ LocksHeld(d) /\ RequestsWhole(d) /\ RoomKept(d)
  <2>1. at[d] = "reserve" /\ todo[d] \subseteq Tasks
    BY Typed DEF ReserveWithGlobalCap
  <2>2. LocksHeld(d) /\ RequestsWhole(d) /\ RoomKept(d)
    BY Typed DEF DispatcherInv
  <2>3. /\ t \in todo[d] /\ IsNext(d, t) /\ projectLock[ProjectOf[t]] = d
        /\ rowLock[t] = d /\ t \notin leased
    BY <2>1, <2>2 DEF LocksHeld
  <2>4. /\ need[d] # {} /\ need[d] \subseteq ResourceRequest[t]
        /\ own[d][t] = ResourceRequest[t] \ need[d]
    BY <2>1, <2>2 DEF RequestsWhole
  <2>5. committed[t] = {}
    BY <2>1, <2>3 DEF AdmissionInv
  <2> QED BY <2>1, <2>2, <2>3, <2>4, <2>5
<1>2. /\ r \in need[d] /\ r \in Resources /\ r \in ResourceRequest[t]
      /\ "task" \in need[d] => r = "task"
      /\ ProjectOf[t] \in Projects /\ ResourceRequest[t] \subseteq Resources
  BY <1>1, Typed, Facts, FirstIsOne
<1>3. /\ Unlocked(resourceLock[r], d)
      /\ resourceLock' = [resourceLock EXCEPT ![r] = d]
      /\ UNCHANGED <<leased, committed, rowLock, projectLock>>
  BY DEF ReserveWithGlobalCap
<1>4. \/ /\ HasRoom(Visible(d), r)
         /\ own' = [own EXCEPT ![d][t] = got]
         /\ \/ need[d] = {r} /\ Proceed(d, t)
            \/ /\ need[d] # {r}
               /\ need' = [need EXCEPT ![d] = need[d] \ {r}] /\ UNCHANGED <<todo, at, current>>
      \/ own' = [own EXCEPT ![d][t] = {}] /\ Proceed(d, t)
  BY DEF ReserveWithGlobalCap, InsertReservation, AdmissionInv, TypeOK
<1> HIDE DEF r, t
<1>5. /\ own'[d][t] = {} \/ (own'[d][t] = got /\ HasRoom(Visible(d), r))
      /\ \A u \in Tasks \ {t} : own'[d][u] = own[d][u]
      /\ \A e \in Dispatchers \ {d} : own'[e] = own[e]
      /\ own' \in [Dispatchers -> Accounts]
  <2>1. got \in SUBSET Resources /\ {} \in SUBSET Resources
    BY <1>1, <1>2
  <2> HIDE DEF got
  <2>2. CASE HasRoom(Visible(d), r) /\ own' = [own EXCEPT ![d][t] = got]
    BY <1>1, <2>1, <2>2 DEF AdmissionInv, TypeOK, Accounts
  <2>3. CASE own' = [own EXCEPT ![d][t] = {}]
    BY <1>1, <2>1, <2>3 DEF AdmissionInv, TypeOK, Accounts
  <2> QED BY <1>4, <2>2, <2>3
<1>6. /\ resourceLock'[r] = d
      /\ \A s \in Resources : s # r => resourceLock'[s] = resourceLock[s]
      /\ resourceLock' \in [Resources -> Dispatchers \cup {NoOne}]
  BY <1>2, <1>3 DEF AdmissionInv, TypeOK
<1>7. /\ todo' \in [Dispatchers -> SUBSET Tasks]
      /\ at' \in [Dispatchers -> {"idle", "project", "admit", "reserve"}]
      /\ current' \in [Dispatchers -> Tasks \cup {NoOne}]
      /\ need' \in [Dispatchers -> SUBSET Totals]
  <2>1. TypeOK BY DEF AdmissionInv
  <2>2. CASE Proceed(d, t)
    BY <2>1, <2>2 DEF TypeOK, Proceed
  <2>3. CASE need' = [need EXCEPT ![d] = need[d] \ {r}] /\ UNCHANGED <<todo, at, current>>
    BY <2>1, <2>3 DEF TypeOK
  <2> QED BY <1>4, <2>2, <2>3
<1>8. TypeOK'
  <2>1. TypeOK BY DEF AdmissionInv
  <2>2. /\ leased' \in SUBSET Tasks /\ committed' \in Accounts
        /\ rowLock' \in [Tasks -> Dispatchers \cup {NoOne}]
        /\ projectLock' \in [Projects -> Dispatchers \cup {NoOne}]
    BY <1>3, <2>1 DEF TypeOK
  <2> QED BY <1>5, <1>6, <1>7, <2>2 DEF TypeOK
<1>9. \A u \in Tasks, s \in Resources : s \in own'[d][u] => resourceLock'[s] = d
  <2>1. \A u \in Tasks, s \in Resources : s \in own[d][u] => resourceLock[s] = d
    BY <1>1 DEF LocksHeld
  <2>2. \A u \in Tasks : \A s : s \in own'[d][u] => s = r \/ s \in own[d][u]
    BY <1>5
  <2> QED BY <1>6, <2>1, <2>2
\* The other transactions' rows are where they were.
<1>10. /\ \A u \in Tasks \ {t} : AllRows'[u] = AllRows[u]
       /\ AllRows'[t] \subseteq AllRows[t] \cup {r}
       /\ own'[d][t] = {} => AllRows'[t] \subseteq AllRows[t]
  <2>1. \A u \in Tasks : \A s :
          s \in AllRows[u] <=> s \in committed[u] \/ \E e \in Dispatchers : s \in own[e][u]
    BY RowsAre DEF AllRows
  <2>2. \A u \in Tasks : \A s :
          s \in AllRows'[u] <=> s \in committed'[u] \/ \E e \in Dispatchers : s \in own'[e][u]
    BY RowsAre DEF AllRows
  <2>3. \A u \in Tasks \ {t} : \A s : s \in AllRows'[u] <=> s \in AllRows[u]
    <3>1. \A u \in Tasks \ {t} : \A e \in Dispatchers : own'[e][u] = own[e][u]
      BY <1>5
    <3> QED BY <1>3, <2>1, <2>2, <3>1
  <2>4. \A s : s \in AllRows'[t] => s \in AllRows[t] \/ (s = r /\ own'[d][t] # {})
    BY <1>1, <1>3, <1>5, <2>1, <2>2
  <2> QED BY <2>3, <2>4
<1>11. ASSUME NEW e \in Dispatchers, e # d PROVE DispatcherInv(e)'
  <2>1. /\ todo'[e] = todo[e] /\ at'[e] = at[e] /\ current'[e] = current[e] /\ need'[e] = need[e]
        /\ own'[e] = own[e]
    BY <1>4, <1>5, <1>11 DEF Proceed, AdmissionInv, TypeOK
  <2>2. \A s \in Resources : resourceLock[s] = e => resourceLock'[s] = e
    BY <1>3, <1>6, <1>11, Facts DEF Unlocked
  <2>3. \A p \in Projects : projectLock[p] = e => p # ProjectOf[t]
    BY <1>1, <1>11
  <2>4. \A p \in Projects : projectLock[p] = e =>
          \A u \in Tasks : ProjectOf[u] = p /\ "task" \in AllRows'[u] => "task" \in AllRows[u]
    BY <1>10, <2>3
  <2> QED BY <1>3, <2>1, <2>2, <2>4, Bystander
<1>12. DispatcherInv(d)'
  <2>1. CASE Proceed(d, t)
    <3>1. own'[d][t] \in {{}, ResourceRequest[t]}
      <4>1. need[d] = {r} => got = ResourceRequest[t]
        BY <1>1, <1>2
      <4>2. need[d] = {r} \/ own'[d][t] = {}
        <5>1. CASE own' = [own EXCEPT ![d][t] = {}]
          BY <1>1, <5>1 DEF AdmissionInv, TypeOK, Accounts
        <5>2. CASE need' = [need EXCEPT ![d] = need[d] \ {r}] /\ need[d] # {r}
          <6>1. need'[d] = need[d] \ {r} /\ need'[d] = {}
            BY <2>1, <5>2 DEF Proceed, AdmissionInv, TypeOK
          <6> QED BY <1>2, <5>2, <6>1
        <5> QED BY <1>4, <5>1, <5>2
      <4> QED BY <1>5, <4>1, <4>2
    <3>2. at[d] \in {"admit", "reserve"} /\ (at[d] = "reserve" => t = current[d])
      BY <1>1 DEF t
    <3> QED BY <1>1, <1>3, <1>5, <1>9, <2>1, <3>1, <3>2, ProceedKeeps
  <2>2. CASE /\ own' = [own EXCEPT ![d][t] = got]
             /\ need[d] # {r}
             /\ need' = [need EXCEPT ![d] = need[d] \ {r}] /\ UNCHANGED <<todo, at, current>>
    <3>1. /\ need'[d] = need[d] \ {r} /\ own'[d][t] = got
          /\ todo'[d] = todo[d] /\ at'[d] = "reserve" /\ current'[d] = t
      BY <1>1, <2>2 DEF AdmissionInv, TypeOK, Accounts, t
    <3>2. \A u : IsNext(d, u)' <=> IsNext(d, u)
      BY <3>1 DEF IsNext
    <3>3. LocksHeld(d)'
      BY <1>1, <1>3, <1>5, <1>9, <3>1, <3>2 DEF LocksHeld
    <3>4. /\ need'[d] # {} /\ need'[d] \subseteq ResourceRequest[t]
          /\ own'[d][t] = ResourceRequest[t] \ need'[d]
      BY <1>1, <1>2, <2>2, <3>1
    <3>5. \A u \in Tasks : u # t => own'[d][u] = own[d][u]
      BY <1>5
    <3>6. /\ \A u \in todo[d] : u # t => own[d][u] = {}
          /\ \A u \in Tasks \ todo[d] : own[d][u] \in {{}, ResourceRequest[u]}
      BY <1>1 DEF RequestsWhole, t
    <3>7. RequestsWhole(d)'
      <4>1. /\ \A u \in todo[d] : u # t => own'[d][u] = {}
            /\ \A u \in Tasks \ todo[d] : own'[d][u] \in {{}, ResourceRequest[u]}
        BY <1>1, <3>5, <3>6
      <4> QED BY <3>1, <3>4, <4>1 DEF RequestsWhole
    <3>8. RoomKept(d)'
      BY <1>2, <3>1 DEF RoomKept
    <3> QED BY <3>3, <3>7, <3>8 DEF DispatcherInv
  <2> QED BY <1>4, <2>1, <2>2
<1>13. CeilingsAreExact'
  <2>1. Fits(AllRows) BY DEF AdmissionInv, CeilingsAreExact
  <2>2. Fits(AllRows')
    <3>1. CASE own'[d][t] = {}
      <4>1. \A u \in Tasks : AllRows'[u] \subseteq AllRows[u]
        BY <1>10, <3>1
      <4> QED BY <2>1, <4>1, ShrinkFits
    <3>2. CASE own'[d][t] # {}
      <4>1. HasRoom(Visible(d), r)
        BY <1>5, <3>2
      <4> DEFINE R == {r}
      <4>2. \A s \in R : HasRoom(AllRows, s)
        BY <1>2, <1>3, <4>1, ResourceTotalIsExact
      <4>3. "task" \in R => HasRoomInProject(AllRows, ProjectOf[t])
        BY <1>1, <1>2 DEF RoomKept, t
      <4>4. /\ \A u \in Tasks \ {t} : AllRows'[u] \subseteq AllRows[u]
            /\ AllRows'[t] \subseteq AllRows[t] \cup R
            /\ R \in SUBSET Resources
        BY <1>2, <1>10
      <4> HIDE DEF R
      <4> QED BY <1>1, <2>1, <4>2, <4>3, <4>4, GrowthFits
    <3> QED BY <3>1, <3>2
  <2> QED BY <2>2 DEF CeilingsAreExact, Fits, HoldersIn, HoldersOf
<1> QED BY <1>3, <1>8, <1>11, <1>12, <1>13 DEF AdmissionInv

\* The end of a transaction, whatever became of its rows: the others keep what
\* they rely on and this one starts again from nothing.
LEMMA EndKeeps ==
  ASSUME AdmissionInv, NEW d \in Dispatchers, EndTransaction(d),
         \A e \in Dispatchers \ {d} : \A t \in Tasks : rowLock[t] = e =>
           /\ t \in leased' => t \in leased
           /\ committed[t] = {} => committed'[t] = {},
         \A t \in Tasks : AllRows'[t] \subseteq AllRows[t],
         leased' \in SUBSET Tasks, committed' \in Accounts
  PROVE  /\ TypeOK'
         /\ \A e \in Dispatchers : DispatcherInv(e)'
         /\ CeilingsAreExact'
<1>1. TypeOK'
  BY DEF EndTransaction, FreeLocks, AdmissionInv, TypeOK, Accounts, Empty
<1>2. ASSUME NEW e \in Dispatchers, e # d PROVE DispatcherInv(e)'
  <2>1. /\ todo'[e] = todo[e] /\ at'[e] = at[e] /\ current'[e] = current[e] /\ need'[e] = need[e]
        /\ own'[e] = own[e]
    BY <1>2 DEF EndTransaction, AdmissionInv, TypeOK
  <2>2. /\ \A t \in Tasks : rowLock[t] = e => rowLock'[t] = e
        /\ \A r \in Resources : resourceLock[r] = e => resourceLock'[r] = e
        /\ \A p \in Projects : projectLock[p] = e => projectLock'[p] = e
    <3>1. FreeLocks(d) BY DEF EndTransaction
    <3>2. \A t \in Tasks : rowLock[t] = e => rowLock'[t] = e
      BY <1>2, <3>1 DEF FreeLocks
    <3>3. \A r \in Resources : resourceLock[r] = e => resourceLock'[r] = e
      BY <1>2, <3>1 DEF FreeLocks
    <3>4. \A p \in Projects : projectLock[p] = e => projectLock'[p] = e
      BY <1>2, <3>1 DEF FreeLocks
    <3> QED BY <3>2, <3>3, <3>4
  <2> QED BY <1>2, <2>1, <2>2, Bystander
<1>3. DispatcherInv(d)'
  <2>1. /\ todo'[d] = {} /\ at'[d] = "idle" /\ need'[d] = {}
        /\ \A t \in Tasks : own'[d][t] = {}
    BY DEF EndTransaction, AdmissionInv, TypeOK, Empty
  <2> QED BY <2>1 DEF DispatcherInv, LocksHeld, RequestsWhole, RoomKept
<1>4. CeilingsAreExact'
  <2>1. Fits(AllRows')
    BY ShrinkFits DEF AdmissionInv, CeilingsAreExact
  <2> QED BY <2>1 DEF CeilingsAreExact, Fits, HoldersIn, HoldersOf
<1> QED BY <1>1, <1>2, <1>3, <1>4

\* What a commit does to the committed rows: whole requests are added, to tasks
\* that had none, and everything stays within what was counted.
LEMMA CommitGrants ==
  ASSUME AdmissionInv, NEW d \in Dispatchers, Commit(d)
  PROVE  /\ \A t \in Tasks : own[d][t] # {} =>
              committed[t] = {} /\ committed'[t] = ResourceRequest[t] /\ rowLock[t] = d
         /\ \A t \in Tasks : own[d][t] = {} => committed'[t] = committed[t]
         /\ \A t \in Tasks : AllRows'[t] \subseteq AllRows[t]
         /\ \A t \in Tasks : committed'[t] \subseteq AllRows[t]
         /\ committed' \in Accounts
<1>1. /\ todo[d] = {} /\ committed' = Visible(d)
      /\ own' = [own EXCEPT ![d] = Empty]
  BY DEF Commit, EndTransaction
<1>2. \A t \in Tasks : own[d][t] # {} =>
        own[d][t] = ResourceRequest[t] /\ rowLock[t] = d /\ committed[t] = {}
  <2>1. \A t \in Tasks : own[d][t] # {} => own[d][t] = ResourceRequest[t]
    BY <1>1, Typed DEF RequestsWhole
  <2>2. \A t \in Tasks : own[d][t] # {} => rowLock[t] = d /\ committed[t] = {}
    BY Typed DEF LocksHeld
  <2> QED BY <2>1, <2>2
<1>3. \A t \in Tasks : committed'[t] = committed[t] \cup own[d][t]
  BY <1>1 DEF Visible
<1>4. \A t \in Tasks : \A s :
        s \in AllRows[t] <=> s \in committed[t] \/ \E e \in Dispatchers : s \in own[e][t]
  BY RowsAre DEF AllRows
<1>5. \A t \in Tasks : \A s :
        s \in AllRows'[t] <=> s \in committed'[t] \/ \E e \in Dispatchers : s \in own'[e][t]
  BY RowsAre DEF AllRows
<1>6. /\ \A t \in Tasks : own'[d][t] = {}
      /\ \A e \in Dispatchers : e # d => own'[e] = own[e]
  BY <1>1 DEF AdmissionInv, TypeOK, Empty
<1>7. \A t \in Tasks : committed'[t] \subseteq AllRows[t]
  BY <1>3, <1>4
<1>8. \A t \in Tasks : AllRows'[t] \subseteq AllRows[t]
  BY <1>4, <1>5, <1>6, <1>7
<1>9. committed' \in Accounts
  BY <1>1, Typed DEF Visible, AdmissionInv, TypeOK, Accounts
<1>10. \A t \in Tasks : own[d][t] # {} =>
         committed[t] = {} /\ committed'[t] = ResourceRequest[t] /\ rowLock[t] = d
  BY <1>2, <1>3
<1>11. \A t \in Tasks : own[d][t] = {} => committed'[t] = committed[t]
  BY <1>3
<1> QED BY <1>7, <1>8, <1>9, <1>10, <1>11

LEMMA CommitStep ==
  ASSUME AdmissionInv, NEW d \in Dispatchers, Commit(d)
  PROVE  AdmissionInv'
<1>1. EndTransaction(d) /\ leased' = leased \cup {t \in Tasks : own[d][t] # {}}
  BY DEF Commit
<1>2. leased' \in SUBSET Tasks
  BY <1>1 DEF AdmissionInv, TypeOK
<1>3. \A e \in Dispatchers \ {d} : \A t \in Tasks : rowLock[t] = e =>
        /\ t \in leased' => t \in leased
        /\ committed[t] = {} => committed'[t] = {}
  BY <1>1, CommitGrants
<1>4. \A t \in Tasks \ leased' : committed'[t] = {}
  BY <1>1, CommitGrants DEF AdmissionInv
<1>5. /\ TypeOK' /\ CeilingsAreExact'
      /\ \A e \in Dispatchers : DispatcherInv(e)'
  BY <1>1, <1>2, <1>3, CommitGrants, EndKeeps
<1> QED BY <1>4, <1>5 DEF AdmissionInv

\* Rows that disappear take nothing with them.
LEMMA RowsShrink ==
  ASSUME \A t \in Tasks : committed'[t] \subseteq committed[t],
         \A e \in Dispatchers : \A t \in Tasks : own'[e][t] \subseteq own[e][t]
  PROVE  \A t \in Tasks : AllRows'[t] \subseteq AllRows[t]
<1>1. \A t \in Tasks : \A s :
        s \in AllRows[t] <=> s \in committed[t] \/ \E e \in Dispatchers : s \in own[e][t]
  BY RowsAre DEF AllRows
<1>2. \A t \in Tasks : \A s :
        s \in AllRows'[t] <=> s \in committed'[t] \/ \E e \in Dispatchers : s \in own'[e][t]
  BY RowsAre DEF AllRows
<1> QED BY <1>1, <1>2

LEMMA RollbackStep ==
  ASSUME AdmissionInv, NEW d \in Dispatchers, Rollback(d)
  PROVE  AdmissionInv'
<1>1. EndTransaction(d) /\ UNCHANGED <<leased, committed>>
  BY DEF Rollback
<1>2. \A e \in Dispatchers : \A t \in Tasks : own'[e][t] \subseteq own[e][t]
  BY <1>1 DEF EndTransaction, AdmissionInv, TypeOK, Empty
<1>3. \A t \in Tasks : AllRows'[t] \subseteq AllRows[t]
  BY <1>1, <1>2, RowsShrink
<1>4. leased' \in SUBSET Tasks /\ committed' \in Accounts
  BY <1>1 DEF AdmissionInv, TypeOK
<1>5. /\ TypeOK' /\ CeilingsAreExact'
      /\ \A e \in Dispatchers : DispatcherInv(e)'
  BY <1>1, <1>3, <1>4, EndKeeps
<1> QED BY <1>1, <1>5 DEF AdmissionInv

LEMMA ReleaseStep ==
  ASSUME AdmissionInv, NEW t \in Tasks, ReleaseTask(t)
  PROVE  AdmissionInv'
<1>1. /\ leased' = leased \ {t} /\ committed' = [committed EXCEPT ![t] = {}]
      /\ UNCHANGED <<own, rowLock, projectLock, resourceLock, todo, at, current, need>>
  BY DEF ReleaseTask, locks
<1>2. TypeOK'
  BY <1>1 DEF AdmissionInv, TypeOK, Accounts
<1>3. committed'[t] = {} /\ \A u \in Tasks \ {t} : committed'[u] = committed[u]
  BY <1>1 DEF AdmissionInv, TypeOK, Accounts
<1>4. \A u \in Tasks : AllRows'[u] \subseteq AllRows[u]
  BY <1>1, <1>3, RowsShrink
<1>5. ASSUME NEW e \in Dispatchers PROVE DispatcherInv(e)'
  BY <1>1, <1>3, <1>4, Bystander
<1>6. CeilingsAreExact'
  <2>1. Fits(AllRows')
    BY <1>4, ShrinkFits DEF AdmissionInv, CeilingsAreExact
  <2> QED BY <2>1 DEF CeilingsAreExact, Fits, HoldersIn, HoldersOf
<1>7. \A u \in Tasks \ leased' : committed'[u] = {}
  BY <1>1, <1>3 DEF AdmissionInv
<1> QED BY <1>2, <1>5, <1>6, <1>7 DEF AdmissionInv

LEMMA StutterStep ==
  ASSUME AdmissionInv, UNCHANGED vars
  PROVE  AdmissionInv'
<1>1. AllRows' = AllRows
  BY DEF vars, AllRows
<1>2. ASSUME NEW e \in Dispatchers PROVE DispatcherInv(e)'
  BY <1>1, Bystander DEF vars
<1>3. TypeOK'
  BY DEF vars, AdmissionInv, TypeOK
<1>4. CeilingsAreExact'
  BY <1>1 DEF AdmissionInv, CeilingsAreExact, Fits, HoldersIn, HoldersOf
<1> QED BY <1>2, <1>3, <1>4 DEF vars, AdmissionInv

\* Every state claim_ready reaches, with any number of dispatchers at any
\* statement, is explained by the locks they hold.
THEOREM AdmissionHolds == Spec => []AdmissionInv
<1>1. ASSUME AdmissionInv, [Next]_vars PROVE AdmissionInv'
  BY <1>1, SelectStep, LockStep, EvaluateStep, ReserveStep, CommitStep, RollbackStep,
     ReleaseStep, StutterStep DEF Next
<1> QED BY <1>1, InitInv, PTL DEF Spec

\* The rows of all transactions, committed or open, exceed no ceiling: the
\* project lock and the resource locks make the totals that
\* _admission_snapshot and _reserve_with_global_cap compare exact.
THEOREM ConcurrentClaimsKeepCeilings == Spec => []CeilingsAreExact
<1>1. AdmissionInv => CeilingsAreExact
  BY DEF AdmissionInv
<1> QED BY <1>1, AdmissionHolds, PTL

\* FOR UPDATE SKIP LOCKED: a task's rows are written by one transaction only.
THEOREM TaskClaimedOnce == Spec => []OneClaimPerTask
<1>1. AdmissionInv => OneClaimPerTask
  BY DEF AdmissionInv, DispatcherInv, LocksHeld, OneClaimPerTask
<1> QED BY <1>1, AdmissionHolds, PTL

\* claim_ready run concurrently implements the abstract account: commits grant
\* whole requests that fit, and nothing else adds a reservation.
THEOREM AdmissionImplementsLedger == Spec => ImplementsLedger
<1>1. Init => Ledger!LedgerInit
  BY DEF Init, Empty, Ledger!LedgerInit
<1>2. ASSUME AdmissionInv, NEW d \in Dispatchers, Commit(d) PROVE Ledger!Grant
  <2> DEFINE S == {t \in Tasks : own[d][t] # {}}
  <2>1. /\ S \in SUBSET Tasks
        /\ \A t \in S : committed[t] = {}
        /\ \A t \in Tasks : committed'[t] = IF t \in S THEN ResourceRequest[t] ELSE committed[t]
        /\ committed' \in Accounts
    BY <1>2, CommitGrants
  <2>2. committed' = [t \in Tasks |-> IF t \in S THEN ResourceRequest[t] ELSE committed[t]]
    BY <2>1 DEF Accounts
  <2>3. Fits(committed')
    BY <1>2, CommitGrants, ShrinkFits DEF AdmissionInv, CeilingsAreExact
  <2> HIDE DEF S
  <2> QED BY <2>1, <2>2, <2>3 DEF Ledger!Grant
<1>3. ASSUME NEW t \in Tasks, ReleaseTask(t) PROVE Ledger!Release
  BY <1>3 DEF ReleaseTask, Ledger!Release
<1>4. ASSUME NEW d \in Dispatchers,
             \/ SelectCandidates(d) \/ LockProject(d) \/ EvaluateAdmission(d)
             \/ ReserveWithGlobalCap(d) \/ Rollback(d)
      PROVE  UNCHANGED committed
  BY <1>4 DEF SelectCandidates, LockProject, EvaluateAdmission, ReserveWithGlobalCap, Rollback
<1>5. AdmissionInv /\ [Next]_vars => [Ledger!Grant \/ Ledger!Release]_committed
  BY <1>2, <1>3, <1>4 DEF Next, vars
<1> QED BY <1>1, <1>5, AdmissionHolds, PTL DEF Spec, ImplementsLedger, Ledger!LedgerSpec
=============================================================================
