----------------------------- MODULE CapacityProofs -----------------------------
(***************************************************************************)
(* Why comparing totals before adding one task's units is enough.          *)
(***************************************************************************)
EXTENDS Capacity, FiniteSetTheorems, TLAPS

LEMMA CardinalityGrowsByOne ==
  ASSUME NEW S, IsFiniteSet(S), NEW x, NEW T, T \subseteq S \cup {x}
  PROVE  /\ Cardinality(T) \in Nat /\ Cardinality(S) \in Nat
         /\ Cardinality(T) <= Cardinality(S) + 1
<1>1. /\ IsFiniteSet(S \cup {x}) /\ Cardinality(S \cup {x}) \in Nat /\ Cardinality(S) \in Nat
      /\ Cardinality(S \cup {x}) <= Cardinality(S) + 1
  BY FS_AddElement, FS_CardinalityType
<1>2. Cardinality(T) \in Nat /\ Cardinality(T) <= Cardinality(S \cup {x})
  BY <1>1, FS_Subset, FS_CardinalityType
<1> QED BY <1>1, <1>2

LEMMA CardinalityShrinks ==
  ASSUME NEW S, IsFiniteSet(S), NEW T, T \subseteq S, NEW n \in Nat, Cardinality(S) <= n
  PROVE  Cardinality(T) <= n
BY FS_Subset, FS_CardinalityType

LEMMA CeilingsAreNaturals ==
  /\ \A r \in Resources : Ceiling(r) \in Nat
  /\ MaxParallelTasksPerProject \in Nat
BY CapacityAssumption DEF Ceiling, Resources

LEMMA HoldersAreFinite ==
  ASSUME NEW a
  PROVE  /\ \A r : IsFiniteSet(HoldersOf(a, r))
         /\ \A p : IsFiniteSet(HoldersIn(a, p))
<1>1. \A r : HoldersOf(a, r) \subseteq Tasks
  BY DEF HoldersOf
<1>2. \A p : HoldersIn(a, p) \subseteq Tasks
  BY <1>1 DEF HoldersIn
<1> QED BY <1>1, <1>2, FS_Subset, CapacityAssumption

LEMMA EmptyFits == Fits(Empty)
<1>1. \A r : HoldersOf(Empty, r) = {}
  BY DEF HoldersOf, Empty
<1>2. \A p : HoldersIn(Empty, p) = {}
  BY <1>1 DEF HoldersIn
<1> QED BY <1>1, <1>2, FS_EmptySet, CeilingsAreNaturals DEF Fits

\* Giving reservations back never takes a total above its ceiling.
LEMMA ShrinkFits ==
  ASSUME NEW a, NEW b, \A t \in Tasks : b[t] \subseteq a[t], Fits(a)
  PROVE  Fits(b)
<1>1. \A r \in Resources : HoldersOf(b, r) \subseteq HoldersOf(a, r)
  BY DEF HoldersOf
<1>2. \A p : HoldersIn(b, p) \subseteq HoldersIn(a, p)
  BY <1>1 DEF HoldersIn, Resources
<1>3. ASSUME NEW r \in Resources PROVE Cardinality(HoldersOf(b, r)) <= Ceiling(r)
  BY <1>1, HoldersAreFinite, CeilingsAreNaturals, CardinalityShrinks DEF Fits
<1>4. ASSUME NEW p \in Projects
      PROVE  Cardinality(HoldersIn(b, p)) <= MaxParallelTasksPerProject
  BY <1>2, HoldersAreFinite, CeilingsAreNaturals, CardinalityShrinks DEF Fits
<1> QED BY <1>3, <1>4 DEF Fits

\* Adding units R to one task fits when each of them had room, and a task slot
\* had room in the project.
LEMMA GrowthFits ==
  ASSUME NEW a, NEW b, NEW t \in Tasks, NEW R \in SUBSET Resources,
         \A u \in Tasks \ {t} : b[u] \subseteq a[u],
         b[t] \subseteq a[t] \cup R,
         \A r \in R : HasRoom(a, r),
         "task" \in R => HasRoomInProject(a, ProjectOf[t]),
         Fits(a)
  PROVE  Fits(b)
<1>1. ASSUME NEW r \in Resources
      PROVE  /\ HoldersOf(b, r) \subseteq HoldersOf(a, r) \cup {t}
             /\ r \notin R => HoldersOf(b, r) \subseteq HoldersOf(a, r)
  BY DEF HoldersOf
<1>2. ASSUME NEW r \in Resources PROVE Cardinality(HoldersOf(b, r)) <= Ceiling(r)
  <2>1. IsFiniteSet(HoldersOf(a, r)) /\ Ceiling(r) \in Nat
        /\ Cardinality(HoldersOf(a, r)) <= Ceiling(r)
    BY HoldersAreFinite, CeilingsAreNaturals DEF Fits
  <2>2. CASE r \in R
    <3>1. Cardinality(HoldersOf(a, r)) + 1 <= Ceiling(r)
      BY <2>2 DEF HasRoom
    <3>2. /\ Cardinality(HoldersOf(b, r)) \in Nat /\ Cardinality(HoldersOf(a, r)) \in Nat
          /\ Cardinality(HoldersOf(b, r)) <= Cardinality(HoldersOf(a, r)) + 1
      BY <1>1, <2>1, CardinalityGrowsByOne
    <3> QED BY <2>1, <3>1, <3>2
  <2>3. CASE r \notin R
    BY <1>1, <2>1, <2>3, CardinalityShrinks
  <2> QED BY <2>2, <2>3
<1>3. ASSUME NEW p \in Projects
      PROVE  Cardinality(HoldersIn(b, p)) <= MaxParallelTasksPerProject
  <2>1. IsFiniteSet(HoldersIn(a, p)) /\ MaxParallelTasksPerProject \in Nat
        /\ Cardinality(HoldersIn(a, p)) <= MaxParallelTasksPerProject
    BY HoldersAreFinite, CeilingsAreNaturals DEF Fits
  <2>2. CASE "task" \in R /\ p = ProjectOf[t]
    <3>1. Cardinality(HoldersIn(a, p)) + 1 <= MaxParallelTasksPerProject
      BY <2>2 DEF HasRoomInProject
    <3>2. HoldersIn(b, p) \subseteq HoldersIn(a, p) \cup {t}
      BY <1>1 DEF HoldersIn, Resources
    <3>3. /\ Cardinality(HoldersIn(b, p)) \in Nat /\ Cardinality(HoldersIn(a, p)) \in Nat
          /\ Cardinality(HoldersIn(b, p)) <= Cardinality(HoldersIn(a, p)) + 1
      BY <2>1, <3>2, CardinalityGrowsByOne
    <3> QED BY <2>1, <3>1, <3>3
  <2>3. CASE ~("task" \in R /\ p = ProjectOf[t])
    <3>1. HoldersIn(b, p) \subseteq HoldersIn(a, p)
      BY <1>1, <2>3 DEF HoldersIn, Resources
    <3> QED BY <2>1, <3>1, CardinalityShrinks
  <2> QED BY <2>2, <2>3
<1> QED BY <1>2, <1>3 DEF Fits

\* evaluate_admission is sufficient: a task it admits can be given its whole
\* request without exceeding any ceiling, whatever the others hold.
THEOREM AdmissionIsSufficient ==
  ASSUME NEW a \in Accounts, NEW t \in Tasks, Fits(a), Admitted(a, t)
  PROVE  Fits([a EXCEPT ![t] = ResourceRequest[t]])
<1> DEFINE b == [a EXCEPT ![t] = ResourceRequest[t]]
<1>1. /\ \A u \in Tasks \ {t} : b[u] \subseteq a[u]
      /\ b[t] \subseteq a[t] \cup ResourceRequest[t]
  BY DEF Accounts
<1>2. ResourceRequest[t] \in SUBSET Resources
  BY CapacityAssumption
<1>3. \A r \in ResourceRequest[t] : HasRoom(a, r)
  BY DEF Admitted
<1>4. HasRoomInProject(a, ProjectOf[t])
  BY DEF Admitted
<1> HIDE DEF b
<1>5. Fits(b)
  BY <1>1, <1>2, <1>3, <1>4, GrowthFits
<1> QED BY <1>5 DEF b
=============================================================================
