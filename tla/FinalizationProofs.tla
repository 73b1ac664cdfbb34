-------------------------- MODULE FinalizationProofs --------------------------
(***************************************************************************)
(* What a finalized run leaves behind, for any number of runs, dispatchers, *)
(* revisions, failures and faults: only an approved tree is committed, a    *)
(* completed run is delivered, one revision is released, repairs make       *)
(* progress and runs settle in order.  The dispatchers share no lock over a *)
(* cycle, so the argument is about what each of them has learned: facts     *)
(* that no step of anybody else can take back.                              *)
(***************************************************************************)
EXTENDS Finalization, FiniteSetTheorems, TLAPS

\* The tasks of the revision are done, or the plan went on from it.
Finished(r, v) ==
  v < plan[r].revision \/ (v = plan[r].revision /\ plan[r].tasks = "completed")

\* What sends revision w to the debugger: its verification or, that passed, its review.
Fails(r, w, f) ==
  /\ f \in Failures
  /\ evidence[r][w].verdict = f \/ (evidence[r][w].verdict = "passing" /\ decision[r][w] = f)

Delivered(r) == \E c \in commits[r] : call[r][c.rev].status = "COMPLETED"

\* A stored call was reviewed, and a commit was approved.
ReleaseInv(r) ==
  /\ \A v \in Revisions : call[r][v].status = "NONE" => call[r][v].approval = "NONE"
  /\ \A v \in Revisions : call[r][v].status # "NONE" =>
       decision[r][v] = "approved" /\ call[r][v].tree \in Trees
  /\ \A c \in commits[r] :
       /\ call[r][c.rev].tree = c.tree
       /\ call[r][c.rev].approval \in {"APPROVED", "EXPIRED"}
       /\ decision[r][c.rev] = "approved"

\* A run past its commit has it, and a promoted one is remembered.
OutcomeInv(r) ==
  /\ run[r].state \in {"WAITING_FOR_MEMORY", "COMPLETED"} => Delivered(r)
  /\ run[r].state = "COMPLETED" => Lesson(r) \in memory
  /\ candidate[r] = "PROMOTED" => Lesson(r) \in memory

\* Every accepted repair made one revision.
RepairInv(r) ==
  /\ IsFiniteSet(Accepted(r))
  /\ plan[r].revision = 1 + Cardinality(Accepted(r))
  /\ \A m, n \in Accepted(r) : m.failure = n.failure \/ m.base = n.base => m = n

\* Only finished revisions have evidence and decisions; while it is intact, a decided
\* revision passed its verification and a repaired one had the failure it was
\* repaired for, which is why an approved revision is the last.
EvidenceInv(r) ==
  /\ \A v \in Revisions :
       v > plan[r].revision \/ (v = plan[r].revision /\ plan[r].tasks = "unfinished")
         => evidence[r][v] = NoEvidence
  /\ \A v \in Revisions : decision[r][v] # "none" => Finished(r, v)
  /\ Intact(r) =>
       /\ \A v \in Revisions : decision[r][v] # "none" => evidence[r][v].verdict = "passing"
       /\ \A b \in Revisions : b < plan[r].revision =>
            \E m \in Accepted(r) : m.base = b /\ Fails(r, b, m.failure)

\* What a dispatcher at p has learned about run r, its revision v and what a says.
Learned(r, s, p, v, a) ==
  /\ s = "WAITING_FOR_MEMORY" => Delivered(r)
  /\ p = "memory" => s = "WAITING_FOR_MEMORY"
  /\ p \in {"verify", "review", "reviewing"} => Finished(r, v)
  /\ p \in {"hash", "request"} => decision[r][v] = "approved"
  /\ p = "request" => a \in Trees
  /\ p \in {"hold", "authorize", "commit"} => call[r][v].approval \in {"APPROVED", "EXPIRED"}
  /\ p = "complete" => \E c \in commits[r] : c.rev = v
  /\ p \in {"candidate", "gate", "remember", "unavailable", "promoted"} => Delivered(r)
  /\ p = "promoted" => Lesson(r) \in memory
  /\ p = "to" => a \in {"WAITING_FOR_APPROVAL", "WAITING_FOR_MEMORY", "COMPLETED", "FAILED"}
  /\ p = "to" /\ a \in {"WAITING_FOR_MEMORY", "COMPLETED"} => Delivered(r)
  /\ p = "to" /\ a = "COMPLETED" => Lesson(r) \in memory
  /\ p \in {"debug", "repair"} => a \in Failures
  /\ Intact(r) /\ p \in {"review", "reviewing"} => evidence[r][v].verdict = "passing"
  /\ Intact(r) /\ p \in {"debug", "repair"} =>
       \E w \in Revisions : Finished(r, w) /\ Fails(r, w, a)

Knows(d) ==
  ~At(d, "idle") =>
    /\ Now(d) \in Runs /\ Oldest(Now(d))
    /\ Learned(Now(d), dispatcher[d].state, dispatcher[d].at, dispatcher[d].rev, dispatcher[d].arg)

RunInv(r) == ReleaseInv(r) /\ OutcomeInv(r) /\ RepairInv(r) /\ EvidenceInv(r)

\* The inductive invariant.
FinalizationInv ==
  /\ TypeOK
  /\ \A r \in Runs : RunInv(r)
  /\ \A d \in Dispatchers : Knows(d)

-----------------------------------------------------------------------------
(* Steps.                                                                   *)

\* What no step takes back about a run.
Keeps(r) ==
  /\ run[r].state \in TerminalRun => run'[r].state = run[r].state
  /\ commits[r] \subseteq commits'[r]
  /\ \A v \in Revisions :
       /\ decision[r][v] # "none" => decision'[r][v] = decision[r][v]
       /\ call[r][v].approval \in {"APPROVED", "EXPIRED"} => call'[r][v].approval \in {"APPROVED", "EXPIRED"}
       /\ call[r][v].status = "COMPLETED" => call'[r][v].status = "COMPLETED"
       /\ Finished(r, v) => Finished(r, v)'
       /\ Intact(r)' /\ Finished(r, v) => evidence'[r][v].verdict = evidence[r][v].verdict
  /\ Intact(r)' => Intact(r)

Grows == memory \subseteq memory' /\ \A r \in Runs : Keeps(r)

\* A step that is about another run.
Same(r) ==
  /\ run'[r] = run[r] /\ plan'[r] = plan[r] /\ evidence'[r] = evidence[r] /\ repairs'[r] = repairs[r]
  /\ decision'[r] = decision[r] /\ call'[r] = call[r] /\ commits'[r] = commits[r]
  /\ candidate'[r] = candidate[r]

\* Dispatcher d goes on to p with revision v and a in its locals.
Turns(d, p, v, a) ==
  /\ dispatcher' \in [Dispatchers -> Cycle]
  /\ \A e \in Dispatchers \ {d} : dispatcher'[e] = dispatcher[e]
  /\ dispatcher'[d].run = dispatcher[d].run /\ dispatcher'[d].state = dispatcher[d].state
  /\ dispatcher'[d].at = p /\ dispatcher'[d].rev = v /\ dispatcher'[d].arg = a

Rests(d) ==
  /\ dispatcher' \in [Dispatchers -> Cycle]
  /\ \A e \in Dispatchers \ {d} : dispatcher'[e] = dispatcher[e]
  /\ dispatcher'[d].at = "idle"

Args == {"none"} \cup Failures \cup Trees \cup TerminalRun \cup Advanced

LEMMA Gone ==
  ASSUME TypeOK, NEW d \in Dispatchers, NEW p \in Positions, Go(d, p)
  PROVE  Turns(d, p, dispatcher[d].rev, dispatcher[d].arg)
<1>1. dispatcher \in [Dispatchers -> Cycle]
  BY DEF TypeOK
<1>2. [dispatcher[d] EXCEPT !.at = p] \in Cycle
  BY <1>1 DEF Cycle
<1> QED BY <1>1, <1>2 DEF Go, Turns, Cycle

LEMMA GoneWith ==
  ASSUME TypeOK, NEW d \in Dispatchers, NEW p \in Positions, NEW a \in Args, GoWith(d, p, a)
  PROVE  Turns(d, p, dispatcher[d].rev, a)
<1>1. dispatcher \in [Dispatchers -> Cycle]
  BY DEF TypeOK
<1>2. [dispatcher[d] EXCEPT !.at = p, !.arg = a] \in Cycle
  BY <1>1, Zenon DEF Cycle, Args
<1>3. dispatcher' = [dispatcher EXCEPT ![d] = [dispatcher[d] EXCEPT !.at = p, !.arg = a]]
  BY <1>1, Zenon DEF GoWith
<1> QED BY <1>1, <1>2, <1>3 DEF Turns, Cycle

LEMMA GoneFor ==
  ASSUME TypeOK, NEW d \in Dispatchers, NEW p \in Positions, NEW v \in Revisions, GoFor(d, p, v)
  PROVE  Turns(d, p, v, dispatcher[d].arg)
<1>1. dispatcher \in [Dispatchers -> Cycle]
  BY DEF TypeOK
<1>2. [dispatcher[d] EXCEPT !.at = p, !.rev = v] \in Cycle
  BY <1>1, Zenon DEF Cycle
<1>3. dispatcher' = [dispatcher EXCEPT ![d] = [dispatcher[d] EXCEPT !.at = p, !.rev = v]]
  BY <1>1, Zenon DEF GoFor
<1> QED BY <1>1, <1>2, <1>3 DEF Turns, Cycle

LEMMA Rested ==
  ASSUME TypeOK, NEW d \in Dispatchers, dispatcher' = [dispatcher EXCEPT ![d] = Resting]
  PROVE  Rests(d)
<1>1. dispatcher \in [Dispatchers -> Cycle]
  BY DEF TypeOK
<1>2. Resting \in Cycle
  BY FinalizationAssumption DEF Resting, Cycle, Advanced, Positions, Revisions
<1> QED BY <1>1, <1>2 DEF Rests, Resting

LEMMA Put ==
  ASSUME NEW A, NEW B, NEW C, NEW f \in [A -> [B -> C]], NEW x \in A, NEW y \in B, NEW z \in C
  PROVE  [f EXCEPT ![x][y] = z] \in [A -> [B -> C]]
OBVIOUS

LEMMA Revised ==
  /\ MaxRevision \in Nat /\ 1 \in Revisions
  /\ \A v \in Revisions : v \in Nat /\ v >= 1 /\ v <= MaxRevision
BY FinalizationAssumption DEF Revisions

LEMMA NextRevision == \A v \in Revisions : v < MaxRevision => v \in Nat /\ v + 1 \in Revisions
BY FinalizationAssumption DEF Revisions

LEMMA Named == Failures \cap {"passing", "none", "approved"} = {}
BY FinalizationAssumption

\* What a dispatcher has learned stays so, whoever takes the step.
LEMMA LearnedStays ==
  ASSUME TypeOK, Grows, NEW r \in Runs, NEW s, NEW p, NEW v \in Revisions, NEW a, Learned(r, s, p, v, a)
  PROVE  Learned(r, s, p, v, a)'
<1>1. Keeps(r) /\ memory \subseteq memory'
  BY DEF Grows
<1>2. \A c \in commits[r] : c.rev \in Revisions
  BY DEF TypeOK
<1>3. Delivered(r) => Delivered(r)'
  BY <1>1, <1>2 DEF Keeps, Delivered
<1>4. Lesson(r) \in memory => (Lesson(r) \in memory)'
  BY <1>1 DEF Lesson
<1>5. ASSUME Intact(r)', NEW w \in Revisions, Finished(r, w), NEW f, Fails(r, w, f)
      PROVE  Fails(r, w, f)' /\ Finished(r, w)'
  BY <1>1, <1>5, Named DEF Keeps, Fails
<1>6. ASSUME Intact(r)', p \in {"debug", "repair"}
      PROVE  \E w \in Revisions : Finished(r, w)' /\ Fails(r, w, a)'
  <2>1. PICK w \in Revisions : Finished(r, w) /\ Fails(r, w, a)
    BY <1>1, <1>6 DEF Keeps, Learned
  <2> QED BY <1>5, <1>6, <2>1
<1>7. ASSUME p \in {"verify", "review", "reviewing"} PROVE Finished(r, v)'
  BY <1>1, <1>7 DEF Keeps, Learned
<1>8. ASSUME Intact(r)', p \in {"review", "reviewing"} PROVE evidence'[r][v].verdict = "passing"
  BY <1>1, <1>8 DEF Keeps, Learned
<1>9. ASSUME p \in {"hold", "authorize", "commit"} PROVE call'[r][v].approval \in {"APPROVED", "EXPIRED"}
  BY <1>1, <1>9 DEF Keeps, Learned
<1>10. ASSUME p \in {"hash", "request"} PROVE decision'[r][v] = "approved"
  BY <1>1, <1>10 DEF Keeps, Learned
<1>11. ASSUME p = "complete" PROVE \E c \in commits'[r] : c.rev = v
  BY <1>1, <1>11 DEF Keeps, Learned
<1> QED BY <1>3, <1>4, <1>6, <1>7, <1>8, <1>9, <1>10, <1>11 DEF Learned

LEMMA OldestStays ==
  ASSUME TypeOK, Grows, NEW r \in Runs, Oldest(r)
  PROVE  Oldest(r)'
BY DEF Grows, Keeps, Oldest

LEMMA KnowsStays ==
  ASSUME TypeOK, Grows, NEW e \in Dispatchers, dispatcher'[e] = dispatcher[e], Knows(e)
  PROVE  Knows(e)'
<1> SUFFICES ASSUME ~At(e, "idle")
             PROVE  /\ Now(e)' \in Runs /\ Oldest(Now(e))'
                    /\ Learned(Now(e), dispatcher[e].state, dispatcher[e].at, dispatcher[e].rev, dispatcher[e].arg)'
  BY DEF Knows, At
<1>0. dispatcher[e] \in Cycle /\ Now(e) \in Runs
  BY DEF Knows, TypeOK
<1>1. PICK r \in Runs, s \in Advanced, p \in Positions, v \in Revisions, a \in Args :
        /\ r = Now(e) /\ s = dispatcher[e].state /\ p = dispatcher[e].at
        /\ v = dispatcher[e].rev /\ a = dispatcher[e].arg
  BY <1>0 DEF Cycle, Args
<1>2. /\ Now(e)' = r /\ dispatcher'[e].state = s /\ dispatcher'[e].at = p
      /\ dispatcher'[e].rev = v /\ dispatcher'[e].arg = a
  BY <1>1 DEF Now
<1>3. Oldest(r) /\ Learned(r, s, p, v, a)
  BY <1>1 DEF Knows
<1>4. Oldest(r)' /\ Learned(r, s, p, v, a)'
  BY <1>3, OldestStays, LearnedStays
<1> QED BY <1>2, <1>4

\* The dispatcher that takes the step, and the others.
LEMMA ActorStep ==
  ASSUME FinalizationInv, TypeOK', Grows, \A q \in Runs : RunInv(q)',
         NEW d \in Dispatchers, NEW r \in Runs, r = Now(d), Oldest(r), NEW s, s = dispatcher[d].state,
         NEW p, NEW v, NEW a, Turns(d, p, v, a), Learned(r, s, p, v, a)'
  PROVE  FinalizationInv'
<1>1. ASSUME NEW e \in Dispatchers, e # d PROVE Knows(e)'
  <2>1. dispatcher'[e] = dispatcher[e]
    BY <1>1 DEF Turns
  <2> QED BY <2>1, KnowsStays DEF FinalizationInv
<1>2. Knows(d)'
  <2>1. /\ Now(d)' = r /\ dispatcher'[d].state = s /\ dispatcher'[d].at = p
        /\ dispatcher'[d].rev = v /\ dispatcher'[d].arg = a
    BY DEF Turns, Now
  <2>2. Oldest(r)'
    BY OldestStays DEF FinalizationInv
  <2> QED BY <2>1, <2>2 DEF Knows
<1> QED BY <1>1, <1>2 DEF FinalizationInv

LEMMA RestStep ==
  ASSUME FinalizationInv, TypeOK', Grows, \A q \in Runs : RunInv(q)', NEW d \in Dispatchers, Rests(d)
  PROVE  FinalizationInv'
<1>1. ASSUME NEW e \in Dispatchers, e # d PROVE Knows(e)'
  <2>1. dispatcher'[e] = dispatcher[e]
    BY <1>1 DEF Rests
  <2> QED BY <2>1, KnowsStays DEF FinalizationInv
<1>2. Knows(d)'
  BY DEF Rests, Knows, At
<1> QED BY <1>1, <1>2 DEF FinalizationInv

\* A step outside of the dispatchers.
LEMMA OtherStep ==
  ASSUME FinalizationInv, TypeOK', Grows, \A q \in Runs : RunInv(q)', UNCHANGED dispatcher
  PROVE  FinalizationInv'
BY KnowsStays DEF FinalizationInv

LEMMA SameKeeps ==
  ASSUME NEW q \in Runs, Same(q), memory \subseteq memory', RunInv(q)
  PROVE  Keeps(q) /\ RunInv(q)'
<1>1. Accepted(q)' = Accepted(q) /\ (Intact(q)' <=> Intact(q)) /\ Lesson(q)' = Lesson(q)
  BY DEF Same, Accepted, Intact, Lesson
<1>2. \A v : (Finished(q, v)' <=> Finished(q, v)) /\ \A f : Fails(q, v, f)' <=> Fails(q, v, f)
  BY DEF Same, Finished, Fails
<1>3. Keeps(q)
  BY <1>1, <1>2 DEF Same, Keeps
<1>4. ReleaseInv(q)'
  BY DEF Same, ReleaseInv, RunInv
<1>5. OutcomeInv(q)'
  BY <1>1 DEF Same, OutcomeInv, RunInv, Delivered
<1>6. RepairInv(q)'
  BY <1>1 DEF Same, RepairInv, RunInv
<1>7. EvidenceInv(q)'
  BY <1>1, <1>2 DEF Same, EvidenceInv, RunInv
<1> QED BY <1>3, <1>4, <1>5, <1>6, <1>7 DEF RunInv

\* A step about run r, or about none.
LEMMA OneRun ==
  ASSUME FinalizationInv, memory \subseteq memory', NEW r \in Runs,
         \A q \in Runs \ {r} : Same(q), Keeps(r), RunInv(r)'
  PROVE  Grows /\ \A q \in Runs : RunInv(q)'
<1>1. ASSUME NEW q \in Runs, q # r PROVE Keeps(q) /\ RunInv(q)'
  BY <1>1, SameKeeps DEF FinalizationInv
<1> QED BY <1>1 DEF Grows

LEMMA NoRun ==
  ASSUME FinalizationInv, UNCHANGED <<run, world>>
  PROVE  Grows /\ \A q \in Runs : RunInv(q)'
<1>1. \A q \in Runs : Same(q)
  BY DEF Same, world
<1>2. memory \subseteq memory'
  BY DEF world
<1> QED BY <1>1, <1>2, SameKeeps DEF Grows, FinalizationInv

\* What the dispatcher that takes a step is at.
Works(d, r, s, p, v, a) ==
  /\ r = Now(d) /\ s = dispatcher[d].state /\ p = dispatcher[d].at
  /\ v = dispatcher[d].rev /\ a = dispatcher[d].arg
  /\ Oldest(r) /\ Learned(r, s, p, v, a)

LEMMA AtWork ==
  ASSUME FinalizationInv, NEW d \in Dispatchers, NEW p \in Positions, At(d, p), p # "idle"
  PROVE  \E r \in Runs, s \in Advanced, v \in Revisions, a \in Args : Works(d, r, s, p, v, a)
<1>1. dispatcher[d] \in Cycle /\ Knows(d)
  BY DEF FinalizationInv, TypeOK
<1> QED BY <1>1 DEF Cycle, Args, Knows, At, Works

\* A step that only moves its dispatcher.
LEMMA ReadStep ==
  ASSUME FinalizationInv, UNCHANGED <<run, world>>,
         stage' \in [Runs -> [Advanced -> RunStageAttemptRow]], faults' \in 0..MaxFaults,
         NEW d \in Dispatchers, NEW r \in Runs, NEW s \in Advanced, NEW p, NEW v, NEW a, Works(d, r, s, p, v, a),
         NEW p1, NEW v1 \in Revisions, NEW a1, Turns(d, p1, v1, a1), Learned(r, s, p1, v1, a1)
  PROVE  FinalizationInv'
<1>1. TypeOK'
  BY DEF FinalizationInv, TypeOK, world, Turns
<1>2. Grows /\ \A q \in Runs : RunInv(q)'
  BY NoRun
<1>3. Learned(r, s, p1, v1, a1)'
  BY <1>2, LearnedStays DEF FinalizationInv
<1> QED BY <1>1, <1>2, <1>3, ActorStep DEF Works

LEMMA IdleStep ==
  ASSUME FinalizationInv, UNCHANGED <<run, world>>,
         stage' \in [Runs -> [Advanced -> RunStageAttemptRow]], faults' \in 0..MaxFaults,
         NEW d \in Dispatchers, Rests(d)
  PROVE  FinalizationInv'
<1>1. TypeOK'
  BY DEF FinalizationInv, TypeOK, world, Rests
<1> QED BY <1>1, NoRun, RestStep

LEMMA TurnStep ==
  ASSUME FinalizationInv, UNCHANGED <<run, world, stage, faults>>,
         NEW d \in Dispatchers, NEW r \in Runs, NEW s \in Advanced, NEW p, NEW v, NEW a, Works(d, r, s, p, v, a),
         NEW p1, NEW v1 \in Revisions, NEW a1, Turns(d, p1, v1, a1), Learned(r, s, p1, v1, a1)
  PROVE  FinalizationInv'
BY ReadStep, Zenon DEF FinalizationInv, TypeOK

\* Between the facts a dispatcher only remembers the state it read.
LEMMA LearnedNothing ==
  ASSUME NEW r, NEW s, NEW p, NEW v, NEW a, Learned(r, s, p, v, a),
         NEW p1 \in {"claim", "tasks", "approval", "cleanup", "release"}, NEW v1, NEW a1
  PROVE  Learned(r, s, p1, v1, a1)
BY DEF Learned

LEMMA BackStep ==
  ASSUME FinalizationInv, UNCHANGED <<run, world, stage, faults>>,
         NEW d \in Dispatchers, NEW r \in Runs, NEW s \in Advanced, NEW p, NEW v \in Revisions, NEW a,
         Works(d, r, s, p, v, a), Turns(d, "release", v, a)
  PROVE  FinalizationInv'
<1>1. Learned(r, s, "release", v, a)
  BY LearnedNothing, Zenon DEF Works
<1> QED BY <1>1, TurnStep, Zenon

\* Taking a run and its claim, and giving it back.
LEMMA ClaimSteps ==
  ASSUME FinalizationInv, NEW d \in Dispatchers, advance_next(d) \/ _claim_stage(d) \/ _release_stage(d)
  PROVE  FinalizationInv'
<1> USE DEF FinalizationInv
<1>1. ASSUME advance_next(d) PROVE FinalizationInv'
  <2>1. PICK r \in Runs :
          /\ run[r].state \in Advanced
          /\ \A q \in Runs : q < r => run[q].state \notin Advanced
          /\ dispatcher' = [dispatcher EXCEPT ![d] =
               [Resting EXCEPT !.run = r, !.state = run[r].state, !.at = "claim"]]
    BY <1>1, Zenon DEF advance_next
  <2>2. PICK s \in Advanced : s = run[r].state
    BY <2>1
  <2>3. PICK x : x = [Resting EXCEPT !.run = r, !.state = s, !.at = "claim"]
    OBVIOUS
  <2>4. /\ dispatcher' = [dispatcher EXCEPT ![d] = x] /\ x \in Cycle
        /\ x.run = r /\ x.state = s /\ x.at = "claim" /\ x.rev = 1 /\ x.arg = "none"
    BY <2>1, <2>2, <2>3, Revised, Zenon DEF Resting, Cycle, Positions
  <2>5. TypeOK'
    BY <1>1, <2>4, Zenon DEF advance_next, TypeOK, world
  <2>6. Grows /\ \A q \in Runs : RunInv(q)'
    BY <1>1, NoRun, Zenon DEF advance_next
  <2>7. Oldest(r) /\ Learned(r, s, "claim", 1, "none")
    BY <2>1, <2>2 DEF Oldest, TypeOK, Learned, RunInv, OutcomeInv
  <2>8. Oldest(r)' /\ Learned(r, s, "claim", 1, "none")'
    BY <2>6, <2>7, OldestStays, LearnedStays, Revised
  <2>9. Knows(d)'
    BY <2>4, <2>8 DEF Knows, Now, At, TypeOK
  <2>10. ASSUME NEW e \in Dispatchers, e # d PROVE Knows(e)'
    <3>1. dispatcher'[e] = dispatcher[e]
      BY <2>4, <2>10 DEF TypeOK
    <3> QED BY <2>6, <3>1, KnowsStays
  <2> QED BY <2>5, <2>6, <2>9, <2>10
<1>2. ASSUME _claim_stage(d) PROVE FinalizationInv'
  <2>1. PICK r \in Runs, s \in Advanced, v \in Revisions, a \in Args : Works(d, r, s, "claim", v, a)
    BY <1>2, AtWork DEF _claim_stage, Positions
  <2>2. r = Now(d) /\ s = dispatcher[d].state
    BY <2>1 DEF Works
  <2>3. CASE Claimable(stage[r][s])
    <3>1. stage' = [stage EXCEPT ![r][s] = [running |-> TRUE, owner |-> d, stale |-> FALSE]] /\ Go(d, Entry(s))
      BY <1>2, <2>2, <2>3 DEF _claim_stage
    <3>2. Entry(s) \in Positions
      BY DEF Entry, Advanced, Positions
    <3>3. Turns(d, Entry(s), v, a)
      BY <2>1, <3>1, <3>2, Gone DEF Works
    <3>4. Learned(r, s, Entry(s), v, a)
      BY <2>1 DEF Works, Learned, Entry, Advanced
    <3>5. stage' \in [Runs -> [Advanced -> RunStageAttemptRow]]
      BY <3>1 DEF TypeOK, RunStageAttemptRow
    <3> QED BY <1>2, <2>1, <3>3, <3>4, <3>5, ReadStep, Zenon DEF _claim_stage, TypeOK
  <2>4. CASE ~Claimable(stage[r][s])
    BY <1>2, <2>2, <2>4, Rested, IdleStep, Zenon DEF _claim_stage, TypeOK
  <2> QED BY <2>3, <2>4
<1>3. ASSUME _release_stage(d) PROVE FinalizationInv'
  <2>1. stage' \in [Runs -> [Advanced -> RunStageAttemptRow]]
    <3>1. PICK r \in Runs, s \in Advanced, v \in Revisions, a \in Args : Works(d, r, s, "release", v, a)
      BY <1>3, AtWork DEF _release_stage, Positions
    <3>2. stage[r][s] \in RunStageAttemptRow
      BY DEF TypeOK
    <3>3. PICK row \in RunStageAttemptRow : row = [stage[r][s] EXCEPT !.running = FALSE, !.stale = FALSE]
      BY <3>2, Zenon DEF RunStageAttemptRow
    <3>4. stage' = stage \/ stage' = [stage EXCEPT ![r][s] = row]
      BY <1>3, <3>1, <3>3, Zenon DEF _release_stage, Works, TypeOK
    <3>5. stage \in [Runs -> [Advanced -> RunStageAttemptRow]]
      BY DEF TypeOK
    <3>6. [stage EXCEPT ![r][s] = row] \in [Runs -> [Advanced -> RunStageAttemptRow]]
      BY <3>5, Put
    <3> QED BY <3>4, <3>5, <3>6
  <2> QED BY <1>3, <2>1, Rested, IdleStep, Zenon DEF _release_stage, TypeOK
<1> QED BY <1>1, <1>2, <1>3

\* The steps that read the database, the worktree or the claim and go on.
LEMMA ReadingSteps ==
  ASSUME FinalizationInv, NEW d \in Dispatchers,
         \/ _advance_executing(d) \/ verification_evidence(d) \/ _load_release_decision(d) \/ _request_repair(d)
         \/ worktree_tree_hash(d) \/ _advance_approval(d) \/ _holds_stage(d) \/ authorize(d) \/ _advance_memory(d)
  PROVE  FinalizationInv'
<1>1. /\ TypeOK /\ \A q \in Runs : RunInv(q)
      /\ \A q \in Runs : plan[q] \in Plan /\ plan[q].revision \in Revisions
      /\ \A q \in Runs, v \in Revisions : evidence[q][v] \in Evidence
      /\ \A q \in Runs, v \in Revisions : call[q][v] \in Call
      /\ \A q \in Runs, v \in Revisions : decision[q][v] \in {"none", "approved"} \cup Failures
      /\ \A q \in Runs, v \in Revisions : worktree[q][v] \in Trees \cup {Nobody}
  BY DEF FinalizationInv, TypeOK, Plan
<1>2. "FAILED" \in Args /\ (\A t \in Trees : t \in Args) /\ (\A f \in Failures : f \in Args)
  BY DEF Args, TerminalRun
<1>3. ASSUME _advance_executing(d) PROVE FinalizationInv'
  <2>1. PICK r \in Runs, s \in Advanced, v \in Revisions, a \in Args : Works(d, r, s, "tasks", v, a)
    BY <1>3, AtWork DEF _advance_executing, Positions
  <2>2. CASE plan[r].tasks = "unfinished"
    <3>1. Turns(d, "release", v, a)
      BY <1>1, <1>3, <2>1, <2>2, Gone DEF _advance_executing, Works, Positions
    <3> QED BY <1>3, <2>1, <3>1, TurnStep, LearnedNothing DEF _advance_executing, Works
  <2>3. CASE plan[r].tasks = "failed"
    <3>1. Turns(d, "to", v, "FAILED")
      BY <1>1, <1>2, <1>3, <2>1, <2>3, GoneWith DEF _advance_executing, Works, Positions
    <3>2. Learned(r, s, "to", v, "FAILED")
      BY <2>1, Zenon DEF Works, Learned
    <3> QED BY <1>3, <2>1, <3>1, <3>2, TurnStep DEF _advance_executing
  <2>4. CASE plan[r].tasks = "completed"
    <3>1. Turns(d, "verify", plan[r].revision, a)
      BY <1>1, <1>3, <2>1, <2>4, GoneFor DEF _advance_executing, Works, Positions
    <3>2. Learned(r, s, "verify", plan[r].revision, a)
      BY <2>1, <2>4, Zenon DEF Works, Learned, Finished
    <3> QED BY <1>1, <1>3, <2>1, <3>1, <3>2, TurnStep DEF _advance_executing
  <2> QED BY <1>1, <2>2, <2>3, <2>4 DEF Plan
<1>4. ASSUME verification_evidence(d) PROVE FinalizationInv'
  <2>1. PICK r \in Runs, s \in Advanced, v \in Revisions, a \in Args : Works(d, r, s, "verify", v, a)
    BY <1>4, AtWork DEF verification_evidence, Positions
  <2>2. CASE evidence[r][v].verdict = "passing"
    <3>1. Turns(d, "review", v, a)
      BY <1>1, <1>4, <2>1, <2>2, Gone DEF verification_evidence, Works, Positions
    <3>2. Learned(r, s, "review", v, a)
      BY <2>1, <2>2, Zenon DEF Works, Learned
    <3> QED BY <1>4, <2>1, <3>1, <3>2, TurnStep DEF verification_evidence
  <2>3. CASE evidence[r][v].verdict = "none"
    <3>1. Turns(d, "to", v, "FAILED")
      BY <1>1, <1>2, <1>4, <2>1, <2>3, GoneWith DEF verification_evidence, Works, Positions
    <3>2. Learned(r, s, "to", v, "FAILED")
      BY <2>1, Zenon DEF Works, Learned
    <3> QED BY <1>4, <2>1, <3>1, <3>2, TurnStep DEF verification_evidence
  <2>4. CASE evidence[r][v].verdict \notin {"passing", "none"}
    <3>1. PICK f \in Failures : f = evidence[r][v].verdict
      BY <1>1, <2>4 DEF Evidence
    <3>2. Turns(d, "debug", v, f)
      BY <1>1, <1>2, <1>4, <2>1, <2>4, <3>1, GoneWith DEF verification_evidence, Works, Positions
    <3>3. Learned(r, s, "debug", v, f)
      BY <2>1, <3>1, Zenon DEF Works, Learned, Fails
    <3> QED BY <1>4, <2>1, <3>2, <3>3, TurnStep DEF verification_evidence
  <2> QED BY <2>2, <2>3, <2>4, Zenon
<1>5. ASSUME _load_release_decision(d) PROVE FinalizationInv'
  <2>1. PICK r \in Runs, s \in Advanced, v \in Revisions, a \in Args : Works(d, r, s, "review", v, a)
    BY <1>5, AtWork, Zenon DEF _load_release_decision, Positions
  <2>2. CASE decision[r][v] = "none"
    <3>1. Turns(d, "reviewing", v, a)
      BY <1>1, <1>5, <2>1, <2>2, Gone, Zenon DEF _load_release_decision, Works, Positions
    <3>2. Learned(r, s, "reviewing", v, a)
      BY <2>1, <2>2, Zenon DEF Works, Learned
    <3> QED BY <1>5, <2>1, <3>1, <3>2, TurnStep, Zenon DEF _load_release_decision
  <2>3. CASE decision[r][v] = "approved"
    <3>1. Turns(d, "hash", v, a)
      BY <1>1, <1>5, <2>1, <2>3, Gone, Zenon DEF _load_release_decision, Decided, Works, Positions
    <3>2. Learned(r, s, "hash", v, a)
      BY <2>1, <2>3, Zenon DEF Works, Learned
    <3> QED BY <1>5, <2>1, <3>1, <3>2, TurnStep, Zenon DEF _load_release_decision
  <2>4. CASE decision[r][v] \notin {"none", "approved"}
    <3>1. PICK f \in Failures : f = decision[r][v]
      BY <1>1, <2>4, Zenon
    <3>2. Turns(d, "debug", v, f)
      BY <1>1, <1>2, <1>5, <2>1, <2>4, <3>1, GoneWith, Zenon DEF _load_release_decision, Decided, Works, Positions
    <3>3. Learned(r, s, "debug", v, f)
      BY <2>1, <3>1, Zenon DEF Works, Learned, Fails
    <3> QED BY <1>5, <2>1, <3>2, <3>3, TurnStep, Zenon DEF _load_release_decision
  <2> QED BY <2>2, <2>3, <2>4
<1>6. ASSUME _request_repair(d) PROVE FinalizationInv'
  <2>1. PICK r \in Runs, s \in Advanced, v \in Revisions, a \in Args : Works(d, r, s, "debug", v, a)
    BY <1>6, AtWork DEF _request_repair, Positions
  <2>2. Turns(d, "repair", plan[r].revision, a)
    BY <1>1, <1>6, <2>1, GoneFor, Zenon DEF _request_repair, Works, Positions
  <2>3. Learned(r, s, "repair", plan[r].revision, a)
    BY <2>1, Zenon DEF Works, Learned
  <2> QED BY <1>1, <1>6, <2>1, <2>2, <2>3, TurnStep, Zenon DEF _request_repair
<1>7. ASSUME worktree_tree_hash(d) PROVE FinalizationInv'
  <2>1. PICK r \in Runs, s \in Advanced, v \in Revisions, a \in Args : Works(d, r, s, "hash", v, a)
    BY <1>7, AtWork, Zenon DEF worktree_tree_hash, Positions
  <2>2. CASE worktree[r][v] = Nobody
    <3>1. Turns(d, "release", v, a)
      BY <1>1, <1>7, <2>1, <2>2, Gone, Zenon DEF worktree_tree_hash, Works, Positions
    <3> QED BY <1>7, <2>1, <3>1, BackStep, Zenon DEF worktree_tree_hash
  <2>3. CASE worktree[r][v] # Nobody
    <3>1. PICK t \in Trees : t = worktree[r][v]
      BY <1>1, <2>3
    <3>2. Turns(d, "request", v, t)
      BY <1>1, <1>2, <1>7, <2>1, <2>3, <3>1, GoneWith, Zenon DEF worktree_tree_hash, Works, Positions
    <3>3. Learned(r, s, "request", v, t)
      BY <2>1, Zenon DEF Works, Learned
    <3> QED BY <1>7, <2>1, <3>2, <3>3, TurnStep, Zenon DEF worktree_tree_hash
  <2> QED BY <2>2, <2>3
<1>8. ASSUME _advance_approval(d) PROVE FinalizationInv'
  <2>1. PICK r \in Runs, s \in Advanced, v \in Revisions, a \in Args : Works(d, r, s, "approval", v, a)
    BY <1>8, AtWork DEF _advance_approval, Positions
  <2>2. \/ Go(d, "release")
        \/ GoWith(d, "to", "FAILED")
        \/ \E w \in Revisions : call[r][w].approval = "APPROVED" /\ GoFor(d, "hold", w)
    BY <1>8, <2>1 DEF _advance_approval, _approval_identity, Works
  <2>3. ASSUME Go(d, "release") PROVE FinalizationInv'
    <3>1. Turns(d, "release", v, a)
      BY <1>1, <2>1, <2>3, Gone, Zenon DEF Works, Positions
    <3> QED BY <1>8, <2>1, <3>1, TurnStep, LearnedNothing DEF _advance_approval, Works
  <2>4. ASSUME GoWith(d, "to", "FAILED") PROVE FinalizationInv'
    <3>1. Turns(d, "to", v, "FAILED")
      BY <1>1, <1>2, <2>1, <2>4, GoneWith DEF Works, Positions
    <3>2. Learned(r, s, "to", v, "FAILED")
      BY <2>1, Zenon DEF Works, Learned
    <3> QED BY <1>8, <2>1, <3>1, <3>2, TurnStep DEF _advance_approval
  <2>5. ASSUME NEW w \in Revisions, call[r][w].approval = "APPROVED", GoFor(d, "hold", w) PROVE FinalizationInv'
    <3>1. Turns(d, "hold", w, a)
      BY <1>1, <2>1, <2>5, GoneFor, Zenon DEF Works, Positions
    <3>2. Learned(r, s, "hold", w, a)
      BY <2>1, <2>5, Zenon DEF Works, Learned
    <3> QED BY <1>8, <2>1, <3>1, <3>2, TurnStep DEF _advance_approval
  <2> QED BY <2>2, <2>3, <2>4, <2>5, Zenon
<1>9. ASSUME _holds_stage(d) PROVE FinalizationInv'
  <2>1. PICK r \in Runs, s \in Advanced, v \in Revisions, a \in Args : Works(d, r, s, "hold", v, a)
    BY <1>9, AtWork, Zenon DEF _holds_stage, Positions
  <2>2. PICK p \in {"authorize", "release"} : Go(d, p)
    BY <1>9, Zenon DEF _holds_stage
  <2>3. Turns(d, p, v, a)
    BY <1>1, <2>1, <2>2, Gone DEF Works, Positions
  <2>4. Learned(r, s, p, v, a)
    BY <2>1 DEF Works, Learned
  <2> QED BY <1>9, <2>1, <2>3, <2>4, TurnStep, Zenon DEF _holds_stage
<1>10. ASSUME authorize(d) PROVE FinalizationInv'
  <2>1. PICK r \in Runs, s \in Advanced, v \in Revisions, a \in Args : Works(d, r, s, "authorize", v, a)
    BY <1>10, AtWork, Zenon DEF authorize, Positions
  <2>2. PICK p \in {"commit", "release"} : Go(d, p)
    BY <1>10, Zenon DEF authorize
  <2>3. Turns(d, p, v, a)
    BY <1>1, <2>1, <2>2, Gone DEF Works, Positions
  <2>4. Learned(r, s, p, v, a)
    BY <2>1, Zenon DEF Works, Learned
  <2> QED BY <1>10, <2>1, <2>3, <2>4, TurnStep, Zenon DEF authorize
<1>11. ASSUME _advance_memory(d) PROVE FinalizationInv'
  <2>1. PICK r \in Runs, s \in Advanced, v \in Revisions, a \in Args : Works(d, r, s, "memory", v, a)
    BY <1>11, AtWork, Zenon DEF _advance_memory, Positions
  <2>2. PICK p \in {"gate", "release"} : GoFor(d, p, plan[r].revision)
    BY <1>11, <2>1, Zenon DEF _advance_memory, Works
  <2>3. Turns(d, p, plan[r].revision, a)
    BY <1>1, <2>1, <2>2, GoneFor DEF Works, Positions
  <2>4. Learned(r, s, p, plan[r].revision, a)
    BY <2>1, Zenon DEF Works, Learned
  <2> QED BY <1>1, <1>11, <2>1, <2>3, <2>4, TurnStep, Zenon DEF _advance_memory
<1> QED BY <1>3, <1>4, <1>5, <1>6, <1>7, <1>8, <1>9, <1>10, <1>11

-----------------------------------------------------------------------------
(* Steps that write.                                                        *)

\* The parts of the invariant that a step does not touch.
LEMMA Frames ==
  ASSUME NEW r \in Runs, RunInv(r), memory \subseteq memory'
  PROVE  /\ call'[r] = call[r] /\ decision'[r] = decision[r] /\ commits'[r] = commits[r] => ReleaseInv(r)'
         /\ /\ run'[r].state = run[r].state /\ call'[r] = call[r] /\ commits'[r] = commits[r]
            /\ candidate'[r] = candidate[r]
            => OutcomeInv(r)'
         /\ plan'[r] = plan[r] /\ repairs'[r] = repairs[r] => RepairInv(r)'
         /\ /\ plan'[r] = plan[r] /\ evidence'[r] = evidence[r] /\ decision'[r] = decision[r]
            /\ repairs'[r] = repairs[r]
            => EvidenceInv(r)'
<1>1. repairs'[r] = repairs[r] => Accepted(r)' = Accepted(r)
  BY DEF Accepted
<1>2. evidence'[r] = evidence[r] => (Intact(r)' <=> Intact(r))
  BY DEF Intact
<1>3. plan'[r] = plan[r] => \A v : Finished(r, v)' <=> Finished(r, v)
  BY DEF Finished
<1>4. evidence'[r] = evidence[r] /\ decision'[r] = decision[r] => \A v, f : Fails(r, v, f)' <=> Fails(r, v, f)
  BY DEF Fails
<1>5. Lesson(r)' = Lesson(r)
  BY DEF Lesson
<1>6. call'[r] = call[r] /\ decision'[r] = decision[r] /\ commits'[r] = commits[r] => ReleaseInv(r)'
  <2>1. ReleaseInv(r)
    BY Zenon DEF RunInv
  <2> QED BY <2>1 DEF ReleaseInv
<1>7. run'[r].state = run[r].state /\ call'[r] = call[r] /\ commits'[r] = commits[r] /\ candidate'[r] = candidate[r]
      => OutcomeInv(r)'
  BY <1>5 DEF RunInv, OutcomeInv, Delivered
<1>8. plan'[r] = plan[r] /\ repairs'[r] = repairs[r] => RepairInv(r)'
  BY <1>1 DEF RunInv, RepairInv
<1>9. /\ plan'[r] = plan[r] /\ evidence'[r] = evidence[r] /\ decision'[r] = decision[r]
      /\ repairs'[r] = repairs[r]
      => EvidenceInv(r)'
  BY <1>1, <1>2, <1>3, <1>4 DEF RunInv, EvidenceInv
<1> QED BY <1>6, <1>7, <1>8, <1>9, Zenon

LEMMA KeepsFrame ==
  ASSUME NEW r \in Runs, plan'[r] = plan[r], evidence'[r] = evidence[r]
  PROVE  /\ \A v : Finished(r, v)' <=> Finished(r, v)
         /\ Intact(r)' <=> Intact(r)
BY DEF Finished, Intact

LEMMA SettledHasNoExit == \A s \in TerminalRun : RUN_TRANSITIONS[s] = {}
BY DEF RUN_TRANSITIONS, TerminalRun, RunStatus

LEMMA LessonIsOne == \A r \in Runs : Lesson(r) \in Lessons
BY FinalizationAssumption DEF Lesson

\* A run moves only along RUN_TRANSITIONS, to where its dispatcher has learned it may.
LEMMA TransitionStep ==
  ASSUME FinalizationInv, NEW d \in Dispatchers, _transition_run(d)
  PROVE  FinalizationInv'
<1>1. PICK r \in Runs, s \in Advanced, v \in Revisions, a \in Args : Works(d, r, s, "to", v, a)
  BY AtWork DEF _transition_run, Positions
<1>2. r = Now(d) /\ a = dispatcher[d].arg /\ Learned(r, s, "to", v, a)
  BY <1>1 DEF Works
<1>3. TypeOK /\ RunInv(r)
  BY DEF FinalizationInv
<1>4. PICK p \in {"cleanup", "release"} : Go(d, p)
  BY <1>2 DEF _transition_run
<1>5. Turns(d, p, v, a)
  BY <1>1, <1>3, <1>4, Gone DEF Works, Positions
<1>6. UNCHANGED <<world, stage, faults>>
  BY DEF _transition_run
<1>7. CASE UNCHANGED run
  BY <1>1, <1>5, <1>6, <1>7, TurnStep, LearnedNothing DEF Works
<1>8. CASE a \in RUN_TRANSITIONS[run[r].state] /\ run' = [run EXCEPT ![r].state = a]
  <2>1. a \in Advanced \cup TerminalRun
    BY <1>2 DEF Learned, Advanced, TerminalRun
  <2>2. /\ \A q \in Runs \ {r} : run'[q] = run[q]
        /\ run'[r].state = a /\ run' \in [Runs -> [state: Advanced \cup TerminalRun, cancel: BOOLEAN]]
    BY <1>3, <1>8, <2>1, Zenon DEF TypeOK
  <2>3. TypeOK'
    BY <1>3, <1>5, <1>6, <2>2 DEF TypeOK, world, Turns
  <2>4. \A q \in Runs \ {r} : Same(q)
    BY <1>6, <2>2, Zenon DEF Same, world
  <2>5. run[r].state \notin TerminalRun
    BY <1>8, SettledHasNoExit
  <2>6. Keeps(r)
    BY <1>6, <2>5, KeepsFrame, Zenon DEF Keeps, world
  <2>7. ReleaseInv(r)' /\ RepairInv(r)' /\ EvidenceInv(r)'
    BY <1>3, <1>6, Frames, Zenon DEF world
  <2>8. OutcomeInv(r)'
    BY <1>2, <1>3, <1>6, <2>2, Zenon DEF Learned, OutcomeInv, RunInv, Delivered, Lesson, world
  <2>9. Grows /\ \A q \in Runs : RunInv(q)'
    BY <1>6, <2>4, <2>6, <2>7, <2>8, OneRun DEF RunInv, world
  <2>10. Learned(r, s, p, v, a)'
    BY <1>2, <1>3, <2>9, LearnedStays, LearnedNothing
  <2> QED BY <1>1, <1>5, <2>3, <2>9, <2>10, ActorStep DEF Works
<1> QED BY <1>2, <1>7, <1>8 DEF _transition_run

\* A decision is stored once, for a finished revision that passed its verification.
LEMMA ReviewStep ==
  ASSUME FinalizationInv, NEW d \in Dispatchers, _review_release(d)
  PROVE  FinalizationInv'
<1>1. PICK r \in Runs, s \in Advanced, v \in Revisions, a \in Args : Works(d, r, s, "reviewing", v, a)
  BY AtWork DEF _review_release, Positions
<1>2. r = Now(d) /\ v = dispatcher[d].rev /\ a = dispatcher[d].arg /\ Learned(r, s, "reviewing", v, a)
  BY <1>1 DEF Works
<1>3. TypeOK /\ RunInv(r)
  BY DEF FinalizationInv
<1>4. UNCHANGED <<run, plan, evidence, repairs, worktree, call, commits, candidate, memory, stage, faults>>
  BY DEF _review_release
<1>5. PICK outcome \in Failures \cup {"approved"} :
        \/ decision[r][v] = "none" /\ decision' = [decision EXCEPT ![r][v] = outcome] /\ Decided(d, outcome)
        \/ UNCHANGED decision /\ Go(d, "release")
        \/ UNCHANGED decision /\ decision[r][v] = outcome /\ Decided(d, outcome)
  BY <1>2 DEF _review_release, review
<1>6. CASE UNCHANGED decision /\ Go(d, "release")
  <2>1. Turns(d, "release", v, a)
    BY <1>1, <1>3, <1>6, Gone, Zenon DEF Works, Positions
  <2> QED BY <1>1, <1>4, <1>6, <2>1, BackStep, Zenon DEF world
<1>7. PICK p \in {"hash", "debug"}, b \in Args :
        Decided(d, outcome) => /\ Turns(d, p, v, b)
                               /\ p = "hash" => outcome = "approved"
                               /\ p = "debug" => b = outcome /\ outcome \in Failures
  <2>1. ASSUME Decided(d, outcome), outcome = "approved" PROVE Turns(d, "hash", v, a)
    BY <1>2, <1>3, <2>1, Gone DEF Decided, Positions
  <2>2. ASSUME Decided(d, outcome), outcome # "approved" PROVE Turns(d, "debug", v, outcome) /\ outcome \in Failures
    BY <1>2, <1>3, <2>2, GoneWith, Zenon DEF Decided, Positions, Args
  <2> QED BY <2>1, <2>2, Zenon DEF Args
<1>8. ASSUME decision'[r][v] = outcome, Decided(d, outcome) PROVE Learned(r, s, p, v, b)'
  <2>1. Delivered(r)' <=> Delivered(r)
    BY <1>4, Zenon DEF Delivered
  <2>2. Intact(r)' <=> Intact(r)
    BY <1>4 DEF Intact
  <2>3. Finished(r, v)' /\ (Intact(r) => evidence'[r][v].verdict = "passing")
    BY <1>2, <1>4, Zenon DEF Learned, Finished
  <2>4. p = "debug" /\ Intact(r) => Fails(r, v, b)'
    BY <1>7, <1>8, <2>3 DEF Fails
  <2> QED BY <1>2, <1>7, <1>8, <2>1, <2>2, <2>3, <2>4, Zenon DEF Learned
<1>9. CASE UNCHANGED decision /\ decision[r][v] = outcome /\ Decided(d, outcome)
  <2>1. TypeOK'
    BY <1>3, <1>4, <1>7, <1>9 DEF TypeOK, Turns
  <2>2. Grows /\ \A q \in Runs : RunInv(q)'
    BY <1>4, <1>9, NoRun, Zenon DEF world
  <2> QED BY <1>1, <1>7, <1>8, <1>9, <2>1, <2>2, ActorStep, Zenon DEF Works
<1>10. CASE decision[r][v] = "none" /\ decision' = [decision EXCEPT ![r][v] = outcome] /\ Decided(d, outcome)
  <2>1. /\ \A q \in Runs \ {r} : decision'[q] = decision[q]
        /\ \A w \in Revisions \ {v} : decision'[r][w] = decision[r][w]
        /\ decision'[r][v] = outcome
        /\ decision' \in [Runs -> [Revisions -> {"none", "approved"} \cup Failures]]
    BY <1>3, <1>10 DEF TypeOK
  <2>2. TypeOK'
    BY <1>3, <1>4, <1>7, <1>10, <2>1 DEF TypeOK, Turns
  <2>3. \A q \in Runs \ {r} : Same(q)
    BY <1>4, <2>1 DEF Same
  <2>4. Keeps(r)
    BY <1>4, <1>10, <2>1, KeepsFrame DEF Keeps
  <2>5. OutcomeInv(r)' /\ RepairInv(r)'
    BY <1>3, <1>4, Frames
  <2>6. ReleaseInv(r)'
    <3>1. ReleaseInv(r) /\ \A c \in commits[r] : c.rev \in Revisions
      BY <1>3 DEF RunInv, TypeOK
    <3> QED BY <1>4, <1>10, <2>1, <3>1, Zenon DEF ReleaseInv
  <2>7. EvidenceInv(r)'
    <3>1. EvidenceInv(r) /\ Finished(r, v) /\ (Intact(r) => evidence[r][v].verdict = "passing")
      BY <1>2, <1>3, Zenon DEF RunInv, Learned
    <3>2. (\A w : Finished(r, w)' <=> Finished(r, w)) /\ (Intact(r)' <=> Intact(r)) /\ Accepted(r)' = Accepted(r)
      BY <1>4, KeepsFrame, Zenon DEF Accepted
    <3>3. ASSUME Intact(r), NEW w \in Revisions, NEW f, Fails(r, w, f) PROVE Fails(r, w, f)'
      <4>1. w # v
        BY <1>10, <3>1, <3>3, Named DEF Fails
      <4> QED BY <1>4, <2>1, <3>3, <4>1, Zenon DEF Fails
    <3>4. \A w \in Revisions : decision'[r][w] # "none" =>
            Finished(r, w) /\ (Intact(r) => evidence[r][w].verdict = "passing")
      BY <2>1, <3>1, Zenon DEF EvidenceInv
    <3> QED BY <1>4, <3>1, <3>2, <3>3, <3>4, Zenon DEF EvidenceInv
  <2>8. Grows /\ \A q \in Runs : RunInv(q)'
    BY <1>4, <2>3, <2>4, <2>5, <2>6, <2>7, OneRun DEF RunInv
  <2> QED BY <1>1, <1>7, <1>8, <1>10, <2>1, <2>2, <2>8, ActorStep, Zenon DEF Works
<1> QED BY <1>5, <1>6, <1>9, <1>10

\* While the evidence is intact, the failure that is repaired is the latest revision's:
\* an earlier one has its accepted repair, which the history refuses to repeat.
LEMMA RepairIsOfTheLatest ==
  ASSUME TypeOK, NEW r \in Runs, EvidenceInv(r), Intact(r), NEW f, NEW w \in Revisions,
         Finished(r, w), Fails(r, w, f), Repairable(r, plan[r].revision, f)
  PROVE  w = plan[r].revision
<1>1. plan[r].revision \in Nat /\ w \in Nat
  BY Revised DEF TypeOK, Plan
<1>2. ASSUME w < plan[r].revision PROVE FALSE
  <2>1. PICK m \in Accepted(r) : m.base = w /\ Fails(r, w, m.failure)
    BY <1>2 DEF EvidenceInv
  <2>2. evidence[r][w].verdict = "passing" => evidence[r][w].verdict \notin Failures
    BY Named
  <2>3. m.failure = f
    BY <2>1, <2>2, Zenon DEF Fails
  <2> QED BY <2>1, <2>3 DEF Repairable
<1> QED BY <1>1, <1>2 DEF Finished

LEMMA ApplyStep ==
  ASSUME FinalizationInv, NEW d \in Dispatchers, apply(d)
  PROVE  FinalizationInv'
<1>1. PICK r \in Runs, s \in Advanced, v \in Revisions, a \in Args : Works(d, r, s, "repair", v, a)
  BY AtWork DEF apply, Positions
<1>2. r = Now(d) /\ v = dispatcher[d].rev /\ a = dispatcher[d].arg /\ Learned(r, s, "repair", v, a)
  BY <1>1 DEF Works
<1>3. TypeOK /\ RunInv(r) /\ a \in Failures
  BY <1>2, Zenon DEF FinalizationInv, Learned
<1>4. UNCHANGED <<run, evidence, decision, worktree, call, commits, candidate, memory, stage, faults>>
  BY DEF apply
<1>5. "FAILED" \in Args
  BY DEF Args, TerminalRun
<1>6. CASE Go(d, "release") /\ UNCHANGED <<plan, repairs>>
  <2>1. Turns(d, "release", v, a)
    BY <1>1, <1>3, <1>6, Gone, Zenon DEF Works, Positions
  <2> QED BY <1>1, <1>4, <1>6, <2>1, BackStep, Zenon DEF world
<1>7. ASSUME NEW b \in BOOLEAN,
             repairs' = [repairs EXCEPT ![r] = @ \cup {[base |-> v, failure |-> a, accepted |-> b]}]
      PROVE  /\ repairs' \in [Runs -> SUBSET RepairMutationRow]
             /\ \A q \in Runs \ {r} : repairs'[q] = repairs[q]
             /\ repairs'[r] = repairs[r] \cup {[base |-> v, failure |-> a, accepted |-> b]}
  BY <1>3, <1>7 DEF TypeOK, RepairMutationRow
<1>8. CASE /\ repairs' = [repairs EXCEPT ![r] = @ \cup {[base |-> v, failure |-> a, accepted |-> FALSE]}]
           /\ GoWith(d, "to", "FAILED") /\ UNCHANGED plan
  <2>1. Turns(d, "to", v, "FAILED")
    BY <1>2, <1>3, <1>5, <1>8, GoneWith, Zenon DEF Positions
  <2>2. TypeOK'
    BY <1>3, <1>4, <1>7, <1>8, <2>1, Zenon DEF TypeOK, Turns
  <2>3. \A q \in Runs \ {r} : Same(q)
    BY <1>4, <1>7, <1>8 DEF Same
  <2>4. Accepted(r)' = Accepted(r)
    BY <1>7, <1>8 DEF Accepted
  <2>5. (\A w : Finished(r, w)' <=> Finished(r, w)) /\ (Intact(r)' <=> Intact(r))
    BY <1>4, <1>8, KeepsFrame, Zenon
  <2>6. Keeps(r)
    BY <1>4, <2>5, Zenon DEF Keeps
  <2>7. ReleaseInv(r)' /\ OutcomeInv(r)'
    BY <1>3, <1>4, Frames, Zenon
  <2>8. RepairInv(r)' /\ EvidenceInv(r)'
    <3>1. RepairInv(r) /\ EvidenceInv(r)
      BY <1>3, Zenon DEF RunInv
    <3>2. \A w, f : Fails(r, w, f)' <=> Fails(r, w, f)
      BY <1>4, Zenon DEF Fails
    <3>3. RepairInv(r)'
      BY <1>8, <2>4, <3>1, Zenon DEF RepairInv
    <3> QED BY <1>4, <1>8, <2>4, <2>5, <3>1, <3>2, <3>3, Zenon DEF EvidenceInv
  <2>9. Grows /\ \A q \in Runs : RunInv(q)'
    BY <1>4, <2>3, <2>6, <2>7, <2>8, OneRun DEF RunInv
  <2>10. Learned(r, s, "to", v, "FAILED")'
    <3>1. Learned(r, s, "to", v, "FAILED")
      BY <1>2, Zenon DEF Learned
    <3> QED BY <1>3, <2>9, <3>1, LearnedStays
  <2> QED BY <1>1, <2>1, <2>2, <2>9, <2>10, ActorStep DEF Works
<1>9. CASE /\ Repairable(r, v, a) /\ Go(d, "release")
           /\ repairs' = [repairs EXCEPT ![r] = @ \cup {[base |-> v, failure |-> a, accepted |-> TRUE]}]
           /\ plan' = [plan EXCEPT ![r] = [revision |-> @.revision + 1, tasks |-> "unfinished"]]
  <2>1. Turns(d, "release", v, a)
    BY <1>1, <1>3, <1>9, Gone, Zenon DEF Works, Positions
  <2>2. v = plan[r].revision /\ v < MaxRevision
    BY <1>9, Zenon DEF Repairable
  <2>3. v \in Nat /\ v + 1 \in Revisions
    BY <2>2, NextRevision, Zenon
  <2>4. /\ plan' \in [Runs -> Plan] /\ \A q \in Runs \ {r} : plan'[q] = plan[q]
        /\ plan'[r].revision = v + 1 /\ plan'[r].tasks = "unfinished"
    BY <1>3, <1>9, <2>2, <2>3 DEF TypeOK, Plan
  <2>5. TypeOK'
    BY <1>3, <1>4, <1>7, <1>9, <2>1, <2>4, Zenon DEF TypeOK, Turns
  <2>6. \A q \in Runs \ {r} : Same(q)
    BY <1>4, <1>7, <1>9, <2>4, Zenon DEF Same
  <2> DEFINE new == [base |-> v, failure |-> a, accepted |-> TRUE]
  <2>7. new.base = v /\ new.failure = a /\ new.accepted /\ repairs'[r] = repairs[r] \cup {new}
    BY <1>7, <1>9, Zenon
  <2> HIDE DEF new
  <2>8. \A m \in Accepted(r) : m.failure # a /\ m.base # v
    BY <1>9, Zenon DEF Repairable
  <2>9. Accepted(r)' = Accepted(r) \cup {new} /\ new \notin Accepted(r)
    BY <2>7, <2>8 DEF Accepted
  <2>10. RepairInv(r)'
    <3>1. RepairInv(r)
      BY <1>3 DEF RunInv
    <3>2. IsFiniteSet(Accepted(r) \cup {new}) /\ Cardinality(Accepted(r) \cup {new}) = Cardinality(Accepted(r)) + 1
      BY <2>9, <3>1, FS_AddElement, Zenon DEF RepairInv
    <3>3. Cardinality(Accepted(r)) \in Nat
      BY <3>1, FS_CardinalityType DEF RepairInv
    <3>4. plan'[r].revision = 1 + Cardinality(Accepted(r) \cup {new})
      BY <2>2, <2>4, <3>1, <3>2, <3>3 DEF RepairInv
    <3>5. \A m, n \in Accepted(r) \cup {new} : m.failure = n.failure \/ m.base = n.base => m = n
      BY <2>7, <2>8, <3>1 DEF RepairInv
    <3> QED BY <2>9, <3>2, <3>4, <3>5 DEF RepairInv
  <2>11. \A w \in Revisions : w \in Nat /\ (Finished(r, w) => w < v + 1 /\ Finished(r, w)')
    <3>1. \A w \in Revisions : w \in Nat /\ (w < v \/ w = v => w < v + 1)
      BY <2>3, Revised
    <3>2. \A w \in Revisions : Finished(r, w) => w < v \/ w = v
      BY <2>2 DEF Finished
    <3> QED BY <2>4, <3>1, <3>2 DEF Finished
  <2>12. Intact(r)' <=> Intact(r)
    BY <1>4 DEF Intact
  <2>13. Keeps(r)
    BY <1>4, <2>11, <2>12 DEF Keeps
  <2>14. ReleaseInv(r)' /\ OutcomeInv(r)'
    BY <1>3, <1>4, Frames, Zenon
  <2>15. EvidenceInv(r)'
    <3>1. EvidenceInv(r)
      BY <1>3 DEF RunInv
    <3>2. \A w, f : Fails(r, w, f)' <=> Fails(r, w, f)
      BY <1>4, Zenon DEF Fails
    <3>3. \A w \in Revisions : w >= v + 1 => evidence[r][w] = NoEvidence
      <4>1. \A w \in Revisions : w > v => evidence[r][w] = NoEvidence
        BY <2>2, <3>1, Zenon DEF EvidenceInv
      <4>2. \A w \in Revisions : w >= v + 1 => w > v
        BY <2>3, Revised
      <4> QED BY <4>1, <4>2, Zenon
    <3>4. ASSUME Intact(r) PROVE Fails(r, v, a)
      BY <1>2, <1>3, <1>9, <2>2, <3>1, <3>4, RepairIsOfTheLatest, Zenon DEF Learned
    <3>5. ASSUME Intact(r), NEW w \in Revisions, w < v + 1
          PROVE  \E m \in Accepted(r) \cup {new} : m.base = w /\ Fails(r, w, m.failure)
      <4>1. CASE w < v
        BY <2>2, <3>1, <3>5, <4>1 DEF EvidenceInv
      <4>2. CASE w = v
        BY <2>7, <3>4, <3>5, <4>2
      <4> QED BY <2>3, <2>11, <3>5, <4>1, <4>2
    <3>6. \A w \in Revisions : w > v + 1 \/ (w = v + 1 /\ plan'[r].tasks = "unfinished") => w >= v + 1
      BY <2>3, <2>11
    <3>7. \A w \in Revisions : w > plan'[r].revision \/ (w = plan'[r].revision /\ plan'[r].tasks = "unfinished")
            => evidence'[r][w] = NoEvidence
      BY <1>4, <2>4, <3>3, <3>6, Zenon
    <3>8. \A w \in Revisions : decision'[r][w] # "none" => Finished(r, w)'
      BY <1>4, <2>11, <3>1, Zenon DEF EvidenceInv
    <3>9. ASSUME Intact(r)', NEW w \in Revisions, decision'[r][w] # "none" PROVE evidence'[r][w].verdict = "passing"
      BY <1>4, <2>12, <3>1, <3>9, Zenon DEF EvidenceInv
    <3>10. ASSUME Intact(r)', NEW w \in Revisions, w < plan'[r].revision
           PROVE  \E m \in Accepted(r)' : m.base = w /\ Fails(r, w, m.failure)'
      BY <2>4, <2>9, <2>12, <3>2, <3>5, <3>10, Zenon
    <3> QED BY <3>7, <3>8, <3>9, <3>10, Zenon DEF EvidenceInv
  <2>16. Grows /\ \A q \in Runs : RunInv(q)'
    BY <1>4, <2>6, <2>10, <2>13, <2>14, <2>15, OneRun DEF RunInv
  <2>17. Learned(r, s, "release", v, a)'
    BY <1>2, <1>3, <2>16, LearnedStays, LearnedNothing
  <2> QED BY <1>1, <2>1, <2>5, <2>16, <2>17, ActorStep, Zenon DEF Works
<1> QED BY <1>2, <1>6, <1>8, <1>9 DEF apply

\* The rows of the other runs and revisions stay as they are.
LEMMA CallUpdate ==
  ASSUME TypeOK, NEW r \in Runs, NEW v \in Revisions, NEW row \in Call, call' = [call EXCEPT ![r][v] = row]
  PROVE  /\ call' \in [Runs -> [Revisions -> Call]] /\ \A q \in Runs \ {r} : call'[q] = call[q]
         /\ call'[r][v] = row /\ \A w \in Revisions \ {v} : call'[r][w] = call[r][w]
<1>1. call \in [Runs -> [Revisions -> Call]]
  BY DEF TypeOK
<1> QED BY <1>1

\* A change of one row that loses neither an approval nor a completion.
LEMMA CallKeeps ==
  ASSUME TypeOK, NEW r \in Runs, RunInv(r), NEW v \in Revisions, NEW row \in Call,
         call' = [call EXCEPT ![r][v] = row],
         UNCHANGED <<run, plan, evidence, repairs, decision, commits, candidate, memory>>,
         call[r][v].approval \in {"APPROVED", "EXPIRED"} => row.approval \in {"APPROVED", "EXPIRED"},
         call[r][v].status = "COMPLETED" => row.status = "COMPLETED",
         row.status = "NONE" => row.approval = "NONE",
         row.status # "NONE" => decision[r][v] = "approved" /\ row.tree \in Trees,
         call[r][v].tree = row.tree \/ call[r][v].approval \notin {"APPROVED", "EXPIRED"}
  PROVE  Keeps(r) /\ RunInv(r)' /\ \A q \in Runs \ {r} : Same(q)
<1>1. /\ \A q \in Runs \ {r} : call'[q] = call[q]
      /\ call'[r][v] = row /\ \A w \in Revisions \ {v} : call'[r][w] = call[r][w]
  BY CallUpdate, Zenon
<1>2. \A q \in Runs \ {r} : Same(q)
  BY <1>1 DEF Same
<1>3. Keeps(r)
  BY <1>1, KeepsFrame DEF Keeps
<1>4. RepairInv(r)' /\ EvidenceInv(r)'
  BY Frames
<1>5. ReleaseInv(r) /\ OutcomeInv(r) /\ \A c \in commits[r] : c.rev \in Revisions
  BY DEF RunInv, TypeOK
<1>6. ReleaseInv(r)'
  BY <1>1, <1>5 DEF ReleaseInv
<1>7. Delivered(r) => Delivered(r)'
  BY <1>1, <1>5 DEF Delivered
<1>8. OutcomeInv(r)'
  BY <1>5, <1>7 DEF OutcomeInv, Lesson
<1> QED BY <1>2, <1>3, <1>4, <1>6, <1>8 DEF RunInv

LEMMA RequestStep ==
  ASSUME FinalizationInv, NEW d \in Dispatchers, request(d)
  PROVE  FinalizationInv'
<1>1. PICK r \in Runs, s \in Advanced, v \in Revisions, a \in Args : Works(d, r, s, "request", v, a)
  BY AtWork DEF request, Positions
<1>2. r = Now(d) /\ v = dispatcher[d].rev /\ a = dispatcher[d].arg /\ Learned(r, s, "request", v, a)
  BY <1>1 DEF Works
<1>3. TypeOK /\ RunInv(r) /\ a \in Trees /\ decision[r][v] = "approved"
  BY <1>2, Zenon DEF FinalizationInv, Learned
<1>4. UNCHANGED <<run, plan, evidence, repairs, decision, worktree, commits, candidate, memory, stage, faults>>
  BY DEF request
<1>5. PICK p \in {"to", "release"}, b \in Args :
        Turns(d, p, v, b) /\ (p = "to" => b = "WAITING_FOR_APPROVAL")
  <2>1. "WAITING_FOR_APPROVAL" \in Args
    BY DEF Args, Advanced
  <2>2. ASSUME GoWith(d, "to", "WAITING_FOR_APPROVAL") PROVE Turns(d, "to", v, "WAITING_FOR_APPROVAL")
    BY <1>2, <1>3, <2>1, <2>2, GoneWith DEF Positions
  <2>3. ASSUME Go(d, "release") PROVE Turns(d, "release", v, a)
    BY <1>2, <1>3, <2>3, Gone DEF Positions
  <2> QED BY <2>1, <2>2, <2>3 DEF request
<1>6. Learned(r, s, p, v, b)
  BY <1>2, <1>5, Zenon DEF Learned
<1>7. CASE UNCHANGED call
  BY <1>1, <1>4, <1>5, <1>6, <1>7, TurnStep DEF world
<1>8. CASE /\ call[r][v].status = "NONE"
           /\ call' = [call EXCEPT ![r][v] = [status |-> "WAITING_FOR_APPROVAL", tree |-> a,
                                              approval |-> "PENDING", late |-> FALSE]]
  <2>1. PICK row \in Call : row = [status |-> "WAITING_FOR_APPROVAL", tree |-> a, approval |-> "PENDING", late |-> FALSE]
    BY <1>3, Zenon DEF Call
  <2>2. row.status = "WAITING_FOR_APPROVAL" /\ row.tree = a /\ row.approval = "PENDING"
    BY <2>1
  <2>3. call' = [call EXCEPT ![r][v] = row]
    BY <1>8, <2>1
  <2>4. call[r][v].approval = "NONE"
    BY <1>3, <1>8 DEF RunInv, ReleaseInv
  <2>5. Keeps(r) /\ RunInv(r)' /\ \A q \in Runs \ {r} : Same(q)
    BY <1>3, <1>4, <1>8, <2>2, <2>3, <2>4, CallKeeps, Zenon
  <2>6. TypeOK'
    BY <1>3, <1>4, <1>5, <2>3, CallUpdate, Zenon DEF TypeOK, Turns
  <2>7. Grows /\ \A q \in Runs : RunInv(q)'
    BY <1>4, <2>5, OneRun
  <2>8. Learned(r, s, p, v, b)'
    BY <1>3, <1>6, <2>7, LearnedStays, Zenon
  <2> QED BY <1>1, <1>5, <2>6, <2>7, <2>8, ActorStep, Zenon DEF Works
<1> QED BY <1>2, <1>7, <1>8 DEF request

\* The commit is of the approved tree.
LEMMA CommitStep ==
  ASSUME FinalizationInv, NEW d \in Dispatchers, commit_task_worktree(d)
  PROVE  FinalizationInv'
<1>1. PICK r \in Runs, s \in Advanced, v \in Revisions, a \in Args : Works(d, r, s, "commit", v, a)
  BY AtWork, Zenon DEF commit_task_worktree, Positions
<1>2. r = Now(d) /\ v = dispatcher[d].rev /\ a = dispatcher[d].arg /\ Learned(r, s, "commit", v, a)
  BY <1>1 DEF Works
<1>3. TypeOK /\ RunInv(r) /\ call[r][v].approval \in {"APPROVED", "EXPIRED"}
  BY <1>2, Zenon DEF FinalizationInv, Learned
<1>4. UNCHANGED <<run, plan, evidence, repairs, decision, worktree, call, candidate, memory, stage, faults>>
  BY DEF commit_task_worktree
<1>5. CASE UNCHANGED commits /\ Go(d, "release")
  <2>1. Turns(d, "release", v, a)
    BY <1>1, <1>3, <1>5, Gone, Zenon DEF Works, Positions
  <2> QED BY <1>1, <1>4, <1>5, <2>1, BackStep, Zenon DEF world
<1>6. CASE /\ commits' = [commits EXCEPT ![r] = @ \cup {[rev |-> v, tree |-> call[r][v].tree]}]
           /\ Go(d, "complete")
  <2>1. Turns(d, "complete", v, a)
    BY <1>1, <1>3, <1>6, Gone, Zenon DEF Works, Positions
  <2>2. decision[r][v] = "approved" /\ call[r][v].tree \in Trees
    BY <1>3, Zenon DEF RunInv, ReleaseInv
  <2>3. PICK c \in [rev: Revisions, tree: Trees] : c = [rev |-> v, tree |-> call[r][v].tree]
    BY <2>2, Zenon
  <2>4. c.rev = v /\ c.tree = call[r][v].tree
    BY <2>3
  <2>5. /\ commits' \in [Runs -> SUBSET [rev: Revisions, tree: Trees]]
        /\ \A q \in Runs \ {r} : commits'[q] = commits[q]
        /\ commits'[r] = commits[r] \cup {c}
    BY <1>3, <1>6, <2>3, Zenon DEF TypeOK
  <2>6. TypeOK'
    BY <1>3, <1>4, <2>1, <2>5 DEF TypeOK, Turns
  <2>7. \A q \in Runs \ {r} : Same(q)
    BY <1>4, <2>5, Zenon DEF Same
  <2>8. Keeps(r)
    BY <1>4, <2>5, KeepsFrame, Zenon DEF Keeps
  <2>9. RepairInv(r)' /\ EvidenceInv(r)'
    BY <1>3, <1>4, Frames, Zenon
  <2>10. ReleaseInv(r)'
    BY <1>3, <1>4, <2>2, <2>4, <2>5, Zenon DEF RunInv, ReleaseInv
  <2>11. OutcomeInv(r)'
    BY <1>3, <1>4, <2>5, Zenon DEF RunInv, OutcomeInv, Delivered, Lesson
  <2>12. Grows /\ \A q \in Runs : RunInv(q)'
    BY <1>4, <2>7, <2>8, <2>9, <2>10, <2>11, OneRun DEF RunInv
  <2>13. Learned(r, s, "complete", v, a)'
    <3>1. Learned(r, s, "release", v, a)'
      BY <1>2, <1>3, <2>12, LearnedStays, LearnedNothing, Zenon
    <3> QED BY <2>4, <2>5, <3>1, Zenon DEF Learned
  <2> QED BY <1>1, <2>1, <2>6, <2>12, <2>13, ActorStep, Zenon DEF Works
<1> QED BY <1>2, <1>5, <1>6, Zenon DEF commit_task_worktree

LEMMA CompleteStep ==
  ASSUME FinalizationInv, NEW d \in Dispatchers, complete_approved(d)
  PROVE  FinalizationInv'
<1>1. PICK r \in Runs, s \in Advanced, v \in Revisions, a \in Args : Works(d, r, s, "complete", v, a)
  BY AtWork DEF complete_approved, Positions
<1>2. r = Now(d) /\ v = dispatcher[d].rev /\ a = dispatcher[d].arg /\ Learned(r, s, "complete", v, a)
  BY <1>1, Zenon DEF Works
<1>3. TypeOK /\ RunInv(r)
  BY DEF FinalizationInv
<1>4. UNCHANGED <<run, plan, evidence, repairs, decision, worktree, commits, candidate, memory, stage, faults>>
  BY DEF complete_approved
<1>5. Turns(d, "candidate", v, a)
  BY <1>2, <1>3, Gone DEF complete_approved, Positions
<1>6. PICK c \in commits[r] : c.rev = v
  BY <1>2, Zenon DEF Learned
<1>7. decision[r][v] = "approved" /\ call[r][v].tree \in Trees
  BY <1>3, <1>6 DEF RunInv, ReleaseInv, TypeOK
<1>8. call[r][v] \in Call
  BY <1>3 DEF TypeOK
<1>9. PICK row \in Call : row = [call[r][v] EXCEPT !.status = "COMPLETED"]
  BY <1>8, Zenon DEF Call
<1>10. row.status = "COMPLETED" /\ row.tree = call[r][v].tree /\ row.approval = call[r][v].approval
  BY <1>8, <1>9 DEF Call
<1>11. call' = [call EXCEPT ![r][v] = row]
  BY <1>2, <1>3, <1>9 DEF complete_approved, TypeOK
<1>12. Keeps(r) /\ RunInv(r)' /\ \A q \in Runs \ {r} : Same(q)
  BY <1>3, <1>4, <1>7, <1>10, <1>11, CallKeeps, Zenon
<1>13. TypeOK'
  BY <1>3, <1>4, <1>5, <1>11, CallUpdate, Zenon DEF TypeOK, Turns
<1>14. Grows /\ \A q \in Runs : RunInv(q)'
  BY <1>4, <1>12, OneRun, Zenon
<1>15. Delivered(r)'
  <2>1. call'[r][v] = row
    BY <1>3, <1>11, CallUpdate, Zenon
  <2>2. c \in commits'[r] /\ call'[r][c.rev].status = "COMPLETED"
    BY <1>4, <1>6, <1>10, <2>1
  <2> QED BY <2>2 DEF Delivered
<1>16. Learned(r, s, "candidate", v, a)'
  BY <1>15, Zenon DEF Learned
<1> QED BY <1>1, <1>5, <1>13, <1>14, <1>16, ActorStep, Zenon DEF Works

\* A change of the candidate of r: only a remembered lesson is PROMOTED.
LEMMA CandidateStep ==
  ASSUME FinalizationInv, NEW d \in Dispatchers, NEW r \in Runs, NEW s \in Advanced, NEW p, NEW v, NEW a,
         Works(d, r, s, p, v, a),
         NEW status \in {"NONE", "PROPOSED", "PROMOTING", "WAITING_FOR_MEMORY", "REJECTED", "PROMOTED"},
         candidate' = [candidate EXCEPT ![r] = status], status = "PROMOTED" => Lesson(r) \in memory,
         UNCHANGED <<run, plan, evidence, repairs, decision, worktree, call, commits, memory, stage, faults>>,
         NEW p1, NEW v1 \in Revisions, NEW a1, Turns(d, p1, v1, a1), Learned(r, s, p1, v1, a1)
  PROVE  FinalizationInv'
<1>1. TypeOK /\ RunInv(r)
  BY DEF FinalizationInv
<1>2. /\ candidate' \in [Runs -> {"NONE", "PROPOSED", "PROMOTING", "WAITING_FOR_MEMORY", "REJECTED", "PROMOTED"}]
      /\ candidate'[r] = status /\ \A q \in Runs \ {r} : candidate'[q] = candidate[q]
  BY <1>1 DEF TypeOK
<1>3. TypeOK'
  BY <1>1, <1>2 DEF TypeOK, Turns
<1>4. \A q \in Runs \ {r} : Same(q)
  BY <1>2, Zenon DEF Same
<1>5. Keeps(r)
  BY KeepsFrame, Zenon DEF Keeps
<1>6. ReleaseInv(r)' /\ RepairInv(r)' /\ EvidenceInv(r)'
  BY <1>1, Frames, Zenon
<1>7. OutcomeInv(r)'
  BY <1>1, <1>2, Zenon DEF RunInv, OutcomeInv, Delivered, Lesson
<1>8. Grows /\ \A q \in Runs : RunInv(q)'
  BY <1>4, <1>5, <1>6, <1>7, OneRun DEF RunInv
<1> QED BY <1>1, <1>3, <1>8, LearnedStays, ActorStep DEF Works

LEMMA PromotionSteps ==
  ASSUME FinalizationInv, NEW d \in Dispatchers,
         _promote_run_memory(d) \/ promote(d) \/ _set_local_state(d) \/ _complete(d)
  PROVE  FinalizationInv'
<1>1. TypeOK /\ \A q \in Runs : RunInv(q)
  BY DEF FinalizationInv
<1>2. "COMPLETED" \in Args /\ "WAITING_FOR_MEMORY" \in Args
  BY DEF Args, TerminalRun, Advanced
<1> DEFINE Statuses == {"NONE", "PROPOSED", "PROMOTING", "WAITING_FOR_MEMORY", "REJECTED", "PROMOTED"}
<1>3. candidate \in [Runs -> Statuses]
  BY <1>1 DEF TypeOK
<1>4. ASSUME _promote_run_memory(d) PROVE FinalizationInv'
  <2>1. PICK r \in Runs, s \in Advanced, v \in Revisions, a \in Args : Works(d, r, s, "candidate", v, a)
    BY <1>4, AtWork DEF _promote_run_memory, Positions
  <2>2. r = Now(d) /\ v = dispatcher[d].rev /\ a = dispatcher[d].arg /\ Learned(r, s, "candidate", v, a)
    BY <2>1, Zenon DEF Works
  <2>3. ASSUME promoted_twin(r) # {}, GoWith(d, "to", "COMPLETED"), UNCHANGED candidate PROVE FinalizationInv'
    <3>1. Turns(d, "to", v, "COMPLETED")
      BY <1>1, <1>2, <2>2, <2>3, GoneWith, Zenon DEF Positions
    <3>2. Lesson(r) \in memory
      BY <1>1, <2>3, Zenon DEF promoted_twin, RunInv, OutcomeInv
    <3>3. Learned(r, s, "to", v, "COMPLETED")
      BY <2>2, <3>2, Zenon DEF Learned
    <3> QED BY <1>4, <2>1, <2>3, <3>1, <3>3, TurnStep DEF _promote_run_memory, world
  <2>4. ASSUME candidate' = [candidate EXCEPT ![r] = IF @ = "NONE" THEN "PROPOSED" ELSE @], Go(d, "gate")
        PROVE  FinalizationInv'
    <3>1. Turns(d, "gate", v, a)
      BY <1>1, <2>2, <2>4, Gone DEF Positions
    <3>2. Learned(r, s, "gate", v, a)
      BY <2>2, Zenon DEF Learned
    <3>3. PICK status \in Statuses : status = IF candidate[r] = "NONE" THEN "PROPOSED" ELSE candidate[r]
      BY <1>3
    <3>4. status = "PROMOTED" => Lesson(r) \in memory
      BY <1>1, <3>3, Zenon DEF RunInv, OutcomeInv
    <3>5. candidate' = [candidate EXCEPT ![r] = status]
      BY <2>4, <3>3
    <3> QED BY <1>4, <2>1, <3>1, <3>2, <3>4, <3>5, CandidateStep, Zenon DEF _promote_run_memory
  <2> QED BY <1>4, <2>2, <2>3, <2>4 DEF _promote_run_memory
<1>5. ASSUME promote(d) PROVE FinalizationInv'
  <2>1. PICK r \in Runs, s \in Advanced, v \in Revisions, a \in Args : Works(d, r, s, "gate", v, a)
    BY <1>5, AtWork, Zenon DEF promote, Positions
  <2>2. r = Now(d) /\ v = dispatcher[d].rev /\ a = dispatcher[d].arg /\ Learned(r, s, "gate", v, a)
    BY <2>1, Zenon DEF Works
  <2>3. PICK status \in {"PROMOTING", "REJECTED"} : candidate' = [candidate EXCEPT ![r] = status]
    BY <1>5, <2>2, Zenon DEF promote
  <2>4. PICK p \in {"remember", "release", "to"}, b \in Args :
          Turns(d, p, v, b) /\ (p = "to" => b = "WAITING_FOR_MEMORY")
    <3>1. ASSUME NEW p \in {"remember", "release"}, Go(d, p) PROVE Turns(d, p, v, a)
      BY <1>1, <2>2, <3>1, Gone DEF Positions
    <3>2. ASSUME GoWith(d, "to", "WAITING_FOR_MEMORY") PROVE Turns(d, "to", v, "WAITING_FOR_MEMORY")
      BY <1>1, <1>2, <2>2, <3>2, GoneWith, Zenon DEF Positions
    <3> QED BY <1>2, <1>5, <3>1, <3>2, Zenon DEF promote
  <2>5. Learned(r, s, p, v, b)
    BY <2>2, <2>4, Zenon DEF Learned
  <2> QED BY <1>5, <2>1, <2>3, <2>4, <2>5, CandidateStep, Zenon DEF promote
<1>6. ASSUME _set_local_state(d) PROVE FinalizationInv'
  <2>1. PICK r \in Runs, s \in Advanced, v \in Revisions, a \in Args : Works(d, r, s, "unavailable", v, a)
    BY <1>6, AtWork, Zenon DEF _set_local_state, Positions
  <2>2. r = Now(d) /\ v = dispatcher[d].rev /\ a = dispatcher[d].arg /\ Learned(r, s, "unavailable", v, a)
    BY <2>1, Zenon DEF Works
  <2>3. PICK p \in {"release", "to"}, b \in Args :
          Turns(d, p, v, b) /\ (p = "to" => b = "WAITING_FOR_MEMORY")
    <3>1. ASSUME Go(d, "release") PROVE Turns(d, "release", v, a)
      BY <1>1, <2>2, <3>1, Gone DEF Positions
    <3>2. ASSUME GoWith(d, "to", "WAITING_FOR_MEMORY") PROVE Turns(d, "to", v, "WAITING_FOR_MEMORY")
      BY <1>1, <1>2, <2>2, <3>2, GoneWith, Zenon DEF Positions
    <3> QED BY <1>2, <1>6, <3>1, <3>2, Zenon DEF _set_local_state
  <2>4. Learned(r, s, p, v, b)
    BY <2>2, <2>3, Zenon DEF Learned
  <2> QED BY <1>6, <2>1, <2>2, <2>3, <2>4, CandidateStep, Zenon DEF _set_local_state
<1>7. ASSUME _complete(d) PROVE FinalizationInv'
  <2>1. PICK r \in Runs, s \in Advanced, v \in Revisions, a \in Args : Works(d, r, s, "promoted", v, a)
    BY <1>7, AtWork DEF _complete, Positions
  <2>2. r = Now(d) /\ v = dispatcher[d].rev /\ a = dispatcher[d].arg /\ Learned(r, s, "promoted", v, a)
    BY <2>1, Zenon DEF Works
  <2>3. Turns(d, "to", v, "COMPLETED")
    BY <1>1, <1>2, <1>7, <2>2, GoneWith, Zenon DEF _complete, Positions
  <2>4. Lesson(r) \in memory /\ Learned(r, s, "to", v, "COMPLETED")
    BY <2>2, Zenon DEF Learned
  <2> QED BY <1>7, <2>1, <2>2, <2>3, <2>4, CandidateStep, Zenon DEF _complete
<1> QED BY <1>4, <1>5, <1>6, <1>7

LEMMA Counted ==
  ASSUME TypeOK, NEW kind, Fault(kind)
  PROVE  faults' \in 0..MaxFaults
BY FinalizationAssumption DEF TypeOK, Fault

LEMMA RememberStep ==
  ASSUME FinalizationInv, NEW d \in Dispatchers, remember(d)
  PROVE  FinalizationInv'
<1>1. PICK r \in Runs, s \in Advanced, v \in Revisions, a \in Args : Works(d, r, s, "remember", v, a)
  BY AtWork DEF remember, Positions
<1>2. r = Now(d) /\ v = dispatcher[d].rev /\ a = dispatcher[d].arg /\ Learned(r, s, "remember", v, a)
  BY <1>1 DEF Works
<1>3. TypeOK
  BY DEF FinalizationInv
<1>4. UNCHANGED <<run, plan, evidence, repairs, decision, worktree, call, commits, candidate, stage>>
  BY DEF remember
<1>5. PICK p \in {"promoted", "unavailable"} : Go(d, p) /\ (p = "promoted" => memory' = memory \cup {Lesson(r)})
  BY <1>2 DEF remember
<1>6. Turns(d, p, v, a)
  BY <1>2, <1>3, <1>5, Gone DEF Positions
<1>7. memory' \in {memory, memory \cup {Lesson(r)}}
  BY <1>2 DEF remember
<1>8. memory' \in SUBSET Lessons /\ memory \subseteq memory'
  BY <1>3, <1>7, LessonIsOne DEF TypeOK
<1>9. faults' \in 0..MaxFaults
  BY <1>3, Counted DEF remember, TypeOK
<1>10. TypeOK'
  BY <1>3, <1>4, <1>6, <1>8, <1>9 DEF TypeOK, Turns
<1>11. Grows /\ \A q \in Runs : RunInv(q)'
  <2>1. \A q \in Runs : Same(q)
    BY <1>4 DEF Same
  <2> QED BY <1>8, <2>1, SameKeeps DEF Grows, FinalizationInv
<1>12. Learned(r, s, "unavailable", v, a)'
  <2>1. Learned(r, s, "unavailable", v, a)
    BY <1>2, Zenon DEF Learned
  <2> QED BY <1>3, <1>11, <2>1, LearnedStays
<1>13. Learned(r, s, p, v, a)'
  <2>1. p = "promoted" => Lesson(r)' \in memory'
    BY <1>5 DEF Lesson
  <2> QED BY <1>5, <1>12, <2>1, Zenon DEF Learned
<1> QED BY <1>1, <1>6, <1>10, <1>11, <1>13, ActorStep, Zenon DEF Works

LEMMA CleanupStep ==
  ASSUME FinalizationInv, NEW d \in Dispatchers, _cleanup_run(d)
  PROVE  FinalizationInv'
<1>1. PICK r \in Runs, s \in Advanced, v \in Revisions, a \in Args : Works(d, r, s, "cleanup", v, a)
  BY AtWork DEF _cleanup_run, Positions
<1>2. r = Now(d) /\ v = dispatcher[d].rev /\ a = dispatcher[d].arg /\ Learned(r, s, "cleanup", v, a)
  BY <1>1, Zenon DEF Works
<1>3. TypeOK
  BY DEF FinalizationInv
<1>4. UNCHANGED <<run, plan, evidence, repairs, decision, call, commits, candidate, memory, stage, faults>>
  BY DEF _cleanup_run
<1>5. Turns(d, "release", v, a)
  BY <1>2, <1>3, Gone DEF _cleanup_run, Positions
<1>6. worktree' \in [Runs -> [Revisions -> Trees \cup {Nobody}]]
  BY <1>2, <1>3, Zenon DEF _cleanup_run, TypeOK
<1>7. TypeOK'
  BY <1>3, <1>4, <1>5, <1>6 DEF TypeOK, Turns
<1>8. Grows /\ \A q \in Runs : RunInv(q)'
  <2>1. \A q \in Runs : Same(q)
    BY <1>4, Zenon DEF Same
  <2> QED BY <1>4, <2>1, SameKeeps DEF Grows, FinalizationInv
<1>9. Learned(r, s, "release", v, a)'
  BY <1>2, <1>3, <1>8, LearnedStays, LearnedNothing
<1> QED BY <1>1, <1>5, <1>7, <1>8, <1>9, ActorStep, Zenon DEF Works

\* Crashes, calls that raise, claims that age and writes to a worktree.
LEMMA FaultSteps ==
  ASSUME FinalizationInv,
         \/ \E d \in Dispatchers : crash(d) \/ raises(d)
         \/ \E r \in Runs : \/ \E s \in Advanced : goes_stale(r, s)
                            \/ \E v \in Revisions : worktree_changes(r, v)
  PROVE  FinalizationInv'
<1>1. TypeOK
  BY DEF FinalizationInv
<1>2. ASSUME NEW d \in Dispatchers, crash(d) PROVE FinalizationInv'
  BY <1>1, <1>2, Rested, Counted, IdleStep, Zenon DEF crash, TypeOK
<1>3. ASSUME NEW d \in Dispatchers, raises(d) PROVE FinalizationInv'
  <2>1. PICK p \in {"reviewing", "debug", "repair", "hash", "commit", "remember"} : At(d, p)
    BY <1>3, Zenon DEF raises, At
  <2>2. PICK r \in Runs, s \in Advanced, v \in Revisions, a \in Args : Works(d, r, s, p, v, a)
    BY <2>1, AtWork DEF Positions
  <2>3. Turns(d, "release", v, a)
    BY <1>1, <1>3, <2>2, Gone, Zenon DEF raises, Works, Positions
  <2>4. Learned(r, s, "release", v, a)
    BY <2>2, LearnedNothing, Zenon DEF Works
  <2>5. faults' \in 0..MaxFaults /\ stage' \in [Runs -> [Advanced -> RunStageAttemptRow]]
    BY <1>1, <1>3, Counted DEF raises, TypeOK
  <2> QED BY <1>3, <2>2, <2>3, <2>4, <2>5, ReadStep, Zenon DEF raises
<1>4. ASSUME NEW r \in Runs, NEW s \in Advanced, goes_stale(r, s) PROVE FinalizationInv'
  <2>1. stage \in [Runs -> [Advanced -> RunStageAttemptRow]] /\ stage[r][s] \in RunStageAttemptRow
    BY <1>1 DEF TypeOK
  <2>2. PICK row \in RunStageAttemptRow : row = [stage[r][s] EXCEPT !.stale = TRUE]
    BY <2>1, Zenon DEF RunStageAttemptRow
  <2>3. stage' = [stage EXCEPT ![r][s] = row]
    <3>1. stage' = [stage EXCEPT ![r] = [stage[r] EXCEPT ![s] = [stage[r][s] EXCEPT !.stale = TRUE]]]
      BY <1>4, <2>1 DEF goes_stale
    <3> QED BY <2>2, <3>1
  <2>4. stage' \in [Runs -> [Advanced -> RunStageAttemptRow]]
    BY <2>1, <2>3, Put
  <2>5. faults' \in 0..MaxFaults
    BY <1>1, <1>4, Counted DEF goes_stale, TypeOK
  <2>6. TypeOK'
    BY <1>1, <1>4, <2>4, <2>5 DEF goes_stale, TypeOK, world
  <2> QED BY <1>4, <2>6, NoRun, OtherStep DEF goes_stale
<1>5. ASSUME NEW r \in Runs, NEW v \in Revisions, worktree_changes(r, v) PROVE FinalizationInv'
  <2>1. worktree' \in [Runs -> [Revisions -> Trees \cup {Nobody}]]
    BY <1>1, <1>5 DEF worktree_changes, TypeOK
  <2>2. TypeOK'
    BY <1>1, <1>5, <2>1, Counted, Zenon DEF worktree_changes, TypeOK
  <2>3. \A q \in Runs : Same(q)
    BY <1>5 DEF worktree_changes, Same
  <2>4. Grows /\ \A q \in Runs : RunInv(q)'
    BY <1>5, <2>3, SameKeeps DEF Grows, FinalizationInv, worktree_changes
  <2> QED BY <1>5, <2>2, <2>4, OtherStep DEF worktree_changes
<1> QED BY <1>2, <1>3, <1>4, <1>5

\* The operator's decisions, in time or late.
LEMMA ApprovalSteps ==
  ASSUME FinalizationInv, NEW r \in Runs, NEW v \in Revisions,
         approval_expires(r, v) \/ \E approved \in BOOLEAN : decide(r, v, approved)
  PROVE  FinalizationInv'
<1>1. TypeOK /\ RunInv(r) /\ call \in [Runs -> [Revisions -> Call]] /\ call[r][v] \in Call
  BY DEF FinalizationInv, TypeOK
<1>2. /\ UNCHANGED <<run, plan, evidence, repairs, decision, worktree, commits, candidate, memory, stage, dispatcher, faults>>
      /\ call[r][v].approval # "NONE"
  BY DEF approval_expires, decide
<1>3. PICK row \in Call :
        /\ call' = [call EXCEPT ![r][v] = row]
        /\ row.status = call[r][v].status /\ row.tree = call[r][v].tree /\ row.approval # "NONE"
        /\ call[r][v].approval \in {"APPROVED", "EXPIRED"} => row.approval \in {"APPROVED", "EXPIRED"}
  <2>1. ASSUME approval_expires(r, v)
        PROVE  \E row \in Call :
                 /\ call' = [call EXCEPT ![r][v] = row]
                 /\ row.status = call[r][v].status /\ row.tree = call[r][v].tree /\ row.approval = call[r][v].approval
    <3>1. call' = [call EXCEPT ![r][v] = [call[r][v] EXCEPT !.late = TRUE]]
      BY <1>1, <2>1 DEF approval_expires
    <3>2. [call[r][v] EXCEPT !.late = TRUE] \in Call
      BY <1>1, Zenon DEF Call
    <3> QED BY <1>1, <3>1, <3>2, Zenon DEF Call
  <2>2. ASSUME NEW approved \in BOOLEAN, decide(r, v, approved)
        PROVE  \E row \in Call :
                 /\ call' = [call EXCEPT ![r][v] = row]
                 /\ row.status = call[r][v].status /\ row.tree = call[r][v].tree /\ row.approval # "NONE"
                 /\ call[r][v].approval \in {"APPROVED", "EXPIRED"} => row.approval \in {"APPROVED", "EXPIRED"}
    <3>1. PICK answer \in {"PENDING", "APPROVED", "REJECTED", "EXPIRED"} :
            /\ call' = [call EXCEPT ![r][v].approval = answer]
            /\ call[r][v].approval \in {"APPROVED", "EXPIRED"} => answer \in {"APPROVED", "EXPIRED"}
      BY <1>1, <1>2, <2>2, Zenon DEF decide, Call
    <3>2. call' = [call EXCEPT ![r][v] = [call[r][v] EXCEPT !.approval = answer]]
      BY <1>1, <3>1
    <3>3. [call[r][v] EXCEPT !.approval = answer] \in Call
      BY <1>1, Zenon DEF Call
    <3> QED BY <1>1, <3>1, <3>2, <3>3, Zenon DEF Call
  <2> QED BY <1>2, <2>1, <2>2
<1>4. call[r][v].status # "NONE" /\ decision[r][v] = "approved" /\ call[r][v].tree \in Trees
  BY <1>1, <1>2, Zenon DEF RunInv, ReleaseInv
<1>5. Keeps(r) /\ RunInv(r)' /\ \A q \in Runs \ {r} : Same(q)
  BY <1>1, <1>2, <1>3, <1>4, CallKeeps, Zenon
<1>6. TypeOK'
  BY <1>1, <1>2, <1>3, CallUpdate, Zenon DEF TypeOK
<1> QED BY <1>2, <1>5, <1>6, OneRun, OtherStep

\* Cancellation moves the run, and settles the tasks that are left.
LEMMA CancelSteps ==
  ASSUME FinalizationInv, NEW r \in Runs, cancel_run(r) \/ cancel_requested_runs(r)
  PROVE  FinalizationInv'
<1>1. TypeOK /\ RunInv(r) /\ plan[r] \in Plan /\ plan[r].revision \in Nat
  BY Revised DEF FinalizationInv, TypeOK, Plan
<1>2. UNCHANGED <<evidence, repairs, decision, worktree, call, commits, candidate, memory, stage, dispatcher, faults>>
  BY DEF cancel_run, cancel_requested_runs, world
<1>3. /\ run' \in [Runs -> [state: Advanced \cup TerminalRun, cancel: BOOLEAN]]
      /\ \A q \in Runs \ {r} : run'[q] = run[q]
      /\ run[r].state \notin TerminalRun /\ run'[r].state \in {run[r].state, "CANCELLED"}
  <2>1. CASE cancel_run(r)
    BY <1>1, <2>1, Zenon DEF cancel_run, TypeOK
  <2>2. CASE cancel_requested_runs(r)
    BY <1>1, <2>2, Zenon DEF cancel_requested_runs, TypeOK, TerminalRun
  <2> QED BY <2>1, <2>2
<1>4. /\ plan' \in [Runs -> Plan] /\ \A q \in Runs \ {r} : plan'[q] = plan[q]
      /\ plan'[r].revision = plan[r].revision
      /\ plan'[r].tasks = plan[r].tasks \/ (plan[r].tasks = "unfinished" /\ plan'[r].tasks = "failed")
  <2>1. CASE cancel_run(r)
    BY <1>1, <2>1 DEF cancel_run, TypeOK, world
  <2>2. CASE cancel_requested_runs(r)
    <3>1. PICK tasks \in {"unfinished", "failed", "completed"} :
            /\ tasks = IF plan[r].tasks = "unfinished" THEN "failed" ELSE plan[r].tasks
            /\ plan' = [plan EXCEPT ![r] = [plan[r] EXCEPT !.tasks = tasks]]
      BY <1>1, <2>2, Zenon DEF cancel_requested_runs, TypeOK, Plan
    <3>2. [plan[r] EXCEPT !.tasks = tasks] \in Plan
      BY <1>1 DEF Plan
    <3> QED BY <1>1, <3>1, <3>2 DEF TypeOK, Plan
  <2> QED BY <2>1, <2>2, Zenon
<1>5. TypeOK'
  BY <1>1, <1>2, <1>3, <1>4 DEF TypeOK
<1>6. \A q \in Runs \ {r} : Same(q)
  BY <1>2, <1>3, <1>4, Zenon DEF Same
<1>7. (\A v : Finished(r, v)' <=> Finished(r, v)) /\ (Intact(r)' <=> Intact(r)) /\ Accepted(r)' = Accepted(r)
  BY <1>2, <1>4, Zenon DEF Finished, Intact, Accepted
<1>8. Keeps(r)
  BY <1>2, <1>3, <1>7, Zenon DEF Keeps
<1>9. ReleaseInv(r)'
  BY <1>1, <1>2, Frames, Zenon
<1>10. OutcomeInv(r)'
  BY <1>1, <1>2, <1>3, Zenon DEF RunInv, OutcomeInv, Delivered, Lesson
<1>11. RepairInv(r)'
  BY <1>1, <1>4, <1>7, Zenon DEF RunInv, RepairInv
<1>12. EvidenceInv(r)'
  <2>1. \A v, f : Fails(r, v, f)' <=> Fails(r, v, f)
    BY <1>2, Zenon DEF Fails
  <2> QED BY <1>1, <1>2, <1>4, <1>7, <2>1, Zenon DEF RunInv, EvidenceInv
<1>13. Grows /\ \A q \in Runs : RunInv(q)'
  BY <1>2, <1>6, <1>8, <1>9, <1>10, <1>11, <1>12, OneRun DEF RunInv
<1> QED BY <1>2, <1>5, <1>13, OtherStep

\* The tasks leave evidence where there was none.
LEMMA FinishStep ==
  ASSUME FinalizationInv, NEW r \in Runs, tasks_finish(r)
  PROVE  FinalizationInv'
<1>1. TypeOK /\ RunInv(r) /\ plan[r] \in Plan /\ plan[r].tasks = "unfinished"
  BY DEF FinalizationInv, TypeOK, tasks_finish
<1>2. UNCHANGED <<run, repairs, decision, call, commits, candidate, memory, stage, dispatcher, faults>>
  BY DEF tasks_finish
<1>3. PICK now \in Revisions : now = plan[r].revision
  BY <1>1 DEF Plan
<1>4. PICK outcome \in {"failed", "completed"}, e \in {x \in Evidence : x.intact}, tree \in Trees :
        /\ plan' = [plan EXCEPT ![r].tasks = outcome]
        /\ evidence' = [evidence EXCEPT ![r][now] = e]
        /\ worktree' = [worktree EXCEPT ![r][now] = tree]
  <2>1. PICK outcome \in {"failed", "completed"}, e \in {x \in Evidence : x.intact}, tree \in Trees :
          /\ plan' = [plan EXCEPT ![r].tasks = outcome]
          /\ evidence' = [evidence EXCEPT ![r][plan[r].revision] = e]
          /\ worktree' = [worktree EXCEPT ![r][plan[r].revision] = tree]
    BY Zenon DEF tasks_finish
  <2> QED BY <1>3, <2>1, Zenon
<1>5. /\ plan' \in [Runs -> Plan] /\ \A q \in Runs \ {r} : plan'[q] = plan[q]
      /\ plan'[r].revision = now /\ plan'[r].tasks = outcome
  <2>1. [plan[r] EXCEPT !.tasks = outcome] \in Plan
    BY <1>1 DEF Plan
  <2>2. plan' = [plan EXCEPT ![r] = [plan[r] EXCEPT !.tasks = outcome]]
    BY <1>1, <1>4 DEF TypeOK
  <2> QED BY <1>1, <1>3, <2>1, <2>2 DEF TypeOK, Plan
<1>6. /\ evidence' \in [Runs -> [Revisions -> Evidence]] /\ \A q \in Runs \ {r} : evidence'[q] = evidence[q]
      /\ evidence'[r][now] = e /\ \A v \in Revisions \ {now} : evidence'[r][v] = evidence[r][v]
  BY <1>1, <1>4 DEF TypeOK
<1>7. worktree' \in [Runs -> [Revisions -> Trees \cup {Nobody}]]
  BY <1>1, <1>4 DEF TypeOK
<1>8. TypeOK'
  BY <1>1, <1>2, <1>5, <1>6, <1>7, Zenon DEF TypeOK
<1>9. \A q \in Runs \ {r} : Same(q)
  BY <1>2, <1>5, <1>6, Zenon DEF Same
<1>10. EvidenceInv(r) /\ evidence[r][now] = NoEvidence
  BY <1>1, <1>3, Zenon DEF RunInv, EvidenceInv
<1>11. Intact(r)' => Intact(r)
  <2>1. evidence[r][now].intact
    BY <1>10 DEF NoEvidence
  <2> QED BY <1>6, <2>1 DEF Intact
<1>12. \A v \in Revisions : Finished(r, v) => v < now /\ v # now /\ Finished(r, v)'
  BY <1>1, <1>3, <1>5, Revised DEF Finished
<1>13. Keeps(r)
  BY <1>2, <1>6, <1>11, <1>12, Zenon DEF Keeps
<1>14. ReleaseInv(r)' /\ OutcomeInv(r)'
  BY <1>1, <1>2, Frames, Zenon
<1>15. Accepted(r)' = Accepted(r)
  BY <1>2 DEF Accepted
<1>16. RepairInv(r)'
  BY <1>1, <1>3, <1>5, <1>15, Zenon DEF RunInv, RepairInv
<1>17. EvidenceInv(r)'
  <2>1. \A v \in Revisions : v < now => v # now
    BY Revised
  <2>2. \A v \in Revisions : v > now => v # now /\ evidence[r][v] = NoEvidence
    <3>1. \A v \in Revisions : v > now => evidence[r][v] = NoEvidence
      BY <1>3, <1>10, Zenon DEF EvidenceInv
    <3>2. \A v \in Revisions : v > now => v # now
      BY Revised
    <3> QED BY <3>1, <3>2, Zenon
  <2>3. \A v \in Revisions : \A f : v # now /\ Fails(r, v, f) => Fails(r, v, f)'
    BY <1>2, <1>6 DEF Fails
  <2>4. \A v \in Revisions : decision[r][v] # "none" => v # now /\ Finished(r, v)'
    BY <1>10, <1>12, Zenon DEF EvidenceInv
  <2>5. \A v \in Revisions : v > plan'[r].revision \/ (v = plan'[r].revision /\ plan'[r].tasks = "unfinished")
          => evidence'[r][v] = NoEvidence
    BY <1>5, <1>6, <2>2
  <2>6. ASSUME Intact(r)', NEW v \in Revisions, decision[r][v] # "none" PROVE evidence'[r][v].verdict = "passing"
    BY <1>6, <1>10, <1>11, <2>4, <2>6, Zenon DEF EvidenceInv
  <2>7. ASSUME Intact(r)', NEW v \in Revisions, v < plan'[r].revision
        PROVE  \E m \in Accepted(r) : m.base = v /\ Fails(r, v, m.failure)'
    BY <1>3, <1>5, <1>10, <1>11, <2>1, <2>3, <2>7, Zenon DEF EvidenceInv
  <2> QED BY <1>2, <1>15, <2>4, <2>5, <2>6, <2>7, Zenon DEF EvidenceInv
<1>18. Grows /\ \A q \in Runs : RunInv(q)'
  BY <1>2, <1>9, <1>13, <1>14, <1>16, <1>17, OneRun DEF RunInv
<1> QED BY <1>2, <1>8, <1>18, OtherStep

\* A run whose evidence is corrupted is not intact any more.
LEMMA CorruptStep ==
  ASSUME FinalizationInv, NEW r \in Runs, evidence_corrupts(r)
  PROVE  FinalizationInv'
<1>1. TypeOK /\ RunInv(r) /\ plan[r] \in Plan
  BY DEF FinalizationInv, TypeOK
<1>2. UNCHANGED <<run, plan, repairs, decision, worktree, call, commits, candidate, memory, stage, dispatcher>>
  BY DEF evidence_corrupts
<1>3. PICK now \in Revisions : now = plan[r].revision
  BY <1>1 DEF Plan
<1>4. PICK verdict \in {"none"} \cup Failures :
        evidence' = [evidence EXCEPT ![r][now].verdict = verdict, ![r][now].intact = FALSE]
  BY <1>3, Zenon DEF evidence_corrupts
<1>5. evidence[r][now] \in Evidence /\ evidence[r][now].verdict = "passing"
  BY <1>1, <1>3 DEF evidence_corrupts, TypeOK
<1>6. PICK e \in Evidence : e = [evidence[r][now] EXCEPT !.verdict = verdict, !.intact = FALSE]
  BY <1>5, Zenon DEF Evidence
<1>7. ~e.intact
  BY <1>5, <1>6 DEF Evidence
<1>8. evidence' = [evidence EXCEPT ![r][now] = e]
  BY <1>1, <1>4, <1>6, Zenon DEF TypeOK
<1>9. /\ evidence' \in [Runs -> [Revisions -> Evidence]] /\ \A q \in Runs \ {r} : evidence'[q] = evidence[q]
      /\ evidence'[r][now] = e /\ \A v \in Revisions \ {now} : evidence'[r][v] = evidence[r][v]
  BY <1>1, <1>8 DEF TypeOK
<1>10. TypeOK'
  BY <1>1, <1>2, <1>9, Counted DEF TypeOK, evidence_corrupts
<1>11. \A q \in Runs \ {r} : Same(q)
  BY <1>2, <1>9, Zenon DEF Same
<1>12. ~Intact(r)'
  BY <1>7, <1>9, Zenon DEF Intact
<1>13. \A v : Finished(r, v)' <=> Finished(r, v)
  BY <1>2 DEF Finished
<1>14. Keeps(r)
  BY <1>2, <1>12, <1>13, Zenon DEF Keeps
<1>15. ReleaseInv(r)' /\ OutcomeInv(r)' /\ RepairInv(r)'
  BY <1>1, <1>2, Frames, Zenon
<1>16. EvidenceInv(r)'
  <2>1. EvidenceInv(r) /\ evidence[r][now] # NoEvidence
    <3>1. NoEvidence.verdict = "none"
      BY DEF NoEvidence
    <3>2. EvidenceInv(r)
      BY <1>1, Zenon DEF RunInv
    <3> QED BY <1>5, <3>1, <3>2, Zenon
  <2>2. \A v \in Revisions : v > plan[r].revision \/ (v = plan[r].revision /\ plan[r].tasks = "unfinished") => v # now
    BY <1>3, <2>1, Zenon DEF EvidenceInv
  <2> QED BY <1>2, <1>9, <1>12, <1>13, <2>1, <2>2, Zenon DEF EvidenceInv
<1>17. Grows /\ \A q \in Runs : RunInv(q)'
  BY <1>2, <1>11, <1>14, <1>15, <1>16, OneRun DEF RunInv
<1> QED BY <1>2, <1>10, <1>17, OtherStep

-----------------------------------------------------------------------------
(* The theorems.                                                            *)

LEMMA FinalizationInit == Init => FinalizationInv
<1> SUFFICES ASSUME Init PROVE FinalizationInv
  OBVIOUS
<1>1. TypeOK
  <2>1. Resting \in Cycle
    BY Revised DEF Resting, Cycle, Advanced, Positions
  <2>2. [revision |-> 1, tasks |-> "unfinished"] \in Plan /\ NoEvidence \in Evidence /\ NoCall \in Call
    BY Revised DEF Plan, NoEvidence, Evidence, NoCall, Call
  <2>3. [running |-> FALSE, owner |-> Nobody, stale |-> FALSE] \in RunStageAttemptRow
    BY DEF RunStageAttemptRow
  <2>4. [state |-> "EXECUTING", cancel |-> FALSE] \in [state: Advanced \cup TerminalRun, cancel: BOOLEAN]
    BY DEF Advanced
  <2>5. 0 \in 0..MaxFaults
    BY FinalizationAssumption
  <2> QED BY <2>1, <2>2, <2>3, <2>4, <2>5, Zenon DEF Init, TypeOK
<1>2. ASSUME NEW r \in Runs PROVE RunInv(r)
  <2>1. Accepted(r) = {} /\ plan[r].revision = 1 /\ plan[r].tasks = "unfinished"
    BY DEF Init, Accepted
  <2>2. ReleaseInv(r)
    BY Zenon DEF Init, ReleaseInv, NoCall
  <2>3. OutcomeInv(r)
    BY DEF Init, OutcomeInv
  <2>4. RepairInv(r)
    BY <2>1, FS_EmptySet DEF RepairInv
  <2>5. EvidenceInv(r)
    BY <2>1, Revised DEF Init, EvidenceInv
  <2> QED BY <2>2, <2>3, <2>4, <2>5 DEF RunInv
<1>3. ASSUME NEW d \in Dispatchers PROVE Knows(d)
  BY Zenon DEF Init, Knows, At, Resting
<1> QED BY <1>1, <1>2, <1>3 DEF FinalizationInv

LEMMA FinalizationStep == FinalizationInv /\ [Next]_vars => FinalizationInv'
<1> SUFFICES ASSUME FinalizationInv, [Next]_vars PROVE FinalizationInv'
  OBVIOUS
<1>1. CASE UNCHANGED vars
  <2>1. TypeOK'
    BY <1>1 DEF vars, world, FinalizationInv, TypeOK
  <2> QED BY <1>1, <2>1, NoRun, OtherStep DEF vars
<1>2. ASSUME NEW d \in Dispatchers, Advance(d) PROVE FinalizationInv'
  BY <1>2, ClaimSteps, ReadingSteps, TransitionStep, ReviewStep, ApplyStep, RequestStep, CommitStep,
     CompleteStep, PromotionSteps, RememberStep, CleanupStep DEF Advance
<1>3. ASSUME NEW d \in Dispatchers, crash(d) \/ raises(d) PROVE FinalizationInv'
  BY <1>3, FaultSteps
<1>4. ASSUME NEW r \in Runs,
             tasks_finish(r) \/ cancel_run(r) \/ cancel_requested_runs(r) \/ evidence_corrupts(r)
      PROVE  FinalizationInv'
  BY <1>4, FinishStep, CancelSteps, CorruptStep
<1>5. ASSUME NEW r \in Runs, NEW s \in Advanced, goes_stale(r, s) PROVE FinalizationInv'
  BY <1>5, FaultSteps
<1>6. ASSUME NEW r \in Runs, NEW v \in Revisions, approval_expires(r, v) \/ worktree_changes(r, v)
      PROVE  FinalizationInv'
  BY <1>6, FaultSteps, ApprovalSteps
<1>7. ASSUME NEW r \in Runs, NEW v \in Revisions, NEW approved \in BOOLEAN, decide(r, v, approved)
      PROVE  FinalizationInv'
  BY <1>7, ApprovalSteps
<1> QED BY <1>1, <1>2, <1>3, <1>4, <1>5, <1>6, <1>7 DEF Next

LEMMA FinalizationHolds == Spec => []FinalizationInv
BY FinalizationInit, FinalizationStep, PTL DEF Spec

\* While the evidence is intact, an approved revision is the latest one and its tasks
\* are completed: each earlier one failed, and was repaired for it.
LEMMA ApprovedIsLast ==
  ASSUME FinalizationInv, NEW r \in Runs, Intact(r), NEW v \in Revisions, decision[r][v] = "approved"
  PROVE  v = plan[r].revision /\ plan[r].tasks = "completed"
<1>1. EvidenceInv(r)
  BY DEF FinalizationInv, RunInv
<1>2. Finished(r, v) /\ evidence[r][v].verdict = "passing"
  BY <1>1 DEF EvidenceInv
<1>3. ~(v < plan[r].revision)
  BY <1>1, <1>2, Named DEF EvidenceInv, Fails
<1> QED BY <1>2, <1>3 DEF Finished

\* No release commit without the review of its revision and the operator's approval of
\* its very tree, whatever is written to the worktree, however many dispatchers race
\* and wherever they die: what commit_task_worktree, authorize and request establish.
THEOREM OnlyApprovedTreesAreCommitted == Spec => []CommitIsApproved
<1>1. FinalizationInv => CommitIsApproved
  BY Zenon DEF FinalizationInv, RunInv, ReleaseInv, CommitIsApproved
<1> QED BY <1>1, FinalizationHolds, PTL

\* A COMPLETED run has its commit, its completed call and its lesson in UAMS and, as
\* long as its evidence is intact, no task left, for any number of dispatchers that act
\* on states read long ago.
THEOREM CompletedRunsAreDelivered == Spec => []CompletedIsDelivered
<1>1. ASSUME FinalizationInv PROVE CompletedIsDelivered
  <2>1. SUFFICES ASSUME NEW r \in Runs, run[r].state = "COMPLETED"
                 PROVE  /\ \E c \in commits[r] : call[r][c.rev].status = "COMPLETED"
                        /\ Lesson(r) \in memory
                        /\ Intact(r) => plan[r].tasks = "completed"
    BY Zenon DEF CompletedIsDelivered
  <2>2. RunInv(r)
    BY <1>1 DEF FinalizationInv
  <2>3. Lesson(r) \in memory /\ \E c \in commits[r] : call[r][c.rev].status = "COMPLETED"
    BY <2>1, <2>2 DEF RunInv, OutcomeInv, Delivered
  <2>4. PICK c \in commits[r] : call[r][c.rev].status = "COMPLETED"
    BY <2>3
  <2>5. c.rev \in Revisions /\ decision[r][c.rev] = "approved"
    <3>1. commits \in [Runs -> SUBSET [rev: Revisions, tree: Trees]]
      BY <1>1, Zenon DEF FinalizationInv, TypeOK
    <3>2. c.rev \in Revisions
      BY <2>4, <3>1
    <3> QED BY <2>2, <2>4, <3>2, Zenon DEF RunInv, ReleaseInv
  <2>6. Intact(r) => plan[r].tasks = "completed"
    BY <1>1, <2>5, ApprovedIsLast, Zenon
  <2> QED BY <2>3, <2>6, Zenon
<1> QED BY <1>1, FinalizationHolds, PTL

\* At most one revision of a run asks for a release while the evidence is intact, so
\* that _approval_identity finds the one call the operator decides on.
THEOREM OneRevisionIsReleased == Spec => []OneRelease
<1>1. ASSUME FinalizationInv PROVE OneRelease
  <2>1. SUFFICES ASSUME NEW r \in Runs, Intact(r)
                 PROVE  Cardinality({v \in Revisions : call[r][v].status # "NONE"}) <= 1
    BY Zenon DEF OneRelease
  <2> DEFINE asked == {v \in Revisions : call[r][v].status # "NONE"}
  <2>2. \A v \in asked : v = plan[r].revision
    <3>1. \A v \in Revisions : call[r][v].status # "NONE" => decision[r][v] = "approved"
      <4>1. ReleaseInv(r)
        BY <1>1, <2>1, Zenon DEF FinalizationInv, RunInv
      <4> QED BY <4>1, Zenon DEF ReleaseInv
    <3>2. \A v \in Revisions : decision[r][v] = "approved" => v = plan[r].revision
      BY <1>1, <2>1, ApprovedIsLast, Zenon
    <3> QED BY <3>1, <3>2, Zenon
  <2>3. asked \subseteq {plan[r].revision}
    BY <2>2
  <2> HIDE DEF asked
  <2>4. IsFiniteSet({plan[r].revision}) /\ Cardinality({plan[r].revision}) = 1
    BY FS_Singleton, Zenon
  <2>5. Cardinality(asked) <= 1
    BY <2>3, <2>4, FS_Subset
  <2> QED BY <2>5, Zenon DEF asked
<1> QED BY <1>1, FinalizationHolds, PTL

\* Every revision after the first is one accepted repair, and no failure and no base
\* revision is repaired twice, by however many dispatchers: RepairPolicy.decide under
\* the run's lock.
THEOREM RepairsMakeProgress == Spec => []RepairsAreProgress
<1>1. FinalizationInv => RepairsAreProgress
  BY Zenon DEF FinalizationInv, RunInv, RepairInv, RepairsAreProgress
<1> QED BY <1>1, FinalizationHolds, PTL

\* A settled run never moves, and only the oldest unsettled run is moved other than by
\* its cancellation: the promise of advance_next with _transition_run.
THEOREM RunsSettleForGood == Spec => RunsStaySettled
<1>1. ASSUME FinalizationInv, Next PROVE InOrder
  <2>1. ASSUME UNCHANGED run PROVE InOrder
    BY <2>1 DEF InOrder
  <2>2. ASSUME NEW d \in Dispatchers, _transition_run(d) PROVE InOrder
    <3>1. PICK r \in Runs, s \in Advanced, v \in Revisions, a \in Args : Works(d, r, s, "to", v, a)
      BY <1>1, <2>2, AtWork DEF _transition_run, Positions
    <3>2. r = Now(d) /\ Oldest(r)
      BY <3>1 DEF Works
    <3>3. CASE UNCHANGED run
      BY <2>1, <3>3
    <3>4. CASE run' # run
      <4>1. \A q \in Runs \ {r} : run'[q] = run[q]
        BY <1>1, <2>2, <3>2, <3>4 DEF _transition_run, FinalizationInv, TypeOK
      <4>2. run[r].state \notin TerminalRun
        BY <2>2, <3>2, <3>4, SettledHasNoExit DEF _transition_run
      <4> QED BY <3>2, <4>1, <4>2 DEF InOrder
    <3> QED BY <3>3, <3>4
  <2>3. ASSUME NEW r \in Runs, cancel_run(r) \/ cancel_requested_runs(r) PROVE InOrder
    <3>1. run \in [Runs -> [state: Advanced \cup TerminalRun, cancel: BOOLEAN]]
      BY <1>1 DEF FinalizationInv, TypeOK
    <3>2. CASE cancel_run(r)
      BY <3>1, <3>2 DEF cancel_run, InOrder
    <3>3. CASE cancel_requested_runs(r)
      BY <3>1, <3>3 DEF cancel_requested_runs, InOrder
    <3> QED BY <2>3, <3>2, <3>3
  <2>4. ASSUME NEW d \in Dispatchers, Advance(d), ~_transition_run(d) PROVE UNCHANGED run
    BY <2>4, Zenon DEF Advance, advance_next, _claim_stage, _release_stage, _advance_executing, verification_evidence,
       _load_release_decision, _review_release, _request_repair, apply, worktree_tree_hash, request,
       _advance_approval, _holds_stage, authorize, commit_task_worktree, complete_approved,
       _promote_run_memory, _advance_memory, promote, remember, _set_local_state, _complete, _cleanup_run
  <2>5. ASSUME NEW d \in Dispatchers, crash(d) \/ raises(d) PROVE UNCHANGED run
    BY <2>5 DEF crash, raises
  <2>6. ASSUME NEW r \in Runs, tasks_finish(r) \/ evidence_corrupts(r) PROVE UNCHANGED run
    BY <2>6, Zenon DEF tasks_finish, evidence_corrupts
  <2>7. ASSUME NEW r \in Runs, NEW s \in Advanced, goes_stale(r, s) PROVE UNCHANGED run
    BY <2>7 DEF goes_stale
  <2>8. ASSUME NEW r \in Runs, NEW v \in Revisions,
               approval_expires(r, v) \/ worktree_changes(r, v) \/ \E approved \in BOOLEAN : decide(r, v, approved)
        PROVE  UNCHANGED run
    BY <2>8 DEF approval_expires, worktree_changes, decide
  <2> QED BY <1>1, <2>1, <2>2, <2>3, <2>4, <2>5, <2>6, <2>7, <2>8 DEF Next
<1>2. FinalizationInv /\ [Next]_vars => [InOrder]_vars
  BY <1>1
<1> QED BY <1>2, FinalizationHolds, PTL DEF Spec, RunsStaySettled
=============================================================================
