---------------------------- MODULE RunProofs -------------------------------
(***************************************************************************)
(* A run is planned once, by its last owner, for every number of runs,     *)
(* dispatchers, takeovers and crashes; a stage of its tasks spends within  *)
(* its budgets and answers with evidence, whatever the model says.         *)
(***************************************************************************)
EXTENDS Planning, Stages, Sequences, TLAPS

Steps == {"idle", "context", "check", "model", "planned", "failing"}
PlannerRow == [run: Runs \cup {NoRun}, fence: 0..MaxClaims, attempt: 0..ModelAttempts, at: Steps]

(* A planner under way has a run and a fence, and attempts left at the head  *)
(* of its loop.                                                             *)
UnderWay ==
  \A p \in Planners :
    /\ planner[p].at # "idle" => planner[p].run \in Runs /\ planner[p].fence \in 1..MaxClaims
    /\ planner[p].at \in {"context", "check"} => planner[p].attempt < ModelAttempts

(* The run, its stage row and its plans say the same.                       *)
Agree(r) ==
  \/ run[r].state \in {"NONE", "PENDING"} /\ stage[r].status = "NONE" /\ plans[r] = {}
  \/ run[r].state = "PLANNING" /\ stage[r].status = "RUNNING" /\ plans[r] = {}
  \/ run[r].state = "EXECUTING" /\ stage[r].status = "COMPLETED" /\ plans[r] = {stage[r].fence}
  \/ run[r].state \in {"FAILED", "CANCELLED"} /\ stage[r].status \in {"NONE", "FAILED", "CANCELLED"} /\ plans[r] = {}

PlanningInv == TypeOK /\ UnderWay /\ \A r \in Runs : Agree(r)

LEMMA InitInv == Init => PlanningInv
<1> SUFFICES ASSUME Init PROVE PlanningInv
  OBVIOUS
<1>1. TypeOK
  BY PlanningAssumption DEF Init, TypeOK, Resting, RunRow, RunStageAttemptRow, ModelAttempts
<1>2. UnderWay
  BY DEF Init, UnderWay, Resting
<1>3. \A r \in Runs : Agree(r)
  BY DEF Init, Agree
<1> QED BY <1>1, <1>2, <1>3 DEF PlanningInv

(* What a planner may become when it moves.                                 *)
LEMMA PlannerMoves ==
  ASSUME PlanningInv, NEW p \in Planners, NEW row \in PlannerRow, planner' = [planner EXCEPT ![p] = row],
         row.at # "idle" => row.run \in Runs /\ row.fence \in 1..MaxClaims,
         row.at \in {"context", "check"} => row.attempt < ModelAttempts
  PROVE  planner' \in [Planners -> PlannerRow] /\ UnderWay'
<1>1. planner \in [Planners -> PlannerRow]
  BY DEF PlanningInv, TypeOK, PlannerRow, Steps
<1>2. planner'[p] = row /\ \A q \in Planners \ {p} : planner'[q] = planner[q]
  BY <1>1
<1> QED BY <1>1, <1>2 DEF PlanningInv, UnderWay

LEMMA RestingRow == Resting \in PlannerRow /\ Resting.at = "idle"
BY PlanningAssumption DEF Resting, PlannerRow, Steps, ModelAttempts

(* The rows of one run change, the others stay.                             *)
LEMMA RunMoves ==
  ASSUME PlanningInv, NEW r \in Runs, NEW runRow \in RunRow, NEW stageRow \in RunStageAttemptRow,
         NEW P \in SUBSET (1..MaxClaims),
         run' = [run EXCEPT ![r] = runRow], stage' = [stage EXCEPT ![r] = stageRow], plans' = [plans EXCEPT ![r] = P],
         \/ runRow.state \in {"NONE", "PENDING"} /\ stageRow.status = "NONE" /\ P = {}
         \/ runRow.state = "PLANNING" /\ stageRow.status = "RUNNING" /\ P = {}
         \/ runRow.state = "EXECUTING" /\ stageRow.status = "COMPLETED" /\ P = {stageRow.fence}
         \/ runRow.state \in {"FAILED", "CANCELLED"} /\ stageRow.status \in {"NONE", "FAILED", "CANCELLED"} /\ P = {}
  PROVE  /\ run' \in [Runs -> RunRow] /\ stage' \in [Runs -> RunStageAttemptRow] /\ plans' \in [Runs -> SUBSET (1..MaxClaims)]
         /\ \A q \in Runs : Agree(q)'
<1>1. run \in [Runs -> RunRow] /\ stage \in [Runs -> RunStageAttemptRow] /\ plans \in [Runs -> SUBSET (1..MaxClaims)]
  BY DEF PlanningInv, TypeOK
<1>2. run'[r] = runRow /\ stage'[r] = stageRow /\ plans'[r] = P
  BY <1>1
<1>3. \A q \in Runs \ {r} : run'[q] = run[q] /\ stage'[q] = stage[q] /\ plans'[q] = plans[q]
  BY <1>1
<1>4. Agree(r)'
  BY <1>2, Zenon DEF Agree
<1>5. \A q \in Runs \ {r} : Agree(q)'
  BY <1>3 DEF PlanningInv, Agree
<1> QED BY <1>1, <1>4, <1>5

(* The rows of a run as they are.                                           *)
LEMMA Rows ==
  ASSUME PlanningInv, NEW r \in Runs
  PROVE  /\ run[r] \in RunRow /\ stage[r] \in RunStageAttemptRow /\ plans[r] \in SUBSET (1..MaxClaims) /\ Agree(r)
         /\ run = [run EXCEPT ![r] = run[r]] /\ stage = [stage EXCEPT ![r] = stage[r]]
         /\ plans = [plans EXCEPT ![r] = plans[r]]
BY DEF PlanningInv, TypeOK

LEMMA RunRows ==
  ASSUME NEW row \in RunRow, NEW state \in RunStatus, NEW stale \in BOOLEAN
  PROVE  /\ [row EXCEPT !.state = state, !.stale = stale] \in RunRow
         /\ [row EXCEPT !.state = state, !.stale = stale].state = state
         /\ [row EXCEPT !.stale = stale] \in RunRow /\ [row EXCEPT !.stale = stale].state = row.state
         /\ [row EXCEPT !.cancel = stale] \in RunRow /\ [row EXCEPT !.cancel = stale].state = row.state
         /\ [state |-> state, cancel |-> TRUE, stale |-> FALSE] \in RunRow
BY DEF RunRow

LEMMA EnteredRow ==
  ASSUME NEW row \in RunRow, NEW state \in RunStatus
  PROVE  /\ [row EXCEPT !.state = state, !.stale = FALSE] \in RunRow
         /\ [row EXCEPT !.state = state, !.stale = FALSE].state = state
BY Zenon DEF RunRow

LEMMA StageRows ==
  ASSUME NEW row \in RunStageAttemptRow, NEW status \in {"NONE", "RUNNING", "COMPLETED", "FAILED", "CANCELLED"}
  PROVE  /\ [row EXCEPT !.status = status] \in RunStageAttemptRow
         /\ [row EXCEPT !.status = status].status = status /\ [row EXCEPT !.status = status].fence = row.fence
BY DEF RunStageAttemptRow

LEMMA PlannerRows ==
  ASSUME PlanningInv, NEW p \in Planners
  PROVE  /\ planner[p] \in PlannerRow
         /\ planner[p].at # "idle" => planner[p].run \in Runs /\ planner[p].fence \in 1..MaxClaims
         /\ planner[p].at \in {"context", "check"} => planner[p].attempt < ModelAttempts
BY DEF PlanningInv, TypeOK, PlannerRow, Steps, UnderWay

(* A planner goes on at another step.                                       *)
LEMMA PlannerGoesOn ==
  ASSUME PlanningInv, NEW p \in Planners, planner[p].at # "idle", NEW at \in Steps \ {"idle"},
         at \in {"context", "check"} => planner[p].attempt < ModelAttempts,
         planner' = [planner EXCEPT ![p].at = at]
  PROVE  planner' \in [Planners -> PlannerRow] /\ UnderWay'
<1> DEFINE row == [planner[p] EXCEPT !.at = at]
<1>1. ASSUME NEW h \in PlannerRow
      PROVE  /\ [h EXCEPT !.at = at] \in PlannerRow /\ [h EXCEPT !.at = at].at = at
             /\ [h EXCEPT !.at = at].run = h.run /\ [h EXCEPT !.at = at].fence = h.fence
             /\ [h EXCEPT !.at = at].attempt = h.attempt
  BY DEF PlannerRow
<1>2. planner[p] \in PlannerRow /\ planner[p].run \in Runs /\ planner[p].fence \in 1..MaxClaims
  BY PlannerRows
<1>3. row \in PlannerRow /\ row.run \in Runs /\ row.fence \in 1..MaxClaims /\ (row.at \in {"context", "check"} => row.attempt < ModelAttempts)
  BY <1>1, <1>2
<1>4. planner' = [planner EXCEPT ![p] = row]
  OBVIOUS
<1> HIDE DEF row
<1> QED BY <1>3, <1>4, PlannerMoves

LEMMA PlannerRests ==
  ASSUME PlanningInv, NEW p \in Planners, planner' = [planner EXCEPT ![p] = Resting]
  PROVE  planner' \in [Planners -> PlannerRow] /\ UnderWay'
BY RestingRow, PlannerMoves, Zenon

(* The rows no planner step but a claim, a plan or a failure touches.       *)
LEMMA RowsRest ==
  ASSUME PlanningInv, UNCHANGED <<run, stage, plans>>
  PROVE  /\ run' \in [Runs -> RunRow] /\ stage' \in [Runs -> RunStageAttemptRow] /\ plans' \in [Runs -> SUBSET (1..MaxClaims)]
         /\ \A q \in Runs : Agree(q)'
BY DEF PlanningInv, TypeOK, Agree

LEMMA Together ==
  ASSUME planner' \in [Planners -> PlannerRow], UnderWay',
         run' \in [Runs -> RunRow], stage' \in [Runs -> RunStageAttemptRow], plans' \in [Runs -> SUBSET (1..MaxClaims)],
         \A q \in Runs : Agree(q)', ownerStale' \in [Runs -> BOOLEAN], faults' \in 0..MaxFaults
  PROVE  PlanningInv'
BY DEF PlanningInv, TypeOK, PlannerRow, Steps

LEMMA OperatorStep ==
  ASSUME PlanningInv, NEW r \in Runs, create_run(r) \/ cancel_run(r) \/ goes_stale(r)
  PROVE  PlanningInv'
<1>1. planner' \in [Planners -> PlannerRow] /\ UnderWay' /\ ownerStale' \in [Runs -> BOOLEAN] /\ faults' \in 0..MaxFaults
  BY DEF PlanningInv, TypeOK, UnderWay, PlannerRow, Steps, create_run, cancel_run, goes_stale
<1>2. CASE create_run(r)
  <2>1. run' = [run EXCEPT ![r] = [run[r] EXCEPT !.state = "PENDING", !.stale = FALSE]] /\ UNCHANGED <<stage, plans>>
    BY <1>2 DEF create_run, Enter, PlanningInv, TypeOK
  <2>2. stage[r].status = "NONE" /\ plans[r] = {}
    BY <1>2, Rows DEF create_run, Agree
  <2> DEFINE runRow == [run[r] EXCEPT !.state = "PENDING", !.stale = FALSE]
  <2>3. runRow \in RunRow /\ runRow.state = "PENDING"
    <3>1. run[r] \in RunRow /\ "PENDING" \in RunStatus
      BY Rows DEF RunStatus
    <3> QED BY <3>1, EnteredRow, Zenon
  <2>4. run' = [run EXCEPT ![r] = runRow] /\ stage' = [stage EXCEPT ![r] = stage[r]] /\ plans' = [plans EXCEPT ![r] = {}]
    BY <2>1, <2>2, Rows
  <2> HIDE DEF runRow
  <2>5. stage[r] \in RunStageAttemptRow
    BY Rows
  <2> QED BY <1>1, <2>2, <2>3, <2>4, <2>5, RunMoves, Together, Zenon
<1>3. CASE cancel_run(r) /\ run[r].state \in {"PENDING", "PLANNING"}
  <2>1. /\ run' = [run EXCEPT ![r] = [state |-> "CANCELLED", cancel |-> TRUE, stale |-> FALSE]]
        /\ stage' = [stage EXCEPT ![r] = [stage[r] EXCEPT !.status = IF stage[r].status = "RUNNING" THEN "CANCELLED" ELSE stage[r].status]]
        /\ UNCHANGED plans
    BY <1>3 DEF cancel_run, PlanningInv, TypeOK
  <2>2. plans[r] = {} /\ stage[r].status \in {"NONE", "RUNNING"}
    BY <1>3, Rows DEF Agree
  <2> DEFINE status == IF stage[r].status = "RUNNING" THEN "CANCELLED" ELSE stage[r].status
             stageRow == [stage[r] EXCEPT !.status = status]
             runRow == [state |-> "CANCELLED", cancel |-> TRUE, stale |-> FALSE]
  <2>3. status \in {"NONE", "CANCELLED"}
    BY <2>2
  <2>4. stageRow \in RunStageAttemptRow /\ stageRow.status \in {"NONE", "FAILED", "CANCELLED"}
    <3> HIDE DEF status
    <3>1. stage[r] \in RunStageAttemptRow /\ status \in {"NONE", "RUNNING", "COMPLETED", "FAILED", "CANCELLED"}
      BY <2>3, Rows
    <3>2. stageRow \in RunStageAttemptRow /\ stageRow.status = status
      BY <3>1, StageRows, Zenon
    <3> QED BY <2>3, <3>2
  <2>5. runRow \in RunRow /\ runRow.state = "CANCELLED"
    BY DEF RunRow, RunStatus
  <2>6. run' = [run EXCEPT ![r] = runRow] /\ stage' = [stage EXCEPT ![r] = stageRow] /\ plans' = [plans EXCEPT ![r] = {}]
    BY <2>1, <2>2, Rows
  <2> HIDE DEF runRow, stageRow
  <2> QED BY <1>1, <2>4, <2>5, <2>6, RunMoves, Together, Zenon
<1>4. CASE cancel_run(r) /\ run[r].state \notin {"PENDING", "PLANNING"}
  <2>1. run' = [run EXCEPT ![r] = [run[r] EXCEPT !.cancel = TRUE]] /\ UNCHANGED <<stage, plans>>
    BY <1>4 DEF cancel_run, PlanningInv, TypeOK
  <2> DEFINE runRow == [run[r] EXCEPT !.cancel = TRUE]
  <2>2. runRow \in RunRow /\ runRow.state = run[r].state
    <3>1. run[r] \in RunRow /\ "PENDING" \in RunStatus
      BY Rows DEF RunStatus
    <3> QED BY <3>1, RunRows, Zenon
  <2>3. run' = [run EXCEPT ![r] = runRow] /\ stage' = [stage EXCEPT ![r] = stage[r]] /\ plans' = [plans EXCEPT ![r] = plans[r]]
    BY <2>1, Rows
  <2> HIDE DEF runRow
  <2>4. stage[r] \in RunStageAttemptRow /\ plans[r] \in SUBSET (1..MaxClaims) /\ Agree(r)
    BY Rows
  <2> QED BY <1>1, <2>2, <2>3, <2>4, RunMoves, Together DEF Agree
<1>5. CASE goes_stale(r)
  <2>1. run' = [run EXCEPT ![r] = [run[r] EXCEPT !.stale = TRUE]] /\ UNCHANGED <<stage, plans>>
    BY <1>5 DEF goes_stale, PlanningInv, TypeOK
  <2> DEFINE runRow == [run[r] EXCEPT !.stale = TRUE]
  <2>2. runRow \in RunRow /\ runRow.state = run[r].state
    <3>1. run[r] \in RunRow /\ "PENDING" \in RunStatus
      BY Rows DEF RunStatus
    <3> QED BY <3>1, RunRows, Zenon
  <2>3. run' = [run EXCEPT ![r] = runRow] /\ stage' = [stage EXCEPT ![r] = stage[r]] /\ plans' = [plans EXCEPT ![r] = plans[r]]
    BY <2>1, Rows
  <2> HIDE DEF runRow
  <2>4. stage[r] \in RunStageAttemptRow /\ plans[r] \in SUBSET (1..MaxClaims) /\ Agree(r)
    BY Rows
  <2> QED BY <1>1, <2>2, <2>3, <2>4, RunMoves, Together DEF Agree
<1> QED BY <1>2, <1>3, <1>4, <1>5

LEMMA ClaimStep ==
  ASSUME PlanningInv, NEW p \in Planners, NEW r \in Runs, claim_run(p, r)
  PROVE  PlanningInv'
<1> DEFINE runRow == IF run[r].state = "PENDING" THEN [run[r] EXCEPT !.state = "PLANNING", !.stale = FALSE] ELSE run[r]
           stageRow == [status |-> "RUNNING", fence |-> stage[r].fence + 1]
           row == [run |-> r, fence |-> stage[r].fence + 1, attempt |-> 0, at |-> "context"]
<1>1. stage[r].fence + 1 \in 1..MaxClaims
  BY Rows, PlanningAssumption DEF claim_run, RunStageAttemptRow
<1>2. stageRow \in RunStageAttemptRow /\ stageRow.status = "RUNNING"
  BY <1>1 DEF RunStageAttemptRow
<1>3. row \in PlannerRow /\ row.at = "context" /\ row.run \in Runs /\ row.fence \in 1..MaxClaims /\ row.attempt < ModelAttempts
  BY <1>1 DEF PlannerRow, Steps, ModelAttempts
<1>4. run[r] \in RunRow /\ run[r].state \in {"PENDING", "PLANNING"} /\ plans[r] = {}
  BY Rows DEF claim_run, Claimable, Agree
<1>5. runRow \in RunRow /\ runRow.state = "PLANNING"
  <2>1. "PLANNING" \in RunStatus
    BY DEF RunStatus
  <2> QED BY <1>4, <2>1, EnteredRow, Zenon
<1>6. run' = [run EXCEPT ![r] = runRow]
  BY <1>4, Rows, Zenon DEF claim_run, PlanningInv, TypeOK
<1>7. stage' = [stage EXCEPT ![r] = stageRow] /\ plans' = [plans EXCEPT ![r] = {}] /\ planner' = [planner EXCEPT ![p] = row]
  BY <1>4, Rows DEF claim_run
<1>8. ownerStale' \in [Runs -> BOOLEAN] /\ faults' \in 0..MaxFaults
  BY DEF claim_run, PlanningInv, TypeOK
<1> HIDE DEF runRow, stageRow, row
<1>9. planner' \in [Planners -> PlannerRow] /\ UnderWay'
  BY <1>3, <1>7, PlannerMoves
<1> QED BY <1>2, <1>5, <1>6, <1>7, <1>8, <1>9, RunMoves, Together

LEMMA QuietStep ==
  ASSUME PlanningInv, NEW p \in Planners,
         \/ repository_context(p) \/ next_attempt(p) \/ model_plans(p) \/ model_fails(p)
         \/ ownership_lost(p) \/ persist_fails(p) \/ crash(p)
  PROVE  PlanningInv'
<1>1. /\ UNCHANGED <<run, stage, plans, ownerStale>> /\ faults' \in 0..MaxFaults
  BY PlanningAssumption DEF repository_context, next_attempt, model_plans, model_fails,
    ownership_lost, persist_fails, crash,
     PlanningInv, TypeOK
<1>2. planner' \in [Planners -> PlannerRow] /\ UnderWay'
  <2>1. CASE planner' = [planner EXCEPT ![p] = Resting]
    BY <2>1, PlannerRests, Zenon
  <2>2. ASSUME planner[p].at # "idle", NEW at \in {"check", "model", "planned", "failing"},
               at \in {"context", "check"} => planner[p].attempt < ModelAttempts, planner' = [planner EXCEPT ![p].at = at]
        PROVE  planner' \in [Planners -> PlannerRow] /\ UnderWay'
    BY <2>2, PlannerGoesOn DEF Steps
  <2>3. CASE repository_context(p)
    <3>1. planner[p].attempt < ModelAttempts
      BY <2>3, PlannerRows DEF repository_context
    <3> QED BY <2>2, <2>3, <3>1, Zenon DEF repository_context
  <2>4. CASE model_plans(p)
    BY <2>2, <2>4 DEF model_plans
  <2>5. CASE model_fails(p) \/ persist_fails(p)
    BY <2>2, <2>5 DEF model_fails, persist_fails, Raised
  <2>6. CASE next_attempt(p) /\ is_current_owner(p)
    <3> DEFINE row == [planner[p] EXCEPT !.at = "model", !.attempt = planner[p].attempt + 1]
    <3>1. planner[p] \in PlannerRow /\ planner[p].run \in Runs /\ planner[p].fence \in 1..MaxClaims
          /\ planner[p].attempt < ModelAttempts
      BY <2>6, PlannerRows DEF next_attempt
    <3>2. planner[p].attempt + 1 \in 0..ModelAttempts
      BY <3>1 DEF PlannerRow, ModelAttempts
    <3>3. row \in PlannerRow /\ row.at = "model" /\ row.run = planner[p].run /\ row.fence = planner[p].fence
      BY <3>1, <3>2, Zenon DEF PlannerRow, Steps
    <3>4. planner' = [planner EXCEPT ![p] = row]
      BY <2>6 DEF next_attempt
    <3> HIDE DEF row
    <3> QED BY <3>1, <3>3, <3>4, PlannerMoves
  <2>7. CASE (next_attempt(p) /\ ~is_current_owner(p)) \/ ownership_lost(p) \/ crash(p)
    BY <2>1, <2>7 DEF next_attempt, ownership_lost, crash
  <2> QED BY <2>3, <2>4, <2>5, <2>6, <2>7
<1> QED BY <1>1, <1>2, RowsRest, Together DEF PlanningInv, TypeOK

LEMMA PersistStep ==
  ASSUME PlanningInv, NEW p \in Planners, persist_plan(p)
  PROVE  PlanningInv'
<1> DEFINE r == planner[p].run
<1>0. planner' \in [Planners -> PlannerRow] /\ UnderWay' /\ ownerStale' \in [Runs -> BOOLEAN] /\ faults' \in 0..MaxFaults
  BY PlannerRests DEF persist_plan, PlanningInv, TypeOK
<1>1. CASE ~Fenced(p)
  BY <1>0, <1>1, RowsRest, Together DEF persist_plan
<1>2. CASE Fenced(p)
  <2> DEFINE runRow == [run[r] EXCEPT !.state = "EXECUTING", !.stale = FALSE]
             stageRow == [stage[r] EXCEPT !.status = "COMPLETED"]
  <2>1. r \in Runs /\ planner[p].fence \in 1..MaxClaims
    BY PlannerRows DEF persist_plan
  <2>2. run[r].state = "PLANNING" /\ stage[r].fence = planner[p].fence
    BY <1>2 DEF Fenced, is_current_owner
  <2>3. plans[r] = {} /\ run[r] \in RunRow /\ stage[r] \in RunStageAttemptRow
    BY <2>1, <2>2, Rows DEF Agree
  <2>4. runRow \in RunRow /\ runRow.state = "EXECUTING"
    <3>1. "EXECUTING" \in RunStatus
      BY DEF RunStatus
    <3> QED BY <2>3, <3>1, EnteredRow, Zenon
  <2>5. stageRow \in RunStageAttemptRow /\ stageRow.status = "COMPLETED" /\ stageRow.fence = planner[p].fence
    BY <2>2, <2>3, StageRows, Zenon
  <2>6. /\ run' = [run EXCEPT ![r] = runRow] /\ stage' = [stage EXCEPT ![r] = stageRow]
        /\ plans' = [plans EXCEPT ![r] = {planner[p].fence}]
    BY <1>2, <2>1, <2>3, Zenon DEF persist_plan, Enter, PlanningInv, TypeOK
  <2> HIDE DEF r, runRow, stageRow
  <2>7. {planner[p].fence} \in SUBSET (1..MaxClaims)
    BY <2>1
  <2> QED BY <1>0, <2>1, <2>4, <2>5, <2>6, <2>7, RunMoves, Together
<1> QED BY <1>1, <1>2

LEMMA FailStep ==
  ASSUME PlanningInv, NEW p \in Planners, fail_run(p)
  PROVE  PlanningInv'
<1> DEFINE r == planner[p].run
<1>0. planner' \in [Planners -> PlannerRow] /\ UnderWay' /\ ownerStale' \in [Runs -> BOOLEAN] /\ faults' \in 0..MaxFaults
  BY PlannerRests, Zenon DEF fail_run, PlanningInv, TypeOK
<1>1. CASE ~Fenced(p)
  BY <1>0, <1>1, RowsRest, Together DEF fail_run
<1>2. CASE Fenced(p)
  <2> DEFINE runRow == [run[r] EXCEPT !.state = "FAILED", !.stale = FALSE]
             stageRow == [stage[r] EXCEPT !.status = "FAILED"]
  <2>1. r \in Runs
    BY PlannerRows DEF fail_run
  <2>2. run[r].state = "PLANNING"
    BY <1>2 DEF Fenced, is_current_owner
  <2>3. plans[r] = {} /\ run[r] \in RunRow /\ stage[r] \in RunStageAttemptRow
    BY <2>1, <2>2, Rows DEF Agree
  <2>4. runRow \in RunRow /\ runRow.state = "FAILED"
    <3>1. "FAILED" \in RunStatus
      BY DEF RunStatus
    <3> QED BY <2>3, <3>1, EnteredRow, Zenon
  <2>5. stageRow \in RunStageAttemptRow /\ stageRow.status = "FAILED"
    BY <2>3, StageRows, Zenon
  <2>6. run' = [run EXCEPT ![r] = runRow] /\ stage' = [stage EXCEPT ![r] = stageRow] /\ plans' = [plans EXCEPT ![r] = {}]
    <3>1. run' = [run EXCEPT ![r] = runRow] /\ stage' = [stage EXCEPT ![r] = stageRow] /\ plans' = plans
      BY <1>2, <2>1 DEF fail_run, Enter, PlanningInv, TypeOK
    <3> HIDE DEF r, runRow, stageRow
    <3>2. plans = [plans EXCEPT ![r] = {}]
      BY <2>1, <2>3, Rows
    <3> QED BY <3>1, <3>2
  <2> HIDE DEF r, runRow, stageRow
  <2> QED BY <1>0, <2>1, <2>4, <2>5, <2>6, RunMoves, Together
<1> QED BY <1>1, <1>2

LEMMA InvStep == PlanningInv /\ [Next]_vars => PlanningInv'
<1> SUFFICES ASSUME PlanningInv, [Next]_vars PROVE PlanningInv'
  OBVIOUS
<1>1. CASE UNCHANGED vars
  BY <1>1 DEF vars, PlanningInv, TypeOK, UnderWay, Agree
<1> QED BY <1>1, OperatorStep, ClaimStep, QuietStep, PersistStep, FailStep DEF Next, PlanStep

\* By induction on PlanningInv: types, the loop's bound, and the agreement of run,
\* stage row and plans that RunPlanningService keeps under the run's row lock.
THEOREM PlanningHolds == Spec => []PlanningInv
BY InitInv, InvStep, PTL DEF Spec

\* However dispatchers claim, take over and die, _persist_plan writes one plan of a
\* run, under the last fence, and exactly when the run starts to execute.
THEOREM PlannedOnce == Spec => []OnePlanPerRun
<1>1. PlanningInv => OnePlanPerRun
  BY DEF PlanningInv, OnePlanPerRun, Agree
<1> QED BY <1>1, PlanningHolds, PTL

\* Only the dispatcher of the last claim settles a run, and a settled run stays as
\* it is: the fence of _persist_plan and _fail_run.
THEOREM OwnerSettles == Spec => OnlyTheOwnerSettles
<1> DEFINE Settles(r) ==
      /\ run[r].state = "PLANNING" /\ run'[r].state \in {"EXECUTING", "FAILED"} =>
           \E p \in Planners : Owns(p, r) /\ planner'[p] = Resting
      /\ run[r].state \in TerminalRun => run'[r].state = run[r].state /\ plans'[r] = plans[r]
<1>1. ASSUME PlanningInv, Next, NEW r \in Runs
      PROVE  Settles(r)
  <2>0. /\ run \in [Runs -> RunRow] /\ plans \in [Runs -> SUBSET (1..MaxClaims)]
        /\ planner \in [Planners -> PlannerRow]
    BY <1>1 DEF PlanningInv, TypeOK, PlannerRow, Steps
  <2>1. CASE UNCHANGED <<run, plans>>
    BY <2>1 DEF TerminalRun
  <2>2. CASE \E q \in Runs : create_run(q) \/ cancel_run(q) \/ goes_stale(q)
    <3>1. PICK q \in Runs : create_run(q) \/ cancel_run(q) \/ goes_stale(q)
      BY <2>2
    <3>2. plans' = plans
      BY <3>1 DEF create_run, cancel_run, goes_stale
    <3>3. CASE q # r
      <4>1. run'[r] = run[r]
        BY <2>0, <3>1, <3>3 DEF create_run, Enter, cancel_run, goes_stale
      <4> QED BY <3>2, <4>1
    <3>4. CASE q = r
      <4>1. run[r] \in RunRow
        BY <2>0
      <4>2. CASE create_run(r)
        BY <2>0, <3>2, <4>2 DEF create_run, Enter, RunRow, TerminalRun
      <4>3. CASE cancel_run(r)
        BY <2>0, <3>2, <4>3 DEF cancel_run, RunRow, TerminalRun
      <4>4. CASE goes_stale(r)
        BY <2>0, <3>2, <4>4 DEF goes_stale, RunRow, TerminalRun
      <4> QED BY <3>1, <3>4, <4>2, <4>3, <4>4
    <3> QED BY <3>3, <3>4
  <2>3. ASSUME NEW p \in Planners, NEW q \in Runs, claim_run(p, q)
        PROVE  Settles(r)
    <3>1. plans' = plans
      BY <2>3 DEF claim_run
    <3>2. run'[r].state = run[r].state \/ (run[r].state = "PENDING" /\ run'[r].state = "PLANNING")
      BY <2>0, <2>3 DEF claim_run, RunRow
    <3> QED BY <3>1, <3>2 DEF TerminalRun
  <2>4. ASSUME NEW p \in Planners, persist_plan(p) \/ fail_run(p), Fenced(p)
        PROVE  Settles(r)
    <3> DEFINE q == planner[p].run
    <3>1. q \in Runs
      BY <1>1, <2>4, PlannerRows DEF persist_plan, fail_run
    <3>2. run[q].state = "PLANNING" /\ Owns(p, q)
      BY <2>4 DEF Fenced, is_current_owner, Owns
    <3>3. planner'[p] = Resting
      BY <2>0, <2>4 DEF persist_plan, fail_run
    <3>4. q # r => run'[r] = run[r] /\ plans'[r] = plans[r]
      BY <2>0, <2>4, <3>1 DEF persist_plan, fail_run, Enter
    <3> HIDE DEF q
    <3> QED BY <3>2, <3>3, <3>4 DEF TerminalRun
  <2>5. ASSUME NEW p \in Planners, persist_plan(p) \/ fail_run(p), ~Fenced(p)
        PROVE  UNCHANGED <<run, plans>>
    BY <2>5 DEF persist_plan, fail_run
  <2>6. ASSUME NEW p \in Planners,
               \/ repository_context(p) \/ next_attempt(p) \/ model_plans(p) \/ model_fails(p)
               \/ ownership_lost(p) \/ persist_fails(p) \/ crash(p)
        PROVE  UNCHANGED <<run, plans>>
    BY <2>6 DEF repository_context, next_attempt, model_plans, model_fails, ownership_lost,
      persist_fails, crash
  <2> QED BY <1>1, <2>1, <2>2, <2>3, <2>4, <2>5, <2>6 DEF Next, PlanStep
<1>2. PlanningInv /\ [Next]_vars => [\A r \in Runs : Settles(r)]_vars
  BY <1>1
<1>3. OnlyTheOwnerSettles <=> [][\A r \in Runs : Settles(r)]_vars
  BY DEF OnlyTheOwnerSettles
<1> HIDE DEF Settles
<1> QED BY <1>2, <1>3, PlanningHolds, PTL DEF Spec

-----------------------------------------------------------------------------
(* A stage of a task.                                                      *)

\* Requests that used up no turn: the failures of the models so far.
Tries == (agent.model - 1) * 4 + agent.transient

LocalTypes ==
  /\ agent \in S!Locals /\ agent.turn \in 1..TurnBudget + 1
  /\ agent.model \in 1..Models /\ agent.transient \in 0..3

TokensBounded(tokens) == \E input \in Inputs : tokens < TokenBudget + input + MIN_OUTPUT_TOKENS

SpendingInv ==
  /\ LocalTypes /\ S!SpendingIsBounded
  /\ agent.at \in {"recall", "request"} => agent.requests <= agent.turn - 1 + Tries
  /\ agent.at = "calls" => agent.turn <= TurnBudget /\ agent.requests <= agent.turn + Tries

\* What one request does to the totals.
Charges(a) ==
  /\ a \in S!Locals /\ TokensBounded(a.tokens) /\ a.requests = agent.requests + 1
  /\ a.at = agent.at /\ a.turn = agent.turn /\ a.model = agent.model /\ a.transient = agent.transient
  /\ a.schema = agent.schema /\ a.tokens >= agent.tokens

LEMMA SpentCharges ==
  ASSUME Budgets, LocalTypes, NEW tokens \in Nat, NEW price \in Nat, TokensBounded(agent.tokens + tokens)
  PROVE  Charges(S!Spent(tokens, price))
<1> DEFINE a == S!Spent(tokens, price)
<1>1. agent \in S!Locals /\ agent.tokens \in Nat /\ agent.requests \in Nat /\ agent.cost \in Nat
  BY DEF LocalTypes, S!Locals
<1>2. /\ a.requests = agent.requests + 1 /\ a.tokens = agent.tokens + tokens /\ a.cost = agent.cost + price
      /\ a.at = agent.at /\ a.turn = agent.turn /\ a.model = agent.model /\ a.transient = agent.transient
      /\ a.schema = agent.schema
  BY <1>1 DEF S!Locals, S!Spent
<1>3. a \in S!Locals
  <2>1. agent.requests + 1 \in Nat /\ agent.tokens + tokens \in Nat /\ agent.cost + price \in Nat
    BY <1>1
  <2>2. ASSUME NEW r \in Nat, NEW k \in Nat, NEW c \in Nat
        PROVE  [agent EXCEPT !.requests = r, !.tokens = k, !.cost = c] \in S!Locals
    BY <1>1 DEF S!Locals
  <2> QED BY <2>1, <2>2, Zenon DEF S!Spent
<1> HIDE DEF a
<1>4. Charges(a)
  BY <1>1, <1>2, <1>3 DEF Charges
<1> QED BY <1>4 DEF a

LEMMA OutputIsCapped ==
  ASSUME Budgets, agent.tokens \in Nat, S!remaining_tokens > 0, NEW n \in Nat, n <= S!max_output_tokens
  PROVE  agent.tokens + n < TokenBudget + MIN_OUTPUT_TOKENS
<1> DEFINE share == S!remaining_tokens \div 4
<1>1. share \in Int /\ agent.tokens + share < TokenBudget
  BY DEF Budgets, S!remaining_tokens
<1>2. n <= MIN_OUTPUT_TOKENS \/ n <= share
  BY <1>1 DEF Budgets, S!max_output_tokens
<1> HIDE DEF share
<1> QED BY <1>1, <1>2 DEF Budgets, S!remaining_tokens

LEMMA ChargedCharges ==
  ASSUME Budgets, LocalTypes, S!remaining_tokens > 0, NEW a \in S!Charged
  PROVE  Charges(a)
<1>1. PICK input \in Inputs, output \in Outputs, price \in Prices :
        output <= S!max_output_tokens /\ a = S!Spent(input + output, price)
  BY DEF S!Charged
<1>2. agent.tokens \in Nat /\ input \in Nat /\ output \in Nat /\ price \in Nat
  BY DEF Budgets, LocalTypes, S!Locals
<1>3. agent.tokens + output < TokenBudget + MIN_OUTPUT_TOKENS
  BY <1>1, <1>2, OutputIsCapped
<1>4. TokensBounded(agent.tokens + (input + output))
  BY <1>2, <1>3 DEF TokensBounded, Budgets
<1> QED BY <1>1, <1>2, <1>4, SpentCharges

\* What becomes of the locals a.
Goes(a, at, turn, model, transient) ==
  /\ agent' \in S!Locals /\ agent'.requests = a.requests /\ agent'.tokens = a.tokens /\ agent'.cost = a.cost
  /\ agent'.at = at /\ agent'.turn = turn /\ agent'.model = model /\ agent'.transient = transient

LEMMA LocalsUpdate ==
  ASSUME NEW a \in S!Locals
  PROVE  /\ \A at \in {"request", "accepted", "failed"} :
              agent' = [a EXCEPT !.at = at] => Goes(a, at, a.turn, a.model, a.transient)
         /\ agent' = [a EXCEPT !.at = "calls", !.schema = 0, !.repair = "none"] =>
              Goes(a, "calls", a.turn, a.model, a.transient)
         /\ \A repair \in {"none", "apply_patch", "run_tests", "other"} :
              agent' = [a EXCEPT !.schema = @ + 1, !.turn = @ + 1, !.repair = repair] =>
                Goes(a, a.at, a.turn + 1, a.model, a.transient)
         /\ agent' = [a EXCEPT !.transient = @ + 1] => Goes(a, a.at, a.turn, a.model, a.transient + 1)
         /\ agent' = [a EXCEPT !.model = @ + 1, !.transient = 0] => Goes(a, a.at, a.turn, a.model + 1, 0)
         /\ agent' = [a EXCEPT !.at = "request", !.turn = @ + 1] =>
              Goes(a, "request", a.turn + 1, a.model, a.transient)
<1>1. ASSUME NEW at \in {"request", "accepted", "failed"}, agent' = [a EXCEPT !.at = at]
      PROVE  Goes(a, at, a.turn, a.model, a.transient)
  BY <1>1 DEF S!Locals, Goes
<1>2. ASSUME agent' = [a EXCEPT !.at = "calls", !.schema = 0, !.repair = "none"]
      PROVE  Goes(a, "calls", a.turn, a.model, a.transient)
  BY <1>2 DEF S!Locals, Goes
<1>3. ASSUME NEW repair \in {"none", "apply_patch", "run_tests", "other"},
             agent' = [a EXCEPT !.schema = @ + 1, !.turn = @ + 1, !.repair = repair]
      PROVE  Goes(a, a.at, a.turn + 1, a.model, a.transient)
  <2>1. ASSUME NEW k \in Nat, NEW n \in Nat, agent' = [a EXCEPT !.schema = k, !.turn = n, !.repair = repair]
        PROVE  Goes(a, a.at, n, a.model, a.transient)
    BY <2>1 DEF S!Locals, Goes
  <2>2. a.schema + 1 \in Nat /\ a.turn + 1 \in Nat
    BY DEF S!Locals
  <2> QED BY <1>3, <2>1, <2>2, Zenon
<1>4. ASSUME agent' = [a EXCEPT !.transient = @ + 1] PROVE Goes(a, a.at, a.turn, a.model, a.transient + 1)
  <2>1. ASSUME NEW k \in Nat, agent' = [a EXCEPT !.transient = k] PROVE Goes(a, a.at, a.turn, a.model, k)
    BY <2>1 DEF S!Locals, Goes
  <2>2. a.transient + 1 \in Nat
    BY DEF S!Locals
  <2> QED BY <1>4, <2>1, <2>2
<1>5. ASSUME agent' = [a EXCEPT !.model = @ + 1, !.transient = 0] PROVE Goes(a, a.at, a.turn, a.model + 1, 0)
  <2>1. ASSUME NEW k \in Nat, agent' = [a EXCEPT !.model = k, !.transient = 0]
        PROVE  Goes(a, a.at, a.turn, k, 0)
    BY <2>1 DEF S!Locals, Goes
  <2>2. a.model + 1 \in Nat
    BY DEF S!Locals
  <2> QED BY <1>5, <2>1, <2>2, Zenon
<1>6. ASSUME agent' = [a EXCEPT !.at = "request", !.turn = @ + 1]
      PROVE  Goes(a, "request", a.turn + 1, a.model, a.transient)
  <2>1. ASSUME NEW n \in Nat, agent' = [a EXCEPT !.at = "request", !.turn = n]
        PROVE  Goes(a, "request", n, a.model, a.transient)
    BY <2>1 DEF S!Locals, Goes
  <2>2. a.turn + 1 \in Nat
    BY DEF S!Locals
  <2> QED BY <1>6, <2>1, <2>2, Zenon
<1> QED BY <1>1, <1>2, <1>3, <1>4, <1>5, <1>6

\* A request: the locals are charged, then the answer or the failure decides.
Requests(a) ==
  /\ S!Requesting /\ Charges(a) /\ recorded' = [rows |-> a.requests, tokens |-> a.tokens]
  /\ \/ Goes(a, "request", a.turn, a.model, a.transient + 1) /\ a.transient < 3
     \/ Goes(a, "request", a.turn, a.model + 1, 0) /\ a.model < Models
     \/ Goes(a, "calls", a.turn, a.model, a.transient)
     \/ Goes(a, "request", a.turn + 1, a.model, a.transient)
     \/ Goes(a, "accepted", a.turn, a.model, a.transient) /\ S!within_budget(a)
     \/ Goes(a, "failed", a.turn, a.model, a.transient)

LEMMA Recorded ==
  ASSUME LocalTypes, S!SpendingIsBounded, NEW tokens \in Nat, S!record(tokens)
  PROVE  recorded' = [rows |-> agent.requests + 1, tokens |-> agent.tokens + tokens]
BY DEF LocalTypes, S!Locals, S!SpendingIsBounded, S!record

LEMMA RepairIsOne ==
  ASSUME NEW error
  PROVE  S!repair_instructions(error) \in {"none", "apply_patch", "run_tests", "other"}
BY DEF S!repair_instructions

LEMMA Requested ==
  ASSUME Budgets, LocalTypes, S!SpendingIsBounded,
         \/ S!complete_exceeds \/ S!complete_calls \/ S!complete_answers
         \/ \E class : S!complete_fails(class)
  PROVE  \E a : Requests(a)
<1>0. agent \in S!Locals /\ agent.tokens \in Nat /\ agent.requests \in Nat
  BY DEF LocalTypes, S!Locals
<1>1. ASSUME S!Requesting, NEW a \in S!Charged, S!record(a.tokens - agent.tokens)
      PROVE  Charges(a) /\ a \in S!Locals /\ recorded' = [rows |-> a.requests, tokens |-> a.tokens]
  <2>1. Charges(a)
    BY <1>1, ChargedCharges DEF S!Requesting
  <2>2. a \in S!Locals /\ a.tokens \in Nat /\ a.tokens >= agent.tokens /\ a.requests = agent.requests + 1
    BY <2>1 DEF Charges, S!Locals
  <2>3. a.tokens - agent.tokens \in Nat /\ agent.tokens + (a.tokens - agent.tokens) = a.tokens
    BY <1>0, <2>2
  <2> QED BY <1>1, <2>1, <2>2, <2>3, Recorded
<1>2. CASE S!complete_exceeds
  <2>1. PICK a \in S!Charged : S!record(a.tokens - agent.tokens) /\ agent' = [a EXCEPT !.at = "failed"]
    BY <1>2 DEF S!complete_exceeds
  <2>2. S!Requesting
    BY <1>2 DEF S!complete_exceeds
  <2> QED BY <1>1, <2>1, <2>2, LocalsUpdate, Zenon DEF Requests
<1>3. CASE S!complete_calls
  <2>1. PICK a \in S!Charged : /\ S!record(a.tokens - agent.tokens)
                               /\ agent' = [a EXCEPT !.at = "calls", !.schema = 0, !.repair = "none"]
    BY <1>3, Zenon DEF S!complete_calls
  <2>2. S!Requesting
    BY <1>3, Zenon DEF S!complete_calls
  <2> QED BY <1>1, <2>1, <2>2, LocalsUpdate, Zenon DEF Requests
<1>4. CASE S!complete_answers
  <2>1. PICK a \in S!Charged, error \in {S!missing_evidence, "other"} :
          /\ S!record(a.tokens - agent.tokens) /\ S!within_budget(a)
          /\ \/ agent' = [a EXCEPT !.at = "accepted"] \/ agent' = [a EXCEPT !.at = "failed"]
             \/ agent' = [a EXCEPT !.schema = @ + 1, !.turn = @ + 1, !.repair = S!repair_instructions(error)]
    BY <1>4, Zenon DEF S!complete_answers
  <2>2. S!Requesting
    BY <1>4, Zenon DEF S!complete_answers
  <2>3. Charges(a) /\ a \in S!Locals /\ recorded' = [rows |-> a.requests, tokens |-> a.tokens]
    BY <1>1, <2>1, <2>2
  <2>4. a.at = "request"
    BY <2>2, <2>3 DEF Charges, S!Requesting
  <2>5. \/ Goes(a, "accepted", a.turn, a.model, a.transient) \/ Goes(a, "failed", a.turn, a.model, a.transient)
        \/ Goes(a, "request", a.turn + 1, a.model, a.transient)
    BY <2>1, <2>3, <2>4, LocalsUpdate, RepairIsOne, Zenon
  <2> QED BY <2>1, <2>2, <2>3, <2>5 DEF Requests
<1>5. ASSUME NEW class, S!complete_fails(class) PROVE \E a : Requests(a)
  <2>1. PICK input \in Inputs, price \in Prices :
          /\ S!record(S!failed_call_usage(class, input))
          /\ agent' = S!after_failure(S!Spent(S!failed_call_usage(class, input),
                                              S!failed_call_usage(class, price)), class)
    BY <1>5 DEF S!complete_fails
  <2> DEFINE n == S!failed_call_usage(class, input)
             a == S!Spent(n, S!failed_call_usage(class, price))
  <2>2. n \in {0, input} /\ S!failed_call_usage(class, price) \in {0, price} /\ input \in Nat /\ price \in Nat
    BY DEF S!failed_call_usage, Budgets
  <2>3. S!Requesting /\ agent.tokens < TokenBudget
    BY <1>0, <1>5 DEF S!complete_fails, S!Requesting, S!remaining_tokens, Budgets
  <2>4. TokensBounded(agent.tokens + n)
    BY <1>0, <2>2, <2>3 DEF TokensBounded, Budgets
  <2>5. Charges(a)
    BY <2>2, <2>4, SpentCharges
  <2>6. a.tokens = agent.tokens + n /\ a.requests = agent.requests + 1
    BY <1>0 DEF S!Spent, S!Locals
  <2>7. recorded' = [rows |-> a.requests, tokens |-> a.tokens]
    BY <2>1, <2>2, <2>6, Recorded
  <2>8. agent' = S!after_failure(a, class)
    BY <2>1
  <2> HIDE DEF a, n
  <2>9. a \in S!Locals /\ a.at = "request"
    BY <2>3, <2>5 DEF Charges, S!Requesting
  <2>10. \/ Goes(a, "request", a.turn, a.model, a.transient + 1) /\ a.transient < 3
         \/ Goes(a, "request", a.turn, a.model + 1, 0) /\ a.model < Models
         \/ Goes(a, "failed", a.turn, a.model, a.transient)
    BY <2>8, <2>9, LocalsUpdate, Zenon DEF S!after_failure, S!MAX_SAME_MODEL_RETRIES
  <2> QED BY <2>3, <2>5, <2>7, <2>10 DEF Requests
<1> QED BY <1>2, <1>3, <1>4, <1>5

\* A step without a request: nothing is charged.
Proceeds ==
  /\ recorded' = recorded
  /\ \/ agent' = agent
     \/ agent.at = "recall" /\ Goes(agent, "request", agent.turn, agent.model, agent.transient)
     \/ agent.at = "calls" /\ Goes(agent, "request", agent.turn + 1, agent.model, agent.transient)
     \/ /\ agent.at \in {"recall", "request", "calls"}
        /\ Goes(agent, "failed", agent.turn, agent.model, agent.transient)

LEMMA Proceeded ==
  ASSUME LocalTypes,
         \/ S!get_context \/ S!budget_exhausted \/ S!raises
         \/ S!refuse \/ S!dispatch_patch \/ S!dispatch_tests
         \/ \E tool \in S!Reads : S!dispatch_read(tool)
  PROVE  Proceeds
<1>0. agent \in S!Locals
  BY DEF LocalTypes
<1>1. CASE S!get_context \/ S!budget_exhausted \/ S!raises
  BY <1>0, <1>1, LocalsUpdate, Zenon DEF S!get_context, S!budget_exhausted, S!raises, Proceeds
<1>2. ASSUME agent.at = "calls", recorded' = recorded, NEW ok, S!Answered(ok) PROVE Proceeds
  BY <1>0, <1>2, LocalsUpdate, Zenon DEF S!Answered, Proceeds
<1>3. CASE S!refuse
  BY <1>2, <1>3, Zenon DEF S!refuse
<1>4. CASE S!dispatch_patch
  BY <1>2, <1>4 DEF S!dispatch_patch, S!Dispatching
<1>5. CASE S!dispatch_tests
  BY <1>2, <1>5 DEF S!dispatch_tests, S!Dispatching
<1>6. ASSUME NEW tool \in S!Reads, S!dispatch_read(tool) PROVE Proceeds
  BY <1>2, <1>6 DEF S!dispatch_read, S!Dispatching
<1> QED BY <1>1, <1>3, <1>4, <1>5, <1>6

LEMMA SpendingInit == Budgets /\ S!Init => SpendingInv
<1> SUFFICES ASSUME Budgets, S!Init PROVE SpendingInv
  OBVIOUS
<1>1. agent \in S!Locals /\ agent = S!Start /\ recorded = [rows |-> 0, tokens |-> 0]
  BY DEF S!Init, S!Start, S!Locals
<1>2. /\ agent.at = "recall" /\ agent.turn = 1 /\ agent.model = 1 /\ agent.transient = 0
      /\ agent.requests = 0 /\ agent.tokens = 0
  BY <1>1 DEF S!Start
<1>3. \E input \in Inputs : 0 < TokenBudget + input + MIN_OUTPUT_TOKENS
  <2>1. PICK input : input \in Inputs
    BY DEF Budgets
  <2>2. 0 < TokenBudget + input + MIN_OUTPUT_TOKENS
    BY <2>1 DEF Budgets
  <2> QED BY <2>1, <2>2
<1>4. /\ 1 \in 1..TurnBudget + 1 /\ 1 \in 1..Models /\ 0 <= TurnBudget + Models * (3 + 1)
      /\ 0 <= 1 - 1 + ((1 - 1) * 4 + 0)
  BY DEF Budgets
<1> QED BY <1>1, <1>2, <1>3, <1>4
        DEF SpendingInv, LocalTypes, S!SpendingIsBounded, Tries, S!MAX_SAME_MODEL_RETRIES

LEMMA SpendingStep ==
  ASSUME Budgets, SpendingInv, [S!Next]_S!vars
  PROVE  SpendingInv'
<1>0. /\ agent.turn \in 1..TurnBudget + 1 /\ agent.model \in 1..Models /\ agent.transient \in 0..3
      /\ agent.requests \in Nat /\ agent.tokens \in Nat
      /\ recorded = [rows |-> agent.requests, tokens |-> agent.tokens] /\ TokensBounded(agent.tokens)
      /\ agent.requests <= TurnBudget + Models * 4
      /\ TurnBudget \in Nat /\ Models \in Nat
  BY DEF SpendingInv, LocalTypes, S!Locals, S!SpendingIsBounded, TokensBounded, Budgets,
    S!MAX_SAME_MODEL_RETRIES
<1>1. ASSUME NEW a, Requests(a) PROVE SpendingInv'
  <2>1. /\ a.turn = agent.turn /\ a.model = agent.model /\ a.transient = agent.transient
        /\ a.requests = agent.requests + 1 /\ TokensBounded(a.tokens)
        /\ agent.at = "request" /\ agent.turn <= TurnBudget
    BY <1>1 DEF Requests, Charges, S!Requesting
  <2>2. /\ agent' \in S!Locals /\ agent'.requests = a.requests /\ agent'.tokens = a.tokens
        /\ recorded' = [rows |-> a.requests, tokens |-> a.tokens]
        /\ agent'.at \in {"request", "calls", "accepted", "failed"}
        /\ agent'.at = "accepted" => a.tokens <= TokenBudget /\ a.cost <= CostBudget /\ agent'.cost = a.cost
    BY <1>1 DEF Requests, Goes, S!within_budget
  <2>3. /\ agent'.turn \in 1..TurnBudget + 1 /\ agent'.model \in 1..Models /\ agent'.transient \in 0..3
        /\ agent'.at = "request" => agent'.requests <= agent'.turn - 1 + (agent'.model - 1) * 4 + agent'.transient
        /\ agent'.at = "calls" => /\ agent'.turn <= TurnBudget
                                 /\ agent'.requests <= agent'.turn + (agent'.model - 1) * 4 + agent'.transient
        /\ agent'.requests <= TurnBudget + Models * 4
    <3>1. agent.requests <= agent.turn - 1 + (agent.model - 1) * 4 + agent.transient
      BY <1>0, <2>1 DEF SpendingInv, Tries
    <3> QED BY <1>0, <1>1, <2>1, <3>1 DEF Requests, Goes
  <2>4. S!SpendingIsBounded'
    BY <2>1, <2>2, <2>3 DEF S!SpendingIsBounded, S!MAX_SAME_MODEL_RETRIES, TokensBounded
  <2> QED BY <1>0, <2>2, <2>3, <2>4 DEF SpendingInv, LocalTypes, Tries
<1>2. CASE Proceeds
  <2>1. CASE agent' = agent
    BY <1>2, <2>1 DEF Proceeds, SpendingInv, LocalTypes, S!SpendingIsBounded, Tries
  <2>2. CASE agent' # agent
    <3>1. /\ agent' \in S!Locals /\ agent'.requests = agent.requests /\ agent'.tokens = agent.tokens
          /\ agent'.at \in {"request", "failed"}
          /\ agent'.model = agent.model /\ agent'.transient = agent.transient
      BY <1>2, <2>2 DEF Proceeds, Goes
    <3>2. /\ agent'.turn \in 1..TurnBudget + 1
          /\ agent'.at = "request" => agent'.requests <= agent'.turn - 1 + (agent'.model - 1) * 4 + agent'.transient
      BY <1>0, <1>2, <2>2 DEF Proceeds, Goes, SpendingInv, Tries
    <3>3. S!SpendingIsBounded'
      BY <1>0, <1>2, <3>1 DEF Proceeds, S!SpendingIsBounded, S!MAX_SAME_MODEL_RETRIES, TokensBounded
    <3> QED BY <1>0, <3>1, <3>2, <3>3 DEF SpendingInv, LocalTypes, Tries
  <2> QED BY <2>1, <2>2
<1>3. CASE UNCHANGED S!vars
  BY <1>3 DEF S!vars, SpendingInv, LocalTypes, S!SpendingIsBounded, Tries
<1>4. LocalTypes /\ S!SpendingIsBounded
  BY DEF SpendingInv
<1> QED BY <1>1, <1>2, <1>3, <1>4, Requested, Proceeded, Zenon DEF S!Next, S!Step

\* AgentRuntime._run stays within its turns, tokens and cost through retries, fallbacks
\* and repairs, for any budgets, models, prompts and prices.
THEOREM StagesSpendWithinBudget == S!Spec => []SpendingIsBounded
<1>1. S!Init => SpendingInv
  BY StagesAssumption, SpendingInit
<1>2. SpendingInv /\ [S!Next]_S!vars => SpendingInv'
  BY StagesAssumption, SpendingStep
<1>3. SpendingInv => SpendingIsBounded
  BY DEF SpendingInv, SpendingIsBounded
<1> QED BY <1>1, <1>2, <1>3, PTL DEF S!Spec

-----------------------------------------------------------------------------
(* The evidence of a stage.                                                *)

CallTypes ==
  /\ pending \in Seq(CalledTools) /\ (agent.at = "calls" => pending # <<>>)
  /\ calls \in Seq([name: CalledTools, ok: BOOLEAN]) /\ results \in Seq(S!ToolCallResult) /\ code \in Nat

\* A result and the call it answers are appended.
Logs(r) ==
  /\ results' \in Seq(S!ToolCallResult) /\ Len(results') = Len(results) + 1 /\ results'[Len(results) + 1] = r
  /\ \A i \in 1..Len(results) : results'[i] = results[i]
Notes(c) ==
  /\ calls' \in Seq([name: CalledTools, ok: BOOLEAN]) /\ Len(calls') = Len(calls) + 1
  /\ calls'[Len(calls) + 1] = c
  /\ \A i \in 1..Len(calls) : calls'[i] = calls[i]

\* What a dispatched tool leaves: the code it is about is the code there is, but for
\* a test that was answered from the results.
Dispatches(r, c) ==
  /\ r \in S!ToolCallResult /\ Logs(r) /\ Notes(c) /\ c.name = r.tool /\ (c.ok <=> r.ok)
  /\ r.tool \in S!Granted
  /\ r.tool = "apply_patch" => code' \in {code, code + 1} /\ r.version = code'
  /\ r.tool # "apply_patch" => code' = code
  /\ r.tool \in S!Reads => r.version = code
  /\ r.tool = "run_tests" => r.version = code \/ \E i \in S!cached_tests : r.version = results[i].version

LEMMA AnsweredNotes ==
  ASSUME CallTypes, agent.at = "calls", NEW ok \in BOOLEAN, S!Answered(ok)
  PROVE  /\ \E c \in [name: CalledTools, ok: BOOLEAN] : Notes(c) /\ c.name = Head(pending) /\ (c.ok <=> ok)
         /\ pending' \in Seq(CalledTools) /\ (agent'.at = "calls" => pending' # <<>>)
<1>1. pending # <<>> /\ Head(pending) \in CalledTools
  BY DEF CallTypes
<1> DEFINE c == [name |-> Head(pending), ok |-> ok]
<1>2. c \in [name: CalledTools, ok: BOOLEAN] /\ c.name = Head(pending) /\ (c.ok <=> ok)
  BY <1>1
<1>3. calls' = Append(calls, c)
  BY DEF S!Answered
<1> HIDE DEF c
<1>4. Notes(c)
  BY <1>2, <1>3 DEF CallTypes, Notes
<1>5. pending' \in Seq(CalledTools) /\ (Len(pending) # 1 => pending' # <<>>)
  <2>1. pending \in Seq(CalledTools) /\ pending' = Tail(pending)
    BY DEF CallTypes, S!Answered
  <2>2. pending' \in Seq(CalledTools) /\ Len(pending') = Len(pending) - 1
    BY <1>1, <2>1
  <2>3. Len(pending) # 1 => Len(pending') # 0
    BY <2>1, <2>2
  <2> QED BY <2>2, <2>3
<1>6. agent'.at = "calls" => Len(pending) # 1
  BY DEF S!Answered, LocalTypes, S!Locals
<1> QED BY <1>2, <1>4, <1>5, <1>6

LEMMA ResultLogs ==
  ASSUME CallTypes, NEW r \in S!ToolCallResult, results' = Append(results, r)
  PROVE  Logs(r)
BY DEF CallTypes, Logs

LEMMA ToolDispatches ==
  ASSUME CallTypes, S!dispatch_patch \/ S!dispatch_tests \/ \E tool \in S!Reads : S!dispatch_read(tool)
  PROVE  \E r, c : Dispatches(r, c)
<1>1. ASSUME NEW r \in S!ToolCallResult, results' = Append(results, r), S!Dispatching(r.tool),
             r.tool \in S!Granted, S!Answered(r.ok)
      PROVE  \E c : Logs(r) /\ Notes(c) /\ c.name = r.tool /\ (c.ok <=> r.ok)
  <2>1. agent.at = "calls" /\ Head(pending) = r.tool /\ r.ok \in BOOLEAN
    BY <1>1 DEF S!Dispatching, S!ToolCallResult
  <2> QED BY <1>1, <2>1, ResultLogs, AnsweredNotes
<1>2. ASSUME NEW tool \in S!Tools, NEW ok \in BOOLEAN, NEW version \in Nat
      PROVE  /\ S!Result(tool, ok, version) \in S!ToolCallResult
             /\ S!Result(tool, ok, version).tool = tool /\ S!Result(tool, ok, version).ok = ok
             /\ S!Result(tool, ok, version).version = version
  BY DEF S!Result, S!ToolCallResult, S!Claims
<1>3. code \in Nat /\ code + 1 \in Nat
  BY DEF CallTypes
<1>4. CASE S!dispatch_patch
  <2>1. PICK ok \in BOOLEAN : /\ S!Answered(ok) /\ code' \in {code, code + 1}
                              /\ results' = Append(results, S!Result("apply_patch", ok, code'))
    BY <1>4 DEF S!dispatch_patch
  <2> DEFINE r == S!Result("apply_patch", ok, code')
  <2>2. r \in S!ToolCallResult /\ r.tool = "apply_patch" /\ r.ok = ok /\ r.version = code'
    BY <1>2, <1>3, <2>1 DEF S!Tools
  <2>3. "apply_patch" \in S!Granted /\ S!Dispatching("apply_patch") /\ results' = Append(results, r)
    BY <1>4, <2>1 DEF S!dispatch_patch
  <2> HIDE DEF r
  <2>4. PICK c : Logs(r) /\ Notes(c) /\ c.name = r.tool /\ (c.ok <=> r.ok)
    BY <1>1, <2>1, <2>2, <2>3
  <2>5. r.tool \notin S!Reads /\ r.tool # "run_tests"
    BY <2>2 DEF S!Reads
  <2> QED BY <2>1, <2>2, <2>3, <2>4, <2>5 DEF Dispatches
<1>5. ASSUME NEW tool \in S!Reads, S!dispatch_read(tool) PROVE \E r, c : Dispatches(r, c)
  <2>1. PICK ok \in BOOLEAN : S!Answered(ok) /\ results' = Append(results, S!Result(tool, ok, code))
    BY <1>5 DEF S!dispatch_read
  <2> DEFINE r == S!Result(tool, ok, code)
  <2>2. r \in S!ToolCallResult /\ r.tool = tool /\ r.ok = ok /\ r.version = code
    BY <1>2, <1>3 DEF S!Tools, S!Reads
  <2>3. tool \in S!Granted /\ S!Dispatching(tool) /\ results' = Append(results, r) /\ code' = code
    BY <1>5, <2>1 DEF S!dispatch_read
  <2> HIDE DEF r
  <2>4. PICK c : Logs(r) /\ Notes(c) /\ c.name = r.tool /\ (c.ok <=> r.ok)
    BY <1>1, <2>1, <2>2, <2>3
  <2>5. r.tool # "apply_patch" /\ r.tool # "run_tests"
    BY <2>2 DEF S!Reads
  <2> QED BY <2>2, <2>3, <2>4, <2>5 DEF Dispatches
<1>6. CASE S!dispatch_tests
  <2>1. "run_tests" \in S!Granted /\ S!Dispatching("run_tests") /\ code' = code
    BY <1>6 DEF S!dispatch_tests
  <2>2. ASSUME NEW r \in S!ToolCallResult, r.tool = "run_tests", results' = Append(results, r), S!Answered(r.ok),
               r.version = code \/ \E i \in S!cached_tests : r.version = results[i].version
        PROVE  \E q, c : Dispatches(q, c)
    <3>1. PICK c : Logs(r) /\ Notes(c) /\ c.name = r.tool /\ (c.ok <=> r.ok)
      BY <1>1, <2>1, <2>2
    <3>2. r.tool \notin S!Reads /\ r.tool # "apply_patch"
      BY <2>2 DEF S!Reads
    <3>3. Dispatches(r, c)
      BY <2>1, <2>2, <3>1, <3>2 DEF Dispatches
    <3> QED BY <3>3
  <2>3. PICK asked \in S!Operations :
          \/ \E i \in S!cached_tests : results' = Append(results, [results[i] EXCEPT !.asked = asked]) /\ S!Answered(TRUE)
          \/ \E p \in {"passed", "failed"} : results' = Append(results, S!Tested(code, p, asked)) /\ S!Answered(TRUE)
          \/ results' = Append(results, S!Result("run_tests", FALSE, code)) /\ S!Answered(FALSE)
    BY <1>6, Zenon DEF S!dispatch_tests
  <2>4. ASSUME NEW i \in S!cached_tests, results' = Append(results, [results[i] EXCEPT !.asked = asked]),
               S!Answered(TRUE)
        PROVE  \E q, c : Dispatches(q, c)
    <3> DEFINE r == [results[i] EXCEPT !.asked = asked]
    <3>1. results[i] \in S!ToolCallResult /\ results[i].tool = "run_tests" /\ results[i].ok
      BY DEF CallTypes, S!cached_tests
    <3>2. r \in S!ToolCallResult /\ r.tool = "run_tests" /\ r.ok = TRUE /\ r.version = results[i].version
      BY <3>1 DEF S!ToolCallResult
    <3> HIDE DEF r
    <3>3. results' = Append(results, r)
      BY <2>4 DEF r
    <3> QED BY <2>2, <2>4, <3>2, <3>3
  <2>5. ASSUME NEW p \in {"passed", "failed"}, results' = Append(results, S!Tested(code, p, asked)), S!Answered(TRUE)
        PROVE  \E q, c : Dispatches(q, c)
    <3> DEFINE r == S!Tested(code, p, asked)
    <3>1. r \in S!ToolCallResult /\ r.tool = "run_tests" /\ r.ok = TRUE /\ r.version = code
      BY <1>3 DEF S!ToolCallResult, S!Tested, S!Tools, S!Claims
    <3> HIDE DEF r
    <3>2. results' = Append(results, r)
      BY <2>5 DEF r
    <3> QED BY <2>2, <2>5, <3>1, <3>2, Zenon
  <2>6. CASE results' = Append(results, S!Result("run_tests", FALSE, code)) /\ S!Answered(FALSE)
    <3> DEFINE r == S!Result("run_tests", FALSE, code)
    <3>1. r \in S!ToolCallResult /\ r.tool = "run_tests" /\ r.ok = FALSE /\ r.version = code
      BY <1>2, <1>3, Zenon DEF S!Tools
    <3> HIDE DEF r
    <3>2. results' = Append(results, r)
      BY <2>6 DEF r
    <3> QED BY <2>2, <2>6, <3>1, <3>2, Zenon
  <2> QED BY <2>3, <2>4, <2>5, <2>6, Zenon
<1> QED BY <1>4, <1>5, <1>6

\* What the results say of the code, by induction: the last patch is about the code
\* as it is, and so is every result while there is no patch.
Backed ==
  /\ \A i \in DOMAIN results : results[i].version <= code /\ results[i].tool \in S!Granted
  /\ \A i \in DOMAIN results : S!LatestOf(results, results[i].tool) # {}
  /\ \A i \in S!LatestOf(results, "apply_patch") : results[i].version = code
  /\ (\A i \in DOMAIN results : results[i].tool # "apply_patch") =>
       \A i \in DOMAIN results : results[i].version = code
  /\ \A i, j \in DOMAIN results :
       /\ j < i /\ results[j].tool = "apply_patch" /\ results[j].ok
       /\ results[i].tool = "run_tests" /\ results[i].ok
       => results[i].version >= results[j].version

EvidenceInv ==
  /\ CallTypes /\ Backed
  /\ agent.at = "accepted" => S!missing_evidence = "none"

LEMMA BackedStep ==
  ASSUME CallTypes, Backed, NEW r, NEW c, Dispatches(r, c), node' = node
  PROVE  Backed' /\ code' \in Nat
<1> DEFINE n == Len(results) + 1
<1>1. /\ results \in Seq(S!ToolCallResult) /\ results' \in Seq(S!ToolCallResult) /\ Len(results) \in Nat
      /\ DOMAIN results = 1..Len(results) /\ DOMAIN results' = 1..n
      /\ \A i \in DOMAIN results : i \in DOMAIN results' /\ results'[i] = results[i] /\ i < n
      /\ n \in DOMAIN results' /\ results'[n] = r
  BY DEF CallTypes, Dispatches, Logs
<1>2. ASSUME NEW i \in DOMAIN results', i # n PROVE i \in DOMAIN results
  BY <1>1, <1>2
<1>3. \A i \in DOMAIN results' : results'[i].version \in Nat
  <2>1. \A i \in DOMAIN results' : results'[i] \in S!ToolCallResult
    BY <1>1
  <2>2. \A q \in S!ToolCallResult : q.version \in Nat
    BY DEF S!ToolCallResult
  <2> QED BY <2>1, <2>2
<1>4. /\ r \in S!ToolCallResult /\ r.version \in Nat /\ code \in Nat /\ code' \in Nat
      /\ r.tool \in S!Tools /\ r.version <= code' /\ code <= code'
  <2>1. r \in S!ToolCallResult /\ r.version \in Nat /\ code \in Nat /\ r.tool \in S!Tools
    BY DEF Dispatches, CallTypes, S!ToolCallResult
  <2>2. CASE r.tool = "apply_patch"
    BY <2>1, <2>2 DEF Dispatches
  <2>3. CASE r.tool \in S!Reads
    BY <2>1, <2>3 DEF Dispatches, S!Reads
  <2>4. CASE r.tool = "run_tests"
    <3>1. \A i \in S!cached_tests : results[i].version <= code
      BY DEF Backed, S!cached_tests
    <3> QED BY <2>1, <2>4, <3>1 DEF Dispatches
  <2> QED BY <2>1, <2>2, <2>3, <2>4 DEF S!Tools, S!Reads
<1>5. S!Granted' = S!Granted
  BY DEF S!Granted
<1> HIDE DEF n
<1>6. \A i \in DOMAIN results' : results'[i].version <= code' /\ results'[i].tool \in S!Granted
  <2>1. r.version <= code' /\ r.tool \in S!Granted
    BY <1>4 DEF Dispatches
  <2>2. ASSUME NEW i \in DOMAIN results PROVE results[i].version <= code' /\ results[i].tool \in S!Granted
    BY <1>1, <1>3, <1>4 DEF Backed
  <2> QED BY <1>1, <1>2, <2>1, <2>2
<1>7. ASSUME NEW tool, NEW i \in S!LatestOf(results', tool), r.tool # tool
      PROVE  i \in DOMAIN results /\ i \in S!LatestOf(results, tool)
  BY <1>1, <1>2, <1>7 DEF S!LatestOf
<1>8. ASSUME NEW i \in DOMAIN results' PROVE S!LatestOf(results', results'[i].tool) # {}
  <2>1. CASE results'[i].tool = r.tool
    <3>1. n \in S!LatestOf(results', r.tool)
      BY <1>1, <1>2 DEF S!LatestOf, n
    <3> QED BY <2>1, <3>1
  <2>2. CASE results'[i].tool # r.tool
    <3>1. i \in DOMAIN results /\ results'[i] = results[i]
      BY <1>1, <1>2, <2>2
    <3>2. PICK k : k \in S!LatestOf(results, results[i].tool)
      BY <3>1 DEF Backed
    <3>3. k \in S!LatestOf(results', results'[i].tool)
      BY <1>1, <1>2, <2>2, <3>1, <3>2 DEF S!LatestOf
    <3> QED BY <3>3
  <2> QED BY <2>1, <2>2
<1>9. ASSUME NEW i \in S!LatestOf(results', "apply_patch") PROVE results'[i].version = code'
  <2>1. CASE r.tool = "apply_patch"
    <3>1. i = n
      BY <1>1, <1>2, <2>1 DEF S!LatestOf, n
    <3> QED BY <1>1, <2>1, <3>1 DEF Dispatches
  <2>2. CASE r.tool # "apply_patch"
    BY <1>1, <1>7, <2>2 DEF Dispatches, Backed
  <2> QED BY <2>1, <2>2
<1>10. ASSUME \A i \in DOMAIN results' : results'[i].tool # "apply_patch", NEW i \in DOMAIN results'
       PROVE  results'[i].version = code'
  <2>1. r.tool # "apply_patch" /\ code' = code
    BY <1>1, <1>10 DEF Dispatches
  <2>2. \A k \in DOMAIN results : results[k].version = code
    BY <1>1, <1>10 DEF Backed
  <2>3. r.version = code
    BY <1>4, <2>1, <2>2 DEF Dispatches, S!Tools, S!Reads, S!cached_tests
  <2> QED BY <1>1, <1>2, <2>1, <2>2, <2>3
<1>11. ASSUME NEW i \in DOMAIN results', NEW j \in DOMAIN results', j < i,
              results'[j].tool = "apply_patch", results'[j].ok, results'[i].tool = "run_tests", results'[i].ok
       PROVE  results'[i].version >= results'[j].version
  <2>1. j \in DOMAIN results /\ results'[j] = results[j] /\ results[j].version \in Nat /\ results[j].version <= code
    BY <1>1, <1>2, <1>3, <1>11 DEF Backed, n
  <2>2. CASE i # n
    BY <1>1, <1>2, <1>11, <2>1, <2>2 DEF Backed
  <2>3. CASE i = n
    <3>1. r.tool = "run_tests" /\ results'[i].version = r.version
      BY <1>1, <1>11, <2>3
    <3>2. ASSUME NEW k \in S!cached_tests PROVE results[k].version >= results[j].version
      BY <1>11, <2>1 DEF S!cached_tests, Backed
    <3> QED BY <1>4, <2>1, <3>1, <3>2 DEF Dispatches
  <2> QED BY <2>2, <2>3
<1> QED BY <1>4, <1>5, <1>6, <1>8, <1>9, <1>10, <1>11 DEF Backed

\* Where a request leads, and which instructions it leaves for the next.
LEMMA RequestsLead ==
  ASSUME Budgets, LocalTypes
  PROVE  /\ S!complete_exceeds \/ (\E class : S!complete_fails(class)) =>
              agent'.at \in {"request", "failed"} /\ agent'.repair = agent.repair
         /\ S!complete_calls => agent'.at = "calls" /\ agent'.repair = "none"
         /\ S!complete_answers =>
              \/ agent'.at = "accepted" /\ agent'.repair = agent.repair /\ S!missing_evidence = "none"
              \/ agent'.at = "failed" /\ agent'.repair = agent.repair
              \/ agent'.at = "request" /\ \E error : agent'.repair = S!repair_instructions(error)
<1>1. ASSUME NEW tokens, NEW price
      PROVE  LET a == S!Spent(tokens, price)
             IN  /\ DOMAIN a = DOMAIN agent /\ a.at = agent.at /\ a.repair = agent.repair
                 /\ {"at", "repair"} \subseteq DOMAIN a
  BY DEF S!Spent, LocalTypes, S!Locals
<1>2. \A a \in S!Charged : a.at = agent.at /\ a.repair = agent.repair /\ {"at", "repair"} \subseteq DOMAIN a
  BY <1>1 DEF S!Charged
<1>3. ASSUME S!complete_exceeds PROVE agent'.at = "failed" /\ agent'.repair = agent.repair
  <2>1. PICK a \in S!Charged : agent' = [a EXCEPT !.at = "failed"]
    BY <1>3 DEF S!complete_exceeds
  <2> QED BY <1>2, <2>1
<1>4. ASSUME S!complete_calls PROVE agent'.at = "calls" /\ agent'.repair = "none"
  <2>1. PICK a \in S!Charged : agent' = [a EXCEPT !.at = "calls", !.schema = 0, !.repair = "none"]
    BY <1>4, Zenon DEF S!complete_calls
  <2> QED BY <1>2, <2>1
<1>5. ASSUME S!complete_answers
      PROVE  \/ agent'.at = "accepted" /\ agent'.repair = agent.repair /\ S!missing_evidence = "none"
             \/ agent'.at = "failed" /\ agent'.repair = agent.repair
             \/ agent'.at = "request" /\ \E error : agent'.repair = S!repair_instructions(error)
  <2>1. PICK a \in S!Charged, error \in {S!missing_evidence, "other"} :
          \/ agent' = [a EXCEPT !.at = "accepted"] /\ error = "none"
          \/ agent' = [a EXCEPT !.at = "failed"]
          \/ agent' = [a EXCEPT !.schema = @ + 1, !.turn = @ + 1, !.repair = S!repair_instructions(error)]
    BY <1>5, Zenon DEF S!complete_answers
  <2>2. a.at = "request" /\ a.repair = agent.repair /\ {"at", "repair"} \subseteq DOMAIN a
    BY <1>2, <1>5 DEF S!complete_answers, S!Requesting
  <2>3. CASE agent' = [a EXCEPT !.at = "accepted"] /\ error = "none"
    BY <2>2, <2>3
  <2>4. CASE agent' = [a EXCEPT !.at = "failed"]
    BY <2>2, <2>4
  <2>5. CASE agent' = [a EXCEPT !.schema = @ + 1, !.turn = @ + 1, !.repair = S!repair_instructions(error)]
    <3>1. agent'.at = "request" /\ agent'.repair = S!repair_instructions(error)
      BY <2>2, <2>5
    <3> QED BY <3>1
  <2> QED BY <2>1, <2>3, <2>4, <2>5
<1>6. ASSUME NEW class, S!complete_fails(class)
      PROVE  agent'.at \in {"request", "failed"} /\ agent'.repair = agent.repair
  <2>1. PICK tokens, price : agent' = S!after_failure(S!Spent(tokens, price), class)
    BY <1>6 DEF S!complete_fails
  <2> DEFINE a == S!Spent(tokens, price)
  <2>2. a.at = "request" /\ a.repair = agent.repair /\ {"at", "repair"} \subseteq DOMAIN a
    BY <1>1, <1>6 DEF S!complete_fails, S!Requesting
  <2> HIDE DEF a
  <2>3. agent' = S!after_failure(a, class)
    BY <2>1 DEF a
  <2> QED BY <2>2, <2>3 DEF S!after_failure
<1> QED BY <1>3, <1>4, <1>5, <1>6

\* A step of the stage, by what becomes of its calls and results.
Moves ==
  /\ node' = node /\ pending' \in Seq(CalledTools) /\ (agent'.at = "calls" => pending' # <<>>)
  /\ agent'.repair \in {agent.repair, "none"} \/ \E error : agent'.repair = S!repair_instructions(error)
  /\ \/ UNCHANGED <<calls, results, code>> /\ (agent'.at = "accepted" => S!missing_evidence = "none")
     \/ agent'.at # "accepted" /\ UNCHANGED <<results, code>> /\ \E c : Notes(c) /\ ~c.ok
     \/ agent'.at # "accepted" /\ \E r, c : Dispatches(r, c)

LEMMA StageMoves ==
  ASSUME Budgets, LocalTypes, EvidenceInv, [S!Next]_S!vars
  PROVE  Moves
<1>0. /\ CallTypes /\ pending \in Seq(CalledTools) /\ (agent.at = "calls" => pending # <<>>)
      /\ agent.at = "accepted" => S!missing_evidence = "none"
  BY DEF EvidenceInv, CallTypes
<1>1. ASSUME S!complete_exceeds \/ \E class : S!complete_fails(class) PROVE Moves
  <2>1. agent'.at \in {"request", "failed"} /\ agent'.repair = agent.repair
    BY <1>1, RequestsLead, Zenon
  <2>2. UNCHANGED <<node, pending, calls, results, code>>
    BY <1>1 DEF S!complete_exceeds, S!complete_fails
  <2> QED BY <1>0, <2>1, <2>2 DEF Moves
<1>2. ASSUME S!complete_calls PROVE Moves
  <2>1. agent'.at = "calls" /\ agent'.repair = "none"
    BY <1>2, RequestsLead, Zenon
  <2>2. UNCHANGED <<node, calls, results, code>> /\ pending' \in UNION {[1..n -> CalledTools] : n \in 1..MaxCalls}
    BY <1>2 DEF S!complete_calls
  <2>3. PICK n \in 1..MaxCalls : pending' \in [1..n -> CalledTools]
    BY <2>2
  <2>4. pending' \in Seq(CalledTools) /\ pending' # <<>>
    BY <2>3
  <2> QED BY <2>1, <2>2, <2>4 DEF Moves
<1>3. ASSUME S!complete_answers PROVE Moves
  <2>1. \/ agent'.at = "accepted" /\ agent'.repair = agent.repair /\ S!missing_evidence = "none"
        \/ agent'.at = "failed" /\ agent'.repair = agent.repair
        \/ agent'.at = "request" /\ \E error : agent'.repair = S!repair_instructions(error)
    BY <1>3, RequestsLead, Zenon
  <2>2. UNCHANGED <<node, pending, calls, results, code>>
    BY <1>3 DEF S!complete_answers
  <2> QED BY <1>0, <2>1, <2>2 DEF Moves
<1>4. ASSUME S!get_context \/ S!budget_exhausted \/ S!raises PROVE Moves
  <2>1. agent'.at \in {"request", "failed"} /\ agent'.repair = agent.repair
    BY <1>4 DEF S!get_context, S!budget_exhausted, S!raises, LocalTypes, S!Locals
  <2>2. UNCHANGED <<node, pending, calls, results, code>>
    BY <1>4 DEF S!get_context, S!budget_exhausted, S!raises
  <2> QED BY <1>0, <2>1, <2>2 DEF Moves
<1>5. ASSUME agent.at = "calls", NEW ok \in BOOLEAN, S!Answered(ok)
      PROVE  agent'.at # "accepted" /\ agent'.repair = agent.repair
  BY <1>5 DEF S!Answered, LocalTypes, S!Locals
<1>6. ASSUME S!refuse PROVE Moves
  <2>1. agent.at = "calls" /\ S!Answered(FALSE) /\ UNCHANGED <<node, results, code>>
    BY <1>6, Zenon DEF S!refuse
  <2>2. /\ \E c : Notes(c) /\ ~c.ok
        /\ pending' \in Seq(CalledTools) /\ (agent'.at = "calls" => pending' # <<>>)
    BY <1>0, <2>1, AnsweredNotes
  <2>3. agent'.at # "accepted" /\ agent'.repair = agent.repair
    BY <1>5, <2>1
  <2> QED BY <2>1, <2>2, <2>3 DEF Moves
<1>7. ASSUME S!dispatch_patch \/ S!dispatch_tests \/ \E tool \in S!Reads : S!dispatch_read(tool) PROVE Moves
  <2>1. \E r, c : Dispatches(r, c)
    BY <1>0, <1>7, ToolDispatches, Zenon
  <2>2. agent.at = "calls" /\ node' = node /\ \E ok \in BOOLEAN : S!Answered(ok)
    <3>1. CASE S!dispatch_patch
      BY <3>1 DEF S!dispatch_patch, S!Dispatching
    <3>2. CASE S!dispatch_tests
      BY <3>2, Zenon DEF S!dispatch_tests, S!Dispatching
    <3>3. CASE \E tool \in S!Reads : S!dispatch_read(tool)
      BY <3>3 DEF S!dispatch_read, S!Dispatching
    <3> QED BY <1>7, <3>1, <3>2, <3>3
  <2>3. PICK ok \in BOOLEAN : S!Answered(ok)
    BY <2>2
  <2>4. pending' \in Seq(CalledTools) /\ (agent'.at = "calls" => pending' # <<>>)
    BY <1>0, <2>2, <2>3, AnsweredNotes
  <2>5. agent'.at # "accepted" /\ agent'.repair = agent.repair
    BY <1>5, <2>2, <2>3
  <2> QED BY <2>1, <2>2, <2>4, <2>5 DEF Moves
<1>8. ASSUME UNCHANGED S!vars PROVE Moves
  BY <1>0, <1>8 DEF S!vars, Moves
<1> QED BY <1>1, <1>2, <1>3, <1>4, <1>6, <1>7, <1>8, Zenon DEF S!Next, S!Step

LEMMA EvidenceInit == S!Init => EvidenceInv
<1> SUFFICES ASSUME S!Init PROVE EvidenceInv
  OBVIOUS
<1>1. pending = <<>> /\ calls = <<>> /\ results = <<>> /\ agent.at = "recall" /\ code \in Nat
  BY DEF S!Init, S!Start
<1>2. DOMAIN results = {}
  BY <1>1
<1> QED BY <1>1, <1>2 DEF EvidenceInv, CallTypes, Backed, S!LatestOf

LEMMA EvidenceStep ==
  ASSUME Budgets, LocalTypes, EvidenceInv, [S!Next]_S!vars
  PROVE  EvidenceInv'
<1>1. Moves
  BY StageMoves
<1>2. CallTypes /\ Backed
  BY DEF EvidenceInv
<1>3. CASE UNCHANGED <<calls, results, code>> /\ (agent'.at = "accepted" => S!missing_evidence = "none")
  <2>1. CallTypes'
    BY <1>1, <1>2, <1>3 DEF Moves, CallTypes
  <2>2. Backed' /\ S!missing_evidence' = S!missing_evidence
    BY <1>1, <1>2, <1>3
       DEF Moves, Backed, S!missing_evidence, S!unrecovered, S!LatestOf, S!Granted
  <2> QED BY <1>3, <2>1, <2>2 DEF EvidenceInv
<1>4. CASE agent'.at # "accepted" /\ UNCHANGED <<results, code>> /\ \E c : Notes(c)
  <2>1. CallTypes'
    BY <1>1, <1>2, <1>4 DEF Moves, CallTypes, Notes
  <2>2. Backed'
    BY <1>1, <1>2, <1>4 DEF Moves, Backed, S!LatestOf, S!Granted
  <2> QED BY <1>4, <2>1, <2>2 DEF EvidenceInv
<1>5. ASSUME agent'.at # "accepted", NEW r, NEW c, Dispatches(r, c) PROVE EvidenceInv'
  <2>1. Backed' /\ code' \in Nat
    BY <1>1, <1>2, <1>5, BackedStep DEF Moves
  <2>2. CallTypes'
    BY <1>1, <1>5, <2>1 DEF Moves, CallTypes, Dispatches, Notes, Logs
  <2> QED BY <1>5, <2>1, <2>2 DEF EvidenceInv
<1> QED BY <1>1, <1>3, <1>4, <1>5 DEF Moves

LEMMA EvidenceSuffices == EvidenceInv => S!AcceptedIsEvidenced
<1> SUFFICES ASSUME EvidenceInv PROVE S!AcceptedIsEvidenced
  OBVIOUS
<1>1. Backed /\ results \in Seq(S!ToolCallResult) /\ \A i \in DOMAIN results : i \in Nat
  BY DEF EvidenceInv, CallTypes
<1>2. ASSUME agent.at = "accepted"
      PROVE  /\ node \in S!mutation_nodes => \E i \in S!LatestOf(results, "apply_patch") : results[i].ok
             /\ S!unrecovered = {}
             /\ node \in S!verification_nodes => \E i \in DOMAIN results : results[i].tool = "run_tests"
  <2>1. S!missing_evidence = "none"
    BY <1>2 DEF EvidenceInv
  <2> QED BY <2>1 DEF S!missing_evidence
<1>3. ASSUME S!unrecovered = {}, NEW t \in S!Tools, NEW k \in S!LatestOf(results, t) PROVE results[k].ok
  BY <1>3 DEF S!unrecovered
<1>4. ASSUME agent.at = "accepted", NEW t \in S!Tools, NEW i \in DOMAIN results, results[i].tool = t, ~results[i].ok
      PROVE  \E j \in DOMAIN results : j > i /\ results[j].tool = t /\ results[j].ok
  <2>1. PICK k : k \in S!LatestOf(results, t)
    BY <1>1, <1>4 DEF Backed
  <2>2. k \in DOMAIN results /\ results[k].tool = t /\ i <= k /\ results[k].ok
    BY <1>2, <1>3, <1>4, <2>1 DEF S!LatestOf
  <2>3. k > i
    BY <1>1, <1>4, <2>2
  <2> QED BY <2>2, <2>3
<1>5. ASSUME agent.at = "accepted", node \in S!mutation_nodes
      PROVE  \E i \in DOMAIN results :
               results[i].tool = "apply_patch" /\ results[i].ok /\ results[i].version = code
  <2>1. PICK i \in S!LatestOf(results, "apply_patch") : results[i].ok
    BY <1>2, <1>5
  <2> QED BY <1>1, <2>1 DEF Backed, S!LatestOf
<1>6. ASSUME agent.at = "accepted", node \in S!verification_nodes
      PROVE  \E i \in DOMAIN results :
               results[i].tool = "run_tests" /\ results[i].ok /\ results[i].version = code
  <2>1. "apply_patch" \notin S!Granted
    BY <1>6 DEF S!verification_nodes, S!Granted, S!NODE_TOOL_POLICY, S!Reads
  <2>2. \A i \in DOMAIN results : results[i].version = code
    BY <1>1, <2>1 DEF Backed
  <2>3. PICK i \in DOMAIN results : results[i].tool = "run_tests"
    BY <1>2, <1>6
  <2>4. PICK k : k \in S!LatestOf(results, "run_tests")
    BY <1>1, <2>3 DEF Backed
  <2>5. k \in DOMAIN results /\ results[k].tool = "run_tests" /\ results[k].ok
    BY <1>2, <1>3, <1>6, <2>4 DEF S!LatestOf, S!Tools
  <2> QED BY <2>2, <2>5
<1> QED BY <1>1, <1>4, <1>5, <1>6 DEF S!AcceptedIsEvidenced, Backed

\* What require_evidence and validate_tool_evidence let through is backed by this stage's
\* own tool calls, about the code as it is, in whatever order patches, tests, refusals,
\* lost answers and cached results came.
THEOREM AcceptedOutputsAreEvidenced == S!Spec => []AcceptedIsEvidenced
<1>1. S!Init => SpendingInv /\ EvidenceInv
  BY StagesAssumption, SpendingInit, EvidenceInit
<1>2. SpendingInv /\ EvidenceInv /\ [S!Next]_S!vars => SpendingInv' /\ EvidenceInv'
  BY StagesAssumption, SpendingStep, EvidenceStep DEF SpendingInv
<1>3. EvidenceInv => AcceptedIsEvidenced
  BY EvidenceSuffices DEF AcceptedIsEvidenced
<1> QED BY <1>1, <1>2, <1>3, PTL DEF S!Spec

-----------------------------------------------------------------------------
(* The tools a stage is offered.                                           *)

\* The task's policy allows the work of every stage.
ToolsSuffice == {"apply_patch", "run_tests"} \subseteq AllowedTools /\ S!Reads \cap AllowedTools # {}

\* The instructions name granted tools only; as long as no call failed, the results
\* answer the calls one for one.
OffersInv ==
  /\ agent.repair \in {"apply_patch", "run_tests"} => agent.repair \in S!Granted
  /\ (\A i \in DOMAIN calls : calls[i].ok) =>
       /\ Len(results) = Len(calls)
       /\ \A i \in DOMAIN calls : results[i].tool = calls[i].name /\ results[i].ok

LEMMA OffersInit == S!Init => OffersInv
BY DEF S!Init, S!Start, OffersInv

LEMMA RepairIsGranted ==
  ASSUME NEW error, S!repair_instructions(error) \in {"apply_patch", "run_tests"}
  PROVE  S!repair_instructions(error) \in S!Granted
<1>1. S!active_tools \subseteq S!Granted
  BY DEF S!active_tools
<1> QED BY <1>1 DEF S!repair_instructions

LEMMA OffersStep ==
  ASSUME Budgets, LocalTypes, EvidenceInv, OffersInv, [S!Next]_S!vars
  PROVE  OffersInv'
<1>1. Moves /\ CallTypes
  BY StageMoves DEF EvidenceInv
<1>2. agent'.repair \in {"apply_patch", "run_tests"} => agent'.repair \in S!Granted'
  <2>1. S!Granted' = S!Granted
    BY <1>1 DEF Moves, S!Granted
  <2>2. CASE agent'.repair \in {agent.repair, "none"}
    BY <2>1, <2>2 DEF OffersInv
  <2>3. CASE \E error : agent'.repair = S!repair_instructions(error)
    BY <2>1, <2>3, RepairIsGranted
  <2> QED BY <1>1, <2>2, <2>3 DEF Moves
<1> DEFINE Paired == /\ Len(results) = Len(calls)
                    /\ \A i \in DOMAIN calls : results[i].tool = calls[i].name /\ results[i].ok
<1>3. ASSUME \A i \in DOMAIN calls' : calls'[i].ok PROVE Paired'
  <2>1. CASE UNCHANGED <<calls, results, code>>
    BY <1>3, <2>1 DEF OffersInv
  <2>2. ASSUME NEW c, Notes(c)
        PROVE  /\ DOMAIN calls' = 1..Len(calls) + 1 /\ DOMAIN calls = 1..Len(calls) /\ Len(calls) \in Nat
               /\ calls'[Len(calls) + 1] = c /\ c.ok
               /\ \A i \in DOMAIN calls : calls'[i] = calls[i] /\ calls[i].ok
    <3>1. /\ DOMAIN calls' = 1..Len(calls) + 1 /\ DOMAIN calls = 1..Len(calls) /\ Len(calls) \in Nat
          /\ calls'[Len(calls) + 1] = c /\ \A i \in DOMAIN calls : calls'[i] = calls[i]
      <4> DEFINE T == [name: CalledTools, ok: BOOLEAN]
      <4>1. /\ calls \in Seq(T) /\ calls' \in Seq(T) /\ Len(calls') = Len(calls) + 1
            /\ calls'[Len(calls) + 1] = c /\ \A i \in 1..Len(calls) : calls'[i] = calls[i]
        BY <1>1, <2>2 DEF Notes, CallTypes
      <4> HIDE DEF T
      <4> QED BY <4>1
    <3> QED BY <1>3, <3>1
  <2>3. ASSUME NEW r, NEW c, Dispatches(r, c) PROVE Paired'
    <3>1. /\ Notes(c) /\ c.name = r.tool /\ (c.ok <=> r.ok) /\ Len(results') = Len(results) + 1
          /\ results'[Len(results) + 1] = r /\ \A i \in 1..Len(results) : results'[i] = results[i]
          /\ Len(calls') = Len(calls) + 1
      BY <2>3 DEF Dispatches, Logs, Notes
    <3>2. Paired
      BY <2>2, <3>1 DEF OffersInv
    <3> QED BY <2>2, <3>1, <3>2
  <2>4. ASSUME NEW c, Notes(c), ~c.ok PROVE FALSE
    BY <2>2, <2>4
  <2> QED BY <1>1, <2>1, <2>3, <2>4 DEF Moves
<1> QED BY <1>2, <1>3 DEF OffersInv

LEMMA OffersSuffice ==
  ASSUME ToolsSuffice, EvidenceInv, OffersInv
  PROVE  S!OffersLeadToEvidence
<1> SUFFICES ASSUME \A i \in DOMAIN calls : calls[i].ok, S!active_tools = {} PROVE S!missing_evidence = "none"
  BY DEF S!OffersLeadToEvidence
<1>1. /\ DOMAIN results = DOMAIN calls /\ \A i \in DOMAIN calls : results[i].tool = calls[i].name /\ results[i].ok
  <2>1. Len(results) = Len(calls) /\ \A i \in DOMAIN calls : results[i].tool = calls[i].name /\ results[i].ok
    BY DEF OffersInv
  <2>2. DOMAIN results = 1..Len(results) /\ DOMAIN calls = 1..Len(calls)
    BY DEF EvidenceInv, CallTypes
  <2> QED BY <2>1, <2>2
<1>2. S!unrecovered = {}
  BY <1>1 DEF S!unrecovered, S!LatestOf
<1>3. agent.repair # "apply_patch" /\ agent.repair # "run_tests"
  BY DEF OffersInv, S!active_tools
<1>4. ASSUME node \in S!mutation_nodes
      PROVE  \E i \in S!LatestOf(results, "apply_patch") : results[i].ok
  <2>1. {"apply_patch", "run_tests"} \subseteq S!Granted /\ S!Reads \cap S!Granted # {}
    BY <1>4 DEF S!mutation_nodes, S!Granted, S!NODE_TOOL_POLICY, S!Tools, S!Reads, ToolsSuffice
  <2>2. S!has_patch
    BY <1>3, <2>1 DEF S!active_tools
  <2>3. PICK i \in DOMAIN results : results[i].tool = "apply_patch"
    BY <1>1, <2>2 DEF S!has_patch, S!Succeeded
  <2>4. PICK k : k \in S!LatestOf(results, "apply_patch")
    BY <2>3 DEF EvidenceInv, Backed
  <2> QED BY <1>1, <2>4 DEF S!LatestOf
<1>5. ASSUME node = "investigate" PROVE \E i \in DOMAIN results : results[i].tool \in S!Reads
  <2>1. "apply_patch" \notin S!Granted /\ "run_tests" \notin S!Granted /\ S!Granted # {} /\ S!Granted \subseteq S!Tools
    BY <1>5 DEF S!Granted, S!NODE_TOOL_POLICY, S!Tools, S!Reads, ToolsSuffice
  <2>2. S!has_reads
    BY <1>3, <2>1 DEF S!active_tools
  <2> QED BY <1>1, <2>2 DEF S!has_reads
<1>6. ASSUME node \in S!verification_nodes PROVE \E i \in DOMAIN results : results[i].tool = "run_tests"
  <2>1. "apply_patch" \notin S!Granted /\ "run_tests" \in S!Granted
    BY <1>6 DEF S!verification_nodes, S!Granted, S!NODE_TOOL_POLICY, S!Tools, S!Reads, ToolsSuffice
  <2>2. S!has_tests
    BY <1>3, <2>1 DEF S!active_tools
  <2> QED BY <1>1, <2>2 DEF S!has_tests, S!Succeeded
<1> QED BY <1>2, <1>4, <1>5, <1>6 DEF S!missing_evidence

\* As long as no call failed, a model that uses what active_tools offers has its evidence
\* when nothing more is offered, for any stage of a task whose policy allows its work.
THEOREM StagesOfferTheirEvidence ==
  ASSUME ToolsSuffice
  PROVE  S!Spec => []OffersLeadToEvidence
<1>1. S!Init => SpendingInv /\ EvidenceInv /\ OffersInv
  BY StagesAssumption, SpendingInit, EvidenceInit, OffersInit
<1>2. SpendingInv /\ EvidenceInv /\ OffersInv /\ [S!Next]_S!vars => SpendingInv' /\ EvidenceInv' /\ OffersInv'
  BY StagesAssumption, SpendingStep, EvidenceStep, OffersStep DEF SpendingInv
<1>3. EvidenceInv /\ OffersInv => OffersLeadToEvidence
  BY OffersSuffice DEF OffersLeadToEvidence
<1> QED BY <1>1, <1>2, <1>3, PTL DEF S!Spec
====
