----------------------------- MODULE Finalization -----------------------------
(***************************************************************************)
(* Runs from the end of their tasks to the commit and the memory: the       *)
(* dispatchers' advance_next with its stage fence, verification, repair,    *)
(* release review, the approval of the exact tree, the commit and the       *)
(* promotion to UAMS, beside workers, the operator and cancellation.  One   *)
(* action is one transaction, model call, Git operation or UAMS call.       *)
(***************************************************************************)
EXTENDS Domain, Integers, FiniteSets

CONSTANTS
  Runs,         \* numbered in the order of created_at
  Dispatchers,
  Nobody,
  MaxRevision,  \* 1 + max_dynamic_tasks: a repair adds at least one task
  Failures,     \* failure signatures
  Trees,        \* Git tree hashes of a sink's worktree
  Lessons,      \* the runs by what they have to remember, its deterministic_memory_id
  Faults,       \* the kinds of faults that happen: "crash", "slow", "raise", "edit", "corrupt", "uams"
  MaxFaults

ASSUME FinalizationAssumption ==
  /\ Runs \subseteq Nat /\ Runs # {}
  /\ Nobody \notin Runs /\ Nobody \notin Dispatchers /\ Nobody \notin Trees
  /\ MaxRevision \in Nat \ {0} /\ MaxFaults \in Nat
  /\ \A r \in Runs : \E l \in Lessons : r \in l /\ \A k \in Lessons : r \in k => k = l
  /\ Failures \cap ({"passing", "none", "approved"} \cup RunStatus) = {}

VARIABLES
  run,        \* RunRow: state, cancellation requested
  plan,       \* latest revision and what the tasks of the run came to
  evidence,   \* what the artifacts of a revision show
  repairs,    \* RepairMutationRow rows
  decision,   \* release decision artifact of a revision
  worktree,   \* content of a revision's sink worktree
  call,       \* git_commit ToolExecutionRow of a sink, with its ApprovalRow
  commits,    \* commits on the release worktrees
  candidate,  \* MemoryCandidateRow status
  memory,     \* lessons that UAMS holds
  stage,      \* RunStageAttemptRow "advance:{state}"
  dispatcher, \* what a dispatcher is at
  faults

world == <<plan, evidence, repairs, decision, worktree, call, commits, candidate, memory>>
vars == <<run, world, stage, dispatcher, faults>>

Revisions == 1..MaxRevision
Advanced == {"EXECUTING", "WAITING_FOR_APPROVAL", "WAITING_FOR_MEMORY"}

Plan == [revision: Revisions, tasks: {"unfinished", "failed", "completed"}]
\* verdict is what verification_evidence will find; tools: every other tool call of
\* the sink is COMPLETED; intact: the artifacts match their hashes.
Evidence == [verdict: {"passing", "none"} \cup Failures, tools: BOOLEAN, intact: BOOLEAN]
NoEvidence == [verdict |-> "none", tools |-> FALSE, intact |-> TRUE]
RepairMutationRow == [base: Revisions, failure: Failures, accepted: BOOLEAN]
Call == [status: {"NONE", "WAITING_FOR_APPROVAL", "COMPLETED"}, tree: Trees \cup {Nobody},
         approval: {"NONE", "PENDING", "APPROVED", "REJECTED", "EXPIRED"}, late: BOOLEAN]
NoCall == [status |-> "NONE", tree |-> Nobody, approval |-> "NONE", late |-> FALSE]
\* A dispatcher has one claim at a time, so its name stands for started_at.
RunStageAttemptRow == [running: BOOLEAN, owner: Dispatchers \cup {Nobody}, stale: BOOLEAN]
Positions ==
  {"idle", "claim", "memory", "tasks", "verify", "review", "reviewing", "debug", "repair", "hash", "request",
   "to", "approval", "hold", "authorize", "commit", "complete", "candidate", "gate", "remember",
   "unavailable", "promoted", "cleanup", "release"}
\* What advance_next has in its locals.
Cycle == [run: Runs \cup {Nobody}, state: Advanced, at: Positions, rev: Revisions,
          arg: {"none"} \cup Failures \cup Trees \cup TerminalRun \cup Advanced]
Resting == [run |-> Nobody, state |-> "EXECUTING", at |-> "idle", rev |-> 1, arg |-> "none"]

TypeOK ==
  /\ run \in [Runs -> [state: Advanced \cup TerminalRun, cancel: BOOLEAN]]
  /\ plan \in [Runs -> Plan]
  /\ evidence \in [Runs -> [Revisions -> Evidence]]
  /\ repairs \in [Runs -> SUBSET RepairMutationRow]
  /\ decision \in [Runs -> [Revisions -> {"none", "approved"} \cup Failures]]
  /\ worktree \in [Runs -> [Revisions -> Trees \cup {Nobody}]]
  /\ call \in [Runs -> [Revisions -> Call]]
  /\ commits \in [Runs -> SUBSET [rev: Revisions, tree: Trees]]
  /\ candidate \in [Runs -> {"NONE", "PROPOSED", "PROMOTING", "WAITING_FOR_MEMORY", "REJECTED", "PROMOTED"}]
  /\ memory \in SUBSET Lessons
  /\ stage \in [Runs -> [Advanced -> RunStageAttemptRow]]
  /\ dispatcher \in [Dispatchers -> Cycle]
  /\ faults \in 0..MaxFaults

Init ==
  /\ run = [r \in Runs |-> [state |-> "EXECUTING", cancel |-> FALSE]]
  /\ plan = [r \in Runs |-> [revision |-> 1, tasks |-> "unfinished"]]
  /\ evidence = [r \in Runs |-> [v \in Revisions |-> NoEvidence]]
  /\ repairs = [r \in Runs |-> {}]
  /\ decision = [r \in Runs |-> [v \in Revisions |-> "none"]]
  /\ worktree = [r \in Runs |-> [v \in Revisions |-> Nobody]]
  /\ call = [r \in Runs |-> [v \in Revisions |-> NoCall]]
  /\ commits = [r \in Runs |-> {}]
  /\ candidate = [r \in Runs |-> "NONE"]
  /\ memory = {}
  /\ stage = [r \in Runs |-> [s \in Advanced |-> [running |-> FALSE, owner |-> Nobody, stale |-> FALSE]]]
  /\ dispatcher = [d \in Dispatchers |-> Resting]
  /\ faults = 0

Fault(kind) ==
  /\ kind \in Faults /\ faults < MaxFaults
  /\ faults' = faults + 1

-----------------------------------------------------------------------------
(* Workers and the operator.                                               *)

\* The last task of the latest revision ends; its sink's worktree has its content.
tasks_finish(r) ==
  /\ plan[r].tasks = "unfinished"
  /\ \E outcome \in {"failed", "completed"}, e \in {x \in Evidence : x.intact}, tree \in Trees :
       /\ plan' = [plan EXCEPT ![r].tasks = outcome]
       /\ evidence' = [evidence EXCEPT ![r][plan[r].revision] = e]
       /\ worktree' = [worktree EXCEPT ![r][plan[r].revision] = tree]
  /\ UNCHANGED <<run, repairs, decision, call, commits, candidate, memory, stage, dispatcher, faults>>

\* POST /runs/{id}/cancel of a run that is past planning.
cancel_run(r) ==
  /\ run[r].state \notin TerminalRun /\ ~run[r].cancel
  /\ run' = [run EXCEPT ![r].cancel = TRUE]
  /\ UNCHANGED <<world, stage, dispatcher, faults>>

\* cancel_requested_runs: the tasks, then the run.
cancel_requested_runs(r) ==
  /\ run[r].cancel /\ run[r].state \notin TerminalRun
  /\ run' = [run EXCEPT ![r].state = "CANCELLED"]
  /\ plan' = [plan EXCEPT ![r].tasks = IF @ = "unfinished" THEN "failed" ELSE @]
  /\ UNCHANGED <<evidence, repairs, decision, worktree, call, commits, candidate, memory, stage, dispatcher, faults>>

\* POST /approvals/{id}/decision: after expires_at any decision records EXPIRED.
decide(r, v, approved) ==
  /\ call[r][v].approval # "NONE"
  /\ call' = [call EXCEPT ![r][v].approval =
       IF call[r][v].late THEN "EXPIRED"
       ELSE IF @ = "PENDING" THEN IF approved THEN "APPROVED" ELSE "REJECTED" ELSE @]
  /\ UNCHANGED <<run, plan, evidence, repairs, decision, worktree, commits, candidate, memory, stage, dispatcher, faults>>

approval_expires(r, v) ==
  /\ call[r][v].approval # "NONE" /\ ~call[r][v].late
  /\ call' = [call EXCEPT ![r][v].late = TRUE]
  /\ UNCHANGED <<run, plan, evidence, repairs, decision, worktree, commits, candidate, memory, stage, dispatcher, faults>>

-----------------------------------------------------------------------------
(* A dispatcher's cycle.                                                    *)

At(d, p) == dispatcher[d].at = p
Now(d) == dispatcher[d].run
Go(d, p) == dispatcher' = [dispatcher EXCEPT ![d].at = p]
GoWith(d, p, arg) == dispatcher' = [dispatcher EXCEPT ![d].at = p, ![d].arg = arg]
GoFor(d, p, v) == dispatcher' = [dispatcher EXCEPT ![d].at = p, ![d].rev = v]

\* advance_next: the oldest run to advance, read without a lock.
advance_next(d) ==
  /\ At(d, "idle")
  /\ \E r \in Runs :
       /\ run[r].state \in Advanced
       /\ \A q \in Runs : q < r => run[q].state \notin Advanced
       /\ dispatcher' = [dispatcher EXCEPT ![d] =
            [Resting EXCEPT !.run = r, !.state = run[r].state, !.at = "claim"]]
  /\ UNCHANGED <<run, world, stage, faults>>

Entry(s) == CASE s = "EXECUTING" -> "tasks"
              [] s = "WAITING_FOR_APPROVAL" -> "approval"
              [] s = "WAITING_FOR_MEMORY" -> "memory"

\* Mutant: a claim never ages.
Claimable_forever(row) == ~row.running

\* The row is taken when nobody runs it or its owner is stale.
Claimable(row) == ~row.running \/ row.stale

_claim_stage(d) ==
  LET r == Now(d)
      s == dispatcher[d].state
  IN /\ At(d, "claim")
     /\ IF Claimable(stage[r][s])
        THEN /\ stage' = [stage EXCEPT ![r][s] = [running |-> TRUE, owner |-> d, stale |-> FALSE]]
             /\ Go(d, Entry(s))
        ELSE /\ dispatcher' = [dispatcher EXCEPT ![d] = Resting]
             /\ UNCHANGED stage
     /\ UNCHANGED <<run, world, faults>>

\* The finally clause: only under the claim's own started_at.
_release_stage(d) ==
  LET r == Now(d)
      s == dispatcher[d].state
  IN /\ At(d, "release")
     /\ stage' = IF stage[r][s].owner = d THEN [stage EXCEPT ![r][s].running = FALSE, ![r][s].stale = FALSE]
                 ELSE stage
     /\ dispatcher' = [dispatcher EXCEPT ![d] = Resting]
     /\ UNCHANGED <<run, world, faults>>

_transition_run(d) ==
  LET r == Now(d)
      target == dispatcher[d].arg
      done == IF target = "COMPLETED" THEN "cleanup" ELSE "release"
  IN /\ At(d, "to")
     /\ \/ run[r].state = target /\ Go(d, done) /\ UNCHANGED run
        \/ /\ run[r].state # target /\ target \in RUN_TRANSITIONS[run[r].state]
           /\ run' = [run EXCEPT ![r].state = target]
           /\ Go(d, done)
        \/ /\ run[r].state # target /\ target \notin RUN_TRANSITIONS[run[r].state]
           /\ Go(d, "release") /\ UNCHANGED run
     /\ UNCHANGED <<world, stage, faults>>

\* _advance_executing: the tasks of every revision.
_advance_executing(d) ==
  LET p == plan[Now(d)]
  IN /\ At(d, "tasks")
     /\ CASE p.tasks = "unfinished" -> Go(d, "release")
          [] p.tasks = "failed"     -> GoWith(d, "to", "FAILED")
          [] p.tasks = "completed"  -> GoFor(d, "verify", p.revision)
     /\ UNCHANGED <<run, world, stage, faults>>

\* The evidence of the tasks selected before: failures without any evidence fail
\* the run, with evidence they go to the debugger.
verification_evidence(d) ==
  LET verdict == evidence[Now(d)][dispatcher[d].rev].verdict
  IN /\ At(d, "verify")
     /\ CASE verdict = "passing" -> Go(d, "review")
          [] verdict = "none"    -> GoWith(d, "to", "FAILED")
          [] OTHER               -> GoWith(d, "debug", verdict)
     /\ UNCHANGED <<run, world, stage, faults>>

\* What follows a release decision, stored or fresh.
Decided(d, outcome) == IF outcome = "approved" THEN Go(d, "hash") ELSE GoWith(d, "debug", outcome)

_load_release_decision(d) ==
  LET stored == decision[Now(d)][dispatcher[d].rev]
  IN /\ At(d, "review")
     /\ IF stored = "none" THEN Go(d, "reviewing") ELSE Decided(d, stored)
     /\ UNCHANGED <<run, world, stage, faults>>

\* What the reviewer's answer comes to once ReleaseReviewer.review has checked its
\* evidence: an approval needs an artifact that verifies now.
review(r, v) ==
  Failures \cup IF evidence[r][v].verdict = "none" THEN {} ELSE {"approved"}

\* Mutant: the last reviewer's answer wins.
_review_release_last_wins(d) ==
  /\ At(d, "reviewing")
  /\ \E outcome \in review(Now(d), dispatcher[d].rev) :
       decision' = [decision EXCEPT ![Now(d)][dispatcher[d].rev] = outcome] /\ Decided(d, outcome)
  /\ UNCHANGED <<run, plan, evidence, repairs, worktree, call, commits, candidate, memory, stage, faults>>

\* The reviewer's answer, audited, is stored under the revision's artifact id; a
\* decision that another dispatcher stored in the meantime makes put raise.
_review_release(d) ==
  LET r == Now(d)
      v == dispatcher[d].rev
  IN /\ At(d, "reviewing")
     /\ \E outcome \in review(r, v) :
          IF decision[r][v] = "none"
          THEN decision' = [decision EXCEPT ![r][v] = outcome] /\ Decided(d, outcome)
          ELSE /\ IF decision[r][v] = outcome THEN Decided(d, outcome) \/ Go(d, "release") ELSE Go(d, "release")
               /\ UNCHANGED decision
     /\ UNCHANGED <<run, plan, evidence, repairs, worktree, call, commits, candidate, memory, stage, faults>>

-----------------------------------------------------------------------------
(* Repair.                                                                  *)

\* _request_repair: the debugger works on the plan it reads here.
_request_repair(d) ==
  /\ At(d, "debug")
  /\ GoFor(d, "repair", plan[Now(d)].revision)
  /\ UNCHANGED <<run, world, stage, faults>>

Accepted(r) == {m \in repairs[r] : m.accepted}

\* Mutant: without the history and the base revision.
Repairable_any(r, base, failure) == base < MaxRevision

\* RepairPolicy.decide: no signature and no base revision is repaired twice, and
\* the mutation extends the current plan within max_dynamic_tasks.
Repairable(r, base, failure) ==
  /\ \A m \in Accepted(r) : m.failure # failure /\ m.base # base
  /\ base = plan[r].revision
  /\ base < MaxRevision

\* The same mutation again answers as it did.
_replayed_decision(r, row) == row \in repairs[r]

\* Mutant: the release goes on after a repair.
apply_continues(d) ==
  LET r == Now(d)
      row == [base |-> dispatcher[d].rev, failure |-> dispatcher[d].arg, accepted |-> TRUE]
  IN /\ At(d, "repair")
     /\ Repairable(r, dispatcher[d].rev, dispatcher[d].arg)
     /\ repairs' = [repairs EXCEPT ![r] = @ \cup {row}]
     /\ plan' = [plan EXCEPT ![r] = [revision |-> @.revision + 1, tasks |-> "unfinished"]]
     /\ Go(d, "review")
     /\ UNCHANGED <<run, evidence, decision, worktree, call, commits, candidate, memory, stage, faults>>

\* DurableRepairController.apply, under the run's lock, and its caller: an
\* accepted mutation adds a revision with unfinished tasks whatever state the run
\* is in; evidence may be corrupt by now and the mutation invalid, and then the
\* run fails.  A mutation id seen before answers as it did then.
apply(d) ==
  LET r == Now(d)
      row(b) == [base |-> dispatcher[d].rev, failure |-> dispatcher[d].arg, accepted |-> b]
  IN /\ At(d, "repair")
     /\ \/ /\ Repairable(r, dispatcher[d].rev, dispatcher[d].arg)
           /\ repairs' = [repairs EXCEPT ![r] = @ \cup {row(TRUE)}]
           /\ plan' = [plan EXCEPT ![r] = [revision |-> @.revision + 1, tasks |-> "unfinished"]]
           /\ Go(d, "release")
        \/ /\ repairs' = [repairs EXCEPT ![r] = @ \cup {row(FALSE)}]
           /\ GoWith(d, "to", "FAILED") /\ UNCHANGED plan
        \/ _replayed_decision(r, row(TRUE)) /\ Go(d, "release") /\ UNCHANGED <<plan, repairs>>
     /\ UNCHANGED <<run, evidence, decision, worktree, call, commits, candidate, memory, stage, faults>>

-----------------------------------------------------------------------------
(* Approval, commit and promotion.                                          *)

worktree_tree_hash(d) ==
  LET tree == worktree[Now(d)][dispatcher[d].rev]
  IN /\ At(d, "hash")
     /\ IF tree = Nobody THEN Go(d, "release") ELSE GoWith(d, "request", tree)
     /\ UNCHANGED <<run, world, stage, faults>>

\* approvals.request: the call is stored once per sink; another tree than the
\* stored one is an ApprovalBindingError.
request(d) ==
  LET r == Now(d)
      v == dispatcher[d].rev
      tree == dispatcher[d].arg
  IN /\ At(d, "request")
     /\ IF call[r][v].status = "NONE"
        THEN call' = [call EXCEPT ![r][v] = [status |-> "WAITING_FOR_APPROVAL", tree |-> tree,
                                             approval |-> "PENDING", late |-> FALSE]]
        ELSE UNCHANGED call
     /\ IF call[r][v].status = "NONE" \/ call[r][v].tree = tree
        THEN GoWith(d, "to", "WAITING_FOR_APPROVAL") ELSE Go(d, "release")
     /\ UNCHANGED <<run, plan, evidence, repairs, decision, worktree, commits, candidate, memory, stage, faults>>

\* The stored git_commit calls of the run, one of which the query returns.
_approval_identity(r) == {v \in Revisions : call[r][v].status # "NONE"}

\* _advance_approval up to the ownership check.
_advance_approval(d) ==
  LET r == Now(d)
  IN /\ At(d, "approval")
     /\ \/ _approval_identity(r) = {} /\ Go(d, "release")
        \/ \E v \in _approval_identity(r) :
             CASE call[r][v].approval = "PENDING"  -> Go(d, "release")
               [] call[r][v].approval = "APPROVED" -> GoFor(d, "hold", v)
               [] OTHER                            -> GoWith(d, "to", "FAILED")
     /\ UNCHANGED <<run, world, stage, faults>>

_holds_stage(d) ==
  /\ At(d, "hold")
  /\ Go(d, IF stage[Now(d)]["WAITING_FOR_APPROVAL"].owner = d THEN "authorize" ELSE "release")
  /\ UNCHANGED <<run, world, stage, faults>>

Granted(c) == c.approval = "APPROVED" /\ ~c.late

authorize(d) ==
  /\ At(d, "authorize")
  /\ Go(d, IF Granted(call[Now(d)][dispatcher[d].rev]) THEN "commit" ELSE "release")
  /\ UNCHANGED <<run, world, stage, faults>>

\* Mutant: whatever the worktree holds.
commit_task_worktree_blind(d) ==
  LET r == Now(d)
      v == dispatcher[d].rev
  IN /\ At(d, "commit")
     /\ IF worktree[r][v] # Nobody
        THEN commits' = [commits EXCEPT ![r] = @ \cup {[rev |-> v, tree |-> worktree[r][v]]}] /\ Go(d, "complete")
        ELSE UNCHANGED commits /\ Go(d, "release")
     /\ UNCHANGED <<run, plan, evidence, repairs, decision, worktree, call, candidate, memory, stage, faults>>

\* The staged tree has to be the approved one; committing it again changes nothing.
commit_task_worktree(d) ==
  LET r == Now(d)
      v == dispatcher[d].rev
      tree == worktree[r][v]
  IN /\ At(d, "commit")
     /\ IF tree = call[r][v].tree
        THEN commits' = [commits EXCEPT ![r] = @ \cup {[rev |-> v, tree |-> tree]}] /\ Go(d, "complete")
        ELSE UNCHANGED commits /\ Go(d, "release")
     /\ UNCHANGED <<run, plan, evidence, repairs, decision, worktree, call, candidate, memory, stage, faults>>

complete_approved(d) ==
  /\ At(d, "complete")
  /\ call' = [call EXCEPT ![Now(d)][dispatcher[d].rev].status = "COMPLETED"]
  /\ Go(d, "candidate")
  /\ UNCHANGED <<run, plan, evidence, repairs, decision, worktree, commits, candidate, memory, stage, faults>>

\* deterministic_memory_id hashes the project and the content: goal, commit and plan.
\* A run has one lesson and one candidate here; the code makes one per commit.
Lesson(r) == CHOOSE l \in Lessons : r \in l

promoted_twin(r) == {q \in Runs \ {r} : Lesson(q) = Lesson(r) /\ candidate[q] = "PROMOTED"}

\* _promote_run_memory: the candidate, unless a run with the same lesson was promoted.
_promote_run_memory(d) ==
  LET r == Now(d)
  IN /\ At(d, "candidate")
     /\ IF candidate[r] = "NONE" /\ promoted_twin(r) # {}
        THEN GoWith(d, "to", "COMPLETED") /\ UNCHANGED candidate
        ELSE /\ candidate' = [candidate EXCEPT ![r] = IF @ = "NONE" THEN "PROPOSED" ELSE @]
             /\ Go(d, "gate")
     /\ UNCHANGED <<run, plan, evidence, repairs, decision, worktree, call, commits, memory, stage, faults>>

\* _advance_memory: the candidate exists, the sink is the latest revision's.
_advance_memory(d) ==
  /\ At(d, "memory")
  /\ GoFor(d, IF candidate[Now(d)] = "NONE" THEN "release" ELSE "gate", plan[Now(d)].revision)
  /\ UNCHANGED <<run, world, stage, faults>>

promotion_review(r, v) ==
  [outcome_verified |-> plan[r].tasks = "completed" \/ v # plan[r].revision,
   artifact_evidence_verified |-> \A w \in Revisions : evidence[r][w].intact,
   verification_passed |-> evidence[r][v].tools /\ call[r][v].status # "WAITING_FOR_APPROVAL"]

\* PromotionGate.evaluate: every signal, without which the quality is too low as well.
evaluate(p) == p.outcome_verified /\ p.artifact_evidence_verified /\ p.verification_passed

\* promote up to the call of UAMS; the run of a refused candidate waits.
promote(d) ==
  LET r == Now(d)
      accepted == evaluate(promotion_review(r, dispatcher[d].rev))
  IN /\ At(d, "gate")
     /\ candidate' = [candidate EXCEPT ![r] = IF accepted THEN "PROMOTING" ELSE "REJECTED"]
     /\ IF accepted THEN Go(d, "remember")
        ELSE IF dispatcher[d].state = "WAITING_FOR_MEMORY" THEN Go(d, "release")
        ELSE GoWith(d, "to", "WAITING_FOR_MEMORY")
     /\ UNCHANGED <<run, plan, evidence, repairs, decision, worktree, call, commits, memory, stage, faults>>

\* UAMS upserts by the deterministic id; unavailable, or not yet searchable.
remember(d) ==
  /\ At(d, "remember")
  /\ \/ memory' = memory \cup {Lesson(Now(d))} /\ Go(d, "promoted") /\ UNCHANGED faults
     \/ /\ Fault("uams")
        /\ memory' \in {memory, memory \cup {Lesson(Now(d))}} /\ Go(d, "unavailable")
  /\ UNCHANGED <<run, plan, evidence, repairs, decision, worktree, call, commits, candidate, stage>>

_set_local_state(d) ==
  /\ At(d, "unavailable")
  /\ candidate' = [candidate EXCEPT ![Now(d)] = "WAITING_FOR_MEMORY"]
  /\ IF dispatcher[d].state = "WAITING_FOR_MEMORY" THEN Go(d, "release")
     ELSE GoWith(d, "to", "WAITING_FOR_MEMORY")
  /\ UNCHANGED <<run, plan, evidence, repairs, decision, worktree, call, commits, memory, stage, faults>>

_complete(d) ==
  /\ At(d, "promoted")
  /\ candidate' = [candidate EXCEPT ![Now(d)] = "PROMOTED"]
  /\ GoWith(d, "to", "COMPLETED")
  /\ UNCHANGED <<run, plan, evidence, repairs, decision, worktree, call, commits, memory, stage, faults>>

_cleanup_run(d) ==
  /\ At(d, "cleanup")
  /\ worktree' = [worktree EXCEPT ![Now(d)] = [v \in Revisions |-> Nobody]]
  /\ Go(d, "release")
  /\ UNCHANGED <<run, plan, evidence, repairs, decision, call, commits, candidate, memory, stage, faults>>

-----------------------------------------------------------------------------
(* Faults.                                                                  *)

Owns(d, r, s) == dispatcher[d].run = r /\ dispatcher[d].state = s /\ dispatcher[d].at \notin {"idle", "claim"}

\* The dispatcher dies and comes back without its claim.
crash(d) ==
  /\ ~At(d, "idle") /\ Fault("crash")
  /\ dispatcher' = [dispatcher EXCEPT ![d] = Resting]
  /\ UNCHANGED <<run, world, stage>>

\* A model, Git or UAMS call raises, or the tasks of a mutation collide with stored ones.
raises(d) ==
  /\ dispatcher[d].at \in {"reviewing", "debug", "repair", "hash", "commit", "remember"}
  /\ Fault("raise") /\ Go(d, "release")
  /\ UNCHANGED <<run, world, stage>>

\* _stage_stale_after has passed: a dead owner's claim always gets there, a live
\* one's when it is slower than that.
goes_stale(r, s) ==
  /\ stage[r][s].running /\ ~stage[r][s].stale
  /\ IF Owns(stage[r][s].owner, r, s) THEN Fault("slow") ELSE UNCHANGED faults
  /\ stage' = [stage EXCEPT ![r][s].stale = TRUE]
  /\ UNCHANGED <<run, world, dispatcher>>

\* Somebody writes to the worktree of a sink after its task.
worktree_changes(r, v) ==
  /\ worktree[r][v] # Nobody /\ Fault("edit")
  /\ \E tree \in Trees \ {worktree[r][v]} : worktree' = [worktree EXCEPT ![r][v] = tree]
  /\ UNCHANGED <<run, plan, evidence, repairs, decision, call, commits, candidate, memory, stage, dispatcher>>

\* An artifact of the latest revision stops matching its hash.
evidence_corrupts(r) ==
  /\ evidence[r][plan[r].revision].verdict = "passing" /\ Fault("corrupt")
  /\ \E verdict \in {"none"} \cup Failures :
       evidence' = [evidence EXCEPT ![r][plan[r].revision].verdict = verdict, ![r][plan[r].revision].intact = FALSE]
  /\ UNCHANGED <<run, plan, repairs, decision, worktree, call, commits, candidate, memory, stage, dispatcher>>

-----------------------------------------------------------------------------

Advance(d) ==
  \/ advance_next(d) \/ _claim_stage(d) \/ _release_stage(d) \/ _transition_run(d)
  \/ _advance_executing(d) \/ verification_evidence(d) \/ _load_release_decision(d) \/ _review_release(d)
  \/ _request_repair(d) \/ apply(d) \/ worktree_tree_hash(d) \/ request(d)
  \/ _advance_approval(d) \/ _holds_stage(d) \/ authorize(d) \/ commit_task_worktree(d)
  \/ complete_approved(d) \/ _promote_run_memory(d) \/ _advance_memory(d) \/ promote(d)
  \/ remember(d) \/ _set_local_state(d) \/ _complete(d) \/ _cleanup_run(d)

Next ==
  \/ \E d \in Dispatchers : Advance(d) \/ crash(d) \/ raises(d)
  \/ \E r \in Runs :
       \/ tasks_finish(r) \/ cancel_run(r) \/ cancel_requested_runs(r) \/ evidence_corrupts(r)
       \/ \E s \in Advanced : goes_stale(r, s)
       \/ \E v \in Revisions :
            \/ approval_expires(r, v) \/ worktree_changes(r, v)
            \/ \E approved \in BOOLEAN : decide(r, v, approved)

Spec == Init /\ [][Next]_vars

-----------------------------------------------------------------------------
(* What the finalization promises.                                          *)

\* A release commit holds the tree that the operator approved for a revision whose
\* review approved it: commit_task_worktree compares the staged tree with the one
\* the approval binds, whatever was written to the worktree in between and however
\* often the dispatcher died.  (A decision repeated after expiry turns the row of
\* an approval already used to EXPIRED.)
CommitIsApproved ==
  \A r \in Runs : \A c \in commits[r] :
    /\ call[r][c.rev].tree = c.tree
    /\ call[r][c.rev].approval \in {"APPROVED", "EXPIRED"}
    /\ decision[r][c.rev] = "approved"

\* What the gate, the reviewer and the debugger read is what the tasks left.
Intact(r) == \A v \in Revisions : evidence[r][v].intact

\* A COMPLETED run has its commit, the completed record of it and its memory, its own
\* or that of a promoted twin with the same lesson: no path through replays, takeovers
\* and UAMS outages skips one of the three.  And it has no task left, although a repair
\* adds tasks without looking at the run's state and a dispatcher may act on a state
\* read long ago.  (Evidence that is corrupted after the promotion gate looked at it
\* may send a displaced dispatcher to the debugger.)
CompletedIsDelivered ==
  \A r \in Runs : run[r].state = "COMPLETED" =>
    /\ \E c \in commits[r] : call[r][c.rev].status = "COMPLETED"
    /\ Lesson(r) \in memory
    /\ Intact(r) => plan[r].tasks = "completed"

\* However many dispatchers work on a run, when one displaces another that is still
\* at work and when one dies after the request, one revision asks for a release:
\* _approval_identity, which takes any git_commit call of the run, finds the one the
\* operator decides on.  (Evidence that is corrupted after the request may send the
\* run back to the debugger, and a second revision then asks again.)
OneRelease ==
  \A r \in Runs : Intact(r) =>
    Cardinality({v \in Revisions : call[r][v].status # "NONE"}) <= 1

\* Each revision after the first is one accepted repair, and no two accepted repairs
\* share the failure they answer or the revision they extend: the debugger is not
\* paid twice for one failure, even by dispatchers that race.
RepairsAreProgress ==
  \A r \in Runs :
    /\ plan[r].revision = 1 + Cardinality(Accepted(r))
    /\ \A m, n \in Accepted(r) : m.failure = n.failure \/ m.base = n.base => m = n

Oldest(r) == \A q \in Runs : q < r => run[q].state \in TerminalRun

InOrder ==
  \A r \in Runs :
    /\ run[r].state \in TerminalRun => run'[r].state = run[r].state
    /\ run'[r].state \notin {run[r].state, "CANCELLED"} => Oldest(r)

\* Runs settle in order and for good: advance_next takes the first run by created_at,
\* and a dispatcher that read a run's state long ago does not move it once it settled.
RunsStaySettled == [][InOrder]_vars

-----------------------------------------------------------------------------
(* What comments state, and the code does not keep.                         *)

\* cancel_requested_runs: "cancel every non-terminal task, then transition the run
\* itself to CANCELLED": a cancelled run has no task left to schedule.
CancelledIsQuiet ==
  \A r \in Runs : run[r].state = "CANCELLED" => plan[r].tasks # "unfinished"

\* _advance_approval: the ownership check "keeps the git commit and the external
\* memory write single-shot": two dispatchers never write one run's memory at once.
SingleShot ==
  \A d, e \in Dispatchers : At(d, "remember") /\ At(e, "remember") /\ Now(d) = Now(e) => d = e
=============================================================================
