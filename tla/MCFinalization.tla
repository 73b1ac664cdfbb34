---------------------------- MODULE MCFinalization ----------------------------
(***************************************************************************)
(* The finalization of runs for TLC: what may be committed and remembered,  *)
(* what a settled run leaves behind, and that every run gets there.  A      *)
(* behaviour belongs to one of four instances: one run and one dispatcher   *)
(* with every fault but slowness, one run and two dispatchers of which one  *)
(* may be slow, two runs in a queue, and one run under fairness.            *)
(***************************************************************************)
EXTENDS Finalization
VARIABLE instance

Release == INSTANCE Finalization WITH
  Runs <- {1}, Dispatchers <- {"d1"}, Faults <- {"crash", "raise", "edit", "corrupt", "uams"}
Contention == INSTANCE Finalization WITH
  Runs <- {1}, Trees <- {"t1"}, Faults <- {"slow", "crash"}, MaxFaults <- 1
Queue == INSTANCE Finalization WITH
  Dispatchers <- {"d1"}, Trees <- {"t1"}, Faults <- {}
One == INSTANCE Finalization WITH
  Runs <- {1}, Dispatchers <- {"d1"}, Trees <- {"t1"}, Faults <- {"crash", "uams"}

MCInit == Init /\ instance \in {"release", "contention", "queue", "fair"}

NoRepair == \A r \in Runs : plan'[r].revision = 1
NoExpiry == \A v \in Revisions : ~call'[1][v].late
\* The trees are interchangeable: t2 is the other one.
FirstTree == faults' = 0 => \A v \in Revisions : worktree'[1][v] # "t2"

MCNext ==
  \/ instance = "release" /\ Release!Next /\ FirstTree /\ UNCHANGED instance
  \/ instance = "contention" /\ Contention!Next /\ NoExpiry /\ UNCHANGED instance
  \/ instance = "queue" /\ Queue!Next /\ NoRepair /\ UNCHANGED instance
  \/ instance = "fair" /\ One!Next /\ UNCHANGED instance

\* Dispatchers poll, workers finish, the scheduler sweeps and claims age.  The
\* operator need not decide, and may never cancel.
Fairness ==
  LET on == instance = "fair" IN
  /\ WF_vars(on /\ One!Advance("d1"))
  /\ WF_vars(on /\ One!tasks_finish(1)) /\ WF_vars(on /\ cancel_requested_runs(1))
  /\ \A s \in Advanced : WF_vars(on /\ One!goes_stale(1, s) /\ UNCHANGED faults)

MCSpec == MCInit /\ [][MCNext]_<<vars, instance>> /\ Fairness

\* Runs settle in order, for good and in the end.  The oldest run leaves EXECUTING
\* through crashes of its dispatcher, rejected reviews and repairs, and an approval
\* granted in time leads to its end, unless it expires before the dispatcher uses it,
\* the worktree changes or the promotion gate rejects the candidate.
RunsSettleInOrder ==
  /\ RunsStaySettled
  /\ instance = "fair" => (run[1].state = "EXECUTING" ~> run[1].state # "EXECUTING")
  /\ instance = "fair" =>
       \A v \in Revisions :
         run[1].state = "WAITING_FOR_APPROVAL" /\ Granted(call[1][v]) ~>
           \/ run[1].state \in TerminalRun
           \/ call[1][v].late \/ worktree[1][v] # call[1][v].tree \/ candidate[1] = "REJECTED"
=============================================================================
