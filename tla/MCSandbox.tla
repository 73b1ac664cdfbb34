------------------------------ MODULE MCSandbox ------------------------------
(***************************************************************************)
(* The sandbox for TLC: the life of an execution's container under the      *)
(* manager, and what the runner makes of its output, which share no state.  *)
(* A behaviour is one of two requests that race, of requests under          *)
(* fairness, or of the output of one container.                             *)
(***************************************************************************)
EXTENDS Sandbox, Reports
VARIABLE part

outputVars == <<container, pipe, written, collector, stopped, cpu, late, pids, runner, result>>

MCInit == Init /\ O!Init /\ part \in {"race", "fair", "output"}

OneRequest == req'["r2"] = Unsent

MCNext ==
  \/ part = "race" /\ Next /\ UNCHANGED <<part, outputVars>>
  \/ part = "fair" /\ Next /\ OneRequest /\ UNCHANGED <<part, outputVars>>
  \/ part = "output" /\ O!Next /\ UNCHANGED <<part, vars>>

\* Handlers run on, clocks advance and Docker Compose restarts the manager; a
\* container need not end by itself.
Fairness ==
  LET on == part = "fair" IN
  /\ WF_vars(on /\ Handle("r1")) /\ WF_vars(on /\ deadline("r1"))
  /\ WF_vars(on /\ restart) /\ WF_vars(on /\ reap)

MCSpec == MCInit /\ [][MCNext]_<<part, vars, outputVars>> /\ Fairness

-----------------------------------------------------------------------------

\* Every request is answered or lost in a crash, whatever the command does.  And a
\* container stops at its limits or with the request that runs it, unless the manager
\* died or a call of Docker failed.
ExecutionsEnd ==
  /\ part = "fair" => (req["r1"].at \notin Over ~> req["r1"].at \in Over)
  /\ part = "fair" =>
       \A c \in Containers : docker[c] = "running" ~> docker[c] # "running" \/ faults > 0
=============================================================================
