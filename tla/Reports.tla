------------------------------ MODULE Reports -------------------------------
(***************************************************************************)
(* The output of an execution beside the life of its container:            *)
(* SandboxOutput with constants and variables of its own, and what is      *)
(* stated of it.                                                           *)
(***************************************************************************)
EXTENDS Integers

CONSTANTS Chunks, MaxFrames, MaxStdout, MaxStderr, MaxTotal, SlowDrain

\* Lengths and limits are numbers.
Sizes == Chunks \in SUBSET Nat /\ MaxStdout \in Nat /\ MaxStderr \in Nat /\ MaxTotal \in Nat
ASSUME ReportsAssumption == Sizes

VARIABLES container, pipe, written, collector, stopped, cpu, late, pids, runner, result

O == INSTANCE SandboxOutput WITH cancelled <- stopped

\* The report of an execution tells what happened.  One reported COMPLETED or
\* NON_ZERO_EXIT kept within its output limits (test_output_capture.py: "output limit
\* in final drain cannot report success"), as long as the collector is done when the
\* waits for it are over.  What is kept is the longest prefix the limit allows of what
\* was read, so a stream flagged whole is whole.  measurement_complete means that every
\* byte the container wrote was counted.  A container the runner killed is reported
\* with the limit it was killed for, never as having ended by itself.
ReportIsTruthful == O!ReportIsTruthful
=============================================================================
