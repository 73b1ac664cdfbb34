---------------------------- MODULE SandboxOutput ----------------------------
(***************************************************************************)
(* run_created of execution/sandbox/runner.py: the container writes, the    *)
(* collector thread counts and keeps what it reads, and the runner's loop   *)
(* watches the limits, drains and builds the SandboxExecution.  A chunk is  *)
(* its length.                                                              *)
(***************************************************************************)
EXTENDS Integers, Sequences

CONSTANTS
  Chunks,      \* lengths of the frames the container writes
  MaxFrames,   \* bound on the frames
  MaxStdout, MaxStderr, MaxTotal,  \* SandboxPolicy
  SlowDrain    \* whether the collector may still be reading when the waits are over

VARIABLES
  container,  \* running or not, its exit code and OOMKilled
  pipe,       \* frames written and not read
  written,    \* bytes and frames written
  collector,  \* _OutputCollector
  cancelled, cpu, late, pids,  \* the limits that are not about output
  runner,     \* position and `triggered`
  result

limits == <<cancelled, cpu, late, pids>>
vars == <<container, pipe, written, collector, limits, runner, result>>

Streams == {"stdout", "stderr"}
Frame == [stream: Streams, bytes: Nat, upto: Nat]   \* upto: where it ends in what was written
Triggers == {"cancellation", "output_bytes", "cpu_time", "wall_time"}
Reasons == {"CANCELLED", "OUTPUT_LIMIT", "CPU_LIMIT", "TIMEOUT", "MEMORY_LIMIT", "PID_LIMIT", "COMPLETED", "NON_ZERO_EXIT"}
Limit == [stdout |-> MaxStdout, stderr |-> MaxStderr]
Total(counts) == counts["stdout"] + counts["stderr"]
Least(m, n) == IF m < n THEN m ELSE n

_OutputCollector ==
  [bytes: [Streams -> Nat], kept: [Streams -> Nat], limit_reached: BOOLEAN, complete: BOOLEAN, failed: BOOLEAN]
Runner ==
  [at: {"watch", "reload", "drain", "check", "reason", "result", "done"}, triggered: Triggers \cup {"no"},
   killed: BOOLEAN]
SandboxExecution ==
  [reason: Reasons \cup {"none"}, counted: [Streams -> Nat], kept: [Streams -> Nat],
   truncated: [Streams -> BOOLEAN], complete: BOOLEAN]
NoResult == [reason |-> "none", counted |-> [s \in Streams |-> 0], kept |-> [s \in Streams |-> 0],
             truncated |-> [s \in Streams |-> FALSE], complete |-> FALSE]

TypeOK ==
  /\ container \in [running: BOOLEAN, code: {0, 1, 137}, oom: BOOLEAN]
  /\ pipe \in Seq(Frame) /\ written \in [bytes: Nat, frames: Nat]
  /\ collector \in _OutputCollector /\ runner \in Runner /\ result \in SandboxExecution
  /\ cancelled \in BOOLEAN /\ cpu \in BOOLEAN /\ late \in BOOLEAN /\ pids \in BOOLEAN

Init ==
  /\ container = [running |-> TRUE, code |-> 0, oom |-> FALSE]
  /\ pipe = <<>> /\ written = [bytes |-> 0, frames |-> 0]
  /\ collector = [bytes |-> [s \in Streams |-> 0], kept |-> [s \in Streams |-> 0],
                  limit_reached |-> FALSE, complete |-> FALSE, failed |-> FALSE]
  /\ cancelled = FALSE /\ cpu = FALSE /\ late = FALSE /\ pids = FALSE
  /\ runner = [at |-> "watch", triggered |-> "no", killed |-> FALSE]
  /\ result = NoResult

-----------------------------------------------------------------------------
(* The container and the world                                              *)

writes(s, n) ==
  /\ container.running /\ written.frames < MaxFrames
  /\ pipe' = Append(pipe, [stream |-> s, bytes |-> n, upto |-> written.bytes + n])
  /\ written' = [bytes |-> written.bytes + n, frames |-> written.frames + 1]
  /\ UNCHANGED <<container, collector, limits, runner, result>>

exits ==
  /\ container.running
  /\ \E code \in {0, 1}, oom \in BOOLEAN :
       container' = [running |-> FALSE, code |-> IF oom THEN 137 ELSE code, oom |-> oom]
  /\ UNCHANGED <<pipe, written, collector, limits, runner, result>>

reaches_limit ==
  /\ \/ cancelled' = TRUE /\ UNCHANGED <<cpu, late, pids>>
     \/ cpu' = TRUE /\ UNCHANGED <<cancelled, late, pids>>
     \/ late' = TRUE /\ UNCHANGED <<cancelled, cpu, pids>>
     \/ pids' = TRUE /\ UNCHANGED <<cancelled, cpu, late>>
  /\ UNCHANGED <<container, pipe, written, collector, runner, result>>

-----------------------------------------------------------------------------
(* _OutputCollector                                                         *)

_append(c, frame) ==
  LET s == frame.stream
      bytes == [c.bytes EXCEPT ![s] = @ + frame.bytes]
      kept == [c.kept EXCEPT ![s] = Least(@ + frame.bytes, Limit[s])]
      reached == c.limit_reached \/ bytes[s] > Limit[s] \/ Total(bytes) > MaxTotal
  IN  [c EXCEPT !.bytes = bytes, !.kept = kept, !.limit_reached = reached]

\* A frame, the end of the stream, or an error of it.
consume ==
  /\ ~collector.complete
  /\ \/ /\ pipe # <<>> /\ pipe' = Tail(pipe)
        /\ collector' = _append(collector, Head(pipe))
     \/ /\ pipe = <<>> /\ ~container.running /\ UNCHANGED pipe
        /\ collector' = [collector EXCEPT !.complete = TRUE]
     \/ collector' = [collector EXCEPT !.complete = TRUE, !.failed = TRUE] /\ UNCHANGED pipe
  /\ UNCHANGED <<container, written, limits, runner, result>>

-----------------------------------------------------------------------------
(* The loop of run_created and what follows it                              *)

\* The if chain; without a limit, what an earlier round found stays.
Trigger ==
  IF cancelled THEN "cancellation"
  ELSE IF collector.limit_reached THEN "output_bytes"
  ELSE IF cpu THEN "cpu_time"
  ELSE IF late THEN "wall_time"
  ELSE runner.triggered

watch ==
  /\ runner.at = "watch"
  /\ runner' = [at |-> "reload", triggered |-> Trigger,
                killed |-> runner.killed \/ (Trigger # "no" /\ container.running)]
  /\ container' = IF Trigger # "no" /\ container.running
                    THEN [running |-> FALSE, code |-> 137, oom |-> FALSE] ELSE container
  /\ UNCHANGED <<pipe, written, collector, limits, result>>

reload ==
  /\ runner.at = "reload"
  /\ runner' = [runner EXCEPT !.at = IF container.running THEN "watch" ELSE "drain"]
  /\ UNCHANGED <<container, pipe, written, collector, limits, result>>

\* The finally clause: complete.wait, closing the stream, join.
drain ==
  /\ runner.at = "drain" /\ (collector.complete \/ SlowDrain)
  /\ runner' = [runner EXCEPT !.at = "check"]
  /\ UNCHANGED <<container, pipe, written, collector, limits, result>>

check ==
  /\ runner.at = "check"
  /\ runner' = [runner EXCEPT !.at = "reason",
                              !.triggered = IF @ = "no" /\ collector.limit_reached THEN "output_bytes" ELSE @]
  /\ UNCHANGED <<container, pipe, written, collector, limits, result>>

\* How a container ended that no limit of the runner stopped.
Ending ==
  IF container.oom THEN "MEMORY_LIMIT"
  ELSE IF container.code = 0 THEN "COMPLETED"
  ELSE IF pids THEN "PID_LIMIT" ELSE "NON_ZERO_EXIT"

TriggeredReason ==
  [cancellation |-> "CANCELLED", output_bytes |-> "OUTPUT_LIMIT", cpu_time |-> "CPU_LIMIT", wall_time |-> "TIMEOUT"]

_exit_reason(triggered) == IF triggered = "no" THEN Ending ELSE TriggeredReason[triggered]

decide ==
  /\ runner.at = "reason"
  /\ result' = [result EXCEPT !.reason = _exit_reason(runner.triggered)]
  /\ runner' = [runner EXCEPT !.at = "result"]
  /\ UNCHANGED <<container, pipe, written, collector, limits>>

\* Mutant: a stream that broke does not count.
execution_unbroken ==
  /\ runner.at = "result"
  /\ result' = [result EXCEPT !.counted = collector.bytes, !.kept = collector.kept,
                              !.truncated = [s \in Streams |-> collector.bytes[s] > collector.kept[s]],
                              !.complete = TRUE]
  /\ runner' = [runner EXCEPT !.at = "done"]
  /\ UNCHANGED <<container, pipe, written, collector, limits>>

\* SandboxExecution and SandboxResult; a sample of the statistics may have failed.
execution ==
  /\ runner.at = "result"
  /\ \E samples \in BOOLEAN :
       result' = [result EXCEPT !.counted = collector.bytes, !.kept = collector.kept,
                                !.truncated = [s \in Streams |-> collector.bytes[s] > collector.kept[s]],
                                !.complete = samples /\ ~collector.failed]
  /\ runner' = [runner EXCEPT !.at = "done"]
  /\ UNCHANGED <<container, pipe, written, collector, limits>>

run_created == watch \/ reload \/ drain \/ check \/ decide \/ execution

Next ==
  \/ \E s \in Streams, n \in Chunks : writes(s, n)
  \/ exits \/ reaches_limit \/ consume \/ run_created

Spec == Init /\ [][Next]_vars

-----------------------------------------------------------------------------

Done == runner.at = "done"

\* An execution reported COMPLETED or NON_ZERO_EXIT kept within its output limits.
SuccessIsWithinLimits ==
  Done /\ result.reason \in {"COMPLETED", "NON_ZERO_EXIT"} =>
    /\ \A s \in Streams : result.counted[s] <= Limit[s]
    /\ Total(result.counted) <= MaxTotal

\* What is kept is the longest prefix the limit allows of what was read, so a stream
\* flagged whole is whole.
KeptIsPrefix ==
  Done => \A s \in Streams : /\ result.kept[s] = Least(result.counted[s], Limit[s])
                             /\ result.truncated[s] <=> result.counted[s] > Limit[s]

\* measurement_complete means that every byte the container wrote was counted.
CompleteCountsAll ==
  Done /\ result.complete => Total(result.counted) = written.bytes

\* A container the runner killed is reported with the limit it was killed for, never
\* as having ended by itself.
KillIsExplained ==
  Done /\ runner.killed => result.reason \in {"CANCELLED", "OUTPUT_LIMIT", "CPU_LIMIT", "TIMEOUT"}

\* The report of an execution tells what happened: test_output_capture.py, "output
\* limit in final drain cannot report success", and the rest of its counts and reasons,
\* as long as the collector is done when the waits for it are over.
ReportIsTruthful == SuccessIsWithinLimits /\ KeptIsPrefix /\ CompleteCountsAll /\ KillIsExplained
=============================================================================
