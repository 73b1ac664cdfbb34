----------------------------- MODULE TaskEvents -----------------------------
(***************************************************************************)
(* The event stream of a task: transactions that stamp an audit event when  *)
(* they build it and show it when they commit, and the WebSocket handler    *)
(* that polls for what is behind its cursor (apps/api/websocket.py and      *)
(* task_events of apps/api/routes.py).                                      *)
(***************************************************************************)
EXTENDS Integers, Sequences, FiniteSets

CONSTANTS
  Writers,    \* components that write events of the task
  Nothing,
  MaxEvents,  \* bound on the events
  Limit       \* rows per poll: 100

VARIABLES
  clock,      \* (created_at, id) of the last event stamped, as one number
  open,       \* the stamp of a writer's event that is not committed
  committed,
  task,       \* TaskRow.state: "running" or "settled"
  socket, sent

vars == <<clock, open, committed, task, socket, sent>>

Connection == [at: {"new", "poll", "send", "check", "closed", "gone"}, known: {"running", "settled"},
               cursor: Nat, batch: SUBSET Nat]
Unconnected == [at |-> "new", known |-> "running", cursor |-> 0, batch |-> {}]
Sent == {sent[i] : i \in 1..Len(sent)}

TypeOK ==
  /\ clock \in 0..MaxEvents /\ committed \subseteq 1..clock
  /\ \A w \in Writers : open[w] # Nothing => open[w] \in 1..clock
  /\ task \in {"running", "settled"} /\ socket \in Connection
  /\ socket.batch \cup Sent \subseteq committed /\ Cardinality(socket.batch) <= Limit

Init ==
  /\ clock = 0 /\ open = [w \in Writers |-> Nothing] /\ committed = {}
  /\ task = "running" /\ socket = Unconnected /\ sent = <<>>

-----------------------------------------------------------------------------

\* append_audit: created_at is the writer's clock at the flush.
append_audit(w) ==
  /\ open[w] = Nothing /\ clock < MaxEvents /\ task = "running"
  /\ clock' = clock + 1 /\ open' = [open EXCEPT ![w] = clock']
  /\ UNCHANGED <<committed, task, socket, sent>>

\* The commit, which may be the one that settles the task.
commit(w) ==
  /\ open[w] # Nothing
  /\ committed' = committed \cup {open[w]} /\ open' = [open EXCEPT ![w] = Nothing]
  /\ task' \in {task, "settled"}
  /\ UNCHANGED <<clock, socket, sent>>

\* task_events up to accept: the row is read once.
accept ==
  /\ socket.at = "new" /\ socket' = [socket EXCEPT !.at = "poll", !.known = task]
  /\ UNCHANGED <<clock, open, committed, task, sent>>

\* The events behind the cursor, and how many of them one query returns.
later == {e \in committed : e > socket.cursor}
PageSize == IF Cardinality(later) < Limit THEN Cardinality(later) ELSE Limit
Polls(rows) ==
  /\ socket.at = "poll" /\ Cardinality(rows) = PageSize
  /\ socket' = [socket EXCEPT !.at = "send", !.batch = rows]
  /\ UNCHANGED <<clock, open, committed, task, sent>>

\* Mutant: the newest events.
next_events_newest ==
  \E rows \in SUBSET later : (\A e \in rows, f \in later \ rows : f < e) /\ Polls(rows)

\* ORDER BY created_at, id LIMIT: a page of the oldest events behind the cursor.
next_events ==
  \E rows \in SUBSET later : (\A e \in rows, f \in later \ rows : e < f) /\ Polls(rows)

\* The for loop goes through the page in order; the cursor follows each event sent.
send_json ==
  /\ socket.at = "send"
  /\ \/ socket.batch = {} /\ socket' = [socket EXCEPT !.at = "check"] /\ UNCHANGED sent
     \/ \E e \in socket.batch :
          /\ \A f \in socket.batch : e <= f
          /\ sent' = Append(sent, e)
          /\ socket' = [socket EXCEPT !.batch = @ \ {e}, !.cursor = e]
  /\ UNCHANGED <<clock, open, committed, task>>

\* The end of a round: stream.closed if the task was settled when it was read.
stream_closed ==
  /\ socket.at = "check"
  /\ socket' = [socket EXCEPT !.at = IF socket.known = "settled" THEN "closed" ELSE "poll"]
  /\ UNCHANGED <<clock, open, committed, task, sent>>

\* The client leaves, or a send fails.
disconnect ==
  /\ socket.at \in {"poll", "send", "check"} /\ socket' = [socket EXCEPT !.at = "gone"]
  /\ UNCHANGED <<clock, open, committed, task, sent>>

Handle == next_events \/ send_json \/ stream_closed

Next == (\E w \in Writers : append_audit(w) \/ commit(w)) \/ accept \/ Handle \/ disconnect

Spec == Init /\ [][Next]_vars

-----------------------------------------------------------------------------

Streaming == socket.at \in {"poll", "send", "check"}

\* The client sees every event at most once and in the order of the cursor.
SentInOrder == \A i, j \in 1..Len(sent) : i < j => sent[i] < sent[j]

\* The client sees every event at most once and in the order of the cursor, and where
\* one component writes the events of a task, none that was committed is behind the
\* cursor without having been sent, however polls and commits interleave.
StreamIsFaithful == SentInOrder /\ \A e \in committed : e <= socket.cursor => e \in Sent

-----------------------------------------------------------------------------
(* What the comments state, and the code does not keep.                     *)

\* routes.py: "A settled task has nothing further to emit", so the stream that was
\* closed for that reason has sent what there is.
ClosedIsComplete ==
  socket.at = "closed" => committed \subseteq Sent

\* routes.py: "Without this the socket polled at 2 Hz until the client happened to
\* disconnect": the stream of a task that has settled is closed.
SettledStreamCloses ==
  Streaming /\ task = "settled" ~> ~Streaming
=============================================================================
