----------------------------- MODULE Retention -----------------------------
(***************************************************************************)
(* Retention of what one run leaves behind: RetentionService                *)
(* (messaging/retention.py) beside the operations that create, reference    *)
(* and settle the records.  Time is a counter; the policy's periods are     *)
(* numbers of its ticks.                                                    *)
(***************************************************************************)
EXTENDS Integers, FiniteSets

CONSTANTS
  Messages, Calls,
  LastWrite,    \* bound on the time of the records' creation and decision
  MaxTime,      \* bound on the clock
  PayloadPeriod, DeadLetterPeriod, MetadataPeriod, CheckpointPeriod  \* RetentionPolicy

VARIABLES
  now,          \* the clock
  run,          \* RunRow.state: "active" or "terminal", and since when
  message,      \* AgentMessageRow: time of creation, payload kept, purged, or no row
  tool,         \* ToolExecutionRow
  approval,     \* ApprovalRow of a call
  audit_events,       \* AuditEventRow
  candidate,    \* MemoryCandidateRow, made from a message
  letter,       \* a dead letter: none, open or resolved
  event,        \* an outbox row: pending, published or parked
  checkpoints   \* checkpoint chains and node boundaries of the run

records == <<message, tool, approval, audit_events, candidate, letter, event, checkpoints>>
vars == <<now, run, records>>

None == [at |-> 0, status |-> "none"]
CURRENT_PROMOTION_STATES == {"PENDING", "PROMOTING", "WAITING_FOR_MEMORY"}
Subjects == ({"message"} \X Messages) \cup ({"tool_call", "approval"} \X Calls) \cup {<<"memory_candidate", 0>>, <<"run", 0>>}

Dated(statuses) == [at: 0..MaxTime, status: statuses \cup {"none"}]

TypeOK ==
  /\ now \in 0..MaxTime /\ run \in [state: {"active", "terminal"}, since: 1..MaxTime]
  /\ message \in [Messages -> Dated({"kept", "purged"})]
  /\ tool \in [Calls -> Dated({"claimed", "terminal"})]
  /\ approval \in [Calls -> Dated({"PENDING", "DECIDED", "EXPIRED"})]
  /\ audit_events \subseteq [of: Subjects, at: 0..MaxTime]
  /\ candidate \in [status: CURRENT_PROMOTION_STATES \cup {"none", "PROMOTED", "REJECTED"}, from: Messages]
  /\ letter \in Dated({"open", "resolved"}) /\ event \in Dated({"pending", "published", "parked"})
  /\ checkpoints \in BOOLEAN

Init ==
  /\ now = 1 /\ run = [state |-> "active", since |-> 1]
  /\ message = [m \in Messages |-> None] /\ tool = [c \in Calls |-> None] /\ approval = [c \in Calls |-> None]
  /\ audit_events = {}
  /\ candidate \in [status: {"none"}, from: Messages]
  /\ letter = None /\ event = [at |-> 0, status |-> "pending"] /\ checkpoints = TRUE

Writable == now <= LastWrite
New(status) == [at |-> now, status |-> status]
Audit(kind, id) == audit_events' = audit_events \cup {[of |-> <<kind, id>>, at |-> now]}
HasAudit(kind, id) == \E a \in audit_events : a.of = <<kind, id>>

-----------------------------------------------------------------------------
(* What the run and its operators do                                        *)

passes == now < MaxTime /\ now' = now + 1 /\ UNCHANGED <<run, records>>

\* With a node's result, whatever became of the run, and dated when the node began.
persist_message(m) ==
  /\ Writable /\ message[m] = None
  /\ \E started_at \in 1..now : message' = [message EXCEPT ![m] = [at |-> started_at, status |-> "kept"]]
  /\ UNCHANGED <<now, run, tool, approval, audit_events, candidate, letter, event, checkpoints>>

\* A message cited as evidence, by an event the retention service looks for.
cites(m) ==
  /\ Writable /\ run.state = "active" /\ message[m].status = "kept" /\ ~HasAudit("message", m) /\ Audit("message", m)
  /\ UNCHANGED <<now, run, message, tool, approval, candidate, letter, event, checkpoints>>

\* The gateway's row and its audit event ...
claims(c) ==
  /\ Writable /\ run.state = "active" /\ tool[c] = None
  /\ tool' = [tool EXCEPT ![c] = New("claimed")] /\ Audit("tool_call", c)
  /\ UNCHANGED <<now, run, message, approval, candidate, letter, event, checkpoints>>

\* ... and the event of its outcome.
completes(c) ==
  /\ Writable /\ tool[c].status = "claimed"
  /\ tool' = [tool EXCEPT ![c].status = "terminal"] /\ Audit("tool_call", c)
  /\ UNCHANGED <<now, run, message, approval, candidate, letter, event, checkpoints>>

requests_approval(c) ==
  /\ Writable /\ tool[c].status = "claimed" /\ approval[c] = None
  /\ approval' = [approval EXCEPT ![c] = New("PENDING")] /\ Audit("approval", c)
  /\ UNCHANGED <<now, run, message, tool, candidate, letter, event, checkpoints>>

\* An operator decides, of a run that may have ended; past its term an approval
\* expires, decided or not.
decides(c) ==
  /\ Writable
  /\ \/ approval[c].status = "PENDING" /\ approval' = [approval EXCEPT ![c].status = "DECIDED"]
     \/ approval[c].status \in {"PENDING", "DECIDED"} /\ approval' = [approval EXCEPT ![c].status = "EXPIRED"]
  /\ Audit("approval", c)
  /\ UNCHANGED <<now, run, message, tool, candidate, letter, event, checkpoints>>

create_memory_candidate ==
  /\ Writable /\ run.state = "active" /\ candidate.status = "none" /\ message[candidate.from].status = "kept"
  /\ candidate' = [candidate EXCEPT !.status = "PENDING"]
  /\ UNCHANGED <<now, run, message, tool, approval, audit_events, letter, event, checkpoints>>

\* Only the promotion is audited.
promotes ==
  /\ Writable /\ candidate.status \in CURRENT_PROMOTION_STATES
  /\ \/ \E status \in {"PROMOTING", "WAITING_FOR_MEMORY", "REJECTED"} :
          candidate' = [candidate EXCEPT !.status = status] /\ UNCHANGED audit_events
     \/ candidate' = [candidate EXCEPT !.status = "PROMOTED"] /\ Audit("memory_candidate", 0)
  /\ UNCHANGED <<now, run, message, tool, approval, letter, event, checkpoints>>

\* The outbox row is published, or parked with a dead letter that is resolved later.
delivers ==
  /\ Writable
  /\ \/ event.status = "pending" /\ event' = New("published") /\ UNCHANGED letter
     \/ event.status = "pending" /\ event' = New("parked") /\ letter' = New("open")
     \/ letter.status = "open" /\ letter' = New("resolved") /\ UNCHANGED event
  /\ UNCHANGED <<now, run, message, tool, approval, audit_events, candidate, checkpoints>>

ends ==
  /\ Writable /\ run.state = "active" /\ run' = [state |-> "terminal", since |-> now] /\ Audit("run", 0)
  /\ UNCHANGED <<now, message, tool, approval, candidate, letter, event, checkpoints>>

-----------------------------------------------------------------------------
(* RetentionService                                                         *)

Expired(record, period) == record.status # "none" /\ record.at <= now - period

\* Mutant: without the look at approvals.
_message_is_protected_evidence(m) ==
  \/ HasAudit("message", m)
  \/ candidate.status \in CURRENT_PROMOTION_STATES /\ candidate.from = m

_message_is_protected(m) ==
  \/ HasAudit("message", m)
  \/ candidate.status \in CURRENT_PROMOTION_STATES /\ candidate.from = m
  \/ \E c \in Calls : approval[c].status = "PENDING"

_purge_messages ==
  [m \in Messages |->
     IF Expired(message[m], PayloadPeriod) /\ run.state = "terminal" /\ ~_message_is_protected(m)
       THEN [message[m] EXCEPT !.status = "purged"] ELSE message[m]]

\* Mutant: without the look at audit events.
_purge_approvals_cited ==
  [c \in Calls |->
     IF Expired(approval[c], MetadataPeriod) /\ approval[c].status # "PENDING" /\ run.state = "terminal"
       THEN None ELSE approval[c]]

\* Decided approvals of a terminal run that no audit event is about.
_purge_approvals ==
  [c \in Calls |->
     IF /\ Expired(approval[c], MetadataPeriod) /\ approval[c].status # "PENDING"
        /\ run.state = "terminal" /\ ~HasAudit("approval", c)
       THEN None ELSE approval[c]]

\* Then the calls without an approval; the gateway's events are about a "tool_call",
\* so the look for audit events finds none ...
_purge_tools(approvals) ==
  [c \in Calls |->
     IF /\ Expired(tool[c], MetadataPeriod) /\ approvals[c] = None
        /\ run.state = "terminal" /\ ~HasAudit("tool_execution", c)
       THEN None ELSE tool[c]]

\* Mutant: an event of any approval that is still there stays.
_purge_audits_mutual(approvals) ==
  {a \in audit_events :
     \/ a.at > now - MetadataPeriod \/ run.state # "terminal"
     \/ a.of[1] = "approval" /\ approvals[a.of[2]] # None
     \/ a.of[1] = "memory_candidate" /\ candidate.status \in CURRENT_PROMOTION_STATES}

\* ... and the audit events, last: their subjects go in the next round.
_purge_audits(approvals) ==
  {a \in audit_events :
     \/ a.at > now - MetadataPeriod \/ run.state # "terminal"
     \/ a.of[1] = "approval" /\ approvals[a.of[2]].status = "PENDING"
     \/ a.of[1] = "memory_candidate" /\ candidate.status \in CURRENT_PROMOTION_STATES}

_purge_outbox ==
  IF event.status \in {"published", "parked"} /\ Expired(event, MetadataPeriod) THEN None ELSE event

\* Counted from the creation of the run.
_purge_checkpoint_state == checkpoints /\ ~(run.state = "terminal" /\ 1 <= now - CheckpointPeriod)

\* enforce: one transaction, on top of trimming the streams.
enforce ==
  /\ message' = _purge_messages
  /\ letter' = IF letter.status = "resolved" /\ Expired(letter, DeadLetterPeriod) THEN None ELSE letter
  /\ approval' = _purge_approvals
  /\ tool' = _purge_tools(approval')
  /\ audit_events' = _purge_audits(approval')
  /\ event' = _purge_outbox
  /\ checkpoints' = _purge_checkpoint_state
  /\ UNCHANGED <<now, run, candidate>>

-----------------------------------------------------------------------------

Next ==
  \/ passes \/ create_memory_candidate \/ promotes \/ delivers \/ ends \/ enforce
  \/ \E m \in Messages : persist_message(m) \/ cites(m)
  \/ \E c \in Calls : claims(c) \/ completes(c) \/ requests_approval(c) \/ decides(c)

Spec == Init /\ [][Next]_vars

-----------------------------------------------------------------------------

\* A record an audit event cites outlives the event, whatever order the periods end
\* in: the payload of a message and the approval that was decided.
EvidenceHasSubject ==
  \A a \in audit_events :
    /\ a.of[1] = "message" => message[a.of[2]].status = "kept"
    /\ a.of[1] = "approval" => approval[a.of[2]] # None /\ tool[a.of[2]] # None

\* A step that purges nothing which is still referred to.
KeepsEvidence ==
  /\ \A c \in Calls : approval[c].status = "PENDING" =>
       /\ tool'[c] # None /\ {a \in audit_events : a.of = <<"approval", c>>} \subseteq audit_events'
       /\ \A m \in Messages : message[m].status = "kept" => message'[m] = message[m]
  /\ candidate.status \in CURRENT_PROMOTION_STATES => message'[candidate.from].status = "kept"
  /\ run.state = "active" =>
       /\ audit_events \subseteq audit_events' /\ checkpoints' = checkpoints
       /\ \A m \in Messages : message[m].status = "kept" => message'[m] = message[m]
       /\ \A c \in Calls : (tool[c] # None => tool'[c] # None) /\ (approval[c] # None => approval'[c] # None)

\* README: "Payloads referenced by active approvals, audit evidence, or memory
\* promotion are protected from purging."  While an approval is pending no purge
\* takes its call, its audit trail or the payload of a message of its task, and while
\* a promotion is under way none takes the message it comes from.  Nothing of a run
\* that goes on is purged, whatever its age.
ActiveKeepsEvidence == [][KeepsEvidence]_vars

-----------------------------------------------------------------------------
(* What the design states, and the code does not keep.                      *)

\* Design: "Cleanup never removes records referenced by an active workflow, unresolved
\* approval, retained audit event, or current UAMS promotion."  For the audit events
\* of tool calls.
ToolEvidenceHasSubject ==
  \A a \in audit_events : a.of[1] = "tool_call" => tool[a.of[2]] # None

\* Design: "full agent-message payloads: 90 days after terminal workflow state".
PayloadOutlivesRun ==
  \A m \in Messages : message[m].status = "purged" => run.since <= now - PayloadPeriod
=============================================================================
