------------------------------- MODULE ToolProofs -------------------------------
(***************************************************************************)
(* Tool calls and the records beside them.  A call is made once and only   *)
(* when approved; records that are cited stay; artifacts keep their bytes; *)
(* events are streamed in order.  For any number of processes and faults.  *)
(***************************************************************************)
EXTENDS ToolGateway, Stores, Sequences, TLAPS

-----------------------------------------------------------------------------
(* The call behind its idempotency key.                                    *)

Owner(c) == caller[c].at \in {"run", "persist"}

\* One process at a time runs the tool, while the row is CLAIMED; nobody ran it
\* before, and its outcome is the row's when the graph is quarantined for it.
OneOwner ==
  /\ \A c \in Callers : Owner(c) => row = "CLAIMED"
  /\ \A c, d \in Callers : Owner(c) /\ Owner(d) => c = d
  /\ row \in {"NONE", "WAITING_FOR_APPROVAL"} => effects = 0
  /\ \A c \in Callers : caller[c].at = "quarantine" => row = "NEEDS_RECONCILIATION"
  /\ \A c \in Callers : caller[c].at = "persist" => caller[c].outcome \in TERMINAL

\* The attempt an owner is at bounds the effects so far.
AttemptsBound ==
  \A c \in Callers : Owner(c) =>
    /\ caller[c].attempt \in 1..spec.max_attempts
    /\ spec.replay = "NEVER" \/ spec.effect = "external" => caller[c].attempt = 1
    /\ caller[c].at = "run" => effects < caller[c].attempt
    /\ caller[c].at = "persist" => effects <= caller[c].attempt

\* An approval that was used stays visible in its row.
ApprovalIsKept ==
  /\ lawful
  /\ \A c \in Callers : caller[c].at = "authorize" => approval.status # "NONE"
  /\ \A c \in Callers : caller[c].at = "promote" => approval.status \in {"APPROVED", "EXPIRED"}
  /\ spec.approval_required /\ row \notin {"NONE", "WAITING_FOR_APPROVAL"} =>
       approval.status \in {"APPROVED", "EXPIRED"}

GatewayInv == TypeOK /\ CallIsMadeOnce /\ OneOwner /\ AttemptsBound /\ ApprovalIsKept

\* What a step may do to the caller that takes it.
Becomes(c, p, attempt, result) ==
  /\ caller' \in [Callers -> Call]
  /\ \A d \in Callers \ {c} : caller'[d] = caller[d]
  /\ caller'[c].at = p /\ caller'[c].attempt = attempt /\ caller'[c].result = result

LEMMA CallerUpdate ==
  ASSUME caller \in [Callers -> Call], NEW c \in Callers
  PROVE  /\ \A p \in Positions : Go(c, p) => Becomes(c, p, caller[c].attempt, caller[c].result)
         /\ \A x \in {"raised", "approval"} \cup TERMINAL : Return(c, x) => Becomes(c, "idle", 0, x)
         /\ \A x \in TERMINAL : Outcome(c, x) =>
              Becomes(c, "persist", caller[c].attempt, caller[c].result) /\ caller'[c].outcome = x
<1>1. ASSUME NEW p \in Positions, Go(c, p) PROVE Becomes(c, p, caller[c].attempt, caller[c].result)
  BY <1>1 DEF Go, Becomes, Call
<1>2. ASSUME NEW x \in {"raised", "approval"} \cup TERMINAL, Return(c, x) PROVE Becomes(c, "idle", 0, x)
  BY <1>2 DEF Return, Resting, Becomes, Call, Positions
<1>3. ASSUME NEW x \in TERMINAL, Outcome(c, x)
      PROVE  Becomes(c, "persist", caller[c].attempt, caller[c].result) /\ caller'[c].outcome = x
  BY <1>3, Zenon DEF Outcome, Becomes, Call, Positions
<1> QED BY <1>1, <1>2, <1>3

\* The attempt a caller becomes the owner with, and the next one.
LEMMA RunUpdate ==
  ASSUME NEW k \in Call, NEW n \in 1..2
  PROVE  /\ [k EXCEPT !.at = "run", !.attempt = n] \in Call
         /\ [k EXCEPT !.at = "run", !.outcome = "none", !.attempt = n] \in Call
<1>1. n \in 0..2 /\ "run" \in Positions
  BY DEF Positions
<1> QED BY <1>1 DEF Call

LEMMA FirstRun ==
  ASSUME caller \in [Callers -> Call], NEW c \in Callers,
         caller' = [caller EXCEPT ![c] = [caller[c] EXCEPT !.at = "run", !.attempt = 1]]
  PROVE  Becomes(c, "run", 1, caller[c].result)
<1>1. caller[c] \in Call /\ 1 \in 1..2
  OBVIOUS
<1>2. [caller[c] EXCEPT !.at = "run", !.attempt = 1] \in Call
  BY <1>1, RunUpdate, Zenon
<1> QED BY <1>2 DEF Becomes, Call

\* What becomes of an owner after a run of the tool: it has an outcome to store,
\* or another attempt that the policy leaves it.
Persists(c) ==
  Becomes(c, "persist", caller[c].attempt, caller[c].result) /\ caller'[c].outcome \in TERMINAL
RunsAgain(c) ==
  /\ spec.effect # "external" /\ spec.replay # "NEVER" /\ caller[c].attempt < spec.max_attempts
  /\ Becomes(c, "run", caller[c].attempt + 1, caller[c].result)

LEMMA RetryUpdate ==
  ASSUME TypeOK, NEW c \in Callers, Retry(c)
  PROVE  Persists(c) \/ RunsAgain(c)
<1>1. ASSUME NEW x \in TERMINAL, Outcome(c, x) PROVE Persists(c)
  BY <1>1, CallerUpdate DEF TypeOK, Persists
<1>2. ASSUME spec.effect # "external", spec.retry, may_retry(c) PROVE RunsAgain(c)
  <2>1. caller[c].attempt + 1 \in 1..2 /\ caller[c].attempt < spec.max_attempts
    BY <1>2, GatewayAssumption DEF TypeOK, may_retry, ToolSpec, Call
  <2> DEFINE k == [caller[c] EXCEPT !.at = "run", !.outcome = "none", !.attempt = caller[c].attempt + 1]
  <2>2. k \in Call
    BY <2>1, RunUpdate, Zenon DEF TypeOK
  <2>3. caller' = [caller EXCEPT ![c] = k]
    BY <1>2 DEF Retry
  <2>4. Becomes(c, "run", caller[c].attempt + 1, caller[c].result)
    BY <2>2, <2>3 DEF TypeOK, Becomes, Call
  <2> QED BY <1>2, <2>1, <2>4 DEF RunsAgain, may_retry
<1> QED BY <1>1, <1>2 DEF Retry, TERMINAL

LEMMA GatewayInit == Init => GatewayInv
<1> SUFFICES ASSUME Init PROVE GatewayInv
  OBVIOUS
<1>1. caller \in [Callers -> Call] /\ \A c \in Callers : caller[c] = Resting
  BY DEF Init, Call, Resting, Positions
<1>2. TypeOK
  BY <1>1, GatewayAssumption DEF Init, TypeOK, ToolExecutionStatus, ApprovalRow, GraphExecutionState
<1>3. CallIsMadeOnce /\ OneOwner /\ AttemptsBound /\ ApprovalIsKept
  BY <1>1, GatewayAssumption DEF Init, CallIsMadeOnce, Finished, OneOwner, AttemptsBound,
    ApprovalIsKept,
    Owner, Resting, ToolSpec, TERMINAL
<1> QED BY <1>2, <1>3 DEF GatewayInv

LEMMA SpecTypes ==
  ASSUME TypeOK
  PROVE  /\ spec.max_attempts \in 1..2
         /\ spec.replay = "NEVER" => spec.max_attempts = 1
         /\ \A c \in Callers : caller[c].attempt \in 0..2
BY GatewayAssumption DEF TypeOK, ToolSpec, Call

LEMMA GatewayStep == GatewayInv /\ [Next]_vars => GatewayInv'
<1> SUFFICES ASSUME GatewayInv, [Next]_vars PROVE GatewayInv'
  OBVIOUS
<1>0. /\ spec.max_attempts \in 1..2
      /\ spec.replay = "NEVER" => spec.max_attempts = 1
      /\ \A c \in Callers : caller[c].attempt \in 0..2
  BY SpecTypes DEF GatewayInv
<1> USE DEF GatewayInv, TypeOK, CallIsMadeOnce, Finished, OneOwner, AttemptsBound, ApprovalIsKept, Owner,
      Becomes
<1>1. ASSUME NEW c \in Callers, validate_context(c) PROVE GatewayInv'
  <2>1. \/ Becomes(c, "claim", caller[c].attempt, caller[c].result)
        \/ Becomes(c, "idle", 0, "raised")
    BY <1>1, CallerUpdate DEF validate_context, Positions
  <2> QED BY <1>1, <2>1 DEF validate_context, TERMINAL
<1>2. ASSUME NEW c \in Callers, claim(c) PROVE GatewayInv'
  <2>1. \/ row \in TERMINAL /\ row' = row /\ Becomes(c, "idle", 0, row)
        \/ /\ row' = row \/ (row = "NONE" /\ row' = "WAITING_FOR_APPROVAL")
           /\ \E p \in {"approve", "wait"} : Becomes(c, p, caller[c].attempt, caller[c].result)
        \/ /\ row = "NONE" /\ row' = "CLAIMED" /\ ~spec.approval_required
           /\ Becomes(c, "run", 1, caller[c].result)
    <3>1. CASE row \in TERMINAL
      BY <1>2, <3>1, CallerUpdate DEF claim, TERMINAL
    <3>2. CASE row \notin TERMINAL /\ (spec.approval_required \/ row # "NONE")
      BY <1>2, <3>2, CallerUpdate DEF claim, Positions
    <3>3. CASE row = "NONE" /\ ~spec.approval_required
      BY <1>2, <3>3, FirstRun, Zenon DEF claim, TERMINAL
    <3> QED BY <3>1, <3>2, <3>3
  <2> QED BY <1>0, <1>2, <2>1 DEF claim, TERMINAL, ToolExecutionStatus
<1>3. ASSUME NEW c \in Callers, request(c) PROVE GatewayInv'
  <2>1. \/ Becomes(c, "authorize", caller[c].attempt, caller[c].result)
        \/ Becomes(c, "idle", 0, "approval")
    BY <1>3, CallerUpdate DEF request, Positions
  <2> QED BY <1>3, <2>1 DEF request, TERMINAL, ApprovalRow
<1>4. ASSUME NEW c \in Callers, authorize(c) PROVE GatewayInv'
  <2>1. \/ authorized /\ Becomes(c, "promote", caller[c].attempt, caller[c].result)
        \/ Becomes(c, "idle", 0, "raised")
    BY <1>4, CallerUpdate DEF authorize, Positions
  <2>2. lawful' = TRUE
    BY <1>4, Zenon DEF authorize, authorized
  <2> QED BY <1>4, <2>1, <2>2 DEF authorize, authorized, TERMINAL
<1>5. ASSUME NEW c \in Callers, promote_approved(c) PROVE GatewayInv'
  <2>1. \/ /\ row = "WAITING_FOR_APPROVAL" /\ row' = "CLAIMED"
           /\ Becomes(c, "run", 1, caller[c].result)
        \/ row' = row /\ Becomes(c, "wait", caller[c].attempt, caller[c].result)
    BY <1>5, CallerUpdate, FirstRun, Zenon DEF promote_approved, Positions
  <2> QED BY <1>0, <1>5, <2>1 DEF promote_approved, ToolExecutionStatus, TERMINAL
<1>6. ASSUME NEW c \in Callers, execute_owned(c) PROVE GatewayInv'
  <2>1. effects' \in {effects, effects + 1}
    BY <1>6 DEF execute_owned, tool_succeeds, tool_fails, tool_unknown, tool_times_out, Effect
  <2>2. \/ Persists(c) \/ RunsAgain(c)
    BY <1>6, RetryUpdate, CallerUpdate
    DEF execute_owned, tool_succeeds, tool_fails, tool_unknown, tool_times_out, Persists, TERMINAL
  <2>3. caller[c].at = "run"
    BY <1>6 DEF execute_owned, tool_succeeds, tool_fails, tool_unknown, tool_times_out
  <2> QED BY <1>0, <1>6, <2>1, <2>2, <2>3 DEF execute_owned, Persists, RunsAgain, TERMINAL
<1>7. ASSUME NEW c \in Callers, persist_terminal(c) PROVE GatewayInv'
  <2>1. row' = caller[c].outcome /\ caller[c].outcome \in TERMINAL
    BY <1>7 DEF persist_terminal, TERMINAL
  <2>2. \/ row' = "NEEDS_RECONCILIATION" /\ Becomes(c, "quarantine", caller[c].attempt, caller[c].result)
        \/ Becomes(c, "idle", 0, row')
    BY <1>7, <2>1, CallerUpdate, Zenon DEF persist_terminal, Positions
  <2> QED BY <1>7, <2>1, <2>2 DEF persist_terminal, TERMINAL, ToolExecutionStatus
<1>8. ASSUME NEW c \in Callers, persist_fails(c) PROVE GatewayInv'
  <2>1. Persists(c) \/ RunsAgain(c) \/ Becomes(c, "idle", 0, "raised")
    BY <1>8, RetryUpdate, CallerUpdate DEF persist_fails, Persists, TERMINAL
  <2>2. faults' \in 0..MaxFaults
    BY <1>8, GatewayAssumption DEF persist_fails
  <2> QED BY <1>0, <1>8, <2>1, <2>2 DEF persist_fails, Persists, RunsAgain, TERMINAL
<1>9. ASSUME NEW c \in Callers, quarantine_graph(c) PROVE GatewayInv'
  <2>1. \E x \in {row, "raised"} : Becomes(c, "idle", 0, x)
    BY <1>9, CallerUpdate DEF quarantine_graph, TERMINAL
  <2> QED BY <1>9, <2>1 DEF quarantine_graph, TERMINAL, GraphExecutionState
<1>10. ASSUME NEW c \in Callers, wait_for_terminal(c) PROVE GatewayInv'
  <2>1. \E x \in {row, "raised"} : Becomes(c, "idle", 0, x)
    BY <1>10, CallerUpdate, Zenon DEF wait_for_terminal
  <2> QED BY <1>10, <2>1 DEF wait_for_terminal, TERMINAL
<1>11. ASSUME NEW c \in Callers, crash(c) PROVE GatewayInv'
  <2>1. \E x \in {"none", "approval"} : Becomes(c, "idle", 0, x)
    BY <1>11 DEF crash, Resting, Call, Positions
  <2>2. faults' \in 0..MaxFaults
    BY <1>11, GatewayAssumption DEF crash
  <2> QED BY <1>11, <2>1, <2>2 DEF crash, TERMINAL
<1>12. ASSUME NEW approved \in BOOLEAN, decide(approved) PROVE GatewayInv'
  BY <1>12 DEF decide, ApprovalRow
<1>13. ASSUME approval_expires PROVE GatewayInv'
  BY <1>13, Zenon DEF approval_expires, ApprovalRow
<1>14. ASSUME task_leaves PROVE GatewayInv'
  <2>1. graph' \in GraphExecutionState
    BY <1>14 DEF task_leaves, GraphExecutionState
  <2> QED BY <1>14, <2>1, Zenon DEF task_leaves
<1>15. ASSUME UNCHANGED vars PROVE GatewayInv'
  BY <1>15 DEF vars
<1> QED BY <1>1, <1>2, <1>3, <1>4, <1>5, <1>6, <1>7, <1>8, <1>9, <1>10, <1>11, <1>12, <1>13, <1>14,
           <1>15, Zenon DEF Next, CallStep

\* A call takes effect at most as often as its tool's policy allows, and every
\* caller of ToolGateway.execute gets the one outcome that is stored.
THEOREM ToolCallsAreMadeOnce == Spec => []CallIsMadeOnce
<1>1. GatewayInv => CallIsMadeOnce
  BY DEF GatewayInv
<1> QED BY GatewayInit, GatewayStep, <1>1, PTL DEF Spec

\* No tool that needs an approval takes effect without ApprovalService.authorize
\* having found one, in time.
THEOREM EffectsAreApproved == Spec => []EffectNeedsApproval
<1>1. GatewayInv => EffectNeedsApproval
  BY GatewayAssumption DEF GatewayInv, TypeOK, OneOwner, ApprovalIsKept, EffectNeedsApproval,
    ToolSpec
<1> QED BY GatewayInit, GatewayStep, <1>1, PTL DEF Spec

-----------------------------------------------------------------------------
(* The records of a run and their retention.                               *)

\* A table of dated records, whatever the dates are.
Table(f, S) == f = [x \in S |-> [at |-> f[x].at, status |-> f[x].status]]

Tables ==
  /\ Table(message, Messages) /\ Table(tool, Calls) /\ Table(approvals, Calls)
  /\ candidate = [status |-> candidate.status, from |-> candidate.from] /\ candidate.from \in Messages
  /\ checkpoints \in BOOLEAN

\* An audit event is about a record that the tables have a row for.
Cites(a) ==
  /\ a.of = <<a.of[1], a.of[2]>>
  /\ a.of[1] = "message" => a.of[2] \in Messages
  /\ a.of[1] = "approval" => a.of[2] \in Calls

\* Records hold each other: an approval its call, a promotion its message.
Held ==
  /\ \A c \in Calls : approvals[c] # R!None => tool[c] # R!None
  /\ candidate.status \in R!CURRENT_PROMOTION_STATES => message[candidate.from].status = "kept"

RecordsInv == Tables /\ (\A a \in audit_events : Cites(a)) /\ Held /\ R!EvidenceHasSubject

\* What an insert or update of one row does to a table.
Puts(f, g, S, x, status) ==
  /\ Table(g, S) /\ g[x].status = status
  /\ \A y \in S \ {x} : g[y] = f[y]

LEMMA Inserts ==
  ASSUME NEW f, NEW S, NEW x \in S, NEW at, NEW status, Table(f, S)
  PROVE  Puts(f, [f EXCEPT ![x] = [at |-> at, status |-> status]], S, x, status)
<1> DEFINE g == [f EXCEPT ![x] = [at |-> at, status |-> status]]
<1>1. DOMAIN f = S
  BY DEF Table
<1>2. g = [y \in S |-> IF y = x THEN [at |-> at, status |-> status] ELSE f[y]]
  BY <1>1, Zenon
<1>3. \A y \in S : f[y] = [at |-> f[y].at, status |-> f[y].status]
  BY DEF Table
<1> HIDE DEF g
<1>4. \A y \in S : g[y] = [at |-> g[y].at, status |-> g[y].status]
  BY <1>2, <1>3
<1> QED BY <1>2, <1>4 DEF Puts, Table, g

LEMMA Updates ==
  ASSUME NEW f, NEW S, NEW x \in S, NEW status, Table(f, S)
  PROVE  Puts(f, [f EXCEPT ![x].status = status], S, x, status)
<1>1. f[x] = [at |-> f[x].at, status |-> f[x].status] /\ DOMAIN f = S
  BY DEF Table
<1>2. [f[x] EXCEPT !.status = status] = [at |-> f[x].at, status |-> status]
  BY <1>1
<1>3. [f EXCEPT ![x].status = status] = [f EXCEPT ![x] = [at |-> f[x].at, status |-> status]]
  BY <1>1, <1>2, Zenon
<1> QED BY <1>3, Inserts

LEMMA RowsWritten ==
  ASSUME Tables
  PROVE  /\ \A m \in Messages : R!persist_message(m) => Puts(message, message', Messages, m, "kept")
         /\ \A c \in Calls :
              /\ R!claims(c) => Puts(tool, tool', Calls, c, "claimed")
              /\ R!completes(c) => Puts(tool, tool', Calls, c, "terminal")
              /\ R!requests_approval(c) => Puts(approvals, approvals', Calls, c, "PENDING")
              /\ R!decides(c) => \E status \in {"DECIDED", "EXPIRED"} :
                                  Puts(approvals, approvals', Calls, c, status)
<1>1. ASSUME NEW m \in Messages, R!persist_message(m) PROVE Puts(message, message', Messages, m, "kept")
  <2>1. PICK started_at : message' = [message EXCEPT ![m] = [at |-> started_at, status |-> "kept"]]
    BY <1>1, Zenon DEF R!persist_message
  <2> QED BY <2>1, Inserts, Zenon DEF Tables
<1>2. ASSUME NEW c \in Calls, R!claims(c) PROVE Puts(tool, tool', Calls, c, "claimed")
  BY <1>2, Inserts, Zenon DEF Tables, R!claims, R!New
<1>3. ASSUME NEW c \in Calls, R!completes(c) PROVE Puts(tool, tool', Calls, c, "terminal")
  BY <1>3, Updates DEF Tables, R!completes
<1>4. ASSUME NEW c \in Calls, R!requests_approval(c) PROVE Puts(approvals, approvals', Calls, c, "PENDING")
  BY <1>4, Inserts DEF Tables, R!requests_approval, R!New
<1>5. ASSUME NEW c \in Calls, R!decides(c)
      PROVE  \E status \in {"DECIDED", "EXPIRED"} : Puts(approvals, approvals', Calls, c, status)
  BY <1>5, Updates DEF Tables, R!decides
<1> QED BY <1>1, <1>2, <1>3, <1>4, <1>5

LEMMA RecordsInit == R!Init => RecordsInv
BY DEF R!Init, R!None, RecordsInv, Tables, Table, Held, R!EvidenceHasSubject,
  R!CURRENT_PROMOTION_STATES

LEMMA RecordsStep == RecordsInv /\ [R!Next]_R!vars => RecordsInv'
<1> SUFFICES ASSUME RecordsInv, [R!Next]_R!vars PROVE RecordsInv'
  OBVIOUS
<1> USE DEF RecordsInv, Tables, Held, Cites, R!EvidenceHasSubject, R!Writable, R!New, R!Audit, R!None
<1>1. CASE R!passes
  BY <1>1 DEF R!passes, R!records
<1>2. CASE R!create_memory_candidate
  BY <1>2 DEF R!create_memory_candidate
<1>3. CASE R!promotes
  BY <1>3 DEF R!promotes, R!CURRENT_PROMOTION_STATES
<1>4. CASE R!delivers
  BY <1>4 DEF R!delivers
<1>5. CASE R!ends
  BY <1>5 DEF R!ends
<1>6. CASE R!enforce
  <2>1. /\ \A m \in Messages :
             /\ message'[m] = message[m] \/ message'[m] = [message[m] EXCEPT !.status = "purged"]
             /\ R!_message_is_protected(m) => message'[m] = message[m]
        /\ Table(message', Messages)
    BY <1>6 DEF R!enforce, R!_purge_messages, Table
  <2>2. /\ \A c \in Calls : /\ approvals'[c] \in {approvals[c], R!None}
                            /\ R!HasAudit("approval", c) => approvals'[c] = approvals[c]
        /\ Table(approvals', Calls)
    BY <1>6 DEF R!enforce, R!_purge_approvals, Table
  <2>3. /\ \A c \in Calls : /\ tool'[c] \in {tool[c], R!None}
                            /\ approvals'[c] # R!None => tool'[c] = tool[c]
        /\ Table(tool', Calls)
    BY <1>6 DEF R!enforce, R!_purge_tools, Table
  <2>4. audit_events' \subseteq audit_events /\ candidate' = candidate
    BY <1>6 DEF R!enforce, R!_purge_audits
  <2>5. \A a \in audit_events' :
          /\ a.of[1] = "message" => R!_message_is_protected(a.of[2])
          /\ a.of[1] = "approval" => R!HasAudit("approval", a.of[2])
    BY <2>4 DEF R!_message_is_protected, R!HasAudit
  <2>6. candidate.status \in R!CURRENT_PROMOTION_STATES => R!_message_is_protected(candidate.from)
    BY DEF R!_message_is_protected
  <2>7. Tables'
    BY <1>6, <2>1, <2>2, <2>3, <2>4 DEF R!enforce, R!_purge_checkpoint_state
  <2>8. (\A a \in audit_events : Cites(a))'
    BY <2>4
  <2>9. Held'
    BY <2>1, <2>2, <2>3, <2>4, <2>6, Zenon
  <2>10. ASSUME NEW a \in audit_events'
         PROVE  /\ a.of[1] = "message" => message'[a.of[2]].status = "kept"
                /\ a.of[1] = "approval" => approvals'[a.of[2]] # R!None /\ tool'[a.of[2]] # R!None
    <3>1. a \in audit_events
      BY <2>4
    <3>2. CASE a.of[1] = "message"
      BY <2>1, <2>5, <3>1, <3>2, Zenon
    <3>3. CASE a.of[1] = "approval"
      BY <2>2, <2>3, <2>5, <3>1, <3>3
    <3> QED BY <3>2, <3>3
  <2>11. R!EvidenceHasSubject'
    BY <2>10
  <2> QED BY <2>7, <2>8, <2>9, <2>11
<1>7. ASSUME NEW m \in Messages, R!persist_message(m) PROVE RecordsInv'
  <2>1. Puts(message, message', Messages, m, "kept")
    BY <1>7, RowsWritten
  <2> QED BY <1>7, <2>1 DEF R!persist_message, Puts
<1>8. ASSUME NEW m \in Messages, R!cites(m) PROVE RecordsInv'
  BY <1>8 DEF R!cites
<1>9. ASSUME NEW c \in Calls, R!claims(c) PROVE RecordsInv'
  <2>1. Puts(tool, tool', Calls, c, "claimed")
    BY <1>9, RowsWritten
  <2> QED BY <1>9, <2>1 DEF R!claims, Puts
<1>10. ASSUME NEW c \in Calls, R!completes(c) PROVE RecordsInv'
  <2>1. Puts(tool, tool', Calls, c, "terminal")
    BY <1>10, RowsWritten
  <2> QED BY <1>10, <2>1 DEF R!completes, Puts
<1>11. ASSUME NEW c \in Calls, R!requests_approval(c) PROVE RecordsInv'
  <2>1. Puts(approvals, approvals', Calls, c, "PENDING")
    BY <1>11, RowsWritten
  <2> QED BY <1>11, <2>1 DEF R!requests_approval, Puts
<1>12. ASSUME NEW c \in Calls, R!decides(c) PROVE RecordsInv'
  <2>1. approvals[c] # R!None
    BY <1>12 DEF R!decides
  <2> QED BY <1>12, <2>1, RowsWritten DEF R!decides, Puts
<1>13. CASE UNCHANGED R!vars
  BY <1>13 DEF R!vars, R!records
<1> QED BY <1>1, <1>2, <1>3, <1>4, <1>5, <1>6, <1>7, <1>8, <1>9, <1>10, <1>11, <1>12, <1>13, Zenon
  DEF R!Next

\* RetentionService.enforce takes no message an audit event cites and no approval
\* or call of one before the event itself, whatever the periods are.
THEOREM CitedRecordsStay == R!Spec => []EvidenceHasSubject
<1>1. RecordsInv => EvidenceHasSubject
  BY DEF RecordsInv, EvidenceHasSubject
<1> QED BY RecordsInit, RecordsStep, <1>1, PTL DEF R!Spec

\* RetentionService.enforce takes nothing that a pending approval, a promotion under
\* way or a run that goes on still refers to.
THEOREM ActiveEvidenceStays == R!Spec => ActiveKeepsEvidence
<1>1. RecordsInv /\ [R!Next]_R!vars => [R!KeepsEvidence]_R!vars
  <2> SUFFICES ASSUME RecordsInv, R!Next PROVE R!KeepsEvidence
    OBVIOUS
  <2> USE DEF R!KeepsEvidence, RecordsInv, Tables, Held, R!EvidenceHasSubject, R!New, R!Audit, R!None
  <2>1. CASE R!passes
    BY <2>1 DEF R!passes, R!records
  <2>2. CASE R!create_memory_candidate
    BY <2>2 DEF R!create_memory_candidate
  <2>3. CASE R!promotes
    BY <2>3 DEF R!promotes
  <2>4. CASE R!delivers
    BY <2>4 DEF R!delivers
  <2>5. CASE R!ends
    BY <2>5 DEF R!ends
  <2>6. CASE R!enforce
    <3>1. ASSUME NEW c \in Calls, approvals[c].status = "PENDING"
          PROVE  /\ tool'[c] # R!None
                 /\ {a \in audit_events : a.of = <<"approval", c>>} \subseteq audit_events'
                 /\ \A m \in Messages : message'[m] = message[m]
      <4>1. approvals'[c] = approvals[c]
        BY <2>6, <3>1 DEF R!enforce, R!_purge_approvals
      <4>2. tool'[c] = tool[c]
        BY <2>6, <3>1, <4>1 DEF R!enforce, R!_purge_tools
      <4>3. {a \in audit_events : a.of = <<"approval", c>>} \subseteq audit_events'
        BY <2>6, <3>1, <4>1 DEF R!enforce, R!_purge_audits
      <4>4. \A m \in Messages : message'[m] = message[m]
        BY <2>6, <3>1 DEF R!enforce, R!_purge_messages, R!_message_is_protected
      <4> QED BY <3>1, <4>2, <4>3, <4>4
    <3>2. candidate.status \in R!CURRENT_PROMOTION_STATES => message'[candidate.from].status = "kept"
      BY <2>6 DEF R!enforce, R!_purge_messages, R!_message_is_protected
    <3>3. ASSUME run.state = "active"
          PROVE  /\ audit_events \subseteq audit_events' /\ checkpoints' = checkpoints
                 /\ message' = message /\ approvals' = approvals /\ tool' = tool
      <4>1. audit_events \subseteq audit_events'
        BY <2>6, <3>3 DEF R!enforce, R!_purge_audits
      <4>2. checkpoints' = checkpoints
        BY <2>6, <3>3 DEF R!enforce, R!_purge_checkpoint_state
      <4>3. message' = message
        BY <2>6, <3>3 DEF R!enforce, R!_purge_messages, Table
      <4>4. approvals' = approvals
        BY <2>6, <3>3 DEF R!enforce, R!_purge_approvals, Table
      <4>5. tool' = tool
        BY <2>6, <3>3 DEF R!enforce, R!_purge_tools, Table
      <4> QED BY <4>1, <4>2, <4>3, <4>4, <4>5
    <3> QED BY <3>1, <3>2, <3>3
  <2>7. ASSUME NEW m \in Messages, R!persist_message(m) PROVE R!KeepsEvidence
    BY <2>7, RowsWritten DEF R!persist_message, Puts
  <2>8. ASSUME NEW m \in Messages, R!cites(m) PROVE R!KeepsEvidence
    BY <2>8 DEF R!cites
  <2>9. ASSUME NEW c \in Calls, R!claims(c) PROVE R!KeepsEvidence
    BY <2>9, RowsWritten DEF R!claims, Puts
  <2>10. ASSUME NEW c \in Calls, R!completes(c) PROVE R!KeepsEvidence
    BY <2>10, RowsWritten DEF R!completes, Puts
  <2>11. ASSUME NEW c \in Calls, R!requests_approval(c) PROVE R!KeepsEvidence
    BY <2>11, RowsWritten DEF R!requests_approval, Puts
  <2>12. ASSUME NEW c \in Calls, R!decides(c) PROVE R!KeepsEvidence
    BY <2>12, RowsWritten DEF R!decides, Puts
  <2> HIDE DEF R!KeepsEvidence
  <2> QED BY <2>1, <2>2, <2>3, <2>4, <2>5, <2>6, <2>7, <2>8, <2>9, <2>10, <2>11, <2>12,
           Zenon DEF R!Next
<1> QED BY RecordsInit, RecordsStep, <1>1, PTL DEF R!Spec, ActiveKeepsEvidence,
  R!ActiveKeepsEvidence

-----------------------------------------------------------------------------
(* The artifact store.                                                     *)

StoreTypes ==
  /\ object \in [Contents -> {"absent", "good", "bad"}]
  /\ artifact_row \in [Artifacts -> {"NONE", "VALID", "CORRUPT"}]
  /\ audits \in [Artifacts -> Nat]
  /\ quarantine \in [Artifacts -> SUBSET {"good", "bad"}]
  /\ actor \in [Actors -> A!Activity]

\* The bytes of an artifact are somewhere, and no step takes them away.
Somewhere(a) ==
  \/ object[Digest[a]] # "absent"
  \/ \E b \in Artifacts : Digest[b] = Digest[a] /\ quarantine[b] # {}

\* A process that is about to record an artifact has stored its bytes, and one that
\* reads it found its row.
ProcessesKnow ==
  \A p \in Actors :
    /\ actor[p].at # "idle" => actor[p].artifact \in Artifacts
    /\ actor[p].at = "record" => Somewhere(actor[p].artifact)
    /\ actor[p].at \in {"read", "move", "commit", "fetch", "mark", "shift"} =>
         artifact_row[actor[p].artifact] # "NONE"

StoreInv == StoreTypes /\ ProcessesKnow /\ A!EvidenceIsAccounted

\* What a step does to the process that takes it.
Turns(p, at, a) ==
  /\ actor' \in [Actors -> A!Activity]
  /\ \A q \in Actors \ {p} : actor'[q] = actor[q]
  /\ actor'[p].at = at /\ actor'[p].artifact = a

LEMMA ProcessUpdate ==
  ASSUME StoreTypes, NEW p \in Actors
  PROVE  /\ A!Stop(p) => Turns(p, "idle", Nobody)
         /\ \A at \in {"link", "record", "move", "commit", "mark", "shift"} :
              A!Go(p, at) => Turns(p, at, actor[p].artifact)
         /\ \A a \in Artifacts :
              /\ A!begin_put(p, a) => Turns(p, "put", a)
              /\ \A reader \in {"evidence", "decision"} : A!get_verified(p, a, reader) => Turns(p, "read", a)
              /\ A!download_artifact(p, a) => Turns(p, "fetch", a)
<1>1. A!Stop(p) => Turns(p, "idle", Nobody)
  BY DEF StoreTypes, A!Stop, A!Resting, Turns, A!Activity
<1>2. ASSUME NEW at \in {"link", "record", "move", "commit", "mark", "shift"}, A!Go(p, at)
      PROVE  Turns(p, at, actor[p].artifact)
  BY <1>2 DEF StoreTypes, A!Go, Turns, A!Activity
<1>3. ASSUME NEW a \in Artifacts, A!begin_put(p, a) PROVE Turns(p, "put", a)
  BY <1>3 DEF StoreTypes, A!begin_put, A!Resting, Turns, A!Activity
<1>4. ASSUME NEW a \in Artifacts, NEW reader \in {"evidence", "decision"}, A!get_verified(p, a, reader)
      PROVE  Turns(p, "read", a)
  BY <1>4 DEF StoreTypes, A!get_verified, Turns, A!Activity
<1>5. ASSUME NEW a \in Artifacts, A!download_artifact(p, a) PROVE Turns(p, "fetch", a)
  BY <1>5 DEF StoreTypes, A!download_artifact, Turns, A!Activity
<1> QED BY <1>1, <1>2, <1>3, <1>4, <1>5

\* The two halves of a quarantine.
LEMMA BytesMove ==
  ASSUME StoreTypes, Digest \in [Artifacts -> Contents], NEW p \in Actors, actor[p].artifact \in Artifacts,
         A!move(p)
  PROVE  /\ object' \in [Contents -> {"absent", "good", "bad"}]
         /\ quarantine' \in [Artifacts -> SUBSET {"good", "bad"}]
         /\ \A a \in Artifacts : Somewhere(a) => Somewhere(a)'
<1> DEFINE b == actor[p].artifact
<1>1. /\ object' = [object EXCEPT ![Digest[b]] = "absent"]
      /\ quarantine' = [quarantine EXCEPT ![b] = @ \cup ({object[Digest[b]]} \ {"absent"})]
  BY DEF A!move, A!Stored, A!Its
<1>2. b \in Artifacts /\ Digest[b] \in Contents
  OBVIOUS
<1> HIDE DEF b
<1>3. /\ object' \in [Contents -> {"absent", "good", "bad"}]
      /\ quarantine' \in [Artifacts -> SUBSET {"good", "bad"}]
  BY <1>1, <1>2 DEF StoreTypes
<1>4. ASSUME NEW a \in Artifacts, Somewhere(a) PROVE Somewhere(a)'
  <2>1. CASE Digest[a] = Digest[b] /\ object[Digest[b]] # "absent"
    <3>1. quarantine'[b] # {}
      BY <1>1, <1>2, <2>1 DEF StoreTypes
    <3> QED BY <1>2, <2>1, <3>1 DEF Somewhere
  <2>2. CASE Digest[a] # Digest[b] \/ object[Digest[b]] = "absent"
    <3>1. object[Digest[a]] # "absent" => object'[Digest[a]] # "absent"
      BY <1>1, <1>2, <2>2 DEF StoreTypes
    <3>2. \A d \in Artifacts : quarantine[d] # {} => quarantine'[d] # {}
      BY <1>1, <1>2 DEF StoreTypes
    <3> QED BY <1>4, <3>1, <3>2 DEF Somewhere
  <2> QED BY <2>1, <2>2
<1> QED BY <1>3, <1>4

LEMMA RowMarked ==
  ASSUME StoreTypes, A!EvidenceIsAccounted, NEW a \in Artifacts, artifact_row[a] # "NONE",
         A!mark_artifact_corrupt(a)
  PROVE  /\ artifact_row' \in [Artifacts -> {"NONE", "VALID", "CORRUPT"}]
         /\ audits' \in [Artifacts -> Nat]
         /\ \A b \in Artifacts : /\ artifact_row'[b] # "NONE" <=> artifact_row[b] # "NONE"
                                 /\ audits'[b] = (IF artifact_row'[b] = "CORRUPT" THEN 1 ELSE 0)
BY DEF StoreTypes, A!EvidenceIsAccounted, A!mark_artifact_corrupt

LEMMA StoreInit == Digest \in [Artifacts -> Contents] /\ A!Init => StoreInv
BY DEF A!Init, A!Resting, A!Activity, StoreInv, StoreTypes, ProcessesKnow, Somewhere,
  A!EvidenceIsAccounted

\* A step that writes nothing, by a process that knows what it has to.
LEMMA ProcessTurns ==
  ASSUME StoreInv, NEW p \in Actors, NEW at, NEW a, Turns(p, at, a),
         UNCHANGED <<object, quarantine, artifact_row, audits>>,
         at # "idle" => a \in Artifacts, at = "record" => Somewhere(a),
         at \in {"read", "move", "commit", "fetch", "mark", "shift"} => artifact_row[a] # "NONE"
  PROVE  StoreInv'
<1>1. StoreTypes'
  BY DEF StoreInv, StoreTypes, Turns
<1>2. \A b : Somewhere(b)' <=> Somewhere(b)
  BY DEF Somewhere
<1>3. ProcessesKnow'
  BY <1>2 DEF StoreInv, ProcessesKnow, Turns
<1>4. A!EvidenceIsAccounted'
  BY DEF StoreInv, A!EvidenceIsAccounted
<1> QED BY <1>1, <1>3, <1>4 DEF StoreInv

LEMMA StoreStep ==
  ASSUME Digest \in [Artifacts -> Contents], Readers \subseteq {"evidence", "decision", "download"},
         StoreInv, [A!Next]_A!vars
  PROVE  StoreInv'
<1> USE DEF StoreInv, StoreTypes, ProcessesKnow, Somewhere, A!EvidenceIsAccounted, A!At, A!Its, A!Stored,
      A!files, A!tables
<1>0. \A c \in Contents : object[c] \in {"absent", "good", "bad"}
  OBVIOUS
<1>1. ASSUME NEW p \in Actors, A!put(p) PROVE StoreInv'
  <2>1. \/ Turns(p, "link", actor[p].artifact)
        \/ object[Digest[actor[p].artifact]] = "good" /\ Turns(p, "record", actor[p].artifact)
        \/ Turns(p, "idle", Nobody)
    BY <1>0, <1>1, ProcessUpdate, Zenon DEF A!put
  <2> QED BY <1>1, <2>1, ProcessTurns DEF A!put
<1>2. ASSUME NEW p \in Actors, A!link(p) PROVE StoreInv'
  <2>1. \/ Turns(p, "record", actor[p].artifact) /\ object'[Digest[actor[p].artifact]] # "absent"
        \/ Turns(p, "idle", Nobody)
    BY <1>0, <1>2, ProcessUpdate DEF A!link
  <2>2. /\ object' \in [Contents -> {"absent", "good", "bad"}]
        /\ \A c \in Contents : object[c] # "absent" => object'[c] # "absent"
    BY <1>2 DEF A!link
  <2> QED BY <1>2, <2>1, <2>2 DEF A!link, Turns
<1>3. ASSUME NEW p \in Actors, A!record_artifact(p) PROVE StoreInv'
  <2>1. Turns(p, "idle", Nobody)
    BY <1>3, ProcessUpdate DEF A!record_artifact
  <2> QED BY <1>3, <2>1 DEF A!record_artifact, Turns
<1>4. ASSUME NEW p \in Actors, A!read_verified(p) PROVE StoreInv'
  <2>1. Turns(p, "idle", Nobody) \/ Turns(p, "move", actor[p].artifact)
    BY <1>4, ProcessUpdate DEF A!read_verified
  <2> QED BY <1>4, <2>1, ProcessTurns, Zenon DEF A!read_verified
<1>5. ASSUME NEW p \in Actors, A!quarantine_inside(p) PROVE StoreInv'
  <2>1. Turns(p, "commit", actor[p].artifact)
    BY <1>5, ProcessUpdate DEF A!quarantine_inside
  <2>2. /\ object' \in [Contents -> {"absent", "good", "bad"}]
        /\ quarantine' \in [Artifacts -> SUBSET {"good", "bad"}]
        /\ \A a \in Artifacts : Somewhere(a) => Somewhere(a)'
    BY <1>5, BytesMove DEF A!quarantine_inside
  <2>3. A!EvidenceIsAccounted'
    BY <1>5, <2>2 DEF A!quarantine_inside
  <2> HIDE DEF Somewhere, A!EvidenceIsAccounted
  <2> QED BY <1>5, <2>1, <2>2, <2>3 DEF A!quarantine_inside, Turns
<1>6. ASSUME NEW p \in Actors, A!end_of_transaction(p) PROVE StoreInv'
  <2>1. Turns(p, "idle", Nobody)
    BY <1>6, ProcessUpdate, Zenon DEF A!end_of_transaction
  <2>2. CASE UNCHANGED A!tables
    BY <1>6, <2>1, <2>2 DEF A!end_of_transaction, Turns
  <2>3. CASE A!mark_artifact_corrupt(actor[p].artifact)
    <3>1. /\ artifact_row' \in [Artifacts -> {"NONE", "VALID", "CORRUPT"}] /\ audits' \in [Artifacts -> Nat]
          /\ \A b \in Artifacts : /\ artifact_row'[b] # "NONE" <=> artifact_row[b] # "NONE"
                                  /\ audits'[b] = (IF artifact_row'[b] = "CORRUPT" THEN 1 ELSE 0)
      BY <1>6, <2>3, RowMarked DEF A!end_of_transaction
    <3>2. A!EvidenceIsAccounted'
      BY <1>6, <3>1 DEF A!end_of_transaction
    <3> QED BY <1>6, <2>1, <3>1, <3>2 DEF A!end_of_transaction, Turns
  <2> QED BY <1>6, <2>2, <2>3 DEF A!end_of_transaction
<1>7. ASSUME NEW p \in Actors, A!read_verified_bytes(p) PROVE StoreInv'
  <2>1. Turns(p, "idle", Nobody) \/ Turns(p, "mark", actor[p].artifact)
    BY <1>7, ProcessUpdate DEF A!read_verified_bytes
  <2> QED BY <1>7, <2>1, ProcessTurns DEF A!read_verified_bytes
<1>8. ASSUME NEW p \in Actors, A!quarantine_corrupt(p) PROVE StoreInv'
  <2>1. Turns(p, "shift", actor[p].artifact)
    BY <1>8, ProcessUpdate, Zenon DEF A!quarantine_corrupt
  <2>2. /\ artifact_row' \in [Artifacts -> {"NONE", "VALID", "CORRUPT"}] /\ audits' \in [Artifacts -> Nat]
        /\ \A b \in Artifacts : /\ artifact_row'[b] # "NONE" <=> artifact_row[b] # "NONE"
                                /\ audits'[b] = (IF artifact_row'[b] = "CORRUPT" THEN 1 ELSE 0)
    BY <1>8, RowMarked, Zenon DEF A!quarantine_corrupt
  <2>3. A!EvidenceIsAccounted'
    BY <1>8, <2>2, Zenon DEF A!quarantine_corrupt
  <2>4. ProcessesKnow'
    <3>1. actor[p].at = "mark" /\ \A a \in Artifacts : Somewhere(a) => Somewhere(a)'
      BY <1>8 DEF A!quarantine_corrupt
    <3> HIDE DEF Somewhere, A!EvidenceIsAccounted
    <3> QED BY <2>1, <2>2, <3>1 DEF Turns
  <2> HIDE DEF A!EvidenceIsAccounted, ProcessesKnow
  <2> QED BY <1>8, <2>1, <2>2, <2>3, <2>4, Zenon DEF A!quarantine_corrupt, Turns
<1>9. ASSUME NEW p \in Actors, A!quarantine_after(p) PROVE StoreInv'
  <2>1. Turns(p, "idle", Nobody)
    BY <1>9, ProcessUpdate DEF A!quarantine_after
  <2>2. /\ object' \in [Contents -> {"absent", "good", "bad"}]
        /\ quarantine' \in [Artifacts -> SUBSET {"good", "bad"}]
        /\ \A a \in Artifacts : Somewhere(a) => Somewhere(a)'
    BY <1>9, BytesMove DEF A!quarantine_after
  <2>3. A!EvidenceIsAccounted'
    BY <1>9, <2>2 DEF A!quarantine_after
  <2> HIDE DEF Somewhere, A!EvidenceIsAccounted
  <2> QED BY <1>9, <2>1, <2>2, <2>3 DEF A!quarantine_after, Turns
<1>10. ASSUME NEW p \in Actors, A!crash(p) PROVE StoreInv'
  <2>1. Turns(p, "idle", Nobody)
    BY <1>10, ProcessUpdate, Zenon DEF A!crash
  <2> QED BY <1>10, <2>1, ProcessTurns, Zenon DEF A!crash
<1>11. ASSUME NEW p \in Actors, NEW a \in Artifacts, A!begin_put(p, a) PROVE StoreInv'
  <2>1. Turns(p, "put", a)
    BY <1>11, ProcessUpdate
  <2> QED BY <1>11, <2>1, ProcessTurns DEF A!begin_put
<1>12. ASSUME NEW p \in Actors, NEW a \in Artifacts, NEW reader \in Readers \ {"download"},
              A!get_verified(p, a, reader)
       PROVE  StoreInv'
  <2>1. Turns(p, "read", a)
    BY <1>12, ProcessUpdate
  <2> QED BY <1>12, <2>1, ProcessTurns DEF A!get_verified
<1>13. ASSUME NEW p \in Actors, NEW a \in Artifacts, A!download_artifact(p, a) PROVE StoreInv'
  <2>1. Turns(p, "fetch", a)
    BY <1>13, ProcessUpdate
  <2> QED BY <1>13, <2>1, ProcessTurns, Zenon DEF A!download_artifact
<1>14. ASSUME NEW c \in Contents, A!corrupts(c) PROVE StoreInv'
  BY <1>14 DEF A!corrupts
<1>15. CASE UNCHANGED A!vars
  BY <1>15 DEF A!vars
<1> HIDE DEF StoreInv
<1> QED BY <1>1, <1>2, <1>3, <1>4, <1>5, <1>6, <1>7, <1>8, <1>9, <1>10, <1>11, <1>12, <1>13, <1>14,
           <1>15 DEF A!Next, A!Step

\* Crashes and readers that meet bad bytes leave every recorded artifact with its bytes,
\* under their key or in a quarantine, and with one incident exactly if it is CORRUPT.
THEOREM ArtifactsStayAccounted == A!Spec => []EvidenceIsAccounted
<1>1. StoreInv => EvidenceIsAccounted
  BY DEF StoreInv, EvidenceIsAccounted
<1>2. A!Init => StoreInv
  BY ArtifactsAssumption, StoreInit
<1>3. StoreInv /\ [A!Next]_A!vars => StoreInv'
  BY ArtifactsAssumption, StoreStep
<1> QED BY <1>1, <1>2, <1>3, PTL DEF A!Spec

-----------------------------------------------------------------------------
(* The event stream of a task.                                             *)

StreamTypes ==
  /\ clock \in Nat /\ committed \in SUBSET Nat /\ open \in [Writers -> Nat \cup {Nothing}]
  /\ task \in {"running", "settled"} /\ socket \in E!Connection /\ sent \in Seq(Nat)

\* The cursor is at the last event sent, and the rest of the page is after it.
SentIsBehind ==
  /\ \A i \in 1..Len(sent) : sent[i] <= socket.cursor
  /\ \A e \in socket.batch : e > socket.cursor
  /\ E!SentInOrder

OrderInv == StreamTypes /\ SentIsBehind

\* The writer's event that is not committed comes after all that can be seen, and no
\* event can be seen between the cursor and an event of the page that the page lacks.
NothingBetween ==
  /\ socket.cursor <= clock /\ \A e \in committed : e <= clock
  /\ \A w \in Writers : open[w] # Nothing =>
       /\ open[w] <= clock /\ socket.cursor < open[w]
       /\ \A e \in committed : e < open[w]
  /\ socket.batch \subseteq committed
  /\ \A e \in socket.batch, f \in committed : socket.cursor < f /\ f < e => f \in socket.batch
  /\ \A e \in committed : e <= socket.cursor => e \in E!Sent

\* What a step of the handler may do to the connection.
Polled(at, cursor, batch) ==
  socket' \in E!Connection /\ socket'.at = at /\ socket'.cursor = cursor /\ socket'.batch = batch

LEMMA ConnectionUpdate ==
  ASSUME socket \in E!Connection, task \in {"running", "settled"}
  PROVE  /\ \A at \in {"check", "closed", "poll", "gone"} :
              socket' = [socket EXCEPT !.at = at] => Polled(at, socket.cursor, socket.batch)
         /\ socket' = [socket EXCEPT !.at = "poll", !.known = task] =>
              Polled("poll", socket.cursor, socket.batch)
         /\ \A rows \in SUBSET Nat :
              socket' = [socket EXCEPT !.at = "send", !.batch = rows] => Polled("send", socket.cursor, rows)
         /\ \A e \in Nat :
              socket' = [socket EXCEPT !.batch = @ \ {e}, !.cursor = e] =>
                Polled(socket.at, e, socket.batch \ {e})
BY Zenon DEF E!Connection, Polled

\* Every step leaves the connection where it was, reads a page or sends its first event.
StreamStep ==
  \/ UNCHANGED <<committed, sent>> /\ \E at : Polled(at, socket.cursor, socket.batch)
  \/ UNCHANGED <<committed, sent>> /\ \E rows \in SUBSET E!later :
       /\ \A e \in rows, f \in E!later \ rows : e < f
       /\ Polled("send", socket.cursor, rows)
  \/ UNCHANGED committed /\ \E e \in socket.batch :
       /\ \A f \in socket.batch : e <= f
       /\ sent' = Append(sent, e) /\ Polled("send", e, socket.batch \ {e})

LEMMA HandlerSteps ==
  ASSUME StreamTypes, E!accept \/ E!Handle \/ E!disconnect
  PROVE  StreamStep /\ UNCHANGED <<clock, open, task>>
<1>1. socket.batch \in SUBSET Nat /\ E!later \in SUBSET Nat
  BY DEF StreamTypes, E!Connection, E!later
<1>2. CASE E!accept
  BY <1>2, ConnectionUpdate, Zenon DEF StreamTypes, E!accept, StreamStep
<1>3. CASE E!next_events
  <2>1. PICK rows \in SUBSET E!later : (\A e \in rows, f \in E!later \ rows : e < f) /\ E!Polls(rows)
    BY <1>3 DEF E!next_events
  <2>2. Polled("send", socket.cursor, rows)
    BY <1>1, <2>1, ConnectionUpdate, Zenon DEF StreamTypes, E!Polls
  <2> QED BY <2>1, <2>2 DEF E!Polls, StreamStep
<1>4. CASE E!send_json
  <2>1. CASE socket' = [socket EXCEPT !.at = "check"] /\ UNCHANGED sent
    BY <1>4, <2>1, ConnectionUpdate, Zenon DEF StreamTypes, E!send_json, StreamStep
  <2>2. ASSUME NEW e \in socket.batch, \A f \in socket.batch : e <= f, sent' = Append(sent, e),
               socket' = [socket EXCEPT !.batch = @ \ {e}, !.cursor = e]
        PROVE  StreamStep
    <3>1. Polled("send", e, socket.batch \ {e})
      BY <1>1, <1>4, <2>2, ConnectionUpdate, Zenon DEF StreamTypes, E!send_json
    <3> QED BY <1>4, <2>2, <3>1, Zenon DEF E!send_json, StreamStep
  <2> QED BY <1>4, <2>1, <2>2, Zenon DEF E!send_json
<1>5. CASE E!stream_closed
  BY <1>5, ConnectionUpdate, Zenon DEF StreamTypes, E!stream_closed, StreamStep
<1>6. CASE E!disconnect
  BY <1>6, ConnectionUpdate, Zenon DEF StreamTypes, E!disconnect, StreamStep
<1> QED BY <1>2, <1>3, <1>4, <1>5, <1>6 DEF E!Handle

LEMMA WriterSteps ==
  ASSUME StreamTypes, NEW w \in Writers, E!append_audit(w) \/ E!commit(w)
  PROVE  /\ StreamTypes' /\ UNCHANGED <<socket, sent>>
         /\ \/ E!append_audit(w) /\ clock' = clock + 1 /\ committed' = committed /\ open'[w] = clock + 1
            \/ E!commit(w) /\ clock' = clock /\ committed' = committed \cup {open[w]} /\ open'[w] = Nothing
         /\ \A v \in Writers \ {w} : open'[v] = open[v]
<1>1. CASE E!append_audit(w)
  BY <1>1 DEF StreamTypes, E!append_audit
<1>2. CASE E!commit(w)
  BY <1>2, Zenon DEF StreamTypes, E!commit
<1> QED BY <1>1, <1>2

LEMMA OrderInit == E!Init => OrderInv /\ NothingBetween
<1> SUFFICES ASSUME E!Init PROVE OrderInv /\ NothingBetween
  OBVIOUS
<1>1. socket \in E!Connection /\ socket.cursor = 0 /\ socket.batch = {}
  BY DEF E!Init, E!Unconnected, E!Connection
<1>2. sent = <<>> /\ sent \in Seq(Nat) /\ Len(sent) = 0
  BY DEF E!Init
<1> QED BY <1>1, <1>2
        DEF E!Init, OrderInv, StreamTypes, SentIsBehind, E!SentInOrder, NothingBetween

LEMMA OrderStep == OrderInv /\ [E!Next]_E!vars => OrderInv'
<1> SUFFICES ASSUME OrderInv, [E!Next]_E!vars PROVE OrderInv'
  OBVIOUS
<1> USE DEF OrderInv, SentIsBehind, E!SentInOrder
<1>1. ASSUME NEW w \in Writers, E!append_audit(w) \/ E!commit(w) PROVE OrderInv'
  BY <1>1, WriterSteps
<1>2. CASE E!accept \/ E!Handle \/ E!disconnect
  <2>1. StreamStep /\ UNCHANGED <<clock, open, task>>
    BY <1>2, HandlerSteps
  <2>2. socket.cursor \in Nat /\ socket.batch \in SUBSET Nat
    BY DEF StreamTypes, E!Connection
  <2>3. ASSUME UNCHANGED <<committed, sent>>, NEW at, Polled(at, socket.cursor, socket.batch) PROVE OrderInv'
    BY <2>1, <2>3 DEF StreamTypes, Polled
  <2>4. ASSUME UNCHANGED <<committed, sent>>, NEW rows \in SUBSET E!later, Polled("send", socket.cursor, rows)
        PROVE  OrderInv'
    BY <2>1, <2>4, Zenon DEF StreamTypes, Polled, E!later
  <2>5. ASSUME UNCHANGED committed, NEW e \in socket.batch, \A f \in socket.batch : e <= f,
               sent' = Append(sent, e), Polled("send", e, socket.batch \ {e})
        PROVE  OrderInv'
    <3>1. e \in Nat /\ sent' \in Seq(Nat) /\ Len(sent') = Len(sent) + 1 /\ Len(sent) \in Nat
      BY <2>2, <2>5 DEF StreamTypes
    <3>2. sent'[Len(sent) + 1] = e /\ \A i \in 1..Len(sent) : sent'[i] = sent[i] /\ sent[i] \in Nat
      BY <2>2, <2>5 DEF StreamTypes
    <3>3. E!SentInOrder' /\ \A i \in 1..Len(sent') : sent'[i] <= e
      BY <2>2, <2>5, <3>1, <3>2
    <3>4. \A f \in socket'.batch : f > e
      BY <2>2, <2>5 DEF Polled
    <3> QED BY <2>1, <2>5, <3>1, <3>3, <3>4 DEF StreamTypes, Polled
  <2> QED BY <2>1, <2>3, <2>4, <2>5, Zenon DEF StreamStep
<1>3. CASE UNCHANGED E!vars
  BY <1>3 DEF E!vars, StreamTypes
<1> QED BY <1>1, <1>2, <1>3 DEF E!Next

\* The WebSocket handler never sends an event twice or after a later one, however many
\* components write events and in whatever order their transactions end.
THEOREM EventsComeInOrder == E!Spec => []E!SentInOrder
<1>1. OrderInv => E!SentInOrder
  BY DEF OrderInv, SentIsBehind
<1> QED BY OrderInit, OrderStep, <1>1, PTL DEF E!Spec

LEMMA StreamFollows ==
  ASSUME \A v, w \in Writers : v = w, OrderInv, NothingBetween, [E!Next]_E!vars
  PROVE  NothingBetween'
<1> USE DEF OrderInv, NothingBetween
<1>0. /\ clock \in Nat /\ committed \in SUBSET Nat /\ socket.cursor \in Nat /\ socket.batch \in SUBSET Nat
      /\ \A w \in Writers : open[w] # Nothing => open[w] \in Nat
      /\ sent \in Seq(Nat) /\ Len(sent) \in Nat
  BY DEF StreamTypes, E!Connection
<1>1. ASSUME NEW w \in Writers, E!append_audit(w) \/ E!commit(w) PROVE NothingBetween'
  <2>1. E!Sent' = E!Sent
    BY <1>1, WriterSteps, Zenon DEF E!Sent
  <2>2. CASE E!append_audit(w)
    BY <1>0, <2>1, <2>2, WriterSteps DEF E!append_audit
  <2>3. CASE E!commit(w)
    <3>1. /\ committed' = committed \cup {open[w]} /\ clock' = clock /\ socket' = socket
          /\ open[w] # Nothing /\ open[w] \in Nat
      BY <1>0, <2>3 DEF E!commit
    <3>2. \A v \in Writers : open'[v] = Nothing
      BY <2>3, Zenon DEF StreamTypes, E!commit
    <3>3. \A e \in socket.batch, f \in committed' : socket.cursor < f /\ f < e => f \in socket.batch
      BY <1>0, <3>1
    <3>4. \A e \in committed' : /\ e <= clock
                               /\ e <= socket.cursor => e \in E!Sent
      BY <1>0, <3>1
    <3> QED BY <2>1, <3>1, <3>2, <3>3, <3>4, Zenon
  <2> QED BY <1>1, <2>2, <2>3
<1>2. CASE E!accept \/ E!Handle \/ E!disconnect
  <2>1. StreamStep /\ UNCHANGED <<clock, open, task>>
    BY <1>2, HandlerSteps
  <2>2. ASSUME UNCHANGED <<committed, sent>>, NEW at, Polled(at, socket.cursor, socket.batch)
        PROVE  NothingBetween'
    BY <2>1, <2>2 DEF Polled, E!Sent
  <2>3. ASSUME UNCHANGED <<committed, sent>>, NEW rows \in SUBSET E!later,
               \A e \in rows, f \in E!later \ rows : e < f, Polled("send", socket.cursor, rows)
        PROVE  NothingBetween'
    <3>1. rows \subseteq committed /\ E!Sent' = E!Sent
      BY <2>3, Zenon DEF E!later, E!Sent
    <3>2. ASSUME NEW e \in rows, NEW f \in committed, socket.cursor < f, f < e PROVE f \in rows
      <4>1. e \in Nat /\ f \in Nat /\ f \in E!later
        BY <1>0, <3>1, <3>2 DEF E!later
      <4>2. ~(e < f)
        BY <3>2, <4>1
      <4> QED BY <2>3, <4>1, <4>2
    <3> QED BY <1>0, <2>1, <2>3, <3>1, <3>2, Zenon DEF Polled
  <2>4. ASSUME UNCHANGED committed, NEW e \in socket.batch, \A f \in socket.batch : e <= f,
               sent' = Append(sent, e), Polled("send", e, socket.batch \ {e})
        PROVE  NothingBetween'
    <3>1. e \in Nat /\ e \in committed /\ e > socket.cursor
      BY <1>0, <2>4 DEF SentIsBehind
    <3>2. E!Sent' = E!Sent \cup {e}
      <4>1. Len(sent') = Len(sent) + 1 /\ sent'[Len(sent) + 1] = e
            /\ \A i \in 1..Len(sent) : sent'[i] = sent[i]
        BY <1>0, <2>4, <3>1
      <4>2. 1..Len(sent') = 1..Len(sent) \cup {Len(sent) + 1}
        BY <1>0, <4>1
      <4>3. \A x \in E!Sent' : x \in E!Sent \cup {e}
        BY <4>1, <4>2 DEF E!Sent
      <4>4. \A x \in E!Sent \cup {e} : x \in E!Sent'
        BY <4>1, <4>2 DEF E!Sent
      <4> QED BY <4>3, <4>4
    <3>3. ASSUME NEW f \in committed, f <= e PROVE f \in E!Sent'
      <4>1. CASE f <= socket.cursor
        BY <3>2, <4>1
      <4>2. CASE f > socket.cursor /\ f < e
        BY <1>0, <2>4, <3>1, <4>2
      <4>3. CASE f = e
        BY <3>2, <4>3
      <4> QED BY <1>0, <3>1, <3>3, <4>1, <4>2, <4>3
    <3>4. \A d \in socket.batch \ {e}, f \in committed : e < f /\ f < d => f \in socket.batch \ {e}
      BY <1>0, <3>1
    <3>5. \A w \in Writers : open[w] # Nothing => e < open[w]
      BY <3>1
    <3> QED BY <1>0, <2>1, <2>4, <3>1, <3>3, <3>4, <3>5, Zenon DEF Polled
  <2> QED BY <2>1, <2>2, <2>3, <2>4, Zenon DEF StreamStep
<1>3. CASE UNCHANGED E!vars
  BY <1>3 DEF E!vars, E!Sent
<1> QED BY <1>1, <1>2, <1>3 DEF E!Next

\* Where one component writes the events of a task, the handler's cursor passes over no
\* event: what was committed behind it has been sent, once and in order.
THEOREM StreamStaysFaithful ==
  ASSUME \A v, w \in Writers : v = w
  PROVE  E!Spec => []StreamIsFaithful
<1>1. OrderInv /\ NothingBetween => StreamIsFaithful
  BY DEF OrderInv, SentIsBehind, NothingBetween, StreamIsFaithful, E!StreamIsFaithful
<1>2. OrderInv /\ NothingBetween /\ [E!Next]_E!vars => NothingBetween'
  BY StreamFollows
<1> QED BY OrderInit, OrderStep, <1>1, <1>2, PTL DEF E!Spec
=============================================================================
