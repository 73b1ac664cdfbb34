------------------------------- MODULE Delivery -------------------------------
(***************************************************************************)
(* Events on their way from a domain transaction to their effect: outbox    *)
(* rows and the publishers that claim them, one Redis stream with its       *)
(* consumer group, delivery rows, receipts and dead letters.  One action is *)
(* one PostgreSQL transaction or one Redis command.  Timestamps are what    *)
(* the queries compare them with: due or not, expired or not, stalled.      *)
(***************************************************************************)
EXTENDS Integers, FiniteSets

CONSTANTS
  Events,        \* event ids, numbered in the order they are created
  Publishers,    \* dispatchers' outbox publishers
  Consumers,     \* dispatchers' event consumers, one group
  Nobody,
  MaxAttempts,   \* max_attempts of OutboxPublisher
  MaxDeliveries, \* max_attempts of DeliveryRetryPolicy
  Entries,       \* stream ids that may be used: 1 .. n
  MaxFaults

ASSUME DeliveryAssumption ==
  /\ Events \subseteq Nat /\ Entries \subseteq Nat
  /\ Nobody \notin Publishers \cup Consumers \cup Events \cup Entries
  /\ Publishers \cap Consumers = {}
  /\ MaxAttempts \in Nat \ {0} /\ MaxDeliveries \in Nat \ {0} /\ MaxFaults \in Nat

VARIABLES
  outbox,       \* OutboxRow per event
  batch,        \* claimed events a publisher has not dealt with
  handling,     \* the one it is handling and how far
  entryState,   \* stream entry: free, new, pending (in the group's PEL), removed
  carries,      \* event of a stream entry
  consumer,     \* what a consumer holds: [entry, event, at, swept]
  receipts,     \* events with a ConsumerReceiptRow of the group
  delivery,     \* ConsumerDeliveryRow per event
  deadLetters,  \* DeadLetterRow rows, unique per (consumer, event)
  resolved,     \* those that were replayed
  effects,      \* history: how often an event's effect was committed
  lost,         \* history: events of which Redis dropped an entry
  faults

outboxVars == <<outbox, batch, handling>>
streamVars == <<entryState, carries>>
tableVars == <<receipts, delivery, deadLetters, resolved>>
vars == <<outboxVars, streamVars, consumer, tableVars, effects, lost, faults>>

OutboxRow ==
  [exists: BOOLEAN, payload: {"kept", "empty"},
   published: BOOLEAN, parked: BOOLEAN,                    \* published_at, dead_lettered_at
   attempts: 0..MaxAttempts,                               \* saturates: only compared with the cap
   due: BOOLEAN,                                           \* next_attempt_at <= now
   token: Publishers \cup {Nobody},   \* a publisher has one batch at a time, so it names the claim
   expired: BOOLEAN]                                       \* claimed_until <= now

ConsumerDeliveryRow ==
  [status: {"NONE", "RETRY", "DEAD_LETTERED"}, attempts: 0..MaxDeliveries,
   clock: {"waiting", "due", "stalled"}]                   \* next_attempt_at against now

\* The payload of a dead letter is kept, or {} when sweep_stalled wrote it.
DeadLetterRow ==
  [event: Events, consumer: Publishers \cup Consumers, payload: {"kept", "empty"}]

NoRow == [exists |-> FALSE, payload |-> "kept", published |-> FALSE, parked |-> FALSE, attempts |-> 0,
          due |-> FALSE, token |-> Nobody, expired |-> FALSE]
NoDelivery == [status |-> "NONE", attempts |-> 0, clock |-> "waiting"]
ClaimedEvent == [event: Events, attempt: 1..MaxAttempts]
Resting == [event |-> Nobody, attempt |-> 0, at |-> "idle"]
Idle == [entry |-> Nobody, event |-> Nobody, at |-> "idle", swept |-> {}]

TypeOK ==
  /\ outbox \in [Events -> OutboxRow]
  /\ batch \in [Publishers -> SUBSET ClaimedEvent]
  /\ handling \in [Publishers -> [event: Events \cup {Nobody}, attempt: 0..MaxAttempts,
                                  at: {"idle", "sent", "failed"}]]
  /\ entryState \in [Entries -> {"free", "new", "pending", "removed"}]
  /\ carries \in [Entries -> Events \cup {Nobody}]
  /\ consumer \in [Consumers -> [entry: Entries \cup {Nobody}, event: Events \cup {Nobody},
                                 at: {"idle", "received", "checked", "failed", "ack", "sweep"},
                                 swept: SUBSET Events]]
  /\ receipts \in SUBSET Events
  /\ delivery \in [Events -> ConsumerDeliveryRow]
  /\ deadLetters \in SUBSET DeadLetterRow
  /\ resolved \in SUBSET deadLetters
  /\ effects \in [Events -> Nat]
  /\ lost \in SUBSET Events
  /\ faults \in 0..MaxFaults

Init ==
  /\ outbox = [e \in Events |-> NoRow]
  /\ batch = [p \in Publishers |-> {}]
  /\ handling = [p \in Publishers |-> Resting]
  /\ entryState = [i \in Entries |-> "free"]
  /\ carries = [i \in Entries |-> Nobody]
  /\ consumer = [c \in Consumers |-> Idle]
  /\ receipts = {} /\ deadLetters = {} /\ resolved = {} /\ lost = {}
  /\ delivery = [e \in Events |-> NoDelivery]
  /\ effects = [e \in Events |-> 0]
  /\ faults = 0

-----------------------------------------------------------------------------
(* Producers and the operator.                                             *)

Least(S) == {e \in S : \A f \in S : e <= f}
Unused == Least({e \in Events : ~outbox[e].exists})

\* The row a transaction inserts: next_attempt_at defaults to now.
enqueue_event(e, payload) ==
  outbox' = [outbox EXCEPT ![e] = [NoRow EXCEPT !.exists = TRUE, !.payload = payload, !.due = TRUE]]

\* TransactionalMessageBus.send, or any domain transaction with an event.
send(e) ==
  /\ e \in Unused
  /\ enqueue_event(e, "kept")
  /\ UNCHANGED <<batch, handling, streamVars, consumer, tableVars, effects, lost, faults>>

\* POST /dead-letters/{id}/replay: the copy is a new event.
replay_dead_letter(row, e) ==
  /\ row \in deadLetters \ resolved
  /\ e \in Unused
  /\ resolved' = resolved \cup {row}
  /\ enqueue_event(e, row.payload)
  /\ UNCHANGED <<batch, handling, streamVars, consumer, receipts, delivery, deadLetters,
                 effects, lost, faults>>

\* OutboxPublisher.requeue, once the transport lost an event.
requeue(e) ==
  /\ e \in lost /\ outbox[e].exists
  /\ outbox' = [outbox EXCEPT ![e].published = FALSE, ![e].due = TRUE,
                              ![e].token = Nobody, ![e].expired = FALSE]
  /\ lost' = lost \ {e}
  /\ UNCHANGED <<batch, handling, streamVars, consumer, tableVars, effects, faults>>

-----------------------------------------------------------------------------
(* OutboxPublisher.publish_batch                                           *)

Claimable(e) ==
  /\ outbox[e].exists /\ ~outbox[e].published /\ ~outbox[e].parked /\ outbox[e].due
  /\ outbox[e].token = Nobody \/ outbox[e].expired

Saturating(n, max) == IF n < max THEN n + 1 ELSE max

\* _claim; rows locked by a concurrent transaction are skipped.
claim(p, S) ==
  /\ batch[p] = {} /\ handling[p] = Resting
  /\ S # {} /\ \A e \in S : Claimable(e)
  /\ outbox' = [e \in Events |-> IF e \in S
                  THEN [outbox[e] EXCEPT !.attempts = Saturating(@, MaxAttempts),
                                         !.token = p, !.expired = FALSE]
                  ELSE outbox[e]]
  /\ batch' = [batch EXCEPT ![p] = {[event |-> e, attempt |-> Saturating(outbox[e].attempts, MaxAttempts)]
                                     : e \in S}]
  /\ UNCHANGED <<handling, streamVars, consumer, tableVars, effects, lost, faults>>

\* The first event of a batch, in the order of creation.
IsHead(p, x) == x \in batch[p] /\ \A y \in batch[p] : x.event <= y.event
FreeEntry == Least({i \in Entries : entryState[i] = "free"})

Handle(p, x, at) ==
  /\ handling[p] = Resting /\ IsHead(p, x)
  /\ batch' = [batch EXCEPT ![p] = @ \ {x}]
  /\ handling' = [handling EXCEPT ![p] = [event |-> x.event, attempt |-> x.attempt, at |-> at]]

\* Mutant: the row is marked published before the XADD.
publish_after_mark(p, x) ==
  /\ Handle(p, x, "sent")
  /\ UNCHANGED <<outbox, streamVars, consumer, tableVars, effects, lost, faults>>

\* RedisStreamsTransport.publish: XADD.
publish(p, x) ==
  /\ Handle(p, x, "sent")
  /\ \E i \in FreeEntry :
       /\ entryState' = [entryState EXCEPT ![i] = "new"]
       /\ carries' = [carries EXCEPT ![i] = x.event]
  /\ UNCHANGED <<outbox, consumer, tableVars, effects, lost, faults>>

\* XADD raised.
publish_fails(p, x) ==
  /\ Handle(p, x, "failed")
  /\ UNCHANGED <<outbox, streamVars, consumer, tableVars, effects, lost, faults>>

Released(row) == [row EXCEPT !.token = Nobody, !.expired = FALSE]

\* Rows are written only where the claim token still is this claim's.
mark_published(p) ==
  LET e == handling[p].event
  IN  /\ handling[p].at = "sent"
      /\ outbox' = IF outbox[e].token = p /\ ~outbox[e].published
                     THEN [outbox EXCEPT ![e] = [Released(@) EXCEPT !.published = TRUE]]
                     ELSE outbox
      /\ handling' = [handling EXCEPT ![p] = Resting]
      /\ UNCHANGED <<batch, streamVars, consumer, tableVars, effects, lost, faults>>

InsertDeadLetter(e, who, payload) ==
  deadLetters' = IF \E row \in deadLetters : row.event = e /\ row.consumer = who
                   THEN deadLetters
                   ELSE deadLetters \cup {[event |-> e, consumer |-> who, payload |-> payload]}

\* _dead_letter: the row is parked under the claim token; the dead letter is
\* inserted in any case.
dead_letter(p, e) ==
  /\ outbox' = IF outbox[e].token = p
                 THEN [outbox EXCEPT ![e] = [Released(@) EXCEPT !.parked = TRUE]]
                 ELSE outbox
  /\ InsertDeadLetter(e, p, outbox[e].payload)

\* _mark_failed
mark_failed(p) ==
  LET e == handling[p].event
  IN  /\ handling[p].at = "failed"
      /\ \/ handling[p].attempt >= MaxAttempts /\ dead_letter(p, e)
         \/ /\ handling[p].attempt < MaxAttempts
            /\ outbox' = IF outbox[e].token = p
                           THEN [outbox EXCEPT ![e] = [Released(@) EXCEPT !.due = FALSE]]
                           ELSE outbox
            /\ UNCHANGED deadLetters
      /\ handling' = [handling EXCEPT ![p] = Resting]
      /\ UNCHANGED <<batch, streamVars, consumer, receipts, delivery, resolved, effects, lost, faults>>

-----------------------------------------------------------------------------
(* DeliveryConsumer and the event consumption loop.                        *)

Receive(c, i) ==
  /\ consumer[c] = Idle
  /\ entryState' = [entryState EXCEPT ![i] = "pending"]
  /\ consumer' = [consumer EXCEPT ![c] = [Idle EXCEPT !.entry = i, !.event = carries[i], !.at = "received"]]
  /\ UNCHANGED <<outboxVars, carries, tableVars, effects, lost, faults>>

\* XREADGROUP with ">": the next entry never delivered to the group.
read(c, i) == i \in Least({j \in Entries : entryState[j] = "new"}) /\ Receive(c, i)

\* XAUTOCLAIM: a pending entry that was idle for long, whoever had it.
reclaim(c, i) == entryState[i] = "pending" /\ Receive(c, i)

Continue(c, at) == consumer' = [consumer EXCEPT ![c].at = at]
Rest(c) == consumer' = [consumer EXCEPT ![c] = Idle]

\* process, _is_deferred: a delivery whose retry is not due is left pending.
is_deferred(c) ==
  LET row == delivery[consumer[c].event]
  IN  /\ consumer[c].at = "received"
      /\ \/ row.status = "RETRY" /\ row.clock = "waiting" /\ Rest(c)
         \/ ~(row.status = "RETRY" /\ row.clock = "waiting") /\ Continue(c, "checked")
      /\ UNCHANGED <<outboxVars, streamVars, tableVars, effects, lost, faults>>

\* Mutant: the effect is repeated although the receipt is there.
apply_without_receipt(c) ==
  LET e == consumer[c].event
  IN  /\ consumer[c].at = "checked"
      /\ receipts' = receipts \cup {e}
      /\ effects' = [effects EXCEPT ![e] = @ + 1]
      /\ Continue(c, "ack")
      /\ UNCHANGED <<outboxVars, streamVars, delivery, deadLetters, resolved, lost, faults>>

\* The insert of a receipt that does nothing when there is one.
claim_consumer_receipt(e) == e \notin receipts /\ receipts' = receipts \cup {e}

\* process: receipt and effect in one transaction, or a duplicate.
apply(c) ==
  LET e == consumer[c].event
  IN  /\ consumer[c].at = "checked"
      /\ \/ e \in receipts /\ UNCHANGED <<receipts, effects>>
         \/ claim_consumer_receipt(e) /\ effects' = [effects EXCEPT ![e] = @ + 1]
      /\ Continue(c, "ack")
      /\ UNCHANGED <<outboxVars, streamVars, delivery, deadLetters, resolved, lost, faults>>

\* The handler or a statement raised: receipt and effect are rolled back.
apply_fails(c) ==
  /\ consumer[c].at = "checked"
  /\ Continue(c, "failed")
  /\ UNCHANGED <<outboxVars, streamVars, tableVars, effects, lost, faults>>

\* _record_failure: retry later, or dead-letter and acknowledge.
record_failure(c) ==
  LET e == consumer[c].event
      attempts == Saturating(delivery[e].attempts, MaxDeliveries)
  IN  /\ consumer[c].at = "failed"
      /\ \/ /\ attempts >= MaxDeliveries
            /\ delivery' = [delivery EXCEPT ![e] =
                 [status |-> "DEAD_LETTERED", attempts |-> attempts, clock |-> "due"]]
            /\ InsertDeadLetter(e, c, outbox[e].payload)
            /\ Continue(c, "ack")
         \/ /\ attempts < MaxDeliveries
            /\ delivery' = [delivery EXCEPT ![e] =
                 [status |-> "RETRY", attempts |-> attempts, clock |-> "waiting"]]
            /\ UNCHANGED deadLetters
            /\ Rest(c)
      /\ UNCHANGED <<outboxVars, streamVars, receipts, resolved, effects, lost, faults>>

\* XACK, after the transaction.
acknowledge(c) ==
  /\ consumer[c].at = "ack"
  /\ entryState' = [entryState EXCEPT ![consumer[c].entry] = "removed"]
  /\ Rest(c)
  /\ UNCHANGED <<outboxVars, carries, tableVars, effects, lost, faults>>

\* sweep_stalled: the rows are read without a lock ...
sweep_select(c) ==
  LET stalled == {e \in Events : delivery[e].status = "RETRY" /\ delivery[e].clock = "stalled"}
  IN  /\ consumer[c] = Idle /\ stalled # {}
      /\ consumer' = [consumer EXCEPT ![c] = [Idle EXCEPT !.at = "sweep", !.swept = stalled]]
      /\ UNCHANGED <<outboxVars, streamVars, tableVars, effects, lost, faults>>

\* Mutant: the row is settled without a dead letter.
sweep_write_silently(c) ==
  /\ consumer[c].at = "sweep"
  /\ delivery' = [e \in Events |-> IF e \in consumer[c].swept
        THEN [delivery[e] EXCEPT !.status = "DEAD_LETTERED", !.attempts = MaxDeliveries]
        ELSE delivery[e]]
  /\ Rest(c)
  /\ UNCHANGED <<outboxVars, streamVars, receipts, deadLetters, resolved, effects, lost, faults>>

\* ... and written whatever happened to them since.
sweep_write(c) ==
  LET S == consumer[c].swept
  IN  /\ consumer[c].at = "sweep"
      /\ delivery' = [e \in Events |-> IF e \in S
            THEN [delivery[e] EXCEPT !.status = "DEAD_LETTERED", !.attempts = MaxDeliveries]
            ELSE delivery[e]]
      /\ deadLetters' = deadLetters \cup
            {[event |-> e, consumer |-> c, payload |-> "empty"] :
               e \in {f \in S : \A row \in deadLetters : ~(row.event = f /\ row.consumer = c)}}
      /\ Rest(c)
      /\ UNCHANGED <<outboxVars, streamVars, receipts, resolved, effects, lost, faults>>

-----------------------------------------------------------------------------
(* Time, and what goes wrong.                                              *)

retry_due(e) ==
  /\ outbox[e].exists /\ ~outbox[e].due
  /\ outbox' = [outbox EXCEPT ![e].due = TRUE]
  /\ UNCHANGED <<batch, handling, streamVars, consumer, tableVars, effects, lost, faults>>

Later == [waiting |-> "due", due |-> "stalled"]

delivery_clock(e) ==
  /\ delivery[e].status = "RETRY" /\ delivery[e].clock \in DOMAIN Later
  /\ delivery' = [delivery EXCEPT ![e].clock = Later[@]]
  /\ UNCHANGED <<outboxVars, streamVars, consumer, receipts, deadLetters, resolved, effects, lost, faults>>

Fault == faults < MaxFaults /\ faults' = faults + 1

\* The publisher died: nothing shortens the claims it left behind.
publisher_crash(p) ==
  /\ batch[p] # {} \/ handling[p] # Resting
  /\ Fault
  /\ batch' = [batch EXCEPT ![p] = {}]
  /\ handling' = [handling EXCEPT ![p] = Resting]
  /\ UNCHANGED <<outbox, streamVars, consumer, tableVars, effects, lost>>

\* claim_ttl passes; for a publisher that is still at work this is a fault.
claim_expires(e) ==
  /\ outbox[e].token # Nobody /\ ~outbox[e].expired
  /\ LET p == outbox[e].token
         working == handling[p].event = e \/ \E x \in batch[p] : x.event = e
     IN  IF working THEN Fault ELSE UNCHANGED faults
  /\ outbox' = [outbox EXCEPT ![e].expired = TRUE]
  /\ UNCHANGED <<batch, handling, streamVars, consumer, tableVars, effects, lost>>

\* A crash, or an XACK that raised: the entry stays in the PEL.
consumer_crash(c) ==
  /\ consumer[c] # Idle
  /\ Fault
  /\ Rest(c)
  /\ UNCHANGED <<outboxVars, streamVars, tableVars, effects, lost>>

\* Redis drops the oldest entries: MAXLEN on XADD, the retention loop's
\* XTRIM MINID, or all of them with the instance.
redis_drops(i) ==
  LET gone == {j \in Entries : j <= i /\ entryState[j] \in {"new", "pending"}}
  IN  /\ i \in gone
      /\ Fault
      /\ entryState' = [j \in Entries |-> IF j \in gone THEN "removed" ELSE entryState[j]]
      /\ lost' = lost \cup {carries[j] : j \in gone}
      /\ UNCHANGED <<outboxVars, carries, consumer, tableVars, effects>>

PublisherStep(p) ==
  \/ \E S \in SUBSET Events : claim(p, S)
  \/ \E x \in batch[p] : publish(p, x) \/ publish_fails(p, x)
  \/ mark_published(p) \/ mark_failed(p)

ProcessStep(c) ==
  is_deferred(c) \/ apply(c) \/ apply_fails(c) \/ record_failure(c) \/ acknowledge(c)

ConsumerStep(c) ==
  \/ \E i \in Entries : read(c, i) \/ reclaim(c, i)
  \/ ProcessStep(c)
  \/ sweep_select(c) \/ sweep_write(c)

Next ==
  \/ \E p \in Publishers : PublisherStep(p) \/ publisher_crash(p)
  \/ \E c \in Consumers : ConsumerStep(c) \/ consumer_crash(c)
  \/ \E e \in Events : send(e) \/ requeue(e) \/ retry_due(e) \/ delivery_clock(e) \/ claim_expires(e)
  \/ \E row \in deadLetters, e \in Events : replay_dead_letter(row, e)
  \/ \E i \in Entries : redis_drops(i)

Spec == Init /\ [][Next]_vars

-----------------------------------------------------------------------------

IsDead(e) == \E row \in deadLetters : row.event = e
InFlight(e) == \E i \in Entries : carries[i] = e /\ entryState[i] \in {"new", "pending"}

Ledger == INSTANCE EventLedger WITH sent <- {e \in Events : outbox[e].exists}

\* At-least-once delivery with once-only effects: with duplicate entries,
\* concurrent consumers, retries, lost acknowledgements and redelivery the
\* handler's effect of an event is committed at most once, because the receipt
\* is claimed in the handler's own transaction.
EffectsOnce == Ledger!LedgerSpec

\* An event marked published is never silently gone: it has its receipt, a dead
\* letter, or an entry that will still be delivered, unless Redis itself dropped
\* an entry of it.  The order XADD before mark, commit before XACK is what this
\* rests on.
NothingLost ==
  \A e \in Events :
    outbox[e].published => e \in receipts \/ IsDead(e) \/ InFlight(e) \/ e \in lost

\* The claim token fences publishers: an event that one publisher parked as
\* poison was not marked published by another, and a parked row is not claimed.
ParkedIsUnpublished ==
  \A e \in Events : outbox[e].parked => ~outbox[e].published /\ outbox[e].token = Nobody /\ IsDead(e)

-----------------------------------------------------------------------------
(* What comments and documents state, and the code does not keep.          *)

\* "a retry either happens or is recorded as failed": no dead letter of the
\* sweep is written for an event whose retry took effect.
RetryHappensOrIsRecorded ==
  [][\A row \in deadLetters' \ deadLetters : row.payload = "empty" => row.event \notin receipts]_vars

\* requeue is to "Make a canonical event eligible after disposable transport loss".
RequeueMakesEligible == [][\A e \in Events : requeue(e) => Claimable(e)']_vars

\* "Park a poison event: stop retrying, retain the canonical row, and record an
\* operator-visible dead letter": the dead letter of a publisher is of a parked row.
DeadLetterMeansParked ==
  \A row \in deadLetters : row.consumer \in Publishers => outbox[row.event].parked

\* "Operators can inspect and replay a dead letter after correcting the cause":
\* the event a replay enqueues carries the payload of the one that failed.
ReplayKeepsPayload == \A e \in Events : outbox[e].payload = "kept"
=============================================================================
