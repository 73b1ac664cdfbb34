---------------------------- MODULE DeliveryProofs ----------------------------
(***************************************************************************)
(* Once-only effects and no silent loss, for every number of events,       *)
(* publishers, consumers, stream entries and faults.                       *)
(***************************************************************************)
EXTENDS Delivery, TLAPS

LEMMA SaturatingType ==
  ASSUME NEW max \in Nat \ {0}, NEW n \in 0..max
  PROVE  Saturating(n, max) \in 1..max
BY DEF Saturating

LEMMA InitType == Init => TypeOK
BY DeliveryAssumption DEF Init, TypeOK, NoRow, OutboxRow, Resting, Idle, NoDelivery, ConsumerDeliveryRow

(* Who writes what: a step that is none of the writers of a variable leaves  *)
(* it alone.                                                                *)

WritesOutbox ==
  \/ \E e \in Events, payload \in {"kept", "empty"} : e \in Unused /\ enqueue_event(e, payload)
  \/ \E e \in Events : requeue(e) \/ retry_due(e) \/ claim_expires(e)
  \/ \E p \in Publishers : (\E S \in SUBSET Events : claim(p, S)) \/ mark_published(p) \/ mark_failed(p)

LEMMA OutboxWriters ==
  ASSUME TypeOK, [Next]_vars
  PROVE  WritesOutbox \/ UNCHANGED outbox
<1>1. ASSUME NEW p \in Publishers, PublisherStep(p) \/ publisher_crash(p)
      PROVE  WritesOutbox \/ UNCHANGED outbox
  BY <1>1 DEF PublisherStep, publisher_crash, publish, publish_fails, WritesOutbox
<1>2. ASSUME NEW c \in Consumers, ConsumerStep(c) \/ consumer_crash(c)
      PROVE  UNCHANGED outbox
  BY <1>2 DEF ConsumerStep, ProcessStep, consumer_crash, read, reclaim, Receive, is_deferred, apply, apply_fails,
              record_failure, acknowledge, sweep_select, sweep_write, outboxVars
<1>3. ASSUME NEW e \in Events,
             send(e) \/ requeue(e) \/ retry_due(e) \/ delivery_clock(e) \/ claim_expires(e)
      PROVE  WritesOutbox \/ UNCHANGED outbox
  BY <1>3 DEF send, delivery_clock, WritesOutbox, outboxVars
<1>4. ASSUME NEW row \in deadLetters, NEW e \in Events, replay_dead_letter(row, e)
      PROVE  WritesOutbox
  BY <1>4 DEF replay_dead_letter, WritesOutbox, TypeOK, DeadLetterRow
<1>5. ASSUME NEW i \in Entries, redis_drops(i)
      PROVE  UNCHANGED outbox
  BY <1>5 DEF redis_drops, outboxVars
<1>6. CASE UNCHANGED vars
  BY <1>6 DEF vars, outboxVars
<1> QED BY <1>1, <1>2, <1>3, <1>4, <1>5, <1>6 DEF Next

LEMMA OutboxType ==
  ASSUME TypeOK, [Next]_vars
  PROVE  outbox' \in [Events -> OutboxRow]
<1>0. outbox \in [Events -> OutboxRow]
  BY DEF TypeOK
<1>1. ASSUME NEW e \in Events, NEW payload \in {"kept", "empty"}, enqueue_event(e, payload)
      PROVE  outbox' \in [Events -> OutboxRow]
  <2>1. [NoRow EXCEPT !.exists = TRUE, !.payload = payload, !.due = TRUE] \in OutboxRow
    <3>1. NoRow \in OutboxRow
      BY DeliveryAssumption DEF NoRow, OutboxRow
    <3>2. ASSUME NEW row \in OutboxRow
          PROVE  [row EXCEPT !.exists = TRUE, !.payload = payload, !.due = TRUE] \in OutboxRow
      BY DEF OutboxRow
    <3> QED BY <3>1, <3>2
  <2> QED BY <1>0, <1>1, <2>1 DEF enqueue_event
<1>2. ASSUME NEW e \in Events, requeue(e) \/ retry_due(e) \/ claim_expires(e)
      PROVE  outbox' \in [Events -> OutboxRow]
  <2>1. CASE requeue(e)
    <3>1. ASSUME NEW row \in OutboxRow
          PROVE  [row EXCEPT !.published = FALSE, !.due = TRUE, !.token = Nobody, !.expired = FALSE] \in OutboxRow
      BY DEF OutboxRow
    <3>2. outbox' = [outbox EXCEPT ![e] = [@ EXCEPT !.published = FALSE, !.due = TRUE, !.token = Nobody, !.expired = FALSE]]
      BY <2>1, <1>0 DEF requeue
    <3> QED BY <1>0, <3>1, <3>2
  <2>2. CASE retry_due(e)
    <3>1. ASSUME NEW row \in OutboxRow PROVE [row EXCEPT !.due = TRUE] \in OutboxRow
      BY DEF OutboxRow
    <3>2. outbox' = [outbox EXCEPT ![e] = [@ EXCEPT !.due = TRUE]]
      BY <2>2, <1>0 DEF retry_due
    <3> QED BY <1>0, <3>1, <3>2
  <2>3. CASE claim_expires(e)
    <3>1. ASSUME NEW row \in OutboxRow PROVE [row EXCEPT !.expired = TRUE] \in OutboxRow
      BY DEF OutboxRow
    <3>2. outbox' = [outbox EXCEPT ![e] = [@ EXCEPT !.expired = TRUE]]
      BY <2>3, <1>0 DEF claim_expires
    <3> QED BY <1>0, <3>1, <3>2
  <2> QED BY <1>2, <2>1, <2>2, <2>3
<1>3. ASSUME NEW p \in Publishers, NEW S \in SUBSET Events, claim(p, S)
      PROVE  outbox' \in [Events -> OutboxRow]
  <2>1. ASSUME NEW row \in OutboxRow
        PROVE  [row EXCEPT !.attempts = Saturating(row.attempts, MaxAttempts), !.token = p, !.expired = FALSE]
                 \in OutboxRow
    <3>1. Saturating(row.attempts, MaxAttempts) \in 0..MaxAttempts
      BY SaturatingType, DeliveryAssumption DEF OutboxRow
    <3> QED BY <3>1 DEF OutboxRow
  <2> QED BY <1>0, <1>3, <2>1 DEF claim
<1>4. ASSUME NEW p \in Publishers, mark_published(p) \/ mark_failed(p)
      PROVE  outbox' \in [Events -> OutboxRow]
  <2>1. ASSUME NEW row \in OutboxRow
        PROVE  /\ [Released(row) EXCEPT !.published = TRUE] \in OutboxRow
               /\ [Released(row) EXCEPT !.parked = TRUE] \in OutboxRow
               /\ [Released(row) EXCEPT !.due = FALSE] \in OutboxRow
    BY DEF Released, OutboxRow
  <2>2. CASE mark_published(p)
    BY <1>0, <2>1, <2>2 DEF mark_published
  <2>3. CASE mark_failed(p)
    <3> DEFINE e == handling[p].event
    <3>1. \/ outbox' = outbox
          \/ outbox' = [outbox EXCEPT ![e] = [Released(outbox[e]) EXCEPT !.parked = TRUE]]
          \/ outbox' = [outbox EXCEPT ![e] = [Released(outbox[e]) EXCEPT !.due = FALSE]]
      BY <2>3 DEF mark_failed, dead_letter
    <3>2. CASE outbox' = outbox
      BY <1>0, <3>2
    <3>3. CASE outbox' = [outbox EXCEPT ![e] = [Released(outbox[e]) EXCEPT !.parked = TRUE]]
      BY <1>0, <2>1, <3>3
    <3>4. CASE outbox' = [outbox EXCEPT ![e] = [Released(outbox[e]) EXCEPT !.due = FALSE]]
      BY <1>0, <2>1, <3>4
    <3> QED BY <3>1, <3>2, <3>3, <3>4
  <2> QED BY <1>4, <2>2, <2>3
<1> QED BY <1>0, <1>1, <1>2, <1>3, <1>4, OutboxWriters DEF WritesOutbox

Outside ==
  \/ \E e \in Events : send(e) \/ requeue(e) \/ retry_due(e) \/ delivery_clock(e) \/ claim_expires(e)
  \/ \E row \in deadLetters, e \in Events : replay_dead_letter(row, e)
  \/ \E i \in Entries : redis_drops(i)
  \/ UNCHANGED vars

LEMMA PublisherFrame ==
  ASSUME NEW p \in Publishers, PublisherStep(p) \/ publisher_crash(p)
  PROVE  UNCHANGED <<consumer, receipts, delivery, resolved, effects, lost>>
BY DEF PublisherStep, publisher_crash, claim, publish, publish_fails, mark_published, mark_failed, tableVars

LEMMA ConsumerFrame ==
  ASSUME NEW c \in Consumers, ConsumerStep(c) \/ consumer_crash(c)
  PROVE  UNCHANGED <<outbox, batch, handling, carries, resolved, lost>>
BY DEF ConsumerStep, ProcessStep, consumer_crash, read, reclaim, Receive, is_deferred, apply, apply_fails,
       record_failure, acknowledge, sweep_select, sweep_write, outboxVars, streamVars, tableVars

LEMMA OutsideFrame ==
  ASSUME Outside
  PROVE  UNCHANGED <<batch, handling, carries, consumer, receipts, deadLetters, effects>>
BY DEF Outside, send, requeue, retry_due, delivery_clock, claim_expires, replay_dead_letter, redis_drops,
       vars, outboxVars, streamVars, tableVars

LEMMA Actors ==
  ASSUME [Next]_vars
  PROVE  \/ \E p \in Publishers : PublisherStep(p) \/ publisher_crash(p)
         \/ \E c \in Consumers : ConsumerStep(c) \/ consumer_crash(c)
         \/ Outside
BY DEF Next, Outside

Busy == {"received", "checked", "failed", "ack"}

(* What is on its way is an event that was committed, and what a consumer     *)
(* works on is the event of its stream entry.                                *)
Held ==
  /\ \A i \in Entries : entryState[i] # "free" => carries[i] \in Events /\ outbox[carries[i]].exists
  /\ \A p \in Publishers : \A x \in batch[p] : outbox[x.event].exists
  /\ \A p \in Publishers : handling[p].at # "idle" => handling[p].event \in Events /\ outbox[handling[p].event].exists
  /\ \A c \in Consumers : consumer[c].at \in Busy =>
       consumer[c].entry \in Entries /\ entryState[consumer[c].entry] # "free" /\ carries[consumer[c].entry] = consumer[c].event

Handlings == [event: Events \cup {Nobody}, attempt: 0..MaxAttempts, at: {"idle", "sent", "failed"}]
Holdings ==
  [entry: Entries \cup {Nobody}, event: Events \cup {Nobody},
   at: {"idle", "received", "checked", "failed", "ack", "sweep"}, swept: SUBSET Events]
EntryStates == {"free", "new", "pending", "removed"}

LEMMA DeadLettersGrow ==
  ASSUME deadLetters \in SUBSET DeadLetterRow, NEW e \in Events, NEW who \in Publishers \cup Consumers,
         NEW payload \in {"kept", "empty"}, InsertDeadLetter(e, who, payload)
  PROVE  /\ deadLetters' \in SUBSET DeadLetterRow /\ deadLetters \subseteq deadLetters'
         /\ \E row \in deadLetters' : row.event = e
<1> DEFINE new == [event |-> e, consumer |-> who, payload |-> payload]
<1>1. new \in DeadLetterRow /\ new.event = e
  BY DEF DeadLetterRow
<1>2. CASE \E row \in deadLetters : row.event = e /\ row.consumer = who
  BY <1>2 DEF InsertDeadLetter
<1>3. CASE ~(\E row \in deadLetters : row.event = e /\ row.consumer = who)
  <2>1. deadLetters' = deadLetters \cup {new}
    BY <1>3 DEF InsertDeadLetter
  <2> HIDE DEF new
  <2> QED BY <1>1, <2>1
<1> QED BY <1>2, <1>3

LEMMA PublisherType ==
  ASSUME TypeOK, Held, NEW p \in Publishers, PublisherStep(p) \/ publisher_crash(p)
  PROVE  /\ batch' \in [Publishers -> SUBSET ClaimedEvent] /\ handling' \in [Publishers -> Handlings]
         /\ entryState' \in [Entries -> EntryStates] /\ carries' \in [Entries -> Events \cup {Nobody}]
         /\ deadLetters' \in SUBSET DeadLetterRow /\ deadLetters \subseteq deadLetters'
         /\ faults' \in 0..MaxFaults
<1>0. /\ batch \in [Publishers -> SUBSET ClaimedEvent] /\ handling \in [Publishers -> Handlings]
      /\ entryState \in [Entries -> EntryStates] /\ carries \in [Entries -> Events \cup {Nobody}]
      /\ deadLetters \in SUBSET DeadLetterRow /\ outbox \in [Events -> OutboxRow]
      /\ faults \in 0..MaxFaults
  BY DEF TypeOK, Handlings, EntryStates
<1>1. ASSUME NEW S \in SUBSET Events, claim(p, S)
      PROVE  batch' \in [Publishers -> SUBSET ClaimedEvent] /\ UNCHANGED <<handling, entryState, carries, deadLetters, faults>>
  <2>1. \A e \in Events : Saturating(outbox[e].attempts, MaxAttempts) \in 1..MaxAttempts
    BY <1>0, SaturatingType, DeliveryAssumption DEF OutboxRow
  <2>2. {[event |-> e, attempt |-> Saturating(outbox[e].attempts, MaxAttempts)] : e \in S} \in SUBSET ClaimedEvent
    BY <2>1 DEF ClaimedEvent
  <2> QED BY <1>0, <1>1, <2>2 DEF claim, streamVars, tableVars
<1>2. ASSUME NEW x \in batch[p], publish(p, x) \/ publish_fails(p, x)
      PROVE  /\ batch' \in [Publishers -> SUBSET ClaimedEvent] /\ handling' \in [Publishers -> Handlings]
             /\ entryState' \in [Entries -> EntryStates] /\ carries' \in [Entries -> Events \cup {Nobody}]
             /\ UNCHANGED <<deadLetters, faults>>
  <2>1. x.event \in Events /\ x.attempt \in 0..MaxAttempts
    BY <1>0, DeliveryAssumption DEF ClaimedEvent
  <2>2. PICK at \in {"sent", "failed"} : Handle(p, x, at)
    BY <1>2 DEF publish, publish_fails
  <2>3. batch' \in [Publishers -> SUBSET ClaimedEvent]
    BY <1>0, <2>2 DEF Handle
  <2>4. [event |-> x.event, attempt |-> x.attempt, at |-> at] \in Handlings
    BY <2>1 DEF Handlings
  <2>5. handling' \in [Publishers -> Handlings]
    BY <1>0, <2>2, <2>4 DEF Handle
  <2>6. entryState' \in [Entries -> EntryStates] /\ carries' \in [Entries -> Events \cup {Nobody}]
    BY <1>0, <1>2, <2>1 DEF publish, publish_fails, FreeEntry, Least, streamVars, EntryStates
  <2> QED BY <1>2, <2>3, <2>5, <2>6 DEF publish, publish_fails, tableVars
<1>3. Resting \in Handlings
  BY DeliveryAssumption DEF Resting, Handlings
<1>4. CASE mark_published(p)
  BY <1>0, <1>3, <1>4 DEF mark_published, streamVars, tableVars
<1>5. CASE publisher_crash(p)
  BY <1>0, <1>3, <1>5, DeliveryAssumption DEF publisher_crash, Fault, streamVars, tableVars
<1>6. CASE mark_failed(p)
  <2>1. UNCHANGED <<batch, entryState, carries, faults>> /\ handling' \in [Publishers -> Handlings]
    BY <1>0, <1>3, <1>6 DEF mark_failed, streamVars
  <2>2. handling[p].event \in Events
    BY <1>6 DEF mark_failed, Held
  <2>3. outbox[handling[p].event].payload \in {"kept", "empty"}
    BY <1>0, <2>2 DEF OutboxRow
  <2>4. \/ InsertDeadLetter(handling[p].event, p, outbox[handling[p].event].payload)
        \/ UNCHANGED deadLetters
    BY <1>6 DEF mark_failed, dead_letter
  <2>5. deadLetters' \in SUBSET DeadLetterRow /\ deadLetters \subseteq deadLetters'
    BY <1>0, <2>2, <2>3, <2>4, DeadLettersGrow
  <2> QED BY <1>0, <2>1, <2>5
<1> QED BY <1>0, <1>1, <1>2, <1>4, <1>5, <1>6 DEF PublisherStep

LEMMA ConsumerType ==
  ASSUME TypeOK, Held, NEW c \in Consumers, ConsumerStep(c) \/ consumer_crash(c)
  PROVE  /\ consumer' \in [Consumers -> Holdings] /\ entryState' \in [Entries -> EntryStates]
         /\ receipts' \in SUBSET Events /\ receipts \subseteq receipts'
         /\ delivery' \in [Events -> ConsumerDeliveryRow]
         /\ deadLetters' \in SUBSET DeadLetterRow /\ deadLetters \subseteq deadLetters'
         /\ effects' \in [Events -> Nat]
         /\ faults' \in 0..MaxFaults
<1>0. /\ consumer \in [Consumers -> Holdings] /\ entryState \in [Entries -> EntryStates]
      /\ receipts \in SUBSET Events /\ delivery \in [Events -> ConsumerDeliveryRow]
      /\ deadLetters \in SUBSET DeadLetterRow /\ effects \in [Events -> Nat] /\ outbox \in [Events -> OutboxRow]
      /\ carries \in [Entries -> Events \cup {Nobody}] /\ faults \in 0..MaxFaults
  BY DEF TypeOK, Holdings, EntryStates
<1>1. Idle \in Holdings
  BY DEF Idle, Holdings
<1>2. ASSUME NEW at \in {"checked", "failed", "ack"}, Continue(c, at)
      PROVE  consumer' \in [Consumers -> Holdings]
  BY <1>0, <1>2 DEF Continue, Holdings
<1>3. ASSUME Rest(c)
      PROVE  consumer' \in [Consumers -> Holdings]
  BY <1>0, <1>1, <1>3 DEF Rest
<1>4. consumer[c].at \in Busy => consumer[c].event \in Events /\ consumer[c].entry \in Entries
  BY DEF Held
<1>5. ASSUME NEW i \in Entries, read(c, i) \/ reclaim(c, i)
      PROVE  /\ consumer' \in [Consumers -> Holdings] /\ entryState' \in [Entries -> EntryStates]
             /\ UNCHANGED <<receipts, delivery, deadLetters, effects, faults>>
  <2>1. [Idle EXCEPT !.entry = i, !.event = carries[i], !.at = "received"] \in Holdings
    BY <1>0 DEF Idle, Holdings
  <2> QED BY <1>0, <1>5, <2>1 DEF read, reclaim, Receive, EntryStates, tableVars
<1>6. CASE is_deferred(c) \/ apply_fails(c)
  BY <1>0, <1>2, <1>3, <1>6 DEF is_deferred, apply_fails, streamVars, tableVars
<1>7. CASE apply(c)
  <2>1. consumer[c].event \in Events
    BY <1>4, <1>7 DEF apply, Busy
  <2>2. effects' \in [Events -> Nat]
    BY <1>0, <1>7, <2>1 DEF apply
  <2>3. receipts' \in SUBSET Events /\ receipts \subseteq receipts'
    BY <1>0, <1>7, <2>1 DEF apply, claim_consumer_receipt
  <2> QED BY <1>0, <1>2, <1>7, <2>2, <2>3 DEF apply, streamVars
<1>8. CASE record_failure(c)
  <2> DEFINE e == consumer[c].event
             attempts == Saturating(delivery[e].attempts, MaxDeliveries)
  <2>1. e \in Events
    BY <1>4, <1>8 DEF record_failure, Busy
  <2>2. attempts \in 0..MaxDeliveries
    <3>1. delivery[e].attempts \in 0..MaxDeliveries
      BY <1>0, <2>1 DEF ConsumerDeliveryRow
    <3>2. attempts \in 1..MaxDeliveries
      BY <3>1, SaturatingType, DeliveryAssumption
    <3> QED BY <3>2, DeliveryAssumption
  <2>3. \A status \in {"DEAD_LETTERED", "RETRY"}, clock \in {"due", "waiting"} :
          [status |-> status, attempts |-> attempts, clock |-> clock] \in ConsumerDeliveryRow
    BY <2>2 DEF ConsumerDeliveryRow
  <2>4. delivery' \in [Events -> ConsumerDeliveryRow]
    <3>1. PICK status \in {"DEAD_LETTERED", "RETRY"}, clock \in {"due", "waiting"} :
            delivery' = [delivery EXCEPT ![e] = [status |-> status, attempts |-> attempts, clock |-> clock]]
      BY <1>8 DEF record_failure
    <3>2. [status |-> status, attempts |-> attempts, clock |-> clock] \in ConsumerDeliveryRow
      BY <2>3
    <3> QED BY <1>0, <2>1, <3>1, <3>2
  <2>5. outbox[e].payload \in {"kept", "empty"}
    BY <1>0, <2>1 DEF OutboxRow
  <2>6. InsertDeadLetter(e, c, outbox[e].payload) \/ UNCHANGED deadLetters
    BY <1>8 DEF record_failure
  <2>7. deadLetters' \in SUBSET DeadLetterRow /\ deadLetters \subseteq deadLetters'
    BY <1>0, <2>1, <2>5, <2>6, DeadLettersGrow
  <2> QED BY <1>0, <1>2, <1>3, <1>8, <2>4, <2>7 DEF record_failure, streamVars
<1>9. CASE acknowledge(c)
  BY <1>0, <1>3, <1>9 DEF acknowledge, EntryStates, tableVars
<1>10. CASE sweep_select(c)
  <2>1. ASSUME NEW S \in SUBSET Events
        PROVE  [Idle EXCEPT !.at = "sweep", !.swept = S] \in Holdings
    BY DEF Idle, Holdings
  <2> QED BY <1>0, <1>10, <2>1 DEF sweep_select, streamVars, tableVars
<1>11. CASE sweep_write(c)
  <2>1. consumer[c].swept \in SUBSET Events
    BY <1>0 DEF Holdings
  <2>2. ASSUME NEW row \in ConsumerDeliveryRow
        PROVE  [row EXCEPT !.status = "DEAD_LETTERED", !.attempts = MaxDeliveries] \in ConsumerDeliveryRow
    <3>1. MaxDeliveries \in 0..MaxDeliveries
      BY DeliveryAssumption
    <3> QED BY <3>1 DEF ConsumerDeliveryRow
  <2>3. delivery' \in [Events -> ConsumerDeliveryRow]
    BY <1>0, <1>11, <2>2 DEF sweep_write
  <2>4. \A e \in Events : [event |-> e, consumer |-> c, payload |-> "empty"] \in DeadLetterRow
    BY DEF DeadLetterRow
  <2>5. deadLetters' \in SUBSET DeadLetterRow /\ deadLetters \subseteq deadLetters'
    <3>1. PICK T \in SUBSET Events :
            deadLetters' = deadLetters \cup {[event |-> e, consumer |-> c, payload |-> "empty"] : e \in T}
      BY <1>11, <2>1 DEF sweep_write
    <3> QED BY <1>0, <2>4, <3>1
  <2> QED BY <1>0, <1>3, <1>11, <2>3, <2>5 DEF sweep_write, streamVars
<1>12. CASE consumer_crash(c)
  BY <1>0, <1>3, <1>12, DeliveryAssumption DEF consumer_crash, Fault, streamVars, tableVars
<1> QED BY <1>0, <1>5, <1>6, <1>7, <1>8, <1>9, <1>10, <1>11, <1>12 DEF ConsumerStep, ProcessStep

LEMMA OutsideType ==
  ASSUME TypeOK, Held, Outside
  PROVE  /\ entryState' \in [Entries -> EntryStates] /\ delivery' \in [Events -> ConsumerDeliveryRow]
         /\ resolved' \in SUBSET deadLetters /\ lost' \in SUBSET Events /\ faults' \in 0..MaxFaults
<1>0. /\ entryState \in [Entries -> EntryStates] /\ delivery \in [Events -> ConsumerDeliveryRow]
      /\ resolved \in SUBSET deadLetters /\ lost \in SUBSET Events /\ faults \in 0..MaxFaults
  BY DEF TypeOK, EntryStates
<1>1. ASSUME NEW e \in Events, send(e) \/ requeue(e) \/ retry_due(e)
      PROVE  /\ UNCHANGED <<entryState, delivery, resolved, faults>>
             /\ lost' \in SUBSET Events
  BY <1>0, <1>1 DEF send, requeue, retry_due, streamVars, tableVars
<1>2. ASSUME NEW e \in Events, claim_expires(e)
      PROVE  UNCHANGED <<entryState, delivery, resolved, lost>> /\ faults' \in 0..MaxFaults
  BY <1>0, <1>2, DeliveryAssumption DEF claim_expires, Fault, streamVars, tableVars
<1>3. ASSUME NEW e \in Events, delivery_clock(e)
      PROVE  UNCHANGED <<entryState, resolved, lost, faults>> /\ delivery' \in [Events -> ConsumerDeliveryRow]
  <2>1. ASSUME NEW row \in ConsumerDeliveryRow, NEW clock \in {"waiting", "due", "stalled"}
        PROVE  [row EXCEPT !.clock = clock] \in ConsumerDeliveryRow
    BY DEF ConsumerDeliveryRow
  <2>2. Later[delivery[e].clock] \in {"waiting", "due", "stalled"}
    BY <1>3 DEF delivery_clock, Later
  <2>3. delivery' = [delivery EXCEPT ![e] = [delivery[e] EXCEPT !.clock = Later[delivery[e].clock]]]
    BY <1>0, <1>3 DEF delivery_clock
  <2>4. [delivery[e] EXCEPT !.clock = Later[delivery[e].clock]] \in ConsumerDeliveryRow
    BY <1>0, <2>1, <2>2
  <2>5. delivery' \in [Events -> ConsumerDeliveryRow]
    BY <1>0, <2>3, <2>4
  <2> QED BY <1>3, <2>5 DEF delivery_clock, streamVars
<1>4. ASSUME NEW row \in deadLetters, NEW e \in Events, replay_dead_letter(row, e)
      PROVE  UNCHANGED <<entryState, delivery, lost, faults>> /\ resolved' \in SUBSET deadLetters
  BY <1>0, <1>4 DEF replay_dead_letter, streamVars
<1>5. ASSUME NEW i \in Entries, redis_drops(i)
      PROVE  /\ UNCHANGED <<delivery, resolved>>
             /\ entryState' \in [Entries -> EntryStates] /\ lost' \in SUBSET Events /\ faults' \in 0..MaxFaults
  <2> DEFINE gone == {j \in Entries : j <= i /\ entryState[j] \in {"new", "pending"}}
  <2>1. \A j \in gone : carries[j] \in Events
    BY DEF Held
  <2>2. entryState' \in [Entries -> EntryStates]
    BY <1>0, <1>5 DEF redis_drops, EntryStates
  <2>3. lost' = lost \cup {carries[j] : j \in gone}
    BY <1>5 DEF redis_drops
  <2>4. lost' \in SUBSET Events
    BY <1>0, <2>1, <2>3
  <2>5. faults' \in 0..MaxFaults
    BY <1>0, <1>5, DeliveryAssumption DEF redis_drops, Fault
  <2> QED BY <1>5, <2>2, <2>4, <2>5 DEF redis_drops, tableVars
<1>6. CASE UNCHANGED vars
  BY <1>0, <1>6 DEF vars, streamVars, tableVars
<1> QED BY <1>0, <1>1, <1>2, <1>3, <1>4, <1>5, <1>6 DEF Outside

LEMMA TypeStep ==
  ASSUME TypeOK, Held, [Next]_vars
  PROVE  TypeOK'
<1>0. outbox' \in [Events -> OutboxRow]
  BY OutboxType
<1>1. ASSUME NEW p \in Publishers, PublisherStep(p) \/ publisher_crash(p)
      PROVE  TypeOK'
  BY <1>0, <1>1, PublisherFrame, PublisherType DEF TypeOK, Handlings, EntryStates
<1>2. ASSUME NEW c \in Consumers, ConsumerStep(c) \/ consumer_crash(c)
      PROVE  TypeOK'
  BY <1>0, <1>2, ConsumerFrame, ConsumerType DEF TypeOK, Holdings, EntryStates
<1>3. CASE Outside
  BY <1>0, <1>3, OutsideFrame, OutsideType DEF TypeOK, EntryStates
<1> QED BY <1>1, <1>2, <1>3, Actors

(* What a step does to the row of one event.                                *)

Same(e) == /\ outbox'[e].published = outbox[e].published
           /\ outbox'[e].parked = outbox[e].parked

Turn(e) ==
  \/ Same(e) /\ outbox'[e].exists = outbox[e].exists /\ outbox'[e].token = outbox[e].token
  \/ /\ ~outbox[e].exists /\ outbox'[e].exists
     /\ ~outbox'[e].published /\ ~outbox'[e].parked /\ outbox'[e].token = Nobody
     /\ \A f \in Events \ {e} : outbox'[f] = outbox[f]
  \/ /\ outbox'[e].exists = outbox[e].exists /\ ~outbox'[e].published /\ outbox'[e].parked = outbox[e].parked
     /\ outbox'[e].token = Nobody
  \/ \E p \in Publishers :
       /\ Same(e) /\ ~outbox[e].published /\ ~outbox[e].parked
       /\ outbox'[e].exists = outbox[e].exists /\ outbox'[e].token = p /\ handling[p] = Resting /\ handling'[p] = Resting
  \/ \E p \in Publishers :
       /\ outbox[e].token = p /\ handling[p].event = e
       /\ outbox'[e].exists = outbox[e].exists /\ outbox'[e].token = Nobody
       /\ \/ Same(e)
          \/ handling[p].at = "sent" /\ outbox'[e].published /\ outbox'[e].parked = outbox[e].parked
          \/ outbox'[e].published = outbox[e].published /\ outbox'[e].parked /\ IsDead(e)'

LEMMA RowTurns ==
  ASSUME TypeOK, Held, [Next]_vars, NEW e \in Events
  PROVE  Turn(e)
<1>0. outbox \in [Events -> OutboxRow] /\ handling \in [Publishers -> Handlings]
  BY DEF TypeOK, Handlings
<1>1. ASSUME NEW f \in Events, NEW payload \in {"kept", "empty"}, f \in Unused, enqueue_event(f, payload)
      PROVE  Turn(e)
  <2>1. f # e => outbox'[e] = outbox[e]
    BY <1>0, <1>1 DEF enqueue_event
  <2>2. f = e => ~outbox[e].exists
    BY <1>1 DEF Unused, Least
  <2>3. f = e => outbox'[e] = [NoRow EXCEPT !.exists = TRUE, !.payload = payload, !.due = TRUE]
    BY <1>0, <1>1 DEF enqueue_event
  <2>4. f = e => outbox'[e].exists /\ ~outbox'[e].published /\ ~outbox'[e].parked /\ outbox'[e].token = Nobody
    BY <2>3 DEF NoRow
  <2>5. f = e => \A g \in Events \ {e} : outbox'[g] = outbox[g]
    BY <1>0, <1>1 DEF enqueue_event
  <2> QED BY <2>1, <2>2, <2>4, <2>5 DEF Turn, Same
<1>2. ASSUME NEW f \in Events, requeue(f)
      PROVE  Turn(e)
  <2>1. f # e => outbox'[e] = outbox[e]
    BY <1>0, <1>2 DEF requeue
  <2>2. f = e => outbox'[e] = [outbox[e] EXCEPT !.published = FALSE, !.due = TRUE, !.token = Nobody, !.expired = FALSE]
    BY <1>0, <1>2 DEF requeue
  <2>3. ASSUME NEW row \in OutboxRow, outbox'[e] = [row EXCEPT !.published = FALSE, !.due = TRUE, !.token = Nobody, !.expired = FALSE]
        PROVE  /\ outbox'[e].exists = row.exists /\ ~outbox'[e].published /\ outbox'[e].parked = row.parked
               /\ outbox'[e].token = Nobody
    BY <2>3 DEF OutboxRow
  <2>4. f = e => outbox[e].exists
    BY <1>2 DEF requeue
  <2> QED BY <1>0, <2>1, <2>2, <2>3, <2>4 DEF Turn, Same
<1>3. ASSUME NEW f \in Events, retry_due(f) \/ claim_expires(f)
      PROVE  Turn(e)
  <2>1. \/ outbox'[e] = outbox[e] \/ outbox'[e] = [outbox[e] EXCEPT !.due = TRUE]
        \/ outbox'[e] = [outbox[e] EXCEPT !.expired = TRUE]
    BY <1>0, <1>3 DEF retry_due, claim_expires
  <2>2. /\ outbox'[e].exists = outbox[e].exists /\ outbox'[e].published = outbox[e].published
        /\ outbox'[e].parked = outbox[e].parked /\ outbox'[e].token = outbox[e].token
    BY <1>0, <2>1 DEF OutboxRow
  <2> QED BY <2>2 DEF Turn, Same
<1>4. ASSUME NEW p \in Publishers, NEW S \in SUBSET Events, claim(p, S)
      PROVE  Turn(e)
  <2>1. e \notin S => outbox'[e] = outbox[e]
    BY <1>4 DEF claim
  <2>2. e \in S => outbox'[e] = [outbox[e] EXCEPT !.attempts = Saturating(outbox[e].attempts, MaxAttempts),
                                                  !.token = p, !.expired = FALSE]
    BY <1>4 DEF claim
  <2>3. e \in S => /\ outbox'[e].exists = outbox[e].exists /\ outbox'[e].published = outbox[e].published
                   /\ outbox'[e].parked = outbox[e].parked /\ outbox'[e].token = p
    BY <1>0, <2>2 DEF OutboxRow
  <2>4. e \in S => outbox[e].exists /\ ~outbox[e].published /\ ~outbox[e].parked
    BY <1>4 DEF claim, Claimable
  <2>5. handling[p] = Resting /\ handling'[p] = Resting
    BY <1>4 DEF claim
  <2> QED BY <2>1, <2>3, <2>4, <2>5 DEF Turn, Same
<1>5. ASSUME NEW p \in Publishers, mark_published(p) \/ mark_failed(p)
      PROVE  Turn(e)
  <2>0. ASSUME NEW row \in OutboxRow
        PROVE  /\ [Released(row) EXCEPT !.published = TRUE].exists = row.exists
               /\ [Released(row) EXCEPT !.published = TRUE].published
               /\ [Released(row) EXCEPT !.published = TRUE].parked = row.parked
               /\ [Released(row) EXCEPT !.published = TRUE].token = Nobody
               /\ [Released(row) EXCEPT !.parked = TRUE].exists = row.exists
               /\ [Released(row) EXCEPT !.parked = TRUE].published = row.published
               /\ [Released(row) EXCEPT !.parked = TRUE].parked
               /\ [Released(row) EXCEPT !.parked = TRUE].token = Nobody
               /\ [Released(row) EXCEPT !.due = FALSE].exists = row.exists
               /\ [Released(row) EXCEPT !.due = FALSE].published = row.published
               /\ [Released(row) EXCEPT !.due = FALSE].parked = row.parked
               /\ [Released(row) EXCEPT !.due = FALSE].token = Nobody
    BY DEF Released, OutboxRow
  <2>1. CASE outbox'[e] = outbox[e]
    BY <2>1 DEF Turn, Same
  <2>2. CASE outbox'[e] # outbox[e] /\ mark_published(p)
    <3>1. /\ e = handling[p].event /\ outbox[e].token = p /\ handling[p].at = "sent"
          /\ outbox'[e] = [Released(outbox[e]) EXCEPT !.published = TRUE]
      BY <1>0, <2>2 DEF mark_published
    <3>2. /\ outbox'[e].exists = outbox[e].exists /\ outbox'[e].published
          /\ outbox'[e].parked = outbox[e].parked /\ outbox'[e].token = Nobody
      BY <1>0, <2>0, <3>1
    <3> QED BY <3>1, <3>2 DEF Turn
  <2>3. CASE outbox'[e] # outbox[e] /\ mark_failed(p)
    <3>1. /\ e = handling[p].event /\ outbox[e].token = p
          /\ \/ outbox'[e] = [Released(outbox[e]) EXCEPT !.due = FALSE]
             \/ /\ outbox'[e] = [Released(outbox[e]) EXCEPT !.parked = TRUE]
                /\ InsertDeadLetter(e, p, outbox[e].payload)
      BY <1>0, <2>3 DEF mark_failed, dead_letter
    <3>2. outbox[e].payload \in {"kept", "empty"} /\ deadLetters \in SUBSET DeadLetterRow
      BY <1>0 DEF OutboxRow, TypeOK
    <3>3. InsertDeadLetter(e, p, outbox[e].payload) => IsDead(e)'
      BY <3>2, DeadLettersGrow DEF IsDead
    <3>4. CASE outbox'[e] = [Released(outbox[e]) EXCEPT !.due = FALSE]
      <4>1. /\ outbox'[e].exists = outbox[e].exists /\ outbox'[e].published = outbox[e].published
            /\ outbox'[e].parked = outbox[e].parked /\ outbox'[e].token = Nobody
        BY <1>0, <2>0, <3>4
      <4> QED BY <3>1, <4>1 DEF Turn, Same
    <3>5. CASE outbox'[e] = [Released(outbox[e]) EXCEPT !.parked = TRUE] /\ IsDead(e)'
      <4>1. /\ outbox'[e].exists = outbox[e].exists /\ outbox'[e].published = outbox[e].published
            /\ outbox'[e].parked /\ outbox'[e].token = Nobody
        BY <1>0, <2>0, <3>5
      <4> QED BY <3>1, <3>5, <4>1 DEF Turn
    <3> QED BY <3>1, <3>3, <3>4, <3>5
  <2> QED BY <1>5, <2>1, <2>2, <2>3
<1>6. CASE UNCHANGED outbox
  BY <1>6 DEF Turn, Same
<1> QED BY <1>1, <1>2, <1>3, <1>4, <1>5, <1>6, OutboxWriters DEF WritesOutbox

LEMMA ExistsStays ==
  ASSUME TypeOK, Held, [Next]_vars, NEW e \in Events, outbox[e].exists
  PROVE  outbox'[e].exists
BY RowTurns DEF Turn

LEMMA HeldStep ==
  ASSUME TypeOK, Held, [Next]_vars
  PROVE  Held'
<1>0. \A e \in Events : outbox[e].exists => outbox'[e].exists
  BY ExistsStays
<1>1. ASSUME NEW p \in Publishers, PublisherStep(p) \/ publisher_crash(p)
      PROVE  Held'
  <2>1. UNCHANGED consumer
    BY <1>1, PublisherFrame
  <2>2. CASE \E S \in SUBSET Events : claim(p, S)
    <3>1. PICK S \in SUBSET Events : claim(p, S)
      BY <2>2
    <3>2. \A q \in Publishers : \A x \in batch'[q] : outbox'[x.event].exists
      <4>1. \A e \in S : outbox'[e].exists
        BY <1>0, <3>1 DEF claim, Claimable
      <4>2. \A x \in batch'[p] : x.event \in S
        <5>1. batch'[p] = {[event |-> e, attempt |-> Saturating(outbox[e].attempts, MaxAttempts)] : e \in S}
          BY <3>1 DEF claim, TypeOK
        <5> QED BY <5>1
      <4>3. \A q \in Publishers \ {p} : batch'[q] = batch[q]
        BY <3>1 DEF claim, TypeOK
      <4>4. \A q \in Publishers : \A x \in batch[q] : x.event \in Events
        BY DEF TypeOK, ClaimedEvent
      <4> QED BY <1>0, <4>1, <4>2, <4>3, <4>4 DEF Held
    <3> QED BY <1>0, <2>1, <3>1, <3>2 DEF Held, claim, streamVars
  <2>3. ASSUME NEW x \in batch[p], publish(p, x) \/ publish_fails(p, x)
        PROVE  Held'
    <3>1. PICK at \in {"sent", "failed"} : Handle(p, x, at)
      BY <2>3 DEF publish, publish_fails
    <3>2. x.event \in Events /\ outbox'[x.event].exists
      BY <1>0 DEF Held, TypeOK, ClaimedEvent
    <3>3. \A q \in Publishers : batch'[q] \subseteq batch[q]
      BY <3>1 DEF Handle, TypeOK
    <3>4. \A q \in Publishers : handling'[q] = handling[q] \/ handling'[q].event = x.event
      BY <3>1 DEF Handle, TypeOK
    <3>5. \/ UNCHANGED <<entryState, carries>>
          \/ \E i \in Entries : /\ entryState[i] = "free"
                                /\ entryState' = [entryState EXCEPT ![i] = "new"]
                                /\ carries' = [carries EXCEPT ![i] = x.event]
      BY <2>3 DEF publish, publish_fails, FreeEntry, Least, streamVars
    <3>6. \A q \in Publishers : \A y \in batch[q] : y.event \in Events
      BY DEF TypeOK, ClaimedEvent
    <3>7. \A q \in Publishers : \A y \in batch'[q] : outbox'[y.event].exists
      BY <1>0, <3>3, <3>6 DEF Held
    <3>8. \A q \in Publishers : handling'[q].at # "idle" => handling'[q].event \in Events /\ outbox'[handling'[q].event].exists
      BY <1>0, <3>2, <3>4 DEF Held
    <3>9. \A i \in Entries : entryState'[i] # "free" => carries'[i] \in Events /\ outbox'[carries'[i]].exists
      BY <1>0, <3>2, <3>5 DEF Held, TypeOK
    <3>10. \A i \in Entries : entryState[i] # "free" => entryState'[i] # "free" /\ carries'[i] = carries[i]
      BY <3>5 DEF TypeOK
    <3> QED BY <2>1, <3>7, <3>8, <3>9, <3>10 DEF Held
  <2>4. CASE mark_published(p) \/ mark_failed(p) \/ publisher_crash(p)
    <3>1. /\ handling' = [handling EXCEPT ![p] = Resting] /\ UNCHANGED <<entryState, carries>>
          /\ batch' = batch \/ batch' = [batch EXCEPT ![p] = {}]
      BY <2>4 DEF mark_published, mark_failed, publisher_crash, streamVars
    <3>2. \A q \in Publishers : batch'[q] \subseteq batch[q] /\ (\A y \in batch[q] : y.event \in Events)
      BY <3>1 DEF TypeOK, ClaimedEvent
    <3>3. \A q \in Publishers : handling'[q] = handling[q] \/ handling'[q].at = "idle"
      BY <3>1 DEF TypeOK, Resting
    <3> QED BY <1>0, <2>1, <3>1, <3>2, <3>3 DEF Held
  <2> QED BY <1>1, <2>2, <2>3, <2>4 DEF PublisherStep
<1>2. ASSUME NEW c \in Consumers, ConsumerStep(c) \/ consumer_crash(c)
      PROVE  Held'
  <2>1. UNCHANGED <<outbox, batch, handling, carries>>
    BY <1>2, ConsumerFrame
  <2>2. \A i \in Entries : entryState'[i] # "free" <=> entryState[i] # "free"
    <3>1. ASSUME NEW i \in Entries, read(c, i) \/ reclaim(c, i)
          PROVE  entryState[i] # "free" /\ entryState' = [entryState EXCEPT ![i] = "pending"]
      BY <3>1 DEF read, reclaim, Receive, Least
    <3>2. ASSUME NEW i \in Entries, entryState[i] # "free", NEW s \in {"pending", "removed"},
                 entryState' = [entryState EXCEPT ![i] = s]
          PROVE  \A j \in Entries : entryState'[j] # "free" <=> entryState[j] # "free"
      BY <3>2 DEF TypeOK
    <3>3. CASE \E i \in Entries : read(c, i) \/ reclaim(c, i)
      BY <3>1, <3>2, <3>3
    <3>4. CASE acknowledge(c)
      <4>1. consumer[c].entry \in Entries /\ entryState[consumer[c].entry] # "free"
        BY <3>4 DEF acknowledge, TypeOK, Held, Busy
      <4> QED BY <3>2, <3>4, <4>1 DEF acknowledge
    <3>6. CASE is_deferred(c) \/ apply(c) \/ apply_fails(c) \/ record_failure(c)
      BY <3>6 DEF is_deferred, apply, apply_fails, record_failure, streamVars
    <3>5. CASE sweep_select(c) \/ sweep_write(c) \/ consumer_crash(c)
      BY <3>5 DEF consumer_crash, sweep_select, sweep_write, streamVars
    <3> QED BY <1>2, <3>3, <3>4, <3>5, <3>6 DEF ConsumerStep, ProcessStep
  <2>3. \A d \in Consumers \ {c} : consumer'[d] = consumer[d]
    BY <1>2 DEF ConsumerStep, ProcessStep, consumer_crash, read, reclaim, Receive, is_deferred, apply, apply_fails,
                record_failure, acknowledge, sweep_select, sweep_write, Rest, Continue, TypeOK
  <2>4. consumer'[c].at \in Busy =>
          consumer'[c].entry \in Entries /\ entryState[consumer'[c].entry] # "free"
          /\ carries[consumer'[c].entry] = consumer'[c].event
    <3>0. consumer \in [Consumers -> Holdings]
      BY DEF TypeOK, Holdings
    <3>1. ASSUME NEW i \in Entries, read(c, i) \/ reclaim(c, i)
          PROVE  consumer'[c].entry = i /\ consumer'[c].event = carries[i] /\ entryState[i] # "free"
      <4>1. entryState[i] # "free"
        BY <3>1 DEF read, reclaim, Least
      <4>2. consumer'[c] = [Idle EXCEPT !.entry = i, !.event = carries[i], !.at = "received"]
        BY <3>0, <3>1 DEF read, reclaim, Receive
      <4> QED BY <4>1, <4>2 DEF Idle
    <3>2. CASE ProcessStep(c) \/ sweep_write(c) \/ consumer_crash(c)
      <4>1. \/ consumer'[c] = Idle
            \/ consumer[c].at \in Busy /\ \E at \in Busy : consumer'[c] = [consumer[c] EXCEPT !.at = at]
        <5>1. CASE Rest(c)
          BY <3>0, <5>1 DEF Rest
        <5>2. CASE consumer[c].at \in Busy /\ \E at \in Busy : Continue(c, at)
          BY <3>0, <5>2 DEF Continue
        <5>3. CASE is_deferred(c) \/ apply(c) \/ apply_fails(c)
          BY <5>1, <5>2, <5>3 DEF is_deferred, apply, apply_fails, Busy
        <5>4. CASE record_failure(c)
          BY <5>1, <5>2, <5>4 DEF record_failure, Busy
        <5>5. CASE acknowledge(c) \/ sweep_write(c) \/ consumer_crash(c)
          BY <5>1, <5>5 DEF acknowledge, sweep_write, consumer_crash
        <5> QED BY <3>2, <5>3, <5>4, <5>5 DEF ProcessStep
      <4>2. \/ consumer'[c].at = "idle"
            \/ consumer[c].at \in Busy /\ consumer'[c].entry = consumer[c].entry /\ consumer'[c].event = consumer[c].event
        <5>1. Idle.at = "idle"
          BY DEF Idle
        <5>2. ASSUME NEW h \in Holdings, NEW at \in Busy
              PROVE  [h EXCEPT !.at = at].entry = h.entry /\ [h EXCEPT !.at = at].event = h.event
          BY DEF Holdings
        <5>3. consumer[c] \in Holdings
          BY <3>0
        <5>4. CASE consumer'[c] = Idle
          BY <5>1, <5>4
        <5>5. ASSUME consumer[c].at \in Busy, NEW at \in Busy, consumer'[c] = [consumer[c] EXCEPT !.at = at]
              PROVE  consumer'[c].entry = consumer[c].entry /\ consumer'[c].event = consumer[c].event
          BY <5>2, <5>3, <5>5
        <5> QED BY <4>1, <5>4, <5>5
      <4> QED BY <4>2 DEF Held, Busy
    <3>3. CASE sweep_select(c)
      <4>1. PICK S : consumer'[c] = [Idle EXCEPT !.at = "sweep", !.swept = S]
        BY <3>0, <3>3 DEF sweep_select
      <4> QED BY <4>1 DEF Idle, Busy
    <3> QED BY <1>2, <3>1, <3>2, <3>3 DEF ConsumerStep
  <2> QED BY <2>1, <2>2, <2>3, <2>4 DEF Held
<1>3. CASE Outside
  <2>1. UNCHANGED <<batch, handling, carries, consumer>>
    BY <1>3, OutsideFrame
  <2>2. \A i \in Entries : entryState'[i] # "free" <=> entryState[i] # "free"
    BY <1>3 DEF Outside, send, requeue, retry_due, delivery_clock, claim_expires, replay_dead_letter, redis_drops,
                vars, streamVars
  <2>3. \A q \in Publishers : \A y \in batch[q] : y.event \in Events
    BY DEF TypeOK, ClaimedEvent
  <2> QED BY <1>0, <2>1, <2>2, <2>3 DEF Held
<1> QED BY <1>1, <1>2, <1>3, Actors

Safe(e) == e \in receipts \/ IsDead(e) \/ InFlight(e) \/ e \in lost

(* Why nothing is lost: a publisher that still has its claim after the XADD   *)
(* has put the event somewhere safe, and a consumer acknowledges only what is *)
(* recorded.  A claim is never on a row that is published.                    *)
Accounted ==
  /\ \A e \in Events : effects[e] = IF e \in receipts THEN 1 ELSE 0
  /\ \A c \in Consumers : consumer[c].at = "ack" => consumer[c].event \in receipts \/ IsDead(consumer[c].event)
  /\ \A p \in Publishers :
       handling[p].at = "sent" /\ outbox[handling[p].event].token = p => Safe(handling[p].event)
  /\ \A e \in Events : outbox[e].token # Nobody => ~outbox[e].published
  /\ NothingLost
  /\ ParkedIsUnpublished

DeliveryInv == TypeOK /\ Held /\ Accounted

LEMMA InitInv == Init => DeliveryInv
<1> SUFFICES ASSUME Init PROVE DeliveryInv
  OBVIOUS
<1>1. TypeOK
  BY InitType
<1>2. Held
  BY DEF Init, Held, Resting, Idle, Busy
<1>3. \A e \in Events : ~outbox[e].published /\ ~outbox[e].parked /\ outbox[e].token = Nobody
  BY DEF Init, NoRow
<1>4. \A e \in Events : effects[e] = IF e \in receipts THEN 1 ELSE 0
  BY DEF Init
<1>5. (\A c \in Consumers : consumer[c].at # "ack") /\ (\A p \in Publishers : handling[p].at # "sent")
  BY DEF Init, Idle, Resting
<1> QED BY <1>1, <1>2, <1>3, <1>4, <1>5 DEF DeliveryInv, Accounted, NothingLost, ParkedIsUnpublished

LEMMA TablesGrow ==
  ASSUME TypeOK, Held, [Next]_vars
  PROVE  receipts \subseteq receipts' /\ deadLetters \subseteq deadLetters'
BY Actors, PublisherFrame, PublisherType, ConsumerFrame, ConsumerType, OutsideFrame

LEMMA DeadStays ==
  ASSUME TypeOK, Held, [Next]_vars, NEW e, IsDead(e)
  PROVE  IsDead(e)'
BY TablesGrow DEF IsDead

(* Once safe an event stays so; only a requeue clears the mark of a loss, and *)
(* it makes the row unpublished and unclaimed.                                *)
LEMMA SafeStays ==
  ASSUME TypeOK, Held, Accounted, [Next]_vars, NEW e \in Events, Safe(e)
  PROVE  Safe(e)' \/ (~outbox'[e].published /\ outbox'[e].token = Nobody)
<1>1. CASE e \in receipts \/ IsDead(e)
  BY <1>1, TablesGrow, DeadStays DEF Safe
<1>2. CASE e \in lost
  <2>1. CASE e \in lost'
    BY <2>1 DEF Safe
  <2>2. CASE e \notin lost'
    <3>1. requeue(e)
      BY <1>2, <2>2, Actors, PublisherFrame, ConsumerFrame
         DEF Outside, send, requeue, retry_due, delivery_clock, claim_expires, replay_dead_letter, redis_drops, vars
    <3>2. outbox'[e] = [outbox[e] EXCEPT !.published = FALSE, !.due = TRUE, !.token = Nobody, !.expired = FALSE]
      BY <3>1 DEF requeue, TypeOK
    <3>3. outbox[e] \in OutboxRow
      BY DEF TypeOK
    <3> QED BY <3>2, <3>3 DEF OutboxRow
  <2> QED BY <2>1, <2>2
<1>3. CASE InFlight(e)
  <2>1. PICK i \in Entries : carries[i] = e /\ entryState[i] \in {"new", "pending"}
    BY <1>3 DEF InFlight
  <2>2. CASE carries'[i] = carries[i] /\ entryState'[i] \in {"new", "pending"}
    BY <2>1, <2>2 DEF Safe, InFlight
  <2>3. ASSUME NEW p \in Publishers, PublisherStep(p) \/ publisher_crash(p)
        PROVE  carries'[i] = carries[i] /\ entryState'[i] \in {"new", "pending"}
    BY <2>1, <2>3 DEF PublisherStep, publisher_crash, claim, publish, publish_fails, mark_published, mark_failed,
                      FreeEntry, Least, streamVars, TypeOK
  <2>4. ASSUME NEW c \in Consumers, ConsumerStep(c) \/ consumer_crash(c)
        PROVE  Safe(e)'
    <3>1. carries' = carries
      BY <2>4, ConsumerFrame
    <3>2. CASE acknowledge(c) /\ consumer[c].entry = i
      <4>1. consumer[c].event = e
        BY <2>1, <3>2 DEF acknowledge, Held, Busy
      <4>2. e \in receipts \/ IsDead(e)
        BY <3>2, <4>1 DEF acknowledge, Accounted
      <4> QED BY <4>2, TablesGrow, DeadStays DEF Safe
    <3>3. CASE ~(acknowledge(c) /\ consumer[c].entry = i)
      <4>1. entryState'[i] \in {"new", "pending"}
        BY <2>1, <2>4, <3>3 DEF ConsumerStep, ProcessStep, consumer_crash, read, reclaim, Receive, is_deferred, apply,
             apply_fails, record_failure, acknowledge, sweep_select, sweep_write, streamVars, TypeOK
      <4> QED BY <2>1, <3>1, <4>1 DEF Safe, InFlight
    <3> QED BY <3>2, <3>3
  <2>5. CASE Outside
    <3>1. carries' = carries
      BY <2>5, OutsideFrame
    <3>2. ASSUME NEW j \in Entries, redis_drops(j)
          PROVE  entryState'[i] \in {"new", "pending"} \/ e \in lost'
      BY <2>1, <3>2 DEF redis_drops
    <3>3. entryState'[i] = entryState[i] \/ \E j \in Entries : redis_drops(j)
      BY <2>5 DEF Outside, send, requeue, retry_due, delivery_clock, claim_expires, replay_dead_letter, vars, streamVars
    <3> QED BY <2>1, <3>1, <3>2, <3>3 DEF Safe, InFlight
  <2> QED BY <2>2, <2>3, <2>4, <2>5, Actors
<1> QED BY <1>1, <1>2, <1>3 DEF Safe

LEMMA EffectsStep ==
  ASSUME TypeOK, Held, Accounted, [Next]_vars
  PROVE  /\ \A e \in Events : effects'[e] = IF e \in receipts' THEN 1 ELSE 0
         /\ \/ UNCHANGED effects
            \/ \E e \in Events : outbox[e].exists /\ effects[e] = 0 /\ effects' = [effects EXCEPT ![e] = 1] /\ UNCHANGED outbox
<1>0. \A e \in Events : effects[e] = IF e \in receipts THEN 1 ELSE 0
  BY DEF Accounted
<1>1. ASSUME NEW c \in Consumers, apply(c), ~UNCHANGED <<receipts, effects>>
      PROVE  \E e \in Events : /\ outbox[e].exists /\ effects[e] = 0 /\ effects' = [effects EXCEPT ![e] = 1]
                               /\ receipts' = receipts \cup {e} /\ UNCHANGED outbox
  <2> DEFINE e == consumer[c].event
  <2>1. e \in Events /\ outbox[e].exists
    BY <1>1 DEF apply, Held, Busy
  <2>2. e \notin receipts /\ receipts' = receipts \cup {e} /\ effects' = [effects EXCEPT ![e] = @ + 1]
    BY <1>1 DEF apply, claim_consumer_receipt
  <2>3. effects[e] = 0
    BY <1>0, <2>1, <2>2
  <2>4. effects' = [effects EXCEPT ![e] = 1]
    BY <2>2, <2>3
  <2> QED BY <1>1, <2>1, <2>2, <2>3, <2>4 DEF apply, outboxVars
<1>2. \/ UNCHANGED <<receipts, effects>> \/ \E c \in Consumers : apply(c)
  <2>1. ASSUME NEW c \in Consumers, ConsumerStep(c) \/ consumer_crash(c)
        PROVE  UNCHANGED <<receipts, effects>> \/ apply(c)
    BY <2>1 DEF ConsumerStep, ProcessStep, consumer_crash, read, reclaim, Receive, is_deferred, apply_fails,
                record_failure, acknowledge, sweep_select, sweep_write, tableVars
  <2> QED BY <2>1, Actors, PublisherFrame, OutsideFrame
<1>3. CASE UNCHANGED <<receipts, effects>>
  BY <1>0, <1>3
<1>4. CASE ~UNCHANGED <<receipts, effects>>
  <2>1. PICK e \in Events : /\ outbox[e].exists /\ effects[e] = 0 /\ effects' = [effects EXCEPT ![e] = 1]
                            /\ receipts' = receipts \cup {e} /\ UNCHANGED outbox
    BY <1>1, <1>2, <1>4
  <2>2. effects \in [Events -> Nat]
    BY DEF TypeOK
  <2>3. \A f \in Events : effects'[f] = IF f \in receipts' THEN 1 ELSE 0
    BY <1>0, <2>1, <2>2
  <2> QED BY <2>1, <2>3
<1> QED BY <1>3, <1>4

LEMMA AckStep ==
  ASSUME TypeOK, Held, Accounted, [Next]_vars, NEW d \in Consumers, consumer'[d].at = "ack"
  PROVE  consumer'[d].event \in receipts' \/ \E row \in deadLetters' : row.event = consumer'[d].event
<1>0. consumer \in [Consumers -> Holdings]
  BY DEF TypeOK, Holdings
<1>1. CASE consumer'[d] = consumer[d]
  BY <1>1, TablesGrow DEF Accounted, IsDead
<1>2. CASE consumer'[d] # consumer[d]
  <2>1. PICK c \in Consumers : ConsumerStep(c) \/ consumer_crash(c)
    BY <1>2, Actors, PublisherFrame, OutsideFrame
  <2>2. CASE apply(c) \/ (record_failure(c) /\ Continue(c, "ack"))
    <3>1. c = d
      BY <1>0, <1>2, <2>2 DEF apply, Continue
    <3>2. consumer'[c] = [consumer[c] EXCEPT !.at = "ack"]
      BY <1>0, <2>2 DEF apply, Continue
    <3>3. consumer[c] \in Holdings
      BY <1>0
    <3>4. consumer'[c].event = consumer[c].event
      BY <3>2, <3>3 DEF Holdings
    <3>5. CASE apply(c)
      BY <3>1, <3>4, <3>5 DEF apply, claim_consumer_receipt
    <3>6. CASE record_failure(c) /\ Continue(c, "ack")
      <4>1. consumer[c].event \in Events
        BY <3>6 DEF record_failure, Held, Busy
      <4>2. InsertDeadLetter(consumer[c].event, c, outbox[consumer[c].event].payload)
        <5>1. ~Rest(c)
          BY <3>1, <3>2, <1>0 DEF Rest, Idle
        <5> QED BY <3>6, <5>1 DEF record_failure
      <4>3. outbox[consumer[c].event].payload \in {"kept", "empty"} /\ deadLetters \in SUBSET DeadLetterRow
        BY <4>1 DEF TypeOK, OutboxRow
      <4>4. \E row \in deadLetters' : row.event = consumer[c].event
        BY <4>1, <4>2, <4>3, DeadLettersGrow
      <4> QED BY <3>1, <3>4, <4>4
    <3> QED BY <2>2, <3>5, <3>6
  <2>3. CASE ~(apply(c) \/ (record_failure(c) /\ Continue(c, "ack")))
    <3>1. \A at : [Idle EXCEPT !.at = "sweep", !.swept = at].at = "sweep" /\ Idle.at = "idle"
      BY DEF Idle
    <3>2. \/ consumer' = [consumer EXCEPT ![c] = Idle]
          \/ \E at \in {"checked", "failed"} : consumer' = [consumer EXCEPT ![c].at = at]
          \/ \E S : consumer' = [consumer EXCEPT ![c] = [Idle EXCEPT !.at = "sweep", !.swept = S]]
          \/ \E i \in Entries : consumer' = [consumer EXCEPT ![c] = [Idle EXCEPT !.entry = i, !.event = carries[i], !.at = "received"]]
      BY <2>1, <2>3 DEF ConsumerStep, ProcessStep, consumer_crash, read, reclaim, Receive, is_deferred, apply_fails,
                        record_failure, acknowledge, sweep_select, sweep_write, Rest, Continue
    <3>3. consumer'[d].at # "ack"
      <4>1. ASSUME NEW i, NEW e
            PROVE  [Idle EXCEPT !.entry = i, !.event = e, !.at = "received"].at = "received"
        BY DEF Idle
      <4>2. ASSUME NEW h \in Holdings, NEW at
            PROVE  [h EXCEPT !.at = at].at = at
        BY DEF Holdings
      <4>3. d # c => consumer'[d] = consumer[d]
        BY <1>0, <3>2
      <4>4. d = c
        BY <1>2, <4>3
      <4>5. consumer[c] \in Holdings /\ DOMAIN consumer = Consumers
        BY <1>0
      <4>6. ASSUME NEW at \in {"checked", "failed"}, consumer' = [consumer EXCEPT ![c].at = at]
            PROVE  consumer'[c].at = at
        <5>1. consumer'[c] = [consumer[c] EXCEPT !.at = at]
          BY <4>5, <4>6
        <5> QED BY <4>2, <4>5, <5>1
      <4>7. ASSUME NEW h, consumer' = [consumer EXCEPT ![c] = h]
            PROVE  consumer'[c] = h
        BY <4>5, <4>7
      <4>8. CASE \E at \in {"checked", "failed"} : consumer' = [consumer EXCEPT ![c].at = at]
        BY <4>4, <4>6, <4>8
      <4>9. ASSUME NEW h, h.at # "ack", consumer' = [consumer EXCEPT ![c] = h]
            PROVE  consumer'[d].at # "ack"
        BY <4>4, <4>7, <4>9
      <4>10. CASE consumer' = [consumer EXCEPT ![c] = Idle]
        BY <3>1, <4>9, <4>10
      <4>11. CASE \E S : consumer' = [consumer EXCEPT ![c] = [Idle EXCEPT !.at = "sweep", !.swept = S]]
        BY <3>1, <4>9, <4>11
      <4>12. CASE \E i \in Entries :
               consumer' = [consumer EXCEPT ![c] = [Idle EXCEPT !.entry = i, !.event = carries[i], !.at = "received"]]
        BY <4>1, <4>9, <4>12
      <4> QED BY <3>2, <4>8, <4>10, <4>11, <4>12
    <3> QED BY <3>3
  <2> QED BY <2>2, <2>3
<1> QED BY <1>1, <1>2

LEMMA SentStep ==
  ASSUME TypeOK, Held, Accounted, [Next]_vars, NEW p \in Publishers, NEW e \in Events,
         handling'[p].at = "sent", handling'[p].event = e, outbox'[e].token = p
  PROVE  Safe(e)'
<1>0. p # Nobody
  BY DeliveryAssumption
<1>1. CASE handling'[p] = handling[p]
  <2>1. handling[p] # Resting
    BY <1>1 DEF Resting
  <2>2. outbox[e].token = p
    <3>1. Turn(e)
      BY RowTurns
    <3>2. outbox'[e].token = p /\ p # Nobody /\ handling[p] # Resting
      BY <1>0, <2>1
    <3> QED BY ONLY <3>1, <3>2 DEF Turn
  <2>3. Safe(e)
    BY <1>1, <2>2 DEF Accounted
  <2> QED BY <1>0, <2>3, SafeStays
<1>2. CASE handling'[p] # handling[p]
  <2>0. handling \in [Publishers -> Handlings]
    BY DEF TypeOK, Handlings
  <2>1. PICK q \in Publishers : PublisherStep(q) \/ publisher_crash(q)
    BY <1>2, Actors, ConsumerFrame, OutsideFrame
  <2>2. \A S \in SUBSET Events : ~claim(q, S)
    BY <1>2 DEF claim
  <2>3. ~(mark_published(q) \/ mark_failed(q) \/ publisher_crash(q))
    <3>1. SUFFICES ASSUME handling' = [handling EXCEPT ![q] = Resting] PROVE FALSE
      BY DEF mark_published, mark_failed, publisher_crash
    <3>2. handling'[p] = Resting
      BY <1>2, <2>0, <3>1
    <3>3. Resting.at # "sent"
      BY DEF Resting
    <3> QED BY <3>2, <3>3
  <2>4. PICK x \in batch[q] : publish(q, x) \/ publish_fails(q, x)
    BY <2>1, <2>2, <2>3 DEF PublisherStep
  <2>5. PICK at \in {"sent", "failed"} : Handle(q, x, at) /\ (publish(q, x) \/ at = "failed")
    BY <2>4 DEF publish, publish_fails
  <2>6. handling'[p] = [event |-> x.event, attempt |-> x.attempt, at |-> at]
    BY <1>2, <2>0, <2>5 DEF Handle
  <2>7. at = "sent" /\ x.event = e
    <3>1. handling'[p].at = at /\ handling'[p].event = x.event
      BY ONLY <2>6
    <3> QED BY <3>1
  <2>8. PICK i \in Entries : entryState' = [entryState EXCEPT ![i] = "new"] /\ carries' = [carries EXCEPT ![i] = x.event]
    BY <2>5, <2>7 DEF publish, FreeEntry, Least
  <2>9. entryState'[i] = "new" /\ carries'[i] = e
    BY <2>7, <2>8 DEF TypeOK
  <2> QED BY <2>9 DEF Safe, InFlight
<1> QED BY <1>1, <1>2

LEMMA AccountedStep ==
  ASSUME TypeOK, Held, Accounted, [Next]_vars
  PROVE  Accounted'
<1>0. Nobody \notin Publishers
  BY DeliveryAssumption
<1>1. \A e \in Events : effects'[e] = IF e \in receipts' THEN 1 ELSE 0
  BY EffectsStep
<1>2. \A c \in Consumers : consumer'[c].at = "ack" =>
        consumer'[c].event \in receipts' \/ \E row \in deadLetters' : row.event = consumer'[c].event
  BY AckStep
<1>3. \A p \in Publishers : handling'[p].at = "sent" => handling'[p].event \in Events
  BY HeldStep DEF Held
<1>4. (\A p \in Publishers : handling[p].at = "sent" /\ outbox[handling[p].event].token = p => Safe(handling[p].event))'
  BY <1>3, SentStep DEF Safe, IsDead, InFlight
<1>5. ASSUME NEW e \in Events, outbox'[e].token # Nobody
      PROVE  ~outbox'[e].published
  BY <1>0, <1>5, RowTurns DEF Turn, Same, Accounted
<1>6. ASSUME NEW e \in Events, outbox'[e].published
      PROVE  Safe(e)'
  <2>1. CASE outbox[e].published
    BY <1>6, <2>1, SafeStays DEF Accounted, NothingLost, Safe
  <2>2. CASE ~outbox[e].published
    <3>1. PICK p \in Publishers : outbox[e].token = p /\ handling[p].event = e /\ handling[p].at = "sent"
      BY <1>6, <2>2, RowTurns DEF Turn, Same
    <3>2. Safe(e)
      BY <3>1 DEF Accounted
    <3> QED BY <1>6, <3>2, SafeStays
  <2> QED BY <2>1, <2>2
<1>7. ASSUME NEW e \in Events, outbox'[e].parked
      PROVE  ~outbox'[e].published /\ outbox'[e].token = Nobody /\ IsDead(e)'
  <2>1. CASE outbox[e].parked
    <3>1. ~outbox[e].published /\ outbox[e].token = Nobody /\ IsDead(e)
      BY <2>1 DEF Accounted, ParkedIsUnpublished
    <3>2. IsDead(e)'
      BY <3>1, DeadStays
    <3> QED BY <1>0, <2>1, <3>1, <3>2, RowTurns DEF Turn, Same
  <2>2. CASE ~outbox[e].parked
    <3>1. PICK p \in Publishers : /\ outbox[e].token = p /\ outbox'[e].token = Nobody
                                  /\ outbox'[e].published = outbox[e].published /\ IsDead(e)'
      BY <1>7, <2>2, RowTurns DEF Turn, Same
    <3>2. ~outbox[e].published
      BY <1>0, <3>1 DEF Accounted
    <3> QED BY <3>1, <3>2
  <2> QED BY <2>1, <2>2
<1>8. NothingLost'
  BY <1>6 DEF NothingLost, Safe
<1>9. ParkedIsUnpublished'
  BY <1>7 DEF ParkedIsUnpublished
<1>10. (\A c \in Consumers : consumer[c].at = "ack" => consumer[c].event \in receipts \/ IsDead(consumer[c].event))'
  BY <1>2 DEF IsDead
<1> QED BY <1>1, <1>4, <1>5, <1>8, <1>9, <1>10 DEF Accounted

\* By induction on DeliveryInv: OutboxPublisher and the consumers keep the types, a
\* claim's token goes with its holder, and every event marked published is accounted for.
THEOREM DeliveryHolds == Spec => []DeliveryInv
<1>1. DeliveryInv /\ [Next]_vars => DeliveryInv'
  BY TypeStep, HeldStep, AccountedStep DEF DeliveryInv
<1> QED BY <1>1, InitInv, PTL DEF Spec

\* No event that is marked published is silently gone (OutboxPublisher.publish_batch,
\* DeliveryConsumer.process), for any number of processes, entries and faults.
THEOREM PublishedIsNotLost == Spec => []NothingLost
<1>1. DeliveryInv => NothingLost
  BY DEF DeliveryInv, Accounted
<1> QED BY <1>1, DeliveryHolds, PTL

\* The claim token keeps publishers apart: what one parks no other has published
\* (OutboxPublisher._dead_letter, _mark_published).
THEOREM ClaimTokenFences == Spec => []ParkedIsUnpublished
<1>1. DeliveryInv => ParkedIsUnpublished
  BY DEF DeliveryInv, Accounted
<1> QED BY <1>1, DeliveryHolds, PTL

\* Delivery implements the ledger: a committed event takes effect at most once, as
\* DeliveryConsumer.process claims the receipt in the handler's own transaction.
THEOREM DeliveryImplementsLedger == Spec => EffectsOnce
<1>1. Init => Ledger!LedgerInit
  BY DEF Init, Ledger!LedgerInit, NoRow
<1>2. ASSUME DeliveryInv, [Next]_vars
      PROVE  [\E e \in Events : Ledger!Commit(e) \/ Ledger!TakeEffect(e)]_<<{e \in Events : outbox[e].exists}, effects>>
  <2> DEFINE sent == {e \in Events : outbox[e].exists}
  <2>0. TypeOK /\ Held /\ Accounted
    BY <1>2 DEF DeliveryInv
  <2>1. ASSUME NEW e \in Events, outbox[e].exists, effects[e] = 0, effects' = [effects EXCEPT ![e] = 1], UNCHANGED outbox
        PROVE  Ledger!TakeEffect(e)
    BY <2>1 DEF Ledger!TakeEffect
  <2>2. CASE UNCHANGED effects /\ \A e \in Events : outbox'[e].exists = outbox[e].exists
    <3>1. UNCHANGED sent
      BY <2>2
    <3> QED BY <2>2, <3>1
  <2>3. ASSUME NEW e \in Events, ~outbox[e].exists, outbox'[e].exists, UNCHANGED effects,
               \A f \in Events \ {e} : outbox'[f] = outbox[f]
        PROVE  Ledger!Commit(e)
    BY <2>3 DEF Ledger!Commit
  <2>4. \/ \A e \in Events : outbox'[e].exists = outbox[e].exists
        \/ \E e \in Events : /\ ~outbox[e].exists /\ outbox'[e].exists
                            /\ \A f \in Events \ {e} : outbox'[f] = outbox[f]
    BY <1>2, <2>0, RowTurns DEF Turn
  <2>5. \/ UNCHANGED effects
        \/ \E e \in Events : outbox[e].exists /\ effects[e] = 0 /\ effects' = [effects EXCEPT ![e] = 1] /\ UNCHANGED outbox
    BY <1>2, <2>0, EffectsStep
  <2> QED BY <2>1, <2>2, <2>3, <2>4, <2>5
<1> QED BY <1>1, <1>2, DeliveryHolds, PTL DEF Spec, EffectsOnce, Ledger!LedgerSpec
=============================================================================
