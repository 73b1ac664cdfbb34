------------------------------ MODULE MCDelivery ------------------------------
(***************************************************************************)
(* The delivery of events for TLC.  A behaviour belongs to one of three     *)
(* instances: two publishers race two consumers over one event; one of each *)
(* handles two events, which is what a replay needs; one of each handles    *)
(* one event under fairness.  In an instance the other actors, events and   *)
(* stream entries stay as they are in Init.                                 *)
(***************************************************************************)
EXTENDS Delivery
CONSTANTS p1, p2, c1, c2
VARIABLE instance

TwoPublishers == {p1, p2}
TwoConsumers == {c1, c2}

One == INSTANCE Delivery WITH Publishers <- {p1}, Consumers <- {c1}

MCInit == Init /\ instance \in {"race", "replay", "fair"}

OneEvent == ~outbox'[2].exists
TwoEntries == entryState'[3] = "free"
OneFault == faults' <= 1

MCNext ==
  \/ instance = "race" /\ Next /\ OneEvent /\ TwoEntries /\ OneFault /\ UNCHANGED instance
  \/ instance = "replay" /\ One!Next /\ TwoEntries /\ OneFault /\ UNCHANGED instance
  \/ instance = "fair" /\ One!Next /\ OneEvent /\ UNCHANGED instance

\* The loops of the dispatcher repeat for ever; XAUTOCLAIM scans the whole
\* PEL, so no pending entry is passed over for ever; clocks advance.
Fairness ==
  LET on == instance = "fair" IN
  /\ WF_vars(on /\ PublisherStep(p1))
  /\ WF_vars(on /\ (ProcessStep(c1) \/ sweep_write(c1))) /\ SF_vars(on /\ sweep_select(c1))
  /\ \A i \in Entries : SF_vars(on /\ read(c1, i)) /\ SF_vars(on /\ reclaim(c1, i))
  /\ WF_vars(on /\ retry_due(1)) /\ WF_vars(on /\ claim_expires(1)) /\ WF_vars(on /\ delivery_clock(1))

MCSpec == MCInit /\ [][MCNext]_<<vars, instance>> /\ Fairness

\* Every committed event ends with a receipt or a dead letter, unless Redis dropped an
\* entry of it; and a delivery that failed is never stranded in RETRY, not even then:
\* it takes effect later or sweep_stalled records a dead letter.
EveryEventResolves ==
  instance = "fair" =>
    \A e \in Events :
      /\ outbox[e].exists ~> (e \in receipts \/ IsDead(e) \/ e \in lost)
      /\ delivery[e].status = "RETRY" ~> (e \in receipts \/ IsDead(e))
=============================================================================
