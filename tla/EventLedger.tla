------------------------------ MODULE EventLedger ------------------------------
(* Abstract specification of event delivery: an event that was committed    *)
(* takes effect at most once, whatever happens in between.                  *)
CONSTANT Events
VARIABLES
  sent,     \* committed events
  effects   \* how often the handler's effect of an event was committed

LedgerInit == sent = {} /\ effects = [e \in Events |-> 0]

Commit(e) == e \notin sent /\ sent' = sent \cup {e} /\ UNCHANGED effects

TakeEffect(e) ==
  /\ e \in sent /\ effects[e] = 0
  /\ effects' = [effects EXCEPT ![e] = 1]
  /\ UNCHANGED sent

LedgerSpec ==
  LedgerInit /\ [][\E e \in Events : Commit(e) \/ TakeEffect(e)]_<<sent, effects>>
=============================================================================
