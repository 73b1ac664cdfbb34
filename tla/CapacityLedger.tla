---------------------------- MODULE CapacityLedger ----------------------------
(***************************************************************************)
(* What admission promises, whoever claims and however claims interleave:  *)
(* grants give tasks all of their request at once and only when the        *)
(* resulting account fits, and releases give all of it back.               *)
(***************************************************************************)
CONSTANTS Tasks, ResourceRequest, Fits(_)

VARIABLE held

LedgerInit == held = [t \in Tasks |-> {}]

Grant ==
  \E S \in SUBSET Tasks :
    /\ \A t \in S : held[t] = {}
    /\ held' = [t \in Tasks |-> IF t \in S THEN ResourceRequest[t] ELSE held[t]]
    /\ Fits(held')

Release == \E t \in Tasks : held' = [held EXCEPT ![t] = {}]

LedgerSpec == LedgerInit /\ [][Grant \/ Release]_held
=============================================================================
