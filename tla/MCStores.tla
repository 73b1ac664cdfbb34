------------------------------ MODULE MCStores ------------------------------
(***************************************************************************)
(* What outlives a task, for TLC: the artifact store, the retention of a    *)
(* run's records and the event stream of a task, which share no state.  A   *)
(* behaviour is one of two artifacts that share an object, of a retained    *)
(* run, or of a stream.                                                     *)
(***************************************************************************)
EXTENDS Stores
VARIABLE part

artifactVars == <<object, artifact_row, audits, quarantine, lock, actor, mishaps>>
retentionVars == <<now, run, message, tool, approvals, audit_events, candidate, letter, event, checkpoints>>
streamVars == <<clock, open, committed, task, socket, sent>>

OneContent == [a \in Artifacts |-> "c1"]

MCInit == A!Init /\ R!Init /\ E!Init /\ part \in {"artifacts", "retention", "stream"}

MCNext ==
  \/ part = "artifacts" /\ A!Next /\ UNCHANGED <<part, retentionVars, streamVars>>
  \/ part = "retention" /\ R!Next /\ UNCHANGED <<part, artifactVars, streamVars>>
  \/ part = "stream" /\ E!Next /\ UNCHANGED <<part, artifactVars, retentionVars>>

\* Processes go on with what they began, and somebody downloads every artifact again
\* and again; time passes and the retention loop runs every hour; the handler of a
\* stream runs on and transactions end.
Fairness ==
  /\ \A p \in Actors :
       /\ WF_artifactVars(part = "artifacts" /\ A!Step(p))
       /\ \A a \in Artifacts : SF_artifactVars(part = "artifacts" /\ A!download_artifact(p, a))
  /\ WF_retentionVars(part = "retention" /\ R!passes)
  /\ WF_retentionVars(part = "retention" /\ R!enforce)
  /\ WF_streamVars(part = "stream" /\ E!Handle)
  /\ WF_streamVars(part = "stream" /\ E!commit("scheduler"))

MCSpec == MCInit /\ [][MCNext]_<<part, artifactVars, retentionVars, streamVars>> /\ Fairness

-----------------------------------------------------------------------------

Settled ==
  /\ run.state = "terminal" /\ candidate.status \notin R!CURRENT_PROMOTION_STATES
  /\ approvals[1].status # "PENDING"
Reclaimed ==
  /\ audit_events = {} /\ ~checkpoints
  /\ message[1].status # "kept" /\ tool[1] = R!None /\ approvals[1] = R!None
  /\ letter.status # "resolved" /\ event.status \notin {"published", "parked"}

\* The stores catch up.  What no approval and no promotion holds any more is gone in
\* the end, although records protect each other and go in several rounds.  Bad bytes
\* do not stay in the evidence tree while people read them, although readers die
\* between the record and the move.  A client that stays has been sent every event in
\* the end, although more than one page is waiting.
StoresCatchUp ==
  /\ part = "retention" => (<>[]Settled => <>[]Reclaimed)
  /\ part = "artifacts" => \A a \in Artifacts : artifact_row[a] # "NONE" /\ object[Digest[a]] = "bad" ~> object[Digest[a]] # "bad"
  /\ part = "stream" => <>[](E!Streaming => \A e \in committed : e \in E!Sent)
=============================================================================
