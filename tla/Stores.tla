------------------------------- MODULE Stores -------------------------------
(***************************************************************************)
(* What outlives a task: the artifact store, the records of a run with     *)
(* their retention, and the event stream of a task, which share no state;  *)
(* and what is stated of them.                                             *)
(***************************************************************************)
EXTENDS Integers, Sequences

CONSTANTS
  Artifacts, Contents, Digest, Actors, Nobody, Readers, MaxMishaps,
  Messages, Calls, LastWrite, MaxTime, PayloadPeriod, DeadLetterPeriod, MetadataPeriod, CheckpointPeriod,
  Writers, Nothing, MaxEvents, Limit

\* An artifact has one content, and there are three ways to read it.
ASSUME ArtifactsAssumption ==
  /\ Digest \in [Artifacts -> Contents]
  /\ Nobody \notin Actors
  /\ Readers \subseteq {"evidence", "decision", "download"}
  /\ MaxMishaps \in Nat

VARIABLES
  object, artifact_row, audits, quarantine, lock, actor, mishaps,
  now, run, message, tool, approvals, audit_events, candidate, letter, event, checkpoints,
  clock, open, committed, task, socket, sent

A == INSTANCE Artifacts WITH row <- artifact_row, faults <- mishaps, MaxFaults <- MaxMishaps
R == INSTANCE Retention WITH approval <- approvals
E == INSTANCE TaskEvents

\* Every artifact with a row has its bytes somewhere, under their key or in a
\* quarantine, and one incident exactly if it is CORRUPT, whoever died or raced.
EvidenceIsAccounted == A!EvidenceIsAccounted

\* A record an audit event cites outlives the event, whatever order the periods end
\* in: the payload of a message and the approval that was decided.
EvidenceHasSubject == R!EvidenceHasSubject

\* README: "Payloads referenced by active approvals, audit evidence, or memory
\* promotion are protected from purging": no purge takes what a pending approval or a
\* promotion under way still refers to, nor anything of a run that goes on.
ActiveKeepsEvidence == R!ActiveKeepsEvidence

\* The client of a stream sees every event at most once and in the order of the cursor,
\* and none that was committed is left behind the cursor.
StreamIsFaithful == E!StreamIsFaithful
=============================================================================
