------------------------------ MODULE Artifacts ------------------------------
(***************************************************************************)
(* The artifact store: content-addressed objects on disk, one row of        *)
(* metadata per artifact in PostgreSQL, and the readers that rehash an      *)
(* object, mark its row and move the object to quarantine.  The rows follow *)
(* the transaction of the caller, the files do not.                         *)
(***************************************************************************)
EXTENDS Integers, FiniteSets

CONSTANTS
  Artifacts,
  Contents,
  Digest,     \* the content an artifact is made of
  Actors,     \* workers, dispatchers and API requests
  Nobody,
  Readers,    \* the ways an artifact is read: "evidence", "decision", "download"
  MaxFaults   \* corrupted objects and crashes

VARIABLES
  object,      \* what is stored under a content's key
  row,         \* ArtifactRow.state
  audits,      \* artifact.corrupt audit events, each with its outbox event
  quarantine,  \* what the quarantine directory of an artifact received
  lock,        \* holder of the FOR UPDATE lock of a row
  actor,
  faults

files == <<object, quarantine>>
tables == <<row, audits>>
vars == <<files, tables, lock, actor, faults>>

Activity == [at: {"idle", "put", "link", "record", "read", "move", "commit", "fetch", "mark", "shift"},
             artifact: Artifacts \cup {Nobody}, reader: {"evidence", "decision", "download"},
             state: {"NONE", "VALID", "CORRUPT"}]
Resting == [at |-> "idle", artifact |-> Nobody, reader |-> "download", state |-> "NONE"]

TypeOK ==
  /\ object \in [Contents -> {"absent", "good", "bad"}]
  /\ row \in [Artifacts -> {"NONE", "VALID", "CORRUPT"}]
  /\ audits \in [Artifacts -> Nat]
  /\ quarantine \in [Artifacts -> SUBSET {"good", "bad"}]
  /\ lock \in [Artifacts -> Actors \cup {Nobody}]
  /\ actor \in [Actors -> Activity]
  /\ faults \in 0..MaxFaults

Init ==
  /\ object = [c \in Contents |-> "absent"]
  /\ row = [a \in Artifacts |-> "NONE"]
  /\ audits = [a \in Artifacts |-> 0]
  /\ quarantine = [a \in Artifacts |-> {}]
  /\ lock = [a \in Artifacts |-> Nobody]
  /\ actor = [p \in Actors |-> Resting]
  /\ faults = 0

At(p, position) == actor[p].at = position
Its(p) == actor[p].artifact
Stored(p) == object[Digest[Its(p)]]
Go(p, position) == actor' = [actor EXCEPT ![p].at = position]
Stop(p) == actor' = [actor EXCEPT ![p] = Resting]

-----------------------------------------------------------------------------
(* ArtifactService.put in the transaction of a node result or a decision.   *)

begin_put(p, a) ==
  /\ At(p, "idle") /\ row[a] = "NONE"
  /\ actor' = [actor EXCEPT ![p] = [Resting EXCEPT !.at = "put", !.artifact = a]]
  /\ UNCHANGED <<files, tables, lock, faults>>

\* Mutant: the row before the bytes.
put_row_first(p) ==
  /\ At(p, "put")
  /\ IF Stored(p) = "bad" THEN Stop(p) ELSE Go(p, "record")
  /\ UNCHANGED <<files, tables, lock, faults>>

\* An object that is there already has to verify.
put(p) ==
  /\ At(p, "put")
  /\ CASE Stored(p) = "absent" -> Go(p, "link")
       [] Stored(p) = "good"   -> Go(p, "record")
       [] Stored(p) = "bad"    -> Stop(p)
  /\ UNCHANGED <<files, tables, lock, faults>>

\* The written file is linked to the key, unless another one got there first.
link(p) ==
  /\ At(p, "link")
  /\ IF Stored(p) = "absent" THEN object' = [object EXCEPT ![Digest[Its(p)]] = "good"] ELSE UNCHANGED object
  /\ IF Stored(p) = "bad" THEN Stop(p) ELSE Go(p, "record")
  /\ UNCHANGED <<quarantine, tables, lock, faults>>

\* record_artifact and the commit; the id is a primary key.
record_artifact(p) ==
  /\ At(p, "record")
  /\ row' = [row EXCEPT ![Its(p)] = IF @ = "NONE" THEN "VALID" ELSE @]
  /\ Stop(p)
  /\ UNCHANGED <<files, audits, lock, faults>>

-----------------------------------------------------------------------------
(* Reading.                                                                 *)

\* mark_artifact_corrupt: the state, the audit event and the outbox event, once.
mark_artifact_corrupt(a) ==
  /\ row' = [row EXCEPT ![a] = "CORRUPT"]
  /\ audits' = [audits EXCEPT ![a] = IF row[a] = "CORRUPT" THEN @ ELSE @ + 1]

\* os.replace of the object into the quarantine directory of the artifact; a
\* missing object is ignored.
move(p) ==
  LET found == Stored(p)
  IN /\ object' = [object EXCEPT ![Digest[Its(p)]] = "absent"]
     /\ quarantine' = [quarantine EXCEPT ![Its(p)] = @ \cup ({found} \ {"absent"})]

\* get_verified: the row is locked and has to be VALID.
get_verified(p, a, reader) ==
  /\ At(p, "idle") /\ row[a] = "VALID" /\ lock[a] = Nobody
  /\ lock' = [lock EXCEPT ![a] = p]
  /\ actor' = [actor EXCEPT ![p] = [at |-> "read", artifact |-> a, reader |-> reader, state |-> "VALID"]]
  /\ UNCHANGED <<files, tables, faults>>

\* The object matches its hash, or the row is marked in the open transaction.
read_verified(p) ==
  /\ At(p, "read")
  /\ IF Stored(p) = "good" THEN lock' = [lock EXCEPT ![Its(p)] = Nobody] /\ Stop(p)
     ELSE Go(p, "move") /\ UNCHANGED lock
  /\ UNCHANGED <<files, tables, faults>>

\* The object goes before the transaction ends.
quarantine_inside(p) ==
  /\ At(p, "move")
  /\ move(p) /\ Go(p, "commit")
  /\ UNCHANGED <<tables, lock, faults>>

\* get_verified raises.  Verification, review and repair catch the exception inside
\* their transaction; _load_release_decision does not, and rolls back.
end_of_transaction(p) ==
  /\ At(p, "commit")
  /\ IF actor[p].reader = "evidence" THEN mark_artifact_corrupt(Its(p)) ELSE UNCHANGED tables
  /\ lock' = [lock EXCEPT ![Its(p)] = Nobody]
  /\ Stop(p)
  /\ UNCHANGED <<files, faults>>

\* download_artifact: the row without its lock.
download_artifact(p, a) ==
  /\ At(p, "idle") /\ row[a] # "NONE"
  /\ actor' = [actor EXCEPT ![p] = [at |-> "fetch", artifact |-> a, reader |-> "download", state |-> row[a]]]
  /\ UNCHANGED <<files, tables, lock, faults>>

\* A row that was not VALID and an object that fails its hash raise the same error.
read_verified_bytes(p) ==
  /\ At(p, "fetch")
  /\ IF actor[p].state = "VALID" /\ Stored(p) = "good" THEN Stop(p) ELSE Go(p, "mark")
  /\ UNCHANGED <<files, tables, lock, faults>>

\* The first and the second half of quarantine_corrupt.
quarantine_corrupt(p) ==
  /\ At(p, "mark") /\ lock[Its(p)] = Nobody
  /\ mark_artifact_corrupt(Its(p)) /\ Go(p, "shift")
  /\ UNCHANGED <<files, lock, faults>>

quarantine_after(p) ==
  /\ At(p, "shift")
  /\ move(p) /\ Stop(p)
  /\ UNCHANGED <<tables, lock, faults>>

-----------------------------------------------------------------------------

Fault == faults < MaxFaults /\ faults' = faults + 1

\* Bytes change on the disk.
corrupts(c) ==
  /\ object[c] = "good" /\ Fault
  /\ object' = [object EXCEPT ![c] = "bad"]
  /\ UNCHANGED <<quarantine, tables, lock, actor>>

\* A process dies: PostgreSQL rolls its transaction back.
crash(p) ==
  /\ ~At(p, "idle") /\ Fault
  /\ Stop(p)
  /\ lock' = [a \in Artifacts |-> IF lock[a] = p THEN Nobody ELSE lock[a]]
  /\ UNCHANGED <<files, tables>>

Step(p) ==
  \/ put(p) \/ link(p) \/ record_artifact(p)
  \/ read_verified(p) \/ quarantine_inside(p) \/ end_of_transaction(p)
  \/ read_verified_bytes(p) \/ quarantine_corrupt(p) \/ quarantine_after(p)

Next ==
  \/ \E p \in Actors : Step(p) \/ crash(p)
  \/ \E p \in Actors, a \in Artifacts :
       \/ begin_put(p, a)
       \/ \E reader \in Readers \ {"download"} : get_verified(p, a, reader)
       \/ "download" \in Readers /\ download_artifact(p, a)
  \/ \E c \in Contents : corrupts(c)

Spec == Init /\ [][Next]_vars

-----------------------------------------------------------------------------

\* Every recorded artifact is accounted for.  Its bytes are somewhere, under their key
\* or in the quarantine of an artifact that shares them: a crash never leaves a row
\* whose object was not written, and no reader destroys evidence.  It is CORRUPT
\* exactly when its incident was recorded, and the incident is recorded once, however
\* many readers meet the bad object.
EvidenceIsAccounted ==
  \A a \in Artifacts :
    /\ audits[a] = (IF row[a] = "CORRUPT" THEN 1 ELSE 0)
    /\ row[a] # "NONE" =>
         \/ object[Digest[a]] # "absent"
         \/ \E b \in Artifacts : Digest[b] = Digest[a] /\ quarantine[b] # {}

-----------------------------------------------------------------------------
(* What the comments and documents state, and the code does not keep.       *)

\* quarantine_corrupt: "Record and quarantine an artifact whose stored bytes failed
\* the hash."  What is moved out of the evidence tree failed its hash.
OnlyCorruptIsQuarantined ==
  \A a \in Artifacts : "good" \notin quarantine[a]

\* README: "artifact state becomes CORRUPT ... audit and delivery events record the
\* incident": once the reader is done, an artifact whose object went to quarantine
\* is CORRUPT.
IncidentIsRecorded ==
  \A a \in Artifacts : quarantine[a] # {} /\ lock[a] = Nobody => row[a] = "CORRUPT"
=============================================================================
