----------------------------- MODULE KeyRotation -----------------------------
(***************************************************************************)
(* Field encryption of borrower-derived JSON and the rotation of its key   *)
(* ring (src/src/provider-platform/sensitive-json-cipher.ts,               *)
(* src/src/rotate-sensitive-data-encryption.ts), while API and worker      *)
(* processes write rows and data dispositions erase them.                  *)
(*                                                                         *)
(* Keys are numbered in the order they were put first in the ring, so a    *)
(* ring is an interval whose last key encrypts.  Key 0 stands for no       *)
(* encryption at all: a build from before the cipher has the ring 0..0,    *)
(* and a process that rejects legacy plaintext has a ring without 0.       *)
(*                                                                         *)
(* The operator and the deployment (terraform/staging/ecs.tf,              *)
(* docs/OPERATIONS.md) are external: the migration task rotates before     *)
(* the services restart, and a retired key leaves the ring only once a     *)
(* rotation begun after the last restart has finished.                     *)
(***************************************************************************)
EXTENDS Integers, FiniteSets

CONSTANTS
  IntentRows,  \* provider_operation_intents rows: receipt and finding
  FactRows,    \* evidence_facts rows
  Procs,    \* API and worker processes
  MaxKey    \* bound: keys ever put in the ring

ASSUME KeyRotationAssumption == MaxKey \in Nat /\ IntentRows \cap FactRows = {}

VARIABLES
  kid,      \* per row: the key its content is stored under
  live,     \* rows that hold borrower content
  disposed, \* rows whose content a disposition removed
  ringLo,   \* per process: the ring it was started with, its oldest key
  ringHi,   \* and its newest, the one that encrypts
  oldest,   \* the ring a process is started with now
  newest,
  phase,    \* the rotation task: what it does,
  jobLo,    \* the ring it was started with,
  jobHi,
  seen,     \* the key each row it still has to write was read under,
  was,      \* the rows that held borrower content when it read them, and
  early,    \* a process runs with an older ring since the task started
  rotated,  \* the newest key a finished rotation has written
  swept     \* a rotation that did not start early has finished

rowVars == <<kid, live, disposed>>
ringVars == <<ringLo, ringHi, oldest, newest>>
jobVars == <<phase, jobLo, jobHi, seen, was, early>>
rotationVars == <<rowVars, ringVars, jobVars, rotated, swept>>

Rows == IntentRows \cup FactRows
Absent == -1
Kids == 0..MaxKey
Stored == {r \in Rows : kid[r] # Absent}

\* decrypt() knows the key; rejectLegacyPlaintext is a ring without 0.
Decrypts(lo, hi, k) == lo <= k /\ k <= hi

\* A backfill that leaves every envelope alone.
EncryptPlaintextOnly(k) == IF k = 0 THEN jobHi ELSE k

\* What the task stores for content it read under key k: encrypt() under
\* the first key, whether the row was an envelope or plaintext.
ReEncrypted(k) == jobHi

NothingSeen == [r \in Rows |-> Absent]

RotationInit ==
  /\ kid = [r \in Rows |-> Absent] /\ live = {} /\ disposed = {}
  /\ ringLo = [p \in Procs |-> 0] /\ ringHi = [p \in Procs |-> 0]
  /\ oldest = 0 /\ newest = 0
  /\ phase = "idle" /\ jobLo = 0 /\ jobHi = 0
  /\ seen = NothingSeen /\ was = {} /\ early = TRUE
  /\ rotated = 0 /\ swept = FALSE

\* markSucceeded and an evidence insert: encrypt() under the process's key.
WriteRow(p, r) ==
  /\ kid[r] = Absent /\ r \notin disposed
  /\ kid' = [kid EXCEPT ![r] = ringHi[p]]
  /\ live' = live \cup {r}
  /\ UNCHANGED <<disposed, ringVars, jobVars, rotated, swept>>

\* A disposition empties the payload columns of an intent and deletes an
\* evidence row.
EraseRow(r) ==
  /\ r \in live
  /\ kid' = [kid EXCEPT ![r] = Absent]
  /\ live' = live \ {r} /\ disposed' = disposed \cup {r}
  /\ UNCHANGED <<ringVars, jobVars, rotated, swept>>

\* ANONYMIZE writes a blank value over an evidence row.
AnonymizeFact(p, r) ==
  /\ r \in live \cap FactRows
  /\ kid' = [kid EXCEPT ![r] = ringHi[p]]
  /\ live' = live \ {r} /\ disposed' = disposed \cup {r}
  /\ UNCHANGED <<ringVars, jobVars, rotated, swept>>

\* The operator puts a new key first and retains the old ones.
AddKey ==
  /\ newest < MaxKey
  /\ newest' = newest + 1
  /\ swept' = FALSE /\ early' = TRUE
  /\ UNCHANGED <<rowVars, ringLo, ringHi, oldest, phase, jobLo, jobHi, seen, was, rotated>>

\* The services restart once the migration task has succeeded.
RollOut(p) ==
  /\ rotated = newest
  /\ ringLo' = [ringLo EXCEPT ![p] = oldest]
  /\ ringHi' = [ringHi EXCEPT ![p] = newest]
  /\ UNCHANGED <<rowVars, oldest, newest, jobVars, rotated, swept>>

RolledOut == \A p \in Procs : ringHi[p] = newest

\* rotateSensitivePayloadEncryption and the script decrypt envelopes only.
Rotatable(k) == k = 0 \/ Decrypts(jobLo, jobHi, k)

\* What one SELECT over the given rows returns.
Snapshot(S) == [r \in Rows |-> IF r \in S THEN kid[r] ELSE Absent]

\* The task starts and repo.find() reads every intent.
ScanIntents ==
  /\ phase = "idle" /\ phase' = "intents"
  /\ jobLo' = oldest /\ jobHi' = newest /\ early' = ~RolledOut
  /\ seen' = Snapshot(IntentRows) /\ was' = live
  /\ UNCHANGED <<rowVars, ringVars, rotated, swept>>

\* The transaction updates by id every intent that had a payload, with the
\* payload it read, and commits.
CommitIntents ==
  /\ phase = "intents"
  /\ \A r \in Rows : seen[r] # Absent => Rotatable(seen[r])
  /\ kid' = [r \in Rows |-> IF seen[r] # Absent
                            THEN ReEncrypted(seen[r]) ELSE kid[r]]
  /\ live' = live \cup {r \in IntentRows : seen[r] # Absent}
  /\ phase' = "select" /\ seen' = NothingSeen
  /\ UNCHANGED <<disposed, ringVars, jobLo, jobHi, was, early, rotated, swept>>

\* The SELECT of every evidence row.
ScanFacts ==
  /\ phase = "select"
  /\ phase' = "facts" /\ seen' = Snapshot(FactRows) /\ was' = live
  /\ UNCHANGED <<rowVars, ringVars, jobLo, jobHi, early, rotated, swept>>

\* One UPDATE by id, on its own; it finds no row when that was deleted.
UpdateFact(r) ==
  /\ phase = "facts" /\ seen[r] # Absent /\ Rotatable(seen[r])
  /\ seen' = [seen EXCEPT ![r] = Absent]
  /\ IF kid[r] = Absent
     THEN UNCHANGED <<kid, live>>
     ELSE /\ kid' = [kid EXCEPT ![r] = ReEncrypted(seen[r])]
          /\ live' = IF r \in was THEN live \cup {r} ELSE live \ {r}
  /\ UNCHANGED <<disposed, ringVars, phase, jobLo, jobHi, was, early, rotated, swept>>

TaskEnds ==
  /\ phase' = "idle" /\ jobLo' = 0 /\ jobHi' = 0
  /\ seen' = NothingSeen /\ was' = {} /\ early' = TRUE

FinishRotation ==
  /\ phase = "facts" /\ seen = NothingSeen
  /\ rotated' = jobHi
  /\ swept' = (swept \/ ~early)
  /\ TaskEnds
  /\ UNCHANGED <<rowVars, ringVars>>

\* The task dies or a decryption throws: the intents' transaction rolls
\* back, evidence updates stay, and the deployment stops.
RotationDies ==
  /\ phase # "idle"
  /\ TaskEnds
  /\ UNCHANGED <<rowVars, ringVars, rotated, swept>>

\* The operator removes the oldest retained key.
DropKey ==
  /\ swept /\ oldest < newest
  /\ oldest' = oldest + 1
  /\ UNCHANGED <<rowVars, ringLo, ringHi, newest, jobVars, rotated, swept>>

RotationNext ==
  \/ \E r \in Rows : EraseRow(r) \/ UpdateFact(r) \/ \E p \in Procs : WriteRow(p, r) \/ AnonymizeFact(p, r)
  \/ \E p \in Procs : RollOut(p)
  \/ AddKey \/ DropKey
  \/ ScanIntents \/ CommitIntents \/ ScanFacts \/ FinishRotation \/ RotationDies

RotationSpec == RotationInit /\ [][RotationNext]_rotationVars
-----------------------------------------------------------------------------
RotationTypeOK ==
  /\ kid \in [Rows -> Kids \cup {Absent}]
  /\ live \subseteq Rows /\ disposed \subseteq Rows
  /\ ringLo \in [Procs -> Kids] /\ ringHi \in [Procs -> Kids]
  /\ oldest \in Kids /\ newest \in Kids
  /\ phase \in {"idle", "intents", "select", "facts"}
  /\ jobLo \in Kids /\ jobHi \in Kids
  /\ seen \in [Rows -> Kids \cup {Absent}] /\ was \subseteq Rows /\ early \in BOOLEAN
  /\ rotated \in Kids /\ swept \in BOOLEAN

\* Once a rotation that began after the last process restarted has
\* finished, no row is left under an older key or in plaintext, whatever
\* was written and erased while it ran and however often it died before.
SweepIsComplete ==
  swept => \A r \in Stored : kid[r] = newest

\* A process with the ring deployed now decrypts every stored row, also
\* when retired keys, or the acceptance of plaintext, have been dropped.
RolledOutReads ==
  \A p \in Procs :
    ringLo[p] = oldest /\ ringHi[p] = newest =>
    \A r \in Stored : Decrypts(ringLo[p], ringHi[p], kid[r])
==============================================================================
