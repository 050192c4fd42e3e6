--------------------------- MODULE DataDisposition ---------------------------
(***************************************************************************)
(* Consent revocation, the retention review it opens and legal holds       *)
(* (src/src/consent, src/src/data-disposition), composed with the provider *)
(* attempts that write the very data a review erases.                      *)
(*                                                                         *)
(* DELETE and ANONYMIZE differ in whether the row of an evidence fact      *)
(* stays; its value and the provider's receipt and finding go either way,  *)
(* so ERASE stands for both and evidence is the set of facts that still    *)
(* have a value.  Audit events follow the commits and are left out.        *)
(***************************************************************************)
EXTENDS ProviderDispatch, FiniteSets

CONSTANTS
  Requests,   \* concurrent calls of revoke()
  Reviewers,  \* concurrent calls of resolve() and verifyBackupExpiry()
  Holds,      \* calls of place(), each of at most one hold
  MaxTasks    \* bound on the review tasks of the case

ASSUME DispositionAssumption == MaxTasks \in Nat

VARIABLES
  revoking,   \* per request: step, record it read, and what it snapshotted
  tasks,      \* data_disposition_tasks of the case, in order of creation
  review,     \* per reviewer: step, task and action
  hold        \* per call of place(): what became of its hold

dispositionVars == <<revoking, tasks, review, hold>>
vars == <<dispatchVars, dispositionVars>>

NoRequest == [step |-> "idle", record |-> 0, facts |-> {}, covers |-> FALSE]
NoReview == [step |-> "idle", task |-> 0, action |-> "NONE"]

Init ==
  /\ DispatchInit
  /\ revoking = [r \in Requests |-> NoRequest]
  /\ tasks = <<>>
  /\ review = [w \in Reviewers |-> NoReview]
  /\ hold = [h \in Holds |-> "NONE"]

-----------------------------------------------------------------------------
(***************************************************************************)
(* revoke(): one transaction that reads the active record, updates it,     *)
(* snapshots evidence and intents and inserts the task.  Others see the    *)
(* revocation and the task at commit only; a second request for the same   *)
(* record waits for the row it updates.                                    *)
(***************************************************************************)
RevokeRead(r) ==
  /\ revoking[r].step = "idle"
  /\ \E i \in 1..MaxConsents :
       /\ IsActiveRecord(i)
       /\ revoking' = [revoking EXCEPT ![r] =
                         [step |-> "snapshot", record |-> i, facts |-> {}, covers |-> FALSE]]
  /\ UNCHANGED <<dispatchVars, tasks, review, hold>>

RevokeSnapshot(r) ==
  /\ revoking[r].step = "snapshot"
  /\ \A q \in Requests : ~(/\ revoking[q].step = "commit"
                           /\ revoking[q].record = revoking[r].record)
  /\ revoking' = [revoking EXCEPT ![r] =
                    [step |-> "commit", record |-> revoking[r].record,
                     facts |-> evidence, covers |-> intentState # "NONE"]]
  /\ UNCHANGED <<dispatchVars, tasks, review, hold>>

RevokeCommit(r) ==
  /\ revoking[r].step = "commit"
  /\ Len(tasks) < MaxTasks
  /\ consents' = [consents EXCEPT ![revoking[r].record] = "REVOKED"]
  /\ tasks' = Append(tasks, [status |-> "PENDING", outcome |-> "NONE",
                             facts |-> revoking[r].facts,
                             covers |-> revoking[r].covers])
  /\ revoking' = [revoking EXCEPT ![r] = NoRequest]
  /\ UNCHANGED <<intentVars, record, disabled, lapsed, submissions, evidence,
                 pc, error, review, hold>>

-----------------------------------------------------------------------------
(***************************************************************************)
(* resolve() and verifyBackupExpiry(): the task is read without a lock,    *)
(* hasActiveHold() reads in a transaction of its own, then the changes are *)
(* made.                                                                   *)
(***************************************************************************)
Awaited(action) == IF action = "VERIFY" THEN "COMPLETED" ELSE "PENDING"

ReadTask(w, t, action) ==
  /\ review[w].step = "idle"
  /\ t \in DOMAIN tasks
  /\ tasks[t].status = Awaited(action)
  /\ review' = [review EXCEPT ![w] = [step |-> "hold", task |-> t, action |-> action]]
  /\ UNCHANGED <<dispatchVars, revoking, tasks, hold>>

HasActiveHold == \E h \in Holds : hold[h] = "ACTIVE"

CheckHold(w) ==
  /\ review[w].step = "hold"
  /\ review' = [review EXCEPT ![w] =
                  IF (review[w].action = "RETAIN") = HasActiveHold
                    THEN [review[w] EXCEPT !.step = "apply"] ELSE NoReview]
  /\ UNCHANGED <<dispatchVars, revoking, tasks, hold>>

UnsettledUnlessDispatched == {"OUTCOME_UNKNOWN", "RECONCILING"} \* mutant of Unsettled
Unsettled == {"DISPATCHED", "OUTCOME_UNKNOWN", "RECONCILING"}

EndReviewVerified(w, t, status, outcome) ==            \* mutant of EndReview
  /\ tasks' = [tasks EXCEPT ![t] =
                 [@ EXCEPT !.status = outcome, !.outcome = outcome]]
  /\ review' = [review EXCEPT ![w] = NoReview]

EndReview(w, t, status, outcome) ==
  /\ tasks' = [tasks EXCEPT ![t] =
                 [@ EXCEPT !.status = status, !.outcome = outcome]]
  /\ review' = [review EXCEPT ![w] = NoReview]

RejectErasure(w) ==
  /\ review' = [review EXCEPT ![w] = NoReview]
  /\ UNCHANGED <<intentState, intentContent, evidence, tasks>>

CancelPrepared(task) ==
  IF task.covers /\ intentState = "PREPARED" THEN "CANCELLED" ELSE intentState

(* The snapshotted intents are locked: an operation that may still answer   *)
(* refuses the erasure, one that was not dispatched is cancelled.           *)
Erase(w) ==
  LET t == review[w].task
      task == tasks[t]
  IN  /\ review[w].step = "apply"
      /\ review[w].action = "ERASE"
      /\ IF task.covers /\ intentState \in Unsettled
           THEN RejectErasure(w)
           ELSE /\ intentState' = CancelPrepared(task)
                /\ intentContent' = (intentContent /\ ~task.covers)
                /\ evidence' = evidence \ task.facts
                /\ EndReview(w, t, "COMPLETED", "ERASED")
      /\ UNCHANGED <<intentGrant, authorityVars, submissions, pc, error,
                     revoking, hold>>

Retain(w) ==
  /\ review[w].step = "apply"
  /\ review[w].action = "RETAIN"
  /\ EndReview(w, review[w].task, "VERIFIED", "RETAINED")
  /\ UNCHANGED <<dispatchVars, revoking, hold>>

(* The backup window is over.  The update is conditional on COMPLETED.      *)
VerifyBackupExpiry(w) ==
  LET t == review[w].task
  IN  /\ review[w].step = "apply"
      /\ review[w].action = "VERIFY"
      /\ IF tasks[t].status = "COMPLETED"
           THEN EndReview(w, t, "VERIFIED", tasks[t].outcome)
           ELSE review' = [review EXCEPT ![w] = NoReview] /\ UNCHANGED tasks
      /\ UNCHANGED <<dispatchVars, revoking, hold>>

-----------------------------------------------------------------------------
(***************************************************************************)
(* Legal holds: place() reads, then inserts.                               *)
(***************************************************************************)
PlaceRead(h) ==
  /\ hold[h] = "NONE"
  /\ ~HasActiveHold
  /\ hold' = [hold EXCEPT ![h] = "PLACING"]
  /\ UNCHANGED <<dispatchVars, revoking, tasks, review>>

PlaceInsert(h) ==
  /\ hold[h] = "PLACING"
  /\ hold' = [hold EXCEPT ![h] = "ACTIVE"]
  /\ UNCHANGED <<dispatchVars, revoking, tasks, review>>

Release(h) ==
  /\ hold[h] = "ACTIVE"
  /\ hold' = [hold EXCEPT ![h] = "RELEASED"]
  /\ UNCHANGED <<dispatchVars, revoking, tasks, review>>

-----------------------------------------------------------------------------
(* The kill switch stays off here: it only keeps attempts from starting.    *)
Dispatching ==
  /\ \/ \E a \in Attempts :
          Begin(a) \/ Step(a) \/ Throw(a) \/ Crash(a) \/ Lapse(a)
     \/ GrantConsent
     \/ FlagUnknown
     \/ \E outcome \in Terminal : ResolveManually(outcome)
  /\ UNCHANGED dispositionVars

Next ==
  \/ Dispatching
  \/ \E r \in Requests : RevokeRead(r) \/ RevokeSnapshot(r) \/ RevokeCommit(r)
  \/ \E w \in Reviewers :
       \/ \E t \in 1..MaxTasks, action \in {"ERASE", "RETAIN", "VERIFY"} :
            ReadTask(w, t, action)
       \/ CheckHold(w) \/ Erase(w) \/ Retain(w) \/ VerifyBackupExpiry(w)
  \/ \E h \in Holds : PlaceRead(h) \/ PlaceInsert(h) \/ Release(h)

Spec == Init /\ [][Next]_vars

-----------------------------------------------------------------------------
(***************************************************************************)
(* Properties.                                                             *)
(***************************************************************************)
TaskType == [status : {"PENDING", "COMPLETED", "VERIFIED"},
             outcome : {"NONE", "ERASED", "RETAINED"},
             facts : SUBSET Attempts, covers : BOOLEAN]

(* Tasks, holds and the steps of reviewers and requests keep their types.   *)
TypeOK ==
  /\ DispatchTypeOK
  /\ tasks \in Seq(TaskType)
  /\ Len(tasks) <= MaxTasks
  /\ \A r \in Requests :
       /\ revoking[r].step \in {"idle", "snapshot", "commit"}
       /\ revoking[r].record \in 0..Len(consents)
       /\ revoking[r].facts \subseteq Attempts
  /\ \A w \in Reviewers :
       /\ review[w].step \in {"idle", "hold", "apply"}
       /\ review[w].task \in 0..Len(tasks)
  /\ hold \in [Holds -> {"NONE", "PLACING", "ACTIVE", "RELEASED"}]

(* "A DISPATCHED or ambiguous provider operation blocks disposition ...     *)
(* preventing a late callback/result from restoring removed data": once a   *)
(* review that covers the intent has erased it, no attempt, sweep or        *)
(* reviewer puts a receipt or a finding back.                               *)
ErasedIntentStaysEmpty ==
  \A t \in DOMAIN tasks :
    tasks[t].outcome = "ERASED" /\ tasks[t].covers => ~intentContent
=============================================================================
