------------------------- MODULE CaseWorkflowProofs --------------------------
(***************************************************************************)
(* Theorems about how a loan comes to its decision and whose loans a page  *)
(* shows: CaseWorkflow, for any number of attempts per activity,           *)
(* executions, conditions, interruptions and abandoned attempts;           *)
(* LoanEvaluation, for any seeds and amounts; ConsoleSession, for any      *)
(* workspaces and sandboxes.                                               *)
(***************************************************************************)
EXTENDS CaseWorkflow, LoanEvaluation, ConsoleSession, FiniteSetTheorems, TLAPS

(* Zenon is the prover of every leaf that names none.                       *)
USE ZenonT(90)

Answered == {"NONE", "DONE", "CONDITION_OPENED", "REVIEW_REQUIRED", "READY",
             "INTERRUPTED", "REUSE_OPEN_CONDITION", "RESTART_COLLECTION"}

AttemptType ==
  [act : Activities \cup {"none"}, run : Nat, condition : 0..MaxConditions,
   late : BOOLEAN, step : {"read", "write", "done"}, fresh : BOOLEAN,
   open : SUBSET Conditions, ready : BOOLEAN, answer : Answered]

(* Why a case may become ready.                                             *)
Resolved == \E c \in Conditions : condition[c] = "RESOLVED"
Justified == cleared \/ Resolved

(* An attempt to resolve a condition names one, and none is made to mark    *)
(* the case ready without a reason.                                         *)
AttemptOK(x) ==
  /\ x \in AttemptType
  /\ x.act = "resolveCondition" /\ x.step # "done" => x.condition \in Conditions
  /\ x.act = "markReadyForUnderwriting" => Justified

LateOK(x) ==
  /\ AttemptOK(x)
  /\ x.late
  /\ x.act \in Activities
  /\ x.step \in {"read", "write"}

(* What the workflow may conclude from the answer of the attempt it waits   *)
(* for.                                                                     *)
Concluded(x) ==
  /\ x.act \in {"markReadyForUnderwriting", "markManualReview"} => "verdict" \in outbox
  /\ x.act = "evaluateConditions" /\ x.answer = "READY" => "verdict" \in outbox
  /\ x.act = "evaluateConditions" /\ x.answer = "CONDITION_OPENED" => x.condition \in Conditions
  /\ x.act = "prepareWorkflowRecovery" /\ x.answer = "REUSE_OPEN_CONDITION"
       => x.condition \in Conditions
  /\ x.act = "resolveCondition" => Resolved
  /\ x.act = "markWorkflowCancelled" => "cancelled" \in outbox

TaskOK(x) ==
  /\ AttemptOK(x)
  /\ ~x.late
  /\ pc \in Activities => x.act = pc /\ x.run = runs
  /\ pc \notin Activities => x.act = "none" /\ x.step = "done"
  /\ x.step = "done" => Concluded(x)

(* What the run, its target and the history say.                            *)
RunOK ==
  /\ status \in CaseStatus
  /\ condition \in [Conditions -> {"NONE", "OPEN", "RESOLVED"}]
  /\ runs \in 0..MaxRuns
  /\ runStatus \in {"NONE", "RUNNING", "COMPLETED"} \cup Recoverable
  /\ before \in {"NONE", "RUNNING", "COMPLETED"} \cup Recoverable
  /\ outbox \subseteq {"verdict", "cancelled"}
  /\ pc \in Activities \cup Waits /\ (Running <=> pc # "ended")
  /\ target \in 0..MaxConditions /\ tries \in 0..MaxTries
  /\ pc \in {"waitResolution", "resolveCondition"} => target \in Conditions
  /\ interrupts \in 0..MaxInterrupts
  /\ cleared \in BOOLEAN

CaseInv ==
  /\ RunOK
  /\ TaskOK(task)
  /\ \A x \in late : LateOK(x)
  /\ ReadyIsJustified
  /\ EndIsAnnounced
  /\ RecoveryFollowsFailure

-----------------------------------------------------------------------------
(* The records the model builds from an attempt.                            *)
LEMMA StaleAttempt ==
  ASSUME NEW x \in AttemptType
  PROVE  /\ Stale(x) \in AttemptType
         /\ Stale(x).act = x.act /\ Stale(x).run = x.run /\ Stale(x).late = x.late
         /\ Stale(x).step = x.step /\ Stale(x).condition = x.condition
         /\ Stale(x).answer = x.answer
BY DEF Stale, AttemptType

LEMMA AnsweredAttempt ==
  ASSUME NEW x \in AttemptType, NEW answer \in Answered, NEW c \in 0..MaxConditions
  PROVE  /\ Answers(x, answer, c) \in AttemptType
         /\ Answers(x, answer, c).act = x.act /\ Answers(x, answer, c).run = x.run
         /\ Answers(x, answer, c).late = x.late /\ Answers(x, answer, c).step = "done"
         /\ Answers(x, answer, c).condition = c /\ Answers(x, answer, c).answer = answer
BY DEF Answers, AttemptType

LEMMA FirstAttempt ==
  ASSUME NEW act \in Activities, NEW r \in Nat, NEW c \in 0..MaxConditions
  PROVE  /\ NewAttempt(act, r, c) \in AttemptType
         /\ NewAttempt(act, r, c).act = act /\ NewAttempt(act, r, c).run = r
         /\ ~NewAttempt(act, r, c).late /\ NewAttempt(act, r, c).condition = c
         /\ NewAttempt(act, r, c).step \in {"read", "write"}
BY DEF NewAttempt, AttemptType, Answered

LEMMA NoAttempt ==
  /\ NoTask \in AttemptType
  /\ NoTask.act = "none" /\ ~NoTask.late /\ NoTask.step = "done"
<1> DEFINE none == NewAttempt("none", 0, 0)
<1>1. none \in AttemptType /\ none.act = "none" /\ ~none.late
  BY CaseWorkflowAssumption, SMTT(30) DEF NewAttempt, AttemptType, Answered, Conditions
<1> HIDE DEF none
<1>2. [none EXCEPT !.step = "done"] \in AttemptType
      /\ [none EXCEPT !.step = "done"].act = "none" /\ ~[none EXCEPT !.step = "done"].late
      /\ [none EXCEPT !.step = "done"].step = "done"
  BY <1>1 DEF AttemptType
<1>3. QED
  BY <1>2 DEF NoTask, none

LEMMA LateAttempt ==
  ASSUME NEW x \in AttemptType
  PROVE  /\ [x EXCEPT !.late = TRUE] \in AttemptType
         /\ [x EXCEPT !.late = TRUE].act = x.act /\ [x EXCEPT !.late = TRUE].late
         /\ [x EXCEPT !.late = TRUE].step = x.step
         /\ [x EXCEPT !.late = TRUE].condition = x.condition
BY DEF AttemptType

-----------------------------------------------------------------------------
(* What a step keeps that attempts rest on.                                 *)
Keeps ==
  /\ Justified => Justified'
  /\ Resolved => Resolved'
  /\ outbox \subseteq outbox'
  /\ UNCHANGED <<pc, runs>>

LEMMA KeptTask ==
  ASSUME Keeps, NEW x, TaskOK(x)
  PROVE  TaskOK(x)'
BY DEF Keeps, TaskOK, AttemptOK, Concluded

LEMMA KeptLate ==
  ASSUME Justified => Justified', NEW x, LateOK(x)
  PROVE  LateOK(x)'
BY DEF LateOK, AttemptOK

LEMMA StaleTask ==
  ASSUME NEW x, TaskOK(x)'
  PROVE  TaskOK(Stale(x))'
<1> DEFINE y == Stale(x)
<1>1. y \in AttemptType /\ y.act = x.act /\ y.run = x.run /\ y.late = x.late
      /\ y.step = x.step /\ y.condition = x.condition /\ y.answer = x.answer
  BY StaleAttempt DEF TaskOK, AttemptOK
<1> HIDE DEF y
<1>2. TaskOK(y)'
  BY <1>1 DEF TaskOK, AttemptOK, Concluded
<1>3. QED
  BY <1>2 DEF y

LEMMA StaleLate ==
  ASSUME NEW x, LateOK(x)'
  PROVE  LateOK(Stale(x))'
<1> DEFINE y == Stale(x)
<1>1. y \in AttemptType /\ y.act = x.act /\ y.late = x.late
      /\ y.step = x.step /\ y.condition = x.condition
  BY StaleAttempt DEF LateOK, AttemptOK
<1> HIDE DEF y
<1>2. LateOK(y)'
  BY <1>1 DEF LateOK, AttemptOK
<1>3. QED
  BY <1>2 DEF y

(* An attempt that takes a step, with or without an update of the case row: *)
(* what is left to show is that its own new record is in order.             *)
LEMMA AttemptMoves ==
  ASSUME TaskOK(task), \A x \in late : LateOK(x), Keeps,
         NEW a \in {task} \cup late, NEW b, NEW newStatus,
         Becomes(a, b) \/ BecomesAndUpdates(a, b, newStatus),
         ~a.late => TaskOK(b)',
         a.late /\ b.step # "done" => LateOK(b)'
  PROVE  TaskOK(task)' /\ \A x \in late' : LateOK(x)'
<1>1. TaskOK(task)'
  <2>1. CASE ~a.late
    <3>1. task' = b \/ task' = Stale(b)
      BY <2>1 DEF Becomes, BecomesAndUpdates
    <3>2. TaskOK(b)' /\ TaskOK(Stale(b))'
      BY <2>1, StaleTask
    <3>3. QED
      BY <3>1, <3>2, SMTT(30) DEF TaskOK, AttemptOK, Concluded
  <2>2. CASE a.late
    <3>1. task' = task \/ task' = Stale(task)
      BY <2>2 DEF Becomes, BecomesAndUpdates
    <3>2. PICK x : x = task
      OBVIOUS
    <3>3. TaskOK(x)' /\ TaskOK(Stale(x))'
      BY <3>2, KeptTask, StaleTask
    <3>4. QED
      BY <3>1, <3>2, <3>3, SMTT(30) DEF TaskOK, AttemptOK, Concluded
  <2>3. QED
    BY <2>1, <2>2
<1>2. ASSUME NEW x \in late'
      PROVE  LateOK(x)'
  <2>1. PICK y : /\ y \in late \/ (a.late /\ b.step # "done" /\ y = b)
                 /\ x = y \/ x = Stale(y)
    BY <1>2 DEF Becomes, BecomesAndUpdates
  <2>2. LateOK(y)'
    BY <2>1, KeptLate DEF Keeps
  <2>3. QED
    BY <2>1, <2>2, StaleLate
<1>3. QED
  BY <1>1, <1>2

(* The rest of the invariant, for a step of an attempt.                     *)
LEMMA AttemptKeepsRun ==
  ASSUME CaseInv, Keeps,
         UNCHANGED <<runVars, runStatus, target, tries>>,
         status' \in CaseStatus,
         condition' \in [Conditions -> {"NONE", "OPEN", "RESOLVED"}],
         outbox' \subseteq {"verdict", "cancelled"},
         interrupts' \in 0..MaxInterrupts, cleared' \in BOOLEAN,
         status' = "READY_FOR_UNDERWRITING" =>
           Justified' \/ status = "READY_FOR_UNDERWRITING"
  PROVE  RunOK' /\ ReadyIsJustified' /\ EndIsAnnounced' /\ RecoveryFollowsFailure'
<1>1. RunOK'
  BY DEF CaseInv, Keeps, RunOK, Running, runVars
<1>2. ReadyIsJustified'
  BY DEF CaseInv, Keeps, ReadyIsJustified, Justified, Resolved
<1>3. EndIsAnnounced' /\ RecoveryFollowsFailure'
  BY DEF CaseInv, Keeps, EndIsAnnounced, RecoveryFollowsFailure, runVars
<1>4. QED
  BY <1>1, <1>2, <1>3

LEMMA AttemptFacts ==
  ASSUME CaseInv, NEW a \in {task} \cup late
  PROVE  /\ AttemptOK(a)
         /\ ~a.late => TaskOK(a)
         /\ a.late => LateOK(a)
BY DEF CaseInv, TaskOK, LateOK

(* An attempt that ends with an answer.                                     *)
LEMMA AttemptEnds ==
  ASSUME CaseInv, Keeps, NEW a \in {task} \cup late, a.step = "write",
         NEW answer \in Answered, NEW c \in 0..MaxConditions, NEW newStatus,
         \/ Becomes(a, Answers(a, answer, c))
         \/ BecomesAndUpdates(a, Answers(a, answer, c), newStatus),
         ~a.late => Concluded(Answers(a, answer, c))'
  PROVE  TaskOK(task)' /\ \A x \in late' : LateOK(x)'
<1> DEFINE b == Answers(a, answer, c)
<1>1. AttemptOK(a) /\ (~a.late => TaskOK(a)) /\ (a.late => LateOK(a))
  BY AttemptFacts
<1>2. /\ b \in AttemptType /\ b.act = a.act /\ b.run = a.run /\ b.late = a.late
      /\ b.step = "done"
  BY <1>1, AnsweredAttempt, SMTT(30) DEF AttemptOK
<1>3. ~a.late => Concluded(b)'
  OBVIOUS
<1>4. Becomes(a, b) \/ BecomesAndUpdates(a, b, newStatus)
  OBVIOUS
<1> HIDE DEF b
<1>5. ~a.late => TaskOK(b)'
  BY <1>1, <1>2, <1>3 DEF TaskOK, AttemptOK, Keeps
<1>6. QED
  BY <1>2, <1>4, <1>5, AttemptMoves DEF CaseInv

LEMMA ReadStep ==
  ASSUME CaseInv, NEW a \in {task} \cup late, Read(a),
         UNCHANGED <<runVars, runStatus, pc, target, tries>>
  PROVE  CaseInv'
<1>1. AttemptOK(a) /\ (~a.late => TaskOK(a)) /\ (a.late => LateOK(a))
  BY AttemptFacts
<1>2. Keeps
  BY DEF Read, Keeps, Justified, Resolved, caseVars, runVars, historyVars
<1>3. PICK b : /\ b \in AttemptType /\ b.act = a.act /\ b.run = a.run /\ b.late = a.late
               /\ b.step = "write" /\ b.condition = a.condition
               /\ Becomes(a, b)
  <2> DEFINE fresh == a.act = "evaluateConditions"
             open == IF a.act = "prepareWorkflowRecovery" THEN Open ELSE {}
             ready == a.act = "markWorkflowCancelled" /\ status = "READY_FOR_UNDERWRITING"
             b == [a EXCEPT !.step = "write", !.fresh = fresh, !.open = open, !.ready = ready]
  <2>1. fresh \in BOOLEAN /\ ready \in BOOLEAN
    OBVIOUS
  <2>2. open \in SUBSET Conditions
    BY DEF Open
  <2>3. Becomes(a, b)
    BY DEF Read
  <2> HIDE DEF fresh, open, ready
  <2>4. /\ b \in AttemptType /\ b.act = a.act /\ b.run = a.run /\ b.late = a.late
        /\ b.step = "write" /\ b.condition = a.condition
    BY <1>1, <2>1, <2>2 DEF AttemptOK, AttemptType
  <2> HIDE DEF b
  <2>5. QED
    BY <2>3, <2>4
<1>4. AttemptOK(b)'
  BY <1>1, <1>2, <1>3, a.step = "read" DEF AttemptOK, Keeps, Read
<1>5. (~a.late => TaskOK(b)') /\ (a.late => LateOK(b)')
  BY <1>1, <1>2, <1>3, <1>4, a.step = "read" DEF TaskOK, LateOK, Keeps, Read
<1>6. TaskOK(task)' /\ \A x \in late' : LateOK(x)'
  BY <1>2, <1>3, <1>5, AttemptMoves DEF CaseInv
<1>7. RunOK' /\ ReadyIsJustified' /\ EndIsAnnounced' /\ RecoveryFollowsFailure'
  BY <1>2, AttemptKeepsRun DEF Read, CaseInv, RunOK, caseVars, historyVars
<1>8. QED
  BY <1>6, <1>7 DEF CaseInv

(* An attempt that commits its transaction and ends.                        *)
LEMMA Commits ==
  ASSUME CaseInv, NEW a \in {task} \cup late, a.step = "write",
         UNCHANGED <<runVars, runStatus, pc, target, tries>>,
         NEW answer \in Answered, NEW c \in 0..MaxConditions, NEW newStatus,
         \/ Becomes(a, Answers(a, answer, c))
         \/ BecomesAndUpdates(a, Answers(a, answer, c), newStatus),
         status' \in CaseStatus,
         condition' \in [Conditions -> {"NONE", "OPEN", "RESOLVED"}],
         Resolved => Resolved',
         cleared' \in BOOLEAN, cleared => cleared',
         interrupts' \in 0..MaxInterrupts,
         NEW event \in {"verdict", "cancelled"},
         outbox' = outbox \/ Emits(a, event),
         status' = "READY_FOR_UNDERWRITING" =>
           Justified' \/ status = "READY_FOR_UNDERWRITING",
         a.act \in {"markReadyForUnderwriting", "markManualReview"}
           \/ (a.act = "evaluateConditions" /\ answer = "READY")
           => event = "verdict" /\ Emits(a, event),
         a.act = "markWorkflowCancelled" => event = "cancelled" /\ Emits(a, event),
         answer \in {"CONDITION_OPENED", "REUSE_OPEN_CONDITION"} => c \in Conditions,
         a.act = "resolveCondition" => Resolved'
  PROVE  CaseInv'
<1> DEFINE b == Answers(a, answer, c)
<1>1. AttemptOK(a) /\ (~a.late => TaskOK(a))
  BY AttemptFacts
<1>2. ~a.late => a.run = runs
  BY <1>1 DEF TaskOK
<1>3. Keeps
  BY DEF Keeps, Justified, Emits, runVars
<1>4. b \in AttemptType /\ b.act = a.act /\ b.answer = answer /\ b.condition = c
  BY <1>1, AnsweredAttempt, SMTT(30) DEF AttemptOK
<1>5. ~a.late => Concluded(b)'
  <2> HIDE DEF b
  <2>1. QED
    BY <1>2, <1>4 DEF Concluded, Emits
<1>6. TaskOK(task)' /\ \A x \in late' : LateOK(x)'
  BY <1>3, <1>5, AttemptEnds
<1>7. outbox' \subseteq {"verdict", "cancelled"}
  BY DEF Emits, CaseInv, RunOK
<1>8. RunOK' /\ ReadyIsJustified' /\ EndIsAnnounced' /\ RecoveryFollowsFailure'
  BY <1>3, <1>7, AttemptKeepsRun
<1>9. QED
  BY <1>6, <1>8 DEF CaseInv

LEMMA WriteStep ==
  ASSUME CaseInv, NEW a \in {task} \cup late, Write(a),
         UNCHANGED <<runVars, runStatus, pc, target, tries>>
  PROVE  CaseInv'
<1>0. a.step = "write" /\ RunOK /\ AttemptOK(a)
  BY AttemptFacts DEF Write, CaseInv
<1>1. 0 \in 0..MaxConditions /\ Conditions \subseteq 0..MaxConditions
  BY CaseWorkflowAssumption, SMTT(30) DEF Conditions
<1>2. CASE a.act = "markCollectingEvidence" /\ markCollectingEvidence(a)
  BY <1>0, <1>1, <1>2, Commits
     DEF markCollectingEvidence, Marks, BecomesAndUpdates, RunOK, CaseStatus, Answered, Resolved
<1>3. CASE a.act = "fetchEvidence" /\ fetchEvidence(a)
  BY <1>0, <1>1, <1>3, Commits
     DEF fetchEvidence, RunOK, Answered, Resolved, caseVars, historyVars
<1>4. CASE a.act = "markWaitingForReview" /\ markWaitingForReview(a)
  BY <1>0, <1>1, <1>4, Commits
     DEF markWaitingForReview, Marks, BecomesAndUpdates, RunOK, CaseStatus, Answered, Resolved
<1>5. CASE a.act = "markManualReview" /\ markManualReview(a)
  BY <1>0, <1>1, <1>5, Commits
     DEF markManualReview, Marks, BecomesAndUpdates, RunOK, CaseStatus, Answered, Resolved
<1>6. CASE a.act = "markReadyForUnderwriting" /\ markReadyForUnderwriting(a)
  <2>1. Justified'
    BY <1>0, <1>6 DEF AttemptOK, markReadyForUnderwriting, Marks, Justified, Resolved
  <2>2. QED
    BY <1>0, <1>1, <1>6, <2>1, Commits
       DEF markReadyForUnderwriting, Marks, BecomesAndUpdates, RunOK, CaseStatus, Answered, Resolved
<1>7. CASE a.act = "resolveCondition" /\ resolveCondition(a)
  <2>1. a.condition \in Conditions
    BY <1>0, <1>7 DEF AttemptOK
  <2>2. Resolved' /\ condition' \in [Conditions -> {"NONE", "OPEN", "RESOLVED"}]
    BY <1>0, <1>7, <2>1 DEF resolveCondition, RunOK, Resolved
  <2>3. QED
    BY <1>0, <1>1, <1>7, <2>2, Commits
       DEF resolveCondition, RunOK, Answered, historyVars
<1>8. CASE a.act = "prepareWorkflowRecovery" /\ prepareWorkflowRecovery(a)
  <2>1. UNCHANGED <<condition, outbox, interrupts, cleared>>
    BY <1>8 DEF prepareWorkflowRecovery, historyVars
  <2>2. PICK answer \in Answered, c \in 0..MaxConditions :
          /\ \/ Becomes(a, Answers(a, answer, c)) /\ UNCHANGED status
             \/ BecomesAndUpdates(a, Answers(a, answer, c), "CONDITIONS_OPEN")
          /\ answer # "CONDITION_OPENED"
          /\ answer = "REUSE_OPEN_CONDITION" => c \in Conditions
    <3>1. a.open \subseteq Conditions
      BY <1>0 DEF AttemptOK, AttemptType
    <3>2. QED
      BY <1>1, <1>8, <3>1 DEF prepareWorkflowRecovery, Answered
  <2>3. status' \in CaseStatus /\ (status' = status \/ status' = "CONDITIONS_OPEN")
    BY <1>0, <2>2 DEF BecomesAndUpdates, RunOK, CaseStatus
  <2>4. QED
    BY <1>0, <1>8, <2>1, <2>2, <2>3, Commits DEF RunOK, Resolved
<1>9. CASE a.act = "markWorkflowCancelled" /\ markWorkflowCancelled(a)
  <2>1. /\ \/ Becomes(a, Answers(a, "DONE", 0)) /\ UNCHANGED status
           \/ BecomesAndUpdates(a, Answers(a, "DONE", 0), "MANUAL_REVIEW")
        /\ UNCHANGED <<condition, interrupts, cleared>> /\ Emits(a, "cancelled")
    BY <1>9 DEF markWorkflowCancelled, historyVars
  <2>2. status' \in CaseStatus /\ (status' = status \/ status' = "MANUAL_REVIEW")
    BY <1>0, <2>1 DEF BecomesAndUpdates, RunOK, CaseStatus
  <2>3. QED
    BY <1>0, <1>1, <1>9, <2>1, <2>2, Commits DEF RunOK, Answered, Resolved
<1>10. CASE a.act = "evaluateConditions" /\ openCondition(a)
  <2>1. PICK c \in Conditions, answer \in {"CONDITION_OPENED", "REVIEW_REQUIRED"} :
          /\ condition[c] = "NONE"
          /\ condition' = [condition EXCEPT ![c] = "OPEN"]
          /\ BecomesAndUpdates(a, Answers(a, answer, c), "CONDITIONS_OPEN")
    BY <1>10 DEF openCondition
  <2>2. /\ Resolved => Resolved'
        /\ condition' \in [Conditions -> {"NONE", "OPEN", "RESOLVED"}]
    BY <1>0, <2>1 DEF RunOK, Resolved
  <2>3. status' = "CONDITIONS_OPEN" /\ UNCHANGED <<outbox, interrupts, cleared>>
    BY <1>10, <2>1 DEF openCondition, BecomesAndUpdates, historyVars
  <2>4. QED
    BY <1>0, <1>1, <1>10, <2>1, <2>2, <2>3, Commits DEF RunOK, Answered, CaseStatus
<1>11. CASE a.act = "evaluateConditions" /\ findReady(a)
  BY <1>0, <1>1, <1>11, Commits
     DEF findReady, BecomesAndUpdates, RunOK, CaseStatus, Answered, Resolved, Justified
<1>12. CASE a.act = "evaluateConditions" /\ leaveUndecided(a)
  <2>1. PICK answer \in {"REVIEW_REQUIRED", "INTERRUPTED"} : Becomes(a, Answers(a, answer, 0))
    BY <1>12 DEF leaveUndecided
  <2>2. interrupts' \in 0..MaxInterrupts
    BY <1>0, <1>12, CaseWorkflowAssumption, SMTT(30) DEF leaveUndecided, RunOK
  <2>3. UNCHANGED <<status, condition, outbox, cleared>>
    BY <1>12 DEF leaveUndecided, caseVars
  <2>4. QED
    BY <1>0, <1>1, <1>12, <2>1, <2>2, <2>3, Commits DEF RunOK, Answered, Resolved
<1>13. QED
  BY <1>2, <1>3, <1>4, <1>5, <1>6, <1>7, <1>8, <1>9, <1>10, <1>11, <1>12
     DEF Write, evaluateConditions

-----------------------------------------------------------------------------
(* The workflow's own steps put a new attempt, or none, in place.           *)
LEMMA Scheduled ==
  ASSUME NEW act \in Activities, NEW r \in Nat, NEW c \in 0..MaxConditions,
         pc' = act, runs' = r, task' = NewAttempt(act, r, c),
         act = "resolveCondition" => c \in Conditions,
         act = "markReadyForUnderwriting" => Justified'
  PROVE  TaskOK(task)'
<1> DEFINE b == NewAttempt(act, r, c)
<1>1. /\ b \in AttemptType /\ b.act = act /\ b.run = r /\ ~b.late
      /\ b.condition = c /\ b.step \in {"read", "write"}
  BY FirstAttempt, SMTT(30)
<1>2. task' = b
  OBVIOUS
<1> HIDE DEF b
<1>3. QED
  BY <1>1, <1>2 DEF TaskOK, AttemptOK

LEMMA Unscheduled ==
  ASSUME pc' \in Waits, task' = NoTask
  PROVE  TaskOK(task)'
<1>1. pc' \notin Activities
  BY DEF Waits, Activities, Reading
<1>2. QED
  BY <1>1, NoAttempt DEF TaskOK, AttemptOK, Concluded

LEMMA Abandoned ==
  ASSUME CaseInv, Abandon \/ late' = late, Justified => Justified'
  PROVE  \A x \in late' : LateOK(x)'
<1> SUFFICES ASSUME NEW x \in late' PROVE LateOK(x)'
  OBVIOUS
<1>1. CASE x \in late
  BY <1>1, KeptLate DEF CaseInv
<1>2. CASE /\ x = [task EXCEPT !.late = TRUE]
           /\ pc \in Activities /\ task.step # "done"
  <2>1. /\ x \in AttemptType /\ x.act = task.act /\ x.late
        /\ x.step = task.step /\ x.condition = task.condition
    BY <1>2, LateAttempt DEF CaseInv, TaskOK, AttemptOK
  <2>2. TaskOK(task) /\ task.step \in {"read", "write"}
    BY <1>2 DEF CaseInv, TaskOK, AttemptOK, AttemptType
  <2>3. QED
    BY <1>2, <2>1, <2>2 DEF TaskOK, LateOK, AttemptOK
<1>3. QED
  BY <1>1, <1>2 DEF Abandon

LEMMA AdvanceStep ==
  ASSUME CaseInv, Advance
  PROVE  CaseInv'
<1>1. /\ RunOK /\ TaskOK(task) /\ Concluded(task) /\ pc = task.act
      /\ task.condition \in 0..MaxConditions /\ runs \in Nat
  BY DEF CaseInv, Advance, TaskOK, AttemptOK, AttemptType, RunOK
<1>2. /\ UNCHANGED <<status, condition, runs, before, recovers, outbox, late, interrupts, cleared>>
      /\ runStatus = "RUNNING"
  BY DEF Advance, Running, caseVars, runVars, historyVars
<1>3. Justified' = Justified
  BY <1>2 DEF Justified, Resolved
<1>4. \A x \in late' : LateOK(x)'
  BY <1>2, <1>3, Abandoned
<1>5. ReadyIsJustified' /\ RecoveryFollowsFailure'
  BY <1>2 DEF CaseInv, ReadyIsJustified, RecoveryFollowsFailure
<1>6. 0 \in 0..MaxConditions /\ 0 \in 0..MaxTries /\ 1 \in 0..MaxTries
  BY CaseWorkflowAssumption, SMTT(30)
<1>7. ASSUME NEW act \in Activities \ {"resolveCondition"}, Schedule(act, 0),
             act = "markReadyForUnderwriting" => Justified
      PROVE  CaseInv'
  <2>1. TaskOK(task)'
    BY <1>1, <1>2, <1>3, <1>6, <1>7, Scheduled DEF Schedule
  <2>2. RunOK' /\ EndIsAnnounced'
    BY <1>1, <1>2, <1>6, <1>7
       DEF Schedule, RunOK, Running, EndIsAnnounced, Activities, Reading
  <2>3. QED
    BY <1>4, <1>5, <2>1, <2>2 DEF CaseInv
<1>8. ASSUME NEW label \in {"waitResolution", "waitResume"}, NEW c \in 0..MaxConditions,
             Wait(label, c), label = "waitResolution" => c \in Conditions
      PROVE  CaseInv'
  <2>1. TaskOK(task)'
    BY <1>8, Unscheduled DEF Wait, Waits
  <2>2. RunOK' /\ EndIsAnnounced'
    BY <1>1, <1>2, <1>6, <1>8 DEF Wait, Waits, RunOK, Running, EndIsAnnounced
  <2>3. QED
    BY <1>4, <1>5, <2>1, <2>2 DEF CaseInv
<1>9. ASSUME NEW endStatus \in {"COMPLETED", "CANCELLED"}, End(endStatus),
             endStatus = "COMPLETED" => "verdict" \in outbox,
             endStatus = "CANCELLED" => "cancelled" \in outbox
      PROVE  CaseInv'
  <2>1. TaskOK(task)'
    BY <1>9, Unscheduled DEF End, Waits
  <2>2. RunOK' /\ EndIsAnnounced'
    BY <1>1, <1>2, <1>6, <1>9 DEF End, Waits, RunOK, Running, Recoverable, EndIsAnnounced
  <2>3. QED
    BY <1>4, <1>5, <2>1, <2>2 DEF CaseInv
<1>10. CASE \/ Then("prepareWorkflowRecovery", "REUSE_OPEN_CONDITION")
               /\ Wait("waitResolution", task.condition)
            \/ Then("evaluateConditions", "CONDITION_OPENED")
               /\ Wait("waitResolution", task.condition)
            \/ Then("markWaitingForReview", "DONE") /\ Wait("waitResume", 0)
  BY <1>1, <1>6, <1>8, <1>10 DEF Then, Concluded
<1>11. CASE \/ Then("evaluateConditions", "READY") /\ End("COMPLETED")
            \/ pc \in {"markReadyForUnderwriting", "markManualReview"} /\ End("COMPLETED")
            \/ pc = "markWorkflowCancelled" /\ End("CANCELLED")
  BY <1>1, <1>9, <1>11 DEF Then, Concluded
<1>12. CASE Then("resolveCondition", "DONE") /\ Schedule("markReadyForUnderwriting", 0)
  BY <1>1, <1>7, <1>12 DEF Then, Concluded, Justified, Activities
<1>13. CASE \E act \in {"markManualReview", "markCollectingEvidence", "fetchEvidence",
                         "evaluateConditions", "markWaitingForReview"} : Schedule(act, 0)
  BY <1>7, <1>13 DEF Activities, Reading
<1>14. QED
  BY <1>10, <1>11, <1>12, <1>13 DEF Advance, AfterActivity

LEMMA ScheduleStep ==
  ASSUME CaseInv, NEW act \in Activities, NEW c \in 0..MaxConditions, Schedule(act, c),
         Running, Abandon \/ late' = late,
         UNCHANGED <<caseVars, runVars, outbox, historyVars>>,
         act = "resolveCondition" => c \in Conditions,
         act # "markReadyForUnderwriting"
  PROVE  CaseInv'
<1>1. Justified' = Justified /\ runs \in Nat
  BY SMTT(30) DEF Justified, Resolved, caseVars, historyVars, CaseInv, RunOK
<1>2. \A x \in late' : LateOK(x)'
  BY <1>1, Abandoned
<1>3. TaskOK(task)'
  BY <1>1, Scheduled DEF Schedule, runVars
<1>4. RunOK'
  BY CaseWorkflowAssumption, SMTT(30)
     DEF CaseInv, RunOK, Running, Schedule, Activities, Reading, caseVars, runVars, historyVars
<1>5. ReadyIsJustified' /\ EndIsAnnounced' /\ RecoveryFollowsFailure'
  BY DEF CaseInv, Running, Schedule, ReadyIsJustified, EndIsAnnounced, RecoveryFollowsFailure,
         caseVars, runVars, historyVars
<1>6. QED
  BY <1>2, <1>3, <1>4, <1>5 DEF CaseInv

LEMMA ResumeStep ==
  ASSUME CaseInv, Resume
  PROVE  CaseInv'
<1>1. Running /\ late' = late /\ target \in 0..MaxConditions
      /\ UNCHANGED <<caseVars, runVars, outbox, historyVars>>
  BY DEF CaseInv, RunOK, Resume
<1>2. CASE pc = "waitResolution" /\ Schedule("resolveCondition", target)
  BY <1>1, <1>2, ScheduleStep DEF CaseInv, RunOK, Activities
<1>3. CASE Schedule("evaluateConditions", 0)
  BY <1>1, <1>3, ScheduleStep, CaseWorkflowAssumption, SMTT(30) DEF Activities, Reading
<1>4. QED
  BY <1>2, <1>3 DEF Resume

LEMMA RetryStep ==
  ASSUME CaseInv, Retry
  PROVE  CaseInv'
<1>1. Justified' = Justified /\ runs \in Nat /\ target \in 0..MaxConditions
  BY SMTT(30) DEF Justified, Resolved, Retry, caseVars, historyVars, CaseInv, RunOK
<1>2. \A x \in late' : LateOK(x)'
  BY <1>1, Abandoned DEF Retry
<1>3. /\ pc = "resolveCondition" => target \in Conditions
      /\ pc = "markReadyForUnderwriting" => Justified'
  BY <1>1 DEF CaseInv, RunOK, TaskOK, AttemptOK, Retry
<1>4. TaskOK(task)'
  BY <1>1, <1>3, Scheduled DEF Retry, runVars
<1>5. RunOK'
  BY CaseWorkflowAssumption, SMTT(30)
     DEF CaseInv, RunOK, Running, Retry, caseVars, runVars, historyVars
<1>6. ReadyIsJustified' /\ EndIsAnnounced' /\ RecoveryFollowsFailure'
  BY DEF CaseInv, Retry, ReadyIsJustified, EndIsAnnounced, RecoveryFollowsFailure,
         caseVars, runVars, historyVars
<1>7. QED
  BY <1>2, <1>4, <1>5, <1>6 DEF CaseInv

LEMMA ExhaustStep ==
  ASSUME CaseInv, Exhaust
  PROVE  CaseInv'
<1>1. CASE Schedule("markManualReview", 0)
  BY <1>1, ScheduleStep, CaseWorkflowAssumption, SMTT(30) DEF Exhaust, Activities
<1>2. CASE End("FAILED")
  <2>1. Justified' = Justified
    BY DEF Justified, Resolved, Exhaust, caseVars, historyVars
  <2>2. \A x \in late' : LateOK(x)'
    BY <2>1, Abandoned DEF Exhaust
  <2>3. TaskOK(task)'
    BY <1>2, Unscheduled DEF End, Waits
  <2>4. RunOK'
    BY <1>2, CaseWorkflowAssumption, SMTT(30)
       DEF CaseInv, RunOK, Running, Exhaust, End, Waits, Recoverable, caseVars, runVars,
           historyVars
  <2>5. ReadyIsJustified' /\ EndIsAnnounced' /\ RecoveryFollowsFailure'
    BY <1>2 DEF CaseInv, Exhaust, End, ReadyIsJustified, EndIsAnnounced,
                RecoveryFollowsFailure, caseVars, runVars, historyVars
  <2>6. QED
    BY <2>2, <2>3, <2>4, <2>5 DEF CaseInv
<1>3. QED
  BY <1>1, <1>2 DEF Exhaust, AfterFailure

(* The API starts a run.                                                    *)
LEMMA ExecuteStep ==
  ASSUME CaseInv, NEW act \in {"markCollectingEvidence", "prepareWorkflowRecovery"},
         NEW recovering \in BOOLEAN, Execute(act, recovering),
         recovering => runStatus \in Recoverable,
         UNCHANGED <<caseVars, late, historyVars>>
  PROVE  CaseInv'
<1>1. Justified' = Justified /\ runs + 1 \in Nat /\ act \in Activities /\ 0 \in 0..MaxConditions
  BY CaseWorkflowAssumption, SMTT(30)
     DEF Justified, Resolved, caseVars, historyVars, CaseInv, RunOK, Activities, Reading
<1>2. \A x \in late' : LateOK(x)'
  BY <1>1, Abandoned
<1>3. TaskOK(task)'
  BY <1>1, Scheduled DEF Execute
<1>4. RunOK'
  BY <1>1, CaseWorkflowAssumption, SMTT(30)
     DEF CaseInv, RunOK, Running, Execute, caseVars, historyVars
<1>5. ReadyIsJustified' /\ EndIsAnnounced' /\ RecoveryFollowsFailure'
  BY DEF CaseInv, Execute, ReadyIsJustified, EndIsAnnounced, RecoveryFollowsFailure,
         caseVars, historyVars
<1>6. QED
  BY <1>2, <1>3, <1>4, <1>5 DEF CaseInv

(* A step that leaves the attempts alone, or makes them stale.              *)
LEMMA QuietStep ==
  ASSUME CaseInv,
         UNCHANGED <<condition, runVars, runStatus, outbox, pc, target, tries, interrupts, cleared>>,
         \/ UNCHANGED <<status, task, late>>
         \/ Escalate
  PROVE  CaseInv'
<1>1. Keeps
  BY DEF Keeps, Justified, Resolved, runVars
<1>2. TaskOK(task)'
  <2>1. PICK x : x = task
    OBVIOUS
  <2>2. TaskOK(x)' /\ TaskOK(Stale(x))'
    BY <1>1, <2>1, KeptTask, StaleTask DEF CaseInv
  <2>3. task' = x \/ task' = Stale(x)
    BY <2>1 DEF Escalate
  <2>4. QED
    BY <2>2, <2>3, SMTT(30) DEF TaskOK, AttemptOK, Concluded
<1>3. ASSUME NEW x \in late' PROVE LateOK(x)'
  <2>1. PICK y \in late : x = y \/ x = Stale(y)
    BY <1>3 DEF Escalate
  <2>2. QED
    BY <1>1, <2>1, KeptLate, StaleLate DEF CaseInv, Keeps
<1>4. status' \in CaseStatus /\ (status' = status \/ status' = "WAITING_FOR_REVIEW")
  BY DEF CaseInv, RunOK, Escalate, CaseStatus
<1>5. RunOK' /\ ReadyIsJustified' /\ EndIsAnnounced' /\ RecoveryFollowsFailure'
  BY <1>1, <1>4, AttemptKeepsRun DEF CaseInv, RunOK
<1>6. QED
  BY <1>2, <1>3, <1>5 DEF CaseInv

LEMMA CaseStep == CaseInv /\ [Next]_vars => CaseInv'
<1> SUFFICES ASSUME CaseInv, [Next]_vars PROVE CaseInv'
  OBVIOUS
<1>1. ASSUME NEW a \in {task} \cup late, AttemptStep(a) PROVE CaseInv'
  BY <1>1, ReadStep, WriteStep DEF AttemptStep
<1>2. CASE WorkflowStep
  BY <1>2, AdvanceStep, ResumeStep, RetryStep, ExhaustStep DEF WorkflowStep
<1>3. CASE CancelWorkflow
  BY <1>3, ScheduleStep, CaseWorkflowAssumption, SMTT(30) DEF CancelWorkflow, Activities, Reading
<1>4. CASE StartWorkflow
  BY <1>4, ExecuteStep DEF StartWorkflow
<1>5. CASE RecoverStart
  <2>1. CASE ReuseAllowed
    BY <1>5, <2>1, ExecuteStep DEF RecoverStart, ReuseAllowed
  <2>2. CASE ~ReuseAllowed
    BY <1>5, <2>2, QuietStep DEF RecoverStart, NothingStarted, caseVars, historyVars
  <2>3. QED
    BY <2>1, <2>2
<1>6. CASE RecoverCheck
  BY <1>6, QuietStep DEF RecoverCheck, NothingStarted, caseVars, historyVars
<1>7. CASE ResolveCondition \/ ResumeEvaluation
  BY <1>7, QuietStep DEF ResolveCondition, ResumeEvaluation, caseVars, historyVars
<1>8. CASE Escalate
  BY <1>8, QuietStep DEF Escalate, historyVars
<1>9. CASE UNCHANGED vars
  BY <1>9, QuietStep DEF vars, caseVars, historyVars
<1>10. QED
  BY <1>1, <1>2, <1>3, <1>4, <1>5, <1>6, <1>7, <1>8, <1>9 DEF Next

-----------------------------------------------------------------------------
(* The bound on abandoned attempts.                                         *)
LateBounded == IsFiniteSet(late) /\ Cardinality(late) <= MaxLate

LEMMA StaleSet ==
  ASSUME NEW S, IsFiniteSet(S), Cardinality(S) <= MaxLate
  PROVE  /\ IsFiniteSet({Stale(x) : x \in S})
         /\ Cardinality({Stale(x) : x \in S}) <= MaxLate
<1> DEFINE T == {Stale(x) : x \in S}
           f == [x \in S |-> Stale(x)]
<1>1. f \in Surjection(S, T)
  BY DEF Surjection
<1>2. IsFiniteSet(T) /\ Cardinality(T) <= Cardinality(S)
  BY <1>1, FS_Surjection
<1>3. Cardinality(S) \in Nat /\ Cardinality(T) \in Nat /\ MaxLate \in Nat
  BY <1>2, FS_CardinalityType, CaseWorkflowAssumption
<1> HIDE DEF T
<1>4. IsFiniteSet(T) /\ Cardinality(T) <= MaxLate
  BY <1>2, <1>3, SMTT(30)
<1>5. QED
  BY <1>4 DEF T

LEMMA AttemptForm ==
  ASSUME NEW a, AttemptStep(a)
  PROVE  \E b, newStatus : Becomes(a, b) \/ BecomesAndUpdates(a, b, newStatus)
<1>1. CASE Read(a)
  BY <1>1 DEF Read
<1>2. CASE Write(a)
  <2>1. \/ markCollectingEvidence(a) \/ fetchEvidence(a) \/ markWaitingForReview(a)
        \/ markManualReview(a) \/ resolveCondition(a) \/ markReadyForUnderwriting(a)
        \/ prepareWorkflowRecovery(a) \/ markWorkflowCancelled(a)
        \/ openCondition(a) \/ findReady(a) \/ leaveUndecided(a)
    BY <1>2 DEF Write, evaluateConditions
  <2>2. QED
    BY <2>1 DEF markCollectingEvidence, fetchEvidence, markWaitingForReview, markManualReview,
                resolveCondition, markReadyForUnderwriting, prepareWorkflowRecovery,
                markWorkflowCancelled, openCondition, findReady, leaveUndecided, Marks
<1>3. QED
  BY <1>1, <1>2 DEF AttemptStep

LEMMA LateStep ==
  CaseInv /\ LateBounded /\ [Next]_vars => LateBounded'
<1> SUFFICES ASSUME CaseInv, LateBounded, [Next]_vars PROVE LateBounded'
  OBVIOUS
<1>1. /\ IsFiniteSet({Stale(x) : x \in late})
      /\ Cardinality({Stale(x) : x \in late}) <= MaxLate
  BY StaleSet DEF LateBounded
<1>2. CASE late' = late \/ late' = {Stale(x) : x \in late}
  BY <1>1, <1>2 DEF LateBounded
<1>3. ASSUME NEW a \in {task} \cup late, AttemptStep(a)
      PROVE  LateBounded'
  <2>1. PICK b, newStatus : Becomes(a, b) \/ BecomesAndUpdates(a, b, newStatus)
    BY <1>3, AttemptForm
  <2>2. CASE ~a.late
    BY <1>2, <2>1, <2>2 DEF Becomes, BecomesAndUpdates
  <2>3. CASE a.late
    <3> DEFINE S == (late \ {a}) \cup (IF b.step = "done" THEN {} ELSE {b})
    <3>1. a \in late
      BY <2>3 DEF CaseInv, TaskOK
    <3>2. /\ IsFiniteSet(late \ {a}) /\ Cardinality(late \ {a}) = Cardinality(late) - 1
          /\ Cardinality(late) \in Nat
      BY <3>1, FS_RemoveElement, FS_CardinalityType DEF LateBounded
    <3>3. /\ IsFiniteSet((late \ {a}) \cup {b})
          /\ Cardinality((late \ {a}) \cup {b}) \in
               {Cardinality(late \ {a}), Cardinality(late \ {a}) + 1}
      BY <3>2, FS_AddElement
    <3>4. S = late \ {a} \/ S = (late \ {a}) \cup {b}
      OBVIOUS
    <3>5. IsFiniteSet(S) /\ Cardinality(S) <= MaxLate
      <4>1. MaxLate \in Nat /\ Cardinality(late) <= MaxLate
        BY CaseWorkflowAssumption DEF LateBounded
      <4>2. Cardinality(late \ {a}) <= MaxLate /\ Cardinality((late \ {a}) \cup {b}) <= MaxLate
        BY <3>2, <3>3, <4>1, SMTT(30)
      <4> HIDE DEF S
      <4>3. QED
        BY <3>2, <3>3, <3>4, <4>2
    <3>6. /\ IsFiniteSet({Stale(x) : x \in S})
          /\ Cardinality({Stale(x) : x \in S}) <= MaxLate
      <4> HIDE DEF S
      <4>1. QED
        BY <3>5, StaleSet
    <3>7. late' = S \/ late' = {Stale(x) : x \in S}
      BY <2>1, <2>3 DEF Becomes, BecomesAndUpdates
    <3>8. QED
      BY <3>5, <3>6, <3>7 DEF LateBounded
  <2>4. QED
    BY <2>2, <2>3
<1>4. CASE Abandon
  <2>1. CASE /\ Cardinality(late) < MaxLate
             /\ late' = late \cup {[task EXCEPT !.late = TRUE]}
    <3>1. /\ IsFiniteSet(late') /\ Cardinality(late) \in Nat
          /\ Cardinality(late') \in {Cardinality(late), Cardinality(late) + 1}
      BY <2>1, FS_AddElement, FS_CardinalityType DEF LateBounded
    <3>2. QED
      BY <2>1, <3>1, CaseWorkflowAssumption, SMTT(30) DEF LateBounded
  <2>2. QED
    BY <1>2, <1>4, <2>1 DEF Abandon
<1>5. QED
  BY <1>2, <1>3, <1>4
     DEF Next, WorkflowStep, Advance, Resume, Retry, Exhaust, StartWorkflow, CancelWorkflow,
         RecoverCheck, RecoverStart, ResolveCondition, ResumeEvaluation, Escalate, vars

-----------------------------------------------------------------------------
(* The inductive invariant holds throughout.                                *)
THEOREM CaseInvariant == Spec => [](CaseInv /\ LateBounded)
<1>1. Init => CaseInv /\ LateBounded
  <2> SUFFICES ASSUME Init PROVE CaseInv /\ LateBounded
    OBVIOUS
  <2>1. TaskOK(task)
    <3>1. pc \notin Activities /\ task = NoTask
      BY DEF Init, Activities, Reading
    <3>2. AttemptOK(NoTask) /\ Concluded(NoTask)
      BY NoAttempt DEF AttemptOK, Concluded
    <3>3. QED
      BY <3>1, <3>2, NoAttempt DEF TaskOK
  <2>2. RunOK
    <3>1. condition \in [Conditions -> {"NONE", "OPEN", "RESOLVED"}] /\ cleared \in BOOLEAN
      BY DEF Init
    <3>2. QED
      BY <3>1, CaseWorkflowAssumption, SMTT(30) DEF Init, RunOK, CaseStatus, Waits, Running
  <2>3. ReadyIsJustified /\ EndIsAnnounced /\ RecoveryFollowsFailure
    BY DEF Init, ReadyIsJustified, EndIsAnnounced, RecoveryFollowsFailure
  <2>4. late = {} /\ LateBounded
    BY FS_EmptySet, CaseWorkflowAssumption, SMTT(30) DEF Init, LateBounded
  <2>5. QED
    BY <2>1, <2>2, <2>3, <2>4 DEF CaseInv
<1>2. QED
  BY <1>1, CaseStep, LateStep, PTL DEF Spec

(* Type correctness: the case, the latest execution and its attempts keep   *)
(* their types, and no more attempts run late than the bound allows.        *)
THEOREM CaseTypeCorrect == Spec => []TypeOK
<1>1. CaseInv /\ LateBounded => TypeOK
  BY DEF CaseInv, LateBounded, RunOK, TaskOK, LateOK, AttemptOK, AttemptType, TypeOK
<1>2. QED
  BY <1>1, CaseInvariant, PTL

(* Whatever is retried, cancelled, recovered, escalated or committed late,  *)
(* a case is ready for underwriting only because an evaluation found no     *)
(* condition to open or because a condition was resolved                    *)
(* (conditions.workflow.ts, conditions.activities.ts).                      *)
THEOREM ReadyAlwaysJustified == Spec => []ReadyIsJustified
<1>1. CaseInv => ReadyIsJustified
  BY DEF CaseInv
<1>2. QED
  BY <1>1, CaseInvariant, PTL

(* A run that Temporal shows as completed has written its verdict to the    *)
(* outbox, a cancelled one its cancellation: no failure, abandoned attempt  *)
(* or restart lets a run end unannounced (conditions.activities.ts).        *)
THEOREM EndAlwaysAnnounced == Spec => []EndIsAnnounced
<1>1. CaseInv => EndIsAnnounced
  BY DEF CaseInv
<1>2. QED
  BY <1>1, CaseInvariant, PTL

(* recoverWorkflow never replays a completed run, however the status it     *)
(* checked has changed before its start arrives (cases.service.ts).         *)
THEOREM RecoveryAlwaysFollowsFailure == Spec => []RecoveryFollowsFailure
<1>1. CaseInv => RecoveryFollowsFailure
  BY DEF CaseInv
<1>2. QED
  BY <1>1, CaseInvariant, PTL

-----------------------------------------------------------------------------
(***************************************************************************)
(* LoanEvaluation.                                                         *)
(***************************************************************************)

(* What the rules may be asked about.                                       *)
Applications == [type : LoanTypes, amount : Nat, plaid : Nat, credit : Nat, documents : Nat]

Employments == {"FULL_TIME", "PART_TIME", "SELF_EMPLOYED", "UNEMPLOYED"}

Contexts ==
  [type : LoanTypes, score : Int, dti : Int, marks : Nat, employment : Employments,
   stability : Int, amount : Nat, annual : Int, failed : Nat]

(* Context b is at least as good as c in every respect that the rules see. *)
NoWorse(b, c) ==
  /\ b.type = c.type /\ b.annual = c.annual
  /\ b.score >= c.score /\ b.dti <= c.dti
  /\ b.amount <= c.amount /\ b.failed <= c.failed /\ b.marks <= c.marks
  /\ b.employment \in {c.employment, "FULL_TIME"}

(* A decision with the conditions that it must have.                        *)
Coherent(r) == r.decision \in Decisions /\ (r.decision = "CONDITIONAL") = (r.conditions > 0)

LoanInv ==
  /\ application \in Applications
  /\ lstep = "deciding" => fetched = Integrations
  /\ lstep \in {"saving", "answered"} =>
       /\ fetched = Integrations /\ Coherent(result)
       /\ underwriter = "rules" => result.decision = RulesDecision(Context(application)).decision
  /\ loanRow = IF lstep = "answered" THEN result ELSE NoResult

-----------------------------------------------------------------------------
LEMMA FailedDocuments == \A s \in Nat : DocumentData(s).failed \in Nat
<1> TAKE s \in Nat
<1> DEFINE F == {limit \in {150, 120, 100, 200} : s <= limit}
<1>1. IsFiniteSet(100..200)
  <2>1. 100 \in Int /\ 200 \in Int
    BY SMTT(30)
  <2> QED BY <2>1, FS_Interval
<1>2. F \subseteq 100..200
  BY SMTT(30)
<1>3. Cardinality(F) \in Nat
  BY <1>1, <1>2, FS_Subset, FS_CardinalityType
<1> QED BY <1>3 DEF DocumentData

LEMMA ContextTyped == \A a \in Applications : Context(a) \in Contexts
<1> TAKE a \in Applications
<1>1. a.type \in LoanTypes /\ a.amount \in Nat /\ a.plaid \in Nat /\ a.credit \in Nat /\ a.documents \in Nat
  BY DEF Applications
<1>2. \A s \in Nat : /\ 4000 + 21 * s \in Int /\ 55 + (45 * s) \div 1000 \in Int
                     /\ 580 + (240 * s) \div 1000 \in Int
                     /\ (18000 + 37 * s + 500) \div 1000 \in Int
                     /\ (3 * s) \div 1000 \in Nat
  BY SMTT(30)
<1>3. \A m \in Int : m * 12 \in Int
  BY SMTT(30)
<1>4. /\ IncomeData(a.plaid).monthly = 4000 + 21 * a.plaid
      /\ IncomeData(a.plaid).stability = 55 + (45 * a.plaid) \div 1000
      /\ IncomeData(a.plaid).employment = IF a.plaid < 334 THEN "FULL_TIME"
                                          ELSE IF a.plaid < 667 THEN "PART_TIME" ELSE "SELF_EMPLOYED"
  BY SMTT(30) DEF IncomeData
<1>5. /\ IncomeData(a.plaid).monthly * 12 \in Int /\ IncomeData(a.plaid).stability \in Int
      /\ IncomeData(a.plaid).employment \in Employments
  <2>1. IncomeData(a.plaid).monthly \in Int /\ IncomeData(a.plaid).stability \in Int
    BY <1>1, <1>2, <1>4, SMTT(30)
  <2>2. IncomeData(a.plaid).employment \in Employments
    BY <1>4, SMTT(30) DEF Employments
  <2> QED BY <1>3, <2>1, <2>2
<1>6. CreditData(a.credit).score \in Int /\ CreditData(a.credit).dti \in Int /\ CreditData(a.credit).marks \in Nat
  <2>1. /\ CreditData(a.credit).score = 580 + (240 * a.credit) \div 1000
        /\ CreditData(a.credit).dti = (18000 + 37 * a.credit + 500) \div 1000
        /\ CreditData(a.credit).marks = (3 * a.credit) \div 1000
    BY SMTT(30) DEF CreditData
  <2> QED BY <1>1, <1>2, <2>1, SMTT(30)
<1>7. DocumentData(a.documents).failed \in Nat
  BY <1>1, FailedDocuments
<1> QED BY <1>1, <1>5, <1>6, <1>7 DEF Context, Contexts

(* What a context lacks, a better one has no more of.                       *)
LEMMA NoWorseProblems ==
  ASSUME NEW b \in Contexts, NEW c \in Contexts, NoWorse(b, c)
  PROVE  /\ Problems(b) \subseteq Problems(c)
         /\ Problems(c) = {} => LoanConditions(b) \subseteq LoanConditions(c)
<1> DEFINE t == LoanThresholds(c.type)
<1>1. c.type \in LoanTypes /\ b.type = c.type /\ b.annual = c.annual
  BY DEF NoWorse, Contexts
<1>2. t.minScore \in Int /\ t.maxDti \in Int /\ t.maxLti \in Int
  BY <1>1, SMTT(30) DEF LoanThresholds, LoanTypes
<1> HIDE DEF t
<1>3. /\ b.score \in Int /\ b.dti \in Int /\ b.amount \in Nat /\ b.failed \in Nat /\ b.marks \in Nat
      /\ c.score \in Int /\ c.dti \in Int /\ c.amount \in Nat /\ c.failed \in Nat /\ c.marks \in Nat
      /\ c.annual \in Int
  BY DEF Contexts
<1>4. /\ b.score >= c.score /\ b.dti <= c.dti
      /\ b.amount <= c.amount /\ b.failed <= c.failed /\ b.marks <= c.marks
      /\ b.employment \in {c.employment, "FULL_TIME"}
  BY DEF NoWorse
<1>5. t.maxLti * c.annual \in Int
  BY <1>2, <1>3, SMTT(30)
<1>6. \A m \in Int : b.amount * 100 > m => c.amount * 100 > m
  BY <1>3, <1>4, SMTT(30)
<1>7. Problems(b) \subseteq Problems(c)
  <2>1. b.score < t.minScore => c.score < t.minScore
    BY <1>2, <1>3, <1>4, SMTT(30)
  <2>2. b.dti > t.maxDti => c.dti > t.maxDti
    BY <1>2, <1>3, <1>4, SMTT(30)
  <2>3. b.employment = "UNEMPLOYED" => c.employment = "UNEMPLOYED"
    BY <1>4
  <2>4. b.amount * 100 > t.maxLti * c.annual => c.amount * 100 > t.maxLti * c.annual
    BY <1>5, <1>6
  <2>5. (b.failed > 1 => c.failed > 1) /\ (b.marks >= 2 => c.marks >= 2)
    BY <1>3, <1>4, SMTT(30)
  <2> QED BY <1>1, <2>1, <2>2, <2>3, <2>4, <2>5 DEF Problems, t
<1>8. ASSUME Problems(c) = {}
      PROVE  LoanConditions(b) \subseteq LoanConditions(c)
  <2>1. "documents" \notin Problems(c) /\ "marks" \notin Problems(c)
    BY <1>8
  <2>2. ~(c.failed > 1) /\ ~(c.marks >= 2)
    BY <2>1 DEF Problems
  <2>3. (b.score < 700 => c.score < 700) /\ (b.dti > 43 => c.dti > 43)
    BY <1>3, <1>4, SMTT(30)
  <2>4. b.employment = "SELF_EMPLOYED" => c.employment = "SELF_EMPLOYED"
    BY <1>4
  <2>5. (b.failed = 1 => c.failed = 1) /\ (b.marks = 1 => c.marks = 1)
    BY <1>3, <1>4, <2>2, SMTT(30)
  <2> QED BY <2>3, <2>4, <2>5, SMTT(30) DEF LoanConditions
<1> QED BY <1>7, <1>8

(* A stronger application never fares worse, for any two contexts.         *)
LEMMA NoWorseFaresNoWorse ==
  ASSUME NEW b \in Contexts, NEW c \in Contexts, NoWorse(b, c)
  PROVE  Rank(RulesDecision(b).decision) >= Rank(RulesDecision(c).decision)
<1>1. \A x : RulesDecision(x).decision = IF Problems(x) # {} THEN "DENIED"
                                         ELSE IF LoanConditions(x) # {} THEN "CONDITIONAL" ELSE "APPROVED"
  BY DEF RulesDecision
<1>2. Rank("DENIED") = 0 /\ Rank("CONDITIONAL") = 1 /\ Rank("APPROVED") = 2
  BY DEF Rank
<1>3. CASE Problems(c) # {}
  <2>1. Rank(RulesDecision(c).decision) = 0
    BY <1>1, <1>2, <1>3
  <2>2. Rank(RulesDecision(b).decision) \in {0, 1, 2}
    BY <1>1, <1>2
  <2> QED BY <2>1, <2>2, SMTT(30)
<1>4. CASE Problems(c) = {}
  <2>1. Problems(b) = {} /\ LoanConditions(b) \subseteq LoanConditions(c)
    BY <1>4, NoWorseProblems
  <2>2. CASE LoanConditions(c) = {}
    <3>1. Rank(RulesDecision(c).decision) = 2 /\ Rank(RulesDecision(b).decision) = 2
      BY <1>1, <1>2, <1>4, <2>1, <2>2
    <3> QED BY <3>1, SMTT(30)
  <2>3. CASE LoanConditions(c) # {}
    <3>1. Rank(RulesDecision(c).decision) = 1 /\ Rank(RulesDecision(b).decision) \in {1, 2}
      BY <1>1, <1>2, <1>4, <2>1, <2>3
    <3> QED BY <3>1, SMTT(30)
  <2> QED BY <2>2, <2>3
<1> QED BY <1>3, <1>4

LEMMA ImprovementsAreNoWorse ==
  ASSUME NEW c \in Contexts, NEW b \in Improvements(c)
  PROVE  b \in Contexts /\ NoWorse(b, c)
<1>1. /\ c.score \in Int /\ c.dti \in Int /\ c.amount \in Nat /\ c.failed \in Nat /\ c.marks \in Nat
      /\ c.employment \in Employments
  BY DEF Contexts
<1>2. /\ c.score >= c.score /\ c.dti <= c.dti /\ c.amount <= c.amount
      /\ c.failed <= c.failed /\ c.marks <= c.marks
  BY <1>1, SMTT(30)
<1>3. CASE \E s \in {c.score + 1, c.score + 40} : b = [c EXCEPT !.score = s]
  <2>1. PICK s \in {c.score + 1, c.score + 40} : b = [c EXCEPT !.score = s]
    BY <1>3
  <2>2. s \in Int /\ s >= c.score
    BY <1>1, SMTT(30)
  <2> QED BY <1>2, <2>1, <2>2 DEF Contexts, NoWorse
<1>4. CASE \E d \in {c.dti - 1, c.dti - 7} : b = [c EXCEPT !.dti = d]
  <2>1. PICK d \in {c.dti - 1, c.dti - 7} : b = [c EXCEPT !.dti = d]
    BY <1>4
  <2>2. d \in Int /\ d <= c.dti
    BY <1>1, SMTT(30)
  <2> QED BY <1>2, <2>1, <2>2 DEF Contexts, NoWorse
<1>5. CASE b = [c EXCEPT !.amount = @ \div 2]
  <2>1. c.amount \div 2 \in Nat /\ c.amount \div 2 <= c.amount
    BY <1>1, SMTT(30)
  <2> QED BY <1>2, <1>5, <2>1 DEF Contexts, NoWorse
<1>6. CASE b = [c EXCEPT !.marks = 0]
  <2>1. 0 \in Nat /\ 0 <= c.marks
    BY <1>1, SMTT(30)
  <2> QED BY <1>2, <1>6, <2>1 DEF Contexts, NoWorse
<1>7. CASE b = [c EXCEPT !.failed = IF @ > 1 THEN 1 ELSE 0]
  <2> DEFINE f == IF c.failed > 1 THEN 1 ELSE 0
  <2>1. f \in Nat /\ f <= c.failed
    BY <1>1, SMTT(30)
  <2>2. b = [c EXCEPT !.failed = f]
    BY <1>7
  <2> HIDE DEF f
  <2> QED BY <1>2, <2>1, <2>2 DEF Contexts, NoWorse
<1>8. CASE b = [c EXCEPT !.employment = "FULL_TIME"]
  BY <1>2, <1>8 DEF Contexts, NoWorse, Employments
<1> QED BY <1>3, <1>4, <1>5, <1>6, <1>7, <1>8 DEF Improvements

(* The rules give a conditional decision exactly when they list conditions. *)
LEMMA RulesAreCoherent == \A c : Coherent(RulesDecision(c))
<1> TAKE c
<1>1. IsFiniteSet({"score", "dti", "self-employed", "documents", "marks"})
  <2>1. IsFiniteSet({}) BY FS_EmptySet
  <2>2. IsFiniteSet({} \cup {"score"}) BY <2>1, FS_AddElement
  <2>3. IsFiniteSet(({} \cup {"score"}) \cup {"dti"}) BY <2>2, FS_AddElement
  <2>4. IsFiniteSet((({} \cup {"score"}) \cup {"dti"}) \cup {"self-employed"}) BY <2>3, FS_AddElement
  <2>5. IsFiniteSet(((({} \cup {"score"}) \cup {"dti"}) \cup {"self-employed"}) \cup {"documents"})
    BY <2>4, FS_AddElement
  <2>6. IsFiniteSet((((({} \cup {"score"}) \cup {"dti"}) \cup {"self-employed"}) \cup {"documents"}) \cup {"marks"})
    BY <2>5, FS_AddElement
  <2>7. (((({} \cup {"score"}) \cup {"dti"}) \cup {"self-employed"}) \cup {"documents"}) \cup {"marks"}
          = {"score", "dti", "self-employed", "documents", "marks"}
    OBVIOUS
  <2> QED BY <2>6, <2>7
<1>2. IsFiniteSet(LoanConditions(c))
  BY <1>1, FS_Subset DEF LoanConditions
<1>3. Cardinality(LoanConditions(c)) \in Nat /\ (Cardinality(LoanConditions(c)) = 0) = (LoanConditions(c) = {})
  BY <1>2, FS_CardinalityType, FS_EmptySet
<1>4. LoanConditions(c) # {} => Cardinality(LoanConditions(c)) > 0
  BY <1>3, SMTT(30)
<1>5. CASE Problems(c) # {}
  <2>1. RulesDecision(c).decision = "DENIED" /\ RulesDecision(c).conditions = 0
    BY <1>5 DEF RulesDecision
  <2>2. ~(RulesDecision(c).conditions > 0) /\ RulesDecision(c).decision # "CONDITIONAL"
    BY <2>1, SMTT(30)
  <2> QED BY <2>1, <2>2, SMTT(30) DEF Coherent, Decisions
<1>6. CASE Problems(c) = {} /\ LoanConditions(c) # {}
  BY <1>4, <1>6 DEF RulesDecision, Coherent, Decisions
<1>7. CASE Problems(c) = {} /\ LoanConditions(c) = {}
  <2>1. RulesDecision(c).decision = "APPROVED" /\ RulesDecision(c).conditions = 0
    BY <1>7 DEF RulesDecision
  <2>2. ~(RulesDecision(c).conditions > 0) /\ RulesDecision(c).decision # "CONDITIONAL"
    BY <2>1, SMTT(30)
  <2> QED BY <2>1, <2>2, SMTT(30) DEF Coherent, Decisions
<1> QED BY <1>5, <1>6, <1>7

-----------------------------------------------------------------------------
LEMMA LoanStarts == LoanInit => LoanInv
<1>1. 0 \in Nat
  BY SMTT(30)
<1>2. NoApplication \in Applications
  BY <1>1 DEF NoApplication, Applications, LoanTypes
<1> QED BY <1>2 DEF LoanInit, LoanInv

LEMMA LoanFails ==
  ASSUME LoanInv, Fails, lstep # "answered"
  PROVE  LoanInv'
BY DEF LoanInv, Fails

LEMMA LoanKept ==
  ASSUME LoanInv, [LoanNext]_loanVars
  PROVE  LoanInv'
<1> USE DEF LoanInv
<1>1. CASE EvaluateLoan
  <2>1. application' \in Applications
    BY <1>1, LoanAssumption DEF EvaluateLoan, Applications
  <2> QED BY <1>1, <2>1 DEF EvaluateLoan
<1>2. CASE \E i \in Integrations : FetchIntegration(i)
  <2>1. PICK i \in Integrations : FetchIntegration(i)
    BY <1>2
  <2>2. CASE Fails
    BY <2>1, <2>2, LoanFails DEF FetchIntegration
  <2>3. CASE ~Fails
    BY <2>1, <2>3 DEF FetchIntegration
  <2> QED BY <2>2, <2>3
<1>3. CASE DecideByRules
  <2>1. /\ result'.decision = RulesDecision(Context(application)).decision
        /\ result'.conditions = RulesDecision(Context(application)).conditions
    BY <1>3 DEF DecideByRules, Assembled
  <2>2. Coherent(result)'
    BY <2>1, RulesAreCoherent DEF Coherent
  <2> QED BY <1>3, <2>1, <2>2 DEF DecideByRules
<1>4. CASE AskModel
  <2>1. CASE Fails
    BY <1>4, <2>1, LoanFails DEF AskModel
  <2>2. CASE ~Fails
    <3>1. PICK r \in Replies : /\ ParseModelResponse(r)
                               /\ result' = Assembled(r)
                               /\ lstep' = "saving"
                               /\ UNCHANGED <<underwriter, application, fetched, loanRow>>
      BY <1>4, <2>2 DEF AskModel
    <3>2. result'.decision = r.decision /\ result'.conditions = r.conditions
      BY <3>1 DEF Assembled
    <3>3. Coherent(result)'
      BY <3>1, <3>2 DEF ParseModelResponse, Coherent
    <3> QED BY <1>4, <3>1, <3>3 DEF AskModel
  <2> QED BY <2>1, <2>2
<1>5. CASE SaveApplication
  <2>1. CASE Fails
    BY <1>5, <2>1, LoanFails DEF SaveApplication
  <2>2. CASE ~Fails
    BY <1>5, <2>2 DEF SaveApplication, Coherent
  <2> QED BY <2>1, <2>2
<1>6. CASE UNCHANGED loanVars
  BY <1>6 DEF loanVars, Coherent
<1> QED BY <1>1, <1>2, <1>3, <1>4, <1>5, <1>6 DEF LoanNext

LEMMA LoanInvSuffices == LoanInv => LoansAreDecidedOnce
<1> SUFFICES ASSUME LoanInv PROVE LoansAreDecidedOnce
  OBVIOUS
<1> USE DEF LoanInv
<1>1. RulesAreMonotone
  <2> SUFFICES ASSUME lstep = "saving", underwriter = "rules",
                      NEW b \in Improvements(Context(application))
               PROVE  /\ Rank(RulesDecision(b).decision) >= Rank(result.decision)
                      /\ \A e \in Improvements(b) :
                           Rank(RulesDecision(e).decision) >= Rank(RulesDecision(b).decision)
    BY DEF RulesAreMonotone
  <2>1. Context(application) \in Contexts
    BY ContextTyped
  <2>2. b \in Contexts /\ NoWorse(b, Context(application))
    BY <2>1, ImprovementsAreNoWorse
  <2>3. Rank(RulesDecision(b).decision) >= Rank(RulesDecision(Context(application)).decision)
    BY <2>1, <2>2, NoWorseFaresNoWorse
  <2>4. \A e \in Improvements(b) : e \in Contexts /\ NoWorse(e, b)
    BY <2>2, ImprovementsAreNoWorse
  <2>5. \A e \in Improvements(b) : Rank(RulesDecision(e).decision) >= Rank(RulesDecision(b).decision)
    BY <2>2, <2>4, NoWorseFaresNoWorse
  <2> QED BY <2>3, <2>5
<1>2. RecordIsCoherent
  BY DEF RecordIsCoherent, Coherent
<1>3. AnswerIsOnRecord
  BY DEF AnswerIsOnRecord
<1> QED BY <1>1, <1>2, <1>3 DEF LoansAreDecidedOnce

(* A stronger application never fares worse under the rules, whatever the  *)
(* seeds and the amounts; whichever underwriter decided, an application on *)
(* record has conditions exactly when its decision is conditional, and an  *)
(* answer is given only for one on record with the same decision.          *)
THEOREM LoansAlwaysDecidedOnce == LoanSpec => []LoansAreDecidedOnce
<1>1. LoanInit => LoanInv
  BY LoanStarts
<1>2. LoanInv /\ [LoanNext]_loanVars => LoanInv'
  BY LoanKept
<1>3. LoanInv => LoansAreDecidedOnce
  BY LoanInvSuffices
<1> QED BY <1>1, <1>2, <1>3, PTL DEF LoanSpec

-----------------------------------------------------------------------------
(***************************************************************************)
(* ConsoleSession.                                                         *)
(***************************************************************************)

CallKinds == {"loadOidc", "loadDemo", "create", "newCase", "logout", "close"}

Sandboxes == [tenant : GuestTenants \cup {None}, case : GuestTenants \cup {None}]

(* The page's part of the types, and what a call carries.                  *)
CallsType == calls \subseteq [kind : CallKinds, tenant : GuestTenants \cup {None}]

(* A sandbox session or hint names a case of its own tenant, if any.       *)
OwnCase(session) == session.case # None => session.case = session.tenant

Startup == {k \in calls : k.kind \in {"loadOidc", "loadDemo"}}

(* While the page is checking at most one fetch is out, a startup fetch;   *)
(* otherwise none of those is.                                             *)
CheckingInv ==
    /\ \A k \in Startup : page = "checking" /\ Startup = {k}
    /\ page = "checking" => calls \subseteq Startup

Excused == lateAnswer \/ \E k \in calls : k.kind = "logout"

(* Rows and queries are of the credential the connected page has now.      *)
RowsOwn ==
    /\ page # "connected" => cache = {} /\ queries = {}
    /\ page = "connected" /\ ~Excused => cache \cup queries \subseteq {Credential}

SessionInv ==
    /\ ConsoleTypeOK /\ CallsType
    /\ OwnCase(demo) /\ OwnCase(hint)
    /\ CheckingInv /\ RowsOwn

-----------------------------------------------------------------------------
LEMMA SmallCache == \A S, x : S \subseteq {x} => ~(Cardinality(S) > 1)
<1> SUFFICES ASSUME NEW S, NEW x, S \subseteq {x} PROVE ~(Cardinality(S) > 1)
  OBVIOUS
<1>1. S = {} \/ S = {x}
  OBVIOUS
<1>2. Cardinality(S) = 0 \/ Cardinality(S) = 1
  BY <1>1, FS_EmptySet, FS_Singleton
<1> QED BY <1>2, SMTT(30)

LEMMA SessionInvSuffices == SessionInv => PageShowsOneTenant
<1> SUFFICES ASSUME SessionInv PROVE PageShowsOneTenant
  OBVIOUS
<1>1. ConsoleTypeOK /\ ResumedCaseIsOwn
  BY DEF SessionInv, ResumedCaseIsOwn, OwnCase
<1>2. ASSUME ~Excused
      PROVE  cache \cup queries \subseteq {Credential}
  BY <1>2 DEF SessionInv, RowsOwn
<1>3. MixedOnlyByLateSignOut
  BY <1>2, SmallCache DEF MixedOnlyByLateSignOut, Excused
<1> QED BY <1>1, <1>3 DEF PageShowsOneTenant

LEMMA SessionStarts == ConsoleInit => SessionInv
<1> SUFFICES ASSUME ConsoleInit PROVE SessionInv
  OBVIOUS
<1>1. NoSandbox \in Sandboxes /\ OwnCase(NoSandbox)
  BY DEF NoSandbox, Sandboxes, OwnCase
<1>2. ConsoleTypeOK
  BY <1>1 DEF ConsoleInit, ConsoleTypeOK, Sandboxes, Screens
<1>3. CallsType /\ CheckingInv
  <2>1. Call("loadOidc") \in [kind : CallKinds, tenant : GuestTenants \cup {None}]
    BY DEF Call, CallKinds
  <2>2. calls = {Call("loadOidc")} /\ page = "checking"
    BY DEF ConsoleInit
  <2>3. Startup = {Call("loadOidc")}
    <3>1. Call("loadOidc").kind = "loadOidc"
      BY DEF Call
    <3> QED BY <2>2, <3>1 DEF Startup
  <2> QED BY <2>1, <2>2, <2>3 DEF CallsType, CheckingInv
<1>4. RowsOwn
  BY DEF ConsoleInit, RowsOwn
<1> QED BY <1>1, <1>2, <1>3, <1>4 DEF SessionInv, ConsoleInit

-----------------------------------------------------------------------------
(* The types.                                                              *)

LEMMA StoreTyped ==
  ASSUME SessionInv, NEW t \in GuestTenants, NEW c \in {None, t},
         store([tenant |-> t, case |-> c])
  PROVE  /\ demo' \in Sandboxes /\ hint' \in Sandboxes /\ selectedCase' \in GuestTenants \cup {None}
         /\ OwnCase(demo') /\ OwnCase(hint')
<1> DEFINE s == [tenant |-> t, case |-> c]
<1>1. hint \in Sandboxes /\ OwnCase(hint)
  BY DEF SessionInv, ConsoleTypeOK, Sandboxes
<1>2. s.tenant = t /\ s.case = c
  OBVIOUS
<1>3. HintedCase(s) \in {None, t}
  BY <1>1, <1>2 DEF HintedCase, OwnCase
<1>4. demo' = [tenant |-> t, case |-> HintedCase(s)] /\ hint' = demo' /\ selectedCase' = HintedCase(s)
  <2>1. [s EXCEPT !.case = HintedCase(s)] = [tenant |-> t, case |-> HintedCase(s)]
    BY SMTT(30)
  <2> QED BY <2>1 DEF store
<1> QED BY <1>3, <1>4 DEF Sandboxes, OwnCase

LEMMA LoadsTyped ==
  ASSUME SessionInv, PageLoads,
         token' \in {None, BearerTenant}, oidcTenant' \in OidcTenants \cup {None},
         hint' = hint, ssoCookie' \in BOOLEAN, guestCookie' = guestCookie, guestsMade' = guestsMade
  PROVE  SessionInv'
<1>1. NoSandbox \in Sandboxes /\ OwnCase(NoSandbox)
  BY DEF NoSandbox, Sandboxes, OwnCase
<1>2. ConsoleTypeOK'
  BY <1>1 DEF PageLoads, SessionInv, ConsoleTypeOK, Sandboxes, Screens
<1>3. CallsType' /\ CheckingInv'
  <2>1. Call("loadOidc") \in [kind : CallKinds, tenant : GuestTenants \cup {None}]
    BY DEF Call, CallKinds
  <2>2. calls' = {Call("loadOidc")} /\ page' = "checking"
    BY DEF PageLoads
  <2>3. Startup' = {Call("loadOidc")}
    <3>1. Call("loadOidc").kind = "loadOidc"
      BY DEF Call
    <3> QED BY <2>2, <3>1 DEF Startup
  <2> QED BY <2>1, <2>2, <2>3 DEF CallsType, CheckingInv
<1>4. RowsOwn'
  BY DEF PageLoads, RowsOwn
<1>5. OwnCase(demo)' /\ OwnCase(hint)'
  BY <1>1 DEF PageLoads, SessionInv, OwnCase
<1> QED BY <1>2, <1>3, <1>4, <1>5 DEF SessionInv
-----------------------------------------------------------------------------
(* The rows on the page.                                                   *)

LEMMA RowsEmpty ==
  ASSUME SessionInv, UNCHANGED resultVars, page # "connected"
  PROVE  RowsOwn'
BY DEF SessionInv, RowsOwn, resultVars

LEMMA RowsKept ==
  ASSUME SessionInv, UNCHANGED resultVars, page' = page, Credential' = Credential,
         Excused => Excused'
  PROVE  RowsOwn'
BY DEF SessionInv, RowsOwn, resultVars

(* An answer that drops credentials says that it came late, or is of a     *)
(* page that is not connected.                                             *)
LEMMA RowsExcused ==
  ASSUME SessionInv, UNCHANGED resultVars, page' = page, lateAnswer' = (lateAnswer \/ page = "connected")
  PROVE  RowsOwn'
BY DEF SessionInv, RowsOwn, resultVars, Excused

LEMMA CallDone ==
  ASSUME SessionInv, NEW k, calls' = calls \ {k}, page' = page
  PROVE  CallsType' /\ CheckingInv'
BY DEF SessionInv, CallsType, CheckingInv, Startup

LEMMA StartupDone ==
  ASSUME SessionInv, NEW k \in calls, k.kind \in {"loadOidc", "loadDemo"}, calls' = calls \ {k}
  PROVE  CallsType' /\ CheckingInv' /\ page = "checking"
<1>1. k \in Startup
  BY DEF Startup
<1>2. page = "checking" /\ Startup = {k}
  BY <1>1 DEF SessionInv, CheckingInv
<1>3. Startup' = {}
  BY <1>2 DEF Startup
<1> QED BY <1>2, <1>3 DEF SessionInv, CallsType, CheckingInv

LEMMA CallAdded ==
  ASSUME SessionInv, NEW k \in [kind : {"create", "newCase", "logout", "close"}, tenant : GuestTenants \cup {None}],
         calls' = calls \cup {k}, page # "checking", page' # "checking"
  PROVE  CallsType' /\ CheckingInv'
<1>1. k.kind \notin {"loadOidc", "loadDemo"} /\ k \in [kind : CallKinds, tenant : GuestTenants \cup {None}]
  BY DEF CallKinds
<1>2. Startup = {}
  BY DEF SessionInv, CheckingInv
<1>3. Startup' = {}
  BY <1>1, <1>2 DEF Startup
<1> QED BY <1>1, <1>3 DEF SessionInv, CallsType, CheckingInv

-----------------------------------------------------------------------------
(* Startup.                                                                *)

LEMMA OidcSessionLoadedKeeps ==
  ASSUME SessionInv, NEW k \in calls, OidcSessionLoaded(k)
  PROVE  SessionInv'
<1> USE DEF OidcSessionLoaded, storageVars, serverVars
<1>1. CallsType' /\ CheckingInv' /\ page = "checking"
  BY StartupDone
<1>2. RowsOwn'
  BY <1>1, RowsEmpty
<1>3. ConsoleTypeOK'
  BY DEF SessionInv, ConsoleTypeOK, Screens, resultVars
<1>4. OwnCase(demo)' /\ OwnCase(hint)'
  BY DEF SessionInv, OwnCase
<1> QED BY <1>1, <1>2, <1>3, <1>4 DEF SessionInv

LEMMA NoOidcSessionKeeps ==
  ASSUME SessionInv, NEW k \in calls, NoOidcSession(k)
  PROVE  SessionInv'
<1> USE DEF NoOidcSession, serverVars
<1> DEFINE l == [kind |-> "loadDemo", tenant |-> guestCookie]
<1>1. k \in Startup
  BY DEF Startup
<1>2. page = "checking" /\ Startup = {k}
  BY <1>1 DEF SessionInv, CheckingInv
<1>3. l \in [kind : CallKinds, tenant : GuestTenants \cup {None}] /\ l.kind = "loadDemo"
  BY DEF SessionInv, ConsoleTypeOK, CallKinds
<1>4. CallsType'
  BY <1>3 DEF SessionInv, CallsType
<1> HIDE DEF l
<1>5. calls' = (calls \ {k}) \cup {l}
  BY DEF l
<1>6. Startup' = {l}
  BY <1>2, <1>3, <1>5 DEF Startup
<1>7. CheckingInv'
  <2>1. calls \subseteq {k}
    BY <1>2 DEF SessionInv, CheckingInv
  <2> QED BY <1>2, <1>5, <1>6, <2>1 DEF CheckingInv
<1>8. RowsOwn'
  BY <1>2, RowsEmpty
<1>9. ConsoleTypeOK'
  BY DEF SessionInv, ConsoleTypeOK, resultVars
<1>10. OwnCase(demo)' /\ OwnCase(hint)'
  BY DEF SessionInv, OwnCase
<1> QED BY <1>4, <1>7, <1>8, <1>9, <1>10 DEF SessionInv

LEMMA AfterCheckTyped == AfterCheck \in Screens
BY DEF AfterCheck, Screens

LEMMA StartupFailsKeeps ==
  ASSUME SessionInv, NEW k \in calls, StartupFails(k)
  PROVE  SessionInv'
<1> USE DEF StartupFails, serverVars
<1>1. CallsType' /\ CheckingInv' /\ page = "checking"
  BY StartupDone
<1>2. RowsOwn'
  BY <1>1, RowsEmpty
<1>3. ConsoleTypeOK'
  BY AfterCheckTyped DEF SessionInv, ConsoleTypeOK, resultVars
<1>4. OwnCase(demo)' /\ OwnCase(hint)'
  BY DEF SessionInv, OwnCase
<1> QED BY <1>1, <1>2, <1>3, <1>4 DEF SessionInv

LEMMA SandboxLoadedKeeps ==
  ASSUME SessionInv, NEW k \in calls, SandboxLoaded(k)
  PROVE  SessionInv'
<1> USE DEF SandboxLoaded, serverVars
<1>1. CallsType' /\ CheckingInv' /\ page = "checking"
  BY StartupDone
<1>2. RowsOwn'
  BY <1>1, RowsEmpty
<1>3. k.tenant \in GuestTenants
  BY DEF SessionInv, CallsType
<1>4. /\ demo' \in Sandboxes /\ hint' \in Sandboxes /\ selectedCase' \in GuestTenants \cup {None}
      /\ OwnCase(demo') /\ OwnCase(hint')
  BY <1>3, StoreTyped
<1>5. ConsoleTypeOK'
  BY <1>4 DEF SessionInv, ConsoleTypeOK, Sandboxes, Screens, resultVars, AllTenants
<1>6. OwnCase(demo)' /\ OwnCase(hint)'
  BY <1>4 DEF OwnCase
<1> QED BY <1>1, <1>2, <1>5, <1>6 DEF SessionInv

LEMMA ClearedTyped ==
  ASSUME clearDemoSandbox
  PROVE  demo' \in Sandboxes /\ hint' \in Sandboxes /\ OwnCase(demo)' /\ OwnCase(hint)'
BY DEF clearDemoSandbox, NoSandbox, Sandboxes, OwnCase

LEMMA NoSandboxFoundKeeps ==
  ASSUME SessionInv, NEW k \in calls, NoSandboxFound(k)
  PROVE  SessionInv'
<1> USE DEF NoSandboxFound, serverVars
<1>1. CallsType' /\ CheckingInv' /\ page = "checking"
  BY StartupDone
<1>2. RowsOwn'
  BY <1>1, RowsEmpty
<1>3. ConsoleTypeOK'
  BY AfterCheckTyped, ClearedTyped DEF SessionInv, ConsoleTypeOK, Sandboxes, resultVars
<1> QED BY <1>1, <1>2, <1>3, ClearedTyped DEF SessionInv

-----------------------------------------------------------------------------
(* Connecting.                                                             *)

(* A page that connects has no rows yet.                                   *)
LEMMA ConnectKeeps ==
  ASSUME SessionInv, page \in {"connect", "selecting"}, Connected,
         token' \in {None, BearerTenant}, oidcTenant' \in OidcTenants \cup {None},
         UNCHANGED <<hint, serverVars, memoryVars, selectedCase, calls, resultVars>>
  PROVE  SessionInv'
<1> USE DEF Connected, serverVars, memoryVars
<1>1. RowsOwn'
  BY RowsEmpty
<1>2. CallsType' /\ CheckingInv'
  BY DEF SessionInv, CallsType, CheckingInv, Startup
<1>3. ConsoleTypeOK'
  BY DEF SessionInv, ConsoleTypeOK, Screens, resultVars
<1>4. OwnCase(demo)' /\ OwnCase(hint)'
  BY DEF SessionInv, OwnCase
<1> QED BY <1>1, <1>2, <1>3, <1>4 DEF SessionInv

LEMMA ConnectingKeeps ==
  ASSUME SessionInv, connectWithBearer \/ connectWithOidc \/ Reload \/ \E t \in OidcTenants : SelectTenant(t)
  PROVE  SessionInv'
<1>0. token \in {None, BearerTenant} /\ oidcTenant \in OidcTenants \cup {None} /\ ssoCookie \in BOOLEAN
  BY DEF SessionInv, ConsoleTypeOK
<1>1. CASE connectWithBearer
  BY <1>0, <1>1, ConnectKeeps DEF connectWithBearer
<1>2. CASE connectWithOidc
  BY <1>0, <1>2, LoadsTyped DEF connectWithOidc, storageVars
<1>3. CASE Reload
  BY <1>0, <1>3, LoadsTyped DEF Reload, storageVars, serverVars
<1>4. CASE \E t \in OidcTenants : SelectTenant(t)
  BY <1>0, <1>4, ConnectKeeps DEF SelectTenant
<1> QED BY <1>1, <1>2, <1>3, <1>4

(* A request is sent or refused, and nothing else changes.                 *)
LEMMA OnlyCallsKeeps ==
  ASSUME SessionInv, CallsType', CheckingInv', Excused => Excused',
         UNCHANGED <<storageVars, serverVars, memoryVars, page, resultVars, lateAnswer>>,
         selectedCase' \in AllTenants \cup {None}
  PROVE  SessionInv'
<1> USE DEF storageVars, serverVars, memoryVars
<1>1. Credential' = Credential
  BY DEF Credential, hasDemoSandbox, hasOidcSession
<1>2. RowsOwn'
  BY <1>1, RowsKept
<1>3. ConsoleTypeOK'
  BY DEF SessionInv, ConsoleTypeOK, resultVars, AllTenants
<1>4. OwnCase(demo)' /\ OwnCase(hint)'
  BY DEF SessionInv, OwnCase
<1> QED BY <1>2, <1>3, <1>4 DEF SessionInv

LEMMA StartSandboxKeeps ==
  ASSUME SessionInv, StartSandbox
  PROVE  SessionInv'
<1>1. Call("create") \in [kind : {"create", "newCase", "logout", "close"}, tenant : GuestTenants \cup {None}]
  BY DEF Call
<1>2. CallsType' /\ CheckingInv'
  BY <1>1, CallAdded DEF StartSandbox
<1>3. Excused => Excused'
  BY DEF StartSandbox, Excused
<1> QED BY <1>2, <1>3, OnlyCallsKeeps DEF StartSandbox, SessionInv, ConsoleTypeOK

LEMMA SandboxCreatedKeeps ==
  ASSUME SessionInv, NEW k \in calls, SandboxCreated(k)
  PROVE  SessionInv'
<1> USE DEF SandboxCreated, Connected
<1>1. PICK t \in GuestTenants \ guestsMade :
        /\ guestsMade' = guestsMade \cup {t}
        /\ guestCookie' = t
        /\ store([tenant |-> t, case |-> t])
  OBVIOUS
<1>2. /\ demo' \in Sandboxes /\ hint' \in Sandboxes /\ selectedCase' \in GuestTenants \cup {None}
      /\ OwnCase(demo') /\ OwnCase(hint')
  BY <1>1, StoreTyped
<1>3. RowsOwn'
  BY DEF RowsOwn
<1>4. CallsType' /\ CheckingInv'
  <2>1. page # "checking" /\ Startup = {}
    BY DEF SessionInv, CheckingInv, Startup
  <2>2. Startup' = {} /\ page' # "checking"
    BY <2>1 DEF Startup
  <2> QED BY <2>2 DEF SessionInv, CallsType, CheckingInv
<1>5. ConsoleTypeOK'
  BY <1>1, <1>2 DEF SessionInv, ConsoleTypeOK, Sandboxes, Screens, AllTenants
<1>6. OwnCase(demo)' /\ OwnCase(hint)'
  BY <1>2 DEF OwnCase
<1> QED BY <1>3, <1>4, <1>5, <1>6 DEF SessionInv

LEMMA SandboxRefusedKeeps ==
  ASSUME SessionInv, NEW k \in calls, SandboxRefused(k)
  PROVE  SessionInv'
<1>1. CallsType' /\ CheckingInv'
  BY CallDone DEF SandboxRefused
<1>2. Excused => Excused'
  BY DEF SandboxRefused, Excused
<1> QED BY <1>1, <1>2, OnlyCallsKeeps DEF SandboxRefused, SessionInv, ConsoleTypeOK

LEMMA NewSandboxCaseKeeps ==
  ASSUME SessionInv, NewSandboxCase
  PROVE  SessionInv'
<1>1. [kind |-> "newCase", tenant |-> guestCookie]
        \in [kind : {"create", "newCase", "logout", "close"}, tenant : GuestTenants \cup {None}]
  BY DEF SessionInv, ConsoleTypeOK
<1>2. CallsType' /\ CheckingInv'
  BY <1>1, CallAdded DEF NewSandboxCase
<1>3. Excused => Excused'
  BY DEF NewSandboxCase, Excused
<1> QED BY <1>2, <1>3, OnlyCallsKeeps DEF NewSandboxCase, SessionInv, ConsoleTypeOK

LEMMA SandboxCaseCreatedKeeps ==
  ASSUME SessionInv, NEW k \in calls, SandboxCaseCreated(k)
  PROVE  SessionInv'
<1>1. CallsType' /\ CheckingInv'
  BY CallDone DEF SandboxCaseCreated
<1>2. Excused => Excused'
  BY DEF SandboxCaseCreated, Excused
<1>3. selectedCase' \in AllTenants \cup {None}
  BY DEF SandboxCaseCreated, SessionInv, CallsType, ConsoleTypeOK, AllTenants
<1> QED BY <1>1, <1>2, <1>3, OnlyCallsKeeps DEF SandboxCaseCreated

-----------------------------------------------------------------------------
(* Disconnecting.                                                          *)

LEMMA DisconnectKeeps ==
  ASSUME SessionInv, disconnect
  PROVE  SessionInv'
<1> USE DEF disconnect, serverVars, clearGraphqlSessionCache
<1>1. RowsOwn'
  BY DEF RowsOwn
<1>2. demo' \in Sandboxes /\ hint' \in Sandboxes /\ OwnCase(demo)' /\ OwnCase(hint)'
  <2>1. CASE clearDemoSandbox
    BY <2>1, ClearedTyped
  <2>2. CASE UNCHANGED <<demo, hint>>
    BY <2>2 DEF SessionInv, ConsoleTypeOK, Sandboxes, OwnCase
  <2> QED BY <2>1, <2>2
<1>3. CallsType' /\ CheckingInv'
  <2>1. CASE calls' = calls \cup {Call("logout")}
    <3>1. Call("logout") \in [kind : {"create", "newCase", "logout", "close"}, tenant : GuestTenants \cup {None}]
      BY DEF Call
    <3> QED BY <2>1, <3>1, CallAdded
  <2>2. CASE calls' = calls \cup {[kind |-> "close", tenant |-> guestCookie]}
    <3>1. [kind |-> "close", tenant |-> guestCookie]
            \in [kind : {"create", "newCase", "logout", "close"}, tenant : GuestTenants \cup {None}]
      BY DEF SessionInv, ConsoleTypeOK
    <3> QED BY <2>2, <3>1, CallAdded
  <2>3. CASE UNCHANGED calls
    BY <2>3 DEF SessionInv, CallsType, CheckingInv, Startup
  <2> QED BY <2>1, <2>2, <2>3
<1>4. oidc' \in {{}, OidcTenants} /\ oidcTenant' \in OidcTenants \cup {None}
  BY DEF SessionInv, ConsoleTypeOK
<1>5. ConsoleTypeOK'
  BY <1>2, <1>4 DEF SessionInv, ConsoleTypeOK, Sandboxes, Screens, AllTenants
<1> QED BY <1>1, <1>2, <1>3, <1>5 DEF SessionInv

LEMMA LogoutLeavesKeeps ==
  ASSUME SessionInv, NEW k \in calls, LogoutLeaves(k)
  PROVE  SessionInv'
<1>1. token \in {None, BearerTenant}
  BY DEF SessionInv, ConsoleTypeOK
<1> QED BY <1>1, LoadsTyped DEF LogoutLeaves

LEMMA LogoutClearsKeeps ==
  ASSUME SessionInv, NEW k \in calls, LogoutClears(k)
  PROVE  SessionInv'
<1> USE DEF LogoutClears
<1>1. RowsOwn'
  BY RowsExcused
<1>2. CallsType' /\ CheckingInv'
  BY CallDone
<1>3. ConsoleTypeOK'
  BY DEF SessionInv, ConsoleTypeOK, resultVars
<1>4. OwnCase(demo)' /\ OwnCase(hint)'
  BY DEF SessionInv, OwnCase
<1> QED BY <1>1, <1>2, <1>3, <1>4 DEF SessionInv

LEMMA LogoutRefusedKeeps ==
  ASSUME SessionInv, NEW k \in calls, LogoutRefused(k)
  PROVE  SessionInv'
<1> USE DEF LogoutRefused, storageVars, serverVars, memoryVars
<1>1. RowsOwn'
  BY RowsExcused
<1>2. CallsType' /\ CheckingInv'
  BY CallDone
<1>3. ConsoleTypeOK'
  BY DEF SessionInv, ConsoleTypeOK, resultVars
<1>4. OwnCase(demo)' /\ OwnCase(hint)'
  BY DEF SessionInv, OwnCase
<1> QED BY <1>1, <1>2, <1>3, <1>4 DEF SessionInv

LEMMA SandboxClosedKeeps ==
  ASSUME SessionInv, NEW k \in calls, SandboxClosed(k)
  PROVE  SessionInv'
<1> USE DEF SandboxClosed
<1>1. RowsOwn'
  BY RowsExcused
<1>2. CallsType' /\ CheckingInv'
  BY CallDone
<1>3. ConsoleTypeOK'
  BY ClearedTyped DEF SessionInv, ConsoleTypeOK, Sandboxes, resultVars
<1> QED BY <1>1, <1>2, <1>3, ClearedTyped DEF SessionInv

-----------------------------------------------------------------------------
(* Queries, and the rest of the browser.                                   *)

LEMMA SendQueryKeeps ==
  ASSUME SessionInv, SendQuery
  PROVE  SessionInv'
<1> USE DEF SendQuery, storageVars, serverVars, memoryVars
<1>1. Credential' = Credential
  BY DEF Credential, hasDemoSandbox, hasOidcSession
<1>2. RowsOwn'
  BY <1>1 DEF SessionInv, RowsOwn, Excused
<1>3. Credential \in AllTenants
  <2>1. demo.tenant \in GuestTenants \cup {None}
    BY DEF SessionInv, ConsoleTypeOK
  <2>2. token \in {None, BearerTenant} /\ oidcTenant \in OidcTenants \cup {None}
    BY DEF SessionInv, ConsoleTypeOK
  <2> QED BY <2>1, <2>2 DEF Credential, AllTenants, hasDemoSandbox
<1>4. ConsoleTypeOK'
  BY <1>3 DEF SessionInv, ConsoleTypeOK
<1>5. CallsType' /\ CheckingInv'
  BY DEF SessionInv, CallsType, CheckingInv, Startup
<1>6. OwnCase(demo)' /\ OwnCase(hint)'
  BY DEF SessionInv, OwnCase
<1> QED BY <1>2, <1>4, <1>5, <1>6 DEF SessionInv

LEMMA QueryAnsweredKeeps ==
  ASSUME SessionInv, NEW t \in queries, QueryAnswered(t)
  PROVE  SessionInv'
<1> USE DEF QueryAnswered, storageVars, serverVars, memoryVars
<1>1. Credential' = Credential
  BY DEF Credential, hasDemoSandbox, hasOidcSession
<1>2. cache' \cup queries' = cache \cup queries
  OBVIOUS
<1>3. RowsOwn'
  BY <1>1, <1>2 DEF SessionInv, RowsOwn, Excused
<1>4. ConsoleTypeOK'
  BY <1>2 DEF SessionInv, ConsoleTypeOK
<1>5. CallsType' /\ CheckingInv'
  BY DEF SessionInv, CallsType, CheckingInv, Startup
<1>6. OwnCase(demo)' /\ OwnCase(hint)'
  BY DEF SessionInv, OwnCase
<1> QED BY <1>3, <1>4, <1>5, <1>6 DEF SessionInv

LEMMA BrowserKeeps ==
  ASSUME SessionInv, (\E t \in cache : SelectCase(t)) \/ OtherTabStartsSandbox \/ GuestCookieExpires
  PROVE  SessionInv'
<1>1. CASE \E t \in cache : SelectCase(t)
  <2>1. PICK t \in cache : SelectCase(t)
    BY <1>1
  <2>2. selectedCase' \in AllTenants \cup {None}
    BY <2>1 DEF SelectCase, SessionInv, ConsoleTypeOK
  <2>3. CallsType' /\ CheckingInv' /\ (Excused => Excused')
    BY <2>1 DEF SelectCase, SessionInv, CallsType, CheckingInv, Startup, Excused
  <2> QED BY <2>1, <2>2, <2>3, OnlyCallsKeeps DEF SelectCase
<1>2. CASE OtherTabStartsSandbox \/ GuestCookieExpires
  <2> USE DEF OtherTabStartsSandbox, GuestCookieExpires, storageVars, memoryVars
  <2>1. /\ hint' \in Sandboxes /\ OwnCase(hint)'
        /\ guestCookie' \in GuestTenants \cup {None} /\ guestsMade' \subseteq GuestTenants
    <3>1. CASE OtherTabStartsSandbox
      <4>1. PICK t \in GuestTenants \ guestsMade :
              guestsMade' = guestsMade \cup {t} /\ guestCookie' = t /\ hint' = [tenant |-> t, case |-> t]
        BY <3>1
      <4> QED BY <4>1 DEF SessionInv, ConsoleTypeOK, Sandboxes, OwnCase
    <3>2. CASE GuestCookieExpires
      BY <3>2 DEF SessionInv, ConsoleTypeOK, Sandboxes, OwnCase
    <3> QED BY <1>2, <3>1, <3>2
  <2>2. UNCHANGED <<token, oidcTenant, ssoCookie, oidc, demo, page, selectedCase, calls, resultVars, lateAnswer>>
    BY <1>2
  <2>3. Credential' = Credential
    BY <2>2 DEF Credential, hasDemoSandbox, hasOidcSession
  <2>4. RowsOwn'
    BY <2>2, <2>3, RowsKept DEF Excused
  <2>5. ConsoleTypeOK'
    BY <2>1, <2>2 DEF SessionInv, ConsoleTypeOK, Sandboxes, resultVars
  <2>6. CallsType' /\ CheckingInv' /\ OwnCase(demo)'
    BY <2>2 DEF SessionInv, CallsType, CheckingInv, Startup, OwnCase
  <2> QED BY <2>1, <2>4, <2>5, <2>6 DEF SessionInv
<1> QED BY <1>1, <1>2

LEMMA AnswerKeeps ==
  ASSUME SessionInv, NEW k \in calls, Answer(k)
  PROVE  SessionInv'
BY OidcSessionLoadedKeeps, NoOidcSessionKeeps, StartupFailsKeeps, SandboxLoadedKeeps,
   NoSandboxFoundKeeps, SandboxCreatedKeeps, SandboxRefusedKeeps, LogoutLeavesKeeps,
   LogoutClearsKeeps, LogoutRefusedKeeps, SandboxClosedKeeps, SandboxCaseCreatedKeeps DEF Answer

LEMMA SessionKept ==
  ASSUME SessionInv, [ConsoleNext]_consoleVars
  PROVE  SessionInv'
<1>1. CASE \E k \in calls : Answer(k)
  BY <1>1, AnswerKeeps
<1>2. CASE ConsoleNext /\ ~\E k \in calls : Answer(k)
  BY <1>2, ConnectingKeeps, StartSandboxKeeps, NewSandboxCaseKeeps, DisconnectKeeps,
     SendQueryKeeps, QueryAnsweredKeeps, BrowserKeeps DEF ConsoleNext
<1>3. CASE UNCHANGED consoleVars
  <2>1. UNCHANGED <<storageVars, serverVars, memoryVars, page, selectedCase, calls, resultVars, lateAnswer>>
    BY <1>3 DEF consoleVars
  <2>2. CallsType' /\ CheckingInv' /\ (Excused => Excused')
    BY <2>1 DEF SessionInv, CallsType, CheckingInv, Startup, Excused
  <2> QED BY <2>1, <2>2, OnlyCallsKeeps DEF SessionInv, ConsoleTypeOK
<1> QED BY <1>1, <1>2, <1>3

(* Whatever the user and the other tabs do while answers are under way: a  *)
(* returning guest lands on a case of the guest's own, and rows of two     *)
(* tenants meet on the page only by a late sign-out.                       *)
THEOREM PageAlwaysShowsOneTenant == ConsoleSpec => []PageShowsOneTenant
<1>1. ConsoleInit => SessionInv
  BY SessionStarts
<1>2. SessionInv /\ [ConsoleNext]_consoleVars => SessionInv'
  BY SessionKept
<1>3. SessionInv => PageShowsOneTenant
  BY SessionInvSuffices
<1> QED BY <1>1, <1>2, <1>3, PTL DEF ConsoleSpec
==============================================================================
