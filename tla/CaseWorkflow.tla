---------------------------- MODULE CaseWorkflow ----------------------------
(***************************************************************************)
(* The durable conditions workflow of one loan case with its activities    *)
(* (src/src/workflows) and the API calls that start, cancel, recover,      *)
(* signal and overrule it (src/src/cases/cases.service.ts).                *)
(*                                                                         *)
(* Temporal is external: at most one execution of a workflow id is open,   *)
(* an activity gets MaxTries attempts, and a workflow step follows the     *)
(* completion, the failure or the cancellation of what it waits for.  An   *)
(* attempt that times out, or whose workflow is cancelled, is not stopped: *)
(* it joins `late` and may still commit (proxyActivities leaves the        *)
(* cancellation type at TRY_CANCEL and no activity heartbeats).            *)
(*                                                                         *)
(* The version column of the case is only ever compared with the value     *)
(* read earlier, so a reader remembers whether the row is unchanged.  The  *)
(* five fetch activities write no case state and are one activity here;    *)
(* ProviderDispatch is about them, AgentRun about evaluateConditions.      *)
(***************************************************************************)
EXTENDS Integers, FiniteSets

CONSTANTS
  MaxTries,       \* maximumAttempts of the retry policies
  MaxRuns,        \* bound: executions of the workflow
  MaxConditions,  \* bound: conditions opened on the case
  MaxInterrupts,  \* bound: evaluations interrupted for review
  MaxLate         \* bound: abandoned attempts still running at a time

ASSUME CaseWorkflowAssumption ==
  /\ MaxTries \in Nat \ {0} /\ MaxRuns \in Nat \ {0}
  /\ MaxConditions \in Nat /\ MaxInterrupts \in Nat /\ MaxLate \in Nat

VARIABLES
  status,     \* loan_cases.status
  condition,  \* per condition: NONE, OPEN or RESOLVED
  runs,       \* executions started; the latest one has this number
  runStatus,  \* Temporal's status of the latest run
  before,     \* Temporal's status of the run before it
  recovers,   \* the latest run has a recoveryOfRunId
  outbox,     \* what the latest run has announced of its end: a verdict
              \* (the completed and the failed event), its cancellation
  pc,         \* the activity or the wait of the latest run
  target,     \* the condition it waits for, 0 when there is none
  tries,      \* attempts of its activity
  task,       \* the attempt it waits for
  late,       \* abandoned attempts that are still running
  resolution, \* a resolveCondition signal has arrived
  interruptResolution, \* a resumeInterruptedEvaluation signal is pending
  recovery,   \* a recoverWorkflow call that is about to start its run
  interrupts, \* evaluations interrupted
  cleared,    \* history: an evaluation found no condition to open
  published   \* history: an interruption reviewers have not answered yet

caseVars == <<status, condition>>
runVars == <<runs, before, recovers>>
signalVars == <<resolution, interruptResolution>>
historyVars == <<interrupts, cleared, published>>
vars == <<caseVars, runVars, runStatus, outbox, pc, target, tries, task, late, signalVars,
          recovery, historyVars>>

Conditions == 1..MaxConditions
CaseStatus == {"DRAFT", "COLLECTING_EVIDENCE", "CONDITIONS_OPEN",
               "WAITING_FOR_REVIEW", "READY_FOR_UNDERWRITING",
               "MANUAL_REVIEW"}
Reading == {"prepareWorkflowRecovery", "evaluateConditions",
            "markWorkflowCancelled"}
Activities == Reading \cup
  {"markCollectingEvidence", "fetchEvidence", "markWaitingForReview",
   "markManualReview", "resolveCondition", "markReadyForUnderwriting"}
Waits == {"waitResolution", "waitResume", "ended"}
Recoverable == {"CANCELLED", "FAILED"}

(* An attempt of an activity of run r, and what it reads: the version of    *)
(* the case row (fresh while that is unchanged), the open conditions,       *)
(* whether the case is ready.                                               *)
NewAttempt(act, r, c) ==
  [act |-> act, run |-> r, condition |-> c, late |-> FALSE,
   step |-> IF act \in Reading THEN "read" ELSE "write",
   fresh |-> FALSE, open |-> {}, ready |-> FALSE, answer |-> "NONE"]
NoTask == [NewAttempt("none", 0, 0) EXCEPT !.step = "done"]

Open == {c \in Conditions : condition[c] = "OPEN"}
Running == runStatus = "RUNNING"

Init ==
  /\ status = "DRAFT"
  /\ condition = [c \in Conditions |-> "NONE"]
  /\ runs = 0 /\ runStatus = "NONE" /\ before = "NONE" /\ recovers = FALSE
  /\ outbox = {}
  /\ pc = "ended" /\ target = 0 /\ tries = 0
  /\ task = NoTask /\ late = {}
  /\ resolution = FALSE /\ interruptResolution = FALSE
  /\ recovery = FALSE
  /\ interrupts = 0 /\ cleared = FALSE /\ published = FALSE

-----------------------------------------------------------------------------
(***************************************************************************)
(* Attempts.  Each commits one transaction; the ones in Reading look at    *)
(* the row in a statement or a transaction before it.                      *)
(***************************************************************************)
Stale(a) == [a EXCEPT !.fresh = FALSE]

(* The attempt a becomes b.  Nobody waits for the end of a late attempt.    *)
Becomes(a, b) ==
  IF ~a.late
    THEN task' = b /\ late' = late
    ELSE /\ task' = task
         /\ late' = (late \ {a}) \cup (IF b.step = "done" THEN {} ELSE {b})

(* The same with an UPDATE of the case row, which bumps its version.        *)
BecomesAndUpdates(a, b, newStatus) ==
  /\ status' = newStatus
  /\ IF ~a.late
       THEN task' = Stale(b) /\ late' = {Stale(x) : x \in late}
       ELSE /\ task' = Stale(task)
            /\ late' = {Stale(x) : x \in (late \ {a}) \cup
                          (IF b.step = "done" THEN {} ELSE {b})}

Answers(a, answer, c) ==
  [a EXCEPT !.step = "done", !.answer = answer, !.condition = c]
Emits(a, event) ==
  outbox' = IF a.run = runs THEN outbox \cup {event} ELSE outbox

Read(a) ==
  /\ a.step = "read"
  /\ Becomes(a, [a EXCEPT !.step = "write",
       !.fresh = a.act = "evaluateConditions",
       !.open = IF a.act = "prepareWorkflowRecovery" THEN Open ELSE {},
       !.ready = /\ a.act = "markWorkflowCancelled"
                 /\ status = "READY_FOR_UNDERWRITING"])
  /\ UNCHANGED <<caseVars, outbox, historyVars>>

(* An activity that sets the status whatever it was.                        *)
Marks(a, newStatus) ==
  /\ BecomesAndUpdates(a, Answers(a, "DONE", 0), newStatus)
  /\ UNCHANGED <<condition, interrupts, cleared>>

markCollectingEvidence(a) ==
  Marks(a, "COLLECTING_EVIDENCE") /\ UNCHANGED <<outbox, published>>
markManualReview(a) ==
  Marks(a, "MANUAL_REVIEW") /\ Emits(a, "verdict") /\ UNCHANGED published
markReadyForUnderwriting(a) ==
  /\ Marks(a, "READY_FOR_UNDERWRITING")
  /\ Emits(a, "verdict")
  /\ UNCHANGED published
markWaitingForReview(a) ==
  Marks(a, "WAITING_FOR_REVIEW") /\ published' = TRUE /\ UNCHANGED outbox

fetchEvidence(a) ==
  /\ Becomes(a, Answers(a, "DONE", 0))
  /\ UNCHANGED <<caseVars, outbox, historyVars>>

(* create_condition and finalizeReadyForUnderwriting compare the version.   *)
(* The draft that follows a condition may still send the run to review.  An *)
(* attempt with a stale version that finds a match, or none, throws.        *)
openCondition(a) ==
  /\ a.fresh
  /\ \E c \in Conditions, answer \in {"CONDITION_OPENED", "REVIEW_REQUIRED"} :
       /\ condition[c] = "NONE"
       /\ \A d \in Conditions : d < c => condition[d] # "NONE"
       /\ condition' = [condition EXCEPT ![c] = "OPEN"]
       /\ BecomesAndUpdates(a, Answers(a, answer, c), "CONDITIONS_OPEN")
  /\ UNCHANGED <<outbox, historyVars>>

findReady(a) ==
  /\ a.fresh
  /\ BecomesAndUpdates(a, Answers(a, "READY", 0), "READY_FOR_UNDERWRITING")
  /\ Emits(a, "verdict")
  /\ cleared' = TRUE
  /\ UNCHANGED <<condition, interrupts, published>>

leaveUndecided(a) ==
  /\ \/ /\ Becomes(a, Answers(a, "REVIEW_REQUIRED", 0))
        /\ UNCHANGED interrupts
     \/ /\ interrupts < MaxInterrupts
        /\ Becomes(a, Answers(a, "INTERRUPTED", 0))
        /\ interrupts' = interrupts + 1
  /\ UNCHANGED <<caseVars, outbox, cleared, published>>

evaluateConditions(a) == openCondition(a) \/ findReady(a) \/ leaveUndecided(a)

(* By id alone, whatever the condition's status is.                         *)
resolveCondition(a) ==
  /\ condition' = [condition EXCEPT ![a.condition] = "RESOLVED"]
  /\ Becomes(a, Answers(a, "DONE", 0))
  /\ UNCHANGED <<status, outbox, historyVars>>

PrepareUnchecked(a) ==                  \* mutant of prepareWorkflowRecovery
  /\ LET first == IF a.open = {} THEN 0 ELSE CHOOSE c \in a.open : TRUE
     IN  BecomesAndUpdates(a, Answers(a, "REUSE_OPEN_CONDITION", first),
                           "CONDITIONS_OPEN")
  /\ UNCHANGED <<condition, outbox, historyVars>>

prepareWorkflowRecovery(a) ==
  /\ \/ \E c \in a.open :
          /\ a.open = {c}
          /\ BecomesAndUpdates(a, Answers(a, "REUSE_OPEN_CONDITION", c),
                               "CONDITIONS_OPEN")
     \/ /\ Cardinality(a.open) > 1
        /\ Becomes(a, Answers(a, "REVIEW_REQUIRED", 0))
        /\ UNCHANGED status
     \/ /\ a.open = {}
        /\ Becomes(a, Answers(a, "RESTART_COLLECTION", 0))
        /\ UNCHANGED status
  /\ UNCHANGED <<condition, outbox, historyVars>>

(* The status is read and then updated, without a lock or a version.        *)
markWorkflowCancelled(a) ==
  /\ IF a.ready
       THEN Becomes(a, Answers(a, "DONE", 0)) /\ UNCHANGED status
       ELSE BecomesAndUpdates(a, Answers(a, "DONE", 0), "MANUAL_REVIEW")
  /\ Emits(a, "cancelled")
  /\ UNCHANGED <<condition, historyVars>>

Write(a) ==
  /\ a.step = "write"
  /\ \/ a.act = "markCollectingEvidence" /\ markCollectingEvidence(a)
     \/ a.act = "fetchEvidence" /\ fetchEvidence(a)
     \/ a.act = "evaluateConditions" /\ evaluateConditions(a)
     \/ a.act = "markWaitingForReview" /\ markWaitingForReview(a)
     \/ a.act = "markManualReview" /\ markManualReview(a)
     \/ a.act = "resolveCondition" /\ resolveCondition(a)
     \/ a.act = "markReadyForUnderwriting" /\ markReadyForUnderwriting(a)
     \/ a.act = "prepareWorkflowRecovery" /\ prepareWorkflowRecovery(a)
     \/ a.act = "markWorkflowCancelled" /\ markWorkflowCancelled(a)

AttemptStep(a) ==
  /\ Read(a) \/ Write(a)
  /\ UNCHANGED <<runVars, runStatus, pc, target, tries, signalVars,
                 recovery>>

-----------------------------------------------------------------------------
(***************************************************************************)
(* The workflow function: what follows each activity and each wait.        *)
(***************************************************************************)
Schedule(act, c) ==
  /\ pc' = act
  /\ target' = c
  /\ tries' = 1
  /\ task' = NewAttempt(act, runs, c)
  /\ UNCHANGED runStatus

Wait(label, c) ==
  /\ pc' = label
  /\ target' = c
  /\ tries' = 0
  /\ task' = NoTask
  /\ UNCHANGED runStatus

End(endStatus) ==
  /\ runStatus' = endStatus
  /\ pc' = "ended"
  /\ target' = 0
  /\ tries' = 0
  /\ task' = NoTask

Then(act, answer) == pc = act /\ task.answer = answer

ReadyFirst ==                                      \* mutant of AfterActivity
  \/ Then("markCollectingEvidence", "DONE") /\ Schedule("fetchEvidence", 0)
  \/ Then("fetchEvidence", "DONE") /\ Schedule("evaluateConditions", 0)
  \/ Then("evaluateConditions", "CONDITION_OPENED")
     /\ Schedule("markReadyForUnderwriting", task.condition)
  \/ Then("markReadyForUnderwriting", "DONE") /\ Wait("waitResolution", target)
  \/ Then("resolveCondition", "DONE") /\ End("COMPLETED")

(* The evaluation loop's clear of interruptResolution is in Advance.        *)
AfterActivity ==
  \/ Then("prepareWorkflowRecovery", "REUSE_OPEN_CONDITION")
     /\ Wait("waitResolution", task.condition)
  \/ Then("prepareWorkflowRecovery", "REVIEW_REQUIRED")
     /\ Schedule("markManualReview", 0)
  \/ Then("prepareWorkflowRecovery", "RESTART_COLLECTION")
     /\ Schedule("markCollectingEvidence", 0)
  \/ Then("markCollectingEvidence", "DONE") /\ Schedule("fetchEvidence", 0)
  \/ Then("fetchEvidence", "DONE") /\ Schedule("evaluateConditions", 0)
  \/ Then("evaluateConditions", "INTERRUPTED")
     /\ Schedule("markWaitingForReview", 0)
  \/ Then("evaluateConditions", "REVIEW_REQUIRED")
     /\ Schedule("markManualReview", 0)
  \/ Then("evaluateConditions", "READY") /\ End("COMPLETED")
  \/ Then("evaluateConditions", "CONDITION_OPENED")
     /\ Wait("waitResolution", task.condition)
  \/ Then("markWaitingForReview", "DONE") /\ Wait("waitResume", 0)
  \/ Then("resolveCondition", "DONE")
     /\ Schedule("markReadyForUnderwriting", 0)
  \/ pc \in {"markReadyForUnderwriting", "markManualReview"}
     /\ End("COMPLETED")
  \/ pc = "markWorkflowCancelled" /\ End("CANCELLED")

ClearedAfterMarking == {"markWaitingForReview"}     \* mutant of ClearedAfter

(* A resumption signal from before the interruption is forgotten; after any *)
(* other evaluation it is never looked at again.                            *)
ClearedAfter == {"evaluateConditions"}

Advance ==
  /\ Running
  /\ pc \in Activities /\ task.step = "done"
  /\ AfterActivity
  /\ interruptResolution' = (interruptResolution /\ pc \notin ClearedAfter)
  /\ UNCHANGED <<caseVars, runVars, outbox, late, resolution,
                 recovery, historyVars>>

(* The two durable waits.                                                   *)
Resume ==
  /\ \/ /\ pc = "waitResolution" /\ resolution
        /\ Schedule("resolveCondition", target)
        /\ UNCHANGED interruptResolution
     \/ /\ pc = "waitResume" /\ interruptResolution
        /\ Schedule("evaluateConditions", 0)
        /\ interruptResolution' = FALSE
  /\ UNCHANGED <<caseVars, runVars, outbox, late, resolution,
                 recovery, historyVars>>

(* The attempt ended without an answer (it threw, or its worker died before *)
(* or after the commit), or it is abandoned while it still runs; a late     *)
(* fetch is left out, as it writes no case state.                           *)
Abandon ==
  \/ late' = late
  \/ /\ pc \in Activities \ {"fetchEvidence"} /\ task.step # "done"
     /\ Cardinality(late) < MaxLate
     /\ late' = late \cup {[task EXCEPT !.late = TRUE]}

Retry ==
  /\ Running
  /\ pc \in Activities /\ tries < MaxTries
  /\ Abandon
  /\ tries' = tries + 1
  /\ task' = NewAttempt(pc, runs, target)
  /\ UNCHANGED <<caseVars, runVars, runStatus, outbox, pc, target, signalVars,
                 recovery, historyVars>>

SwallowFailure ==                                  \* mutant of AfterFailure
  IF pc \in {"fetchEvidence", "evaluateConditions"}
    THEN Schedule("markManualReview", 0)
    ELSE End(IF pc = "markWorkflowCancelled" THEN "CANCELLED" ELSE "FAILED")

(* Collection and evaluation are in try blocks; any other failure, that of  *)
(* the cleanup after a cancellation included, fails the workflow.           *)
AfterFailure ==
  IF pc \in {"fetchEvidence", "evaluateConditions"}
    THEN Schedule("markManualReview", 0)
    ELSE End("FAILED")

(* Only a provider's answer (a rejection, a revoked grant, a disabled       *)
(* provider) is classified as not worth a retry.                            *)
Exhaust ==
  /\ Running
  /\ pc \in Activities
  /\ tries = MaxTries \/ pc = "fetchEvidence"
  /\ Abandon
  /\ AfterFailure
  /\ UNCHANGED <<caseVars, runVars, outbox, signalVars, recovery, historyVars>>

(* cancelWorkflow, from the moment the cancellation reaches the workflow at *)
(* whatever it awaits; a request that comes too late does nothing.  A catch *)
(* block that then schedules markManualReview is cancelled as well, and the *)
(* outer one runs the cleanup in a non-cancellable scope.                   *)
CancelWorkflow ==
  /\ Running
  /\ pc # "markWorkflowCancelled"
  /\ Abandon
  /\ Schedule("markWorkflowCancelled", 0)
  /\ UNCHANGED <<caseVars, runVars, outbox, signalVars, recovery, historyVars>>

WorkflowStep == Advance \/ Resume \/ Retry \/ Exhaust

-----------------------------------------------------------------------------
(***************************************************************************)
(* The API.                                                                *)
(***************************************************************************)
Execute(act, recovering) ==
  /\ runs < MaxRuns
  /\ runs' = runs + 1
  /\ runStatus' = "RUNNING"
  /\ before' = runStatus
  /\ recovers' = recovering
  /\ outbox' = {}
  /\ pc' = act /\ target' = 0 /\ tries' = 1
  /\ task' = NewAttempt(act, runs + 1, 0)
  /\ resolution' = FALSE /\ interruptResolution' = FALSE

(* A start while a run is open answers with that run and changes nothing.   *)
StartWorkflow ==
  /\ ~Running
  /\ Execute("markCollectingEvidence", FALSE)
  /\ UNCHANGED <<caseVars, late, recovery, historyVars>>

NothingStarted ==
  UNCHANGED <<runVars, runStatus, outbox, pc, target, tries, task, signalVars>>

(* recoverWorkflow reads the case, the run and the latest run, and awaits   *)
(* the start: what changes between the reads may as well change after them. *)
RecoverCheck ==
  /\ ~recovery
  /\ status # "READY_FOR_UNDERWRITING"
  /\ runStatus \in Recoverable
  /\ recovery' = TRUE
  /\ NothingStarted
  /\ UNCHANGED <<caseVars, late, historyVars>>

AnyClosed == ~Running                                \* mutant of ReuseAllowed

(* ALLOW_DUPLICATE_FAILED_ONLY.                                             *)
ReuseAllowed == runStatus \in Recoverable

RecoverStart ==
  /\ recovery
  /\ recovery' = FALSE
  /\ IF ReuseAllowed THEN Execute("prepareWorkflowRecovery", TRUE)
                     ELSE NothingStarted
  /\ UNCHANGED <<caseVars, late, historyVars>>

(* submitReview: a signal needs an open execution.                          *)
ResolveCondition ==
  /\ Running
  /\ ~resolution
  /\ resolution' = TRUE
  /\ UNCHANGED <<caseVars, runVars, runStatus, outbox, pc, target, tries, task,
                 late, interruptResolution, recovery,
                 historyVars>>

(* A signal from before the evaluation is one during it.                    *)
ResumeEvaluation ==
  /\ pc \in {"evaluateConditions", "markWaitingForReview", "waitResume"}
  /\ interruptResolution' = TRUE
  /\ published' = FALSE
  /\ UNCHANGED <<caseVars, runVars, runStatus, outbox, pc, target, tries, task,
                 late, resolution, recovery, interrupts,
                 cleared>>

Escalatable == {"DRAFT", "COLLECTING_EVIDENCE", "CONDITIONS_OPEN"}

(* The UPDATE succeeds only if the row is as it was read, so it is one step *)
(* with the read.  The run, if one is open, is not told.                    *)
Escalate ==
  /\ status \in Escalatable
  /\ status' = "WAITING_FOR_REVIEW"
  /\ task' = Stale(task)
  /\ late' = {Stale(x) : x \in late}
  /\ UNCHANGED <<condition, outbox, runVars, runStatus, pc, target, tries,
                 signalVars, recovery, historyVars>>

Next ==
  \/ \E a \in {task} \cup late : AttemptStep(a)
  \/ WorkflowStep
  \/ StartWorkflow \/ CancelWorkflow
  \/ RecoverCheck \/ RecoverStart
  \/ ResolveCondition \/ ResumeEvaluation
  \/ Escalate

(* An attempt is bounded by its timeout and a workflow step follows it;     *)
(* reviewers answer, once, what they are shown.                             *)
Proceed == AttemptStep(task) \/ WorkflowStep
AnswerWait == pc = "waitResolution" /\ ResolveCondition
AnswerInterrupt == published /\ ResumeEvaluation

Fairness == WF_vars(Proceed) /\ WF_vars(AnswerWait) /\ WF_vars(AnswerInterrupt)

Spec == Init /\ [][Next]_vars /\ Fairness

-----------------------------------------------------------------------------
(***************************************************************************)
(* Properties.                                                             *)
(***************************************************************************)

(* The case, the latest execution and the attempts keep their types.        *)
TypeOK ==
  /\ status \in CaseStatus
  /\ condition \in [Conditions -> {"NONE", "OPEN", "RESOLVED"}]
  /\ runs \in 0..MaxRuns
  /\ {runStatus, before} \subseteq
       {"NONE", "RUNNING", "COMPLETED"} \cup Recoverable
  /\ outbox \subseteq {"verdict", "cancelled"}
  /\ pc \in Activities \cup Waits /\ (Running <=> pc # "ended")
  /\ target \in 0..MaxConditions /\ tries \in 0..MaxTries
  /\ pc \in Activities => task.act = pc /\ task.run = runs
  /\ pc \in {"waitResolution", "resolveCondition"} => target \in Conditions
  /\ Cardinality(late) <= MaxLate
  /\ \A a \in late : a.act \in Activities /\ a.step \in {"read", "write"}
  /\ interrupts \in 0..MaxInterrupts

(* A case is ready only because an evaluation found no condition to open or *)
(* because a condition was resolved before: whatever is retried, cancelled, *)
(* recovered or committed late.                                             *)
ReadyIsJustified ==
  status = "READY_FOR_UNDERWRITING" =>
    cleared \/ \E c \in Conditions : condition[c] = "RESOLVED"

(* What Temporal shows and what subscribers are told agree: a completed run *)
(* has written the event of its verdict and a cancelled one its cancelled   *)
(* event ("the durable operational record cannot be lost"), although the    *)
(* event is the effect of an activity and the run's status is not.          *)
EndIsAnnounced ==
  /\ runStatus = "COMPLETED" => "verdict" \in outbox
  /\ runStatus = "CANCELLED" => "cancelled" \in outbox

(* "A completed approval path is never replayed": the run before a recovery *)
(* did not complete, even if someone starts another run between the checks  *)
(* of recoverWorkflow and its start.                                        *)
RecoveryFollowsFailure == recovers => before \in Recoverable

(* Every run ends, if a waiting run gets its resolution and reviewers       *)
(* answer each published interruption once: no answer is lost ("retained by *)
(* the handler and satisfies the durable wait"), whether it comes while the *)
(* activity that published it is being retried or next to a late attempt.   *)
RunEnds == Running ~> ~Running
=============================================================================
