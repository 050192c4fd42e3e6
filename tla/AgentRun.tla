------------------------------ MODULE AgentRun ------------------------------
(***************************************************************************)
(* Attempts of the evaluateConditions activity of one workflow run, each   *)
(* of them a bounded Agent run over the budget ledger of AgentBudgetLedger *)
(* (src/src/agent-runtime/langgraph/lending-operations-agent-runtime.ts,   *)
(* src/src/workflows/case-conditions.activities.ts).                       *)
(*                                                                         *)
(* Temporal starts a new attempt when the current one throws or times out. *)
(* Nothing stops an attempt that timed out: it keeps taking steps next to  *)
(* its successors (a crashed worker is an attempt that takes no further    *)
(* step).  All attempts share the case row, the ledger of the run and the  *)
(* recorded model invocations; everything else is local to an attempt.     *)
(*                                                                         *)
(* The graph is a straight line, so the number of attempted tools in an    *)
(* idempotency key is determined by the node: a key is a case version and  *)
(* a node.                                                                 *)
(***************************************************************************)
EXTENDS AgentBudgetLedger

CONSTANTS
  Run,            \* the workflow run; its ledger
  Planner,        \* TRUE when the optional model step is configured
  MaxAttempts,    \* bound: attempts over the whole workflow run
  MaxTries,       \* Temporal's maximumAttempts per activity
  MaxVersion,     \* bound: case versions an attempt may start from
  DeadlineMayPass \* bound: FALSE to look at runs that stay in time

Node == {"check_case_completeness", "agent_planner", "evaluate_policy",
         "resolve_outcome", "create_condition", "draft_information_request"}
Attempts == 1..MaxAttempts
CaseVersions == 1..MaxVersion

StepUnit == [step |-> 1, token |-> 0, providerCall |-> 0, cost |-> 0]
PlannerUnits == [step |-> 1, token |-> 1, providerCall |-> 0, cost |-> 0]
UnitsOf(n) == IF n = "agent_planner" THEN PlannerUnits ELSE StepUnit

(* The tools whose sideEffect is not NONE.                                  *)
SideEffecting ==
  {"evaluate_policy", "create_condition", "draft_information_request"}

ASSUME AgentRunAssumption ==
  /\ Run \in Ledgers
  /\ Planner \in BOOLEAN
  /\ MaxAttempts \in Nat \ {0}
  /\ MaxTries \in 1..MaxAttempts
  /\ MaxVersion \in Nat \ {0}
  /\ DeadlineMayPass \in BOOLEAN
  /\ Keys = CaseVersions \X Node
  /\ {StepUnit, PlannerUnits} \subseteq Claims
  /\ 0 \in Costs

VARIABLES
  caseVersion,  \* version column of the case row
  modelRecord,  \* per case version: the recorded planner decision
  executions,   \* per key: how often a tool took effect (agent_planner:
                \* how often the model gave a usable answer)
  conditions,   \* number of conditions opened by this workflow run
  workflow,     \* what the workflow does: EVALUATING, WAITING, FINISHED
  current,      \* the attempt Temporal waits for
  tries,        \* attempts of the current activity invocation
  resumed,      \* attempts of an evaluation resumed by a reviewer
  pc,           \* per attempt: the next step
  node,         \* per attempt: the graph node it is in
  seenCase,     \* per attempt: agentState.caseVersion
  seenLedger,   \* per attempt: agentState.budgetLedgerVersion
  seenSteps,    \* per attempt: agentState.remainingStepBudget
  receipt,      \* per attempt: status in the reservation receipt it holds
  invocation,   \* per attempt: what the last tool returned
  result,       \* per attempt: the route it ends with
  cause         \* per attempt: why it asked for review

sharedVars == <<caseVersion, modelRecord, executions, conditions>>
temporalVars == <<workflow, current, tries, resumed>>
localVars == <<pc, node, seenCase, seenLedger, seenSteps, receipt, invocation,
               result, cause>>
vars == <<ledgerVars, sharedVars, temporalVars, localVars>>

Running == {"lookup", "claim", "quarantine", "invoke", "write", "settle",
            "find", "plan", "persist", "settlePlan", "abandon", "record",
            "finalize"}
Outcomes == {"READY", "CONDITION_OPENED", "REVIEW_REQUIRED", "INTERRUPTED"}
Decisions == {"EVALUATE", "UNCERTAIN"}
Invocations == Decisions \cup {"SUCCESS", "FAILURE", "INCOMPLETE", "MATCH",
                               "CLEAR", "AMBIGUOUS", "STALE", "STALE_RACE"}
Causes == {"CONSENT", "BUDGET", "REPLAY", "TOOL", "STALE_RACE", "INCOMPLETE",
           "AMBIGUITY", "MODEL"}

Init ==
  /\ LedgerInit
  /\ caseVersion = 1
  /\ modelRecord = [v \in CaseVersions |-> "NONE"]
  /\ executions = [k \in Keys |-> 0]
  /\ conditions = 0
  /\ workflow = "EVALUATING"
  /\ current = 1
  /\ tries = 1
  /\ resumed = {}
  /\ pc = [a \in Attempts |-> IF a = 1 THEN "start" ELSE "idle"]
  /\ node = [a \in Attempts |-> "check_case_completeness"]
  /\ seenCase = [a \in Attempts |-> 1]
  /\ seenLedger = [a \in Attempts |-> 0]
  /\ seenSteps = [a \in Attempts |-> 0]
  /\ receipt = [a \in Attempts |-> "NONE"]
  /\ invocation = [a \in Attempts |-> "NONE"]
  /\ result = [a \in Attempts |-> "NONE"]
  /\ cause = [a \in Attempts |-> "NONE"]

-----------------------------------------------------------------------------
(***************************************************************************)
(* Local moves of an attempt.                                              *)
(***************************************************************************)
Key(a) == <<seenCase[a], node[a]>>
Row(a) == reservation[Run][Key(a)]

Goto(a, label) == pc' = [pc EXCEPT ![a] = label]

(* The run ends with a route; persistAgentRun comes next.                   *)
EndRun(a, route, why) ==
  /\ Goto(a, "record")
  /\ result' = [result EXCEPT ![a] = route]
  /\ cause' = [cause EXCEPT ![a] = why]

Enter(a, n) ==
  /\ Goto(a, "lookup")
  /\ node' = [node EXCEPT ![a] = n]
  /\ UNCHANGED <<result, cause>>

(* applyBudgetSnapshot: the ledger row as the transaction left it.          *)
ApplySnapshot(a) ==
  /\ seenLedger' = [seenLedger EXCEPT ![a] = version'[Run]]
  /\ seenSteps' = [seenSteps EXCEPT ![a] =
       limit'[Run]["step"] - used'[Run]["step"] - reserved'[Run]["step"]]

BudgetExceeded(a) == seenSteps[a] <= 0 \/ Run \in expired

-----------------------------------------------------------------------------
(***************************************************************************)
(* invokeBudgetedTool, consumeBudgetedRuntimeStep and the planner node     *)
(* reserve in two statements: a lookup of the key, then the conditional    *)
(* claim.  A local snapshot is applied at each receipt; the planner and    *)
(* the runtime step apply it later but do not read it in between.          *)
(***************************************************************************)

(* The consent status the activity read decides the first edge.             *)
VerifyConsent(a) ==
  \/ Enter(a, "check_case_completeness")
  \/ EndRun(a, "REVIEW_REQUIRED", "CONSENT") /\ UNCHANGED node

(* evaluateConditions reads the case, run() creates or loads the ledger and *)
(* verifyConsent is the first node.                                         *)
Start(a) ==
  /\ pc[a] = "start"
  /\ caseVersion \in CaseVersions
  /\ IF version[Run] = 0 THEN \E budget \in Limits : CreateOrLoad(Run, budget)
                         ELSE UNCHANGED ledgerVars
  /\ seenCase' = [seenCase EXCEPT ![a] = caseVersion]
  /\ ApplySnapshot(a)
  /\ VerifyConsent(a)
  /\ UNCHANGED <<sharedVars, temporalVars, receipt, invocation>>

(* Where an attempt goes with a receipt: a replayed side effect is          *)
(* quarantined instead of executed.                                         *)
AfterReceipt(n) == IF n = "agent_planner" THEN "find"
                   ELSE IF n = "resolve_outcome" THEN "settle" ELSE "invoke"

NeverQuarantine(n) == FALSE                      \* mutant of MustQuarantine
MustQuarantine(n) == n \in SideEffecting

Lookup(a) ==
  /\ pc[a] = "lookup"
  /\ \/ /\ node[a] # "agent_planner"
        /\ BudgetExceeded(a)
        /\ EndRun(a, "REVIEW_REQUIRED", "BUDGET")
        /\ UNCHANGED <<receipt, seenLedger, seenSteps>>
     \/ /\ node[a] = "agent_planner" \/ ~BudgetExceeded(a)
        /\ Row(a).status = "NONE"
        /\ Goto(a, "claim")
        /\ UNCHANGED <<result, cause, receipt, seenLedger, seenSteps>>
     \/ /\ node[a] = "agent_planner" \/ ~BudgetExceeded(a)
        /\ Row(a).status # "NONE"
        /\ receipt' = [receipt EXCEPT ![a] = Row(a).status]
        /\ seenLedger' = [seenLedger EXCEPT ![a] = version[Run]]
        /\ seenSteps' = [seenSteps EXCEPT ![a] = limit[Run]["step"]
             - used[Run]["step"] - reserved[Run]["step"]]
        /\ IF ~MustQuarantine(node[a])
             THEN Goto(a, AfterReceipt(node[a])) /\ UNCHANGED <<result, cause>>
           ELSE IF Row(a).status = "RESERVED"
             THEN Goto(a, "quarantine") /\ UNCHANGED <<result, cause>>
           ELSE EndRun(a, "REVIEW_REQUIRED", "REPLAY")
  /\ UNCHANGED <<ledgerVars, sharedVars, temporalVars, node, seenCase,
                 invocation>>

(* A claim that loses a race fails on the ledger version, before the unique *)
(* key could reject it.                                                     *)
Claim(a) ==
  /\ pc[a] = "claim"
  /\ \/ /\ Reserve(Run, Key(a), UnitsOf(node[a]), seenLedger[a])
        /\ receipt' = [receipt EXCEPT ![a] = "RESERVED"]
        /\ ApplySnapshot(a)
        /\ Goto(a, AfterReceipt(node[a]))
        /\ UNCHANGED <<result, cause>>
     \/ /\ ReserveOutcome(Run, UnitsOf(node[a]), seenLedger[a]) # "OK"
        /\ EndRun(a, "REVIEW_REQUIRED", "BUDGET")
        /\ UNCHANGED <<ledgerVars, receipt, seenLedger, seenSteps>>
  /\ UNCHANGED <<sharedVars, temporalVars, node, seenCase, invocation>>

Quarantine(a) ==
  /\ pc[a] = "quarantine"
  /\ \/ /\ MarkUnknown(Run, Key(a))
        /\ EndRun(a, "REVIEW_REQUIRED", "REPLAY")
     \/ /\ Row(a).status = "UNKNOWN"
        /\ EndRun(a, "REVIEW_REQUIRED", "REPLAY")
        /\ UNCHANGED ledgerVars
     \/ /\ Row(a).status \in Settled
        /\ EndRun(a, "REVIEW_REQUIRED", "BUDGET")
        /\ UNCHANGED ledgerVars
  /\ UNCHANGED <<sharedVars, temporalVars, node, seenCase, seenLedger,
                 seenSteps, receipt, invocation>>

-----------------------------------------------------------------------------
(***************************************************************************)
(* Tools.  invokeTool turns every exception into FAILURE, also one that is *)
(* raised after the tool's transaction has committed.                      *)
(***************************************************************************)
Executed(a) == executions' = [executions EXCEPT ![Key(a)] = @ + 1]
Returns(a, outcome) ==
  /\ invocation' = [invocation EXCEPT ![a] = outcome]
  /\ Goto(a, "settle")

CheckCaseCompleteness(a) ==
  /\ node[a] = "check_case_completeness"
  /\ \E outcome \in {"SUCCESS", "INCOMPLETE"} : Returns(a, outcome)
  /\ UNCHANGED executions

EvaluatePolicy(a) ==
  /\ node[a] = "evaluate_policy"
  /\ \E outcome \in {"MATCH", "CLEAR", "AMBIGUOUS", "FAILURE"} :
       Returns(a, outcome)
  /\ Executed(a)

DraftInformationRequest(a) ==
  /\ node[a] = "draft_information_request"
  /\ \E outcome \in {"SUCCESS", "FAILURE"} : Returns(a, outcome)
  /\ Executed(a)

(* The version check in front of create_condition's conditional UPDATE.     *)
CreateCondition(a) ==
  /\ node[a] = "create_condition"
  /\ IF caseVersion = seenCase[a]
       THEN Goto(a, "write") /\ UNCHANGED invocation
       ELSE Returns(a, "STALE")
  /\ UNCHANGED executions

Invoke(a) ==
  /\ pc[a] = "invoke"
  /\ \/ CheckCaseCompleteness(a)
     \/ EvaluatePolicy(a)
     \/ DraftInformationRequest(a)
     \/ CreateCondition(a)
     \/ Returns(a, "FAILURE") /\ UNCHANGED executions
  /\ UNCHANGED <<ledgerVars, caseVersion, modelRecord, conditions,
                 temporalVars, node, seenCase, seenLedger, seenSteps, receipt,
                 result, cause>>

(* create_condition inserts the condition and moves the case under its      *)
(* expected version; losing that race rolls both back.                      *)
Write(a) ==
  /\ pc[a] = "write"
  /\ \/ /\ caseVersion = seenCase[a]
        /\ caseVersion' = caseVersion + 1
        /\ conditions' = conditions + 1
        /\ Executed(a)
        /\ \E outcome \in {"SUCCESS", "FAILURE"} : Returns(a, outcome)
     \/ /\ caseVersion # seenCase[a]
        /\ Returns(a, "STALE_RACE")
        /\ UNCHANGED <<caseVersion, conditions, executions>>
  /\ UNCHANGED <<ledgerVars, modelRecord, temporalVars, node, seenCase,
                 seenLedger, seenSteps, receipt, result, cause>>

(* routeMandatoryReview to manual review, or to a resumable interrupt.      *)
Review(a, why) == EndRun(a, "REVIEW_REQUIRED", why) /\ UNCHANGED node
Interrupt(a, why) == EndRun(a, "INTERRUPTED", why) /\ UNCHANGED node

(* What each node does with the result of its tool.                         *)
AfterCompleteness(a) ==
  \/ /\ invocation[a] = "SUCCESS"
     /\ Enter(a, IF Planner THEN "agent_planner" ELSE "evaluate_policy")
  \/ invocation[a] = "INCOMPLETE" /\ Review(a, "INCOMPLETE")

AfterPolicy(a) ==
  \/ invocation[a] \in {"MATCH", "CLEAR"} /\ Enter(a, "resolve_outcome")
  \/ invocation[a] = "AMBIGUOUS" /\ Interrupt(a, "AMBIGUITY")

AfterOutcome(a) ==
  \/ invocation[a] = "MATCH" /\ Enter(a, "create_condition")
  \/ invocation[a] = "CLEAR" /\ EndRun(a, "READY", "NONE") /\ UNCHANGED node

AfterCondition(a) ==
  \/ invocation[a] = "SUCCESS" /\ Enter(a, "draft_information_request")
  \/ /\ invocation[a] = "STALE"
     /\ Goto(a, "thrown")
     /\ UNCHANGED <<node, result, cause>>

AfterDraft(a) ==
  /\ invocation[a] = "SUCCESS"
  /\ EndRun(a, "CONDITION_OPENED", "NONE")
  /\ UNCHANGED node

Continue(a) ==
  \/ /\ node[a] # "resolve_outcome"
     /\ \/ invocation[a] = "FAILURE" /\ Review(a, "TOOL")
        \/ invocation[a] = "STALE_RACE" /\ Review(a, "STALE_RACE")
  \/ node[a] = "check_case_completeness" /\ AfterCompleteness(a)
  \/ node[a] = "evaluate_policy" /\ AfterPolicy(a)
  \/ node[a] = "resolve_outcome" /\ AfterOutcome(a)
  \/ node[a] = "create_condition" /\ AfterCondition(a)
  \/ node[a] = "draft_information_request" /\ AfterDraft(a)

(* commit() of a live reservation; a committed one only returns its receipt *)
(* and a released one is an AgentBudgetError.                               *)
Settle(a) ==
  /\ pc[a] = "settle"
  /\ \/ Commit(Run, Key(a), 0) /\ ApplySnapshot(a) /\ Continue(a)
     \/ /\ Row(a).status = "COMMITTED"
        /\ UNCHANGED ledgerVars
        /\ ApplySnapshot(a)
        /\ Continue(a)
     \/ /\ Row(a).status = "RELEASED"
        /\ EndRun(a, "REVIEW_REQUIRED", "BUDGET")
        /\ UNCHANGED <<ledgerVars, node, seenLedger, seenSteps>>
  /\ UNCHANGED <<sharedVars, temporalVars, seenCase, receipt, invocation>>

-----------------------------------------------------------------------------
(***************************************************************************)
(* The optional planner node.                                              *)
(***************************************************************************)
Find(a) ==
  /\ pc[a] = "find"
  /\ LET record == modelRecord[seenCase[a]] IN
       \/ /\ record # "NONE"
          /\ invocation' = [invocation EXCEPT ![a] = record]
          /\ Goto(a, "settlePlan")
       \/ record = "NONE" /\ Goto(a, "plan") /\ UNCHANGED invocation
  /\ UNCHANGED <<ledgerVars, sharedVars, temporalVars, node, seenCase,
                 seenLedger, seenSteps, receipt, result, cause>>

(* planner.plan(): the model runs and answers, or its answer is unusable.   *)
Plan(a) ==
  /\ pc[a] = "plan"
  /\ \/ /\ \E decision \in Decisions :
             invocation' = [invocation EXCEPT ![a] = decision]
        /\ Executed(a)
        /\ Goto(a, "persist")
     \/ Goto(a, "abandon") /\ UNCHANGED <<invocation, executions>>
  /\ UNCHANGED <<ledgerVars, caseVersion, modelRecord, conditions,
                 temporalVars, node, seenCase, seenLedger, seenSteps, receipt,
                 result, cause>>

(* persistPlannerInvocation: the unique replay key keeps the first record   *)
(* and the loser adopts it.                                                 *)
Persist(a) ==
  /\ pc[a] = "persist"
  /\ LET record == modelRecord[seenCase[a]] IN
       \/ /\ record = "NONE"
          /\ modelRecord' =
               [modelRecord EXCEPT ![seenCase[a]] = invocation[a]]
          /\ UNCHANGED invocation
       \/ /\ record # "NONE"
          /\ invocation' = [invocation EXCEPT ![a] = record]
          /\ UNCHANGED modelRecord
  /\ Goto(a, "settlePlan")
  /\ UNCHANGED <<ledgerVars, caseVersion, executions, conditions,
                 temporalVars, node, seenCase, seenLedger, seenSteps, receipt,
                 result, cause>>

AfterPlan(a) ==
  \/ invocation[a] = "EVALUATE" /\ Enter(a, "evaluate_policy")
  \/ invocation[a] = "UNCERTAIN" /\ Interrupt(a, "MODEL")

SettlePlan(a) ==
  /\ pc[a] = "settlePlan"
  /\ \/ /\ receipt[a] = "COMMITTED"
        /\ AfterPlan(a)
        /\ UNCHANGED <<ledgerVars, seenLedger, seenSteps>>
     \/ /\ receipt[a] # "COMMITTED"
        /\ Commit(Run, Key(a), 0)
        /\ ApplySnapshot(a)
        /\ AfterPlan(a)
     \/ /\ receipt[a] # "COMMITTED"
        /\ Row(a).status = "COMMITTED"
        /\ UNCHANGED ledgerVars
        /\ ApplySnapshot(a)
        /\ AfterPlan(a)
     \/ /\ receipt[a] # "COMMITTED"
        /\ Row(a).status = "RELEASED"
        /\ Goto(a, "abandon")
        /\ UNCHANGED <<ledgerVars, node, seenLedger, seenSteps, result, cause>>
  /\ UNCHANGED <<sharedVars, temporalVars, seenCase, receipt, invocation>>

AbandonRowOnly(a) ==                                    \* mutant of Abandon
  /\ pc[a] = "abandon"
  /\ reservation' = [reservation EXCEPT
       ![Run][Key(a)] = Resolved(Row(a), "RELEASED", 0)]
  /\ EndRun(a, "REVIEW_REQUIRED", "TOOL")
  /\ UNCHANGED <<limit, used, reserved, version, expired, monthUsed,
                 monthReserved, authority, month, sharedVars, temporalVars,
                 node, seenCase, seenLedger, seenSteps, receipt, invocation>>

(* The catch block: release what this attempt saw as RESERVED.              *)
Abandon(a) ==
  /\ pc[a] = "abandon"
  /\ \/ /\ receipt[a] = "RESERVED"
        /\ Release(Run, Key(a))
        /\ EndRun(a, "REVIEW_REQUIRED", "TOOL")
     \/ /\ receipt[a] = "RESERVED" => Row(a).status = "RELEASED"
        /\ EndRun(a, "REVIEW_REQUIRED", "TOOL")
        /\ UNCHANGED ledgerVars
     \/ /\ receipt[a] = "RESERVED" /\ Row(a).status = "COMMITTED"
        /\ Goto(a, "thrown")
        /\ UNCHANGED <<ledgerVars, result, cause>>
  /\ UNCHANGED <<sharedVars, temporalVars, node, seenCase, seenLedger,
                 seenSteps, receipt, invocation>>

-----------------------------------------------------------------------------
(***************************************************************************)
(* The end of an attempt.                                                  *)
(***************************************************************************)

(* persistAgentRun; a READY route goes on to finalizeReadyForUnderwriting.  *)
Record(a) ==
  /\ pc[a] = "record"
  /\ Goto(a, IF result[a] = "READY" THEN "finalize" ELSE "done")
  /\ UNCHANGED <<ledgerVars, sharedVars, temporalVars, node, seenCase,
                 seenLedger, seenSteps, receipt, invocation, result, cause>>

Finalize(a) ==
  /\ pc[a] = "finalize"
  /\ IF caseVersion = seenCase[a]
       THEN caseVersion' = caseVersion + 1 /\ Goto(a, "done")
       ELSE UNCHANGED caseVersion /\ Goto(a, "thrown")
  /\ UNCHANGED <<ledgerVars, modelRecord, executions, conditions,
                 temporalVars, node, seenCase, seenLedger, seenSteps, receipt,
                 invocation, result, cause>>

(* A database or network error: the planner node catches it, everything     *)
(* else lets the activity attempt fail.                                     *)
Throw(a) ==
  /\ \/ /\ pc[a] \in {"start", "lookup", "claim", "quarantine", "settle",
                      "find", "abandon", "record", "finalize"}
        /\ Goto(a, "thrown")
     \/ pc[a] \in {"plan", "persist", "settlePlan"} /\ Goto(a, "abandon")
  /\ UNCHANGED <<ledgerVars, sharedVars, temporalVars, node, seenCase,
                 seenLedger, seenSteps, receipt, invocation, result, cause>>

Step(a) ==
  \/ Start(a) \/ Lookup(a) \/ Claim(a) \/ Quarantine(a) \/ Invoke(a)
  \/ Write(a) \/ Settle(a) \/ Find(a) \/ Plan(a) \/ Persist(a)
  \/ SettlePlan(a) \/ Abandon(a) \/ Record(a) \/ Finalize(a)

-----------------------------------------------------------------------------
(***************************************************************************)
(* Temporal and the workflow around the activity.                          *)
(***************************************************************************)

(* The current attempt threw, or its start-to-close timeout fires, whether  *)
(* the attempt is still running or its completion was not reported.         *)
Lost(a) == pc[a] \in Running \cup {"start", "thrown", "done"}

Begin(a, tryNumber, isResumed) ==
  /\ current' = a
  /\ tries' = tryNumber
  /\ resumed' = IF isResumed THEN resumed \cup {a} ELSE resumed
  /\ pc' = [pc EXCEPT ![a] = "start"]
  /\ UNCHANGED <<ledgerVars, sharedVars, node, seenCase, seenLedger,
                 seenSteps, receipt, invocation, result, cause>>

Retry ==
  /\ workflow = "EVALUATING"
  /\ Lost(current)
  /\ tries < MaxTries
  /\ Begin(current + 1, tries + 1, current \in resumed)
  /\ UNCHANGED workflow

(* Retries are exhausted: markManualReview.                                 *)
NeverGivesUp == FALSE /\ UNCHANGED vars                  \* mutant of GiveUp
GiveUp ==
  /\ workflow = "EVALUATING"
  /\ Lost(current)
  /\ tries >= MaxTries
  /\ workflow' = "FINISHED"
  /\ caseVersion' = caseVersion + 1
  /\ UNCHANGED <<ledgerVars, modelRecord, executions, conditions, current,
                 tries, resumed, localVars>>

(* The workflow takes the attempt's result: markWaitingForReview,           *)
(* markManualReview, or the end of this evaluation.                         *)
Accept ==
  /\ workflow = "EVALUATING"
  /\ pc[current] = "done"
  /\ workflow' = IF result[current] = "INTERRUPTED" THEN "WAITING"
                                                    ELSE "FINISHED"
  /\ caseVersion' = IF result[current] \in {"INTERRUPTED", "REVIEW_REQUIRED"}
                      THEN caseVersion + 1 ELSE caseVersion
  /\ UNCHANGED <<ledgerVars, modelRecord, executions, conditions, current,
                 tries, resumed, localVars>>

(* A reviewer resumes the interrupted evaluation, which starts over.        *)
Resume ==
  /\ workflow = "WAITING"
  /\ current + MaxTries <= MaxAttempts
  /\ workflow' = "EVALUATING"
  /\ Begin(current + 1, 1, TRUE)

(* Other writers of the case row.                                           *)
CaseChanges ==
  /\ caseVersion < MaxVersion
  /\ caseVersion' = caseVersion + 1
  /\ UNCHANGED <<ledgerVars, modelRecord, executions, conditions,
                 temporalVars, localVars>>

(* A reviewer reconciles a quarantined reservation.                         *)
ReviewerReconciles ==
  /\ \E k \in Keys : Reconcile(Run, k, 0)
  /\ UNCHANGED <<sharedVars, temporalVars, localVars>>

Expires ==
  /\ DeadlineMayPass
  /\ DeadlinePasses(Run)
  /\ UNCHANGED <<sharedVars, temporalVars, localVars>>

Next ==
  \/ \E a \in Attempts : Step(a) \/ Throw(a)
  \/ Retry \/ GiveUp \/ Accept \/ Resume
  \/ CaseChanges \/ ReviewerReconciles \/ Expires

(* Temporal delivers timeouts and results; a live worker keeps stepping the *)
(* current attempt (or the timeout replaces it).                            *)
Fairness == WF_vars(Retry \/ GiveUp) /\ WF_vars(Accept)

Spec == Init /\ [][Next]_vars /\ Fairness

-----------------------------------------------------------------------------
(***************************************************************************)
(* Properties.                                                             *)
(***************************************************************************)
(* Every variable keeps its type; in particular no attempt is started       *)
(* beyond the retry policy and no snapshot shows a negative step budget.    *)
TypeOK ==
  /\ LedgerTypeOK
  /\ caseVersion \in Nat
  /\ modelRecord \in [CaseVersions -> {"NONE"} \cup Decisions]
  /\ executions \in [Keys -> Nat]
  /\ conditions \in Nat
  /\ workflow \in {"EVALUATING", "WAITING", "FINISHED"}
  /\ current \in Attempts /\ tries \in Nat /\ resumed \subseteq Attempts
  /\ pc \in [Attempts -> Running \cup {"idle", "start", "done", "thrown"}]
  /\ node \in [Attempts -> Node]
  /\ seenCase \in [Attempts -> CaseVersions]
  /\ seenLedger \in [Attempts -> Nat]
  /\ seenSteps \in [Attempts -> Nat]
  /\ receipt \in [Attempts -> {"NONE"} \cup Live \cup Settled]
  /\ invocation \in [Attempts -> {"NONE"} \cup Invocations]
  /\ result \in [Attempts -> {"NONE"} \cup Outcomes]
  /\ cause \in [Attempts -> {"NONE"} \cup Causes]

(* "A replayed unfinished side effect is quarantined": whatever attempts    *)
(* overlap, throw, time out or are reconciled, a side-effecting tool runs   *)
(* at most once for its idempotency key.                                    *)
EffectOncePerKey ==
  \A k \in Keys : k[2] \in SideEffecting => executions[k] <= 1

(* Both at once, whatever attempts overlap, throw, time out or are          *)
(* reconciled (lending-operations-agent-runtime.ts,                         *)
(* agent-budget-ledger.service.ts).                                         *)
RunIsSafe == TypeOK /\ EffectOncePerKey

(* Every step of every attempt, and of the reviewer, is a transaction of    *)
(* the budget ledger or leaves the ledger alone, so that what is shown of   *)
(* the ledger holds for the Agent runtime on top of it.                     *)
ImplementsLedger ==
  LedgerInit /\ [][UNCHANGED ledgerVars \/ LedgerNext]_ledgerVars

(* An evaluation always comes to an end: Temporal's bounded retries lead to *)
(* a result, to a wait for a reviewer, or to manual review.                 *)
EvaluationEnds == workflow = "EVALUATING" ~> workflow # "EVALUATING"

(* Claim: "Workflow replay does not duplicate completed external effects":  *)
(* the attempts of one evaluation open at most one condition.               *)
OneConditionPerEvaluation == conditions <= 1

(* Claim: the same resumable interrupt, in time: when a reviewer resumes    *)
(* the evaluation, the deadline of the run it continues has not passed      *)
(* while the case waited for that reviewer.                                 *)
ResumeStartsInTime ==
  [][workflow = "WAITING" /\ workflow' = "EVALUATING"
       => Run \notin expired]_vars
=============================================================================
