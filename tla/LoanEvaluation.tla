---------------------------- MODULE LoanEvaluation ----------------------------
(***************************************************************************)
(* The synchronous evaluation of a loan application: evaluateLoan          *)
(* (src/src/loan/loan.service.ts), the fan-out to the three integrations   *)
(* and the choice of underwriter (src/src/agent/agent.service.ts), the     *)
(* rules (rules-underwriter.service.ts) and the local model                *)
(* (ollama-underwriter.service.ts).                                        *)
(*                                                                         *)
(* The simulated integrations answer from a seed of the borrower, here a   *)
(* number of thousandths.  Ratios are in percent.                          *)
(***************************************************************************)
EXTENDS Integers, FiniteSets

CONSTANTS
  Seeds,    \* seeds of a simulator, in thousandths
  LoanSizes \* requested amounts

VARIABLES
  underwriter, \* DECISION_PROVIDER
  application, \* the input and the seeds of its borrower
  fetched,     \* integrations that have answered
  lstep,       \* where evaluateLoan is
  result,      \* what the underwriter decided
  loanRow     \* the row of loan_applications, if there is one

\* Seeds and amounts are natural numbers.
ASSUME LoanAssumption == Seeds \subseteq Nat /\ LoanSizes \subseteq Nat

loanVars == <<underwriter, application, fetched, lstep, result, loanRow>>

LoanTypes == {"CONVENTIONAL", "FHA", "VA", "JUMBO"}
Integrations == {"plaid", "credit", "documents"}
Decisions == {"DENIED", "CONDITIONAL", "APPROVED"}
NoResult == [decision |-> "PENDING", conditions |-> 0, verified |-> FALSE]
NoApplication == [type |-> "CONVENTIONAL", amount |-> 0, plaid |-> 0, credit |-> 0, documents |-> 0]

\* getIncomeData, getCreditData and verifyDocuments.
IncomeData(s) ==
  [monthly |-> 4000 + 21 * s,
   employment |-> IF s < 334 THEN "FULL_TIME" ELSE IF s < 667 THEN "PART_TIME" ELSE "SELF_EMPLOYED",
   stability |-> 55 + (45 * s) \div 1000]
CreditData(s) ==
  [score |-> 580 + (240 * s) \div 1000, dti |-> (18000 + 37 * s + 500) \div 1000,
   marks |-> (3 * s) \div 1000]
DocumentData(s) ==
  [failed |-> Cardinality({limit \in {150, 120, 100, 200} : s <= limit})]

\* What the rules look at.
Context(a) ==
  LET income == IncomeData(a.plaid)
      credit == CreditData(a.credit)
  IN [type |-> a.type, score |-> credit.score, dti |-> credit.dti, marks |-> credit.marks,
      employment |-> income.employment, stability |-> income.stability,
      amount |-> a.amount, annual |-> income.monthly * 12,
      failed |-> DocumentData(a.documents).failed]

LoanThresholds(type) ==
  CASE type = "FHA" -> [minScore |-> 580, maxDti |-> 57, maxLti |-> 500]
    [] type = "VA" -> [minScore |-> 0, maxDti |-> 41, maxLti |-> 500]
    [] type = "JUMBO" -> [minScore |-> 720, maxDti |-> 38, maxLti |-> 400]
    [] type = "CONVENTIONAL" -> [minScore |-> 620, maxDti |-> 50, maxLti |-> 450]

\* Checks that overlook a second mark.
ProblemsButMarks(c) ==
  LET t == LoanThresholds(c.type)
  IN {p \in {"score", "dti"} : \/ p = "score" /\ c.score < t.minScore
                               \/ p = "dti" /\ c.dti > t.maxDti}

Problems(c) ==
  LET t == LoanThresholds(c.type)
  IN {p \in {"score", "dti", "unemployed", "lti", "documents", "marks"} :
        \/ p = "score" /\ c.score < t.minScore
        \/ p = "dti" /\ c.dti > t.maxDti
        \/ p = "unemployed" /\ c.employment = "UNEMPLOYED"
        \/ p = "lti" /\ c.amount * 100 > t.maxLti * c.annual
        \/ p = "documents" /\ c.failed > 1
        \/ p = "marks" /\ c.marks >= 2}

\* The conditions of an application without a problem.
LoanConditions(c) ==
  {p \in {"score", "dti", "self-employed", "documents", "marks"} :
     \/ p = "score" /\ c.score < 700
     \/ p = "dti" /\ c.dti > 43
     \/ p = "self-employed" /\ c.employment = "SELF_EMPLOYED"
     \/ p = "documents" /\ c.failed = 1
     \/ p = "marks" /\ c.marks = 1}

\* RulesUnderwriterService.evaluate
RulesDecision(c) ==
  IF Problems(c) # {} THEN [decision |-> "DENIED", conditions |-> 0]
  ELSE IF LoanConditions(c) # {}
       THEN [decision |-> "CONDITIONAL", conditions |-> Cardinality(LoanConditions(c))]
       ELSE [decision |-> "APPROVED", conditions |-> 0]

LoanInit ==
  /\ underwriter \in {"rules", "ollama"} /\ application = NoApplication
  /\ fetched = {} /\ lstep = "idle" /\ result = NoResult /\ loanRow = NoResult

Fails == lstep' = "error" /\ UNCHANGED <<underwriter, application, fetched, result, loanRow>>

\* The resolver passes a validated input on.
EvaluateLoan ==
  /\ lstep = "idle"
  /\ application' \in [type : LoanTypes, amount : LoanSizes,
                       plaid : Seeds, credit : Seeds, documents : Seeds]
  /\ lstep' = "fetching"
  /\ UNCHANGED <<underwriter, fetched, result, loanRow>>

\* Promise.all: the first failure ends the evaluation.
FetchIntegration(i) ==
  /\ lstep = "fetching" /\ i \notin fetched
  /\ \/ /\ fetched' = fetched \cup {i}
        /\ lstep' = IF fetched' = Integrations THEN "deciding" ELSE lstep
        /\ UNCHANGED <<underwriter, application, result, loanRow>>
     \/ Fails

\* The assembled result; incomeVerified comes from the income data alone.
Assembled(d) ==
  LET income == IncomeData(application.plaid)
  IN [decision |-> d.decision, conditions |-> d.conditions,
      verified |-> income.employment # "UNEMPLOYED" /\ income.stability > 60]

DecideByRules ==
  /\ lstep = "deciding" /\ underwriter = "rules"
  /\ result' = Assembled(RulesDecision(Context(application)))
  /\ lstep' = "saving"
  /\ UNCHANGED <<underwriter, application, fetched, loanRow>>

\* What the model may send back: any decision, well formed or not, with
\* any number of conditions.
Replies == [decision : Decisions \cup {"PENDING"}, conditions : 0..2, wellFormed : BOOLEAN]

\* A parser that checks the fields one by one.
FieldsAreValid(r) == r.wellFormed /\ r.decision \in Decisions

\* parseModelResponse
ParseModelResponse(r) ==
  /\ r.wellFormed /\ r.decision \in Decisions
  /\ (r.decision = "CONDITIONAL") = (r.conditions > 0)

\* The request to the model: it answers, or is aborted by the timeout,
\* unreachable, or sends something else than a message.
AskModel ==
  /\ lstep = "deciding" /\ underwriter = "ollama"
  /\ \/ \E r \in Replies :
          /\ ParseModelResponse(r)
          /\ result' = Assembled(r)
          /\ lstep' = "saving"
          /\ UNCHANGED <<underwriter, application, fetched, loanRow>>
     \/ Fails

\* An answer given before the row is written.
AnswerUnsaved ==
  /\ lstep = "saving"
  /\ lstep' = "answered"
  /\ UNCHANGED <<underwriter, application, fetched, result, loanRow>>

SaveApplication ==
  /\ lstep = "saving"
  /\ \/ /\ loanRow' = result /\ lstep' = "answered"
        /\ UNCHANGED <<underwriter, application, fetched, result>>
     \/ Fails

LoanNext ==
  \/ EvaluateLoan \/ \E i \in Integrations : FetchIntegration(i)
  \/ DecideByRules \/ AskModel \/ SaveApplication

LoanSpec == LoanInit /\ [][LoanNext]_loanVars
-----------------------------------------------------------------------------
Rank(d) == CASE d = "DENIED" -> 0 [] d = "CONDITIONAL" -> 1 [] d = "APPROVED" -> 2

\* The contexts that are better than c in one respect.
Improvements(c) ==
  {[c EXCEPT !.score = s] : s \in {c.score + 1, c.score + 40}}
    \cup {[c EXCEPT !.dti = d] : d \in {c.dti - 1, c.dti - 7}}
    \cup {[c EXCEPT !.amount = @ \div 2], [c EXCEPT !.marks = 0],
          [c EXCEPT !.failed = IF @ > 1 THEN 1 ELSE 0], [c EXCEPT !.employment = "FULL_TIME"]}

\* A stronger application never fares worse under the rules, of whatever
\* loan type: the thresholds of problems and conditions fit together.
RulesAreMonotone ==
  lstep = "saving" /\ underwriter = "rules" =>
    \A b \in Improvements(Context(application)) :
      /\ Rank(RulesDecision(b).decision) >= Rank(result.decision)
      /\ \A e \in Improvements(b) :
           Rank(RulesDecision(e).decision) >= Rank(RulesDecision(b).decision)

\* Whichever underwriter decided, a recorded application has conditions
\* exactly when its decision is conditional, and it is a decision.
RecordIsCoherent ==
  loanRow # NoResult =>
    loanRow.decision \in Decisions /\ (loanRow.decision = "CONDITIONAL") = (loanRow.conditions > 0)

\* An answer is given only for an application that is on record with the
\* same decision, and an error leaves none behind.
AnswerIsOnRecord ==
  /\ lstep = "answered" => loanRow = result /\ fetched = Integrations
  /\ lstep = "error" => loanRow = NoResult

\* The decision of an application is made once: what the rules say is
\* consistent between applications, and what is answered is what is kept
\* (rules-underwriter.service.ts, loan.service.ts).
LoansAreDecidedOnce == RulesAreMonotone /\ RecordIsCoherent /\ AnswerIsOnRecord
==============================================================================
