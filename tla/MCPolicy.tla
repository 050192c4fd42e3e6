------------------------------ MODULE MCPolicy ------------------------------
(***************************************************************************)
(* The rules and the means of deciding, in four kinds of behaviours:       *)
(* "catalog", policy versions governed while cases are evaluated; "rule",  *)
(* one document of the rule language parsed and run; "loan", one           *)
(* application of the synchronous API; "ledger", two agent runs that share *)
(* the ceiling of a tenant.  The sides that are not in focus stay in their *)
(* initial state.                                                          *)
(***************************************************************************)
EXTENDS PolicyCatalog, AgentBudgetLedger, LoanEvaluation

CONSTANTS x1, x2, y1, y2, z1, z2

VARIABLES focus, doc, edits, ruling, outcome

ruleSide == <<doc, edits, ruling, outcome>>

MCPeople == {x1, x2}
MCEvaluators == {y1, y2}
MCOperators == {z1, z2}

-----------------------------------------------------------------------------
(* A state below a federal jurisdiction, and one the catalog does not cover. *)
MCJurisdiction ==
  [j \in {"US", "CA", "TX"} |->
     [parentCode |-> IF j = "US" THEN "null" ELSE "US", covered |-> j # "TX"]]
MCSource ==
  [s \in {"register", "code"} |->
     IF s = "code" THEN [jurisdictionCode |-> "CA", freshnessObjective |-> 2, mode |-> "CONNECTOR"]
     ELSE [jurisdictionCode |-> "US", freshnessObjective |-> 4, mode |-> "MANUAL"]]
MCVersion ==
  [v \in {"v1", "v2"} |->
     IF v = "v1" THEN [ruleId |-> "income", effectiveFrom |-> 0, effectiveTo |-> 2]
     ELSE [ruleId |-> "income", effectiveFrom |-> 1, effectiveTo |-> NoEnd]]
MCApplicability ==
  [v \in {"v1", "v2"} |->
     [jurisdictionCode |-> "CA", productCode |-> "CONVENTIONAL_MORTGAGE",
      transitionRule |-> IF v = "v1" THEN NoRule ELSE AsOfRule]]
MCCase ==
  [c \in {"c1"} |->
     [jurisdictionCode |-> "CA", productCode |-> "CONVENTIONAL_MORTGAGE", createdAt |-> 0]]

(* Four families of behaviours: a draft goes through every governance call, *)
(* which may be cut off; an approved version is released beside two         *)
(* concurrent evaluations; released and withdrawn beside one; and one       *)
(* evaluation beside one call, a revision, an assessment and a crash.       *)
Families ==
  \/ /\ release["v2"] = "DRAFT"
     /\ calls = 0 /\ revised = MaxRevisions /\ asked = MaxAsked
     /\ crashes = 0 /\ evaluations = MaxEvaluations
  \/ /\ release["v2"] = "PROPOSED" /\ revised = MaxRevisions /\ asked = MaxAsked /\ crashes = MaxCrashes
     /\ \/ calls = MaxCalls - 1 /\ evaluations = 0
        \/ calls = MaxCalls - 2 /\ evaluations = MaxEvaluations - 1
  \/ /\ release["v2"] = "PROPOSED"
     /\ calls = MaxCalls - 1 /\ revised = 0 /\ asked = 0
     /\ crashes = 0 /\ evaluations = MaxEvaluations - 1

-----------------------------------------------------------------------------
(* Two parallel runs share the ceiling of one tenant over two months.  A    *)
(* claim is one step, with or without a provider call that costs 1; a       *)
(* settlement may report cost 0 or 2.  A run has tokens for one of its two  *)
(* claims; the ceiling has room for the calls of both runs or of one, and   *)
(* may be lowered or disabled under live reservations.                      *)
UnitsOf(step, token, call, cost) ==
  [d \in {"step", "token", "providerCall", "cost"} |->
     CASE d = "step" -> step [] d = "token" -> token [] d = "providerCall" -> call [] d = "cost" -> cost]
Ceiling(on, runCalls, cost) ==
  [enabled |-> on, currency |-> "USD",
   limit |-> [d \in {"providerCall", "cost"} |-> IF d = "cost" THEN cost ELSE runCalls]]

MCLimits == {UnitsOf(2, 1, 2, 2)}
MCClaims == {UnitsOf(1, 0, 0, 0), UnitsOf(1, 1, 1, 1)}
MCAuthorities == {Ceiling(TRUE, 2, 3), Ceiling(TRUE, 1, 1), Ceiling(FALSE, 0, 0)}

R == INSTANCE PolicyRule WITH Amounts <- {-2, 0, 1, 2}, Thresholds <- {-50, 0, 50}, MaxFaults <- 2

-----------------------------------------------------------------------------
MCInit ==
  /\ focus \in {"catalog", "rule", "loan", "ledger"}
  /\ CatalogInit /\ Families /\ (focus # "catalog" => release["v2"] = "DRAFT" /\ bindings["c1"] = <<>>)
  /\ R!RuleInit
  /\ LoanInit /\ (focus # "loan" => underwriter = "rules")
  /\ LedgerInit /\ (focus # "ledger" => authority.enabled /\ authority.limit["cost"] = 3)

MCNext ==
  \/ /\ focus = "catalog" /\ CatalogNext
     /\ UNCHANGED <<focus, ruleSide, loanVars, ledgerVars>>
  \/ /\ focus = "rule" /\ R!RuleNext
     /\ UNCHANGED <<focus, vars, loanVars, ledgerVars>>
  \/ /\ focus = "loan" /\ LoanNext
     /\ UNCHANGED <<focus, vars, ruleSide, ledgerVars>>
  \/ /\ focus = "ledger" /\ LedgerNext
     /\ UNCHANGED <<focus, vars, ruleSide, loanVars>>

MCSpec == MCInit /\ [][MCNext]_<<focus, vars, ruleSide, loanVars, ledgerVars>>

(* Neither people, evaluators and operators nor runs and keys are told      *)
(* apart, and the two groups never move in one behaviour.                   *)
Symmetry == Permutations(MCPeople) \cup Permutations(MCEvaluators) \cup Permutations(MCOperators)

-----------------------------------------------------------------------------
(* parsePolicyRule lists every problem of a document it rejects, "never     *)
(* just the first", and a rule opens its condition exactly when two numbers *)
(* differ by more than its threshold, whatever their signs and up to the    *)
(* boundary itself (policy/dsl).                                            *)
RulesMeanWhatTheySay ==
  focus = "rule" => R!EveryProblemListed /\ R!OutcomeIsJustified

(* The counters of a run's ledger are what its reservation rows add up to,  *)
(* and a month's usage row is what the reservations charged to it add up    *)
(* to, over all runs of the tenant and although they settle after the month *)
(* ended: reserve, commit, release and markUnknown lose and duplicate       *)
(* nothing, and no counter becomes negative (agent-budget-ledger.service.ts). *)
BooksBalance == focus = "ledger" => LedgerTypeOK /\ LedgerBalances /\ MonthBalances
=============================================================================
