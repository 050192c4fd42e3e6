------------------------------ MODULE PolicyRule ------------------------------
(***************************************************************************)
(* The rule language of a policy version: parsing a raw document           *)
(* (src/src/policy/dsl/policy-rule-parser.ts) and evaluating the parsed    *)
(* rule against the facts of a case (policy-rule-evaluator.ts).            *)
(*                                                                         *)
(* A raw document is a function from the paths the parser visits to the    *)
(* shape of the value found there.  An author edits it, it is parsed, and  *)
(* an accepted rule is evaluated.                                          *)
(***************************************************************************)
EXTENDS Integers, FiniteSets

CONSTANTS
  Amounts,    \* values of a numeric fact
  Thresholds, \* values of greater_than, in percent
  MaxFaults   \* bound: edits of a document

VARIABLES
  doc,     \* the raw document
  edits,   \* how often it was edited
  ruling,  \* what the parser made of it
  outcome  \* the evaluation of the accepted rule

ruleVars == <<doc, edits, ruling, outcome>>

Texts == {"rule.id", "applicability.product", "difference_percent.left",
          "difference_percent.right", "outcome.condition", "outcome.route"}
Lists == {"applicability.jurisdictions", "applicability.lifecycle_events"}
Objects == {"rule", "applicability", "difference_percent", "outcome"}
Paths == Texts \cup Lists \cup Objects \cup
  {"rule.version", "effective_from", "transition_rule", "when", "greater_than"}

\* What can be found at a path: a "text" is neither a semver nor a date, and
\* "one operator" is an object whose only key is difference_percent.
Shapes == {"absent", "text", "semver", "date", "blank", "number", "not finite",
           "list", "empty list", "list with a blank", "object",
           "one operator", "other operator", "two operators"}

Nonblank(v) == v \in {"text", "semver", "date"}
IsRecord(v) == v \in {"object", "one operator", "other operator", "two operators"}

\* The shapes that the require functions take at a path.
RequiredShape(f, v) ==
  CASE f \in Texts -> Nonblank(v)
    [] f \in Lists -> v = "list"
    [] f \in Objects -> IsRecord(v)
    [] f = "rule.version" -> v = "semver"
    [] f = "effective_from" -> v = "date"
    [] f = "transition_rule" -> v = "absent" \/ Nonblank(v)
    [] f = "when" -> v = "one operator"
    [] f = "greater_than" -> v = "number"

Wrong(f) == ~RequiredShape(f, doc[f])

\* An object whose fields are visited only once the object itself is right.
Visited(object, fields) == IF Wrong(object) THEN {object} ELSE {f \in fields : Wrong(f)}

ApplicabilityFields ==
  {"applicability.jurisdictions", "applicability.product", "applicability.lifecycle_events",
   "effective_from", "transition_rule"}
ParseApplicability == Visited("applicability", ApplicabilityFields)

ParseWhen ==
  IF Wrong("when") THEN {"when"}
  ELSE Visited("difference_percent",
         {"difference_percent.left", "difference_percent.right", "greater_than"})

ParseOutcome == Visited("outcome", {"outcome.condition", "outcome.route"})

\* A parser that stops at the first part with a problem.
FirstIssues ==
  LET own == {f \in {"rule.id", "rule.version"} : Wrong(f)}
  IN IF Wrong("rule") THEN {"rule"}
     ELSE IF own # {} THEN own
     ELSE IF ParseApplicability # {} THEN ParseApplicability
     ELSE ParseWhen \cup ParseOutcome

\* The paths of the issues that parsePolicyRule collects.
Issues ==
  IF Wrong("rule") THEN {"rule"}
  ELSE {f \in {"rule.id", "rule.version"} : Wrong(f)}
       \cup ParseApplicability \cup ParseWhen \cup ParseOutcome

\* It throws when a part it needs is undefined.
Accepted ==
  /\ ~Wrong("rule") /\ ~Wrong("rule.id") /\ ~Wrong("rule.version")
  /\ ParseApplicability \subseteq {"transition_rule"}
  /\ ParseWhen = {} /\ ParseOutcome = {}

WellFormed ==
  [f \in Paths |->
     CASE f \in Texts -> "text" [] f \in Lists -> "list" [] f \in Objects -> "object"
       [] f = "rule.version" -> "semver" [] f = "effective_from" -> "date"
       [] f = "transition_rule" -> "absent" [] f = "when" -> "one operator"
       [] f = "greater_than" -> "number"]

Unparsed == [accepted |-> FALSE, issues |-> {}, done |-> FALSE]
NotEvaluated == [matched |-> FALSE, left |-> "none", right |-> "none",
                 l |-> 0, r |-> 0, over |-> 0, done |-> FALSE]

RuleInit == doc = WellFormed /\ edits = 0 /\ ruling = Unparsed /\ outcome = NotEvaluated

EditDocument ==
  /\ edits < MaxFaults /\ ~ruling.done
  /\ \E f \in Paths, v \in Shapes :
       /\ v = "semver" => f = "rule.version"
       /\ doc' = [doc EXCEPT ![f] = v]
  /\ edits' = edits + 1
  /\ UNCHANGED <<ruling, outcome>>

ParsePolicyRule ==
  /\ ~ruling.done
  /\ ruling' = [accepted |-> Accepted, issues |-> Issues, done |-> TRUE]
  /\ UNCHANGED <<doc, edits, outcome>>

\* What resolveFactPath finds: a finite number, or nothing it can use.
Facts == {"number", "missing", "not a number"}

Magnitude(x) == IF x < 0 THEN -x ELSE x

\* A comparison without the absolute value of the base.
SignedDifference(l, r, over) ==
  IF Magnitude(r - l) * 100 > over * l THEN {TRUE} ELSE {FALSE}

\* difference_percent > greater_than in doubles: the quotient is rounded,
\* so equal values may compare either way.
DifferenceExceeds(l, r, over) ==
  LET d == Magnitude(r - l) * 100
      t == over * Magnitude(l)
  IN IF d > t THEN {TRUE} ELSE IF d < t \/ d = 0 THEN {FALSE} ELSE BOOLEAN

\* evaluateCondition
Evaluations(left, right, l, r, over) ==
  IF left # "number" \/ right # "number" \/ l = 0
  THEN {FALSE} ELSE DifferenceExceeds(l, r, over)

EvaluatePolicyRule ==
  /\ ruling.accepted /\ ~outcome.done
  /\ \E left, right \in Facts, l, r \in Amounts \cup {0}, over \in Thresholds :
       /\ left = "number" \/ l = 0
       /\ right = "number" \/ r = 0
       /\ \E m \in Evaluations(left, right, l, r, over) :
            outcome' = [matched |-> m, left |-> left, right |-> right,
                        l |-> l, r |-> r, over |-> over, done |-> TRUE]
  /\ UNCHANGED <<doc, edits, ruling>>

RuleNext == EditDocument \/ ParsePolicyRule \/ EvaluatePolicyRule

RuleSpec == RuleInit /\ [][RuleNext]_ruleVars
-----------------------------------------------------------------------------
\* The object a path lies in.
Within(f) ==
  CASE f \in ApplicabilityFields -> "applicability"
    [] f \in {"difference_percent.left", "difference_percent.right", "greater_than"} -> "difference_percent"
    [] f = "difference_percent" -> "when"
    [] f \in {"outcome.condition", "outcome.route"} -> "outcome"
    [] OTHER -> "rule"

\* parsePolicyRule names every problem of a document it rejects, "never
\* just the first": every path with a wrong value, unless an object around
\* it is wrong already.
EveryProblemListed ==
  ruling.done /\ ~ruling.accepted =>
    /\ ruling.issues # {}
    /\ ruling.issues =
         {f \in Paths : Wrong(f) /\ (f = "rule" \/ ~\E g \in Paths :
            Wrong(g) /\ g \in {Within(f), Within(Within(f)), "rule"} \ {f})}

\* A rule opens its condition only over two numbers of which the first is
\* not zero, and only when they differ by the threshold or more; it stays
\* silent over such numbers only when they do not differ by more, whichever
\* of the two is larger and whatever their signs.
OutcomeIsJustified ==
  outcome.done =>
    LET numbers == outcome.left = "number" /\ outcome.right = "number" /\ outcome.l # 0
        gap == Magnitude(outcome.r - outcome.l) * 100
        limit == outcome.over * Magnitude(outcome.l)
    IN /\ outcome.matched => numbers /\ gap >= limit
       /\ numbers /\ ~outcome.matched => gap <= limit
==============================================================================
