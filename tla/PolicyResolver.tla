--------------------------- MODULE PolicyResolver ---------------------------
(***************************************************************************)
(* PolicyApplicabilityResolverService.resolve (src/src/policy), as         *)
(* operators over the rows that it reads.  Times are natural numbers; the  *)
(* reasons of an unresolved result are kept as kinds, their texts are not. *)
(***************************************************************************)
EXTENDS Integers, FiniteSets, FiniteSetsExt

CONSTANTS
  Jurisdiction,   \* per code: its jurisdiction row
  Source,         \* per policy source: its row
  Version,        \* per policy version: its row, but for the releaseStatus
  Applicability,  \* per policy version: its applicability row
  Case            \* per loan case: the columns that resolution depends on

Root == "null"
NoEnd == -1
NoTime == -1
Received == "application_received_on_or_after_effective_date"
AsOfRule == "evaluation_as_of_effective_date"
NoRule == "null"

JurisdictionRow == [parentCode: STRING, covered: BOOLEAN]
SourceRow == [jurisdictionCode: STRING, freshnessObjective: Int,
              mode: {"SYNTHETIC", "MANUAL", "CONNECTOR"}]
VersionRow == [ruleId: STRING, effectiveFrom: Nat, effectiveTo: Nat \cup {NoEnd}]
ApplicabilityRow == [jurisdictionCode: STRING, productCode: STRING, transitionRule: STRING]
CaseRow == [jurisdictionCode: STRING, productCode: STRING, createdAt: Nat \cup {NoTime}]

Jurisdictions == DOMAIN Jurisdiction
Sources == DOMAIN Source
Versions == DOMAIN Version
Cases == DOMAIN Case

ASSUME ResolverAssumption ==
  /\ Root \notin Jurisdictions
  /\ \A j \in Jurisdictions : Jurisdiction[j] \in JurisdictionRow
  /\ \A s \in Sources : Source[s] \in SourceRow
  /\ \A v \in Versions : Version[v] \in VersionRow
  /\ DOMAIN Applicability = Versions
  /\ \A v \in Versions : Applicability[v] \in ApplicabilityRow
  /\ \A c \in Cases : Case[c] \in CaseRow

Statuses == {"DRAFT", "PROPOSED", "RELEASED", "WITHDRAWN"}
NoRevision == -1

-----------------------------------------------------------------------------
(***************************************************************************)
(* The jurisdiction and its ancestors.                                     *)
(***************************************************************************)

Levels == 0..Cardinality(Jurisdictions)

Ancestor(leaf, n) ==
  LET up[k \in 0..n] == IF k = 0 THEN leaf
                        ELSE IF up[k-1] \in Jurisdictions THEN Jurisdiction[up[k-1]].parentCode
                        ELSE Root
  IN  up[n]

(* What stops the walk at its n-th code, if anything.                       *)
Obstacle(leaf, n) ==
  LET code == Ancestor(leaf, n)
  IN  CASE code = Root -> "none"
        [] code # Root /\ (\E k \in 0..(n-1) : Ancestor(leaf, k) = code) -> "cycle"
        [] code # Root /\ code \notin Jurisdictions -> "unknown"
        [] code \in Jurisdictions /\ ~Jurisdiction[code].covered -> "uncovered"
        [] OTHER -> "none"

AncestryReasons(leaf) ==
  LET bad == {n \in Levels : Obstacle(leaf, n) # "none"}
  IN  IF bad = {} THEN {} ELSE {Obstacle(leaf, Min(bad))}

Ancestry == [c \in Cases |-> {Ancestor(Case[c].jurisdictionCode, n) : n \in Levels} \ {Root}]
Unreviewed == [c \in Cases |-> AncestryReasons(Case[c].jurisdictionCode)]

-----------------------------------------------------------------------------
(***************************************************************************)
(* Freshness of the sources, at the time the resolver looks at them.       *)
(***************************************************************************)

SourceVerdict(s, time, recorded) ==
  CASE recorded[s] = NoRevision -> "noRevision"
    [] recorded[s] # NoRevision /\ Source[s].freshnessObjective <= 0 -> "invalidObjective"
    [] recorded[s] # NoRevision /\ Source[s].freshnessObjective > 0
         /\ recorded[s] + Source[s].freshnessObjective <= time -> "stale"
    [] OTHER -> "fresh"

SourcesOf(c) == {s \in Sources : Source[s].jurisdictionCode \in Ancestry[c]}

FreshnessReasons(c, time, recorded) ==
  {"noSource" : j \in {x \in Ancestry[c] : \A s \in Sources : Source[s].jurisdictionCode # x}}
    \cup ({SourceVerdict(s, time, recorded) : s \in SourcesOf(c)} \ {"fresh"})

FreshUntil(c, recorded) ==
  {recorded[s] + Source[s].freshnessObjective : s \in SourcesOf(c)}

-----------------------------------------------------------------------------
(***************************************************************************)
(* The released versions in effect.                                        *)
(***************************************************************************)

Applicable(c, status) ==
  {v \in Versions : /\ Applicability[v].jurisdictionCode \in Ancestry[c]
                    /\ Applicability[v].productCode = Case[c].productCode
                    /\ status[v] = "RELEASED"}

Decidable(v, c) ==
  \/ Applicability[v].transitionRule \in {NoRule, AsOfRule}
  \/ Applicability[v].transitionRule = Received /\ Case[c].createdAt # NoTime

Instant(v, c, asOf) == IF Applicability[v].transitionRule = Received THEN Case[c].createdAt ELSE asOf

NotYet(v, c, asOf) == Version[v].effectiveFrom > Instant(v, c, asOf)
Over(v, c, asOf) == Version[v].effectiveTo # NoEnd /\ Version[v].effectiveTo <= Instant(v, c, asOf)

InEffect(c, asOf, status) ==
  {v \in Applicable(c, status) :
     Decidable(v, c) /\ ~NotYet(v, c, asOf) /\ ~Over(v, c, asOf)}

(* Instants at which time alone changes what is in effect.                  *)
Boundaries(c, asOf, status) ==
  LET dated == {v \in Applicable(c, status) :
                  Decidable(v, c) /\ Applicability[v].transitionRule # Received}
  IN  {Version[v].effectiveFrom : v \in {x \in dated : NotYet(x, c, asOf)}}
        \cup {Version[v].effectiveTo : v \in {x \in dated \cap InEffect(c, asOf, status) :
                                        Version[x].effectiveTo # NoEnd}}

VersionReasons(c, asOf, status) ==
  {"undecidable" : v \in {x \in Applicable(c, status) : ~Decidable(x, c)}}
    \cup {"overlap" : v \in {x \in InEffect(c, asOf, status) :
                               \E y \in InEffect(c, asOf, status) \ {x} : Version[x].ruleId = Version[y].ruleId}}

Unresolved(reasons) ==
  [status |-> "REVIEW_REQUIRED", versions |-> {}, reasons |-> reasons]
ResolvedTo(versions) ==
  [status |-> "RESOLVED", versions |-> versions, reasons |-> {}]

(* The part of resolve that looks at jurisdictions and sources, and the     *)
(* part that looks at versions once the first has found nothing missing.    *)
CoverageReasons(c, time, recorded) ==
  IF Unreviewed[c] # {} THEN Unreviewed[c] ELSE FreshnessReasons(c, time, recorded)

ResolveVersions(c, asOf, status) ==
  IF VersionReasons(c, asOf, status) # {}
  THEN Unresolved(VersionReasons(c, asOf, status))
  ELSE ResolvedTo(InEffect(c, asOf, status))

RevalidateAtDeadline(c, asOf, status, deadlines) ==     \* mutant of RevalidateAfter
  deadlines

(* The instants of which revalidateAfter is the earliest, if there are any. *)
RevalidateAfter(c, asOf, status, deadlines) ==
  deadlines \cup Boundaries(c, asOf, status)

Resolve(c, asOf, time, status, recorded) ==
  IF CoverageReasons(c, time, recorded) # {}
  THEN Unresolved(CoverageReasons(c, time, recorded))
  ELSE ResolveVersions(c, asOf, status)

(* classifyTrigger, on the kinds of the reasons.                            *)
Trigger(reasons) ==
  CASE "overlap" \in reasons -> "APPLICABILITY_CONFLICT"
    [] "overlap" \notin reasons /\ "stale" \in reasons -> "SOURCE_FRESHNESS_EXPIRED"
    [] {"overlap", "stale"} \cap reasons = {}
         /\ {"uncovered", "noSource", "noRevision"} \cap reasons # {} -> "COVERAGE_GAP"
    [] OTHER -> "none"
=============================================================================
