------------------------- MODULE PolicyCatalogProofs -------------------------
(***************************************************************************)
(* Theorems about PolicyCatalog, for any jurisdictions, sources, versions, *)
(* cases, operators and evaluations: types, approvals and assessments.     *)
(***************************************************************************)
EXTENDS PolicyCatalog, WellFoundedInduction, TLAPS

(* Zenon is the prover of every leaf that names none.                       *)
USE ZenonT(90)

-----------------------------------------------------------------------------
(***************************************************************************)
(* Dates, and what a resolution that misses nothing knows of its sources.  *)
(***************************************************************************)

(* Every non-empty set of naturals has the least element that Min chooses.  *)
LEMMA MinOfNaturals ==
  ASSUME NEW S \in SUBSET Nat, S # {}
  PROVE  Min(S) \in S /\ \A y \in S : Min(S) <= y
<1> DEFINE R == OpToRel(<, Nat)
<1>1. IsWellFoundedOn(R, Nat)
  BY NatLessThanWellFounded
<1>2. \A x, y \in Nat : ~(<<y, x>> \in R) => x <= y
  BY SMTT(30) DEF OpToRel
<1> HIDE DEF R
<1>3. PICK x \in S : \A y \in S : ~(<<y, x>> \in R)
  BY <1>1, WFMin
<1>4. \A y \in S : x <= y
  BY <1>2, <1>3
<1>5. Min(S) = CHOOSE z \in S : \A y \in S : z <= y
  BY DEF Min
<1> QED
  BY <1>4, <1>5

(* Every non-empty set of positions has the greatest that Max chooses.      *)
LEMMA MaxOfPositions ==
  ASSUME NEW n \in Nat, NEW S \in SUBSET (1..n), S # {}
  PROVE  Max(S) \in S /\ \A y \in S : Max(S) >= y
<1> DEFINE T == {n - i : i \in S}
<1>0. \A i \in S : n - i \in Nat
  BY SMTT(30)
<1>1. T \in SUBSET Nat /\ T # {}
  BY <1>0
<1>2. Min(T) \in T /\ \A y \in T : Min(T) <= y
  BY <1>1, MinOfNaturals
<1> HIDE DEF T
<1>3. PICK i \in S : Min(T) = n - i
  BY <1>2 DEF T
<1>4. \A y \in S : n - i <= n - y
  BY <1>2, <1>3 DEF T
<1>5. \A y \in S : i >= y
  BY <1>4, SMTT(30)
<1>6. Max(S) = CHOOSE z \in S : \A y \in S : z >= y
  BY DEF Max
<1> QED
  BY <1>5, <1>6

(* A case's sources are known, whatever their age.                          *)
Sourced(c) ==
  Unreviewed[c] = {} /\ \A j \in Ancestry[c] : \E s \in Sources : Source[s].jurisdictionCode = j

(* Every source of a case is fresh up to a time.                            *)
FreshTill(c, until, rec) ==
  \A s \in SourcesOf(c) : /\ rec[s] # NoRevision
                          /\ Source[s].freshnessObjective > 0
                          /\ until <= rec[s] + Source[s].freshnessObjective

Revisions == [Sources -> 0..MaxTime]

(* The first half of resolve finds nothing missing exactly when the sources *)
(* are known and fresh.                                                     *)
LEMMA CoverageMeans ==
  ASSUME NEW c \in Cases, NEW time \in Nat, NEW rec \in Revisions
  PROVE  CoverageReasons(c, time, rec) = {} <=> Sourced(c) /\ FreshTill(c, time + 1, rec)
<1> USE ResolverAssumption, CatalogAssumption
<1>1. \A s \in Sources : rec[s] \in Nat /\ Source[s].freshnessObjective \in Int
  BY SMTT(30) DEF Revisions, SourceRow
<1>2. \A s \in Sources : SourceVerdict(s, time, rec) = "fresh" <=>
         /\ rec[s] # NoRevision
         /\ Source[s].freshnessObjective > 0
         /\ time + 1 <= rec[s] + Source[s].freshnessObjective
  BY <1>1, SMTT(30) DEF SourceVerdict, NoRevision
<1>3. SourcesOf(c) \subseteq Sources
  BY DEF SourcesOf
<1>4. ({SourceVerdict(s, time, rec) : s \in SourcesOf(c)} \ {"fresh"}) = {}
         <=> FreshTill(c, time + 1, rec)
  BY <1>2, <1>3 DEF FreshTill
<1>5. {"noSource" : j \in {x \in Ancestry[c] : \A s \in Sources : Source[s].jurisdictionCode # x}} = {}
         <=> \A j \in Ancestry[c] : \E s \in Sources : Source[s].jurisdictionCode = j
  OBVIOUS
<1> QED
  BY <1>4, <1>5 DEF CoverageReasons, FreshnessReasons, Sourced

(* Boundaries are dates.                                                    *)
LEMMA BoundariesAreDates ==
  ASSUME NEW c \in Cases, NEW rel, NEW asOf
  PROVE  Boundaries(c, asOf, rel) \subseteq Nat
BY ResolverAssumption, SMTT(30) DEF Boundaries, Applicable, InEffect, VersionRow

-----------------------------------------------------------------------------
(***************************************************************************)
(* The inductive invariant.                                                *)
(***************************************************************************)

(* What a call holds at each of its steps.                                  *)
ResolvedContents == [status: {"RESOLVED"}, versions: SUBSET Versions, reasons: {{}}]
Changes == {"activate", "withdraw"}
OpCalls ==
  {NoCall}
    \cup [kind: {"propose"}, step: {"mark", "save"}, version: Versions, by: People]
    \cup [kind: {"approve"}, step: {"stamp"}, version: Versions, by: People, row: Nat]
    \cup [kind: Changes, step: {"approved", "commit"}, version: Versions]
    \cup [kind: Changes, step: {"assess"}, version: Versions, at: Nat, todo: SUBSET Cases]
BindingCalls == [kind: {"evaluate"}, step: {"binding"}, case: Cases, asOf: Nat, seen: Nat]
CoverageCalls == [kind: {"evaluate"}, step: {"coverage"}, case: Cases, asOf: Nat, seen: Nat,
                  now: Nat, found: Nat]
VersionsCalls == [kind: {"evaluate"}, step: {"versions"}, case: Cases, asOf: Nat, seen: Nat,
                  now: Nat, found: Nat, deadlines: SUBSET Nat]
DecideCalls == [kind: {"evaluate"}, step: {"decide", "insert", "winner"}, case: Cases, asOf: Nat,
                seen: Nat, found: Nat, content: ResolvedContents, until: Nat]
IsReview(call) == call.step = "review" /\ call.case \in Cases /\ call.asOf \in Nat
IsEvaluation(call) ==
  \/ call = NoCall
  \/ call \in BindingCalls
  \/ call \in CoverageCalls
  \/ call \in VersionsCalls
  \/ call \in DecideCalls
  \/ IsReview(call)

Deciding(e) == ev[e].step \in {"decide", "insert", "winner"}

BoundRow == [content: ResolvedContents, seen: Nat, until: Nat, live: BOOLEAN, legacy: BOOLEAN]
ExposedRow == [case: Cases, row: Nat, at: Nat]
AuditRow == [version: Versions, kind: Changes, at: Nat]

CatalogTypes ==
  /\ clock \in 0..MaxTime
  /\ release \in [Versions -> Statuses]
  /\ proposals \in [Versions -> Seq(ApprovalRow)]
  /\ generation \in Nat
  /\ recorded \in Revisions
  /\ assessments \subseteq AssessmentRow
  /\ audited \subseteq AuditRow
  /\ exposed \in [Versions -> SUBSET ExposedRow]
  /\ op \in [Operators -> OpCalls]
  /\ ev = [e \in Evaluators |-> ev[e]]
  /\ \A e \in Evaluators : IsEvaluation(ev[e])

(* Binding rows: one live row per case, and calls that hold one by its id.  *)
BindingTypes ==
  /\ bindings \in [Cases -> Seq(BoundRow)]
  /\ \A c \in Cases : \A i, j \in LiveBindings(c) : i = j
  /\ \A e \in Evaluators : ev[e].step \in {"coverage", "versions", "decide", "insert", "winner"} =>
       ev[e].found = 0 \/ ev[e].found \in DOMAIN bindings[ev[e].case]

(* Approval by another person, from the proposal to the released version.   *)
Approved(v) ==
  \E i \in DOMAIN proposals[v] :
    proposals[v][i].approvedBy \notin {"null", proposals[v][i].proposedBy}
ApprovalsInv ==
  /\ \A v \in Versions : \A i \in DOMAIN proposals[v] :
       proposals[v][i].approvedBy # proposals[v][i].proposedBy
  /\ \A o \in Operators : op[o].step = "stamp" =>
       /\ op[o].row \in DOMAIN proposals[op[o].version]
       /\ proposals[op[o].version][op[o].row].proposedBy # op[o].by
  /\ \A o \in Operators : op[o].step = "commit" =>
       op[o].version \in Seeded \/ Approved(op[o].version)
  /\ ReleasedWithApproval

(* Assessments of the rows that were live at a change.                      *)
Assessed(v, x) ==
  \E a \in assessments : a.version = v /\ a.case = x.case /\ a.seen >= x.at
AssessedAmong(v, at, some) ==
  \A x \in exposed[v] :
    x.at = at /\ x.case \in some /\ x.row \in LiveBindings(x.case) => Assessed(v, x)
AssessedInv ==
  /\ \A v \in Versions : \A x \in exposed[v] :
       x.at <= generation /\ x.row \in DOMAIN bindings[x.case]
  /\ \A o \in Operators : op[o].step = "assess" =>
       /\ op[o].at <= generation
       /\ AssessedAmong(op[o].version, op[o].at, Candidates(op[o].version) \ op[o].todo)
  /\ \A r \in audited :
       r.at <= generation /\ AssessedAmong(r.version, r.at, Candidates(r.version))
GovernedInv == CatalogTypes /\ BindingTypes /\ ApprovalsInv /\ AssessedInv

-----------------------------------------------------------------------------
(***************************************************************************)
(* Types.                                                                  *)
(***************************************************************************)

(* The steps of one operator's call, and of one evaluation.                 *)
OperatorStep(o) ==
  \/ \E v \in Versions, by \in People : Propose(o, v, by) \/ Approve(o, v, by)
  \/ \E v \in Versions : ActivateBegin(o, v) \/ Withdraw(o, v)
  \/ MarkProposed(o) \/ SaveProposal(o) \/ StampApproval(o)
  \/ ActivateCheck(o) \/ CommitChange(o) \/ RecordAudit(o)
  \/ \E c \in Cases : AssessNext(o, c)
  \/ CrashOperator(o)
EvaluatorStep(e) ==
  \/ \E c \in Cases : EvaluateBegin(e, c)
  \/ ReadBinding(e) \/ ResolveCoverage(e) \/ ResolveReleased(e)
  \/ InvalidateActive(e) \/ RefreshInPlace(e) \/ InvalidateFound(e)
  \/ InsertBinding(e) \/ ReadWinner(e) \/ CrashEvaluation(e)

LEMMA OpShapes ==
  ASSUME CatalogTypes, NEW o \in Operators
  PROVE  /\ op[o].step \in {"mark", "save"} =>
              op[o] \in [kind: {"propose"}, step: {"mark", "save"}, version: Versions, by: People]
         /\ op[o].step = "stamp" =>
              op[o] \in [kind: {"approve"}, step: {"stamp"}, version: Versions, by: People, row: Nat]
         /\ op[o].step \in {"approved", "commit"} =>
              op[o] \in [kind: Changes, step: {"approved", "commit"}, version: Versions]
         /\ op[o].step = "assess" =>
              op[o] \in [kind: Changes, step: {"assess"}, version: Versions, at: Nat,
                         todo: SUBSET Cases]
<1>1. op[o] \in OpCalls
  BY DEF CatalogTypes
<1> QED
  BY <1>1, SMTT(30) DEF OpCalls, NoCall

LEMMA EvShapes ==
  ASSUME CatalogTypes, NEW e \in Evaluators
  PROVE  /\ ev[e].step = "binding" => ev[e] \in BindingCalls
         /\ ev[e].step = "coverage" => ev[e] \in CoverageCalls
         /\ ev[e].step = "versions" => ev[e] \in VersionsCalls
         /\ ev[e].step \in {"decide", "insert", "winner"} => ev[e] \in DecideCalls
         /\ ev[e] # NoCall => ev[e].case \in Cases /\ ev[e].asOf \in Nat
<1>1. IsEvaluation(ev[e])
  BY DEF CatalogTypes
<1> QED
  BY <1>1, SMTT(30)
     DEF IsEvaluation, IsReview, NoCall, BindingCalls, CoverageCalls, VersionsCalls, DecideCalls

(* A step of one operator, or of one evaluator, replaces its own call.      *)
LEMMA OpReplaced ==
  ASSUME CatalogTypes, NEW o \in Operators, NEW call \in OpCalls, op' = [op EXCEPT ![o] = call]
  PROVE  op' \in [Operators -> OpCalls]
BY DEF CatalogTypes

LEMMA EvReplaced ==
  ASSUME CatalogTypes, NEW e \in Evaluators, NEW call, IsEvaluation(call),
         ev' = [ev EXCEPT ![e] = call]
  PROVE  /\ ev' = [f \in Evaluators |-> ev'[f]]
         /\ \A f \in Evaluators : IsEvaluation(ev'[f])
         /\ ev'[e] = call
         /\ \A f \in Evaluators \ {e} : ev'[f] = ev[f]
<1>1. ev = [f \in Evaluators |-> ev[f]]
  BY DEF CatalogTypes
<1>2. ev' = [f \in Evaluators |-> IF f = e THEN call ELSE ev[f]]
  BY <1>1
<1>3. \A f \in Evaluators : IsEvaluation(ev[f])
  BY DEF CatalogTypes
<1> QED
  BY <1>2, <1>3

LEMMA NoCallIsCall == NoCall \in OpCalls /\ IsEvaluation(NoCall)
BY DEF OpCalls, IsEvaluation

(* What ClassifyImpact answers is one of the three impacts.                 *)
LEMMA ImpactIsKnown ==
  ASSUME NEW prior, NEW dryRun
  PROVE  ClassifyImpact(prior, dryRun) \in Impacts
<1>1. CASE dryRun.status = "REVIEW_REQUIRED"
  BY <1>1 DEF ClassifyImpact, Impacts
<1>2. CASE dryRun.status # "REVIEW_REQUIRED" /\ dryRun.status = "RESOLVED"
             /\ prior.versions = dryRun.versions
  BY <1>2 DEF ClassifyImpact, Impacts
<1>3. CASE dryRun.status # "REVIEW_REQUIRED"
             /\ ~(dryRun.status = "RESOLVED" /\ prior.versions = dryRun.versions)
  BY <1>3 DEF ClassifyImpact, Impacts
<1> QED
  BY <1>1, <1>2, <1>3

LEMMA AssessmentsTyped ==
  ASSUME CatalogTypes, NEW v \in Versions, NEW c \in Cases
  PROVE  AssessOneCase(v, c) \subseteq AssessmentRow
<1>1. generation \in Nat /\ assessments \subseteq AssessmentRow
  BY DEF CatalogTypes
<1>2. ASSUME NEW impact \in Impacts
      PROVE  [version |-> v, case |-> c, seen |-> generation, impact |-> impact] \in AssessmentRow
  BY <1>1 DEF AssessmentRow
<1> QED
  BY <1>1, <1>2, ImpactIsKnown DEF AssessOneCase

LEMMA GovernanceTyped ==
  ASSUME CatalogTypes, BindingTypes, ApprovalsInv, NEW o \in Operators,
         OperatorStep(o)
  PROVE  CatalogTypes'
<1> USE OpReplaced, OpShapes, NoCallIsCall DEF OpGoto, OpBegin, caseVars, sourceVars
<1>1. ASSUME NEW v \in Versions, NEW by \in People, Propose(o, v, by)
      PROVE  CatalogTypes'
  <2>1. [kind |-> "propose", step |-> "mark", version |-> v, by |-> by] \in OpCalls
    BY DEF OpCalls
  <2> QED
    BY <1>1, <2>1 DEF Propose, CatalogTypes
<1>2. ASSUME NEW v \in Versions, NEW by \in People, Approve(o, v, by)
      PROVE  CatalogTypes'
  <2> DEFINE pending == {i \in DOMAIN proposals[v] : proposals[v][i].approvedBy = "null"}
  <2>1. Len(proposals[v]) \in Nat /\ pending \in SUBSET (1..Len(proposals[v])) /\ pending # {}
    BY <1>2, SMTT(30) DEF Approve, CatalogTypes
  <2>2. Max(pending) \in 1..Len(proposals[v])
    BY <2>1, MaxOfPositions
  <2>3. [kind |-> "approve", step |-> "stamp", version |-> v, by |-> by, row |-> Max(pending)]
          \in OpCalls
    BY <2>1, <2>2, SMTT(30) DEF OpCalls
  <2> QED
    BY <1>2, <2>3 DEF Approve, CatalogTypes
<1>3. ASSUME NEW v \in Versions, ActivateBegin(o, v)
      PROVE  CatalogTypes'
  <2>1. [kind |-> "activate", step |-> "approved", version |-> v] \in OpCalls
    BY DEF OpCalls, Changes
  <2> QED
    BY <1>3, <2>1 DEF ActivateBegin, CatalogTypes
<1>4. ASSUME NEW v \in Versions, Withdraw(o, v)
      PROVE  CatalogTypes'
  <2>1. [kind |-> "withdraw", step |-> "commit", version |-> v] \in OpCalls
    BY DEF OpCalls, Changes
  <2> QED
    BY <1>4, <2>1 DEF Withdraw, CatalogTypes
<1>5. CASE MarkProposed(o)
  <2>1. [op[o] EXCEPT !.step = "save"] \in OpCalls
    BY <1>5 DEF MarkProposed, OpCalls
  <2>2. release' \in [Versions -> Statuses]
    BY <1>5 DEF MarkProposed, CatalogTypes, Statuses
  <2> QED
    BY <1>5, <2>1, <2>2 DEF MarkProposed, CatalogTypes
<1>6. CASE SaveProposal(o)
  <2>1. op[o].version \in Versions /\ op[o].by \in People
    BY <1>6 DEF SaveProposal
  <2>2. [proposedBy |-> op[o].by, approvedBy |-> "null"] \in ApprovalRow
    BY <2>1 DEF ApprovalRow
  <2>3. proposals' \in [Versions -> Seq(ApprovalRow)]
    BY <1>6, <2>1, <2>2, SMTT(30) DEF SaveProposal, CatalogTypes
  <2> QED
    BY <1>6, <2>3 DEF SaveProposal, CatalogTypes
<1>7. CASE StampApproval(o)
  <2> DEFINE v == op[o].version
             i == op[o].row
  <2>1. v \in Versions /\ op[o].by \in People /\ i \in DOMAIN proposals[v]
    BY <1>7 DEF StampApproval, ApprovalsInv
  <2>2. proposals[v] \in Seq(ApprovalRow) /\ proposals[v][i] \in ApprovalRow
    BY <2>1, SMTT(30) DEF CatalogTypes
  <2>3. [proposals[v][i] EXCEPT !.approvedBy = op[o].by] \in ApprovalRow
    BY <2>1, <2>2 DEF ApprovalRow
  <2>4. [proposals[v] EXCEPT ![i].approvedBy = op[o].by] \in Seq(ApprovalRow)
    BY <2>1, <2>2, <2>3, SMTT(30)
  <2>5. proposals' \in [Versions -> Seq(ApprovalRow)]
    BY <1>7, <2>1, <2>4 DEF StampApproval, CatalogTypes
  <2> QED
    BY <1>7, <2>5 DEF StampApproval, CatalogTypes
<1>8. CASE ActivateCheck(o)
  <2>1. [op[o] EXCEPT !.step = "commit"] \in OpCalls
    BY <1>8, SMTT(30) DEF ActivateCheck, OpCalls
  <2> QED
    BY <1>8, <2>1 DEF ActivateCheck, CatalogTypes
<1>9. CASE CommitChange(o)
  <2> DEFINE v == op[o].version
             live == UNION {{[case |-> c, row |-> i, at |-> generation + 1] :
                              i \in LiveBindings(c)} : c \in Cases}
  <2>1. v \in Versions /\ op[o].kind \in Changes /\ generation + 1 \in Nat
    BY <1>9, SMTT(30) DEF CommitChange, CatalogTypes
  <2>2. [kind |-> op[o].kind, step |-> "assess", version |-> v, at |-> generation + 1,
         todo |-> Candidates(v)] \in OpCalls
    BY <2>1 DEF OpCalls, Candidates
  <2>3. release' \in [Versions -> Statuses]
    BY <1>9 DEF CommitChange, CatalogTypes, Statuses
  <2>4. exposed' = [exposed EXCEPT ![v] = live]
    BY <1>9 DEF CommitChange
  <2>7. \A c \in Cases : LiveBindings(c) \subseteq Nat
    BY SMTT(30) DEF BindingTypes, LiveBindings
  <2>8. \A c \in Cases : \A i \in LiveBindings(c) :
          [case |-> c, row |-> i, at |-> generation + 1] \in ExposedRow
    BY <2>1, <2>7 DEF ExposedRow
  <2>9. live \subseteq ExposedRow
    BY <2>8, SMTT(30)
  <2>5. exposed' \in [Versions -> SUBSET ExposedRow]
    BY <2>1, <2>4, <2>9 DEF CatalogTypes
  <2>6. op' \in [Operators -> OpCalls]
    BY <1>9, <2>2 DEF CommitChange
  <2> QED
    BY <1>9, <2>1, <2>3, <2>5, <2>6 DEF CommitChange, CatalogTypes
<1>10. CASE RecordAudit(o)
  <2>1. [version |-> op[o].version, kind |-> op[o].kind, at |-> op[o].at] \in AuditRow
    BY <1>10 DEF RecordAudit, AuditRow
  <2> QED
    BY <1>10, <2>1 DEF RecordAudit, CatalogTypes
<1>11. ASSUME NEW c \in Cases, AssessNext(o, c)
       PROVE  CatalogTypes'
  <2>1. [op[o] EXCEPT !.todo = @ \ {c}] \in OpCalls
    BY <1>11, SMTT(30) DEF AssessNext, OpCalls
  <2>2. assessments' \subseteq AssessmentRow
    BY <1>11, AssessmentsTyped DEF AssessNext
  <2> QED
    BY <1>11, <2>1, <2>2 DEF AssessNext, CatalogTypes
<1>12. CASE CrashOperator(o)
  BY <1>12 DEF CrashOperator, CatalogTypes
<1> QED
  BY <1>1, <1>2, <1>3, <1>4, <1>5, <1>6, <1>7, <1>8, <1>9, <1>10, <1>11, <1>12 DEF OperatorStep

(* The instants that a resolution depends on are dates, and so is the       *)
(* earliest of them.                                                        *)
LEMMA DeadlineIsDate ==
  ASSUME NEW instants \in SUBSET Nat, NEW now \in Nat
  PROVE  /\ NextRevalidationDeadline(now, instants) \in Nat
         /\ \A d \in instants : NextRevalidationDeadline(now, instants) <= d
<1>1. instants \cup {now + Interval} \in SUBSET Nat /\ instants \cup {now + Interval} # {}
  BY CatalogAssumption, SMTT(30)
<1> QED
  BY <1>1, MinOfNaturals DEF NextRevalidationDeadline

LEMMA FreshUntilDates ==
  ASSUME NEW c \in Cases, NEW time \in Nat, NEW rec \in Revisions,
         CoverageReasons(c, time, rec) = {}
  PROVE  FreshUntil(c, rec) \in SUBSET Nat
<1>1. FreshTill(c, time + 1, rec)
  BY CoverageMeans
<1>2. \A s \in SourcesOf(c) : s \in Sources /\ Source[s].freshnessObjective \in Int
  BY ResolverAssumption DEF SourcesOf, SourceRow
<1>3. \A s \in SourcesOf(c) : rec[s] \in Nat
  BY <1>2, CatalogAssumption, SMTT(30) DEF Revisions
<1>4. \A s \in SourcesOf(c) : rec[s] + Source[s].freshnessObjective \in Nat
  BY <1>1, <1>2, <1>3, SMTT(30) DEF FreshTill
<1> QED
  BY <1>4 DEF FreshUntil

LEMMA ResolutionTyped ==
  ASSUME NEW c \in Cases, NEW asOf, NEW rel
  PROVE  /\ ResolveVersions(c, asOf, rel).status # "REVIEW_REQUIRED" =>
              /\ VersionReasons(c, asOf, rel) = {}
              /\ ResolveVersions(c, asOf, rel) = ResolvedTo(InEffect(c, asOf, rel))
              /\ ResolveVersions(c, asOf, rel) \in ResolvedContents
<1>1. InEffect(c, asOf, rel) \in SUBSET Versions
  BY DEF InEffect, Applicable
<1> QED
  BY <1>1 DEF ResolveVersions, ResolvedTo, Unresolved, ResolvedContents

(* Every step of an evaluation leaves its evaluator with a call of the next *)
(* shape, and the rest of the catalog's types as they were.                 *)
LEMMA EvaluationFrame ==
  ASSUME CatalogTypes, NEW e \in Evaluators, NEW call, IsEvaluation(call),
         ev' = [ev EXCEPT ![e] = call],
         UNCHANGED <<clock, governanceVars, sourceVars, exposed>>
  PROVE  CatalogTypes'
<1>1. /\ ev' = [f \in Evaluators |-> ev'[f]]
      /\ \A f \in Evaluators : IsEvaluation(ev'[f])
  BY EvReplaced
<1>2. UNCHANGED <<clock, release, proposals, generation, recorded, assessments, audited, exposed, op>>
  BY DEF governanceVars, sourceVars
<1> QED
  BY <1>1, <1>2 DEF CatalogTypes

(* The live binding, if there is one.                                       *)
LEMMA TheLiveRow ==
  ASSUME BindingTypes, NEW c \in Cases, LiveBindings(c) # {}
  PROVE  /\ Max(LiveBindings(c)) \in LiveBindings(c)
         /\ Max(LiveBindings(c)) \in Nat
         /\ Max(LiveBindings(c)) \in DOMAIN bindings[c]
         /\ bindings[c][Max(LiveBindings(c))] \in BoundRow
<1>1. bindings[c] \in Seq(BoundRow)
  BY DEF BindingTypes
<1>2. LiveBindings(c) \in SUBSET (1..Len(bindings[c])) /\ Len(bindings[c]) \in Nat
  BY <1>1, SMTT(30) DEF LiveBindings
<1>3. Max(LiveBindings(c)) \in LiveBindings(c)
  BY <1>2, MaxOfPositions
<1> QED
  BY <1>1, <1>2, <1>3, SMTT(30)

LEMMA EvaluationTyped ==
  ASSUME CatalogTypes, BindingTypes, NEW e \in Evaluators,
         EvaluatorStep(e)
  PROVE  CatalogTypes'
<1> USE EvaluationFrame, EvShapes, NoCallIsCall DEF EvGoto, Return, EvFrame
<1>0. clock \in Nat /\ generation \in Nat
  BY CatalogAssumption, SMTT(30) DEF CatalogTypes
<1>1. ASSUME NEW c \in Cases, EvaluateBegin(e, c)
      PROVE  CatalogTypes'
  <2>1. [kind |-> "evaluate", step |-> "binding", case |-> c, asOf |-> clock, seen |-> generation]
          \in BindingCalls
    BY <1>0 DEF BindingCalls
  <2> QED
    BY <1>1, <2>1 DEF EvaluateBegin, IsEvaluation
<1>2. CASE ReadBinding(e)
  <2> DEFINE call == ev[e]
             found == IF LiveBindings(call.case) = {} THEN 0 ELSE Max(LiveBindings(call.case))
             next == [kind |-> "evaluate", step |-> "coverage", case |-> call.case,
                      asOf |-> call.asOf, seen |-> call.seen, now |-> clock, found |-> found]
  <2>1. call \in BindingCalls
    BY <1>2 DEF ReadBinding
  <2>2. found \in Nat
    <3>1. call.case \in Cases
      BY <2>1 DEF BindingCalls
    <3>2. LiveBindings(call.case) # {} => Max(LiveBindings(call.case)) \in Nat
      BY <3>1, TheLiveRow
    <3> QED
      BY <3>2
  <2>3. next \in CoverageCalls
    BY <1>0, <2>1, <2>2 DEF BindingCalls, CoverageCalls
  <2>4. IsEvaluation(next)
    BY <2>3 DEF IsEvaluation
  <2>5. ev' = [ev EXCEPT ![e] = NoCall] \/ ev' = [ev EXCEPT ![e] = next]
    BY <1>2 DEF ReadBinding
  <2> HIDE DEF next
  <2> QED
    BY <1>2, <2>4, <2>5 DEF ReadBinding
<1>3. CASE ResolveCoverage(e)
  <2> DEFINE call == ev[e]
             reasons == CoverageReasons(call.case, clock, recorded)
  <2>1. call \in CoverageCalls
    BY <1>3 DEF ResolveCoverage
  <2>2. call.case \in Cases /\ recorded \in Revisions
    BY <2>1 DEF CoverageCalls, CatalogTypes
  <2>3. IsEvaluation(ToReview(call, Unresolved(reasons)))
    BY <2>1 DEF IsEvaluation, IsReview, ToReview, CoverageCalls
  <2>4. reasons = {} => FreshUntil(call.case, recorded) \in SUBSET Nat
    BY <1>0, <2>2, FreshUntilDates
  <2>5. reasons = {} => ToVersions(call, FreshUntil(call.case, recorded)) \in VersionsCalls
    BY <2>1, <2>4 DEF ToVersions, VersionsCalls, CoverageCalls
  <2>6. reasons = {} => IsEvaluation(ToVersions(call, FreshUntil(call.case, recorded)))
    BY <2>5 DEF IsEvaluation
  <2>7. \/ ev' = [ev EXCEPT ![e] = ToReview(call, Unresolved(reasons))]
        \/ reasons = {} /\ ev' = [ev EXCEPT ![e] = ToVersions(call, FreshUntil(call.case, recorded))]
    BY <1>3 DEF ResolveCoverage
  <2> HIDE DEF reasons
  <2> QED
    BY <1>3, <2>3, <2>6, <2>7 DEF ResolveCoverage
<1>4. CASE ResolveReleased(e)
  <2> DEFINE call == ev[e]
             content == ResolveVersions(call.case, call.asOf, release)
             instants == RevalidateAfter(call.case, call.asOf, release, call.deadlines)
  <2>1. call \in VersionsCalls
    BY <1>4 DEF ResolveReleased
  <2>2. IsEvaluation(ToReview(call, content))
    BY <2>1 DEF IsEvaluation, IsReview, ToReview, VersionsCalls
  <2>3. instants \in SUBSET Nat
    BY <2>1, BoundariesAreDates DEF VersionsCalls, RevalidateAfter
  <2>4. NextRevalidationDeadline(call.now, instants) \in Nat
    BY <2>1, <2>3, DeadlineIsDate DEF VersionsCalls
  <2>5. content.status # "REVIEW_REQUIRED" => content \in ResolvedContents
    BY <2>1, ResolutionTyped DEF VersionsCalls
  <2> HIDE DEF content, instants
  <2>6. content.status # "REVIEW_REQUIRED" => ToDecide(call, content, instants) \in DecideCalls
    BY <2>1, <2>4, <2>5 DEF ToDecide, DecideCalls, VersionsCalls
  <2>7. content.status # "REVIEW_REQUIRED" => IsEvaluation(ToDecide(call, content, instants))
    BY <2>6 DEF IsEvaluation
  <2>8. \/ ev' = [ev EXCEPT ![e] = ToReview(call, content)]
        \/ /\ content.status # "REVIEW_REQUIRED"
           /\ ev' = [ev EXCEPT ![e] = ToDecide(call, content, instants)]
    BY <1>4 DEF ResolveReleased, content, instants
  <2> QED
    BY <1>4, <2>2, <2>7, <2>8 DEF ResolveReleased
<1>5. CASE InvalidateActive(e)
  BY <1>5 DEF InvalidateActive
<1>6. CASE RefreshInPlace(e)
  BY <1>6 DEF RefreshInPlace
<1>7. CASE InvalidateFound(e)
  <2>1. [ev[e] EXCEPT !.step = "insert"] \in DecideCalls
    BY <1>7 DEF InvalidateFound, DecideCalls
  <2> QED
    BY <1>7, <2>1 DEF InvalidateFound, IsEvaluation
<1>8. CASE InsertBinding(e)
  <2>1. [ev[e] EXCEPT !.step = "winner"] \in DecideCalls
    BY <1>8 DEF InsertBinding, DecideCalls
  <2> QED
    BY <1>8, <2>1 DEF InsertBinding, IsEvaluation
<1>9. CASE ReadWinner(e)
  BY <1>9 DEF ReadWinner
<1>10. CASE CrashEvaluation(e)
  BY <1>10 DEF CrashEvaluation
<1> QED
  BY <1>1, <1>2, <1>3, <1>4, <1>5, <1>6, <1>7, <1>8, <1>9, <1>10 DEF EvaluatorStep

-----------------------------------------------------------------------------
(***************************************************************************)
(* Binding rows: none is ever removed or revived, and what a row says is   *)
(* what it said, or what the call that wrote it says.                      *)
(***************************************************************************)

SaysTheSame(row, other) ==
  row.content = other.content /\ row.seen = other.seen /\ row.until = other.until
    /\ row.legacy = other.legacy

RowsStep(e) ==
  /\ bindings' \in [Cases -> Seq(BoundRow)]
  /\ \A c \in Cases : \A i, j \in DOMAIN bindings'[c] :
       bindings'[c][i].live /\ bindings'[c][j].live => i = j
  /\ \A c \in Cases : \A i \in DOMAIN bindings[c] :
       i \in DOMAIN bindings'[c] /\ (bindings'[c][i].live => bindings[c][i].live)
  /\ \A c \in Cases : \A i \in DOMAIN bindings'[c] :
       \/ i \in DOMAIN bindings[c] /\ SaysTheSame(bindings'[c][i], bindings[c][i])
       \/ /\ Deciding(e) /\ c = ev[e].case
          /\ bindings'[c][i].content = ev[e].content
          /\ bindings'[c][i].seen = ev[e].seen
          /\ bindings'[c][i].until = ev[e].until

LEMMA RowReplaced ==
  ASSUME BindingTypes, NEW c \in Cases, NEW i \in DOMAIN bindings[c], NEW row \in BoundRow,
         row.live => bindings[c][i].live, NEW e, SetRow(c, i, row),
         \/ SaysTheSame(row, bindings[c][i])
         \/ /\ Deciding(e) /\ c = ev[e].case
            /\ row.content = ev[e].content /\ row.seen = ev[e].seen /\ row.until = ev[e].until
  PROVE  RowsStep(e)
<1>1. bindings \in [Cases -> Seq(BoundRow)]
  BY DEF BindingTypes
<1> DEFINE rows == [bindings[c] EXCEPT ![i] = row]
<1>2. /\ rows \in Seq(BoundRow) /\ DOMAIN rows = DOMAIN bindings[c] /\ rows[i] = row
      /\ \A j \in DOMAIN bindings[c] \ {i} : rows[j] = bindings[c][j]
  BY <1>1, SMTT(30)
<1>3. /\ bindings' \in [Cases -> Seq(BoundRow)]
      /\ bindings'[c] = rows
      /\ \A d \in Cases \ {c} : bindings'[d] = bindings[d]
  BY <1>1, <1>2 DEF SetRow
<1> HIDE DEF rows
<1>4. \A d \in Cases : \A j \in DOMAIN bindings[d] :
        j \in DOMAIN bindings'[d] /\ (bindings'[d][j].live => bindings[d][j].live)
  BY <1>2, <1>3
<1>5. \A d \in Cases : DOMAIN bindings'[d] = DOMAIN bindings[d]
  BY <1>2, <1>3
<1>8. \A d \in Cases : \A j, k \in DOMAIN bindings[d] :
        bindings[d][j].live /\ bindings[d][k].live => j = k
  BY SMTT(30) DEF BindingTypes, LiveBindings
<1>6. \A d \in Cases : \A j, k \in DOMAIN bindings'[d] :
        bindings'[d][j].live /\ bindings'[d][k].live => j = k
  BY <1>4, <1>5, <1>8
<1>7. ASSUME NEW d \in Cases, NEW j \in DOMAIN bindings'[d]
      PROVE  \/ j \in DOMAIN bindings[d] /\ SaysTheSame(bindings'[d][j], bindings[d][j])
             \/ /\ Deciding(e) /\ d = ev[e].case
                /\ bindings'[d][j].content = ev[e].content
                /\ bindings'[d][j].seen = ev[e].seen
                /\ bindings'[d][j].until = ev[e].until
  <2>1. CASE d = c /\ j = i
    BY <1>2, <1>3, <2>1
  <2>2. CASE ~(d = c /\ j = i)
    <3>1. bindings'[d][j] = bindings[d][j] /\ j \in DOMAIN bindings[d]
      BY <1>2, <1>3, <1>5, <2>2
    <3> QED
      BY <3>1 DEF SaysTheSame
  <2> QED
    BY <2>1, <2>2
<1> QED
  BY <1>3, <1>4, <1>6, <1>7 DEF RowsStep

LEMMA RowsUntouched ==
  ASSUME BindingTypes, NEW e, bindings' = bindings
  PROVE  RowsStep(e)
BY DEF RowsStep, BindingTypes, LiveBindings, SaysTheSame

LEMMA RowAppended ==
  ASSUME CatalogTypes, BindingTypes, NEW e \in Evaluators, Deciding(e), SlotFree(ev[e].case),
         bindings' = [bindings EXCEPT ![ev[e].case] = Append(@, NewBinding(ev[e]))]
  PROVE  RowsStep(e)
<1> DEFINE c == ev[e].case
           rows == Append(bindings[c], NewBinding(ev[e]))
           n == Len(bindings[c])
<1>1. bindings \in [Cases -> Seq(BoundRow)] /\ ev[e] \in DecideCalls
  BY EvShapes DEF BindingTypes, Deciding
<1>2. c \in Cases /\ NewBinding(ev[e]) \in BoundRow
  BY <1>1 DEF DecideCalls, NewBinding, BoundRow
<1>3. /\ rows \in Seq(BoundRow) /\ n \in Nat /\ DOMAIN rows = 1..(n + 1) /\ DOMAIN bindings[c] = 1..n
      /\ rows[n + 1] = NewBinding(ev[e]) /\ \A j \in 1..n : rows[j] = bindings[c][j]
  BY <1>1, <1>2, SMTT(30)
<1>4. /\ bindings' \in [Cases -> Seq(BoundRow)]
      /\ bindings'[c] = rows
      /\ \A d \in Cases \ {c} : bindings'[d] = bindings[d]
  BY <1>1, <1>2, <1>3
<1>5. \A j \in 1..n : ~bindings[c][j].live
  BY <1>3 DEF SlotFree, LiveBindings
<1>6. \A d \in Cases : \A j, k \in DOMAIN bindings[d] :
        bindings[d][j].live /\ bindings[d][k].live => j = k
  BY DEF BindingTypes, LiveBindings
<1>10. /\ NewBinding(ev[e]).content = ev[e].content
       /\ NewBinding(ev[e]).seen = ev[e].seen
       /\ NewBinding(ev[e]).until = ev[e].until
  BY DEF NewBinding
<1> HIDE DEF rows, c, n
<1>7. \A d \in Cases : \A j \in DOMAIN bindings[d] :
        j \in DOMAIN bindings'[d] /\ (bindings'[d][j].live => bindings[d][j].live)
  BY <1>3, <1>4, SMTT(30)
<1>8. ASSUME NEW d \in Cases, NEW j \in DOMAIN bindings'[d], NEW k \in DOMAIN bindings'[d],
             bindings'[d][j].live, bindings'[d][k].live
      PROVE  j = k
  <2>1. CASE d = c
    BY <1>3, <1>4, <1>5, <1>8, <2>1, SMTT(30)
  <2>2. CASE d # c
    BY <1>4, <1>6, <1>8, <2>2
  <2> QED
    BY <2>1, <2>2
<1>9. ASSUME NEW d \in Cases, NEW j \in DOMAIN bindings'[d]
      PROVE  \/ j \in DOMAIN bindings[d] /\ SaysTheSame(bindings'[d][j], bindings[d][j])
             \/ /\ Deciding(e) /\ d = ev[e].case
                /\ bindings'[d][j].content = ev[e].content
                /\ bindings'[d][j].seen = ev[e].seen
                /\ bindings'[d][j].until = ev[e].until
  <2>1. CASE d = c /\ j = n + 1
    BY <1>3, <1>4, <1>10, <2>1 DEF c
  <2>2. CASE ~(d = c /\ j = n + 1)
    <3>1. bindings'[d][j] = bindings[d][j] /\ j \in DOMAIN bindings[d]
      BY <1>3, <1>4, <2>2, SMTT(30)
    <3> QED
      BY <3>1 DEF SaysTheSame
  <2> QED
    BY <2>1, <2>2
<1> QED
  BY <1>4, <1>7, <1>8, <1>9 DEF RowsStep

LEMMA EvaluationRows ==
  ASSUME CatalogTypes, BindingTypes, NEW e \in Evaluators,
         EvaluatorStep(e)
  PROVE  RowsStep(e)
<1>1. CASE \/ \E c \in Cases : EvaluateBegin(e, c)
           \/ ReadBinding(e) \/ ResolveCoverage(e) \/ ResolveReleased(e)
           \/ ReadWinner(e) \/ CrashEvaluation(e)
  <2>1. bindings' = bindings
    BY <1>1 DEF EvaluateBegin, ReadBinding, ResolveCoverage, ResolveReleased, ReadWinner,
                CrashEvaluation
  <2> QED
    BY <2>1, RowsUntouched
<1>2. CASE InvalidateActive(e)
  <2> DEFINE c == ev[e].case
             rows == [i \in DOMAIN bindings[c] |-> [bindings[c][i] EXCEPT !.live = FALSE]]
  <2>1. bindings \in [Cases -> Seq(BoundRow)] /\ c \in Cases
    BY <1>2, EvShapes, SMTT(30) DEF BindingTypes, InvalidateActive, NoCall
  <2>2. ASSUME NEW i \in DOMAIN bindings[c]
        PROVE  /\ rows[i] \in BoundRow
               /\ ~rows[i].live
               /\ SaysTheSame(rows[i], bindings[c][i])
    <3>1. bindings[c][i] \in BoundRow /\ rows[i] = [bindings[c][i] EXCEPT !.live = FALSE]
      BY <2>1, SMTT(30)
    <3> HIDE DEF rows
    <3> QED
      BY <3>1 DEF BoundRow, SaysTheSame
  <2>12. /\ Len(bindings[c]) \in Nat /\ DOMAIN bindings[c] = 1..Len(bindings[c])
         /\ DOMAIN rows = DOMAIN bindings[c]
         /\ rows = [i \in 1..Len(bindings[c]) |-> rows[i]]
    BY <2>1, SMTT(30)
  <2> HIDE DEF rows, c
  <2>13. rows \in [1..Len(bindings[c]) -> BoundRow]
    BY <2>2, <2>12
  <2>3. rows \in Seq(BoundRow) /\ DOMAIN rows = DOMAIN bindings[c]
    BY <2>12, <2>13, SMTT(30)
  <2> USE DEF rows, c
  <2>4. bindings' = [bindings EXCEPT ![c] = rows]
    BY <1>2 DEF InvalidateActive
  <2> HIDE DEF rows, c
  <2>5. /\ bindings' \in [Cases -> Seq(BoundRow)]
        /\ bindings'[c] = rows
        /\ \A d \in Cases \ {c} : bindings'[d] = bindings[d]
    BY <2>1, <2>3, <2>4
  <2>6. \A d \in Cases : \A j, k \in DOMAIN bindings[d] :
          bindings[d][j].live /\ bindings[d][k].live => j = k
    BY DEF BindingTypes, LiveBindings
  <2>7. \A d \in Cases : \A i \in DOMAIN bindings[d] :
          i \in DOMAIN bindings'[d] /\ (bindings'[d][i].live => bindings[d][i].live)
    BY <2>2, <2>3, <2>5
  <2>8. \A d \in Cases : DOMAIN bindings'[d] = DOMAIN bindings[d]
    BY <2>3, <2>5
  <2>9. \A d \in Cases : \A j, k \in DOMAIN bindings'[d] :
          bindings'[d][j].live /\ bindings'[d][k].live => j = k
    BY <2>6, <2>7, <2>8
  <2>10. \A d \in Cases : \A i \in DOMAIN bindings[d] : SaysTheSame(bindings[d][i], bindings[d][i])
    BY DEF SaysTheSame
  <2>11. \A d \in Cases : \A i \in DOMAIN bindings'[d] :
           i \in DOMAIN bindings[d] /\ SaysTheSame(bindings'[d][i], bindings[d][i])
    BY <2>2, <2>5, <2>8, <2>10
  <2> QED
    BY <2>5, <2>7, <2>9, <2>11 DEF RowsStep
<1>3. CASE RefreshInPlace(e)
  <2> DEFINE c == ev[e].case
             old == bindings[c][ev[e].found]
             row == [old EXCEPT !.seen = ev[e].seen, !.until = ev[e].until]
  <2>1. Deciding(e) /\ ev[e] \in DecideCalls /\ SameContent(ev[e]) /\ SetRow(c, ev[e].found, row)
    BY <1>3, EvShapes DEF RefreshInPlace, Deciding
  <2>2. c \in Cases /\ ev[e].found \in DOMAIN bindings[c]
    BY <2>1 DEF DecideCalls, BindingTypes, Deciding, SameContent
  <2>3. old \in BoundRow
    BY <2>2, SMTT(30) DEF BindingTypes
  <2>4. /\ row \in BoundRow /\ row.live = old.live /\ row.content = old.content
        /\ row.seen = ev[e].seen /\ row.until = ev[e].until
    BY <2>1, <2>3 DEF BoundRow, DecideCalls
  <2>5. row.content = ev[e].content
    BY <2>1, <2>4 DEF SameContent
  <2>6. row.live => bindings[c][ev[e].found].live
    BY <2>4
  <2> HIDE DEF row
  <2> QED
    BY <2>1, <2>2, <2>4, <2>5, <2>6, RowReplaced
<1>4. CASE InvalidateFound(e)
  <2> DEFINE c == ev[e].case
             old == bindings[c][ev[e].found]
             row == [old EXCEPT !.live = FALSE]
  <2>1. CASE ev[e].found = 0
    BY <1>4, <2>1, RowsUntouched DEF InvalidateFound
  <2>2. CASE ev[e].found # 0
    <3>1. Deciding(e) /\ ev[e] \in DecideCalls /\ SetRow(c, ev[e].found, row)
      BY <1>4, <2>2, EvShapes DEF InvalidateFound, Deciding
    <3>2. c \in Cases /\ ev[e].found \in DOMAIN bindings[c]
      BY <2>2, <3>1 DEF DecideCalls, BindingTypes, Deciding
    <3>3. old \in BoundRow
      BY <3>2, SMTT(30) DEF BindingTypes
    <3>4. row \in BoundRow /\ ~row.live /\ SaysTheSame(row, bindings[c][ev[e].found])
      BY <3>3 DEF BoundRow, SaysTheSame
    <3> HIDE DEF row
    <3> QED
      BY <3>1, <3>2, <3>4, RowReplaced
  <2> QED
    BY <2>1, <2>2
<1>5. CASE InsertBinding(e)
  BY <1>5, RowsUntouched, RowAppended DEF InsertBinding, Deciding
<1> QED
  BY <1>1, <1>2, <1>3, <1>4, <1>5 DEF EvaluatorStep

LEMMA RowsKept ==
  ASSUME BindingTypes, NEW e \in Evaluators, RowsStep(e), NEW call, ev'[e] = call,
         \A f \in Evaluators \ {e} : ev'[f] = ev[f],
         call.step \in {"coverage", "versions", "decide", "insert", "winner"} =>
           call.case \in Cases /\ (call.found = 0 \/ call.found \in DOMAIN bindings[call.case]),
         \A f \in Evaluators : ev[f].step \in {"coverage", "versions", "decide", "insert", "winner"} =>
           ev[f].case \in Cases
  PROVE  BindingTypes'
<1>1. \A c \in Cases : \A i, j \in LiveBindings(c)' : i = j
  BY DEF RowsStep, LiveBindings
<1>2. \A c \in Cases : \A i \in DOMAIN bindings[c] : i \in DOMAIN bindings'[c]
  BY DEF RowsStep
<1>3. ASSUME NEW f \in Evaluators,
             ev'[f].step \in {"coverage", "versions", "decide", "insert", "winner"}
      PROVE  ev'[f].found = 0 \/ ev'[f].found \in DOMAIN bindings'[ev'[f].case]
  <2>1. CASE f = e
    BY <1>2, <1>3, <2>1
  <2>2. CASE f # e
    BY <1>2, <1>3, <2>2 DEF BindingTypes
  <2> QED
    BY <2>1, <2>2
<1>4. bindings' \in [Cases -> Seq(BoundRow)]
  BY DEF RowsStep
<1> QED
  BY <1>1, <1>3, <1>4 DEF BindingTypes

LEMMA EvOthers ==
  ASSUME CatalogTypes, NEW e \in Evaluators, NEW call, ev' = [ev EXCEPT ![e] = call]
  PROVE  ev'[e] = call /\ \A f \in Evaluators \ {e} : ev'[f] = ev[f]
BY DEF CatalogTypes

LEMMA EvaluationBindings ==
  ASSUME CatalogTypes, BindingTypes, NEW e \in Evaluators,
         EvaluatorStep(e)
  PROVE  BindingTypes'
<1> DEFINE holding == {"coverage", "versions", "decide", "insert", "winner"}
<1>1. RowsStep(e)
  BY EvaluationRows
<1>2. \A f \in Evaluators : ev[f].step \in holding => ev[f].case \in Cases
  BY EvShapes, SMTT(30) DEF NoCall
<1>3. SUFFICES ASSUME NEW call, ev' = [ev EXCEPT ![e] = call], call.step \in holding
               PROVE  /\ call.case \in Cases
                      /\ call.found = 0 \/ call.found \in DOMAIN bindings[call.case]
  <2>1. \E call : ev' = [ev EXCEPT ![e] = call]
    BY DEF EvaluatorStep, EvaluateBegin, ReadBinding, ResolveCoverage, ResolveReleased,
           InvalidateActive, RefreshInPlace, InvalidateFound, InsertBinding, ReadWinner,
           CrashEvaluation, EvGoto, Return
  <2>2. PICK call : ev' = [ev EXCEPT ![e] = call]
    BY <2>1
  <2>3. ev'[e] = call /\ \A f \in Evaluators \ {e} : ev'[f] = ev[f]
    BY <2>2, EvOthers
  <2>4. call.step \in holding =>
          call.case \in Cases /\ (call.found = 0 \/ call.found \in DOMAIN bindings[call.case])
    BY <1>3, <2>2
  <2> QED
    BY <1>1, <1>2, <2>3, <2>4, RowsKept
<1>4. ev'[e] = call
  BY <1>3, EvOthers
<1>0. \A f \in Evaluators : ev[f].step \in holding =>
        ev[f].case \in Cases /\ (ev[f].found = 0 \/ ev[f].found \in DOMAIN bindings[ev[f].case])
  BY <1>2 DEF BindingTypes
<1>5. CASE ev'[e] = NoCall \/ ev'[e].step \in {"binding", "review"}
  BY <1>3, <1>4, <1>5, SMTT(30) DEF NoCall
<1>6. CASE ReadBinding(e)
  <2> DEFINE found == IF LiveBindings(ev[e].case) = {} THEN 0 ELSE Max(LiveBindings(ev[e].case))
             next == [kind |-> "evaluate", step |-> "coverage", case |-> ev[e].case,
                      asOf |-> ev[e].asOf, seen |-> ev[e].seen, now |-> clock, found |-> found]
  <2>1. ev[e].case \in Cases
    BY <1>6, EvShapes, SMTT(30) DEF ReadBinding, NoCall
  <2>2. \E x : ev' = [ev EXCEPT ![e] = x] /\ (x = NoCall \/ x = next)
    BY <1>6 DEF ReadBinding, EvGoto, Return
  <2>3. ev'[e] = NoCall \/ ev'[e] = next
    BY <2>2, EvOthers
  <2>4. found = 0 \/ found \in DOMAIN bindings[ev[e].case]
    BY <2>1, TheLiveRow
  <2>5. next.case = ev[e].case /\ next.found = found
    OBVIOUS
  <2> HIDE DEF next, found
  <2> QED
    BY <1>4, <1>5, <2>1, <2>3, <2>4, <2>5
<1>7. CASE ResolveCoverage(e)
  <2>1. ev[e].step \in holding
    BY <1>7 DEF ResolveCoverage
  <2>2. \E x, y : ev' = [ev EXCEPT ![e] = x] /\ (x = ToReview(ev[e], y) \/ x = ToVersions(ev[e], y))
    BY <1>7 DEF ResolveCoverage, EvGoto
  <2>3. \E y : ev'[e] = ToReview(ev[e], y) \/ ev'[e] = ToVersions(ev[e], y)
    BY <2>2, EvOthers
  <2> QED
    BY <1>0, <1>4, <1>5, <2>1, <2>3, SMTT(30) DEF ToReview, ToVersions
<1>8. CASE ResolveReleased(e)
  <2> DEFINE content == ResolveVersions(ev[e].case, ev[e].asOf, release)
             instants == RevalidateAfter(ev[e].case, ev[e].asOf, release, ev[e].deadlines)
  <2>1. ev[e].step \in holding
    BY <1>8 DEF ResolveReleased
  <2>2. \/ ev' = [ev EXCEPT ![e] = ToReview(ev[e], content)]
        \/ ev' = [ev EXCEPT ![e] = ToDecide(ev[e], content, instants)]
    BY <1>8 DEF ResolveReleased, EvGoto
  <2> HIDE DEF content, instants
  <2>3. ev'[e] = ToReview(ev[e], content) \/ ev'[e] = ToDecide(ev[e], content, instants)
    BY <2>2, EvOthers
  <2> QED
    BY <1>0, <1>4, <1>5, <2>1, <2>3, SMTT(30) DEF ToReview, ToDecide
<1>9. CASE InvalidateFound(e) \/ InsertBinding(e)
  <2>1. ev[e] \in DecideCalls /\ ev[e].step \in holding
    BY <1>9, EvShapes DEF InvalidateFound, InsertBinding
  <2>2. \E x : ev' = [ev EXCEPT ![e] = x] /\
          (x = NoCall \/ x = [ev[e] EXCEPT !.step = "insert"] \/ x = [ev[e] EXCEPT !.step = "winner"])
    <3>1. CASE InvalidateFound(e)
      BY <3>1 DEF InvalidateFound, EvGoto
    <3>2. CASE InsertBinding(e) /\ SlotFree(ev[e].case)
      BY <3>2 DEF InsertBinding, Return
    <3>3. CASE InsertBinding(e) /\ ~SlotFree(ev[e].case)
      BY <3>3 DEF InsertBinding, EvGoto
    <3> QED
      BY <1>9, <3>1, <3>2, <3>3
  <2>3. \/ ev'[e] = NoCall
        \/ ev'[e] = [ev[e] EXCEPT !.step = "insert"]
        \/ ev'[e] = [ev[e] EXCEPT !.step = "winner"]
    BY <2>2, EvOthers
  <2>4. ev'[e] = NoCall \/ (ev'[e].case = ev[e].case /\ ev'[e].found = ev[e].found)
    BY <2>1, <2>3 DEF DecideCalls
  <2> QED
    BY <1>0, <1>4, <1>5, <2>1, <2>4
<1>10. CASE \E c \in Cases : EvaluateBegin(e, c)
  <2>1. PICK c \in Cases : EvaluateBegin(e, c)
    BY <1>10
  <2> DEFINE next == [kind |-> "evaluate", step |-> "binding", case |-> c, asOf |-> clock,
                      seen |-> generation]
  <2>2. ev' = [ev EXCEPT ![e] = next] /\ next.step = "binding"
    BY <2>1 DEF EvaluateBegin, EvGoto
  <2> HIDE DEF next
  <2>3. ev'[e] = next
    BY <2>2, EvOthers
  <2> QED
    BY <1>5, <2>2, <2>3
<1>11. CASE InvalidateActive(e) \/ RefreshInPlace(e) \/ ReadWinner(e) \/ CrashEvaluation(e)
  <2>1. ev' = [ev EXCEPT ![e] = NoCall]
    BY <1>11 DEF InvalidateActive, RefreshInPlace, ReadWinner, CrashEvaluation, EvGoto, Return
  <2> QED
    BY <1>5, <2>1, EvOthers
<1> QED
  BY <1>6, <1>7, <1>8, <1>9, <1>10, <1>11 DEF EvaluatorStep

(* The steps of neither: an assessment that a case asks for, a revision, a  *)
(* tick, and a stuttering step.                                             *)
OtherStep ==
  \/ \E c \in Cases, v \in Versions : AssessImpactForCase(c, v)
  \/ \E s \in Sources : RecordRevision(s)
  \/ Tick
  \/ UNCHANGED vars

LEMMA EveryStep ==
  ASSUME [CatalogNext]_vars
  PROVE  \/ (\E o \in Operators : OperatorStep(o)) /\ Observe
         \/ (\E e \in Evaluators : EvaluatorStep(e)) /\ Observe
         \/ OtherStep /\ (Observe \/ UNCHANGED vars)
<1>1. CASE UNCHANGED vars
  BY <1>1 DEF OtherStep
<1>2. CASE CatalogNext
  BY <1>2 DEF CatalogNext, CatalogStep, OperatorStep, EvaluatorStep, OtherStep
<1> QED
  BY <1>1, <1>2

LEMMA OperatorFrame ==
  ASSUME NEW o, OperatorStep(o)
  PROVE  UNCHANGED <<clock, recorded, bindings, ev>>
BY DEF OperatorStep, Propose, Approve, ActivateBegin, Withdraw, MarkProposed, SaveProposal,
       StampApproval, ActivateCheck, CommitChange, RecordAudit, AssessNext, CrashOperator,
       sourceVars, caseVars

LEMMA EvaluatorFrame ==
  ASSUME NEW e, EvaluatorStep(e)
  PROVE  UNCHANGED <<clock, release, proposals, generation, assessments, audited, op, recorded,
                     exposed, slipped>>
BY DEF EvaluatorStep, EvaluateBegin, ReadBinding, ResolveCoverage, ResolveReleased,
   InvalidateActive,
       RefreshInPlace, InvalidateFound, InsertBinding, ReadWinner, CrashEvaluation, EvFrame,
       governanceVars, sourceVars

LEMMA OtherFrame ==
  ASSUME OtherStep
  PROVE  UNCHANGED <<release, proposals, generation, audited, op, bindings, ev, exposed, slipped>>
BY DEF OtherStep, AssessImpactForCase, RecordRevision, Tick, governanceVars, caseVars, vars

LEMMA OtherTyped ==
  ASSUME CatalogTypes, OtherStep
  PROVE  CatalogTypes'
<1>1. ASSUME NEW c \in Cases, NEW v \in Versions, AssessImpactForCase(c, v)
      PROVE  CatalogTypes'
  <2>1. assessments' \subseteq AssessmentRow
    BY <1>1, AssessmentsTyped DEF AssessImpactForCase
  <2> QED
    BY <1>1, <2>1 DEF AssessImpactForCase, sourceVars, CatalogTypes
<1>2. ASSUME NEW s \in Sources, RecordRevision(s)
      PROVE  CatalogTypes'
  <2>1. recorded' \in Revisions
    BY <1>2 DEF RecordRevision, CatalogTypes, Revisions
  <2>2. UNCHANGED <<clock, release, proposals, generation, assessments, audited, op, exposed, ev>>
    BY <1>2 DEF RecordRevision, governanceVars, caseVars
  <2> QED
    BY <2>1, <2>2 DEF CatalogTypes
<1>3. CASE Tick
  <2>1. clock' \in 0..MaxTime
    BY <1>3, CatalogAssumption, SMTT(30) DEF Tick, CatalogTypes
  <2>2. UNCHANGED <<recorded, release, proposals, generation, assessments, audited, op, exposed, ev>>
    BY <1>3 DEF Tick, governanceVars, caseVars, sourceVars
  <2> QED
    BY <2>1, <2>2 DEF CatalogTypes
<1>4. CASE UNCHANGED vars
  <2>1. UNCHANGED <<clock, recorded, release, proposals, generation, assessments, audited, op,
                    exposed, ev>>
    BY <1>4 DEF vars, governanceVars, caseVars, sourceVars
  <2> QED
    BY <2>1 DEF CatalogTypes
<1> QED
  BY <1>1, <1>2, <1>3, <1>4 DEF OtherStep

LEMMA TypesKept ==
  ASSUME CatalogTypes, BindingTypes, ApprovalsInv, [CatalogNext]_vars
  PROVE  CatalogTypes' /\ BindingTypes'
<1>1. ASSUME NEW o \in Operators, OperatorStep(o)
      PROVE  CatalogTypes' /\ BindingTypes'
  <2>1. bindings' = bindings /\ ev' = ev
    BY <1>1, OperatorFrame
  <2>2. BindingTypes'
    BY <2>1 DEF BindingTypes, LiveBindings
  <2> QED
    BY <1>1, <2>2, GovernanceTyped
<1>2. ASSUME NEW e \in Evaluators, EvaluatorStep(e)
      PROVE  CatalogTypes' /\ BindingTypes'
  BY <1>2, EvaluationTyped, EvaluationBindings
<1>3. CASE OtherStep
  <2>1. bindings' = bindings /\ ev' = ev
    BY <1>3, OtherFrame
  <2>2. BindingTypes'
    BY <2>1 DEF BindingTypes, LiveBindings
  <2> QED
    BY <1>3, <2>2, OtherTyped
<1> QED
  BY <1>1, <1>2, <1>3, EveryStep

-----------------------------------------------------------------------------
(***************************************************************************)
(* Approvals.                                                              *)
(***************************************************************************)

(* Proposals are only added to or approved, each by another person than its *)
(* proposer: an approved version stays approved.                            *)
LEMMA ApprovalsGrow ==
  ASSUME CatalogTypes, ApprovalsInv, NEW o \in Operators, OperatorStep(o)
  PROVE  /\ \A v \in Versions : \A i \in DOMAIN proposals[v] :
              /\ i \in DOMAIN proposals'[v]
              /\ proposals'[v][i].proposedBy = proposals[v][i].proposedBy
              /\ proposals[v][i].approvedBy # "null" => proposals'[v][i].approvedBy # "null"
         /\ \A v \in Versions : \A i \in DOMAIN proposals'[v] :
              proposals'[v][i].approvedBy # proposals'[v][i].proposedBy
<1>0. proposals \in [Versions -> Seq(ApprovalRow)]
  BY DEF CatalogTypes
<1>1. CASE proposals' = proposals
  BY <1>1 DEF ApprovalsInv
<1>2. CASE SaveProposal(o)
  <2> DEFINE v == op[o].version
             row == [proposedBy |-> op[o].by, approvedBy |-> "null"]
             n == Len(proposals[v])
  <2>1. v \in Versions /\ op[o].by \in People
    BY <1>2, OpShapes DEF SaveProposal
  <2>2. row.approvedBy # row.proposedBy
    BY <2>1, CatalogAssumption
  <2>3. /\ n \in Nat /\ DOMAIN proposals[v] = 1..n /\ 1..(n + 1) = 1..n \cup {n + 1}
        /\ DOMAIN Append(proposals[v], row) = 1..(n + 1)
        /\ Append(proposals[v], row)[n + 1] = row
        /\ \A i \in 1..n : Append(proposals[v], row)[i] = proposals[v][i]
    BY <1>0, <2>1, SMTT(30)
  <2>4. /\ proposals'[v] = Append(proposals[v], row)
        /\ \A u \in Versions \ {v} : proposals'[u] = proposals[u]
    BY <1>0, <1>2, <2>1 DEF SaveProposal
  <2>5. \A u \in Versions : \A i \in DOMAIN proposals[u] :
          proposals[u][i].approvedBy # proposals[u][i].proposedBy
    BY DEF ApprovalsInv
  <2> HIDE DEF v, row, n
  <2>6. \A u \in Versions : \A i \in DOMAIN proposals[u] :
          i \in DOMAIN proposals'[u] /\ proposals'[u][i] = proposals[u][i]
    <3> SUFFICES ASSUME NEW u \in Versions, NEW i \in DOMAIN proposals[u]
                 PROVE  i \in DOMAIN proposals'[u] /\ proposals'[u][i] = proposals[u][i]
      OBVIOUS
    <3>1. CASE u = v
      BY <2>3, <2>4, <3>1
    <3>2. CASE u # v
      BY <2>4, <3>2
    <3> QED
      BY <3>1, <3>2
  <2>7. \A u \in Versions : \A i \in DOMAIN proposals'[u] :
          proposals'[u][i].approvedBy # proposals'[u][i].proposedBy
    <3> SUFFICES ASSUME NEW u \in Versions, NEW i \in DOMAIN proposals'[u]
                 PROVE  proposals'[u][i].approvedBy # proposals'[u][i].proposedBy
      OBVIOUS
    <3>1. CASE u # v
      BY <2>4, <2>5, <3>1
    <3>2. CASE u = v /\ i \in 1..n
      <4>1. i \in DOMAIN proposals[u] /\ proposals'[u][i] = proposals[u][i]
        BY <2>3, <2>4, <3>2
      <4> QED
        BY <2>5, <4>1
    <3>3. CASE u = v /\ i = n + 1
      BY <2>2, <2>3, <2>4, <3>3
    <3> QED
      BY <2>3, <2>4, <3>1, <3>2, <3>3
  <2> QED
    BY <2>6, <2>7
<1>3. CASE StampApproval(o)
  <2> DEFINE v == op[o].version
             i == op[o].row
             row == [proposals[v][i] EXCEPT !.approvedBy = op[o].by]
  <2>1. v \in Versions /\ op[o].by \in People /\ i \in DOMAIN proposals[v]
          /\ proposals[v][i].proposedBy # op[o].by
    BY <1>3, OpShapes DEF StampApproval, ApprovalsInv
  <2>2. proposals[v][i] \in ApprovalRow
    BY <1>0, <2>1, SMTT(30)
  <2>3. row.approvedBy = op[o].by /\ row.proposedBy = proposals[v][i].proposedBy
    BY <2>2 DEF ApprovalRow
  <2>4. op[o].by # "null"
    BY <2>1, CatalogAssumption
  <2>5. /\ proposals'[v] = [proposals[v] EXCEPT ![i] = row]
        /\ \A u \in Versions \ {v} : proposals'[u] = proposals[u]
    BY <1>0, <1>3, <2>1 DEF StampApproval
  <2>6. \A u \in Versions : \A j \in DOMAIN proposals[u] :
          proposals[u][j].approvedBy # proposals[u][j].proposedBy
    BY DEF ApprovalsInv
  <2> HIDE DEF v, row, i
  <2>7. /\ DOMAIN proposals'[v] = DOMAIN proposals[v]
        /\ proposals'[v][i] = row
        /\ \A j \in DOMAIN proposals[v] \ {i} : proposals'[v][j] = proposals[v][j]
    BY <1>0, <2>1, <2>5
  <2>8. ASSUME NEW u \in Versions, NEW j \in DOMAIN proposals[u]
        PROVE  /\ j \in DOMAIN proposals'[u]
               /\ proposals'[u][j].proposedBy = proposals[u][j].proposedBy
               /\ proposals[u][j].approvedBy # "null" => proposals'[u][j].approvedBy # "null"
    BY <2>3, <2>4, <2>5, <2>7
  <2>9. ASSUME NEW u \in Versions, NEW j \in DOMAIN proposals'[u]
        PROVE  proposals'[u][j].approvedBy # proposals'[u][j].proposedBy
    BY <2>1, <2>3, <2>5, <2>6, <2>7, SMTT(30)
  <2> QED
    BY <2>8, <2>9
<1> QED
  BY <1>1, <1>2, <1>3 DEF OperatorStep, Propose, Approve, ActivateBegin, Withdraw, MarkProposed,
     ActivateCheck, CommitChange, RecordAudit, AssessNext, CrashOperator

LEMMA StaysApproved ==
  ASSUME CatalogTypes, ApprovalsInv, NEW o \in Operators, OperatorStep(o),
         NEW v \in Versions, Approved(v)
  PROVE  Approved(v)'
BY ApprovalsGrow DEF Approved

(* The newest proposal being approved, the version is.                      *)
LEMMA TransitionIsApproved ==
  ASSUME CatalogTypes, ApprovalsInv, NEW v \in Versions, HasApprovedTransition(v)
  PROVE  Approved(v)
<1>1. proposals[v] \in Seq(ApprovalRow) /\ proposals[v] # <<>>
  BY DEF CatalogTypes, HasApprovedTransition
<1>2. Len(proposals[v]) \in DOMAIN proposals[v]
  BY <1>1, SMTT(30)
<1> QED
  BY <1>2 DEF Approved, HasApprovedTransition, ApprovalsInv

LEMMA OpOthers ==
  ASSUME CatalogTypes, NEW o \in Operators, NEW call, op' = [op EXCEPT ![o] = call]
  PROVE  op'[o] = call /\ \A p \in Operators \ {o} : op'[p] = op[p]
BY DEF CatalogTypes

LEMMA StampsKept ==
  ASSUME CatalogTypes, ApprovalsInv, NEW o \in Operators, OperatorStep(o),
         NEW p \in Operators, op'[p].step = "stamp"
  PROVE  /\ op'[p].row \in DOMAIN proposals'[op'[p].version]
         /\ proposals'[op'[p].version][op'[p].row].proposedBy # op'[p].by
<1>1. ASSUME op'[p] = op[p]
      PROVE  /\ op'[p].row \in DOMAIN proposals'[op'[p].version]
             /\ proposals'[op'[p].version][op'[p].row].proposedBy # op'[p].by
  <2>1. /\ op[p].version \in Versions
        /\ op[p].row \in DOMAIN proposals[op[p].version]
        /\ proposals[op[p].version][op[p].row].proposedBy # op[p].by
    BY <1>1, OpShapes DEF ApprovalsInv
  <2> QED
    BY <1>1, <2>1, ApprovalsGrow
<1>2. ASSUME NEW v \in Versions, NEW by \in People, Approve(o, v, by)
      PROVE  /\ op'[p].row \in DOMAIN proposals'[op'[p].version]
             /\ proposals'[op'[p].version][op'[p].row].proposedBy # op'[p].by
  <2> DEFINE pending == {i \in DOMAIN proposals[v] : proposals[v][i].approvedBy = "null"}
             next == [kind |-> "approve", step |-> "stamp", version |-> v, by |-> by,
                      row |-> Max(pending)]
  <2>1. Len(proposals[v]) \in Nat /\ pending \in SUBSET (1..Len(proposals[v])) /\ pending # {}
    BY <1>2, SMTT(30) DEF Approve, CatalogTypes
  <2>2. Max(pending) \in DOMAIN proposals[v]
    BY <2>1, MaxOfPositions
  <2>3. proposals[v][Max(pending)].proposedBy # by /\ proposals' = proposals
          /\ op' = [op EXCEPT ![o] = next]
    BY <1>2 DEF Approve, MayApprove, OpBegin
  <2>4. next.row = Max(pending) /\ next.version = v /\ next.by = by
    OBVIOUS
  <2> HIDE DEF next, pending
  <2>5. op'[o] = next /\ (p # o => op'[p] = op[p])
    BY <2>3, OpOthers
  <2> QED
    BY <1>1, <2>2, <2>3, <2>4, <2>5
<1>3. ASSUME NEW call, op' = [op EXCEPT ![o] = call], call.step # "stamp"
      PROVE  op'[p] = op[p]
  BY <1>3, OpOthers
<1>4. (\E v \in Versions, by \in People : Approve(o, v, by)) \/ op'[p] = op[p]
  <2>1. CASE MarkProposed(o)
    <3>1. op[o] \in [kind: {"propose"}, step: {"mark", "save"}, version: Versions, by: People]
      BY <2>1, OpShapes DEF MarkProposed
    <3>2. [op[o] EXCEPT !.step = "save"].step # "stamp"
      BY <3>1
    <3> QED
      BY <1>3, <2>1, <3>2 DEF MarkProposed, OpGoto
  <2>2. CASE ActivateCheck(o)
    <3>1. op[o] \in [kind: Changes, step: {"approved", "commit"}, version: Versions]
      BY <2>2, OpShapes DEF ActivateCheck
    <3>2. [op[o] EXCEPT !.step = "commit"].step # "stamp" /\ NoCall.step # "stamp"
      BY <3>1 DEF NoCall
    <3> QED
      BY <1>3, <2>2, <3>2 DEF ActivateCheck, OpGoto
  <2>3. ASSUME NEW c \in Cases, AssessNext(o, c)
        PROVE  op'[p] = op[p]
    <3>1. [op[o] EXCEPT !.todo = @ \ {c}].step # "stamp"
      BY <2>3, OpShapes DEF AssessNext
    <3> QED
      BY <1>3, <2>3, <3>1 DEF AssessNext, OpGoto
  <2>4. CASE SaveProposal(o) \/ StampApproval(o) \/ RecordAudit(o) \/ CrashOperator(o)
    <3>1. op' = [op EXCEPT ![o] = NoCall] /\ NoCall.step # "stamp"
      BY <2>4 DEF SaveProposal, StampApproval, RecordAudit, CrashOperator, OpGoto, NoCall
    <3> QED
      BY <1>3, <3>1
  <2>5. ASSUME NEW v \in Versions, NEW by \in People, Propose(o, v, by)
        PROVE  op'[p] = op[p]
    BY <1>3, <2>5, SMTT(30) DEF Propose, OpBegin
  <2>6. ASSUME NEW v \in Versions, ActivateBegin(o, v)
        PROVE  op'[p] = op[p]
    BY <1>3, <2>6, SMTT(30) DEF ActivateBegin, OpBegin
  <2>8. ASSUME NEW v \in Versions, Withdraw(o, v)
        PROVE  op'[p] = op[p]
    BY <1>3, <2>8, SMTT(30) DEF Withdraw, OpBegin
  <2>7. CASE CommitChange(o)
    <3> DEFINE next == [kind |-> op[o].kind, step |-> "assess", version |-> op[o].version,
                        at |-> generation + 1, todo |-> Candidates(op[o].version)]
    <3>1. op' = [op EXCEPT ![o] = next] /\ next.step # "stamp"
      BY <2>7 DEF CommitChange, OpGoto
    <3> HIDE DEF next
    <3> QED
      BY <1>3, <3>1
  <2> QED
    BY <2>1, <2>2, <2>3, <2>4, <2>5, <2>6, <2>7, <2>8 DEF OperatorStep
<1> QED
  BY <1>1, <1>2, <1>4

LEMMA CommitsKept ==
  ASSUME CatalogTypes, ApprovalsInv, NEW o \in Operators, OperatorStep(o),
         NEW p \in Operators, op'[p].step = "commit",
         NEW v \in Versions, op'[p].version = v
  PROVE  v \in Seeded \/ Approved(v)'
<1>1. SUFFICES v \in Seeded \/ Approved(v)
  BY StaysApproved
<1>2. ASSUME op'[p] = op[p]
      PROVE  v \in Seeded \/ Approved(v)
  BY <1>2 DEF ApprovalsInv
<1>3. ASSUME NEW call, op' = [op EXCEPT ![o] = call], call.step # "commit"
      PROVE  op'[p] = op[p]
  BY <1>3, OpOthers
<1>4. CASE ActivateCheck(o)
  <2>1. CASE HasApprovedTransition(op[o].version)
    <3> DEFINE next == [op[o] EXCEPT !.step = "commit"]
    <3>1. next.version = op[o].version /\ op[o].version \in Versions
      BY <1>4, OpShapes DEF ActivateCheck
    <3>2. op' = [op EXCEPT ![o] = next]
      BY <1>4, <2>1 DEF ActivateCheck, OpGoto
    <3> HIDE DEF next
    <3>3. op'[o] = next /\ (p # o => op'[p] = op[p])
      BY <3>2, OpOthers
    <3>4. Approved(op[o].version)
      BY <2>1, <3>1, TransitionIsApproved
    <3>5. p = o => Approved(v)
      BY <3>1, <3>3, <3>4
    <3> QED
      BY <1>2, <3>3, <3>5
  <2>2. CASE ~HasApprovedTransition(op[o].version)
    <3>1. op' = [op EXCEPT ![o] = NoCall] /\ NoCall.step # "commit"
      BY <1>4, <2>2 DEF ActivateCheck, OpGoto, NoCall
    <3> QED
      BY <1>2, <1>3, <3>1
  <2> QED
    BY <2>1, <2>2
<1>5. ASSUME NEW w \in Versions, Withdraw(o, w)
      PROVE  v \in Seeded \/ Approved(v)
  <2> DEFINE next == [kind |-> "withdraw", step |-> "commit", version |-> w]
  <2>1. op' = [op EXCEPT ![o] = next] /\ next.version = w /\ release[w] = "RELEASED"
    BY <1>5 DEF Withdraw, OpBegin
  <2> HIDE DEF next
  <2>2. op'[o] = next /\ (p # o => op'[p] = op[p])
    BY <2>1, OpOthers
  <2>3. w \in Seeded \/ Approved(w)
    BY <2>1 DEF ApprovalsInv, ReleasedWithApproval, Approved
  <2> QED
    BY <1>2, <2>1, <2>2, <2>3
<1>6. CASE MarkProposed(o)
  <2>1. [op[o] EXCEPT !.step = "save"].step # "commit"
    BY <1>6, OpShapes DEF MarkProposed
  <2> QED
    BY <1>2, <1>3, <1>6, <2>1 DEF MarkProposed, OpGoto
<1>7. ASSUME NEW c \in Cases, AssessNext(o, c)
      PROVE  op'[p] = op[p]
  <2>1. [op[o] EXCEPT !.todo = @ \ {c}].step # "commit"
    BY <1>7, OpShapes DEF AssessNext
  <2> QED
    BY <1>3, <1>7, <2>1 DEF AssessNext, OpGoto
<1>8. CASE SaveProposal(o) \/ StampApproval(o) \/ RecordAudit(o) \/ CrashOperator(o)
  <2>1. op' = [op EXCEPT ![o] = NoCall] /\ NoCall.step # "commit"
    BY <1>8 DEF SaveProposal, StampApproval, RecordAudit, CrashOperator, OpGoto, NoCall
  <2> QED
    BY <1>2, <1>3, <2>1
<1>9. ASSUME NEW w \in Versions, NEW by \in People, Propose(o, w, by)
      PROVE  op'[p] = op[p]
  BY <1>3, <1>9, SMTT(30) DEF Propose, OpBegin
<1>12. ASSUME NEW w \in Versions, NEW by \in People, Approve(o, w, by)
       PROVE  op'[p] = op[p]
  BY <1>3, <1>12, SMTT(30) DEF Approve, OpBegin
<1>10. ASSUME NEW w \in Versions, ActivateBegin(o, w)
       PROVE  op'[p] = op[p]
  BY <1>3, <1>10, SMTT(30) DEF ActivateBegin, OpBegin
<1>11. CASE CommitChange(o)
  <2> DEFINE next == [kind |-> op[o].kind, step |-> "assess", version |-> op[o].version,
                      at |-> generation + 1, todo |-> Candidates(op[o].version)]
  <2>1. op' = [op EXCEPT ![o] = next] /\ next.step # "commit"
    BY <1>11 DEF CommitChange, OpGoto
  <2> HIDE DEF next
  <2> QED
    BY <1>2, <1>3, <2>1
<1> QED
  BY <1>2, <1>4, <1>5, <1>6, <1>7, <1>8, <1>9, <1>10, <1>11, <1>12
     DEF OperatorStep

LEMMA ReleasesKept ==
  ASSUME CatalogTypes, ApprovalsInv, NEW o \in Operators, OperatorStep(o)
  PROVE  ReleasedWithApproval'
<1>1. SUFFICES ASSUME NEW v \in Versions \ Seeded, release'[v] \in {"RELEASED", "WITHDRAWN"}
               PROVE  Approved(v)
  BY StaysApproved DEF ReleasedWithApproval, Approved
<1>2. release[v] \in {"RELEASED", "WITHDRAWN"} => Approved(v)
  BY DEF ApprovalsInv, ReleasedWithApproval, Approved
<1>3. CASE MarkProposed(o)
  <2>1. release' = [release EXCEPT ![op[o].version] = "PROPOSED"]
    BY <1>3 DEF MarkProposed
  <2> QED
    BY <1>1, <1>2, <2>1 DEF CatalogTypes
<1>4. CASE CommitChange(o)
  <2>1. \E st : release' = [release EXCEPT ![op[o].version] = st]
    BY <1>4 DEF CommitChange
  <2>2. op[o].version \in Seeded \/ Approved(op[o].version)
    BY <1>4 DEF CommitChange, ApprovalsInv
  <2> QED
    BY <1>1, <1>2, <2>1, <2>2 DEF CatalogTypes
<1>5. CASE release' = release
  BY <1>1, <1>2, <1>5
<1> QED
  BY <1>3, <1>4, <1>5 DEF OperatorStep, Propose, Approve, ActivateBegin, Withdraw, SaveProposal,
     StampApproval, ActivateCheck, RecordAudit, AssessNext, CrashOperator

LEMMA ApprovalsKept ==
  ASSUME CatalogTypes, BindingTypes, ApprovalsInv, [CatalogNext]_vars
  PROVE  ApprovalsInv'
<1>1. ASSUME NEW o \in Operators, OperatorStep(o)
      PROVE  ApprovalsInv'
  <2>1. \A p \in Operators : op'[p].step = "commit" => op'[p].version \in Versions
    <3>1. CatalogTypes'
      BY TypesKept
    <3>2. op' \in [Operators -> OpCalls]
      BY <3>1 DEF CatalogTypes
    <3> QED
      BY <3>2, SMTT(30) DEF OpCalls, NoCall
  <2>2. ASSUME NEW p \in Operators, op'[p].step = "commit"
        PROVE  op'[p].version \in Seeded \/ Approved(op[p].version)'
    <3>1. PICK v \in Versions : op'[p].version = v
      BY <2>1, <2>2
    <3>2. v \in Seeded \/ Approved(v)'
      BY <1>1, <2>2, <3>1, CommitsKept
    <3> QED
      BY <3>1, <3>2 DEF Approved
  <2> QED
    BY <1>1, <2>2, ApprovalsGrow, StampsKept, ReleasesKept DEF ApprovalsInv
<1>2. CASE UNCHANGED <<release, proposals, op>>
  BY <1>2 DEF ApprovalsInv, Approved, ReleasedWithApproval
<1> QED
  BY <1>1, <1>2, EveryStep, EvaluatorFrame, OtherFrame

-----------------------------------------------------------------------------
(***************************************************************************)
(* Assessments.                                                            *)
(***************************************************************************)

(* Assessments are only added, the generation only grows, and no binding    *)
(* row is removed or revived.                                               *)
Grows ==
  /\ assessments \subseteq assessments'
  /\ generation' \in Nat /\ generation <= generation'
  /\ \A c \in Cases : \A i \in DOMAIN bindings[c] :
       i \in DOMAIN bindings'[c] /\ (bindings'[c][i].live => bindings[c][i].live)

LEMMA EveryStepGrows ==
  ASSUME CatalogTypes, BindingTypes, [CatalogNext]_vars
  PROVE  Grows
<1>0. generation \in Nat
  BY DEF CatalogTypes
<1>1. ASSUME NEW o \in Operators, OperatorStep(o)
      PROVE  Grows
  <2>1. assessments \subseteq assessments'
    BY <1>1
       DEF OperatorStep, Propose, Approve, ActivateBegin, Withdraw, MarkProposed, SaveProposal,
       StampApproval, ActivateCheck, CommitChange, RecordAudit, AssessNext, CrashOperator,
       AssessOneCase
  <2>2. generation' = generation \/ generation' = generation + 1
    BY <1>1
       DEF OperatorStep, Propose, Approve, ActivateBegin, Withdraw, MarkProposed, SaveProposal,
       StampApproval, ActivateCheck, CommitChange, RecordAudit, AssessNext, CrashOperator
  <2> QED
    BY <1>0, <1>1, <2>1, <2>2, OperatorFrame, SMTT(30) DEF Grows
<1>2. ASSUME NEW e \in Evaluators, EvaluatorStep(e)
      PROVE  Grows
  BY <1>0, <1>2, EvaluationRows, EvaluatorFrame, SMTT(30) DEF Grows, RowsStep
<1>3. CASE OtherStep
  <2>1. assessments \subseteq assessments'
    BY <1>3 DEF OtherStep, AssessImpactForCase, RecordRevision, Tick, governanceVars, vars,
       AssessOneCase
  <2> QED
    BY <1>0, <1>3, <2>1, OtherFrame, SMTT(30) DEF Grows
<1> QED
  BY <1>1, <1>2, <1>3, EveryStep

(* What was assessed stays assessed, unless the version changes again.      *)
LEMMA AssessedStays ==
  ASSUME CatalogTypes, AssessedInv, Grows, NEW v \in Versions, NEW at, NEW some,
         exposed'[v] = exposed[v], AssessedAmong(v, at, some)
  PROVE  AssessedAmong(v, at, some)'
<1> SUFFICES ASSUME NEW x \in exposed[v], x.at = at, x.case \in some,
                    x.row \in LiveBindings(x.case)'
             PROVE  Assessed(v, x)'
  BY DEF AssessedAmong
<1>1. x.case \in Cases /\ x.row \in DOMAIN bindings[x.case]
  BY SMTT(30) DEF AssessedInv, CatalogTypes, ExposedRow
<1>2. bindings'[x.case][x.row].live
  BY DEF LiveBindings
<1>3. x.row \in LiveBindings(x.case)
  BY <1>1, <1>2 DEF Grows, LiveBindings
<1>4. Assessed(v, x)
  BY <1>3 DEF AssessedAmong
<1> QED
  BY <1>4 DEF Assessed, Grows

(* A new change exposes rows of its own generation only.                    *)
LEMMA LaterChange ==
  ASSUME NEW v, NEW at, NEW some, \A x \in exposed'[v] : x.at # at
  PROVE  AssessedAmong(v, at, some)'
BY DEF AssessedAmong

LEMMA ExposedKept ==
  ASSUME CatalogTypes, BindingTypes, AssessedInv, [CatalogNext]_vars, Grows
  PROVE  \A v \in Versions : \A x \in exposed'[v] :
           x.at <= generation' /\ x.row \in DOMAIN bindings'[x.case]
<1>1. CASE exposed' = exposed
  <2>1. SUFFICES ASSUME NEW v \in Versions, NEW x \in exposed[v]
                 PROVE  x.at <= generation' /\ x.row \in DOMAIN bindings'[x.case]
    BY <1>1
  <2>2. x.case \in Cases /\ x.at \in Nat /\ x.at <= generation /\ x.row \in DOMAIN bindings[x.case]
    BY SMTT(30) DEF AssessedInv, CatalogTypes, ExposedRow
  <2> QED
    BY <2>2, SMTT(30) DEF Grows, CatalogTypes
<1>2. ASSUME NEW o \in Operators, CommitChange(o)
      PROVE  \A v \in Versions : \A x \in exposed'[v] :
               x.at <= generation' /\ x.row \in DOMAIN bindings'[x.case]
  <2> DEFINE live == UNION {{[case |-> c, row |-> i, at |-> generation + 1] :
                              i \in LiveBindings(c)} : c \in Cases}
  <2>1. SUFFICES ASSUME NEW v \in Versions, NEW x \in exposed'[v]
                 PROVE  x.at <= generation' /\ x.row \in DOMAIN bindings'[x.case]
    OBVIOUS
  <2>2. /\ exposed' = [exposed EXCEPT ![op[o].version] = live]
        /\ generation' = generation + 1 /\ bindings' = bindings
    BY <1>2 DEF CommitChange, caseVars
  <2>3. \A y \in live : y.at = generation + 1 /\ y.row \in DOMAIN bindings[y.case]
    BY SMTT(30) DEF LiveBindings
  <2>4. generation \in Nat
    BY DEF CatalogTypes
  <2> HIDE DEF live
  <2>5. x \in live \/ x \in exposed[v]
    BY <2>1, <2>2 DEF CatalogTypes
  <2>6. CASE x \in live
    BY <2>2, <2>3, <2>4, <2>6, SMTT(30)
  <2>7. CASE x \in exposed[v]
    <3>1. x.at \in Nat /\ x.at <= generation /\ x.row \in DOMAIN bindings[x.case]
      BY <2>7, SMTT(30) DEF AssessedInv, CatalogTypes, ExposedRow
    <3> QED
      BY <2>2, <2>4, <3>1, SMTT(30)
  <2> QED
    BY <2>5, <2>6, <2>7
<1> QED
  BY <1>1, <1>2, EveryStep, EvaluatorFrame, OtherFrame
     DEF OperatorStep, Propose, Approve, ActivateBegin,
     Withdraw, MarkProposed, SaveProposal, StampApproval, ActivateCheck, RecordAudit, AssessNext,
     CrashOperator

LEMMA AssessedPersists ==
  ASSUME CatalogTypes, AssessedInv, [CatalogNext]_vars, Grows,
         NEW v \in Versions, NEW at \in Nat, at <= generation, NEW some, AssessedAmong(v, at, some)
  PROVE  AssessedAmong(v, at, some)'
<1>1. CASE exposed'[v] = exposed[v]
  BY <1>1, AssessedStays
<1>2. ASSUME NEW o \in Operators, CommitChange(o)
      PROVE  AssessedAmong(v, at, some)'
  <2> DEFINE live == UNION {{[case |-> c, row |-> i, at |-> generation + 1] :
                              i \in LiveBindings(c)} : c \in Cases}
  <2>1. exposed' = [exposed EXCEPT ![op[o].version] = live]
    BY <1>2 DEF CommitChange
  <2>2. \A y \in live : y.at = generation + 1
    BY SMTT(30)
  <2>3. generation \in Nat
    BY DEF CatalogTypes
  <2> HIDE DEF live
  <2>4. CASE v = op[o].version
    <3>1. exposed'[v] = live
      BY <2>1, <2>4 DEF CatalogTypes
    <3>2. \A x \in exposed'[v] : x.at # at
      BY <2>2, <2>3, <3>1, SMTT(30)
    <3> QED
      BY <3>2, LaterChange
  <2>5. CASE v # op[o].version
    BY <1>1, <2>1, <2>5 DEF CatalogTypes
  <2> QED
    BY <2>4, <2>5
<1> QED
  BY <1>1, <1>2, EveryStep, EvaluatorFrame, OtherFrame
     DEF OperatorStep, Propose, Approve, ActivateBegin,
     Withdraw, MarkProposed, SaveProposal, StampApproval, ActivateCheck, RecordAudit, AssessNext,
     CrashOperator

(* One more case is assessed, at a generation no earlier than the change.   *)
LEMMA OneMoreCase ==
  ASSUME CatalogTypes, BindingTypes, AssessedInv, NEW v \in Versions, NEW c \in Cases,
         NEW at, NEW done, AssessedAmong(v, at, done),
         assessments' = AssessOneCase(v, c), UNCHANGED <<bindings, exposed>>
  PROVE  AssessedAmong(v, at, done \cup {c})'
<1> SUFFICES ASSUME NEW x \in exposed[v], x.at = at, x.case \in done \cup {c},
                    x.row \in LiveBindings(x.case)
             PROVE  \E a \in assessments' : a.version = v /\ a.case = x.case /\ a.seen >= x.at
  BY DEF AssessedAmong, LiveBindings, Assessed
<1>1. CASE x.case \in done
  <2>1. Assessed(v, x)
    BY <1>1 DEF AssessedAmong
  <2> QED
    BY <2>1 DEF Assessed, AssessOneCase
<1>2. CASE x.case = c
  <2>1. x.at \in Nat /\ x.at <= generation /\ generation \in Nat
    BY SMTT(30) DEF CatalogTypes, ExposedRow, AssessedInv
  <2> DEFINE a == [version |-> v, case |-> c, seen |-> generation,
                   impact |-> ClassifyImpact(bindings[c][x.row].content,
                                             Resolve(c, clock, clock, release, recorded))]
  <2>2. a \in AssessOneCase(v, c)
    BY <1>2 DEF AssessOneCase
  <2>3. a.version = v /\ a.case = x.case /\ a.seen >= x.at
    BY <1>2, <2>1
  <2> HIDE DEF a
  <2> QED
    BY <2>2, <2>3
<1> QED
  BY <1>1, <1>2

(* Of an operator that is assessing: what it holds after the step.          *)
LEMMA AssessingKept ==
  ASSUME CatalogTypes, BindingTypes, AssessedInv, [CatalogNext]_vars, Grows,
         NEW p \in Operators, NEW v \in Versions, NEW at \in Nat, NEW todo,
         op'[p].step = "assess", op'[p].version = v, op'[p].at = at, op'[p].todo = todo
  PROVE  at <= generation' /\ AssessedAmong(v, at, Candidates(v) \ todo)'
<1>1. ASSUME op'[p] = op[p]
      PROVE  at <= generation' /\ AssessedAmong(v, at, Candidates(v) \ todo)'
  <2>1. at <= generation /\ AssessedAmong(v, at, Candidates(v) \ todo)
    BY <1>1 DEF AssessedInv
  <2> QED
    BY <2>1, AssessedPersists, SMTT(30) DEF Grows, CatalogTypes
<1>2. ASSUME NEW o \in Operators, NEW call, op' = [op EXCEPT ![o] = call], call.step # "assess"
      PROVE  op'[p] = op[p]
  BY <1>2, OpOthers
<1>3. ASSUME NEW o \in Operators, CommitChange(o)
      PROVE  at <= generation' /\ AssessedAmong(v, at, Candidates(v) \ todo)'
  <2> DEFINE next == [kind |-> op[o].kind, step |-> "assess", version |-> op[o].version,
                      at |-> generation + 1, todo |-> Candidates(op[o].version)]
  <2>1. op' = [op EXCEPT ![o] = next] /\ generation' = generation + 1
    BY <1>3 DEF CommitChange, OpGoto
  <2>2. /\ next.version = op[o].version /\ next.at = generation + 1
        /\ next.todo = Candidates(op[o].version)
    OBVIOUS
  <2> HIDE DEF next
  <2>3. op'[o] = next /\ (p # o => op'[p] = op[p])
    BY <2>1, OpOthers
  <2>4. CASE p = o
    <3>1. Candidates(v) \ todo = {} /\ at = generation'
      BY <2>1, <2>2, <2>3, <2>4
    <3> QED
      BY <3>1, SMTT(30) DEF AssessedAmong
  <2> QED
    BY <1>1, <2>3, <2>4
<1>4. ASSUME NEW o \in Operators, NEW c \in Cases, AssessNext(o, c)
      PROVE  at <= generation' /\ AssessedAmong(v, at, Candidates(v) \ todo)'
  <2> DEFINE next == [op[o] EXCEPT !.todo = @ \ {c}]
  <2>1. /\ op' = [op EXCEPT ![o] = next] /\ UNCHANGED <<generation, bindings, exposed>>
        /\ assessments' = AssessOneCase(op[o].version, c) /\ op[o].step = "assess"
    BY <1>4 DEF AssessNext, OpGoto
  <2>2. /\ next.version = op[o].version /\ next.at = op[o].at /\ next.todo = op[o].todo \ {c}
    BY <2>1, OpShapes
  <2> HIDE DEF next
  <2>3. op'[o] = next /\ (p # o => op'[p] = op[p])
    BY <2>1, OpOthers
  <2>4. CASE p = o
    <3> DEFINE done == Candidates(v) \ op[o].todo
    <3>1. at <= generation /\ AssessedAmong(v, at, done)
      BY <2>1, <2>2, <2>3, <2>4 DEF AssessedInv
    <3>2. PICK some : some = done
      OBVIOUS
    <3>3. AssessedAmong(v, at, some \cup {c})'
      BY <2>1, <2>2, <2>3, <2>4, <3>1, <3>2, OneMoreCase, SMTT(30)
    <3>4. Candidates(v) \ todo \subseteq some \cup {c}
      BY <2>2, <2>3, <2>4, <3>2
    <3> HIDE DEF done
    <3> QED
      BY <2>1, <3>1, <3>3, <3>4 DEF AssessedAmong
  <2> QED
    BY <1>1, <2>3, <2>4
<1>5. ASSUME NEW o \in Operators, OperatorStep(o), ~CommitChange(o),
             \A c \in Cases : ~AssessNext(o, c)
      PROVE  op'[p] = op[p]
  <2>1. CASE MarkProposed(o)
    <3>1. [op[o] EXCEPT !.step = "save"].step # "assess"
      BY <2>1, OpShapes DEF MarkProposed
    <3> QED
      BY <1>2, <2>1, <3>1 DEF MarkProposed, OpGoto
  <2>2. CASE ActivateCheck(o)
    <3>1. [op[o] EXCEPT !.step = "commit"].step # "assess" /\ NoCall.step # "assess"
      BY <2>2, OpShapes DEF ActivateCheck, NoCall
    <3> QED
      BY <1>2, <2>2, <3>1 DEF ActivateCheck, OpGoto
  <2>3. CASE SaveProposal(o) \/ StampApproval(o) \/ RecordAudit(o) \/ CrashOperator(o)
    <3>1. op' = [op EXCEPT ![o] = NoCall] /\ NoCall.step # "assess"
      BY <2>3 DEF SaveProposal, StampApproval, RecordAudit, CrashOperator, OpGoto, NoCall
    <3> QED
      BY <1>2, <3>1
  <2>4. ASSUME NEW w \in Versions, NEW by \in People, Propose(o, w, by)
        PROVE  op'[p] = op[p]
    BY <1>2, <2>4, SMTT(30) DEF Propose, OpBegin
  <2>5. ASSUME NEW w \in Versions, NEW by \in People, Approve(o, w, by)
        PROVE  op'[p] = op[p]
    BY <1>2, <2>5, SMTT(30) DEF Approve, OpBegin
  <2>6. ASSUME NEW w \in Versions, ActivateBegin(o, w)
        PROVE  op'[p] = op[p]
    BY <1>2, <2>6, SMTT(30) DEF ActivateBegin, OpBegin
  <2>7. ASSUME NEW w \in Versions, Withdraw(o, w)
        PROVE  op'[p] = op[p]
    BY <1>2, <2>7, SMTT(30) DEF Withdraw, OpBegin
  <2> QED
    BY <1>5, <2>1, <2>2, <2>3, <2>4, <2>5, <2>6, <2>7 DEF OperatorStep
<1>6. ASSUME NEW o \in Operators, OperatorStep(o)
      PROVE  at <= generation' /\ AssessedAmong(v, at, Candidates(v) \ todo)'
  BY <1>1, <1>3, <1>4, <1>5, <1>6
<1>7. CASE op' = op
  BY <1>1, <1>7
<1> QED
  BY <1>6, <1>7, EveryStep, EvaluatorFrame, OtherFrame

LEMMA AuditsKept ==
  ASSUME CatalogTypes, BindingTypes, AssessedInv, [CatalogNext]_vars, Grows,
         NEW r \in audited'
  PROVE  r.at <= generation' /\ AssessedAmong(r.version, r.at, Candidates(r.version))'
<1>1. CASE r \in audited
  <2>1. /\ r.version \in Versions /\ r.at \in Nat /\ r.at <= generation
        /\ AssessedAmong(r.version, r.at, Candidates(r.version))
    BY <1>1 DEF AssessedInv, CatalogTypes, AuditRow
  <2> QED
    BY <2>1, AssessedPersists, SMTT(30) DEF Grows, CatalogTypes
<1>2. ASSUME NEW o \in Operators, RecordAudit(o), r \notin audited
      PROVE  r.at <= generation' /\ AssessedAmong(r.version, r.at, Candidates(r.version))'
  <2>1. r.version = op[o].version /\ r.at = op[o].at /\ op[o].step = "assess" /\ op[o].todo = {}
    BY <1>2, SMTT(30) DEF RecordAudit
  <2>2. /\ r.version \in Versions /\ r.at \in Nat /\ r.at <= generation
        /\ AssessedAmong(r.version, r.at, Candidates(r.version) \ {})
    BY <2>1, OpShapes DEF AssessedInv
  <2>3. Candidates(r.version) \ {} = Candidates(r.version)
    OBVIOUS
  <2> QED
    BY <2>2, <2>3, AssessedPersists, SMTT(30) DEF Grows, CatalogTypes
<1> QED
  BY <1>1, <1>2, EveryStep, EvaluatorFrame, OtherFrame
     DEF OperatorStep, Propose, Approve, ActivateBegin,
     Withdraw, MarkProposed, SaveProposal, StampApproval, ActivateCheck, CommitChange, AssessNext,
     CrashOperator

LEMMA AssessedKept ==
  ASSUME CatalogTypes, BindingTypes, ApprovalsInv, AssessedInv, [CatalogNext]_vars
  PROVE  AssessedInv'
<1>1. Grows /\ CatalogTypes'
  BY EveryStepGrows, TypesKept
<1>2. ASSUME NEW p \in Operators, op'[p].step = "assess"
      PROVE  /\ op'[p].at <= generation'
             /\ AssessedAmong(op[p].version, op[p].at, Candidates(op[p].version) \ op[p].todo)'
  <2>1. op'[p].version \in Versions /\ op'[p].at \in Nat
    <3>1. op' \in [Operators -> OpCalls]
      BY <1>1 DEF CatalogTypes
    <3> QED
      BY <1>2, <3>1, SMTT(30) DEF OpCalls, NoCall
  <2>2. PICK v \in Versions : v = op'[p].version
    BY <2>1
  <2>3. PICK at \in Nat : at = op'[p].at
    BY <2>1
  <2>4. PICK todo : todo = op'[p].todo
    OBVIOUS
  <2>5. at <= generation' /\ AssessedAmong(v, at, Candidates(v) \ todo)'
    BY <1>1, <1>2, <2>2, <2>3, <2>4, AssessingKept
  <2> QED
    BY <2>2, <2>3, <2>4, <2>5 DEF AssessedAmong, Assessed
<1> QED
  BY <1>1, <1>2, ExposedKept, AuditsKept DEF AssessedInv
-----------------------------------------------------------------------------
(***************************************************************************)
(* The theorem.                                                            *)
(***************************************************************************)

LEMMA GovernedStart == CatalogInit => GovernedInv
<1> SUFFICES ASSUME CatalogInit
             PROVE  GovernedInv
  OBVIOUS
<1>1. CatalogTypes
  <2>1. clock \in 0..MaxTime
    BY CatalogAssumption, SMTT(30) DEF CatalogInit
  <2>2. release \in [Versions -> Statuses]
    BY SMTT(30) DEF CatalogInit, Statuses
  <2>3. proposals \in [Versions -> Seq(ApprovalRow)]
    <3>1. <<>> \in Seq(ApprovalRow)
      BY SMTT(30)
    <3>2. ASSUME NEW p \in People, NEW q \in People
          PROVE  <<[proposedBy |-> p, approvedBy |-> q]>> \in Seq(ApprovalRow)
      BY SMTT(30) DEF ApprovalRow
    <3>3. ASSUME NEW v \in Versions
          PROVE  proposals[v] \in Seq(ApprovalRow)
      <4>1. \/ proposals[v] = <<>>
            \/ \E p \in People, q \in People :
                 proposals[v] = <<[proposedBy |-> p, approvedBy |-> q]>>
        BY SMTT(30) DEF CatalogInit
      <4> QED
        BY <3>1, <3>2, <4>1
    <3>4. proposals = [v \in Versions |-> proposals[v]]
      BY SMTT(30) DEF CatalogInit
    <3> QED
      BY <3>3, <3>4
  <2>4. recorded \in Revisions
    BY CatalogAssumption, SMTT(30) DEF CatalogInit, Revisions
  <2>5. op \in [Operators -> OpCalls]
    BY NoCallIsCall DEF CatalogInit
  <2>6. ev = [e \in Evaluators |-> ev[e]] /\ \A e \in Evaluators : IsEvaluation(ev[e])
    BY NoCallIsCall DEF CatalogInit
  <2>7. exposed \in [Versions -> SUBSET ExposedRow]
    BY DEF CatalogInit
  <2>8. generation \in Nat /\ assessments \subseteq AssessmentRow /\ audited \subseteq AuditRow
    BY DEF CatalogInit
  <2> QED
    BY <2>1, <2>2, <2>3, <2>4, <2>5, <2>6, <2>7, <2>8 DEF CatalogTypes
<1>2. \A e \in Evaluators : ev[e] = NoCall
  BY DEF CatalogInit
<1>3. \A o \in Operators : op[o] = NoCall
  BY DEF CatalogInit
<1>4. LegacyBinding \in BoundRow /\ LegacyBinding.legacy
  BY CatalogAssumption DEF LegacyBinding, BoundRow, ResolvedTo, ResolvedContents
<1>5. \A c \in Cases : bindings[c] = <<>> \/ bindings[c] = <<LegacyBinding>>
  BY SMTT(30) DEF CatalogInit
<1>6. BindingTypes
  <2>1. bindings \in [Cases -> Seq(BoundRow)]
    <3>1. <<>> \in Seq(BoundRow) /\ <<LegacyBinding>> \in Seq(BoundRow)
      BY <1>4, SMTT(30)
    <3>2. bindings = [c \in Cases |-> bindings[c]]
      BY SMTT(30) DEF CatalogInit
    <3> QED
      BY <1>5, <3>1, <3>2
  <2>2. \A c \in Cases : \A i, j \in DOMAIN bindings[c] : i = j
    BY <1>5, SMTT(30)
  <2>3. \A e \in Evaluators : ev[e].step = "idle"
    BY <1>2, SMTT(30) DEF NoCall
  <2> QED
    BY <2>1, <2>2, <2>3 DEF BindingTypes, LiveBindings
<1>7. ApprovalsInv
  <2>1. ASSUME NEW v \in Versions, NEW i \in DOMAIN proposals[v]
        PROVE  proposals[v][i].approvedBy # proposals[v][i].proposedBy
    <3>1. proposals[v] # <<>>
      BY SMTT(30)
    <3>2. PICK p \in People, q \in People : proposals[v] = <<[proposedBy |-> p, approvedBy |-> q]>>
      BY <3>1, SMTT(30) DEF CatalogInit
    <3>3. proposals[v][1].proposedBy # proposals[v][1].approvedBy
      BY <3>1, SMTT(30) DEF CatalogInit
    <3>4. i = 1
      BY <3>2, SMTT(30)
    <3> QED
      BY <3>3, <3>4
  <2>2. ReleasedWithApproval
    BY SMTT(30) DEF CatalogInit, ReleasedWithApproval
  <2> QED
    BY <1>3, <2>1, <2>2, SMTT(30) DEF ApprovalsInv, NoCall
<1>8. AssessedInv
  BY <1>3 DEF CatalogInit, AssessedInv, NoCall
<1> QED
  BY <1>1, <1>6, <1>7, <1>8 DEF GovernedInv

LEMMA GovernedKept == GovernedInv /\ [CatalogNext]_vars => GovernedInv'
BY TypesKept, ApprovalsKept, AssessedKept DEF GovernedInv

LEMMA GovernedImplies ==
  GovernedInv => CatalogTypeOK /\ ReleasedWithApproval /\ ExposedCasesAssessed
<1> SUFFICES ASSUME GovernedInv
             PROVE  CatalogTypeOK /\ ReleasedWithApproval /\ ExposedCasesAssessed
  OBVIOUS
<1>1. CatalogTypes /\ BindingTypes /\ ApprovalsInv /\ AssessedInv
  BY DEF GovernedInv
<1>2. CatalogTypeOK
  <2>1. \A c \in Cases : \A i \in DOMAIN bindings[c] : bindings[c][i] \in BindingRow
    <3>1. ResolvedContents \subseteq Contents
      BY DEF ResolvedContents, Contents
    <3>2. BoundRow \subseteq BindingRow
      BY <3>1 DEF BoundRow, BindingRow
    <3> QED
      BY <1>1, <3>2, SMTT(30) DEF BindingTypes
  <2>2. \A c \in Cases : \A i, j \in LiveBindings(c) : i = j
    BY <1>1 DEF BindingTypes
  <2>3. \A v \in Versions : \A i \in DOMAIN proposals[v] : proposals[v][i] \in ApprovalRow
    BY <1>1, SMTT(30) DEF CatalogTypes
  <2> QED
    BY <1>1, <2>1, <2>2, <2>3 DEF CatalogTypes, CatalogTypeOK, Revisions
<1>3. ExposedCasesAssessed
  BY <1>1 DEF AssessedInv, AssessedAmong, Assessed, ExposedCasesAssessed
<1> QED
  BY <1>1, <1>2, <1>3 DEF ApprovalsInv

(* In every behaviour, whatever the catalog, the operators and the          *)
(* evaluations: a case has one live binding; a version in effect was        *)
(* approved by another person than its proposer; and the bindings live at   *)
(* an audited change have been assessed against it                          *)
(* (policy-transition-approval.service.ts, policy-activation.service.ts).   *)
THEOREM CatalogAlwaysGoverned ==
  CatalogSpec => [](CatalogTypeOK /\ ReleasedWithApproval /\ ExposedCasesAssessed)
BY GovernedStart, GovernedKept, GovernedImplies, PTL DEF CatalogSpec
==============================================================================
