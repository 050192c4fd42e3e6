---------------------------- MODULE PolicyCatalog ----------------------------
(***************************************************************************)
(* The policy catalog and the evaluations that depend on it (src/src/      *)
(* policy): proposals and their approval (PolicyTransitionApprovalService),*)
(* activation and withdrawal with the generation they bump                 *)
(* (PolicyActivationService), the impact assessments that follow           *)
(* (PolicyChangeImpactService), the revisions that a source monitor        *)
(* records, and PolicyEvaluationService.evaluate, which binds a case to    *)
(* what the resolver found and reuses that binding while it may.           *)
(*                                                                         *)
(* Every call runs one database transaction per step, so evaluations,      *)
(* operators and the clock interleave between the steps of each other.  A  *)
(* snapshot row is immutable and belongs to one binding: it is the         *)
(* binding's content.                                                      *)
(***************************************************************************)
EXTENDS PolicyResolver, Sequences, TLC

CONSTANTS
  Operators,       \* governance calls that can be in progress at once
  People,          \* actors who propose and approve
  Evaluators,      \* evaluate() calls that can be in progress at once
  Interval,        \* MAX_VALIDATION_INTERVAL_MS
  Seeded,          \* versions that a migration inserts as RELEASED
  MaxTime,         \* bound: the clock
  MaxRevisions,    \* bound: revisions that monitors record
  MaxAsked,        \* bound: assessments asked for by cases
  MaxCalls,        \* bound: governance calls
  MaxEvaluations,  \* bound: evaluate() calls
  MaxCrashes       \* bound: calls cut off by the death of their process

ASSUME CatalogAssumption ==
  /\ "null" \notin People
  /\ Interval \in Nat \ {0} /\ MaxTime \in Nat
  /\ Seeded \subseteq Versions /\ MaxAsked \in Nat
  /\ MaxRevisions \in Nat
  /\ MaxCalls \in Nat /\ MaxEvaluations \in Nat /\ MaxCrashes \in Nat

VARIABLES
  clock,
  release,      \* per version: releaseStatus
  proposals,    \* per version: its approval rows, oldest first
  generation,   \* policy_catalog_generation
  recorded,     \* per source: recordedAt of its latest revision
  bindings,     \* per case: its binding rows, oldest first
  researched,   \* fingerprints of the research requests made
  assessments,  \* impact assessment rows
  audited,      \* versions whose activation or withdrawal is in the audit trail
  calls,        \* governance calls made
  op,           \* per operator: the call in progress
  ev,           \* per evaluator: the call in progress
  evaluations,  \* evaluate() calls made
  revised,      \* revisions that monitors recorded
  asked,        \* assessments that cases asked for
  crashes,      \* calls cut off
  answer,       \* the result that the last step returned, if it returned one
  window,       \* history: per evaluator, rows that its call could have read
  exposed,      \* history: per version, bindings live at its last change
  slipped       \* history: generations in which a RELEASED version was overwritten

governanceVars == <<release, proposals, generation, assessments, audited, calls, op>>
caseVars == <<bindings, researched, ev, evaluations>>
sourceVars == <<recorded, revised>>
vars == <<clock, governanceVars, sourceVars, caseVars, asked, crashes, answer, window, exposed, slipped>>

LiveBindings(c) == {i \in DOMAIN bindings[c] : bindings[c][i].live}
NoCall == [kind |-> "none", step |-> "idle"]
NoAnswer == [outcome |-> "none"]
NoChanges == [releases |-> {}, revisions |-> {}]

(* Row types, by the columns the model tells apart.                         *)
Contents == [status: {"RESOLVED", "REVIEW_REQUIRED"}, versions: SUBSET Versions,
             reasons: SUBSET {"cycle", "unknown", "uncovered", "noSource", "noRevision",
                              "invalidObjective", "stale", "undecidable", "overlap"}]
BindingRow == [content: Contents, seen: Nat, until: Nat, live: BOOLEAN, legacy: BOOLEAN]
ApprovalRow == [proposedBy: People, approvedBy: People \cup {"null"}]
Impacts == {"NO_IMPACT", "REQUIRES_REEVALUATION", "AMBIGUOUS"}
AssessmentRow == [version: Versions, case: Cases, seen: Nat, impact: Impacts]

(* The catalog as migrations left it, or with versions approved since; a    *)
(* case may hold a binding made by an earlier resolver release.             *)
LegacyBinding ==
  [content |-> ResolvedTo({}), seen |-> 0, until |-> Interval, live |-> TRUE, legacy |-> TRUE]

CatalogInit ==
  /\ clock = 0
  /\ release \in [Versions -> {"DRAFT", "PROPOSED", "RELEASED"}]
  /\ proposals \in [Versions -> {<<>>} \cup
       {<<[proposedBy |-> p, approvedBy |-> q]>> : p \in People, q \in People}]
  /\ \A v \in Versions :
       \/ v \in Seeded /\ release[v] = "RELEASED" /\ proposals[v] = <<>>
       \/ v \notin Seeded /\ release[v] = "DRAFT" /\ proposals[v] = <<>>
       \/ v \notin Seeded /\ release[v] = "PROPOSED" /\ proposals[v] # <<>>
            /\ proposals[v][1].proposedBy # proposals[v][1].approvedBy
  /\ generation = 0
  /\ recorded = [s \in Sources |-> 0]
  /\ bindings \in [Cases -> {<<>>, <<LegacyBinding>>}]
  /\ researched = {}
  /\ assessments = {}
  /\ audited = {}
  /\ calls \in 0..MaxCalls
  /\ op = [o \in Operators |-> NoCall]
  /\ ev = [e \in Evaluators |-> NoCall]
  /\ evaluations \in 0..MaxEvaluations
  /\ revised \in 0..MaxRevisions
  /\ asked \in 0..MaxAsked
  /\ crashes \in 0..MaxCrashes
  /\ answer = NoAnswer
  /\ window = [e \in Evaluators |-> NoChanges]
  /\ exposed = [v \in Versions |-> {}]
  /\ slipped = {}

(* History: what the rows say now, added to every open call's window.       *)
Observe ==
  window' = [e \in Evaluators |->
    IF ev'[e] = NoCall THEN NoChanges
    ELSE [releases |-> window[e].releases \cup {release'},
          revisions |-> window[e].revisions \cup {recorded'}]]

(* requestForUnresolvedResolution.  The text of a reason is part of the     *)
(* fingerprint: a lapse names its deadline, an overlap the evaluation time. *)
Stamp(c, asOf, reasons) ==
  IF "overlap" \in reasons THEN {asOf}
  ELSE IF "stale" \in reasons
       THEN {t \in FreshUntil(c, recorded) : t <= clock}
       ELSE {}

Requested(c, asOf, reasons) ==
  IF Trigger(reasons) = "none" THEN {}
  ELSE {[trigger |-> Trigger(reasons), jurisdictionCode |-> Case[c].jurisdictionCode,
         productCode |-> Case[c].productCode, reasons |-> reasons,
         stamp |-> Stamp(c, asOf, reasons)]}

-----------------------------------------------------------------------------
(***************************************************************************)
(* Governance: proposals, approvals, activation and withdrawal.            *)
(***************************************************************************)

OpBegin(o, call) ==
  /\ op[o] = NoCall
  /\ calls < MaxCalls
  /\ calls' = calls + 1
  /\ op' = [op EXCEPT ![o] = call]
  /\ answer' = NoAnswer
OpGoto(o, call) ==
  /\ op' = [op EXCEPT ![o] = call]
  /\ answer' = NoAnswer
  /\ UNCHANGED calls

Propose(o, v, by) ==
  /\ release[v] = "DRAFT"
  /\ OpBegin(o, [kind |-> "propose", step |-> "mark", version |-> v, by |-> by])
  /\ UNCHANGED <<clock, release, proposals, generation, assessments, audited,
                 sourceVars, caseVars, asked, crashes, exposed, slipped>>

(* The update is by id alone: of two proposals of one draft, the later may  *)
(* find the version released on the strength of the other.                  *)
MarkProposed(o) ==
  /\ op[o].step = "mark"
  /\ release' = [release EXCEPT ![op[o].version] = "PROPOSED"]
  /\ slipped' = IF release[op[o].version] = "RELEASED" THEN slipped \cup {generation} ELSE slipped
  /\ OpGoto(o, [op[o] EXCEPT !.step = "save"])
  /\ UNCHANGED <<clock, proposals, generation, assessments, audited,
                 sourceVars, caseVars, asked, crashes, exposed>>

SaveProposal(o) ==
  /\ op[o].step = "save"
  /\ proposals' = [proposals EXCEPT ![op[o].version] =
       Append(@, [proposedBy |-> op[o].by, approvedBy |-> "null"])]
  /\ OpGoto(o, NoCall)
  /\ UNCHANGED <<clock, release, generation, assessments, audited,
                 sourceVars, caseVars, asked, crashes, exposed, slipped>>

AnyoneApproves(row, by) == TRUE                        \* mutant of MayApprove
MayApprove(row, by) == row.proposedBy # by

(* The newest pending proposal; its proposer may not approve it.            *)
Approve(o, v, by) ==
  LET pending == {i \in DOMAIN proposals[v] : proposals[v][i].approvedBy = "null"}
  IN  /\ pending # {}
      /\ MayApprove(proposals[v][Max(pending)], by)
      /\ OpBegin(o, [kind |-> "approve", step |-> "stamp", version |-> v, by |-> by,
                     row |-> Max(pending)])
      /\ UNCHANGED <<clock, release, proposals, generation, assessments, audited,
                     sourceVars, caseVars, asked, crashes, exposed, slipped>>

StampApproval(o) ==
  /\ op[o].step = "stamp"
  /\ proposals' = [proposals EXCEPT ![op[o].version] =
       [@ EXCEPT ![op[o].row].approvedBy = op[o].by]]
  /\ OpGoto(o, NoCall)
  /\ UNCHANGED <<clock, release, generation, assessments, audited,
                 sourceVars, caseVars, asked, crashes, exposed, slipped>>

HasApprovedTransition(v) ==
  /\ proposals[v] # <<>>
  /\ proposals[v][Len(proposals[v])].approvedBy # "null"

ActivateBegin(o, v) ==
  /\ release[v] \in {"DRAFT", "PROPOSED"}
  /\ OpBegin(o, [kind |-> "activate", step |-> "approved", version |-> v])
  /\ UNCHANGED <<clock, release, proposals, generation, assessments, audited,
                 sourceVars, caseVars, asked, crashes, exposed, slipped>>

ActivateCheck(o) ==
  /\ op[o].step = "approved"
  /\ OpGoto(o, IF HasApprovedTransition(op[o].version)
               THEN [op[o] EXCEPT !.step = "commit"] ELSE NoCall)
  /\ UNCHANGED <<clock, release, proposals, generation, assessments, audited,
                 sourceVars, caseVars, asked, crashes, exposed, slipped>>

Withdraw(o, v) ==
  /\ release[v] = "RELEASED"
  /\ OpBegin(o, [kind |-> "withdraw", step |-> "commit", version |-> v])
  /\ UNCHANGED <<clock, release, proposals, generation, assessments, audited,
                 sourceVars, caseVars, asked, crashes, exposed, slipped>>

(* Cases that assessImpact looks up: those whose own jurisdiction is the    *)
(* version's, not those of the jurisdictions below it.                      *)
Candidates(v) ==
  {c \in Cases : /\ Case[c].jurisdictionCode = Applicability[v].jurisdictionCode
                 /\ Case[c].productCode = Applicability[v].productCode}

(* The status and the generation change in one transaction.                 *)
CommitChange(o) ==
  LET v == op[o].version
  IN  /\ op[o].step = "commit"
      /\ release' = [release EXCEPT ![v] =
           IF op[o].kind = "activate" THEN "RELEASED" ELSE "WITHDRAWN"]
      /\ generation' = generation + 1
      /\ exposed' = [exposed EXCEPT ![v] = UNION {{[case |-> c, row |-> i, at |-> generation + 1] :
                                                   i \in LiveBindings(c)} : c \in Cases}]
      /\ OpGoto(o, [kind |-> op[o].kind, step |-> "assess", version |-> v, at |-> generation + 1,
                    todo |-> Candidates(v)])
      /\ UNCHANGED <<clock, proposals, assessments, audited,
                     sourceVars, caseVars, asked, crashes, slipped>>

(* classifyImpact compares sets of version ids.                             *)
ClassifyImpact(prior, dryRun) ==
  CASE dryRun.status = "REVIEW_REQUIRED" -> "AMBIGUOUS"
    [] dryRun.status = "RESOLVED" /\ prior.versions = dryRun.versions -> "NO_IMPACT"
    [] OTHER -> "REQUIRES_REEVALUATION"

AssessNone(v, c) == assessments                    \* mutant of AssessOneCase

AssessOneCase(v, c) ==
  assessments \cup
    {[version |-> v, case |-> c, seen |-> generation,
      impact |-> ClassifyImpact(bindings[c][i].content,
                                Resolve(c, clock, clock, release, recorded))] : i \in LiveBindings(c)}

(* One case of the version's scope, in a transaction of that tenant; the    *)
(* dry run also asks for research when it does not resolve.                 *)
AssessNext(o, c) ==
  LET dryRun == Resolve(c, clock, clock, release, recorded)
  IN  /\ op[o].step = "assess"
      /\ c \in op[o].todo
      /\ assessments' = AssessOneCase(op[o].version, c)
      /\ researched' = IF LiveBindings(c) = {} THEN researched
                       ELSE researched \cup Requested(c, clock, dryRun.reasons)
      /\ OpGoto(o, [op[o] EXCEPT !.todo = @ \ {c}])
      /\ UNCHANGED <<clock, release, proposals, generation, audited, sourceVars,
                     bindings, ev, evaluations, asked, crashes, exposed, slipped>>

RecordAudit(o) ==
  /\ op[o].step = "assess"
  /\ op[o].todo = {}
  /\ audited' = audited \cup {[version |-> op[o].version, kind |-> op[o].kind, at |-> op[o].at]}
  /\ OpGoto(o, NoCall)
  /\ UNCHANGED <<clock, release, proposals, generation, assessments,
                 sourceVars, caseVars, asked, crashes, exposed, slipped>>

(* assessImpactForCase: the same assessment, asked for by one case.         *)
AssessImpactForCase(c, v) ==
  LET dryRun == Resolve(c, clock, clock, release, recorded)
  IN  /\ LiveBindings(c) # {}
      /\ asked < MaxAsked
      /\ asked' = asked + 1
      /\ answer' = NoAnswer
      /\ assessments' = AssessOneCase(v, c)
      /\ researched' = researched \cup Requested(c, clock, dryRun.reasons)
      /\ UNCHANGED <<clock, release, proposals, generation, audited, calls, op, sourceVars,
                     bindings, ev, evaluations, crashes, exposed, slipped>>

(* The source monitor records a new candidate revision.                     *)
RecordRevision(s) ==
  /\ Source[s].mode = "CONNECTOR"
  /\ revised < MaxRevisions
  /\ revised' = revised + 1
  /\ answer' = NoAnswer
  /\ recorded' = [recorded EXCEPT ![s] = clock]
  /\ UNCHANGED <<clock, governanceVars, caseVars, asked, crashes, exposed, slipped>>

Tick ==
  /\ clock < MaxTime
  /\ clock' = clock + 1
  /\ answer' = NoAnswer
  /\ UNCHANGED <<governanceVars, sourceVars, caseVars, asked, crashes, exposed, slipped>>

-----------------------------------------------------------------------------
(***************************************************************************)
(* PolicyEvaluationService.evaluate.                                       *)
(***************************************************************************)

EvGoto(e, call) == ev' = [ev EXCEPT ![e] = call] /\ answer' = NoAnswer
Return(e, outcome, content) ==
  /\ ev' = [ev EXCEPT ![e] = NoCall]
  /\ answer' = [outcome |-> outcome, content |-> content, by |-> e]
EvFrame == UNCHANGED <<clock, governanceVars, sourceVars, asked, crashes, exposed, slipped>>

(* The caller reads asOf; the first statement reads the generation.         *)
EvaluateBegin(e, c) ==
  /\ ev[e] = NoCall
  /\ evaluations < MaxEvaluations
  /\ evaluations' = evaluations + 1
  /\ EvGoto(e, [kind |-> "evaluate", step |-> "binding", case |-> c, asOf |-> clock,
                seen |-> generation])
  /\ UNCHANGED <<bindings, researched>>
  /\ EvFrame

ReusableAnyTime(row, call) ==                             \* mutant of Reusable
  ~row.legacy /\ row.seen = call.seen

Reusable(row, call) ==
  /\ ~row.legacy
  /\ row.seen = call.seen
  /\ row.until > clock

(* The live binding and its snapshot, and the clock; then the fast path.    *)
ReadBinding(e) ==
  LET call == ev[e]
      c == call.case
  IN  /\ call.step = "binding"
      /\ IF LiveBindings(c) # {} /\ Reusable(bindings[c][Max(LiveBindings(c))], call)
         THEN Return(e, "REUSED", bindings[c][Max(LiveBindings(c))].content)
         ELSE EvGoto(e, [kind |-> "evaluate", step |-> "coverage", case |-> c,
                 asOf |-> call.asOf, seen |-> call.seen, now |-> clock,
                 found |-> IF LiveBindings(c) = {} THEN 0 ELSE Max(LiveBindings(c))])
      /\ UNCHANGED <<bindings, researched, evaluations>>
      /\ EvFrame

ToReview(call, content) ==
  [kind |-> "evaluate", step |-> "review", case |-> call.case, asOf |-> call.asOf,
   content |-> content]

ToVersions(call, deadlines) ==
  [kind |-> "evaluate", step |-> "versions", case |-> call.case, asOf |-> call.asOf,
   seen |-> call.seen, now |-> call.now, found |-> call.found, deadlines |-> deadlines]

(* The resolver's revalidateAfter, or the maximum interval.                 *)
NextRevalidationDeadline(validatedAt, instants) == Min(instants \cup {validatedAt + Interval})

ToDecide(call, content, instants) ==
  [kind |-> "evaluate", step |-> "decide", case |-> call.case, asOf |-> call.asOf,
   seen |-> call.seen, found |-> call.found, content |-> content,
   until |-> NextRevalidationDeadline(call.now, instants)]

(* resolve, first half: ancestry, then sources and their latest revisions.  *)
ResolveCoverage(e) ==
  LET call == ev[e]
      reasons == CoverageReasons(call.case, clock, recorded)
  IN  /\ call.step = "coverage"
      /\ researched' = researched \cup Requested(call.case, call.asOf, reasons)
      /\ EvGoto(e,
           IF reasons # {} THEN ToReview(call, Unresolved(reasons))
           ELSE ToVersions(call, FreshUntil(call.case, recorded)))
      /\ UNCHANGED <<bindings, evaluations>>
      /\ EvFrame

(* resolve, second half: applicable versions, and the earliest instant at   *)
(* which time alone changes the answer.                                     *)
ResolveReleased(e) ==
  LET call == ev[e]
      c == call.case
      content == ResolveVersions(c, call.asOf, release)
  IN  /\ call.step = "versions"
      /\ researched' = researched \cup Requested(c, call.asOf, content.reasons)
      /\ EvGoto(e,
           IF content.status = "REVIEW_REQUIRED" THEN ToReview(call, content)
           ELSE ToDecide(call, content,
                         RevalidateAfter(c, call.asOf, release, call.deadlines)))
      /\ UNCHANGED <<bindings, evaluations>>
      /\ EvFrame

SetRow(c, i, row) == bindings' = [bindings EXCEPT ![c] = [@ EXCEPT ![i] = row]]

(* REVIEW_REQUIRED: invalidateActiveBinding, whichever binding that is.     *)
InvalidateActive(e) ==
  LET call == ev[e]
      c == call.case
  IN  /\ call.step = "review"
      /\ bindings' = [bindings EXCEPT ![c] =
           [i \in DOMAIN @ |-> [@[i] EXCEPT !.live = FALSE]]]
      /\ Return(e, "REVIEW_REQUIRED", call.content)
      /\ UNCHANGED <<researched, evaluations>>
      /\ EvFrame

SameContent(call) ==
  /\ call.found # 0
  /\ ~bindings[call.case][call.found].legacy
  /\ bindings[call.case][call.found].content = call.content

(* The content is the same: refresh the binding in place, by its id.        *)
RefreshInPlace(e) ==
  LET call == ev[e]
      c == call.case
  IN  /\ call.step = "decide"
      /\ SameContent(call)
      /\ SetRow(c, call.found,
                [bindings[c][call.found] EXCEPT !.seen = call.seen, !.until = call.until])
      /\ Return(e, "REUSED", call.content)
      /\ UNCHANGED <<researched, evaluations>>
      /\ EvFrame

(* Otherwise the binding found is invalidated, by its id.                   *)
InvalidateFound(e) ==
  LET call == ev[e]
      c == call.case
  IN  /\ call.step = "decide"
      /\ ~SameContent(call)
      /\ IF call.found = 0 THEN UNCHANGED bindings
         ELSE SetRow(c, call.found, [bindings[c][call.found] EXCEPT !.live = FALSE])
      /\ EvGoto(e, [call EXCEPT !.step = "insert"])
      /\ UNCHANGED <<researched, evaluations>>
      /\ EvFrame

NewBinding(call) ==
  [content |-> call.content, seen |-> call.seen, until |-> call.until,
   live |-> TRUE, legacy |-> FALSE]

AlwaysFree(c) == TRUE                                    \* mutant of SlotFree
SlotFree(c) == LiveBindings(c) = {}

(* IDX_case_policy_bindings_one_active refuses a second live binding.       *)
InsertBinding(e) ==
  LET call == ev[e]
      c == call.case
  IN  /\ call.step = "insert"
      /\ IF SlotFree(c)
         THEN /\ bindings' = [bindings EXCEPT ![c] = Append(@, NewBinding(call))]
              /\ Return(e, "REFRESHED", call.content)
         ELSE /\ UNCHANGED bindings
              /\ EvGoto(e, [call EXCEPT !.step = "winner"])
      /\ UNCHANGED <<researched, evaluations>>
      /\ EvFrame

(* The loser returns the winner's binding; it throws when there is none.    *)
ReadWinner(e) ==
  LET call == ev[e]
      c == call.case
  IN  /\ call.step = "winner"
      /\ IF LiveBindings(c) = {} THEN Return(e, "ERROR", call.content)
         ELSE Return(e, "LOST", bindings[c][Max(LiveBindings(c))].content)
      /\ UNCHANGED <<bindings, researched, evaluations>>
      /\ EvFrame

(* The process of a call dies: its later steps never happen.                *)
CrashEvaluation(e) ==
  /\ ev[e] # NoCall
  /\ crashes < MaxCrashes
  /\ crashes' = crashes + 1
  /\ EvGoto(e, NoCall)
  /\ UNCHANGED <<clock, governanceVars, sourceVars, bindings, researched, evaluations, asked, exposed, slipped>>

CrashOperator(o) ==
  /\ op[o] # NoCall
  /\ crashes < MaxCrashes
  /\ crashes' = crashes + 1
  /\ OpGoto(o, NoCall)
  /\ UNCHANGED <<clock, release, proposals, generation, assessments, audited,
                 sourceVars, caseVars, asked, exposed, slipped>>

-----------------------------------------------------------------------------
CatalogStep ==
  \/ \E o \in Operators :
       \/ \E v \in Versions, by \in People : Propose(o, v, by) \/ Approve(o, v, by)
       \/ \E v \in Versions : ActivateBegin(o, v) \/ Withdraw(o, v)
       \/ MarkProposed(o) \/ SaveProposal(o) \/ StampApproval(o)
       \/ ActivateCheck(o) \/ CommitChange(o) \/ RecordAudit(o)
       \/ \E c \in Cases : AssessNext(o, c)
       \/ CrashOperator(o)
  \/ \E c \in Cases, v \in Versions : AssessImpactForCase(c, v)
  \/ \E s \in Sources : RecordRevision(s)
  \/ Tick
  \/ \E e \in Evaluators :
       \/ \E c \in Cases : EvaluateBegin(e, c)
       \/ ReadBinding(e) \/ ResolveCoverage(e) \/ ResolveReleased(e)
       \/ InvalidateActive(e) \/ RefreshInPlace(e) \/ InvalidateFound(e)
       \/ InsertBinding(e) \/ ReadWinner(e) \/ CrashEvaluation(e)

CatalogNext == CatalogStep /\ Observe
CatalogSpec == CatalogInit /\ [][CatalogNext]_vars

-----------------------------------------------------------------------------
(***************************************************************************)
(* Properties.                                                             *)
(***************************************************************************)

(* Every variable has its type.                                             *)
CatalogTypeOK ==
  /\ clock \in 0..MaxTime
  /\ release \in [Versions -> Statuses]
  /\ \A v \in Versions : \A i \in DOMAIN proposals[v] : proposals[v][i] \in ApprovalRow
  /\ generation \in Nat
  /\ recorded \in [Sources -> 0..MaxTime]
  /\ \A c \in Cases : \A i \in DOMAIN bindings[c] : bindings[c][i] \in BindingRow
  /\ \A c \in Cases : \A i, j \in LiveBindings(c) : i = j
  /\ assessments \subseteq AssessmentRow

(* A binding that the fast path would reuse holds what the resolver would   *)
(* answer now: evaluate() trusts the generation and the deadline alone, so  *)
(* every activation, withdrawal, scheduled date and lapse of a source must  *)
(* have moved one of the two, whatever was in flight when it happened.  A   *)
(* late proposal that overwrites RELEASED moves neither: the generations in *)
(* which that happened are the exception.                                   *)
ReuseIsCurrent ==
  \A c \in Cases : \A i \in LiveBindings(c) :
    LET row == bindings[c][i]
    IN  ~row.legacy /\ row.seen = generation /\ row.until > clock /\ generation \notin slipped
          => row.content = Resolve(c, clock, clock, release, recorded)

(* The answer is a resolution of rows and times between the call's start    *)
(* and now.                                                                 *)
Timely(a) ==
  LET call == ev[a.by]
  IN  \E asOf, time \in call.asOf..clock, rel \in window[a.by].releases,
         rev \in window[a.by].revisions :
        a.content = Resolve(call.case, asOf, time, rel, rev)

(* What an evaluation answers is what the resolver would have said for a    *)
(* catalog and a time that its own call saw: never a version withdrawn      *)
(* before the call, never one released after it.  The exceptions are the    *)
(* loser of the race for the live binding, and a binding reused under a     *)
(* generation in which a late proposal overwrote RELEASED.                  *)
AnswerOfItsTime ==
  [][answer'.outcome \notin {"none", "LOST", "ERROR"}
       => \/ answer'.outcome = "REUSED" /\ ev[answer'.by].seen \in slipped
          \/ Timely(answer')]_vars

(* A version that is, or has been, in effect was approved by someone other  *)
(* than its proposer, in its latest proposal.                               *)
ReleasedWithApproval ==
  \A v \in Versions \ Seeded : release[v] \in {"RELEASED", "WITHDRAWN"} =>
    \E i \in DOMAIN proposals[v] :
      proposals[v][i].approvedBy \notin {"null", proposals[v][i].proposedBy}

(* Once a change is in the audit trail, every binding of a case of the      *)
(* version's own jurisdiction that was live when it was committed, and      *)
(* still is, has been assessed against it.                                  *)
ExposedCasesAssessed ==
  \A r \in audited : \A x \in exposed[r.version] :
    x.at = r.at /\ x.case \in Candidates(r.version) /\ x.row \in LiveBindings(x.case) =>
      \E a \in assessments : a.version = r.version /\ a.case = x.case /\ a.seen >= x.at

(* What a case is decided with is what was in force: a binding that may     *)
(* still be reused is the one the catalog resolves to now; a released       *)
(* version was proposed by one and approved by another person; and once a   *)
(* change is in the audit trail, every binding that was live at its commit  *)
(* and still is has been assessed against it (policy-evaluation.service.ts, *)
(* policy-activation.service.ts).                                           *)
CatalogIsSound ==
  CatalogTypeOK /\ ReuseIsCurrent /\ ReleasedWithApproval /\ ExposedCasesAssessed
=============================================================================
