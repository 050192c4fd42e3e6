-------------------------- MODULE PolicyReuseProofs --------------------------
(***************************************************************************)
(* Theorems about PolicyCatalog: a binding is reused only while it is what *)
(* the resolver would answer, and every answer is of its call's own time.  *)
(***************************************************************************)
EXTENDS PolicyCatalogProofs

(* Zenon is the prover of every leaf that names none.                       *)
USE ZenonT(90)

-----------------------------------------------------------------------------
(***************************************************************************)
(* The inductive invariant.                                                *)
(***************************************************************************)

(* The versions of a content are what is in effect at every time of a span. *)
HoldsFrom(c, content, from, until, rel) ==
  \A t \in from..(until - 1) :
    VersionReasons(c, t, rel) = {} /\ content = ResolvedTo(InEffect(c, t, rel))

(* A content that may be reused up to a time, under the generation seen:    *)
(* it is what the catalog resolves to for as long as that generation is     *)
(* the current one, and every call that read that generation and has yet to *)
(* read the binding could have seen the statuses it came from.              *)
Sound(c, content, seen, until) ==
  /\ seen <= generation
  /\ Sourced(c)
  /\ FreshTill(c, until, recorded)
  /\ seen = generation /\ seen \notin slipped => HoldsFrom(c, content, clock, until, release)
  /\ \A e \in Evaluators :
       ev[e].step = "binding" /\ ev[e].case = c /\ ev[e].seen = seen /\ seen \notin slipped =>
         \E rel \in window[e].releases : HoldsFrom(c, content, clock, until, rel)

(* A call past the first half of resolve: that half found nothing missing,  *)
(* and its deadlines are no later than those of the sources now.            *)
Covered(e) ==
  /\ \E time \in ev[e].asOf..clock, rev \in window[e].revisions :
       CoverageReasons(ev[e].case, time, rev) = {}
  /\ Sourced(ev[e].case)
  /\ \A s \in SourcesOf(ev[e].case) :
       /\ recorded[s] # NoRevision
       /\ Source[s].freshnessObjective > 0
       /\ \E d \in ev[e].deadlines : d <= recorded[s] + Source[s].freshnessObjective

ContentOfItsTime(e) ==
  \E asOf, time \in ev[e].asOf..clock, rel \in window[e].releases, rev \in window[e].revisions :
    ev[e].content = Resolve(ev[e].case, asOf, time, rel, rev)

RowsSound ==
  \A c \in Cases : \A i \in DOMAIN bindings[c] :
    ~bindings[c][i].legacy =>
      Sound(c, bindings[c][i].content, bindings[c][i].seen, bindings[c][i].until)
CallsSound ==
  \A e \in Evaluators : Deciding(e) => Sound(ev[e].case, ev[e].content, ev[e].seen, ev[e].until)
CallTimely(e) ==
  /\ ev[e].asOf <= clock
  /\ release \in window[e].releases
  /\ recorded \in window[e].revisions
  /\ ev[e].step # "review" => ev[e].seen <= generation
  /\ ev[e].step = "versions" => Covered(e)
  /\ Deciding(e) \/ ev[e].step = "review" => ContentOfItsTime(e)
CallsTimely ==
  /\ \A s \in Sources : recorded[s] <= clock
  /\ \A e \in Evaluators : ev[e] # NoCall => CallTimely(e)

ReuseInv == RowsSound /\ CallsSound /\ CallsTimely

CatalogInv == GovernedInv /\ ReuseInv

-----------------------------------------------------------------------------
(***************************************************************************)
(* The resolver: what it answers stays its answer until the earliest of    *)
(* the instants that RevalidateAfter names.                                *)
(***************************************************************************)

(* What is in effect at a time is in effect until the next boundary.        *)
LEMMA EffectLasts ==
  ASSUME NEW c \in Cases, NEW rel, NEW asOf \in Nat, NEW t \in Nat, asOf <= t,
         \A b \in Boundaries(c, asOf, rel) : t < b
  PROVE  InEffect(c, t, rel) = InEffect(c, asOf, rel)
<1> USE ResolverAssumption
<1> SUFFICES ASSUME NEW v \in Applicable(c, rel), Decidable(v, c)
             PROVE  ~NotYet(v, c, t) /\ ~Over(v, c, t) <=> ~NotYet(v, c, asOf) /\ ~Over(v, c, asOf)
  BY DEF InEffect
<1>0. v \in Versions /\ Version[v] \in VersionRow
  BY DEF Applicable
<1>1. CASE Applicability[v].transitionRule = Received
  BY <1>1 DEF NotYet, Over, Instant
<1>2. CASE Applicability[v].transitionRule # Received
  <2>1. NotYet(v, c, asOf) => t < Version[v].effectiveFrom
    BY <1>2 DEF Boundaries
  <2>2. ~NotYet(v, c, asOf) /\ ~Over(v, c, asOf) /\ Version[v].effectiveTo # NoEnd
          => t < Version[v].effectiveTo
    BY <1>2 DEF Boundaries, InEffect
  <2> QED
    BY <1>0, <1>2, <2>1, <2>2, SMTT(30) DEF NotYet, Over, Instant, VersionRow, NoEnd
<1> QED
  BY <1>1, <1>2

(* Hence a resolution of the versions is their resolution up to any instant *)
(* that no boundary precedes.                                               *)
LEMMA ResolutionLasts ==
  ASSUME NEW c \in Cases, NEW rel, NEW asOf \in Nat, NEW from \in Nat, NEW until \in Nat,
         asOf <= from,
         VersionReasons(c, asOf, rel) = {},
         \A b \in Boundaries(c, asOf, rel) : b \in Nat /\ until <= b
  PROVE  HoldsFrom(c, ResolvedTo(InEffect(c, asOf, rel)), from, until, rel)
<1> SUFFICES ASSUME NEW t \in from..(until - 1)
             PROVE  /\ VersionReasons(c, t, rel) = {}
                    /\ InEffect(c, t, rel) = InEffect(c, asOf, rel)
  BY DEF HoldsFrom
<1>1. t \in Nat /\ asOf <= t /\ t < until
  BY SMTT(30)
<1>2. \A b \in Boundaries(c, asOf, rel) : t < b
  BY <1>1, SMTT(30)
<1>3. InEffect(c, t, rel) = InEffect(c, asOf, rel)
  BY <1>1, <1>2, EffectLasts
<1> QED
  BY <1>3 DEF VersionReasons

(* Only whether a version is RELEASED matters to what is in effect.         *)
LEMMA OnlyReleasedMatters ==
  ASSUME NEW c \in Cases, NEW t, NEW rel, NEW other,
         \A v \in Versions : rel[v] = "RELEASED" <=> other[v] = "RELEASED"
  PROVE  /\ InEffect(c, t, rel) = InEffect(c, t, other)
         /\ VersionReasons(c, t, rel) = VersionReasons(c, t, other)
<1>1. Applicable(c, rel) = Applicable(c, other)
  BY DEF Applicable
<1>2. InEffect(c, t, rel) = InEffect(c, t, other)
  BY <1>1 DEF InEffect
<1> QED
  BY <1>1, <1>2 DEF VersionReasons

-----------------------------------------------------------------------------
(***************************************************************************)
(* Reuse.                                                                  *)
(***************************************************************************)

(* What no step undoes: the clock, the generation and the revisions only    *)
(* grow, a status changes under the same generation only if that slipped,   *)
(* and a call that has yet to read the binding sees every change.           *)
Monotone ==
  /\ clock \in Nat /\ clock' \in Nat /\ clock <= clock'
  /\ generation \in Nat /\ generation' \in Nat /\ generation <= generation'
  /\ recorded \in Revisions /\ recorded' \in Revisions
  /\ \A s \in Sources : recorded[s] <= recorded'[s] /\ recorded'[s] <= clock'
  /\ slipped \subseteq slipped'
  /\ generation' = generation /\ generation \notin slipped' =>
       \A v \in Versions : release[v] = "RELEASED" <=> release'[v] = "RELEASED"
  /\ \A e \in Evaluators : ev'[e].step = "binding" =>
       \/ ev'[e] = ev[e] /\ window[e].releases \subseteq window'[e].releases
       \/ ev'[e].seen = generation' /\ release' \in window'[e].releases

LEMMA HoldsLater ==
  ASSUME NEW c, NEW content, NEW from \in Nat, NEW later \in Nat, from <= later, NEW until \in Nat,
         NEW rel, HoldsFrom(c, content, from, until, rel)
  PROVE  HoldsFrom(c, content, later, until, rel)
<1>1. \A t \in later..(until - 1) : t \in from..(until - 1)
  BY SMTT(30)
<1> QED
  BY <1>1 DEF HoldsFrom

LEMMA HoldsLikewise ==
  ASSUME NEW c \in Cases, NEW content, NEW from, NEW until, NEW rel, NEW other,
         HoldsFrom(c, content, from, until, rel),
         \A v \in Versions : rel[v] = "RELEASED" <=> other[v] = "RELEASED"
  PROVE  HoldsFrom(c, content, from, until, other)
<1>1. \A t \in from..(until - 1) : /\ InEffect(c, t, rel) = InEffect(c, t, other)
                                   /\ VersionReasons(c, t, rel) = VersionReasons(c, t, other)
  BY OnlyReleasedMatters
<1> QED
  BY <1>1 DEF HoldsFrom

LEMMA FreshLater ==
  ASSUME NEW c \in Cases, NEW until \in Nat, Monotone, FreshTill(c, until, recorded)
  PROVE  FreshTill(c, until, recorded')
<1> SUFFICES ASSUME NEW s \in SourcesOf(c)
             PROVE  /\ recorded'[s] # NoRevision
                    /\ Source[s].freshnessObjective > 0
                    /\ until <= recorded'[s] + Source[s].freshnessObjective
  BY DEF FreshTill
<1>1. s \in Sources /\ Source[s].freshnessObjective \in Int
  BY ResolverAssumption DEF SourcesOf, SourceRow
<1>2. recorded[s] \in Nat /\ recorded'[s] \in Nat /\ recorded[s] <= recorded'[s]
  BY <1>1, CatalogAssumption, SMTT(30) DEF Monotone, Revisions
<1> QED
  BY <1>1, <1>2, SMTT(30) DEF FreshTill, NoRevision

LEMMA SoundStays ==
  ASSUME Monotone, NEW c \in Cases, NEW content, NEW seen \in Nat, NEW until \in Nat,
         Sound(c, content, seen, until)
  PROVE  Sound(c, content, seen, until)'
<1>1. seen <= generation' /\ Sourced(c)
  BY SMTT(30) DEF Sound, Monotone
<1>2. FreshTill(c, until, recorded')
  BY FreshLater DEF Sound
<1>3. ASSUME seen = generation', seen \notin slipped'
      PROVE  HoldsFrom(c, content, clock', until, release')
  <2>1. generation' = generation /\ seen = generation /\ seen \notin slipped
    BY <1>3, SMTT(30) DEF Sound, Monotone
  <2>2. HoldsFrom(c, content, clock, until, release)
    BY <2>1 DEF Sound
  <2>3. HoldsFrom(c, content, clock', until, release)
    BY <2>2, HoldsLater DEF Monotone
  <2>4. \A v \in Versions : release[v] = "RELEASED" <=> release'[v] = "RELEASED"
    BY <1>3, <2>1 DEF Monotone
  <2> QED
    BY <2>3, <2>4, HoldsLikewise
<1>4. ASSUME NEW e \in Evaluators, ev'[e].step = "binding", ev'[e].case = c, ev'[e].seen = seen,
             seen \notin slipped'
      PROVE  \E rel \in window'[e].releases : HoldsFrom(c, content, clock', until, rel)
  <2>1. CASE ev'[e] = ev[e] /\ window[e].releases \subseteq window'[e].releases
    <3>1. seen \notin slipped
      BY <1>4 DEF Monotone
    <3>2. PICK rel \in window[e].releases : HoldsFrom(c, content, clock, until, rel)
      BY <1>4, <2>1, <3>1 DEF Sound
    <3>3. HoldsFrom(c, content, clock', until, rel)
      BY <3>2, HoldsLater DEF Monotone
    <3> QED
      BY <2>1, <3>3
  <2>2. CASE ev'[e].seen = generation' /\ release' \in window'[e].releases
    BY <1>3, <1>4, <2>2
  <2> QED
    BY <1>4, <2>1, <2>2 DEF Monotone
<1> QED
  BY <1>1, <1>2, <1>3, <1>4 DEF Sound

(* What the windows of the open calls become.                               *)
LEMMA WindowsGrow ==
  ASSUME Observe, NEW e \in Evaluators, ev'[e] # NoCall
  PROVE  /\ window'[e].releases = window[e].releases \cup {release'}
         /\ window'[e].revisions = window[e].revisions \cup {recorded'}
BY DEF Observe

(* What an evaluation's step makes of its call.                             *)
Begun(c) == [kind |-> "evaluate", step |-> "binding", case |-> c, asOf |-> clock, seen |-> generation]
Looking(call) ==
  [kind |-> "evaluate", step |-> "coverage", case |-> call.case, asOf |-> call.asOf,
   seen |-> call.seen, now |-> clock,
   found |-> IF LiveBindings(call.case) = {} THEN 0 ELSE Max(LiveBindings(call.case))]

MissingFor(call) == CoverageReasons(call.case, clock, recorded)
FoundFor(call) == ResolveVersions(call.case, call.asOf, release)
InstantsFor(call) == RevalidateAfter(call.case, call.asOf, release, call.deadlines)

LEMMA NextCall ==
  ASSUME CatalogTypes, NEW e \in Evaluators, EvaluatorStep(e)
  PROVE  \/ ev'[e] = NoCall
         \/ \E c \in Cases : ev'[e] = Begun(c)
         \/ ev[e].step = "binding" /\ ev'[e] = Looking(ev[e])
         \/ ev[e].step = "coverage" /\ ev'[e] = ToReview(ev[e], Unresolved(MissingFor(ev[e])))
              /\ MissingFor(ev[e]) # {}
         \/ ev[e].step = "coverage" /\ ev'[e] = ToVersions(ev[e], FreshUntil(ev[e].case, recorded))
              /\ MissingFor(ev[e]) = {}
         \/ ev[e].step = "versions" /\ ev'[e] = ToReview(ev[e], FoundFor(ev[e]))
         \/ ev[e].step = "versions" /\ ev'[e] = ToDecide(ev[e], FoundFor(ev[e]), InstantsFor(ev[e]))
              /\ FoundFor(ev[e]).status # "REVIEW_REQUIRED"
         \/ ev[e].step = "decide" /\ ev'[e] = [ev[e] EXCEPT !.step = "insert"]
         \/ ev[e].step = "insert" /\ ev'[e] = [ev[e] EXCEPT !.step = "winner"]
<1>1. ASSUME NEW call, ev' = [ev EXCEPT ![e] = call]
      PROVE  ev'[e] = call
  BY <1>1, EvOthers
<1>2. ASSUME NEW c \in Cases, EvaluateBegin(e, c)
      PROVE  ev'[e] = Begun(c)
  BY <1>1, <1>2 DEF EvaluateBegin, EvGoto, Begun
<1>3. CASE ReadBinding(e)
  <2>1. ev[e].step = "binding"
    BY <1>3 DEF ReadBinding
  <2>2. ev' = [ev EXCEPT ![e] = NoCall] \/ ev' = [ev EXCEPT ![e] = Looking(ev[e])]
    BY <1>3 DEF ReadBinding, EvGoto, Return, Looking
  <2> QED
    BY <1>1, <2>1, <2>2
<1>4. CASE ResolveCoverage(e)
  <2>1. ev[e].step = "coverage"
    BY <1>4 DEF ResolveCoverage
  <2>2. \/ /\ MissingFor(ev[e]) # {}
           /\ ev' = [ev EXCEPT ![e] = ToReview(ev[e], Unresolved(MissingFor(ev[e])))]
        \/ /\ MissingFor(ev[e]) = {}
           /\ ev' = [ev EXCEPT ![e] = ToVersions(ev[e], FreshUntil(ev[e].case, recorded))]
    BY <1>4 DEF ResolveCoverage, EvGoto, MissingFor
  <2> QED
    BY <1>1, <2>1, <2>2
<1>5. CASE ResolveReleased(e)
  <2>1. ev[e].step = "versions"
    BY <1>5 DEF ResolveReleased
  <2>2. \/ ev' = [ev EXCEPT ![e] = ToReview(ev[e], FoundFor(ev[e]))]
        \/ /\ FoundFor(ev[e]).status # "REVIEW_REQUIRED"
           /\ ev' = [ev EXCEPT ![e] = ToDecide(ev[e], FoundFor(ev[e]), InstantsFor(ev[e]))]
    BY <1>5 DEF ResolveReleased, EvGoto, FoundFor, InstantsFor
  <2> QED
    BY <1>1, <2>1, <2>2
<1>6. CASE InvalidateFound(e)
  <2>1. ev[e].step = "decide" /\ ev' = [ev EXCEPT ![e] = [ev[e] EXCEPT !.step = "insert"]]
    BY <1>6 DEF InvalidateFound, EvGoto
  <2> QED
    BY <1>1, <2>1
<1>7. CASE InsertBinding(e)
  <2>1. ev[e].step = "insert"
    BY <1>7 DEF InsertBinding
  <2>2. \/ ev' = [ev EXCEPT ![e] = NoCall]
        \/ ev' = [ev EXCEPT ![e] = [ev[e] EXCEPT !.step = "winner"]]
    BY <1>7 DEF InsertBinding, EvGoto, Return
  <2> QED
    BY <1>1, <2>1, <2>2
<1>8. CASE InvalidateActive(e) \/ RefreshInPlace(e) \/ ReadWinner(e) \/ CrashEvaluation(e)
  <2>1. ev' = [ev EXCEPT ![e] = NoCall]
    BY <1>8 DEF InvalidateActive, RefreshInPlace, ReadWinner, CrashEvaluation, EvGoto, Return
  <2> QED
    BY <1>1, <2>1
<1> QED
  BY <1>2, <1>3, <1>4, <1>5, <1>6, <1>7, <1>8 DEF EvaluatorStep

LEMMA OtherCalls ==
  ASSUME CatalogTypes, NEW e \in Evaluators, EvaluatorStep(e)
  PROVE  \A f \in Evaluators \ {e} : ev'[f] = ev[f]
<1>1. \E call : ev' = [ev EXCEPT ![e] = call]
  BY DEF EvaluatorStep, EvaluateBegin, ReadBinding, ResolveCoverage, ResolveReleased,
     InvalidateActive, RefreshInPlace, InvalidateFound, InsertBinding, ReadWinner,
     CrashEvaluation, EvGoto, Return
<1> QED
  BY <1>1, EvOthers

LEMMA EveryStepMonotone ==
  ASSUME CatalogTypes, BindingTypes, ApprovalsInv, CallsTimely, [CatalogNext]_vars
  PROVE  Monotone
<1>1. CatalogTypes'
  BY TypesKept
<1>2. /\ clock \in Nat /\ clock' \in Nat /\ generation \in Nat /\ generation' \in Nat
      /\ recorded \in Revisions /\ recorded' \in Revisions
  BY <1>1, CatalogAssumption, SMTT(30) DEF CatalogTypes
<1>3. clock' = clock \/ (clock' = clock + 1 /\ recorded' = recorded)
  BY EveryStep, OperatorFrame, EvaluatorFrame
     DEF OtherStep, AssessImpactForCase, RecordRevision, Tick,
     vars, sourceVars
<1>4. generation <= generation'
  BY EveryStepGrows DEF Grows
<1>5. \A s \in Sources : recorded[s] <= recorded'[s] /\ recorded'[s] <= clock'
  <2>1. \A s \in Sources : recorded[s] \in Nat /\ recorded[s] <= clock
    BY <1>2, CatalogAssumption, SMTT(30) DEF CallsTimely, Revisions
  <2>2. CASE recorded' = recorded
    BY <1>2, <1>3, <2>1, <2>2, SMTT(30)
  <2>3. ASSUME NEW s \in Sources, RecordRevision(s)
        PROVE  \A q \in Sources : recorded[q] <= recorded'[q] /\ recorded'[q] <= clock'
    <3>1. recorded' = [recorded EXCEPT ![s] = clock] /\ clock' = clock
      BY <2>3 DEF RecordRevision
    <3>2. \A q \in Sources : recorded'[q] = clock \/ recorded'[q] = recorded[q]
      BY <1>2, <3>1 DEF Revisions
    <3> QED
      BY <1>2, <2>1, <3>1, <3>2, SMTT(30)
  <2> QED
    BY <2>2, <2>3, EveryStep, OperatorFrame, EvaluatorFrame
       DEF OtherStep, AssessImpactForCase, Tick,
       vars, sourceVars
<1>6. slipped \subseteq slipped'
  <2>1. (\E o \in Operators : OperatorStep(o)) \/ slipped' = slipped
    BY EveryStep, EvaluatorFrame, OtherFrame
  <2>2. ASSUME NEW o \in Operators, MarkProposed(o) PROVE slipped \subseteq slipped'
    BY <2>2 DEF MarkProposed
  <2>3. ASSUME NEW o \in Operators, OperatorStep(o), ~MarkProposed(o) PROVE slipped' = slipped
    BY <2>3
       DEF OperatorStep, Propose, Approve, ActivateBegin, Withdraw, SaveProposal, StampApproval,
       ActivateCheck, CommitChange, RecordAudit, AssessNext, CrashOperator
  <2> QED
    BY <2>1, <2>2, <2>3
<1>7. ASSUME generation' = generation, generation \notin slipped'
      PROVE  \A v \in Versions : release[v] = "RELEASED" <=> release'[v] = "RELEASED"
  <2>1. CASE release' = release
    BY <2>1
  <2>2. ASSUME NEW o \in Operators, MarkProposed(o)
        PROVE  \A v \in Versions : release[v] = "RELEASED" <=> release'[v] = "RELEASED"
    <3>1. release' = [release EXCEPT ![op[o].version] = "PROPOSED"]
      BY <2>2 DEF MarkProposed
    <3>2. release[op[o].version] # "RELEASED"
      BY <1>7, <2>2 DEF MarkProposed
    <3> QED
      BY <3>1, <3>2 DEF CatalogTypes
  <2>3. ASSUME NEW o \in Operators, CommitChange(o)
        PROVE  FALSE
    BY <1>2, <1>7, <2>3, SMTT(30) DEF CommitChange
  <2> QED
    BY <2>1, <2>2, <2>3, EveryStep, EvaluatorFrame, OtherFrame DEF OperatorStep, Propose, Approve,
       ActivateBegin, Withdraw, SaveProposal, StampApproval, ActivateCheck, RecordAudit, AssessNext,
       CrashOperator
<1>8. ASSUME NEW e \in Evaluators, ev'[e].step = "binding"
      PROVE  \/ ev'[e] = ev[e] /\ window[e].releases \subseteq window'[e].releases
             \/ ev'[e].seen = generation' /\ release' \in window'[e].releases
  <2>0. ev'[e] # NoCall
    BY <1>8, SMTT(30) DEF NoCall
  <2>1. CASE UNCHANGED vars
    BY <2>1 DEF vars, caseVars
  <2>2. CASE Observe /\ ev'[e] = ev[e]
    BY <2>0, <2>2, WindowsGrow
  <2>3. CASE Observe /\ ev'[e].seen = generation'
    BY <2>0, <2>3, WindowsGrow
  <2>4. ASSUME EvaluatorStep(e)
        PROVE  ev'[e].seen = generation'
    <3>1. generation' = generation
      BY <2>4, EvaluatorFrame
    <3>2. /\ ToReview(ev[e], Unresolved(MissingFor(ev[e]))).step # "binding"
          /\ ToVersions(ev[e], FreshUntil(ev[e].case, recorded)).step # "binding"
          /\ ToReview(ev[e], FoundFor(ev[e])).step # "binding"
          /\ ToDecide(ev[e], FoundFor(ev[e]), InstantsFor(ev[e])).step # "binding"
          /\ Looking(ev[e]).step # "binding"
      BY DEF ToReview, ToVersions, ToDecide, Looking
    <3>3. ev[e].step \in {"decide", "insert"} =>
            /\ [ev[e] EXCEPT !.step = "insert"].step # "binding"
            /\ [ev[e] EXCEPT !.step = "winner"].step # "binding"
      BY EvShapes DEF DecideCalls
    <3>4. PICK c \in Cases : ev'[e] = Begun(c)
      BY <1>8, <2>0, <2>4, <3>2, <3>3, NextCall
    <3> QED
      BY <3>1, <3>4, SMTT(30) DEF Begun
  <2>5. ASSUME NEW f \in Evaluators, EvaluatorStep(f), f # e
        PROVE  ev'[e] = ev[e]
    BY <2>5, OtherCalls
  <2> QED
    BY <2>1, <2>2, <2>3, <2>4, <2>5, EveryStep, OperatorFrame, OtherFrame
<1> QED
  BY <1>2, <1>3, <1>4, <1>5, <1>6, <1>7, <1>8, SMTT(30) DEF Monotone

-----------------------------------------------------------------------------
LEMMA RowsSoundKept ==
  ASSUME CatalogTypes, BindingTypes, RowsSound, CallsSound, Monotone, [CatalogNext]_vars
  PROVE  RowsSound'
<1>1. SUFFICES ASSUME NEW c \in Cases, NEW i \in DOMAIN bindings'[c], ~bindings'[c][i].legacy,
                      NEW content, NEW seen, NEW until,
                      content = bindings'[c][i].content, seen = bindings'[c][i].seen,
                      until = bindings'[c][i].until
               PROVE  Sound(c, content, seen, until)'
  BY DEF RowsSound, Sound
<1>2. SUFFICES seen \in Nat /\ until \in Nat /\ Sound(c, content, seen, until)
  BY SoundStays
<1>3. ASSUME i \in DOMAIN bindings[c], SaysTheSame(bindings'[c][i], bindings[c][i])
      PROVE  seen \in Nat /\ until \in Nat /\ Sound(c, content, seen, until)
  <2>1. ~bindings[c][i].legacy /\ content = bindings[c][i].content /\ seen = bindings[c][i].seen
          /\ until = bindings[c][i].until
    BY <1>1, <1>3 DEF SaysTheSame
  <2>2. bindings[c][i] \in BoundRow
    BY <1>3, SMTT(30) DEF BindingTypes
  <2> QED
    BY <1>3, <2>1, <2>2 DEF RowsSound, BoundRow
<1>4. ASSUME NEW e \in Evaluators, EvaluatorStep(e), Deciding(e), c = ev[e].case,
             content = ev[e].content, seen = ev[e].seen, until = ev[e].until
      PROVE  seen \in Nat /\ until \in Nat /\ Sound(c, content, seen, until)
  <2>1. ev[e] \in DecideCalls
    BY <1>4, EvShapes DEF Deciding
  <2> QED
    BY <1>4, <2>1 DEF CallsSound, DecideCalls
<1>5. CASE bindings' = bindings
  BY <1>1, <1>3, <1>5 DEF SaysTheSame
<1>6. ASSUME NEW e \in Evaluators, EvaluatorStep(e)
      PROVE  seen \in Nat /\ until \in Nat /\ Sound(c, content, seen, until)
  <2>1. RowsStep(e)
    BY <1>6, EvaluationRows
  <2> QED
    BY <1>1, <1>3, <1>4, <1>6, <2>1, SMTT(30) DEF RowsStep
<1> QED
  BY <1>5, <1>6, EveryStep, OperatorFrame, OtherFrame

(* What a call decides once it has resolved the versions may be reused.     *)
LEMMA DecidedIsSound ==
  ASSUME CatalogTypes, CallsTimely, NEW e \in Evaluators, EvaluatorStep(e), Observe,
         ev[e].step = "versions",
         FoundFor(ev[e]).status # "REVIEW_REQUIRED",
         NEW c \in Cases, NEW content, NEW seen \in Nat, NEW until,
         c = ev[e].case, content = FoundFor(ev[e]), seen = ev[e].seen,
         until = NextRevalidationDeadline(ev[e].now, InstantsFor(ev[e])),
         ev'[e].step # "binding"
  PROVE  Sound(c, content, seen, until)'
<1>1. ev[e] \in VersionsCalls /\ ev[e] # NoCall
  BY EvShapes, SMTT(30) DEF NoCall
<1>2. ev[e].deadlines \in SUBSET Nat /\ ev[e].now \in Nat /\ ev[e].asOf \in Nat
  BY <1>1 DEF VersionsCalls
<1>3. UNCHANGED <<clock, release, generation, recorded, slipped>>
  BY EvaluatorFrame
<1>4. clock \in Nat /\ generation \in Nat /\ recorded \in Revisions
  BY CatalogAssumption, SMTT(30) DEF CatalogTypes
<1>5. seen <= generation /\ ev[e].asOf <= clock /\ Covered(e)
  BY <1>1 DEF CallsTimely, CallTimely
<1>6. InstantsFor(ev[e]) \in SUBSET Nat
  BY <1>2, BoundariesAreDates DEF InstantsFor, RevalidateAfter
<1>7. until \in Nat /\ \A d \in InstantsFor(ev[e]) : until <= d
  BY <1>2, <1>6, DeadlineIsDate
<1>8. FreshTill(c, until, recorded)
  <2>1. SUFFICES ASSUME NEW s \in SourcesOf(c)
                 PROVE  until <= recorded[s] + Source[s].freshnessObjective
    BY <1>5 DEF Covered, FreshTill
  <2>2. PICK d \in ev[e].deadlines : d <= recorded[s] + Source[s].freshnessObjective
    BY <1>5 DEF Covered
  <2>3. d \in Nat /\ until <= d
    BY <1>2, <1>7 DEF InstantsFor, RevalidateAfter
  <2>4. recorded[s] + Source[s].freshnessObjective \in Int
    BY <1>4, CatalogAssumption, ResolverAssumption, SMTT(30) DEF Revisions, SourcesOf, SourceRow
  <2> QED
    BY <1>7, <2>2, <2>3, <2>4, SMTT(30)
<1>9. /\ VersionReasons(c, ev[e].asOf, release) = {}
      /\ content = ResolvedTo(InEffect(c, ev[e].asOf, release))
  BY ResolutionTyped DEF FoundFor
<1>10. \A b \in Boundaries(c, ev[e].asOf, release) : b \in Nat /\ until <= b
  BY <1>6, <1>7 DEF InstantsFor, RevalidateAfter
<1>11. HoldsFrom(c, content, clock, until, release)
  BY <1>2, <1>4, <1>5, <1>7, <1>9, <1>10, ResolutionLasts, SMTT(30)
<1>12. \A f \in Evaluators : ev'[f].step = "binding" => release' \in window'[f].releases
  BY WindowsGrow, SMTT(30) DEF NoCall
<1> QED
  BY <1>3, <1>5, <1>8, <1>11, <1>12 DEF Sound, Covered

LEMMA CallsSoundKept ==
  ASSUME CatalogTypes, BindingTypes, CallsSound, CallsTimely, Monotone, [CatalogNext]_vars
  PROVE  CallsSound'
<1>1. SUFFICES ASSUME NEW e \in Evaluators, Deciding(e)', NEW c, NEW content, NEW seen, NEW until,
                      c = ev'[e].case, content = ev'[e].content, seen = ev'[e].seen,
                      until = ev'[e].until
               PROVE  Sound(c, content, seen, until)'
  BY DEF CallsSound, Sound
<1>2. ASSUME Deciding(e), c = ev[e].case, content = ev[e].content, seen = ev[e].seen,
             until = ev[e].until
      PROVE  Sound(c, content, seen, until)'
  <2>1. ev[e] \in DecideCalls
    BY <1>2, EvShapes DEF Deciding
  <2>2. c \in Cases /\ seen \in Nat /\ until \in Nat
    BY <1>2, <2>1 DEF DecideCalls
  <2> QED
    BY <1>2, <2>2, SoundStays DEF CallsSound
<1>3. ASSUME ev'[e] = ev[e]
      PROVE  Sound(c, content, seen, until)'
  BY <1>1, <1>2, <1>3 DEF Deciding
<1>4. ASSUME EvaluatorStep(e), Observe
      PROVE  Sound(c, content, seen, until)'
  <2>1. CASE ev[e].step \in {"decide", "insert"}
             /\ (ev'[e] = [ev[e] EXCEPT !.step = "insert"] \/ ev'[e] = [ev[e] EXCEPT !.step = "winner"])
    <3>1. ev[e] \in DecideCalls
      BY <2>1, EvShapes
    <3>2. /\ ev'[e].case = ev[e].case /\ ev'[e].content = ev[e].content
          /\ ev'[e].seen = ev[e].seen /\ ev'[e].until = ev[e].until
      BY <2>1, <3>1 DEF DecideCalls
    <3> QED
      BY <1>1, <1>2, <2>1, <3>2 DEF Deciding
  <2>2. CASE /\ ev[e].step = "versions"
             /\ ev'[e] = ToDecide(ev[e], FoundFor(ev[e]), InstantsFor(ev[e]))
             /\ FoundFor(ev[e]).status # "REVIEW_REQUIRED"
    <3>1. ev[e] \in VersionsCalls
      BY <2>2, EvShapes
    <3>2. /\ c = ev[e].case /\ content = FoundFor(ev[e]) /\ seen = ev[e].seen
          /\ until = NextRevalidationDeadline(ev[e].now, InstantsFor(ev[e]))
          /\ ev'[e].step # "binding"
      BY <1>1, <2>2, SMTT(30) DEF ToDecide
    <3>3. c \in Cases /\ seen \in Nat
      BY <3>1, <3>2 DEF VersionsCalls
    <3> QED
      BY <1>4, <2>2, <3>2, <3>3, DecidedIsSound
  <2>3. /\ ev'[e] # NoCall /\ (\A d : ev'[e] # Begun(d)) /\ ev'[e] # Looking(ev[e])
        /\ ev'[e] # ToReview(ev[e], Unresolved(MissingFor(ev[e])))
        /\ ev'[e] # ToVersions(ev[e], FreshUntil(ev[e].case, recorded))
        /\ ev'[e] # ToReview(ev[e], FoundFor(ev[e]))
    BY <1>1, SMTT(30) DEF Deciding, NoCall, Begun, Looking, ToReview, ToVersions
  <2> QED
    BY <1>4, <2>1, <2>2, <2>3, NextCall
<1>5. ASSUME NEW f \in Evaluators, EvaluatorStep(f), f # e
      PROVE  ev'[e] = ev[e]
  BY <1>5, OtherCalls
<1> QED
  BY <1>3, <1>4, <1>5, EveryStep, OperatorFrame, OtherFrame

LEMMA WindowsHold ==
  ASSUME CallsTimely, [CatalogNext]_vars, NEW e \in Evaluators, ev'[e] # NoCall
  PROVE  /\ release' \in window'[e].releases
         /\ recorded' \in window'[e].revisions
         /\ window[e].releases \subseteq window'[e].releases
         /\ window[e].revisions \subseteq window'[e].revisions
<1>1. CASE Observe
  BY <1>1, WindowsGrow
<1>2. CASE UNCHANGED vars
  <2>1. UNCHANGED <<release, recorded, ev, window>>
    BY <1>2 DEF vars, governanceVars, caseVars, sourceVars
  <2> QED
    BY <2>1 DEF CallsTimely, CallTimely
<1> QED
  BY <1>1, <1>2 DEF CatalogNext

(* A call that does not step stays timely.                                  *)
LEMMA CallStaysTimely ==
  ASSUME CatalogTypes, CallsTimely, Monotone, [CatalogNext]_vars,
         NEW e \in Evaluators, ev[e] # NoCall, ev'[e] = ev[e]
  PROVE  CallTimely(e)'
<1>1. CallTimely(e) /\ ev[e].asOf \in Nat /\ ev[e].case \in Cases
  BY EvShapes DEF CallsTimely
<1>2. /\ release' \in window'[e].releases
      /\ recorded' \in window'[e].revisions
      /\ window[e].releases \subseteq window'[e].releases
      /\ window[e].revisions \subseteq window'[e].revisions
  BY WindowsHold
<1>3. ev[e].asOf <= clock' /\ ev[e].asOf..clock \subseteq ev[e].asOf..clock'
  BY <1>1, SMTT(30) DEF CallTimely, Monotone
<1>4. ev[e].step # "review" => ev[e].seen <= generation'
  <2>1. ev[e].step # "review" => ev[e].seen \in Nat
    <3>1. IsEvaluation(ev[e])
      BY DEF CatalogTypes
    <3> QED
      BY <3>1 DEF IsEvaluation, IsReview, BindingCalls, CoverageCalls, VersionsCalls, DecideCalls
  <2> QED
    BY <1>1, <2>1, SMTT(30) DEF CallTimely, Monotone
<1>5. ASSUME ev[e].step = "versions"
      PROVE  Covered(e)'
  <2>1. Covered(e) /\ ev[e].deadlines \in SUBSET Nat
    BY <1>1, <1>5, EvShapes DEF CallTimely, VersionsCalls
  <2>2. \E time \in ev'[e].asOf..clock', rev \in window'[e].revisions :
          CoverageReasons(ev'[e].case, time, rev) = {}
    BY <1>2, <1>3, <2>1 DEF Covered
  <2>3. ASSUME NEW s \in SourcesOf(ev[e].case)
        PROVE  /\ recorded'[s] # NoRevision
               /\ Source[s].freshnessObjective > 0
               /\ \E d \in ev[e].deadlines : d <= recorded'[s] + Source[s].freshnessObjective
    <3>1. s \in Sources /\ Source[s].freshnessObjective \in Int
      BY ResolverAssumption DEF SourcesOf, SourceRow
    <3>2. recorded[s] \in Nat /\ recorded'[s] \in Nat /\ recorded[s] <= recorded'[s]
      BY <3>1, CatalogAssumption, SMTT(30) DEF Monotone, Revisions
    <3>3. PICK d \in ev[e].deadlines : d <= recorded[s] + Source[s].freshnessObjective
      BY <2>1 DEF Covered
    <3>4. d \in Nat /\ d <= recorded'[s] + Source[s].freshnessObjective
      BY <2>1, <3>1, <3>2, <3>3, SMTT(30)
    <3> QED
      BY <2>1, <3>2, <3>4, SMTT(30) DEF Covered, NoRevision
  <2> QED
    BY <2>1, <2>2, <2>3 DEF Covered
<1>6. ASSUME Deciding(e) \/ ev[e].step = "review"
      PROVE  ContentOfItsTime(e)'
  <2>1. ContentOfItsTime(e)
    BY <1>1, <1>6 DEF CallTimely
  <2> QED
    BY <1>2, <1>3, <2>1 DEF ContentOfItsTime
<1> QED
  BY <1>2, <1>3, <1>4, <1>5, <1>6 DEF CallTimely, Deciding

(* What the resolver answers, half by half.                                 *)
LEMMA ResolveByHalves ==
  ASSUME NEW c, NEW asOf, NEW time, NEW rel, NEW rec
  PROVE  /\ CoverageReasons(c, time, rec) # {} =>
              Resolve(c, asOf, time, rel, rec) = Unresolved(CoverageReasons(c, time, rec))
         /\ CoverageReasons(c, time, rec) = {} =>
              Resolve(c, asOf, time, rel, rec) = ResolveVersions(c, asOf, rel)
BY DEF Resolve

LEMMA SteppedCallTimely ==
  ASSUME CatalogTypes, CallsTimely, Monotone, CatalogNext,
         NEW e \in Evaluators, EvaluatorStep(e), ev'[e] # NoCall
  PROVE  CallTimely(e)'
<1>1. UNCHANGED <<clock, release, generation, recorded>>
  BY EvaluatorFrame
<1>2. clock \in Nat /\ generation \in Nat /\ recorded \in Revisions
  BY CatalogAssumption, SMTT(30) DEF CatalogTypes
<1>3. /\ release \in window'[e].releases
      /\ recorded \in window'[e].revisions
      /\ window[e].releases \subseteq window'[e].releases
      /\ window[e].revisions \subseteq window'[e].revisions
  BY <1>1, WindowsHold
<1>4. ASSUME NEW c \in Cases, ev'[e] = Begun(c)
      PROVE  CallTimely(e)'
  <2>1. ev'[e].step = "binding" /\ ev'[e].asOf = clock /\ ev'[e].seen = generation
    BY <1>4, SMTT(30) DEF Begun
  <2> QED
    BY <1>1, <1>2, <1>3, <2>1, SMTT(30) DEF CallTimely, Deciding
<1>5. ev[e].step \in {"binding", "coverage", "versions", "decide", "insert", "winner"} =>
        /\ CallTimely(e) /\ ev[e].case \in Cases /\ ev[e].asOf \in Nat /\ ev[e].asOf <= clock
        /\ ev[e].seen <= generation
  BY EvShapes, SMTT(30) DEF NoCall, CallsTimely, CallTimely
<1>6. CASE ev[e].step = "binding" /\ ev'[e] = Looking(ev[e])
  <2>1. ev'[e].step = "coverage" /\ ev'[e].asOf = ev[e].asOf /\ ev'[e].seen = ev[e].seen
    BY <1>6, SMTT(30) DEF Looking
  <2> QED
    BY <1>1, <1>3, <1>5, <1>6, <2>1 DEF CallTimely, Deciding
<1>7. CASE /\ ev[e].step = "coverage" /\ ev'[e] = ToReview(ev[e], Unresolved(MissingFor(ev[e])))
           /\ MissingFor(ev[e]) # {}
  <2>1. /\ ev'[e].step = "review" /\ ev'[e].asOf = ev[e].asOf /\ ev'[e].case = ev[e].case
        /\ ev'[e].content = Unresolved(MissingFor(ev[e]))
    BY <1>7, SMTT(30) DEF ToReview
  <2>2. Resolve(ev[e].case, clock, clock, release, recorded) = Unresolved(MissingFor(ev[e]))
    BY <1>7, ResolveByHalves, SMTT(30) DEF MissingFor
  <2>3. clock \in ev[e].asOf..clock
    BY <1>2, <1>5, <1>7, SMTT(30)
  <2>4. ContentOfItsTime(e)'
    BY <1>1, <1>3, <2>1, <2>2, <2>3 DEF ContentOfItsTime
  <2> QED
    BY <1>1, <1>3, <1>5, <1>7, <2>1, <2>4 DEF CallTimely, Deciding
<1>8. CASE /\ ev[e].step = "coverage" /\ ev'[e] = ToVersions(ev[e], FreshUntil(ev[e].case, recorded))
           /\ MissingFor(ev[e]) = {}
  <2>1. /\ ev'[e].step = "versions" /\ ev'[e].asOf = ev[e].asOf /\ ev'[e].case = ev[e].case
        /\ ev'[e].seen = ev[e].seen /\ ev'[e].deadlines = FreshUntil(ev[e].case, recorded)
    BY <1>8, SMTT(30) DEF ToVersions
  <2>2. clock \in ev[e].asOf..clock
    BY <1>2, <1>5, <1>8, SMTT(30)
  <2>3. Sourced(ev[e].case) /\ FreshTill(ev[e].case, clock + 1, recorded)
    BY <1>2, <1>5, <1>8, CoverageMeans DEF MissingFor
  <2>4. ASSUME NEW s \in SourcesOf(ev[e].case)
        PROVE  /\ recorded[s] # NoRevision
               /\ Source[s].freshnessObjective > 0
               /\ \E d \in FreshUntil(ev[e].case, recorded) :
                    d <= recorded[s] + Source[s].freshnessObjective
    <3>1. recorded[s] + Source[s].freshnessObjective \in FreshUntil(ev[e].case, recorded)
      BY DEF FreshUntil
    <3>2. recorded[s] + Source[s].freshnessObjective \in Int
      BY <1>2, CatalogAssumption, ResolverAssumption, SMTT(30) DEF Revisions, SourcesOf, SourceRow
    <3>3. recorded[s] + Source[s].freshnessObjective <= recorded[s] + Source[s].freshnessObjective
      BY <3>2, SMTT(30)
    <3> QED
      BY <2>3, <3>1, <3>3 DEF FreshTill
  <2>5. Covered(e)'
    <3>1. \E time \in ev'[e].asOf..clock', rev \in window'[e].revisions :
            CoverageReasons(ev'[e].case, time, rev) = {}
      BY <1>1, <1>3, <1>8, <2>1, <2>2 DEF MissingFor
    <3> QED
      BY <1>1, <2>1, <2>3, <2>4, <3>1 DEF Covered
  <2> QED
    BY <1>1, <1>3, <1>5, <1>8, <2>1, <2>5 DEF CallTimely, Deciding
<1>9. ASSUME ev[e].step = "versions", ev'[e].content = FoundFor(ev[e]), ev'[e].asOf = ev[e].asOf,
             ev'[e].case = ev[e].case
      PROVE  ContentOfItsTime(e)'
  <2>1. PICK time \in ev[e].asOf..clock, rev \in window[e].revisions :
          CoverageReasons(ev[e].case, time, rev) = {}
    BY <1>5, <1>9 DEF CallTimely, Covered
  <2>2. FoundFor(ev[e]) = Resolve(ev[e].case, ev[e].asOf, time, release, rev)
    BY <2>1, ResolveByHalves, SMTT(30) DEF FoundFor
  <2>3. ev[e].asOf \in ev[e].asOf..clock
    BY <1>2, <1>5, <1>9, SMTT(30)
  <2> QED
    BY <1>1, <1>3, <1>9, <2>1, <2>2, <2>3 DEF ContentOfItsTime
<1>10. CASE ev[e].step = "versions" /\ ev'[e] = ToReview(ev[e], FoundFor(ev[e]))
  <2>1. /\ ev'[e].step = "review" /\ ev'[e].asOf = ev[e].asOf /\ ev'[e].case = ev[e].case
        /\ ev'[e].content = FoundFor(ev[e])
    BY <1>10, SMTT(30) DEF ToReview
  <2>2. ContentOfItsTime(e)'
    BY <1>9, <1>10, <2>1
  <2> QED
    BY <1>1, <1>3, <1>5, <1>10, <2>1, <2>2 DEF CallTimely, Deciding
<1>11. CASE ev[e].step = "versions" /\ ev'[e] = ToDecide(ev[e], FoundFor(ev[e]), InstantsFor(ev[e]))
  <2>1. /\ ev'[e].step = "decide" /\ ev'[e].asOf = ev[e].asOf /\ ev'[e].case = ev[e].case
        /\ ev'[e].content = FoundFor(ev[e]) /\ ev'[e].seen = ev[e].seen
    BY <1>11, SMTT(30) DEF ToDecide
  <2>2. ContentOfItsTime(e)'
    BY <1>9, <1>11, <2>1
  <2> QED
    BY <1>1, <1>3, <1>5, <1>11, <2>1, <2>2 DEF CallTimely, Deciding
<1>12. CASE /\ ev[e].step \in {"decide", "insert"}
            /\ ev'[e] = [ev[e] EXCEPT !.step = "insert"] \/ ev'[e] = [ev[e] EXCEPT !.step = "winner"]
  <2>1. ev[e] \in DecideCalls
    BY <1>12, EvShapes
  <2>2. /\ ev'[e].step \in {"insert", "winner"} /\ ev'[e].asOf = ev[e].asOf
        /\ ev'[e].case = ev[e].case /\ ev'[e].content = ev[e].content /\ ev'[e].seen = ev[e].seen
    BY <1>12, <2>1 DEF DecideCalls
  <2>3. ContentOfItsTime(e)
    BY <1>5, <1>12 DEF CallTimely, Deciding
  <2>4. ContentOfItsTime(e)'
    BY <1>1, <1>3, <2>2, <2>3 DEF ContentOfItsTime
  <2> QED
    BY <1>1, <1>3, <1>5, <1>12, <2>2, <2>4 DEF CallTimely, Deciding
<1> QED
  BY <1>4, <1>6, <1>7, <1>8, <1>10, <1>11, <1>12, NextCall

LEMMA CallsTimelyKept ==
  ASSUME CatalogTypes, CallsTimely, Monotone, [CatalogNext]_vars
  PROVE  CallsTimely'
<1>1. \A s \in Sources : recorded'[s] <= clock'
  BY DEF Monotone
<1>2. ASSUME NEW e \in Evaluators, ev'[e] # NoCall
      PROVE  CallTimely(e)'
  <2>1. CASE ev'[e] = ev[e]
    BY <1>2, <2>1, CallStaysTimely
  <2>2. ASSUME EvaluatorStep(e), CatalogNext
        PROVE  CallTimely(e)'
    BY <1>2, <2>2, SteppedCallTimely
  <2>3. ASSUME NEW f \in Evaluators, EvaluatorStep(f), f # e
        PROVE  ev'[e] = ev[e]
    BY <2>3, OtherCalls
  <2>4. CASE UNCHANGED vars
    <3>1. ev'[e] = ev[e]
      BY <2>4 DEF vars, caseVars
    <3> QED
      BY <2>1, <3>1
  <2>5. CASE CatalogNext
    BY <2>1, <2>2, <2>3, <2>5, EveryStep, OperatorFrame, OtherFrame
  <2> QED
    BY <2>4, <2>5
<1> QED
  BY <1>1, <1>2 DEF CallsTimely
-----------------------------------------------------------------------------
(***************************************************************************)
(* The theorems.                                                           *)
(***************************************************************************)

LEMMA CatalogStart == CatalogInit => CatalogInv
<1> SUFFICES ASSUME CatalogInit
             PROVE  CatalogInv
  OBVIOUS
<1>1. GovernedInv
  BY GovernedStart
<1>2. \A e \in Evaluators : ev[e] = NoCall
  BY DEF CatalogInit
<1>4. LegacyBinding.legacy
  BY DEF LegacyBinding
<1>5. \A c \in Cases : bindings[c] = <<>> \/ bindings[c] = <<LegacyBinding>>
  BY SMTT(30) DEF CatalogInit
<1>9. RowsSound
  <2>1. \A c \in Cases : \A i \in DOMAIN bindings[c] : bindings[c][i].legacy
    BY <1>4, <1>5, SMTT(30)
  <2> QED
    BY <2>1 DEF RowsSound
<1>10. CallsSound
  BY <1>2, SMTT(30) DEF CallsSound, Deciding, NoCall
<1>11. CallsTimely
  BY <1>2, SMTT(30) DEF CallsTimely, CatalogInit
<1> QED
  BY <1>1, <1>9, <1>10, <1>11 DEF CatalogInv, ReuseInv

LEMMA CatalogKept == CatalogInv /\ [CatalogNext]_vars => CatalogInv'
<1> SUFFICES ASSUME CatalogInv, [CatalogNext]_vars
             PROVE  CatalogInv'
  OBVIOUS
<1>1. /\ GovernedInv /\ CatalogTypes /\ BindingTypes /\ ApprovalsInv
      /\ RowsSound /\ CallsSound /\ CallsTimely
  BY DEF CatalogInv, GovernedInv, ReuseInv
<1>2. Monotone
  BY <1>1, EveryStepMonotone
<1>3. GovernedInv'
  BY <1>1, GovernedKept
<1>4. CatalogTypes' /\ BindingTypes'
  BY <1>3 DEF GovernedInv
<1>5. RowsSound' /\ CallsSound' /\ CallsTimely'
  BY <1>1, <1>2, <1>4, RowsSoundKept, CallsSoundKept, CallsTimelyKept
<1> QED
  BY <1>3, <1>5 DEF CatalogInv, ReuseInv

(* A sound content is what the resolver answers, at any time up to which it *)
(* may be reused.                                                           *)
LEMMA SoundIsResolved ==
  ASSUME CatalogTypes, NEW c \in Cases, NEW until \in Nat, until > clock, NEW rel, NEW content,
         Sourced(c), FreshTill(c, until, recorded), HoldsFrom(c, content, clock, until, rel)
  PROVE  content = Resolve(c, clock, clock, rel, recorded)
<1>1. clock \in Nat /\ recorded \in Revisions
  BY CatalogAssumption, SMTT(30) DEF CatalogTypes
<1>2. FreshTill(c, clock + 1, recorded)
  <2>1. SUFFICES ASSUME NEW s \in SourcesOf(c)
                 PROVE  clock + 1 <= recorded[s] + Source[s].freshnessObjective
    BY DEF FreshTill
  <2>2. recorded[s] + Source[s].freshnessObjective \in Int
    BY <1>1, CatalogAssumption, ResolverAssumption, SMTT(30) DEF Revisions, SourcesOf, SourceRow
  <2>3. until <= recorded[s] + Source[s].freshnessObjective
    BY DEF FreshTill
  <2> QED
    BY <1>1, <2>2, <2>3, SMTT(30)
<1>3. CoverageReasons(c, clock, recorded) = {}
  BY <1>1, <1>2, CoverageMeans
<1>4. clock \in clock..(until - 1)
  BY <1>1, SMTT(30)
<1>5. VersionReasons(c, clock, rel) = {} /\ content = ResolvedTo(InEffect(c, clock, rel))
  BY <1>4 DEF HoldsFrom
<1> QED
  BY <1>3, <1>5 DEF Resolve, ResolveVersions

LEMMA InvImpliesSound == CatalogInv => CatalogIsSound
<1> SUFFICES ASSUME CatalogInv
             PROVE  CatalogIsSound
  OBVIOUS
<1>1. GovernedInv /\ CatalogTypes /\ BindingTypes /\ RowsSound
  BY DEF CatalogInv, GovernedInv, ReuseInv
<1>2. CatalogTypeOK /\ ReleasedWithApproval /\ ExposedCasesAssessed
  BY <1>1, GovernedImplies
<1>3. ReuseIsCurrent
  <2>1. SUFFICES ASSUME NEW c \in Cases, NEW i \in LiveBindings(c),
                        ~bindings[c][i].legacy, bindings[c][i].seen = generation,
                        bindings[c][i].until > clock, generation \notin slipped
                 PROVE  bindings[c][i].content = Resolve(c, clock, clock, release, recorded)
    BY DEF ReuseIsCurrent
  <2>4. i \in DOMAIN bindings[c]
    BY DEF LiveBindings
  <2>5. bindings[c][i] \in BoundRow
    BY <1>1, <2>4, SMTT(30) DEF BindingTypes
  <2>2. i \in DOMAIN bindings[c] /\ bindings[c][i].until \in Nat
    BY <2>4, <2>5 DEF BoundRow
  <2>3. Sound(c, bindings[c][i].content, bindings[c][i].seen, bindings[c][i].until)
    BY <1>1, <2>1, <2>2 DEF RowsSound
  <2> QED
    BY <1>1, <2>1, <2>2, <2>3, SoundIsResolved DEF Sound
<1> QED
  BY <1>2, <1>3 DEF CatalogIsSound

(* In every behaviour, whatever the catalog, the operators and the          *)
(* evaluations: a binding that evaluate() may still reuse is what the       *)
(* resolver answers now, except in a generation in which a late proposal    *)
(* overwrote a released version; a version in effect was approved by        *)
(* another person than its proposer; and the bindings live at an audited    *)
(* change have been assessed against it.                                    *)
THEOREM CatalogAlwaysSound == CatalogSpec => []CatalogIsSound
<1>1. CatalogSpec => []CatalogInv
  BY CatalogStart, CatalogKept, PTL DEF CatalogSpec
<1> QED
  BY <1>1, InvImpliesSound, PTL

LEMMA AnswersAreOfTheirTime ==
  ASSUME CatalogInv, CatalogNext, answer'.outcome \notin {"none", "LOST", "ERROR"}
  PROVE  \/ answer'.outcome = "REUSED" /\ ev[answer'.by].seen \in slipped
         \/ Timely(answer')
<1>1. /\ CatalogTypes /\ BindingTypes /\ RowsSound /\ CallsTimely
  BY DEF CatalogInv, GovernedInv, ReuseInv
<1>2. answer' # NoAnswer
  BY SMTT(30) DEF NoAnswer
<1>3. ASSUME NEW e \in Evaluators, Deciding(e) \/ ev[e].step = "review",
             answer'.by = e, answer'.content = ev[e].content
      PROVE  Timely(answer')
  <2>1. ContentOfItsTime(e)
    BY <1>1, <1>3, SMTT(30) DEF CallsTimely, CallTimely, Deciding, NoCall
  <2> QED
    BY <1>3, <2>1, SMTT(30) DEF ContentOfItsTime, Timely
<1>4. ASSUME NEW e \in Evaluators, ReadBinding(e)
      PROVE  \/ answer'.outcome = "REUSED" /\ ev[answer'.by].seen \in slipped
             \/ Timely(answer')
  <2> DEFINE c == ev[e].case
             row == bindings[c][Max(LiveBindings(c))]
  <2>1. /\ ev[e].step = "binding" /\ LiveBindings(c) # {} /\ Reusable(row, ev[e])
        /\ answer' = [outcome |-> "REUSED", content |-> row.content, by |-> e]
    BY <1>2, <1>4 DEF ReadBinding, Return, EvGoto
  <2>2. ev[e] # NoCall /\ c \in Cases /\ ev[e].asOf \in Nat
    BY <1>1, <2>1, EvShapes, SMTT(30) DEF NoCall
  <2>3. Max(LiveBindings(c)) \in DOMAIN bindings[c] /\ row \in BoundRow
    BY <1>1, <2>1, <2>2, TheLiveRow
  <2>4. ~row.legacy /\ row.seen = ev[e].seen /\ row.until > clock
    BY <2>1 DEF Reusable
  <2>5. Sound(c, row.content, row.seen, row.until) /\ row.until \in Nat
    BY <1>1, <2>2, <2>3, <2>4 DEF RowsSound, BoundRow
  <2>6. CASE ev[e].seen \in slipped
    BY <2>1, <2>6
  <2>7. CASE ev[e].seen \notin slipped
    <3>1. PICK rel \in window[e].releases : HoldsFrom(c, row.content, clock, row.until, rel)
      BY <2>1, <2>4, <2>5, <2>7 DEF Sound
    <3>2. row.content = Resolve(c, clock, clock, rel, recorded)
      BY <1>1, <2>2, <2>4, <2>5, <3>1, SoundIsResolved DEF Sound
    <3>3. ev[e].asOf <= clock /\ recorded \in window[e].revisions
      BY <1>1, <2>2 DEF CallsTimely, CallTimely
    <3>4. clock \in ev[e].asOf..clock
      BY <1>1, <2>2, <3>3, CatalogAssumption, SMTT(30) DEF CatalogTypes
    <3>5. answer'.by = e /\ answer'.content = row.content
      BY <2>1
    <3> QED
      BY <3>1, <3>2, <3>3, <3>4, <3>5 DEF Timely
  <2> QED
    BY <2>6, <2>7
<1>5. ASSUME NEW e \in Evaluators, InvalidateActive(e) \/ RefreshInPlace(e) \/ InsertBinding(e)
      PROVE  Timely(answer')
  <2>1. Deciding(e) \/ ev[e].step = "review"
    BY <1>5 DEF InvalidateActive, RefreshInPlace, InsertBinding, Deciding
  <2>2. \E outcome : answer' = [outcome |-> outcome, content |-> ev[e].content, by |-> e]
    BY <1>2, <1>5 DEF InvalidateActive, RefreshInPlace, InsertBinding, Return, EvGoto
  <2> QED
    BY <1>3, <2>1, <2>2, SMTT(30)
<1>6. ASSUME NEW e \in Evaluators, ReadWinner(e)
      PROVE  FALSE
  BY <1>6, SMTT(30) DEF ReadWinner, Return
<1>7. ASSUME NEW o \in Operators, OperatorStep(o)
      PROVE  answer' = NoAnswer
  BY <1>7 DEF OperatorStep, Propose, Approve, ActivateBegin, Withdraw, MarkProposed, SaveProposal,
     StampApproval, ActivateCheck, CommitChange, RecordAudit, AssessNext, CrashOperator, OpGoto, OpBegin
<1>8. ASSUME NEW e \in Evaluators,
             \/ \E c \in Cases : EvaluateBegin(e, c)
             \/ ResolveCoverage(e) \/ ResolveReleased(e) \/ InvalidateFound(e) \/ CrashEvaluation(e)
      PROVE  answer' = NoAnswer
  BY <1>8 DEF EvaluateBegin, ResolveCoverage, ResolveReleased, InvalidateFound, CrashEvaluation,
     EvGoto
<1>9. CASE \/ \E c \in Cases, v \in Versions : AssessImpactForCase(c, v)
           \/ \E s \in Sources : RecordRevision(s)
           \/ Tick
  BY <1>2, <1>9 DEF AssessImpactForCase, RecordRevision, Tick
<1>10. CASE \E o \in Operators : OperatorStep(o)
  BY <1>2, <1>7, <1>10
<1>11. CASE \E e \in Evaluators : EvaluatorStep(e)
  BY <1>2, <1>4, <1>5, <1>6, <1>8, <1>11 DEF EvaluatorStep
<1> QED
  BY <1>9, <1>10, <1>11 DEF CatalogNext, CatalogStep, OperatorStep, EvaluatorStep

(* Every answer of evaluate() is what the resolver would have said for      *)
(* statuses, revisions and times between the call's start and its answer,   *)
(* whatever ran beside it; the exceptions are the loser of the race for the *)
(* live binding, and a binding reused under a generation in which a late    *)
(* proposal overwrote a released version.                                   *)
THEOREM AnswersOfTheirTime == CatalogSpec => AnswerOfItsTime
<1>1. CatalogInv /\ [CatalogNext]_vars =>
        [answer'.outcome \notin {"none", "LOST", "ERROR"}
           => \/ answer'.outcome = "REUSED" /\ ev[answer'.by].seen \in slipped
              \/ Timely(answer')]_vars
  BY AnswersAreOfTheirTime
<1>2. CatalogSpec => []CatalogInv
  BY CatalogStart, CatalogKept, PTL DEF CatalogSpec
<1> QED
  BY <1>1, <1>2, PTL DEF CatalogSpec, AnswerOfItsTime
==============================================================================
