---------------------------- MODULE PolicyResearch ----------------------------
(***************************************************************************)
(* The policy research queue and the source monitor that feeds it          *)
(* (src/src/policy/policy-research.service.ts and                          *)
(* policy-source-monitor.service.ts, on the timers of src/src/worker.ts).  *)
(*                                                                         *)
(* A run is claimed under a lease.  Time passes in minutes, and only while *)
(* every live worker waits for the model: a database statement takes none. *)
(* The passages of a brief are kept as the set of source revisions that    *)
(* they quote; their ranking and wording are not modelled.                 *)
(***************************************************************************)
EXTENDS Integers, Sequences, FiniteSets, FiniteSetsExt

CONSTANTS
  Gaps,           \* fingerprints of requests that resolutions make
  Requesters,     \* request() calls that can be in progress at once
  ResearchWorkers,\* worker ticks that can be in progress at once
  PolledSource,   \* the CONNECTOR source that the monitor polls
  SeededSources,  \* sources that a migration gives one revision
  Drifted,        \* bulletins that do not have the expected shape
  BatchLimit,     \* runs per tick
  Lease,          \* POLICY_RESEARCH_LEASE_MS
  Timeout,        \* POLICY_RESEARCH_TIMEOUT_MS
  MaxBulletins,   \* bound: bulletins the polled source publishes
  MaxDeaths       \* bound: workers and monitors that die in the middle

(* The lease "exceeds the permitted model response window", as              *)
(* env.validation.ts says of its defaults; a tick takes at least one run;   *)
(* the polled source is not one of the seeded ones.                         *)
ASSUME ResearchAssumption ==
  /\ Lease \in Nat /\ Timeout \in 0..Lease
  /\ BatchLimit \in Nat \ {0} /\ MaxBulletins \in Nat /\ MaxDeaths \in Nat
  /\ Cardinality(SeededSources) \in Nat /\ PolledSource \notin SeededSources

VARIABLES
  runs,        \* policy_research_runs, by requestedAt
  citations,   \* per run: the revisions that its citation rows quote
  revisions,   \* policy_source_revisions, by recordedAt
  bulletin,    \* what the polled source serves now; 0 before the first
  caller,      \* per requester: the call in progress
  tick,        \* per worker: the tick in progress
  monitor,     \* the monitor's check in progress
  deaths       \* bound counter

researchVars == <<runs, citations, revisions, bulletin, caller, tick, monitor, deaths>>

Fingerprints == [kind: {"gap"}, key: Gaps] \cup [kind: {"revision"}, key: Nat]
ResearchStatuses == {"QUEUED", "PROCESSING", "COMPLETED", "FAILED"}
RunRow == [fingerprint: Fingerprints, status: ResearchStatuses, age: 0..(Lease + 1),
           brief: SUBSET Nat, failure: {"none", "model", "rank"}]
CitationRow == SUBSET Nat
RevisionRow == [source: SeededSources \cup {PolledSource}, checksum: Nat]

TickRow == [step: {"idle", "clear", "retrieve", "cite", "model", "complete", "fail", "next"},
            run: Nat, left: Nat, excerpts: SUBSET Nat, waited: Nat,
            cause: {"none", "model", "rank"}]

Idle == [step |-> "idle"]
NoTick == [step |-> "idle", run |-> 0, left |-> 0, excerpts |-> {}, waited |-> 0, cause |-> "none"]
Known(fp) == \E r \in DOMAIN runs : runs[r].fingerprint = fp
QueuedRun(fp) ==
  [fingerprint |-> fp, status |-> "QUEUED", age |-> 0, brief |-> {}, failure |-> "none"]

(* The migrations record one revision of every synthetic source; the polled *)
(* source starts without one.                                               *)
SeededRevisions ==
  {[i \in DOMAIN order |-> [source |-> order[i], checksum |-> 0]] :
     order \in {o \in [1..Cardinality(SeededSources) -> SeededSources] :
                 \A s \in SeededSources : \E i \in DOMAIN o : o[i] = s}}

ResearchInit ==
  /\ runs = <<>>
  /\ citations = <<>>
  /\ revisions \in SeededRevisions
  /\ bulletin = 0
  /\ caller = [q \in Requesters |-> Idle]
  /\ tick = [w \in ResearchWorkers |-> NoTick]
  /\ monitor = Idle
  /\ deaths = 0

-----------------------------------------------------------------------------
(***************************************************************************)
(* request: look for the fingerprint, then insert under its unique index;  *)
(* the loser of a race reads the winner's row back.                        *)
(***************************************************************************)

RequestFind(q, gap) ==
  /\ caller[q] = Idle
  /\ ~Known([kind |-> "gap", key |-> gap])
  /\ caller' = [caller EXCEPT ![q] = [step |-> "insert", fp |-> [kind |-> "gap", key |-> gap]]]
  /\ UNCHANGED <<runs, citations, revisions, bulletin, tick, monitor, deaths>>

EnqueueBlindly(fp) ==                                   \* mutant of Enqueue
  /\ runs' = Append(runs, QueuedRun(fp))
  /\ citations' = Append(citations, {})

Enqueue(fp) ==
  IF Known(fp) THEN UNCHANGED <<runs, citations>>
  ELSE runs' = Append(runs, QueuedRun(fp)) /\ citations' = Append(citations, {})

RequestInsert(q) ==
  /\ caller[q].step = "insert"
  /\ Enqueue(caller[q].fp)
  /\ caller' = [caller EXCEPT ![q] = Idle]
  /\ UNCHANGED <<revisions, bulletin, tick, monitor, deaths>>

-----------------------------------------------------------------------------
(***************************************************************************)
(* The source monitor.                                                     *)
(***************************************************************************)

RevisionsOf(s) == {i \in DOMAIN revisions : revisions[i].source = s}
LatestRevision(s) == IF RevisionsOf(s) = {} THEN 0 ELSE Max(RevisionsOf(s))

(* External: the polled source publishes a new bulletin.                    *)
Publish ==
  /\ bulletin < MaxBulletins
  /\ bulletin' = bulletin + 1
  /\ UNCHANGED <<runs, citations, revisions, caller, tick, monitor, deaths>>

LatestChecksum ==
  IF LatestRevision(PolledSource) = 0 THEN 0 ELSE revisions[LatestRevision(PolledSource)].checksum

CheckSource ==
  /\ monitor = Idle
  /\ monitor' = [step |-> "fetch", known |-> LatestChecksum]
  /\ UNCHANGED <<runs, citations, revisions, bulletin, caller, tick, deaths>>

(* checkForUpdate compares the checksum it fetches with the one passed in;  *)
(* detectSchemaDrift turns away a bulletin without a summary.  A connector  *)
(* that fails, finds no change or drifts ends the check.                    *)
ChangedAlways(known) == TRUE                            \* mutant of Changed
Changed(known) == bulletin # known

FetchUpdate ==
  /\ monitor.step = "fetch"
  /\ \/ monitor' = Idle
     \/ /\ bulletin # 0
        /\ Changed(monitor.known)
        /\ bulletin \notin Drifted
        /\ monitor' = [step |-> "save", update |-> bulletin]
  /\ UNCHANGED <<runs, citations, revisions, bulletin, caller, tick, deaths>>

SaveRevision ==
  /\ monitor.step = "save"
  /\ revisions' = Append(revisions, [source |-> PolledSource, checksum |-> monitor.update])
  /\ monitor' = [step |-> "request", fp |-> [kind |-> "revision", key |-> Len(revisions) + 1]]
  /\ UNCHANGED <<runs, citations, bulletin, caller, tick, deaths>>

(* requestForNewRevision; an error of the queue is logged and swallowed.    *)
RequestForNewRevision ==
  /\ monitor.step = "request"
  /\ Enqueue(monitor.fp)
  /\ monitor' = Idle
  /\ UNCHANGED <<revisions, bulletin, caller, tick, deaths>>

-----------------------------------------------------------------------------
(***************************************************************************)
(* The worker's tick: up to BatchLimit runs, oldest first.                 *)
(***************************************************************************)

ClaimableAlways(r) == runs[r].status \in {"QUEUED", "PROCESSING"}   \* mutants of Claimable
ClaimableQueued(r) == runs[r].status = "QUEUED"

Claimable(r) ==
  \/ runs[r].status = "QUEUED"
  \/ runs[r].status = "PROCESSING" /\ runs[r].age > Lease

Candidate == {r \in DOMAIN runs : Claimable(r) /\ \A x \in 1..(r-1) : ~Claimable(x)}

(* claimNextRun, by the tick's first claim or a later one of its batch.     *)
Claim(w, left) ==
  \E r \in Candidate :
    /\ runs' = [runs EXCEPT ![r] = [@ EXCEPT !.status = "PROCESSING", !.age = 0,
                                             !.failure = "none"]]
    /\ tick' = [tick EXCEPT ![w] = [NoTick EXCEPT !.step = "clear", !.run = r, !.left = left]]
    /\ UNCHANGED <<citations, revisions, bulletin, caller, monitor, deaths>>

StartTick(w) == tick[w] = NoTick /\ Claim(w, BatchLimit - 1)

NextOfBatch(w) ==
  /\ tick[w].step = "next"
  /\ \/ tick[w].left > 0 /\ Claim(w, tick[w].left - 1)
     \/ /\ tick[w].left = 0 \/ Candidate = {}
        /\ tick' = [tick EXCEPT ![w] = NoTick]
        /\ UNCHANGED <<runs, citations, revisions, bulletin, caller, monitor, deaths>>

ClearNothing(r) == citations                         \* mutant of ClearedCitations
ClearedCitations(r) == [citations EXCEPT ![r] = {}]

ClearCitations(w) ==
  /\ tick[w].step = "clear"
  /\ citations' = ClearedCitations(tick[w].run)
  /\ tick' = [tick EXCEPT ![w] = [@ EXCEPT !.step = "retrieve"]]
  /\ UNCHANGED <<runs, revisions, bulletin, caller, monitor, deaths>>

(* revisionsFor: the run's own revision, or the latest of every source.     *)
Excerpts(r) ==
  IF runs[r].fingerprint.kind = "revision" THEN {runs[r].fingerprint.key}
  ELSE {LatestRevision(s) : s \in SeededSources \cup {PolledSource}} \ {0}

Retrieve(w) ==
  /\ tick[w].step = "retrieve"
  /\ tick' = [tick EXCEPT ![w] = [@ EXCEPT !.step = "cite", !.excerpts = Excerpts(tick[w].run)]]
  /\ UNCHANGED <<runs, citations, revisions, bulletin, caller, monitor, deaths>>

(* The citations are one insert; a rank that the run already has fails it.  *)
SaveCitations(w) ==
  LET r == tick[w].run
      clash == tick[w].excerpts # {} /\ citations[r] # {}
  IN  /\ tick[w].step = "cite"
      /\ citations' = IF clash THEN citations ELSE [citations EXCEPT ![r] = tick[w].excerpts]
      /\ tick' = [tick EXCEPT ![w] =
           IF clash THEN [@ EXCEPT !.step = "fail", !.cause = "rank"] ELSE [@ EXCEPT !.step = "model"]]
      /\ UNCHANGED <<runs, revisions, bulletin, caller, monitor, deaths>>

(* synthesize: extractive at once, or an answer of the model within its     *)
(* timeout; an invalid answer, an error and the timeout all throw.          *)
Synthesize(w) ==
  /\ tick[w].step = "model"
  /\ \/ tick' = [tick EXCEPT ![w] = [@ EXCEPT !.step = "complete"]]
     \/ tick' = [tick EXCEPT ![w] = [@ EXCEPT !.step = "fail", !.cause = "model"]]
  /\ UNCHANGED <<runs, citations, revisions, bulletin, caller, monitor, deaths>>

(* Both final updates apply only while the run is PROCESSING.               *)
EndRun(w, row) ==
  LET r == tick[w].run
  IN  /\ runs' = IF runs[r].status = "PROCESSING" THEN [runs EXCEPT ![r] = row] ELSE runs
      /\ tick' = [tick EXCEPT ![w] = [NoTick EXCEPT !.step = "next", !.left = tick[w].left]]
      /\ UNCHANGED <<citations, revisions, bulletin, caller, monitor, deaths>>

CompleteRun(w) ==
  /\ tick[w].step = "complete"
  /\ EndRun(w, [runs[tick[w].run] EXCEPT !.status = "COMPLETED", !.brief = tick[w].excerpts])

FailRun(w) ==
  /\ tick[w].step = "fail"
  /\ EndRun(w, [runs[tick[w].run] EXCEPT !.status = "FAILED", !.failure = tick[w].cause])

-----------------------------------------------------------------------------
(* A minute passes.  The model call is aborted before it exceeds Timeout.   *)
Minute ==
  /\ \A w \in ResearchWorkers : tick[w].step \in {"idle", "model"}
  /\ \A w \in ResearchWorkers : tick[w].step = "model" => tick[w].waited < Timeout
  /\ \E r \in DOMAIN runs : runs[r].status = "PROCESSING" /\ runs[r].age <= Lease
  /\ runs' = [r \in DOMAIN runs |->
       IF runs[r].status = "PROCESSING" /\ runs[r].age <= Lease
       THEN [runs[r] EXCEPT !.age = @ + 1] ELSE runs[r]]
  /\ tick' = [w \in ResearchWorkers |->
       IF tick[w].step = "model" THEN [tick[w] EXCEPT !.waited = @ + 1] ELSE tick[w]]
  /\ UNCHANGED <<citations, revisions, bulletin, caller, monitor, deaths>>

WorkerDies(w) ==
  /\ tick[w] # NoTick
  /\ deaths < MaxDeaths
  /\ deaths' = deaths + 1
  /\ tick' = [tick EXCEPT ![w] = NoTick]
  /\ UNCHANGED <<runs, citations, revisions, bulletin, caller, monitor>>

MonitorDies ==
  /\ monitor # Idle
  /\ deaths < MaxDeaths
  /\ deaths' = deaths + 1
  /\ monitor' = Idle
  /\ UNCHANGED <<runs, citations, revisions, bulletin, caller, tick>>

WorkerStep(w) ==
  \/ StartTick(w) \/ NextOfBatch(w) \/ ClearCitations(w) \/ Retrieve(w)
  \/ SaveCitations(w) \/ Synthesize(w) \/ CompleteRun(w) \/ FailRun(w)

ResearchNext ==
  \/ \E q \in Requesters : RequestInsert(q) \/ \E gap \in Gaps : RequestFind(q, gap)
  \/ Publish \/ CheckSource \/ FetchUpdate \/ SaveRevision \/ RequestForNewRevision
  \/ \E w \in ResearchWorkers : WorkerStep(w) \/ WorkerDies(w)
  \/ MonitorDies
  \/ Minute

(* Timers start ticks and time passes; a tick that runs goes on.            *)
ResearchFairness ==
  /\ \A w \in ResearchWorkers : WF_researchVars(WorkerStep(w))
  /\ WF_researchVars(Minute)

ResearchSpec == ResearchInit /\ [][ResearchNext]_researchVars /\ ResearchFairness

-----------------------------------------------------------------------------
(***************************************************************************)
(* Properties.                                                             *)
(***************************************************************************)

(* Every variable has its type.                                             *)
ResearchTypeOK ==
  /\ \A r \in DOMAIN runs : runs[r] \in RunRow /\ citations[r] \in CitationRow
  /\ \A i \in DOMAIN revisions : revisions[i] \in RevisionRow
  /\ tick \in [ResearchWorkers -> TickRow]
  /\ bulletin \in 0..MaxBulletins
  /\ deaths \in 0..MaxDeaths

(* A request is queued once, whoever else asks for the same research while  *)
(* it is being inserted.                                                    *)
OneRunPerFingerprint ==
  \A r, x \in DOMAIN runs : runs[r].fingerprint = runs[x].fingerprint => r = x

(* A completed brief was synthesized from exactly the revisions that the    *)
(* run's citations quote, after any number of deaths and reclaims.          *)
BriefMatchesCitations ==
  \A r \in DOMAIN runs : runs[r].status = "COMPLETED" => citations[r] = runs[r].brief

(* A run fails because of the model, never because of citations that an     *)
(* earlier attempt left behind.                                             *)
RecoveryIsClean ==
  \A r \in DOMAIN runs : runs[r].status = "FAILED" => runs[r].failure = "model"

(* No worker takes over a run that another live worker is researching.      *)
NoPreemption ==
  \A w, x \in ResearchWorkers : w # x /\ tick[w].run # 0 => tick[w].run # tick[x].run

(* The monitor records no bulletin twice in a row.                          *)
RevisionsDiffer ==
  \A i, j \in RevisionsOf(PolledSource) :
    i < j /\ (\A k \in RevisionsOf(PolledSource) : ~(i < k /\ k < j)) =>
      revisions[i].checksum # revisions[j].checksum

(* A request for research is queued once, whoever else asks for the same,   *)
(* and no bulletin is recorded twice in a row; a completed brief was        *)
(* synthesized from exactly the revisions its run cites, after any deaths   *)
(* and reclaims; a run fails because of the model, never because of         *)
(* citations that an earlier attempt left behind; and no worker takes over  *)
(* a run that a live one is researching (policy-research.service.ts,        *)
(* policy-source-monitor.service.ts).                                       *)
ResearchIsSound ==
  /\ ResearchTypeOK /\ OneRunPerFingerprint /\ RevisionsDiffer /\ BriefMatchesCitations
  /\ RecoveryIsClean /\ NoPreemption

(* A run that is queued, or in the hands of a worker that may have died.    *)
Researching == \E r \in DOMAIN runs : runs[r].status \notin {"COMPLETED", "FAILED"}
=============================================================================
