------------------------------ MODULE CaseReads ------------------------------
(***************************************************************************)
(* The reads of the case API: the case list and the audit export, which    *)
(* page through a table by keyset while rows are still being inserted      *)
(* (src/src/cases/case-query.service.ts, src/src/audit), and the timeline  *)
(* of a case (src/src/cases/case-timeline.service.ts).                     *)
(*                                                                         *)
(* Time is in the ticks of the database clock, of which PerMs make one     *)
(* millisecond: a timestamptz column keeps microseconds, a JavaScript Date *)
(* and the ISO string of a cursor keep milliseconds.  createdAt is the     *)
(* start of the inserting transaction, so a row can appear late.           *)
(***************************************************************************)
EXTENDS Integers, FiniteSets, Sequences, SequencesExt

CONSTANTS
  Ids,       \* row ids; random, so in no relation to the insertion order
  PerMs,     \* ticks of the database clock in a millisecond
  MaxTick,   \* bound: ticks of the clock
  MaxRows,   \* bound: rows
  First,     \* page size of a case list
  PageSize,  \* page size of an export
  Caps,      \* the values of maxEvents, the cap of an export
  MaxDone    \* bound: completed agent runs

VARIABLES
  table,    \* committed rows of the table that is paged through
  tick,     \* the database clock
  runsDone, \* completed agent runs of the case
  reader    \* the reader

readVars == <<table, tick, runsDone, reader>>

Row == [at : 0..MaxTick, id : Ids]
Kinds == {"cases", "export", "recent"}
NoCursor == [at |-> MaxTick + PerMs, id |-> 0]
Resting == [kind |-> "none", got |-> <<>>, cursor |-> NoCursor, done |-> FALSE,
            truncated |-> FALSE, held |-> {}, maxEvents |-> 0]

\* new Date(..) and toISOString(): milliseconds.
AsDate(t) == (t \div PerMs) * PerMs

\* The elements of S in the strict order given by before.
InOrder(S, before(_, _)) ==
  [i \in 1..Cardinality(S) |->
     CHOOSE r \in S : Cardinality({q \in S : before(q, r)}) = i - 1]

\* ORDER BY "createdAt" DESC, id DESC
Newer(a, b) == a.at > b.at \/ (a.at = b.at /\ a.id > b.id)

\* The keyset condition on (createdAt, id).
Beyond(cursor, r) == r.at < cursor.at \/ (r.at = cursor.at /\ r.id < cursor.id)

\* A cursor that names the first row of the page.
CursorOfFirst(page) == [at |-> AsDate(Head(page).at), id |-> Head(page).id]

\* encodeCaseCursor and decodeCaseCursor of the last row of a page, and
\* the cursor object of listAll.
CursorOf(page) == [at |-> AsDate(Last(page).at), id |-> Last(page).id]

\* A page that is one row short.
OneShort(rows, n) == SubSeq(rows, 1, IF n - 1 < Len(rows) THEN n - 1 ELSE Len(rows))

\* .take(n)
Take(rows, n) == SubSeq(rows, 1, IF n < Len(rows) THEN n ELSE Len(rows))

Fetch(cursor, n) ==
  Take(InOrder({r \in table : Beyond(cursor, r)}, Newer), n)

\* Math.min(Math.max(limit, 1), cap) of the bounded lists.
PageLimit(limit, cap) == IF limit < 1 THEN 1 ELSE IF limit > cap THEN cap ELSE limit

\* list, listRecentActivity: the newest rows, at most cap of them.
Recent(limit, cap) == Fetch(NoCursor, PageLimit(limit, cap))

\* Events of the case in the order of another query.
EventsByIdDesc == InOrder(table, LAMBDA a, b : a.id > b.id)

\* The outbox events of the case, ORDER BY "createdAt" ASC.
EventsByTime == InOrder(table, LAMBDA a, b : Newer(b, a))

\* describeEvent and describeAgentRun: the entries before the sort.
Entries ==
  LET events == EventsByTime
  IN [i \in 1..Len(events) |->
        [stamp |-> AsDate(events[i].at), kind |-> "DOMAIN_EVENT", row |-> events[i].id]]
     \o [i \in 1..Cardinality(runsDone) |->
        [stamp |-> InOrder(runsDone, <)[i], kind |-> "AGENT_RUN", row |-> 0]]

\* getTimeline: a stable sort of the entries by their ISO timestamp.
Timeline ==
  LET es == Entries
      earlier(i, j) == es[i].stamp < es[j].stamp \/ (es[i].stamp = es[j].stamp /\ i < j)
      order == InOrder(1..Len(es), earlier)
  IN [i \in 1..Len(es) |-> es[order[i]]]

ReadInit == table = {} /\ tick = 0 /\ runsDone = {} /\ reader = Resting

ClockAdvances ==
  /\ tick < MaxTick
  /\ tick' = tick + 1
  /\ UNCHANGED <<table, runsDone, reader>>

\* A case or an audit event commits; its transaction may have begun a
\* tick ago.
InsertRow ==
  /\ Cardinality(table) < MaxRows
  /\ \E i \in Ids \ {r.id : r \in table}, t \in {tick - 1, tick} \cap Nat :
       table' = table \cup {[at |-> t, id |-> i]}
  /\ UNCHANGED <<tick, runsDone, reader>>

\* An agent run completes; completedAt comes from the worker's clock.
RunCompletes ==
  /\ Cardinality(runsDone) < MaxDone
  /\ runsDone' = runsDone \cup {AsDate(tick)}
  /\ UNCHANGED <<table, tick, reader>>

\* cap: the parameter maxEvents of listAll, of no use to the other reads.
StartReading(kind, cap) ==
  /\ reader = Resting
  /\ reader' = [Resting EXCEPT !.kind = kind, !.held = table,
                              !.maxEvents = IF kind = "export" THEN cap ELSE 0]
  /\ UNCHANGED <<table, tick, runsDone>>

\* listCases(first, after): the caller follows endCursor while
\* hasNextPage.
ListCases ==
  /\ reader.kind = "cases" /\ ~reader.done
  /\ LET limit == PageLimit(First, 100)
         rows == Fetch(reader.cursor, limit + 1)
         page == Take(rows, limit)
     IN reader' = [reader EXCEPT
          !.got = @ \o page,
          !.done = Len(rows) <= limit,
          !.cursor = IF page = <<>> THEN @ ELSE CursorOf(page)]
  /\ UNCHANGED <<table, tick, runsDone>>

\* One turn of the loop of listAll.
ListAll ==
  /\ reader.kind = "export" /\ ~reader.done /\ Len(reader.got) < reader.maxEvents
  /\ LET page == Fetch(reader.cursor, PageSize)
         got == reader.got \o page
         short == Len(page) < PageSize
     IN reader' = [reader EXCEPT
          !.got = got,
          !.done = short /\ Len(got) <= reader.maxEvents,
          !.cursor = IF page = <<>> THEN @ ELSE CursorOf(page)]
  /\ UNCHANGED <<table, tick, runsDone>>

\* An export that reached the cap, complete or not.
AtCap(kept) == Len(kept) = reader.maxEvents

\* One row beyond the last event kept tells whether the export is complete.
BeyondCap(kept) == Fetch(CursorOf(kept), 1) # <<>>

\* The loop has ended at the cap.
CheckBeyondCap ==
  /\ reader.kind = "export" /\ ~reader.done /\ Len(reader.got) >= reader.maxEvents
  /\ LET trimmed == Take(reader.got, reader.maxEvents)
     IN reader' = [reader EXCEPT
          !.got = trimmed,
          !.done = TRUE,
          !.truncated = BeyondCap(trimmed)]
  /\ UNCHANGED <<table, tick, runsDone>>

\* The one page of the recent audit events.
ListRecent ==
  /\ reader.kind = "recent" /\ ~reader.done
  /\ reader' = [reader EXCEPT !.got = Recent(PageSize, 1000), !.done = TRUE, !.truncated = TRUE]
  /\ UNCHANGED <<table, tick, runsDone>>

StopReading ==
  /\ reader.done
  /\ reader' = Resting
  /\ UNCHANGED <<table, tick, runsDone>>

ReadNext ==
  \/ ClockAdvances \/ InsertRow \/ RunCompletes
  \/ \E kind \in Kinds, cap \in Caps : StartReading(kind, cap)
  \/ ListCases \/ ListAll \/ CheckBeyondCap \/ ListRecent \/ StopReading

ReadSpec == ReadInit /\ [][ReadNext]_readVars
-----------------------------------------------------------------------------
ReadTypeOK ==
  /\ table \subseteq Row /\ tick \in 0..MaxTick /\ runsDone \subseteq 0..MaxTick
  /\ reader.kind \in Kinds \cup {"none"} /\ ToSet(reader.got) \subseteq table

\* A reader that follows the cursors sees every row at most once and
\* strictly from newer to older, whatever is inserted between its pages.
PagesDescend ==
  \A i, j \in 1..Len(reader.got) : i < j => Newer(reader.got[i], reader.got[j])

\* A list that has ended, or an export that does not say it is truncated,
\* misses a row that was there when it began only if the row shares its
\* millisecond with a row that was delivered.
OnlySameMillisecondIsMissed ==
  reader.done /\ ~reader.truncated =>
    \A r \in reader.held \ ToSet(reader.got) :
      \E g \in ToSet(reader.got) : AsDate(g.at) = AsDate(r.at)

\* An export says it is truncated only when it holds as many events as
\* the cap allows and the table holds an older one.
TruncationIsReal ==
  reader.kind = "export" /\ reader.truncated =>
    /\ Len(reader.got) = reader.maxEvents
    /\ \E r \in table : Newer(Last(reader.got), r)

\* The timeline lists every event once and in the order the database
\* stamped them, and an agent run after the events of earlier
\* milliseconds, although it sorts by the millisecond only.
TimelineInOrder ==
  LET line == Timeline
      at(r) == CHOOSE i \in 1..Len(line) : line[i].kind = "DOMAIN_EVENT" /\ line[i].row = r.id
  IN /\ Len(line) = Cardinality(table) + Cardinality(runsDone)
     /\ \A a, b \in table : a.at < b.at => at(a) < at(b)
     /\ \A i, j \in 1..Len(line) : i < j => line[i].stamp <= line[j].stamp
==============================================================================
