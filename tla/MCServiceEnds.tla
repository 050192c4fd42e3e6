------------------------------- MODULE MCServiceEnds -------------------------------
(***************************************************************************)
(* What the services must bring to an end, and what the console shows of   *)
(* it, one component per behaviour: "webhooks", "research", "guests",      *)
(* "queues", "console", "admin" or "reads".  Research, guests and the      *)
(* console's page rest in their first state when they are not in focus;    *)
(* the others keep their state in the first of the variables s1 .. s24     *)
(* when they are, and the rest is unused.                                  *)
(***************************************************************************)
EXTENDS PolicyResearch, GuestSandbox, ConsoleSession, TLC

VARIABLES focus, s1, s2, s3, s4, s5, s6, s7, s8, s9, s10, s11, s12, s13, s14, s15, s16,
          s17, s18, s19, s20, s21, s22, s23, s24

Rest17 == <<s17, s18, s19, s20, s21, s22, s23, s24>>
Rest11 == <<s11, s12, s13, s14, s15, s16, Rest17>>
Rest5 == <<s5, s6, s7, s8, s9, s10, Rest11>>
slots == <<s1, s2, s3, s4, Rest5>>

Unused == "unused"
Free17 == /\ s17 = Unused /\ s18 = Unused /\ s19 = Unused /\ s20 = Unused
          /\ s21 = Unused /\ s22 = Unused /\ s23 = Unused /\ s24 = Unused
Free11 == /\ s11 = Unused /\ s12 = Unused /\ s13 = Unused /\ s14 = Unused
          /\ s15 = Unused /\ s16 = Unused /\ Free17
Free5 == /\ s5 = Unused /\ s6 = Unused /\ s7 = Unused /\ s8 = Unused
         /\ s9 = Unused /\ s10 = Unused /\ Free11
Free1 == s1 = Unused /\ s2 = Unused /\ s3 = Unused /\ s4 = Unused /\ Free5

-----------------------------------------------------------------------------
(* The passes of one timer, two events, an endpoint that is edited.         *)
W == INSTANCE WebhookDispatch WITH
       Passes <- {"pass"}, Endpoints <- {"ep"}, Limits <- {1, 2}, MaxAttempts <- 2, EventBatch
       <- 1, DeliveryBatch <- 1, MaxBackoff <- 1, WindowLength <- 1, MaxEvents <- 2, MaxTime
       <- 1, MaxEdits <- 1, MaxAborts <- 1, clock <- s1, committed <- s2, published <- s3,
       state <- s4, wants <- s5, limit <- s6, window <- s7, used <- s8, edits <- s9, status <-
       s10, attempts <- s11, nextAttemptAt <- s12, pc <- s13, now <- s14, queue <- s15,
       targets <- s16, missing <- s17, batch <- s18, current <- s19, outcome <- s20, aborts <-
       s21, owed <- s22, tries <- s23, acked <- s24

(* Two manifests of one tuple under administration.                         *)
A == INSTANCE PlatformAdminScreen WITH
       MaxVersions <- 2, MaxLoads <- 2, MaxRequests <- 1, MaxClicks <- 4, proposed <- s1,
       active <- s2, stopped <- s3, viewed <- s4, detail <- s5, detailError <- s6, detailLate
       <- s7, crossed <- s8, loads <- s9, listed <- s10, listError <- s11, listLate <- s12,
       listLoads <- s13, requests <- s14, clicks <- s15, alone <- s16

(* Four administration screens, one of them with two rows to decide.        *)
QueueOf == [w1 |-> "workflow", i1 |-> "intents", i2 |-> "intents", t1 |-> "tasks", b1 |-> "budget"]
L == INSTANCE ConsoleQueues WITH
       QueueRows <- DOMAIN QueueOf, SectionOf <- QueueOf, Mounts <- {{"intents"}, {"budget"},
       {"workflow"}, {"tasks"}}, MaxRefreshes <- 2, mounted <- s1, openRows <- s2, listed <-
       s3, listFailed <- s4, refreshes <- s5, picked <- s6, noted <- s7, sent <- s8, accepted
       <- s9, overtaken <- s10

(* A case list, an export or a timeline read while rows are inserted.       *)
R == INSTANCE CaseReads WITH
       Ids <- 1..3, PerMs <- 2, MaxTick <- 2, MaxRows <- 3, First <- 1, PageSize <- 2, Caps <-
       {2, 3}, MaxDone <- 1, table <- s1, tick <- s2, runsDone <- s3, reader <- s4

-----------------------------------------------------------------------------
MCInit ==
  /\ ResearchInit /\ GuestInit /\ ConsoleInit
  /\ \/ focus \in {"research", "guests", "console"} /\ Free1
     \/ focus = "webhooks" /\ W!Init
     \/ focus = "queues" /\ L!QueueInit /\ Free11
     \/ focus = "admin" /\ A!ScreenInit /\ Free17
     \/ focus = "reads" /\ R!ReadInit /\ Free5
  /\ focus # "console" => token = None

resting == <<researchVars, guestVars, consoleVars>>

MCNext ==
  \/ focus = "research" /\ ResearchNext /\ UNCHANGED <<focus, guestVars, consoleVars, slots>>
  \/ focus = "guests" /\ GuestNext /\ UNCHANGED <<focus, researchVars, consoleVars, slots>>
  \/ focus = "console" /\ ConsoleNext /\ UNCHANGED <<focus, researchVars, guestVars, slots>>
  \/ /\ \/ focus = "webhooks" /\ W!Next
        \/ focus = "queues" /\ L!QueueNext /\ UNCHANGED Rest11
        \/ focus = "admin" /\ A!ScreenNext /\ UNCHANGED Rest17
        \/ focus = "reads" /\ R!ReadNext /\ UNCHANGED Rest5
     /\ UNCHANGED <<focus, resting>>

(* The fairness of each component.  A behaviour has one component in focus, *)
(* and a screen of the console one section, so that one line of constraints *)
(* serves all of them.                                                      *)
OfResearch(step) ==
  focus = "research" /\ step /\ UNCHANGED <<focus, guestVars, consoleVars, slots>>
OfQueues(step) == focus = "queues" /\ step /\ UNCHANGED <<focus, resting, Rest11>>
Fair1 ==
  \/ focus = "webhooks" /\ W!Step("pass") /\ UNCHANGED <<focus, resting>>
  \/ OfResearch(WorkerStep("w1"))
  \/ focus = "guests" /\ WorkerSweep /\ UNCHANGED <<focus, researchVars, consoleVars, slots>>
  \/ OfQueues(L!PollBudget)
Fair2 == OfResearch(WorkerStep("w2")) \/ OfQueues(L!ServerAnswers)
Fair3 == OfResearch(Minute) \/ OfQueues(L!RefreshSettles)
Fair4 == OfQueues(\E s \in L!Sections : L!DecisionSettles(s))

mcVars == <<focus, resting, slots>>
MCFairness == WF_mcVars(Fair1) /\ WF_mcVars(Fair2) /\ WF_mcVars(Fair3) /\ WF_mcVars(Fair4)

MCSpec == MCInit /\ [][MCNext]_mcVars /\ MCFairness

-----------------------------------------------------------------------------
(* What the component in focus has taken on and not yet done.               *)
Pending ==
  \/ focus = "webhooks" /\ W!Backlog
  \/ focus = "research" /\ Researching
  \/ focus = "guests" /\ Overdue
  \/ focus = "queues" /\ L!AwaitsAnswer

(* Nothing that was taken on is left undone: an outbox event or a due       *)
(* delivery ("a crash between attempts loses nothing, the next poll just    *)
(* picks it back up"), a research run whose worker may have died, an        *)
(* expired guest workspace whose sweep a late case made fail, a console     *)
(* form whose answer may have been lost (webhook-dispatch.service.ts,       *)
(* policy-research.service.ts, guest-sandbox.service.ts, AdminQueues.tsx).  *)
NothingIsLost == Pending ~> ~Pending

(* A reservation decided by anyone is off the polled budget table for good  *)
(* some time later, overtaken refreshes or not (BudgetOperations.tsx).      *)
PolledListHeals ==
  focus = "queues" /\ L!Outdated("b1") ~> [](focus = "queues" => "b1" \notin L!Shown("budget"))

(* Once nothing is under way that was overtaken: a detail panel shows the   *)
(* manifest its forms act on, lists are the server's whichever form changed *)
(* them, and a row decided here has left its table                          *)
(* (PlatformAdminConsole.tsx, AdminQueues.tsx, BudgetOperations.tsx).       *)
ScreensFollowTheServer ==
  /\ focus = "admin" => A!ScreenTypeOK /\ A!PanelShowsItsManifest /\ A!ListsFollowEveryForm
  /\ focus = "queues" => L!QueueTypeOK /\ L!DecidedRowsLeave

(* Pages come newest first and no row comes twice, although rows are        *)
(* inserted between two pages; a row that was there from the start is       *)
(* missed only if it shares its millisecond with a delivered row (the       *)
(* cursor's ISO timestamp); an export that calls itself truncated has left  *)
(* a row out; and a timeline lists what it merges in the order in which it  *)
(* happened (case-query.service.ts, case-cursor.ts, audit-event.service.ts, *)
(* case-timeline.service.ts).                                               *)
ReadsAreSound ==
  focus = "reads" => /\ R!ReadTypeOK /\ R!PagesDescend /\ R!OnlySameMillisecondIsMissed
                     /\ R!TruncationIsReal /\ R!TimelineInOrder
=============================================================================
