--------------------------- MODULE WebhookDispatch ---------------------------
(***************************************************************************)
(* WebhookDispatchService.dispatchPendingEvents (src/src/webhooks) and the *)
(* endpoint operations it races with, for one tenant and one event type.   *)
(*                                                                         *)
(* A pass is one call of dispatchPendingEvents.  The worker starts a pass  *)
(* every five seconds whether or not the last one is over, and a pass may  *)
(* wait ten seconds for each of its receivers, so passes overlap inside    *)
(* one process as well as between processes: Passes are the calls that can *)
(* be in progress at once, each of them started again and again.           *)
(*                                                                         *)
(* A delivery row is named by its event, its endpoint and the pass that    *)
(* inserted it: no unique index keeps two passes from inserting a row each *)
(* and no pass inserts a second one.  Time is a bounded clock, which a     *)
(* pass reads once, when it starts; a null nextAttemptAt is 0.             *)
(***************************************************************************)
EXTENDS Integers, FiniteSets

CONSTANTS
  Passes,         \* passes that can be in progress at once
  Endpoints,      \* webhook endpoints of the tenant
  Limits,         \* values of outboundRateLimitPerMinute
  MaxAttempts,    \* MAX_ATTEMPTS
  EventBatch,     \* EVENT_BATCH_SIZE
  DeliveryBatch,  \* DELIVERY_BATCH_SIZE
  MaxBackoff,     \* upper limit of the backoff
  WindowLength,   \* length of a rate window
  MaxEvents,      \* bound: outbox events
  MaxTime,        \* bound: the clock
  MaxEdits,       \* bound: endpoint edits
  MaxAborts       \* bound: passes that throw or die

(* The last conjunct is arithmetic that the provers lack.                   *)
ASSUME WebhookAssumption ==
  /\ MaxAttempts \in Nat \ {0} /\ MaxBackoff \in Nat /\ WindowLength \in Nat \ {0}
  /\ MaxEvents \in Nat /\ MaxTime \in Nat /\ MaxEdits \in Nat /\ MaxAborts \in Nat
  /\ \A n \in 1..MaxAttempts : 2 ^ n \in Nat

VARIABLES
  clock,
  committed,      \* number of outbox events, numbered in createdAt order
  published,      \* events with publishedAt set
  state,          \* per endpoint: NONE (no row), ACTIVE or DISABLED
  wants,          \* endpoints whose eventTypes include the event type
  limit,          \* per endpoint: outboundRateLimitPerMinute
  window,         \* per endpoint: rateWindowStartedAt; NoWindow when null
  used,           \* per endpoint: rateWindowAttempts
  edits,          \* endpoint edits made
  status,         \* per delivery: status; NONE when there is no row
  attempts,       \* per delivery: length of its attempts column
  nextAttemptAt,  \* per delivery
  pc,             \* per pass: the next step
  now,            \* per pass: the clock when it started
  queue,          \* per pass: unpublished events it still has to fan out
  targets,        \* per pass: endpoints it still has to look up
  missing,        \* per pass: endpoints without a row for its first event
  batch,          \* per pass: due rows still to attempt, with the attempts seen
  current,        \* per pass: the row it attempts, out of its batch
  outcome,        \* per pass: what the attempt came to
  aborts,         \* passes that threw or died
  owed,           \* history: per event, endpoints subscribed ever since
  tries,          \* history: per delivery, attempts made
  acked           \* history: deliveries answered with a success

outboxVars == <<committed, published, owed>>
endpointVars == <<state, wants, limit, edits>>
rateVars == <<window, used>>
deliveryVars == <<status, attempts, nextAttemptAt>>
receiverVars == <<tries, acked>>
fanOutVars == <<queue, targets, missing>>
attemptVars == <<batch, current, outcome>>
vars == <<clock, outboxVars, endpointVars, rateVars, deliveryVars,
          receiverVars, pc, now, fanOutVars, attemptVars, aborts>>

Events == 1..MaxEvents
Ids == Events \X Endpoints \X Passes
NoWindow == -1
WindowOf(time) == (time \div WindowLength) * WindowLength
Least(S) == CHOOSE x \in S : \A y \in S : x <= y

Subscribed == {ep \in wants : state[ep] = "ACTIVE"}
HasRow(e, ep) == \E p \in Passes : status[<<e, ep, p>>] # "NONE"
Final == {"SUCCEEDED", "FAILED_FINAL"}

Init ==
  /\ clock = 0
  /\ committed = 0
  /\ published = {}
  /\ owed = [e \in Events |-> {}]
  /\ state = [ep \in Endpoints |-> "NONE"]
  /\ wants = {}
  /\ limit = [ep \in Endpoints |-> 0]
  /\ window = [ep \in Endpoints |-> NoWindow]
  /\ used = [ep \in Endpoints |-> 0]
  /\ edits = 0
  /\ status = [id \in Ids |-> "NONE"]
  /\ attempts = [id \in Ids |-> 0]
  /\ nextAttemptAt = [id \in Ids |-> 0]
  /\ tries = [id \in Ids |-> 0]
  /\ acked = {}
  /\ pc = [p \in Passes |-> "idle"]
  /\ now = [p \in Passes |-> 0]
  /\ queue = [p \in Passes |-> {}]
  /\ targets = [p \in Passes |-> {}]
  /\ missing = [p \in Passes |-> {}]
  /\ batch = [p \in Passes |-> {}]
  /\ current = [p \in Passes |-> {}]
  /\ outcome = [p \in Passes |-> "NONE"]
  /\ aborts = 0

Goto(p, label) == pc' = [pc EXCEPT ![p] = label]

-----------------------------------------------------------------------------
(***************************************************************************)
(* Fan-out.                                                                *)
(***************************************************************************)

NewestUnpublished ==                                \* mutant of Unpublished
  {e \in (1..committed) \ published : e = committed}

(* The oldest unpublished events, at most a batch of them.                  *)
Unpublished ==
  LET pending == (1..committed) \ published
  IN  {e \in pending : Cardinality({x \in pending : x < e}) < EventBatch}

Begin(p) ==
  /\ pc[p] = "idle"
  /\ now' = [now EXCEPT ![p] = clock]
  /\ queue' = [queue EXCEPT ![p] = Unpublished]
  /\ Goto(p, IF Unpublished = {} THEN "scan" ELSE "endpoints")
  /\ UNCHANGED <<clock, outboxVars, endpointVars, rateVars, deliveryVars,
                 receiverVars, targets, missing, attemptVars, aborts>>

FindActiveAndPublish(p) ==                           \* mutant of FindActive
  /\ pc[p] = "endpoints"
  /\ targets' = [targets EXCEPT ![p] = Subscribed]
  /\ published' = published \cup {Least(queue[p])}
  /\ Goto(p, "fanOut")
  /\ UNCHANGED <<clock, committed, owed, endpointVars, rateVars, deliveryVars,
                 receiverVars, now, queue, missing, attemptVars, aborts>>

(* findActiveForTenantAndEventType, a transaction of its own.               *)
FindActive(p) ==
  /\ pc[p] = "endpoints"
  /\ targets' = [targets EXCEPT ![p] = Subscribed]
  /\ Goto(p, "fanOut")
  /\ UNCHANGED <<clock, outboxVars, endpointVars, rateVars, deliveryVars,
                 receiverVars, now, queue, missing, attemptVars, aborts>>

(* findOneBy for one endpoint; a row that another pass has not committed is *)
(* invisible.                                                               *)
LookUp(p) ==
  /\ pc[p] = "fanOut"
  /\ \E ep \in targets[p] :
       /\ targets' = [targets EXCEPT ![p] = @ \ {ep}]
       /\ missing' = IF HasRow(Least(queue[p]), ep) THEN missing
                       ELSE [missing EXCEPT ![p] = @ \cup {ep}]
  /\ UNCHANGED <<clock, outboxVars, endpointVars, rateVars, deliveryVars,
                 receiverVars, pc, now, queue, attemptVars, aborts>>

(* Commit of the transaction, with a PENDING row per missing endpoint.      *)
FanOut(p) ==
  /\ pc[p] = "fanOut"
  /\ targets[p] = {}
  /\ status' = [id \in Ids |->
       IF id[1] = Least(queue[p]) /\ id[2] \in missing[p] /\ id[3] = p
         THEN "PENDING" ELSE status[id]]
  /\ missing' = [missing EXCEPT ![p] = {}]
  /\ Goto(p, "publish")
  /\ UNCHANGED <<clock, outboxVars, endpointVars, rateVars, attempts,
                 nextAttemptAt, receiverVars, now, queue, targets,
                 attemptVars, aborts>>

Publish(p) ==
  /\ pc[p] = "publish"
  /\ published' = published \cup {Least(queue[p])}
  /\ queue' = [queue EXCEPT ![p] = @ \ {Least(@)}]
  /\ Goto(p, IF queue[p] = {Least(queue[p])} THEN "scan" ELSE "endpoints")
  /\ UNCHANGED <<clock, committed, owed, endpointVars, rateVars, deliveryVars,
                 receiverVars, now, targets, missing, attemptVars, aborts>>

-----------------------------------------------------------------------------
(***************************************************************************)
(* Attempts.                                                               *)
(***************************************************************************)
Due(time) == {id \in Ids : status[id] = "PENDING" /\ nextAttemptAt[id] <= time}

(* On to the next row of the batch, or the end of the pass, which forgets   *)
(* its clock.                                                               *)
Continue(p, rest) ==
  /\ Goto(p, IF rest = {} THEN "idle" ELSE "reserve")
  /\ now' = IF rest = {} THEN [now EXCEPT ![p] = 0] ELSE now

(* The due rows, at most a batch of them in no particular order, with the   *)
(* attempts each of them has when it is read.                               *)
ScanDue(p) ==
  /\ pc[p] = "scan"
  /\ \E S \in SUBSET Due(now[p]) :
       /\ \/ S = Due(now[p]) /\ Cardinality(S) <= DeliveryBatch
          \/ Cardinality(S) = DeliveryBatch
       /\ batch' = [batch EXCEPT ![p] = {<<id, attempts[id]>> : id \in S}]
       /\ Continue(p, S)
  /\ UNCHANGED <<clock, outboxVars, endpointVars, rateVars, deliveryVars,
                 receiverVars, fanOutVars, current, outcome, aborts>>

(* reserveOutboundAttempt for a row of the batch: one conditional UPDATE.   *)
(* A pass that started in an earlier window sets the window back.           *)
Reserve(p) ==
  /\ pc[p] = "reserve"
  /\ \E d \in batch[p] :
       LET ep == d[1][2]
           start == WindowOf(now[p])
       IN  /\ IF window[ep] < start \/ used[ep] < limit[ep]
                THEN /\ window' = [window EXCEPT ![ep] = start]
                     /\ used' = [used EXCEPT ![ep] =
                                   IF window[ep] < start THEN 1 ELSE @ + 1]
                     /\ Goto(p, "post")
                ELSE UNCHANGED rateVars /\ Goto(p, "defer")
           /\ current' = [current EXCEPT ![p] = {d}]
           /\ batch' = [batch EXCEPT ![p] = @ \ {d}]
  /\ UNCHANGED <<clock, outboxVars, endpointVars, deliveryVars, receiverVars,
                 now, fanOutVars, outcome, aborts>>

DeferAnyStatus(id) == TRUE                            \* mutant of Deferrable
Deferrable(id) == status[id] = "PENDING"

Defer(p) ==
  /\ pc[p] = "defer"
  /\ \E d \in current[p] :
       nextAttemptAt' =
         IF Deferrable(d[1])
           THEN [nextAttemptAt EXCEPT ![d[1]] = WindowOf(now[p]) + WindowLength]
           ELSE nextAttemptAt
  /\ current' = [current EXCEPT ![p] = {}]
  /\ Continue(p, batch[p])
  /\ UNCHANGED <<clock, outboxVars, endpointVars, rateVars, status, attempts,
                 receiverVars, fanOutVars, batch, outcome, aborts>>

(* The signed POST, outside any transaction: FAILED stands for every other  *)
(* answer, a refused target or redirect, a network error and the timeout.   *)
Post(p) ==
  /\ pc[p] = "post"
  /\ \E d \in current[p], result \in {"SUCCEEDED", "FAILED"} :
       /\ outcome' = [outcome EXCEPT ![p] = result]
       /\ tries' = [tries EXCEPT ![d[1]] = @ + 1]
       /\ acked' = IF result = "SUCCEEDED" THEN acked \cup {d[1]} ELSE acked
  /\ Goto(p, "record")
  /\ UNCHANGED <<clock, outboxVars, endpointVars, rateVars, deliveryVars, now,
                 fanOutVars, batch, current, aborts>>

backoff(attemptNumber) ==
  IF 2 ^ attemptNumber < MaxBackoff THEN 2 ^ attemptNumber ELSE MaxBackoff

StatusEarly(result, attemptNumber) ==                \* mutant of StatusAfter
  IF result = "SUCCEEDED" THEN "SUCCEEDED"
  ELSE IF attemptNumber + 1 >= MaxAttempts THEN "FAILED_FINAL" ELSE "PENDING"

StatusLate(result, attemptNumber) ==                 \* mutant of StatusAfter
  IF result = "SUCCEEDED" THEN "SUCCEEDED"
  ELSE IF attemptNumber > MaxAttempts THEN "FAILED_FINAL" ELSE "PENDING"

StatusAfter(result, attemptNumber) ==
  IF result = "SUCCEEDED" THEN "SUCCEEDED"
  ELSE IF attemptNumber >= MaxAttempts THEN "FAILED_FINAL" ELSE "PENDING"

attemptNumberOf(d) == d[2] + 1

(* The update is by id alone: it overwrites whatever other passes wrote     *)
(* since this one scanned the row.                                          *)
Record(p) ==
  /\ pc[p] = "record"
  /\ \E d \in current[p] :
       LET id == d[1]
           attemptNumber == attemptNumberOf(d)
           after == StatusAfter(outcome[p], attemptNumber)
       IN  /\ status' = [status EXCEPT ![id] = after]
           /\ attempts' = [attempts EXCEPT ![id] = attemptNumber]
           /\ nextAttemptAt' = [nextAttemptAt EXCEPT ![id] =
                IF after = "PENDING" THEN now[p] + backoff(attemptNumber)
                                     ELSE 0]
  /\ current' = [current EXCEPT ![p] = {}]
  /\ outcome' = [outcome EXCEPT ![p] = "NONE"]
  /\ Continue(p, batch[p])
  /\ UNCHANGED <<clock, outboxVars, endpointVars, rateVars, receiverVars,
                 fanOutVars, batch, aborts>>

(* A query that throws, or the end of the process, ends the pass; an open   *)
(* transaction rolls back.                                                  *)
Abort(p) ==
  /\ pc[p] # "idle"
  /\ aborts < MaxAborts
  /\ aborts' = aborts + 1
  /\ queue' = [queue EXCEPT ![p] = {}]
  /\ targets' = [targets EXCEPT ![p] = {}]
  /\ missing' = [missing EXCEPT ![p] = {}]
  /\ batch' = [batch EXCEPT ![p] = {}]
  /\ current' = [current EXCEPT ![p] = {}]
  /\ outcome' = [outcome EXCEPT ![p] = "NONE"]
  /\ Continue(p, {})
  /\ UNCHANGED <<clock, outboxVars, endpointVars, rateVars, deliveryVars,
                 receiverVars>>

Step(p) ==
  \/ Begin(p) \/ FindActive(p) \/ LookUp(p) \/ FanOut(p) \/ Publish(p)
  \/ ScanDue(p) \/ Reserve(p) \/ Defer(p) \/ Post(p) \/ Record(p)

-----------------------------------------------------------------------------
(***************************************************************************)
(* Everyone else.                                                          *)
(***************************************************************************)

(* A service commits an outbox event with the change it reports.            *)
Commit ==
  /\ committed < MaxEvents
  /\ committed' = committed + 1
  /\ owed' = [owed EXCEPT ![committed + 1] = Subscribed]
  /\ UNCHANGED <<clock, published, endpointVars, rateVars, deliveryVars,
                 receiverVars, pc, now, fanOutVars, attemptVars, aborts>>

(* What is owed to an endpoint ends with its subscription.                  *)
Unsubscribe(ep) == owed' = [e \in Events |-> owed[e] \ {ep}]

Create(ep) ==
  /\ state[ep] = "NONE"
  /\ state' = [state EXCEPT ![ep] = "ACTIVE"]
  /\ \/ wants' = wants \cup {ep}
     \/ wants' = wants
  /\ \E l \in Limits : limit' = [limit EXCEPT ![ep] = l]
  /\ UNCHANGED <<clock, outboxVars, edits, rateVars, deliveryVars,
                 receiverVars, pc, now, fanOutVars, attemptVars, aborts>>

(* A new target URL changes no decision of a pass and is left out.          *)
Update(ep) ==
  /\ state[ep] # "NONE"
  /\ edits < MaxEdits
  /\ edits' = edits + 1
  /\ \/ ep \notin wants /\ wants' = wants \cup {ep} /\ UNCHANGED <<limit, owed>>
     \/ ep \in wants /\ wants' = wants \ {ep} /\ Unsubscribe(ep)
        /\ UNCHANGED limit
     \/ \E l \in Limits \ {limit[ep]} :
          limit' = [limit EXCEPT ![ep] = l] /\ UNCHANGED <<wants, owed>>
  /\ UNCHANGED <<clock, committed, published, state, rateVars, deliveryVars,
                 receiverVars, pc, now, fanOutVars, attemptVars, aborts>>

(* Deliveries that exist already go on: attemptDelivery ignores the state.  *)
Disable(ep) ==
  /\ state[ep] = "ACTIVE"
  /\ state' = [state EXCEPT ![ep] = "DISABLED"]
  /\ Unsubscribe(ep)
  /\ UNCHANGED <<clock, committed, published, wants, limit, edits, rateVars,
                 deliveryVars, receiverVars, pc, now, fanOutVars, attemptVars,
                 aborts>>

Tick ==
  /\ clock < MaxTime
  /\ clock' = clock + 1
  /\ UNCHANGED <<outboxVars, endpointVars, rateVars, deliveryVars,
                 receiverVars, pc, now, fanOutVars, attemptVars, aborts>>

Next ==
  \/ \E p \in Passes : Step(p) \/ Abort(p)
  \/ Commit
  \/ \E ep \in Endpoints : Create(ep) \/ Update(ep) \/ Disable(ep)
  \/ Tick

(* The interval timer starts passes for ever, and every wait of a pass is   *)
(* bounded by the receiver's timeout.                                       *)
Fairness == \A p \in Passes : WF_vars(Step(p))

Spec == Init /\ [][Next]_vars /\ Fairness

-----------------------------------------------------------------------------
(***************************************************************************)
(* Properties.                                                             *)
(***************************************************************************)

(* The columns, the steps of a pass and what it has read keep their types.  *)
TypeOK ==
  /\ clock \in 0..MaxTime /\ committed \in 0..MaxEvents
  /\ published \subseteq 1..committed
  /\ owed \in [Events -> SUBSET Endpoints]
  /\ state \in [Endpoints -> {"NONE", "ACTIVE", "DISABLED"}]
  /\ wants \subseteq Endpoints
  /\ limit \in [Endpoints -> Limits \cup {0}]
  /\ window \in [Endpoints -> Int] /\ used \in [Endpoints -> Nat]
  /\ edits \in 0..MaxEdits /\ aborts \in 0..MaxAborts
  /\ status \in [Ids -> {"NONE", "PENDING"} \cup Final]
  /\ attempts \in [Ids -> 0..MaxAttempts]
  /\ nextAttemptAt \in [Ids -> Nat] /\ tries \in [Ids -> Nat]
  /\ acked \subseteq Ids
  /\ pc \in [Passes -> {"idle", "endpoints", "fanOut", "publish", "scan",
                        "reserve", "defer", "post", "record"}]
  /\ now \in [Passes -> 0..MaxTime]
  /\ queue \in [Passes -> SUBSET (1..committed)]
  /\ targets \in [Passes -> SUBSET Endpoints]
  /\ missing \in [Passes -> SUBSET Endpoints]
  /\ batch \in [Passes -> SUBSET (Ids \X (0..(MaxAttempts - 1)))]
  /\ current \in [Passes -> SUBSET (Ids \X (0..(MaxAttempts - 1)))]
  /\ outcome \in [Passes -> {"NONE", "SUCCEEDED", "FAILED"}]

(* "Published means handed off to the webhook subsystem (delivery rows      *)
(* created for every currently-subscribed endpoint)": whatever passes       *)
(* overlap, throw or die, a published event has a delivery row for every    *)
(* endpoint that has been subscribed since before the event.                *)
PublishedIsHandedOff ==
  \A e \in published : \A ep \in owed[e] : HasRow(e, ep)

(* A delivery is given up only after MAX_ATTEMPTS attempts were made on it, *)
(* and shown as SUCCEEDED only if a receiver acknowledged it: overlapping   *)
(* passes lose attempts from the history but never invent one.              *)
NoVerdictTooEarly ==
  \A id \in Ids :
    /\ status[id] = "FAILED_FINAL" => tries[id] >= MaxAttempts
    /\ status[id] = "SUCCEEDED" => id \in acked

(* No pass schedules a delivery that has been decided: the deferral of a    *)
(* rate-limited attempt never reaches a row that another pass finished.     *)
FinalIsNotScheduled ==
  \A id \in Ids : status[id] \in Final => nextAttemptAt[id] = 0

(* All of it at once, whatever passes overlap, throw or die                 *)
(* (webhook-dispatch.service.ts).                                           *)
DeliveriesAreHonest ==
  TypeOK /\ PublishedIsHandedOff /\ NoVerdictTooEarly /\ FinalIsNotScheduled

(* An event that is not published, or a delivery that is due.               *)
Backlog == (\E e \in Events : e <= committed /\ e \notin published) \/ Due(clock) # {}
=============================================================================
