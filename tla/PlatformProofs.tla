--------------------------- MODULE PlatformProofs ----------------------------
(***************************************************************************)
(* Theorems about the platform every case runs on: WebhookDispatch,        *)
(* TenantIsolation, ApiClients and IdentitySessions, for any passes,       *)
(* endpoints, tenants, scripts, subjects and bounds.                       *)
(***************************************************************************)
EXTENDS WebhookDispatch, TenantIsolation, IdentitySessions, ApiClients,
        WellFoundedInduction, TLAPS

(* Zenon is the prover of every leaf that names none.                       *)
USE ZenonT(90)

-----------------------------------------------------------------------------
(***************************************************************************)
(* WebhookDispatch.                                                        *)
(***************************************************************************)

(* All that the proofs ask of the constants.                                *)
WebhookConstants == MaxEvents \in Nat /\ MaxAttempts \in Nat

Labels == {"idle", "endpoints", "fanOut", "publish", "scan", "reserve", "defer", "post",
           "record"}

(* The event a pass fans out.                                               *)
First(p) == Least(queue[p])

WebhookType ==
  /\ committed \in 0..MaxEvents /\ published \subseteq 1..committed
  /\ owed \in [Events -> SUBSET Endpoints]
  /\ state \in [Endpoints -> {"NONE", "ACTIVE", "DISABLED"}] /\ wants \subseteq Endpoints
  /\ status \in [Ids -> {"NONE", "PENDING"} \cup Final]
  /\ attempts \in [Ids -> Nat] /\ tries \in [Ids -> Nat]
  /\ nextAttemptAt = [id \in Ids |-> nextAttemptAt[id]]
  /\ pc \in [Passes -> Labels]
  /\ queue \in [Passes -> SUBSET (1..committed)]
  /\ targets \in [Passes -> SUBSET Endpoints]
  /\ missing \in [Passes -> SUBSET Endpoints]
  /\ batch \in [Passes -> SUBSET (Ids \X Nat)]
  /\ current \in [Passes -> SUBSET (Ids \X Nat)]
  /\ outcome \in [Passes -> {"NONE", "SUCCEEDED", "FAILED"}]

(* What is owed for the event a pass fans out is still to be looked up,     *)
(* still to be inserted, or there.                                          *)
HandingOff(p, e) ==
  /\ pc[p] = "fanOut" =>
       \A ep \in owed[e] : ep \in targets[p] \cup missing[p] \/ HasRow(e, ep)
  /\ pc[p] = "publish" => \A ep \in owed[e] : HasRow(e, ep)

PassOK(p) ==
  /\ pc[p] \in {"endpoints", "fanOut", "publish"} => queue[p] # {}
  /\ \A e \in Events : e = First(p) => HandingOff(p, e)

(* Only endpoints that are subscribed now can have been so ever since.      *)
FanOutInv ==
  /\ \A e \in Events : owed[e] \subseteq Subscribed
  /\ \A p \in Passes : PassOK(p)
  /\ PublishedIsHandedOff

(* Nobody has counted an attempt that was not made.                         *)
AttemptsInv ==
  /\ \A id \in Ids : attempts[id] <= tries[id]
  /\ \A p \in Passes :
       /\ \A d, b \in current[p] : d = b
       /\ \A d \in batch[p] \cup current[p] : d[2] <= tries[d[1]]
       /\ pc[p] = "record" =>
            \A d \in current[p] :
              /\ d[2] + 1 <= tries[d[1]]
              /\ outcome[p] = "SUCCEEDED" => d[1] \in acked
  /\ NoVerdictTooEarly
  /\ FinalIsNotScheduled

WebhookInv == WebhookType /\ FanOutInv /\ AttemptsInv

-----------------------------------------------------------------------------
LEMMA LeastIsIn ==
  ASSUME NEW n \in Nat, NEW S \in SUBSET (1..n), S # {}
  PROVE  Least(S) \in S
<1> DEFINE R == OpToRel(<, Nat)
<1>1. IsWellFoundedOn(R, Nat)
  BY NatLessThanWellFounded
<1>2. \A x, y \in Nat : <<y, x>> \in R <=> y < x
  BY DEF OpToRel
<1>3. S \subseteq Nat
  BY SMTT(30)
<1> HIDE DEF R
<1>4. \E x \in S : \A y \in S : ~(<<y, x>> \in R)
  BY <1>1, <1>3, WFMin
<1>5. PICK x \in S : \A y \in S : ~(<<y, x>> \in R)
  BY <1>4
<1>6. ASSUME NEW y \in S
      PROVE  x <= y
  <2>1. x \in Nat /\ y \in Nat
    BY <1>3
  <2>2. ~(y < x)
    BY <1>2, <1>5, <2>1
  <2>3. QED
    BY <2>1, <2>2, SMTT(30)
<1>7. QED
  BY <1>6 DEF Least

LEMMA FirstIsEvent ==
  ASSUME WebhookConstants, WebhookType, FanOutInv, NEW p \in Passes,
         pc[p] \in {"endpoints", "fanOut", "publish"}
  PROVE  First(p) \in queue[p] /\ First(p) \in 1..committed /\ First(p) \in Events
<1>1. committed \in Nat /\ queue[p] \in SUBSET (1..committed) /\ queue[p] # {}
  BY SMTT(30) DEF WebhookConstants, WebhookType, FanOutInv, PassOK
<1>2. First(p) \in queue[p]
  BY <1>1, LeastIsIn DEF First
<1>3. QED
  BY <1>1, <1>2, SMTT(30) DEF WebhookConstants, WebhookType, Events

-----------------------------------------------------------------------------
(* A step of a pass keeps the types.                                        *)
LEMMA PassTypes ==
  ASSUME WebhookConstants, WebhookInv, NEW p \in Passes, Step(p) \/ Abort(p)
  PROVE  WebhookType'
<1> USE DEF WebhookInv, WebhookType, WebhookConstants, Labels, Goto, Continue, outboxVars,
           endpointVars, rateVars, deliveryVars, receiverVars, fanOutVars, attemptVars
<1>1. CASE Begin(p)
  <2>1. Unpublished \subseteq 1..committed
    BY DEF Unpublished
  <2>2. QED
    BY <1>1, <2>1 DEF Begin
<1>2. CASE FindActive(p)
  BY <1>2 DEF FindActive, Subscribed
<1>3. CASE LookUp(p)
  BY <1>3, SMTT(30) DEF LookUp
<1>4. CASE FanOut(p)
  BY <1>4 DEF FanOut
<1>5. CASE Publish(p)
  <2>1. First(p) \in 1..committed
    BY <1>5, FirstIsEvent DEF Publish
  <2>2. QED
    BY <1>5, <2>1 DEF Publish, First
<1>6. CASE ScanDue(p)
  <2>1. PICK S \in SUBSET Due(now[p]) :
          /\ batch' = [batch EXCEPT ![p] = {<<id, attempts[id]>> : id \in S}]
          /\ Continue(p, S)
    BY <1>6 DEF ScanDue
  <2>2. {<<id, attempts[id]>> : id \in S} \subseteq Ids \X Nat
    <3>1. S \subseteq Ids
      BY DEF Due
    <3>2. \A id \in S : attempts[id] \in Nat
      BY <3>1
    <3>3. \A id \in S : <<id, attempts[id]>> \in Ids \X Nat
      BY <3>1, <3>2
    <3>4. QED
      BY <3>3, SMTT(30)
  <2>3. QED
    BY <1>6, <2>1, <2>2 DEF ScanDue
<1>7. CASE Reserve(p)
  <2>1. PICK d \in batch[p] :
          /\ pc' = [pc EXCEPT ![p] = "post"] \/ pc' = [pc EXCEPT ![p] = "defer"]
          /\ current' = [current EXCEPT ![p] = {d}]
          /\ batch' = [batch EXCEPT ![p] = @ \ {d}]
    BY <1>7 DEF Reserve
  <2>2. d \in Ids \X Nat
    OBVIOUS
  <2>3. QED
    BY <1>7, <2>1, <2>2, SMTT(30) DEF Reserve
<1>8. CASE Defer(p)
  BY <1>8 DEF Defer
<1>9. CASE Post(p)
  BY <1>9, SMTT(30) DEF Post
<1>10. CASE Record(p)
  <2>1. PICK d \in current[p] :
          /\ status' = [status EXCEPT ![d[1]] = StatusAfter(outcome[p], d[2] + 1)]
          /\ attempts' = [attempts EXCEPT ![d[1]] = d[2] + 1]
          /\ \E t : nextAttemptAt' = [nextAttemptAt EXCEPT ![d[1]] = t]
    BY <1>10 DEF Record, attemptNumberOf
  <2>2. d[1] \in Ids /\ d[2] \in Nat
    BY SMTT(30)
  <2>3. StatusAfter(outcome[p], d[2] + 1) \in {"PENDING"} \cup Final
    BY DEF StatusAfter, Final
  <2>4. status' \in [Ids -> {"NONE", "PENDING"} \cup Final] /\ attempts' \in [Ids -> Nat]
    BY <2>1, <2>2, <2>3, SMTT(30)
  <2>5. nextAttemptAt' = [id \in Ids |-> nextAttemptAt'[id]]
    BY <2>1, <2>2
  <2>6. QED
    BY <1>10, <2>4, <2>5 DEF Record
<1>11. CASE Abort(p)
  BY <1>11 DEF Abort
<1>12. QED
  BY <1>1, <1>2, <1>3, <1>4, <1>5, <1>6, <1>7, <1>8, <1>9, <1>10, <1>11 DEF Step

(* And so does a step of anyone else.                                       *)
LEMMA OtherTypes ==
  ASSUME WebhookConstants, WebhookInv,
         \/ Commit \/ Tick
         \/ \E ep \in Endpoints : Create(ep) \/ Update(ep) \/ Disable(ep)
         \/ UNCHANGED vars
  PROVE  WebhookType'
<1> USE DEF WebhookInv, WebhookType, WebhookConstants, outboxVars, endpointVars, rateVars,
           deliveryVars, receiverVars, fanOutVars, attemptVars
<1>1. CASE Commit
  BY <1>1, SMTT(30) DEF Commit, Subscribed, Events
<1>2. CASE Tick
  BY <1>2 DEF Tick
<1>3. ASSUME NEW ep \in Endpoints, Create(ep)
      PROVE  WebhookType'
  BY <1>3 DEF Create
<1>4. ASSUME NEW ep \in Endpoints, Update(ep)
      PROVE  WebhookType'
  BY <1>4, SMTT(30) DEF Update, Unsubscribe
<1>5. ASSUME NEW ep \in Endpoints, Disable(ep)
      PROVE  WebhookType'
  BY <1>5 DEF Disable, Unsubscribe
<1>6. CASE UNCHANGED vars
  BY <1>6 DEF vars
<1>7. QED
  BY <1>1, <1>2, <1>3, <1>4, <1>5, <1>6

-----------------------------------------------------------------------------
(* A row once inserted stays.                                               *)
LEMMA RowsStay ==
  ASSUME WebhookConstants, WebhookInv, NEW p \in Passes, Step(p) \/ Abort(p),
         NEW e \in Events, NEW ep \in Endpoints, HasRow(e, ep)
  PROVE  HasRow(e, ep)'
<1>1. PICK q \in Passes : status[<<e, ep, q>>] # "NONE"
  BY DEF HasRow
<1>2. <<e, ep, q>> \in Ids
  BY DEF Ids
<1>3. SUFFICES status'[<<e, ep, q>>] # "NONE"
  BY DEF HasRow
<1>4. CASE UNCHANGED status
  BY <1>1, <1>4
<1>5. CASE FanOut(p)
  BY <1>1, <1>2, <1>5 DEF FanOut
<1>6. CASE Record(p)
  <2>1. PICK d \in current[p] :
          status' = [status EXCEPT ![d[1]] = StatusAfter(outcome[p], d[2] + 1)]
    BY <1>6 DEF Record, attemptNumberOf
  <2>2. StatusAfter(outcome[p], d[2] + 1) # "NONE"
    BY DEF StatusAfter
  <2>3. status \in [Ids -> {"NONE", "PENDING"} \cup Final]
    BY DEF WebhookInv, WebhookType
  <2>4. QED
    BY <1>1, <1>2, <2>1, <2>2, <2>3
<1>7. QED
  BY <1>4, <1>5, <1>6 DEF Step, Begin, FindActive, LookUp, Publish, ScanDue, Reserve, Defer,
     Post, Abort, deliveryVars

(* What a step of a pass leaves alone: the endpoints, what is owed and the  *)
(* other passes.                                                            *)
LEMMA PassFrame ==
  ASSUME WebhookConstants, WebhookInv, NEW p \in Passes, Step(p) \/ Abort(p)
  PROVE  /\ UNCHANGED <<state, wants, owed, committed>>
         /\ \A q \in Passes : q # p =>
              /\ pc'[q] = pc[q] /\ queue'[q] = queue[q] /\ targets'[q] = targets[q]
              /\ missing'[q] = missing[q]
<1> USE DEF outboxVars, endpointVars, fanOutVars
<1>1. UNCHANGED <<state, wants, owed, committed>>
  BY DEF Step, Begin, FindActive, LookUp, FanOut, Publish, ScanDue, Reserve, Defer, Post,
     Record, Abort
<1>2. ASSUME NEW q \in Passes, q # p
      PROVE  pc'[q] = pc[q]
  <2>1. UNCHANGED pc \/ \E l : pc' = [pc EXCEPT ![p] = l]
    BY DEF Step, Begin, FindActive, LookUp, FanOut, Publish, ScanDue, Reserve, Defer, Post,
       Record, Abort, Goto, Continue
  <2>2. QED
    BY <1>2, <2>1 DEF WebhookInv, WebhookType
<1>3. ASSUME NEW q \in Passes, q # p
      PROVE  queue'[q] = queue[q]
  <2>1. UNCHANGED queue \/ \E l : queue' = [queue EXCEPT ![p] = l]
    BY DEF Step, Begin, FindActive, LookUp, FanOut, Publish, ScanDue, Reserve, Defer, Post,
       Record, Abort
  <2>2. QED
    BY <1>3, <2>1 DEF WebhookInv, WebhookType
<1>4. ASSUME NEW q \in Passes, q # p
      PROVE  targets'[q] = targets[q]
  <2>1. UNCHANGED targets \/ \E l : targets' = [targets EXCEPT ![p] = l]
    BY DEF Step, Begin, FindActive, LookUp, FanOut, Publish, ScanDue, Reserve, Defer, Post,
       Record, Abort
  <2>2. QED
    BY <1>4, <2>1 DEF WebhookInv, WebhookType
<1>5. ASSUME NEW q \in Passes, q # p
      PROVE  missing'[q] = missing[q]
  <2>1. UNCHANGED missing \/ \E l : missing' = [missing EXCEPT ![p] = l]
    BY DEF Step, Begin, FindActive, LookUp, FanOut, Publish, ScanDue, Reserve, Defer, Post,
       Record, Abort
  <2>2. QED
    BY <1>5, <2>1 DEF WebhookInv, WebhookType
<1>6. QED
  BY <1>1, <1>2, <1>3, <1>4, <1>5

(* A step of a pass keeps what the pass knows about its own event.          *)
LEMMA OwnPass ==
  ASSUME WebhookConstants, WebhookInv, NEW p \in Passes, Step(p) \/ Abort(p)
  PROVE  PassOK(p)'
<1> DEFINE open == {"endpoints", "fanOut", "publish"}
<1> USE DEF Goto, Continue, fanOutVars
<1>0. /\ pc \in [Passes -> Labels] /\ PassOK(p)
      /\ queue \in [Passes -> SUBSET (1..committed)]
      /\ targets \in [Passes -> SUBSET Endpoints]
      /\ missing \in [Passes -> SUBSET Endpoints]
  BY DEF WebhookInv, WebhookType, FanOutInv
<1>1. CASE pc'[p] \notin open
  BY <1>1 DEF PassOK, HandingOff
<1>2. CASE Begin(p) \/ Publish(p)
  <2>1. pc'[p] \in {"scan", "endpoints"}
    BY <1>0, <1>2 DEF Begin, Publish
  <2>2. pc'[p] = "endpoints" => queue'[p] # {}
    <3>1. CASE Begin(p)
      BY <1>0, <3>1 DEF Begin
    <3>2. CASE Publish(p)
      <4>1. queue'[p] = queue[p] \ {Least(queue[p])}
        BY <1>0, <3>2 DEF Publish
      <4>2. Least(queue[p]) \in queue[p]
        BY <3>2, FirstIsEvent DEF Publish, First, WebhookInv
      <4>3. pc'[p] = "endpoints" => queue[p] # {Least(queue[p])}
        BY <1>0, <3>2 DEF Publish
      <4>4. QED
        BY <4>1, <4>2, <4>3
    <3>3. QED
      BY <1>2, <3>1, <3>2
  <2>3. QED
    BY <2>1, <2>2 DEF PassOK, HandingOff
<1>3. CASE FindActive(p)
  <2>1. /\ pc[p] = "endpoints" /\ pc'[p] = "fanOut" /\ UNCHANGED <<queue, owed>>
        /\ targets'[p] = Subscribed
    BY <1>0, <1>3 DEF FindActive, outboxVars
  <2>2. \A e \in Events : owed[e] \subseteq Subscribed
    BY DEF WebhookInv, FanOutInv
  <2>3. QED
    BY <1>0, <2>1, <2>2 DEF PassOK, HandingOff
<1>4. CASE LookUp(p)
  <2>1. PICK ep \in targets[p] :
          /\ targets' = [targets EXCEPT ![p] = @ \ {ep}]
          /\ missing' = IF HasRow(First(p), ep) THEN missing
                          ELSE [missing EXCEPT ![p] = @ \cup {ep}]
    BY <1>4 DEF LookUp, First
  <2>2. /\ pc[p] = "fanOut" /\ pc' = pc /\ UNCHANGED <<queue, owed, status>>
    BY <1>4 DEF LookUp, outboxVars, deliveryVars
  <2>3. /\ targets'[p] = targets[p] \ {ep} /\ missing[p] \subseteq missing'[p]
        /\ HasRow(First(p), ep) \/ ep \in missing'[p]
    BY <1>0, <2>1
  <2>4. First(p)' = First(p)
    BY <2>2 DEF First
  <2>5. \A e \in Events, x \in Endpoints : HasRow(e, x)' <=> HasRow(e, x)
    BY <2>2 DEF HasRow
  <2>6. ASSUME NEW e \in Events, e = First(p)
        PROVE  HandingOff(p, e)'
    <3>1. \A x \in owed[e] : x \in targets[p] \cup missing[p] \/ HasRow(e, x)
      BY <1>0, <2>2, <2>6 DEF PassOK, HandingOff
    <3>2. owed[e] \subseteq Endpoints
      BY DEF WebhookInv, WebhookType
    <3>3. \A x \in owed[e] : x \in targets'[p] \cup missing'[p] \/ HasRow(e, x)'
      <4>1. ASSUME NEW x \in owed[e], x # ep
            PROVE  x \in targets'[p] \cup missing'[p] \/ HasRow(e, x)'
        BY <2>3, <2>5, <3>1, <3>2, <4>1
      <4>2. ep \in missing'[p] \/ HasRow(e, ep)'
        BY <1>0, <2>3, <2>5, <2>6
      <4>3. QED
        BY <4>1, <4>2
    <3>4. QED
      BY <2>2, <3>3 DEF HandingOff
  <2>7. QED
    BY <1>0, <2>2, <2>4, <2>6 DEF PassOK
<1>5. CASE FanOut(p)
  <2>1. /\ pc[p] = "fanOut" /\ pc'[p] = "publish" /\ UNCHANGED <<queue, owed>>
        /\ targets[p] = {}
    BY <1>0, <1>5 DEF FanOut, outboxVars
  <2>2. First(p)' = First(p)
    BY <2>1 DEF First
  <2>3. ASSUME NEW e \in Events, e = First(p), NEW ep \in owed[e]
        PROVE  HasRow(e, ep)'
    <3>1. ep \in Endpoints
      BY DEF WebhookInv, WebhookType
    <3>2. CASE HasRow(e, ep)
      BY <3>1, <3>2, RowsStay
    <3>3. CASE ep \in missing[p]
      <4>1. <<e, ep, p>> \in Ids
        BY <3>1 DEF Ids
      <4>2. status'[<<e, ep, p>>] = "PENDING"
        BY <1>5, <2>3, <3>3, <4>1 DEF FanOut, First
      <4>3. QED
        BY <4>2 DEF HasRow
    <3>4. QED
      BY <1>0, <2>1, <2>3, <3>2, <3>3 DEF PassOK, HandingOff
  <2>4. QED
    BY <1>0, <2>1, <2>2, <2>3 DEF PassOK, HandingOff
<1>6. QED
  <2>1. CASE ScanDue(p) \/ Reserve(p) \/ Defer(p) \/ Post(p) \/ Record(p) \/ Abort(p)
    <3>1. pc'[p] \notin open
      BY <1>0, <2>1 DEF ScanDue, Reserve, Defer, Post, Record, Abort
    <3>2. QED
      BY <1>1, <3>1
  <2>2. QED
    BY <1>2, <1>3, <1>4, <1>5, <2>1 DEF Step

LEMMA PassFanOut ==
  ASSUME WebhookConstants, WebhookInv, NEW p \in Passes, Step(p) \/ Abort(p)
  PROVE  FanOutInv'
<1>1. \A e \in Events : owed'[e] \subseteq Subscribed'
  BY PassFrame DEF WebhookInv, FanOutInv, Subscribed
<1>2. ASSUME NEW q \in Passes, q # p
      PROVE  PassOK(q)'
  <2>1. /\ pc'[q] = pc[q] /\ queue'[q] = queue[q] /\ targets'[q] = targets[q]
        /\ missing'[q] = missing[q] /\ owed' = owed
    BY <1>2, PassFrame
  <2>2. First(q)' = First(q)
    BY <2>1 DEF First
  <2>3. PassOK(q)
    BY DEF WebhookInv, FanOutInv
  <2>4. ASSUME NEW e \in Events, e = First(q)
        PROVE  HandingOff(q, e)'
    <3>1. HandingOff(q, e)
      BY <2>3, <2>4 DEF PassOK
    <3>2. owed[e] \subseteq Endpoints
      BY DEF WebhookInv, WebhookType
    <3>3. \A ep \in owed[e] : HasRow(e, ep) => HasRow(e, ep)'
      BY <3>2, RowsStay
    <3>4. QED
      BY <2>1, <3>1, <3>3 DEF HandingOff
  <2>5. QED
    BY <2>1, <2>2, <2>3, <2>4 DEF PassOK
<1>3. PassOK(p)'
  BY OwnPass
<1>4. ASSUME NEW e \in published', NEW ep \in owed'[e]
      PROVE  HasRow(e, ep)'
  <2>0. owed' = owed /\ e \in Events
    BY PassFrame, PassTypes, SMTT(30) DEF WebhookType, Events, WebhookConstants
  <2>1. ep \in Endpoints
    BY <2>0 DEF WebhookInv, WebhookType
  <2>2. CASE e \in published
    BY <1>4, <2>0, <2>1, <2>2, RowsStay DEF WebhookInv, FanOutInv, PublishedIsHandedOff
  <2>3. CASE e \notin published
    <3>1. Publish(p) /\ e = First(p)
      BY <1>4, <2>3 DEF Step, Begin, FindActive, LookUp, FanOut, Publish, ScanDue, Reserve,
         Defer, Post, Record, Abort, First, outboxVars
    <3>2. HandingOff(p, e) /\ pc[p] = "publish"
      BY <2>0, <3>1 DEF WebhookInv, FanOutInv, PassOK, Publish
    <3>3. HasRow(e, ep)
      BY <1>4, <2>0, <3>2 DEF HandingOff
    <3>4. QED
      BY <2>0, <2>1, <3>3, RowsStay
  <2>4. QED
    BY <2>2, <2>3
<1>5. QED
  BY <1>1, <1>2, <1>3, <1>4 DEF FanOutInv, PublishedIsHandedOff

(* Nobody else inserts, publishes or moves a pass on, and what is owed for  *)
(* an event that a pass or the outbox holds can only shrink.                *)
LEMMA OtherFanOut ==
  ASSUME WebhookConstants, WebhookInv,
         \/ Commit \/ Tick
         \/ \E ep \in Endpoints : Create(ep) \/ Update(ep) \/ Disable(ep)
         \/ UNCHANGED vars
  PROVE  FanOutInv'
<1> USE DEF outboxVars, endpointVars, deliveryVars, fanOutVars, vars
<1>1. UNCHANGED <<published, status, pc, queue, targets, missing>>
  BY DEF Commit, Tick, Create, Update, Disable
<1>2. \A e \in 1..committed : owed'[e] \subseteq owed[e]
  <2>1. CASE Commit
    BY <2>1, SMTT(30) DEF Commit, WebhookInv, WebhookType
  <2>2. ASSUME NEW ep \in Endpoints, Update(ep) \/ Disable(ep)
        PROVE  \A e \in 1..committed : owed'[e] \subseteq owed[e]
    <3>1. Unsubscribe(ep) \/ owed' = owed
      BY <2>2 DEF Update, Disable
    <3>2. \A e \in Events : owed'[e] \subseteq owed[e]
      BY <3>1 DEF Unsubscribe
    <3>3. 1..committed \subseteq Events
      BY SMTT(30) DEF WebhookInv, WebhookType, WebhookConstants, Events
    <3>4. QED
      BY <3>2, <3>3
  <2>3. CASE UNCHANGED owed
    BY <2>3
  <2>4. QED
    BY <2>1, <2>2, <2>3 DEF Tick, Create
<1>3. ASSUME NEW e \in Events
      PROVE  owed'[e] \subseteq Subscribed'
  <2>0. owed[e] \subseteq Subscribed /\ owed \in [Events -> SUBSET Endpoints]
    BY DEF WebhookInv, WebhookType, FanOutInv
  <2>1. CASE Commit
    BY <2>0, <2>1 DEF Commit, Subscribed
  <2>2. CASE Tick \/ UNCHANGED vars
    BY <2>0, <2>2 DEF Tick, Subscribed
  <2>3. ASSUME NEW ep \in Endpoints, Create(ep)
        PROVE  owed'[e] \subseteq Subscribed'
    BY <2>0, <2>3 DEF Create, Subscribed, WebhookInv, WebhookType
  <2>4. ASSUME NEW ep \in Endpoints, Update(ep)
        PROVE  owed'[e] \subseteq Subscribed'
    BY <2>0, <2>4, SMTT(30) DEF Update, Unsubscribe, Subscribed, WebhookInv, WebhookType
  <2>5. ASSUME NEW ep \in Endpoints, Disable(ep)
        PROVE  owed'[e] \subseteq Subscribed'
    BY <2>0, <2>5 DEF Disable, Unsubscribe, Subscribed, WebhookInv, WebhookType
  <2>6. QED
    BY <2>1, <2>2, <2>3, <2>4, <2>5
<1>4. \A e \in Events, ep \in Endpoints : HasRow(e, ep)' <=> HasRow(e, ep)
  BY <1>1 DEF HasRow
<1>5. ASSUME NEW p \in Passes
      PROVE  PassOK(p)'
  <2>1. PassOK(p) /\ First(p)' = First(p)
    BY <1>1 DEF WebhookInv, FanOutInv, First
  <2>2. ASSUME NEW e \in Events, e = First(p), pc[p] \in {"fanOut", "publish"}
        PROVE  HandingOff(p, e)'
    <3>1. HandingOff(p, e) /\ e \in 1..committed
      BY <2>1, <2>2, FirstIsEvent DEF PassOK, WebhookInv
    <3>2. owed'[e] \subseteq owed[e] /\ owed[e] \subseteq Endpoints
      BY <1>2, <3>1 DEF WebhookInv, WebhookType
    <3>3. QED
      BY <1>1, <1>4, <3>1, <3>2 DEF HandingOff
  <2>3. QED
    BY <1>1, <2>1, <2>2 DEF PassOK, HandingOff
<1>6. PublishedIsHandedOff'
  <2>1. ASSUME NEW e \in published, NEW ep \in owed'[e]
        PROVE  HasRow(e, ep)'
    <3>1. e \in 1..committed /\ e \in Events
      BY SMTT(30) DEF WebhookInv, WebhookType, Events, WebhookConstants
    <3>2. ep \in owed[e] /\ ep \in Endpoints
      BY <1>2, <2>1, <3>1 DEF WebhookInv, WebhookType
    <3>3. QED
      BY <1>4, <3>1, <3>2 DEF WebhookInv, FanOutInv, PublishedIsHandedOff
  <2>2. QED
    BY <1>1, <2>1 DEF PublishedIsHandedOff
<1>7. QED
  BY <1>3, <1>5, <1>6 DEF FanOutInv

-----------------------------------------------------------------------------
(* Inserting a row and everything that leaves the rows alone.               *)
LEMMA AttemptsKept ==
  ASSUME WebhookConstants, WebhookInv,
         UNCHANGED <<attempts, nextAttemptAt, tries, acked, batch, current, outcome>>,
         \A p \in Passes : pc'[p] = "record" => pc[p] = "record",
         \A id \in Ids : status'[id] \in Final => status[id] = status'[id]
  PROVE  AttemptsInv'
<1>1. NoVerdictTooEarly'
  BY DEF WebhookInv, AttemptsInv, NoVerdictTooEarly, Final
<1>2. FinalIsNotScheduled'
  BY DEF WebhookInv, AttemptsInv, FinalIsNotScheduled
<1>3. QED
  BY <1>1, <1>2 DEF WebhookInv, AttemptsInv

LEMMA OtherAttempts ==
  ASSUME WebhookConstants, WebhookInv,
         \/ Commit \/ Tick
         \/ \E ep \in Endpoints : Create(ep) \/ Update(ep) \/ Disable(ep)
         \/ UNCHANGED vars
  PROVE  AttemptsInv'
<1>1. UNCHANGED <<pc, status, attempts, nextAttemptAt, tries, acked, batch, current, outcome>>
  BY DEF Commit, Tick, Create, Update, Disable, deliveryVars, receiverVars, attemptVars, vars
<1>2. QED
  BY <1>1, AttemptsKept

LEMMA FanOutAttempts ==
  ASSUME WebhookConstants, WebhookInv, NEW p \in Passes,
         Begin(p) \/ FindActive(p) \/ LookUp(p) \/ FanOut(p) \/ Publish(p)
  PROVE  AttemptsInv'
<1>1. UNCHANGED <<attempts, nextAttemptAt, tries, acked, batch, current, outcome>>
  BY DEF Begin, FindActive, LookUp, FanOut, Publish, deliveryVars, receiverVars, attemptVars
<1>2. \A q \in Passes : pc'[q] = "record" => pc[q] = "record"
  BY DEF Begin, FindActive, LookUp, FanOut, Publish, Goto, WebhookInv, WebhookType
<1>3. \A id \in Ids : status'[id] \in Final => status[id] = status'[id]
  BY SMTT(30) DEF Begin, FindActive, LookUp, FanOut, Publish, deliveryVars, Final, WebhookInv,
     WebhookType
<1>4. QED
  BY <1>1, <1>2, <1>3, AttemptsKept

(* Begins and ends of attempts: no row is decided, and each pass goes on    *)
(* with rows it has, or rows with as many attempts as it has just read.     *)
LEMMA BatchAttempts ==
  ASSUME WebhookConstants, WebhookInv, NEW p \in Passes,
         ScanDue(p) \/ Reserve(p) \/ Abort(p)
  PROVE  AttemptsInv'
<1>0. AttemptsInv /\ WebhookType /\ WebhookType'
  BY PassTypes DEF WebhookInv, Step
<1>1. UNCHANGED <<status, attempts, nextAttemptAt, tries, acked>>
  BY DEF ScanDue, Reserve, Abort, deliveryVars, receiverVars
<1>2. \A q \in Passes : pc'[q] = "record" => q # p /\ pc[q] = "record"
  <2>1. PICK label \in {"idle", "reserve", "post", "defer"} : Goto(p, label)
    BY DEF ScanDue, Reserve, Abort, Continue
  <2>2. QED
    BY <1>0, <2>1 DEF Goto, WebhookType
<1>3. \A q \in Passes : q # p =>
        batch'[q] = batch[q] /\ current'[q] = current[q] /\ outcome'[q] = outcome[q]
  <2>1. CASE ScanDue(p)
    BY <1>0, <2>1 DEF ScanDue, WebhookType
  <2>2. CASE Reserve(p)
    BY <1>0, <2>2 DEF Reserve, WebhookType
  <2>3. CASE Abort(p)
    BY <1>0, <2>3 DEF Abort, WebhookType
  <2>4. QED
    BY <2>1, <2>2, <2>3
<1>4. ASSUME NEW d \in batch'[p] \cup current'[p]
      PROVE  d[2] <= tries[d[1]]
  <2>1. CASE ScanDue(p)
    <3>1. PICK S \in SUBSET Due(now[p]) :
            batch' = [batch EXCEPT ![p] = {<<id, attempts[id]>> : id \in S}]
      BY <2>1 DEF ScanDue
    <3>2. S \subseteq Ids
      BY DEF Due
    <3>3. batch'[p] = {<<id, attempts[id]>> : id \in S} /\ current' = current
      BY <1>0, <2>1, <3>1 DEF WebhookType, ScanDue
    <3>4. CASE d \in current[p]
      BY <1>0, <3>4 DEF AttemptsInv
    <3>5. CASE d \in batch'[p]
      <4>1. PICK id \in S : d = <<id, attempts[id]>>
        BY <3>3, <3>5
      <4>2. QED
        BY <1>0, <3>2, <4>1 DEF AttemptsInv
    <3>6. QED
      BY <1>4, <3>3, <3>4, <3>5
  <2>2. CASE Reserve(p)
    <3>1. d \in batch[p] \cup current[p]
      <4>1. PICK c \in batch[p] : /\ current' = [current EXCEPT ![p] = {c}]
                                 /\ batch' = [batch EXCEPT ![p] = @ \ {c}]
        BY <2>2 DEF Reserve
      <4>2. current'[p] = {c} /\ batch'[p] = batch[p] \ {c}
        BY <1>0, <4>1 DEF WebhookType
      <4>3. QED
        BY <1>4, <4>2
    <3>2. QED
      BY <1>0, <3>1 DEF AttemptsInv
  <2>3. CASE Abort(p)
    BY <1>0, <1>4, <2>3 DEF Abort, WebhookType
  <2>4. QED
    BY <2>1, <2>2, <2>3
<1>5. \A q \in Passes, d \in Ids \X Nat :
        d \in batch'[q] \cup current'[q] => d[2] <= tries[d[1]]
  BY <1>0, <1>3, <1>4 DEF AttemptsInv
<1>6. NoVerdictTooEarly' /\ FinalIsNotScheduled'
  BY <1>0, <1>1 DEF AttemptsInv, NoVerdictTooEarly, FinalIsNotScheduled
<1>7. QED
  <2>1. \A q \in Passes : \A d \in batch'[q] \cup current'[q] : d[2] <= tries'[d[1]]
    BY <1>0, <1>1, <1>5 DEF WebhookType
  <2>2. ASSUME NEW q \in Passes, pc'[q] = "record", NEW d \in current'[q]
        PROVE  d[2] + 1 <= tries'[d[1]] /\ (outcome'[q] = "SUCCEEDED" => d[1] \in acked')
    BY <1>0, <1>1, <1>2, <1>3, <2>2 DEF AttemptsInv
  <2>3. \A id \in Ids : attempts'[id] <= tries'[id]
    BY <1>0, <1>1 DEF AttemptsInv
  <2>4. ASSUME NEW q \in Passes
        PROVE  \A d, b \in current'[q] : d = b
    <3>0. \A d, b \in current[q] : d = b
      BY <1>0 DEF AttemptsInv
    <3>1. CASE q # p
      BY <1>3, <3>0, <3>1
    <3>2. CASE q = p
      <4>1. \/ current' = current
            \/ \E c \in batch[p] : current' = [current EXCEPT ![p] = {c}]
            \/ current' = [current EXCEPT ![p] = {}]
        BY DEF ScanDue, Reserve, Abort
      <4>2. \A S : current' = [current EXCEPT ![p] = S] => current'[p] = S
        BY <1>0 DEF WebhookType
      <4>3. current'[p] = current[p] \/ (\E c : current'[p] = {c}) \/ current'[p] = {}
        BY <4>1, <4>2
      <4>4. QED
        BY <3>0, <3>2, <4>3
    <3>3. QED
      BY <3>1, <3>2
  <2>5. QED
    BY <1>6, <2>1, <2>2, <2>3, <2>4 DEF AttemptsInv

LEMMA DeferAttempts ==
  ASSUME WebhookConstants, WebhookInv, NEW p \in Passes, Defer(p)
  PROVE  AttemptsInv'
<1>0. AttemptsInv /\ WebhookType
  BY DEF WebhookInv
<1>1. UNCHANGED <<status, attempts, tries, acked, batch, outcome>>
  BY DEF Defer, receiverVars
<1>2. \A q \in Passes : (pc'[q] = "record" => pc[q] = "record") /\ current'[q] \subseteq current[q]
  BY <1>0 DEF Defer, Goto, Continue, WebhookType
<1>3. ASSUME NEW id \in Ids, status[id] \in Final
      PROVE  nextAttemptAt'[id] = nextAttemptAt[id]
  <2>1. PICK d \in current[p] : \E t :
          nextAttemptAt' = IF Deferrable(d[1]) THEN [nextAttemptAt EXCEPT ![d[1]] = t]
                                               ELSE nextAttemptAt
    BY DEF Defer
  <2>2. PICK t :
          nextAttemptAt' = IF Deferrable(d[1]) THEN [nextAttemptAt EXCEPT ![d[1]] = t]
                                               ELSE nextAttemptAt
    BY <2>1
  <2>3. Deferrable(d[1]) => d[1] # id
    BY <1>3 DEF Deferrable, Final
  <2>4. QED
    BY <1>0, <2>2, <2>3 DEF WebhookType
<1>4. FinalIsNotScheduled'
  BY <1>0, <1>1, <1>3 DEF AttemptsInv, FinalIsNotScheduled
<1>5. QED
  BY <1>0, <1>1, <1>2, <1>4 DEF AttemptsInv, NoVerdictTooEarly

(* A POST counts one more attempt on its row, and nothing else moves back.  *)
LEMMA PostAttempts ==
  ASSUME WebhookConstants, WebhookInv, NEW p \in Passes, Post(p)
  PROVE  AttemptsInv'
<1>0. AttemptsInv /\ WebhookType
  BY DEF WebhookInv
<1>1. UNCHANGED <<status, attempts, nextAttemptAt, batch, current>>
  BY DEF Post, deliveryVars
<1>2. PICK d \in current[p], result \in {"SUCCEEDED", "FAILED"} :
        /\ outcome' = [outcome EXCEPT ![p] = result]
        /\ tries' = [tries EXCEPT ![d[1]] = @ + 1]
        /\ acked' = IF result = "SUCCEEDED" THEN acked \cup {d[1]} ELSE acked
  BY DEF Post
<1>3. d \in Ids \X Nat /\ d[1] \in Ids /\ d[2] \in Nat
  BY <1>0, SMTT(30) DEF WebhookType
<1>4. \A id \in Ids : tries[id] \in Nat /\ tries'[id] \in Nat /\ tries[id] <= tries'[id]
  BY <1>0, <1>2, <1>3, SMTT(30) DEF WebhookType
<1>5. acked \subseteq acked'
  BY <1>2
<1>6. \A id \in Ids : attempts'[id] <= tries'[id]
  BY <1>0, <1>1, <1>4, SMTT(30) DEF AttemptsInv, WebhookType
<1>7. NoVerdictTooEarly'
  BY <1>0, <1>1, <1>4, <1>5, SMTT(30) DEF AttemptsInv, NoVerdictTooEarly, WebhookConstants
<1>8. FinalIsNotScheduled'
  BY <1>0, <1>1 DEF AttemptsInv, FinalIsNotScheduled
<1>9. ASSUME NEW q \in Passes, NEW b \in batch[q] \cup current[q]
      PROVE  b[2] <= tries'[b[1]]
  <2>1. b[1] \in Ids /\ b[2] \in Nat /\ b[2] <= tries[b[1]]
    BY <1>0, SMTT(30) DEF WebhookType, AttemptsInv
  <2>2. QED
    BY <1>4, <2>1, SMTT(30)
<1>10. ASSUME NEW q \in Passes, pc'[q] = "record", NEW b \in current[q]
       PROVE  b[2] + 1 <= tries'[b[1]] /\ (outcome'[q] = "SUCCEEDED" => b[1] \in acked')
  <2>0. b[1] \in Ids /\ b[2] \in Nat
    BY <1>0, SMTT(30) DEF WebhookType
  <2>1. CASE q = p
    <3>1. b = d
      BY <1>0, <2>1 DEF WebhookInv, AttemptsInv
    <3>2. d[2] <= tries[d[1]] /\ tries'[d[1]] = tries[d[1]] + 1 /\ outcome'[p] = result
      BY <1>0, <1>2, <1>3 DEF AttemptsInv, WebhookType
    <3>3. QED
      BY <1>2, <1>3, <1>4, <2>1, <3>1, <3>2, SMTT(30)
  <2>2. CASE q # p
    <3>1. pc[q] = "record" /\ outcome'[q] = outcome[q]
      BY <1>0, <1>2, <1>10, <2>2 DEF Post, Goto, WebhookType
    <3>2. b[2] + 1 <= tries[b[1]] /\ (outcome[q] = "SUCCEEDED" => b[1] \in acked)
      BY <1>0, <1>10, <3>1 DEF AttemptsInv
    <3>3. b[2] + 1 <= tries'[b[1]]
      <4>1. tries[b[1]] \in Nat /\ tries'[b[1]] \in Nat /\ tries[b[1]] <= tries'[b[1]]
        BY <1>4, <2>0
      <4>2. QED
        BY <2>0, <3>2, <4>1, SMTT(30)
    <3>4. outcome'[q] = "SUCCEEDED" => b[1] \in acked'
      BY <1>5, <3>1, <3>2
    <3>5. QED
      BY <3>3, <3>4
  <2>3. QED
    BY <2>1, <2>2
<1>11. \A q \in Passes : \A c, b \in current[q] : c = b
  BY <1>0 DEF AttemptsInv
<1>12. QED
  BY <1>1, <1>6, <1>7, <1>8, <1>9, <1>10, <1>11 DEF AttemptsInv

(* The verdict a pass writes is about attempts that were made.              *)
LEMMA RecordAttempts ==
  ASSUME WebhookConstants, WebhookInv, NEW p \in Passes, Record(p)
  PROVE  AttemptsInv'
<1>0. AttemptsInv /\ WebhookType
  BY DEF WebhookInv
<1>1. UNCHANGED <<tries, acked, batch>>
  BY DEF Record, receiverVars
<1>2. PICK d \in current[p] :
        /\ status' = [status EXCEPT ![d[1]] = StatusAfter(outcome[p], d[2] + 1)]
        /\ attempts' = [attempts EXCEPT ![d[1]] = d[2] + 1]
        /\ nextAttemptAt' = [nextAttemptAt EXCEPT ![d[1]] =
             IF StatusAfter(outcome[p], d[2] + 1) = "PENDING"
               THEN now[p] + backoff(d[2] + 1) ELSE 0]
  BY DEF Record, attemptNumberOf
<1>3. d[1] \in Ids /\ d[2] \in Nat
  BY <1>0, SMTT(30) DEF WebhookType
<1>4. d[2] + 1 <= tries[d[1]] /\ (outcome[p] = "SUCCEEDED" => d[1] \in acked)
  BY <1>0 DEF AttemptsInv, Record
<1>5. \A id \in Ids : attempts'[id] <= tries[id]
  BY <1>0, <1>2, <1>3, <1>4 DEF AttemptsInv, WebhookType
<1>6. ASSUME NEW id \in Ids
      PROVE  /\ status'[id] = "FAILED_FINAL" => tries[id] >= MaxAttempts
             /\ status'[id] = "SUCCEEDED" => id \in acked
             /\ status'[id] \in Final => nextAttemptAt'[id] = 0
  <2>1. CASE id = d[1]
    <3>1. tries[id] \in Nat /\ status'[id] = StatusAfter(outcome[p], d[2] + 1)
      BY <1>0, <1>2, <1>3, <2>1 DEF WebhookType
    <3>2. status'[id] # "PENDING" => nextAttemptAt'[id] = 0
      BY <1>0, <1>2, <1>3, <2>1, <3>1 DEF WebhookType
    <3>3. status'[id] = "FAILED_FINAL" => d[2] + 1 >= MaxAttempts
      BY <3>1 DEF StatusAfter
    <3>4. status'[id] = "SUCCEEDED" => outcome[p] = "SUCCEEDED"
      BY <3>1 DEF StatusAfter
    <3>5. QED
      BY <1>3, <1>4, <2>1, <3>1, <3>2, <3>3, <3>4, SMTT(30) DEF Final, WebhookConstants
  <2>2. CASE id # d[1]
    <3>1. status'[id] = status[id] /\ nextAttemptAt'[id] = nextAttemptAt[id]
      BY <1>0, <1>2, <2>2 DEF WebhookType
    <3>2. QED
      BY <1>0, <3>1 DEF AttemptsInv, NoVerdictTooEarly, FinalIsNotScheduled
  <2>3. QED
    BY <2>1, <2>2
<1>7. \A q \in Passes : current'[q] \subseteq current[q]
  BY <1>0 DEF Record, WebhookType
<1>8. \A q \in Passes : pc'[q] = "record" =>
        q # p /\ pc[q] = "record" /\ outcome'[q] = outcome[q]
  BY <1>0 DEF Record, Continue, Goto, WebhookType
<1>9. NoVerdictTooEarly' /\ FinalIsNotScheduled'
  BY <1>1, <1>6 DEF NoVerdictTooEarly, FinalIsNotScheduled
<1>10. QED
  BY <1>0, <1>1, <1>5, <1>7, <1>8, <1>9 DEF AttemptsInv

-----------------------------------------------------------------------------
(* A pass accounts for every endpoint its event is owed to, and has never   *)
(* seen more attempts than were made, whoever takes a step.                 *)
LEMMA WebhookStep ==
  ASSUME WebhookConstants, WebhookInv, [Next]_vars
  PROVE  WebhookInv'
<1>1. CASE \E p \in Passes : Step(p) \/ Abort(p)
  <2>1. PICK p \in Passes : Step(p) \/ Abort(p)
    BY <1>1
  <2>2. AttemptsInv'
    BY <2>1, FanOutAttempts, BatchAttempts, DeferAttempts, PostAttempts, RecordAttempts
       DEF Step
  <2>3. QED
    BY <2>1, <2>2, PassTypes, PassFanOut DEF WebhookInv
<1>2. CASE \/ Commit \/ Tick
           \/ \E ep \in Endpoints : Create(ep) \/ Update(ep) \/ Disable(ep)
           \/ UNCHANGED vars
  BY <1>2, OtherTypes, OtherFanOut, OtherAttempts DEF WebhookInv
<1>3. QED
  BY <1>1, <1>2 DEF Next

(* Nothing is committed, subscribed or seen at the start.                   *)
LEMMA WebhookStarts ==
  ASSUME WebhookConstants, Init
  PROVE  WebhookInv
<1>1. WebhookType
  BY SMTT(30) DEF Init, WebhookType, WebhookConstants, Labels, Final
<1>2. FanOutInv
  BY DEF Init, FanOutInv, PassOK, HandingOff, PublishedIsHandedOff
<1>3. AttemptsInv
  BY SMTT(30) DEF Init, AttemptsInv, NoVerdictTooEarly, FinalIsNotScheduled, Final
<1>4. QED
  BY <1>1, <1>2, <1>3 DEF WebhookInv

(* What a pass may have seen of a row that was still to be attempted.       *)
Seen == Ids \X (0..(MaxAttempts - 1))

(* Clocks, counters and rate windows.                                       *)
CountersType ==
  /\ clock \in 0..MaxTime /\ edits \in 0..MaxEdits /\ aborts \in 0..MaxAborts
  /\ limit \in [Endpoints -> Limits \cup {0}]
  /\ window \in [Endpoints -> Int] /\ used \in [Endpoints -> Nat]
  /\ now \in [Passes -> 0..MaxTime] /\ acked \subseteq Ids
  /\ nextAttemptAt \in [Ids -> Nat]

(* A row that is not decided has attempts left, so that a pass never counts *)
(* one too many; and a pass inserts only rows that nobody can have decided. *)
RowsInv ==
  /\ attempts \in [Ids -> 0..MaxAttempts]
  /\ batch \in [Passes -> SUBSET Seen] /\ current \in [Passes -> SUBSET Seen]
  /\ \A id \in Ids : status[id] \notin Final => attempts[id] \in 0..(MaxAttempts - 1)
  /\ \A p \in Passes : \A d \in batch[p] \cup current[p] : status[d[1]] # "NONE"
  /\ \A p \in Passes : pc[p] # "fanOut" => missing[p] = {}
  /\ \A p \in Passes : pc[p] = "fanOut" =>
       \A ep \in missing[p], e \in Events : e = First(p) => status[<<e, ep, p>>] = "NONE"

-----------------------------------------------------------------------------
(* Every step keeps the types of the counters.                              *)
LEMMA CountersKept ==
  ASSUME CountersType, RowsInv, WebhookInv, [Next]_vars
  PROVE  CountersType'
<1> USE DEF Goto, Continue, outboxVars, endpointVars, rateVars, deliveryVars, receiverVars,
            fanOutVars, attemptVars
<1>0. WebhookType
  BY DEF WebhookInv
<1>a. \A t \in 0..MaxTime : WindowOf(t) \in Nat /\ WindowOf(t) + WindowLength \in Nat
  BY WebhookAssumption, SMTT(30) DEF WindowOf
<1>b. \A p \in Passes : Continue(p, {}) \/ (\E S : Continue(p, S)) \/ now' = now =>
        now' \in [Passes -> 0..MaxTime]
  BY WebhookAssumption, SMTT(30) DEF CountersType
<1>c. \A p \in Passes : \A d \in batch[p] \cup current[p] :
        d[1] \in Ids /\ d[2] \in 0..(MaxAttempts - 1) /\ d[1][2] \in Endpoints
  BY SMTT(30) DEF RowsInv, Seen, Ids
<1>1. CASE \E p \in Passes : Begin(p)
  BY <1>1 DEF Begin, CountersType
<1>2. CASE \E p \in Passes : FindActive(p) \/ LookUp(p) \/ FanOut(p) \/ Publish(p)
  BY <1>2 DEF FindActive, LookUp, FanOut, Publish, CountersType
<1>3. CASE \E p \in Passes : ScanDue(p)
  <2>1. now' \in [Passes -> 0..MaxTime]
    BY <1>3, <1>b DEF ScanDue
  <2>2. QED
    BY <1>3, <2>1 DEF ScanDue, CountersType
<1>4. CASE \E p \in Passes : Reserve(p)
  <2>1. PICK p \in Passes : Reserve(p)
    BY <1>4
  <2>2. PICK d \in batch[p] :
          \/ UNCHANGED rateVars
          \/ /\ window' = [window EXCEPT ![d[1][2]] = WindowOf(now[p])]
             /\ \/ used' = [used EXCEPT ![d[1][2]] = 1]
                \/ used' = [used EXCEPT ![d[1][2]] = @ + 1]
    BY <2>1, SMTT(30) DEF Reserve
  <2>3. WindowOf(now[p]) \in Int
    <3>1. now[p] \in 0..MaxTime
      BY DEF CountersType
    <3>2. QED
      BY <3>1, <1>a, SMTT(30)
  <2>4. window' \in [Endpoints -> Int] /\ used' \in [Endpoints -> Nat]
    BY <2>2, <2>3, <1>c, SMTT(30) DEF CountersType
  <2>5. QED
    BY <2>1, <2>4 DEF Reserve, CountersType
<1>5. CASE \E p \in Passes : Defer(p)
  <2>1. PICK p \in Passes : Defer(p)
    BY <1>5
  <2>2. now' \in [Passes -> 0..MaxTime]
    BY <2>1, <1>b DEF Defer
  <2>3. PICK d \in current[p] :
          \/ UNCHANGED nextAttemptAt
          \/ nextAttemptAt' = [nextAttemptAt EXCEPT ![d[1]] = WindowOf(now[p]) + WindowLength]
    BY <2>1 DEF Defer
  <2>4. WindowOf(now[p]) + WindowLength \in Nat
    BY <1>a DEF CountersType
  <2>5. nextAttemptAt' \in [Ids -> Nat]
    BY <2>3, <2>4, SMTT(30) DEF CountersType
  <2>6. QED
    BY <2>1, <2>2, <2>5 DEF Defer, CountersType
<1>6. CASE \E p \in Passes : Post(p)
  <2>1. \E id \in Ids : acked' = acked \/ acked' = acked \cup {id}
    BY <1>6, <1>c DEF Post
  <2>2. acked' \subseteq Ids
    BY <2>1 DEF CountersType
  <2>3. QED
    BY <1>6, <2>2 DEF Post, CountersType
<1>7. CASE \E p \in Passes : Record(p)
  <2>1. PICK p \in Passes : Record(p)
    BY <1>7
  <2>2. now' \in [Passes -> 0..MaxTime]
    BY <2>1, <1>b DEF Record
  <2>3. PICK d \in current[p] :
          \/ nextAttemptAt' = [nextAttemptAt EXCEPT ![d[1]] = 0]
          \/ nextAttemptAt' = [nextAttemptAt EXCEPT ![d[1]] = now[p] + backoff(d[2] + 1)]
    BY <2>1 DEF Record, attemptNumberOf
  <2>4. d[2] + 1 \in 1..MaxAttempts
    BY <1>c, WebhookAssumption, SMTT(30)
  <2>5. backoff(d[2] + 1) \in Nat
    BY <2>4, WebhookAssumption DEF backoff
  <2>6. now[p] + backoff(d[2] + 1) \in Nat
    BY <2>5, SMTT(30) DEF CountersType
  <2>7. nextAttemptAt' \in [Ids -> Nat]
    BY <2>3, <2>6, SMTT(30) DEF CountersType
  <2>8. QED
    BY <2>1, <2>2, <2>7 DEF Record, CountersType
<1>8. CASE \E p \in Passes : Abort(p)
  <2>1. now' \in [Passes -> 0..MaxTime]
    BY <1>8, <1>b DEF Abort
  <2>2. aborts' \in 0..MaxAborts
    BY <1>8, WebhookAssumption, SMTT(30) DEF Abort, CountersType
  <2>3. QED
    BY <1>8, <2>1, <2>2 DEF Abort, CountersType
<1>9. CASE \E ep \in Endpoints : Create(ep) \/ Update(ep)
  <2>1. limit' \in [Endpoints -> Limits \cup {0}]
    BY <1>9 DEF Create, Update, CountersType
  <2>2. edits' \in 0..MaxEdits
    BY <1>9, WebhookAssumption, SMTT(30) DEF Create, Update, CountersType
  <2>3. QED
    BY <1>9, <2>1, <2>2 DEF Create, Update, CountersType
<1>10. CASE Tick
  <2>1. clock' \in 0..MaxTime
    BY <1>10, WebhookAssumption, SMTT(30) DEF Tick, CountersType
  <2>2. QED
    BY <1>10, <2>1 DEF Tick, CountersType
<1>11. CASE Commit \/ (\E ep \in Endpoints : Disable(ep)) \/ UNCHANGED vars
  BY <1>11 DEF Commit, Disable, vars, CountersType
<1>12. QED
  BY <1>1, <1>2, <1>3, <1>4, <1>5, <1>6, <1>7, <1>8, <1>9, <1>10, <1>11 DEF Next, Step


(* The step of a pass that has no row to insert keeps RowsInv.              *)
LEMMA EmptyMissing ==
  ASSUME RowsInv, NEW p \in Passes, missing[p] = {},
         UNCHANGED <<status, attempts, batch, current, missing>>,
         \A q \in Passes : q # p => pc'[q] = pc[q] /\ queue'[q] = queue[q]
  PROVE  RowsInv'
<1>1. \A q \in Passes : pc'[q] # "fanOut" => missing'[q] = {}
  BY DEF RowsInv
<1>2. ASSUME NEW q \in Passes, pc'[q] = "fanOut", NEW ep \in missing'[q], NEW e \in Events,
             e = First(q)'
      PROVE  status'[<<e, ep, q>>] = "NONE"
  <2>1. q # p /\ pc[q] = "fanOut" /\ ep \in missing[q]
    BY <1>2
  <2>2. e = First(q)
    BY <1>2, <2>1 DEF First
  <2>3. QED
    BY <1>2, <2>1, <2>2 DEF RowsInv
<1>3. QED
  BY <1>1, <1>2 DEF RowsInv

(* Every step leaves attempts to a row that is not decided.                 *)
LEMMA RowsKept ==
  ASSUME CountersType, RowsInv, WebhookInv, [Next]_vars
  PROVE  RowsInv'
<1> USE DEF Goto, Continue, outboxVars, endpointVars, rateVars, deliveryVars, receiverVars,
            fanOutVars, attemptVars
<1>0. WebhookType /\ WebhookConstants
  BY WebhookAssumption DEF WebhookInv, WebhookConstants
<1>c. \A p \in Passes : \A d \in batch[p] \cup current[p] :
        d[1] \in Ids /\ d[2] \in 0..(MaxAttempts - 1)
  BY SMTT(30) DEF RowsInv, Seen
<1>1. CASE \E p \in Passes : Begin(p)
  <2>1. PICK p \in Passes : Begin(p)
    BY <1>1
  <2>2. UNCHANGED <<status, attempts, batch, current, missing>>
    BY <2>1 DEF Begin
  <2>3. missing[p] = {} /\ \A q \in Passes : q # p => pc'[q] = pc[q] /\ queue'[q] = queue[q]
    BY <2>1, <1>0 DEF Begin, RowsInv, WebhookType
  <2>4. QED
    BY <2>2, <2>3, EmptyMissing
<1>2. CASE \E p \in Passes : FindActive(p)
  <2>1. PICK p \in Passes : FindActive(p)
    BY <1>2
  <2>2. UNCHANGED <<status, attempts, batch, current, missing>>
    BY <2>1 DEF FindActive
  <2>3. missing[p] = {} /\ \A q \in Passes : q # p => pc'[q] = pc[q] /\ queue'[q] = queue[q]
    BY <2>1, <1>0 DEF FindActive, RowsInv, WebhookType
  <2>4. QED
    BY <2>2, <2>3, EmptyMissing
<1>3. CASE \E p \in Passes : LookUp(p)
  <2>1. PICK p \in Passes : LookUp(p)
    BY <1>3
  <2>2. PICK ep \in Endpoints :
          missing' = IF HasRow(First(p), ep) THEN missing
                       ELSE [missing EXCEPT ![p] = @ \cup {ep}]
    BY <2>1, <1>0 DEF LookUp, First, WebhookType
  <2>3. \A e \in Events : ~HasRow(e, ep) => status[<<e, ep, p>>] = "NONE"
    BY DEF HasRow
  <2>4. \A q \in Passes : pc[q] = "fanOut" =>
          \A x \in missing'[q], e \in Events : e = First(q) => status[<<e, x, q>>] = "NONE"
    BY <2>2, <2>3, <1>0 DEF RowsInv, WebhookType
  <2>5. \A q \in Passes : pc[q] # "fanOut" => missing'[q] = {}
    BY <2>1, <2>2, <1>0 DEF RowsInv, LookUp, WebhookType
  <2>6. QED
    BY <2>1, <2>4, <2>5 DEF LookUp, RowsInv, First
<1>4. CASE \E p \in Passes : FanOut(p)
  <2>1. PICK p \in Passes : FanOut(p)
    BY <1>4
  <2>2. pc[p] = "fanOut" /\ First(p) \in Events
    BY <2>1, <1>0, FirstIsEvent DEF FanOut, WebhookInv
  <2>3. \A id \in Ids : status'[id] = status[id] \/ status[id] = "NONE"
    <3>1. SUFFICES ASSUME NEW id \in Ids, status'[id] # status[id] PROVE status[id] = "NONE"
      OBVIOUS
    <3>2. id[1] = First(p) /\ id[2] \in missing[p] /\ id[3] = p
      BY <2>1, <3>1 DEF FanOut, First
    <3>3. id = <<First(p), id[2], p>>
      BY <3>2, SMTT(30) DEF Ids
    <3>4. \A ep \in missing[p], e \in Events : e = First(p) => status[<<e, ep, p>>] = "NONE"
      BY <2>2 DEF RowsInv
    <3>5. status[<<First(p), id[2], p>>] = "NONE"
      BY <2>2, <3>2, <3>4
    <3>6. QED
      BY <3>3, <3>5
  <2>4. \A id \in Ids : status'[id] # status[id] => id[3] = p /\ status'[id] = "PENDING"
    BY <2>1 DEF FanOut
  <2>5. \A id \in Ids : status'[id] \notin Final => attempts[id] \in 0..(MaxAttempts - 1)
    BY <2>3 DEF RowsInv, Final
  <2>6. \A q \in Passes : \A d \in batch[q] \cup current[q] : status'[d[1]] # "NONE"
    BY <2>3, <1>c DEF RowsInv
  <2>7. \A q \in Passes : pc'[q] # "fanOut" => missing'[q] = {}
    BY <2>1, <1>0 DEF FanOut, RowsInv, WebhookType
  <2>8. ASSUME NEW q \in Passes, pc'[q] = "fanOut", NEW ep \in missing'[q], NEW e \in Events,
               e = First(q)
        PROVE  status'[<<e, ep, q>>] = "NONE"
    <3>1. q # p /\ pc[q] = "fanOut" /\ ep \in missing[q]
      BY <2>1, <2>8, <1>0 DEF FanOut, WebhookType
    <3>2. status[<<e, ep, q>>] = "NONE"
      BY <3>1, <2>8 DEF RowsInv
    <3>3. <<e, ep, q>> \in Ids /\ <<e, ep, q>>[3] = q
      BY <3>1, <1>0, SMTT(30) DEF Ids, WebhookType
    <3>4. QED
      BY <3>1, <3>2, <3>3, <2>4
  <2>9. QED
    BY <2>1, <2>5, <2>6, <2>7, <2>8 DEF FanOut, RowsInv, First
<1>5. CASE \E p \in Passes : Publish(p)
  <2>1. PICK p \in Passes : Publish(p)
    BY <1>5
  <2>2. missing[p] = {} /\ \A q \in Passes : q # p => pc'[q] = pc[q] /\ queue'[q] = queue[q]
    BY <2>1, <1>0 DEF Publish, RowsInv, WebhookType
  <2>3. UNCHANGED <<status, attempts, batch, current, missing>>
    BY <2>1 DEF Publish
  <2>4. QED
    BY <2>2, <2>3, EmptyMissing
<1>6. CASE \E p \in Passes : ScanDue(p)
  <2>1. PICK p \in Passes : ScanDue(p)
    BY <1>6
  <2>2. PICK S \in SUBSET Due(now[p]) :
          /\ batch' = [batch EXCEPT ![p] = {<<id, attempts[id]>> : id \in S}]
          /\ Continue(p, S)
    BY <2>1 DEF ScanDue
  <2>3. \A id \in S : id \in Ids /\ status[id] = "PENDING"
    BY DEF Due
  <2>4. \A id \in S : attempts[id] \in 0..(MaxAttempts - 1)
    BY <2>3 DEF RowsInv, Final
  <2>5. {<<id, attempts[id]>> : id \in S} \subseteq Seen
    BY <2>3, <2>4, SMTT(30) DEF Seen
  <2>6. batch' \in [Passes -> SUBSET Seen]
    BY <2>2, <2>5 DEF RowsInv
  <2>7. \A d \in {<<id, attempts[id]>> : id \in S} : status[d[1]] # "NONE"
    BY <2>3, SMTT(30)
  <2>8. \A q \in Passes : \A d \in batch'[q] \cup current[q] : status[d[1]] # "NONE"
    BY <2>2, <2>7, <1>0 DEF RowsInv, WebhookType
  <2>9. \A q \in Passes : pc'[q] = pc[q] \/ (pc'[q] # "fanOut" /\ pc[q] # "fanOut")
    BY <2>1, <2>2, <1>0 DEF ScanDue, WebhookType
  <2>10. QED
    BY <2>1, <2>6, <2>8, <2>9 DEF ScanDue, RowsInv, First
<1>7. CASE \E p \in Passes : Reserve(p)
  <2>1. PICK p \in Passes : Reserve(p)
    BY <1>7
  <2>2. PICK d \in batch[p] :
          /\ pc' = [pc EXCEPT ![p] = "post"] \/ pc' = [pc EXCEPT ![p] = "defer"]
          /\ current' = [current EXCEPT ![p] = {d}]
          /\ batch' = [batch EXCEPT ![p] = @ \ {d}]
    BY <2>1 DEF Reserve
  <2>3. batch' \in [Passes -> SUBSET Seen] /\ current' \in [Passes -> SUBSET Seen]
    BY <2>2 DEF RowsInv
  <2>4. \A q \in Passes : \A x \in batch'[q] \cup current'[q] : status[x[1]] # "NONE"
    BY <2>2, <1>0 DEF RowsInv, WebhookType
  <2>5. \A q \in Passes : pc'[q] = pc[q] \/ (pc'[q] # "fanOut" /\ pc[q] # "fanOut")
    BY <2>1, <2>2, <1>0 DEF Reserve, WebhookType
  <2>6. UNCHANGED <<status, attempts, missing, queue>>
    BY <2>1 DEF Reserve
  <2>7. QED
    BY <2>3, <2>4, <2>5, <2>6 DEF RowsInv, First
<1>8. CASE \E p \in Passes : Defer(p) \/ Post(p)
  <2>1. PICK p \in Passes : Defer(p) \/ Post(p)
    BY <1>8
  <2>2. /\ current' \in [Passes -> SUBSET Seen]
        /\ \A q \in Passes : current'[q] \subseteq current[q]
    BY <2>1, <1>0 DEF Defer, Post, RowsInv, WebhookType
  <2>3. \A q \in Passes : pc'[q] = pc[q] \/ (pc'[q] # "fanOut" /\ pc[q] # "fanOut")
    BY <2>1, <1>0 DEF Defer, Post, WebhookType
  <2>4. UNCHANGED <<status, attempts, batch, missing, queue>>
    BY <2>1 DEF Defer, Post
  <2>5. QED
    BY <2>2, <2>3, <2>4 DEF RowsInv, First
<1>9. CASE \E p \in Passes : Record(p)
  <2>1. PICK p \in Passes : Record(p)
    BY <1>9
  <2>2. PICK d \in current[p] :
          /\ status' = [status EXCEPT ![d[1]] = StatusAfter(outcome[p], d[2] + 1)]
          /\ attempts' = [attempts EXCEPT ![d[1]] = d[2] + 1]
    BY <2>1 DEF Record, attemptNumberOf
  <2>3. d[1] \in Ids /\ d[2] + 1 \in 0..MaxAttempts /\ status[d[1]] # "NONE"
    BY <1>c, WebhookAssumption, SMTT(30) DEF RowsInv
  <2>4. /\ StatusAfter(outcome[p], d[2] + 1) # "NONE"
        /\ StatusAfter(outcome[p], d[2] + 1) \notin Final => d[2] + 1 \in 0..(MaxAttempts - 1)
    <3>1. StatusAfter(outcome[p], d[2] + 1) \notin Final => ~(d[2] + 1 >= MaxAttempts)
      BY DEF StatusAfter, Final
    <3>2. ~(d[2] + 1 >= MaxAttempts) => d[2] + 1 \in 0..(MaxAttempts - 1)
      BY <2>3, WebhookAssumption, SMTT(30)
    <3>3. StatusAfter(outcome[p], d[2] + 1) # "NONE"
      BY DEF StatusAfter
    <3>4. QED
      BY <3>1, <3>2, <3>3
  <2>5. attempts' \in [Ids -> 0..MaxAttempts]
    BY <2>2, <2>3 DEF RowsInv
  <2>6. \A id \in Ids : status'[id] \notin Final => attempts'[id] \in 0..(MaxAttempts - 1)
    BY <2>2, <2>4, <1>0 DEF RowsInv, WebhookType
  <2>7. \A id \in Ids : status'[id] = "NONE" <=> status[id] = "NONE"
    BY <2>2, <2>3, <2>4, <1>0 DEF WebhookType
  <2>8. /\ current' \in [Passes -> SUBSET Seen]
        /\ \A q \in Passes : current'[q] \subseteq current[q]
    BY <2>1, <1>0 DEF Record, RowsInv, WebhookType
  <2>9. \A q \in Passes : \A x \in batch[q] \cup current'[q] : status'[x[1]] # "NONE"
    BY <2>7, <2>8, <1>c DEF RowsInv
  <2>10. \A q \in Passes : pc'[q] = pc[q] \/ (pc'[q] # "fanOut" /\ pc[q] # "fanOut")
    BY <2>1, <1>0 DEF Record, WebhookType
  <2>11. \A q \in Passes, e \in Events : \A ep \in missing[q] : <<e, ep, q>> \in Ids
    BY <1>0, SMTT(30) DEF Ids, WebhookType
  <2>12. \A q \in Passes : pc'[q] = "fanOut" =>
           \A ep \in missing[q], e \in Events : e = First(q) => status'[<<e, ep, q>>] = "NONE"
    BY <2>7, <2>10, <2>11 DEF RowsInv
  <2>13. UNCHANGED <<batch, missing, queue>>
    BY <2>1 DEF Record
  <2>14. \A q \in Passes : pc'[q] # "fanOut" => missing[q] = {}
    BY <2>10 DEF RowsInv
  <2>15. QED
    BY <2>5, <2>6, <2>8, <2>9, <2>12, <2>13, <2>14 DEF RowsInv, First
<1>10. CASE \E p \in Passes : Abort(p)
  <2>1. PICK p \in Passes : Abort(p)
    BY <1>10
  <2>2. UNCHANGED <<status, attempts>>
    BY <2>1 DEF Abort
  <2>3. /\ batch' = [batch EXCEPT ![p] = {}] /\ current' = [current EXCEPT ![p] = {}]
        /\ missing' = [missing EXCEPT ![p] = {}] /\ queue' = [queue EXCEPT ![p] = {}]
        /\ pc' = [pc EXCEPT ![p] = "idle"]
    BY <2>1 DEF Abort
  <2>4. batch' \in [Passes -> SUBSET Seen] /\ current' \in [Passes -> SUBSET Seen]
    BY <2>3 DEF RowsInv
  <2>5. \A q \in Passes : \A d \in batch'[q] \cup current'[q] : status[d[1]] # "NONE"
    BY <2>3, <1>0 DEF RowsInv, WebhookType
  <2>6. /\ pc'[p] = "idle" /\ missing'[p] = {}
        /\ \A q \in Passes : q # p =>
             pc'[q] = pc[q] /\ missing'[q] = missing[q] /\ queue'[q] = queue[q]
    BY <2>3, <1>0 DEF WebhookType
  <2>7. \A q \in Passes : pc'[q] # "fanOut" => missing'[q] = {}
    BY <2>6 DEF RowsInv
  <2>8. \A q \in Passes : pc'[q] = "fanOut" =>
          \A ep \in missing'[q], e \in Events : e = First(q)' => status[<<e, ep, q>>] = "NONE"
    <3>1. SUFFICES ASSUME NEW q \in Passes, pc'[q] = "fanOut", NEW ep \in missing'[q],
                          NEW e \in Events, e = First(q)'
                   PROVE  status[<<e, ep, q>>] = "NONE"
      OBVIOUS
    <3>2. pc[q] = "fanOut" /\ ep \in missing[q] /\ e = First(q)
      BY <2>6, <3>1 DEF First
    <3>3. QED
      BY <3>1, <3>2 DEF RowsInv
  <2>9. QED
    BY <2>2, <2>4, <2>5, <2>7, <2>8 DEF RowsInv
<1>11. CASE \/ Commit \/ Tick \/ UNCHANGED vars
            \/ \E ep \in Endpoints : Create(ep) \/ Update(ep) \/ Disable(ep)
  <2>1. UNCHANGED <<status, attempts, batch, current, missing, queue, pc>>
    BY <1>11 DEF Commit, Tick, Create, Update, Disable, vars
  <2>2. QED
    BY <2>1 DEF RowsInv, First
<1>12. QED
  BY <1>1, <1>2, <1>3, <1>4, <1>5, <1>6, <1>7, <1>8, <1>9, <1>10, <1>11 DEF Next, Step

(* However many passes of dispatchPendingEvents overlap, throw or die and   *)
(* overwrite each other's rows: a published event has a row for every       *)
(* endpoint subscribed since before it, a delivery is given up only after   *)
(* MAX_ATTEMPTS real attempts and shown as succeeded only after an          *)
(* acknowledgement, a decided one has no next attempt, and no row counts    *)
(* more than MAX_ATTEMPTS.                                                  *)
THEOREM DeliveriesAlwaysHonest == Spec => []DeliveriesAreHonest
<1> DEFINE Inv == WebhookInv /\ CountersType /\ RowsInv
<1>1. Init => Inv
  <2> SUFFICES ASSUME Init PROVE Inv
    OBVIOUS
  <2>1. WebhookInv
    BY WebhookStarts, WebhookAssumption DEF WebhookConstants
  <2>2. CountersType
    BY WebhookAssumption, SMTT(30) DEF Init, CountersType, NoWindow
  <2>3. RowsInv
    BY WebhookAssumption, SMTT(30) DEF Init, RowsInv
  <2>4. QED
    BY <2>1, <2>2, <2>3
<1>2. Inv /\ [Next]_vars => Inv'
  <2>1. WebhookConstants
    BY WebhookAssumption DEF WebhookConstants
  <2>2. QED
    BY <2>1, WebhookStep, CountersKept, RowsKept
<1>3. Inv => DeliveriesAreHonest
  <2> SUFFICES ASSUME Inv PROVE DeliveriesAreHonest
    OBVIOUS
  <2>1. TypeOK
    BY DEF WebhookInv, WebhookType, CountersType, RowsInv, Labels, Seen, TypeOK
  <2>2. QED
    BY <2>1 DEF WebhookInv, FanOutInv, AttemptsInv, DeliveriesAreHonest
<1>4. QED
  BY <1>1, <1>2, <1>3, PTL DEF Spec

-----------------------------------------------------------------------------
(***************************************************************************)
(* TenantIsolation.                                                        *)
(***************************************************************************)

(* The chain keeps its promise migration by migration: a table that carries *)
(* a tenantId is protected by the migration that creates it, unless it is   *)
(* one of the tables read before the tenant is known.                       *)
Covers(m) == m.creates \subseteq m.secures \cup KNOWN_AUTH_BOOTSTRAP_TABLES

LEMMA SecuringMigrations ==
  /\ Covers(WebhookTenantIsolation) /\ Covers(AppRuntimeRole)
  /\ Covers(CaseCoreTenantIsolation) /\ Covers(ConsentRecords)
  /\ Covers(CaseConditionsAgentTenantIsolation) /\ Covers(EvaluationManifestTenantIsolation)
  /\ Covers(PolicyChangeImpactAssessmentTenantIsolation)
  /\ Covers(CommunicationTenantIsolation) /\ Covers(CasePolicyTenantIsolation)
  /\ Covers(ProviderPlatformTenantIsolation) /\ Covers(DataDispositionTasks)
  /\ Covers(CommunicationApprovalTenantIsolation)
BY DEF Covers, Migration, WebhookTenantIsolation, AppRuntimeRole, CaseCoreTenantIsolation,
       ConsentRecords, CaseConditionsAgentTenantIsolation, EvaluationManifestTenantIsolation,
       PolicyChangeImpactAssessmentTenantIsolation, CommunicationTenantIsolation,
       CasePolicyTenantIsolation, ProviderPlatformTenantIsolation, DataDispositionTasks,
       CommunicationApprovalTenantIsolation

LEMMA CreatingMigrations ==
  /\ Covers(AuditEvents) /\ Covers(LegalHolds) /\ Covers(UsersAndTenantMemberships)
  /\ Covers(AgentBudgetLedgers) /\ Covers(TenantAgentAggregateBudget)
  /\ Covers(PurposeBoundProviderAuthority) /\ Covers(GovernedAgentPlanner)
  /\ Covers(DocumentVaultMetadata) /\ Covers(GuestSandboxSessions)
BY DEF Covers, Migration, AuditEvents, LegalHolds, UsersAndTenantMemberships,
       AgentBudgetLedgers, TenantAgentAggregateBudget, PurposeBoundProviderAuthority,
       GovernedAgentPlanner, DocumentVaultMetadata, GuestSandboxSessions,
       KNOWN_AUTH_BOOTSTRAP_TABLES

LEMMA ChainCovers ==
  /\ Len(Chain) \in Nat
  /\ DOMAIN Chain = 1..Len(Chain)
  /\ \A i \in DOMAIN Chain : Covers(Chain[i])
<1>1. Len(Chain) = 21 /\ DOMAIN Chain = 1..21
  BY SMTT(30) DEF Chain
<1>2. ASSUME NEW i \in 1..21 PROVE Covers(Chain[i])
  BY SecuringMigrations, CreatingMigrations, SMTT(30) DEF Chain
<1>3. QED
  BY <1>1, <1>2, SMTT(30)

(* What a connection may hold: a transaction runs under its own setting,   *)
(* and outside of one nothing is left of an earlier setting but ''.        *)
ConnectionOK(k) ==
  /\ k \in [tx : RowTenants \cup {"none", "bypass"}, tenant : RowTenants \cup {"unset", "empty"},
            bypass : {"unset", "empty", "true"}]
  /\ k.tx \in RowTenants => k.tenant = k.tx
  /\ k.tx \notin RowTenants => k.tenant \in {"unset", "empty"}
  /\ k.tx # "bypass" => k.bypass # "true"

IsolationInv ==
  /\ IsolationTypeOK
  /\ \A c \in Connections : ConnectionOK(conns[c])
  /\ up /\ environment \in Deployments => findTenantIsolationRlsGaps = {}
  /\ OwnRowsOnly
  /\ FailsClosedQuietly

-----------------------------------------------------------------------------
LEMMA FreshIsOK == ConnectionOK(FreshConnection)
BY TenantAssumption DEF ConnectionOK, FreshConnection

LEMMA MigrationStep ==
  ASSUME IsolationInv, NEW n \in DOMAIN Chain, RunMigrations(n)
  PROVE  IsolationInv'
<1>1. applied \in 0..Len(Chain) /\ n \in 1..Len(Chain) /\ n > applied /\ Len(Chain) \in Nat
  BY ChainCovers DEF IsolationInv, IsolationTypeOK, RunMigrations
<1>2. UNCHANGED <<environment, synchronized, up, conns, lastRead>> /\ applied' = n
  BY DEF RunMigrations
<1>3. Secured \subseteq Secured'
  BY <1>1, <1>2, SMTT(30) DEF Secured
<1>4. ASSUME NEW t \in CreatedBy(n) PROVE t \in Secured' \cup KNOWN_AUTH_BOOTSTRAP_TABLES
  <2>1. PICK i \in 1..n : t \in Chain[i].creates
    BY DEF CreatedBy
  <2>2. i \in DOMAIN Chain
    BY <1>1, ChainCovers, SMTT(30)
  <2>3. QED
    BY <1>2, <2>1, <2>2, ChainCovers, SMTT(30) DEF Covers, Secured
<1>5. ASSUME up, environment \in Deployments PROVE (findTenantIsolationRlsGaps = {})'
  <2>1. TenantTables \subseteq Secured \cup KNOWN_AUTH_BOOTSTRAP_TABLES
    BY <1>5 DEF IsolationInv, findTenantIsolationRlsGaps
  <2>2. TenantTables' \subseteq TenantTables \cup CreatedBy(n)
    BY <1>2 DEF TenantTables
  <2>3. TenantTables' \subseteq Secured' \cup KNOWN_AUTH_BOOTSTRAP_TABLES
    BY <1>3, <1>4, <2>1, <2>2
  <2>4. QED
    BY <2>3 DEF findTenantIsolationRlsGaps
<1>6. IsolationTypeOK'
  BY <1>1, <1>2, SMTT(30) DEF IsolationInv, IsolationTypeOK
<1>7. QED
  BY <1>2, <1>5, <1>6 DEF IsolationInv, OwnRowsOnly, FailsClosedQuietly

(* A step that changes connections only.                                    *)
LEMMA ConnectionStep ==
  ASSUME IsolationInv, NEW c \in Connections, NEW k, ConnectionOK(k),
         conns' = [conns EXCEPT ![c] = k],
         UNCHANGED <<environment, applied, synchronized, up, lastRead>>
  PROVE  IsolationInv'
<1>1. conns \in [Connections -> [tx : RowTenants \cup {"none", "bypass"},
                                 tenant : RowTenants \cup {"unset", "empty"},
                                 bypass : {"unset", "empty", "true"}]]
  BY DEF IsolationInv, IsolationTypeOK
<1>2. IsolationTypeOK'
  BY <1>1 DEF IsolationInv, IsolationTypeOK, ConnectionOK
<1>3. \A d \in Connections : ConnectionOK(conns'[d])
  BY <1>1 DEF IsolationInv
<1>4. findTenantIsolationRlsGaps' = findTenantIsolationRlsGaps
  BY DEF findTenantIsolationRlsGaps, TenantTables, Secured
<1>5. QED
  BY <1>2, <1>3, <1>4 DEF IsolationInv, OwnRowsOnly, FailsClosedQuietly

LEMMA TransactionStep ==
  ASSUME IsolationInv, NEW c \in Connections,
         \/ \E t \in RowTenants : runInTenantContext(c, t)
         \/ runWithRlsBypass(c)
         \/ EndTransaction(c)
  PROVE  IsolationInv'
<1> DEFINE old == conns[c]
<1>1. ConnectionOK(old) /\ conns = [d \in Connections |-> conns[d]]
  BY DEF IsolationInv, IsolationTypeOK
<1>2. UNCHANGED <<environment, applied, synchronized, up, lastRead>>
  BY DEF runInTenantContext, runWithRlsBypass, EndTransaction
<1>3. ASSUME NEW t \in RowTenants, runInTenantContext(c, t) PROVE IsolationInv'
  <2>1. conns' = [conns EXCEPT ![c] = [old EXCEPT !.tx = t, !.tenant = t]]
    BY <1>1, <1>3 DEF runInTenantContext
  <2>2. old.tx = "none"
    BY <1>3 DEF runInTenantContext, Idle
  <2> HIDE DEF old
  <2>3. ConnectionOK([old EXCEPT !.tx = t, !.tenant = t])
    BY <1>1, <2>2, TenantAssumption DEF ConnectionOK
  <2>4. QED
    BY <1>2, <2>1, <2>3, ConnectionStep
<1>4. CASE runWithRlsBypass(c)
  <2>1. conns' = [conns EXCEPT ![c] = [old EXCEPT !.tx = "bypass", !.bypass = "true"]]
    BY <1>1, <1>4 DEF runWithRlsBypass
  <2>2. old.tx = "none"
    BY <1>4 DEF runWithRlsBypass, Idle
  <2> HIDE DEF old
  <2>3. ConnectionOK([old EXCEPT !.tx = "bypass", !.bypass = "true"])
    BY <1>1, <2>2, TenantAssumption DEF ConnectionOK
  <2>4. QED
    BY <1>2, <2>1, <2>3, ConnectionStep
<1>5. CASE EndTransaction(c)
  <2> DEFINE k == [tx |-> "none", tenant |-> AfterTransaction(old.tenant),
                   bypass |-> AfterTransaction(old.bypass)]
  <2>1. conns' = [conns EXCEPT ![c] = k]
    BY <1>5 DEF EndTransaction
  <2>2. ConnectionOK(k)
    BY TenantAssumption DEF ConnectionOK, AfterTransaction
  <2> HIDE DEF k
  <2>3. QED
    BY <1>2, <2>1, <2>2, ConnectionStep
<1>6. QED
  BY <1>3, <1>4, <1>5

LEMMA StatementStep ==
  ASSUME IsolationInv, NEW c \in Connections, NEW table \in ExistingTables, Statement(c, table)
  PROVE  IsolationInv'
<1> DEFINE k == conns[c]
           scoped == table \in TenantTables \ KNOWN_AUTH_BOOTSTRAP_TABLES
           raised == /\ ~ConnectsAsOwner
                     /\ table \in Secured
                     /\ conns[c].bypass # "true"
                     /\ NullIfEmpty(conns[c].tenant) = "empty"
<1>1. ConnectionOK(k) /\ up
  BY DEF IsolationInv, Statement
<1>2. lastRead' = [context |-> k.tx, scoped |-> scoped, saw |-> Visible(c, table),
                   raised |-> raised]
  BY DEF Statement
<1>3. ~raised
  BY DEF NullIfEmpty
<1>4. scoped \in BOOLEAN /\ raised \in BOOLEAN
  <2>1. scoped \in BOOLEAN
    BY SMTT(30)
  <2>2. raised \in BOOLEAN
    OBVIOUS
  <2>3. QED
    BY <2>1, <2>2
<1>5. Visible(c, table) \subseteq RowTenants
  BY DEF Visible, Admitted, TenantsNamed
<1>6. ASSUME environment \in Deployments, scoped, k.tx # "bypass"
      PROVE  Visible(c, table) \subseteq {k.tx}
  <2>1. table \in Secured
    BY <1>1, <1>6 DEF IsolationInv, findTenantIsolationRlsGaps
  <2>2. Visible(c, table) = TenantsNamed(k.tenant)
    BY <1>1, <1>6, <2>1 DEF Visible, Admitted, ConnectsAsOwner, ConnectionOK
  <2>3. TenantsNamed(k.tenant) \subseteq {k.tx}
    BY <1>1, TenantAssumption DEF ConnectionOK, TenantsNamed, NullIfEmpty
  <2>4. QED
    BY <2>2, <2>3
<1>7. k.tx \in RowTenants \cup {"none", "bypass"}
  BY <1>1 DEF ConnectionOK
<1>8. UNCHANGED <<environment, applied, synchronized, up, conns>>
  BY DEF Statement
<1> HIDE DEF scoped, raised, k
<1>9. /\ lastRead' \in [context : RowTenants \cup {"none", "bypass"}, scoped : BOOLEAN,
                        saw : SUBSET RowTenants, raised : BOOLEAN]
      /\ lastRead'.context = k.tx /\ lastRead'.scoped = scoped
      /\ lastRead'.saw = Visible(c, table) /\ lastRead'.raised = raised
  BY <1>2, <1>4, <1>5, <1>7
<1>10. IsolationTypeOK'
  BY <1>8, <1>9 DEF IsolationInv, IsolationTypeOK
<1>11. OwnRowsOnly' /\ FailsClosedQuietly'
  BY <1>3, <1>6, <1>8, <1>9 DEF OwnRowsOnly, FailsClosedQuietly
<1>12. findTenantIsolationRlsGaps' = findTenantIsolationRlsGaps
  BY <1>8 DEF findTenantIsolationRlsGaps, TenantTables, Secured
<1>13. QED
  BY <1>8, <1>10, <1>11, <1>12 DEF IsolationInv

(* The process starts over a schema without a gap, or stops.                *)
LEMMA ProcessStep ==
  ASSUME IsolationInv, StartProcess \/ StopProcess
  PROVE  IsolationInv'
<1>1. /\ conns' = [c \in Connections |-> FreshConnection]
      /\ UNCHANGED <<environment, applied, synchronized, lastRead>>
      /\ up' \in BOOLEAN
      /\ up' => (environment \in Deployments => findTenantIsolationRlsGaps = {})
  BY DEF StartProcess, StopProcess, MayServe
<1>2. \A c \in Connections : ConnectionOK(conns'[c])
  BY <1>1, FreshIsOK
<1>3. IsolationTypeOK'
  BY <1>1, FreshIsOK DEF IsolationInv, IsolationTypeOK, ConnectionOK
<1>4. findTenantIsolationRlsGaps' = findTenantIsolationRlsGaps
  BY <1>1 DEF findTenantIsolationRlsGaps, TenantTables, Secured
<1>5. QED
  BY <1>1, <1>2, <1>3, <1>4 DEF IsolationInv, OwnRowsOnly, FailsClosedQuietly

(* IsolationInv holds throughout.                                           *)
THEOREM IsolationInvariant == IsolationSpec => []IsolationInv
<1>1. IsolationInit => IsolationInv
  <2> SUFFICES ASSUME IsolationInit PROVE IsolationInv
    OBVIOUS
  <2>1. \A c \in Connections : ConnectionOK(conns[c])
    BY FreshIsOK DEF IsolationInit
  <2>2. IsolationTypeOK
    BY FreshIsOK DEF IsolationInit, IsolationTypeOK, ConnectionOK, NoRead
  <2>3. QED
    BY <2>1, <2>2 DEF IsolationInit, IsolationInv, OwnRowsOnly, FailsClosedQuietly, NoRead
<1>2. IsolationInv /\ [IsolationNext]_isolationVars => IsolationInv'
  <2> SUFFICES ASSUME IsolationInv, [IsolationNext]_isolationVars PROVE IsolationInv'
    OBVIOUS
  <2>1. CASE UNCHANGED isolationVars
    BY <2>1 DEF isolationVars, IsolationInv, IsolationTypeOK, OwnRowsOnly, FailsClosedQuietly,
                findTenantIsolationRlsGaps, TenantTables, Secured
  <2>2. QED
    BY <2>1, ProcessStep, MigrationStep, TransactionStep, StatementStep DEF IsolationNext
<1>3. QED
  BY <1>1, <1>2, PTL DEF IsolationSpec

(* Pooled connections keep tenants apart: whatever a connection served      *)
(* before and however far the schema was migrated, before or under a        *)
(* running process, a statement in a deployment sees its own tenant's rows  *)
(* only, and one outside both helpers sees none and does not fail           *)
(* (tenant-context.ts, main.ts and the isolation migrations).               *)
THEOREM TenantsStayApart == IsolationSpec => []IsolationHolds
<1>1. IsolationInv => IsolationHolds
  BY DEF IsolationInv, IsolationHolds
<1>2. QED
  BY <1>1, IsolationInvariant, PTL

-----------------------------------------------------------------------------
(***************************************************************************)
(* ApiClients.                                                             *)
(***************************************************************************)

(* A script that has read the row is about to save a row that was created;  *)
(* and a row is revoked only after it was created.                          *)
SavingRow == [op: {"rotate", "revoke"}, row: {r \in ClientRow : r.secret > 0}]
ClientsInv ==
  /\ ClientsTypeOK
  /\ script \in [Scripts -> {NoScript} \cup SavingRow]
  /\ client.status = "REVOKED" => client.secret > 0

LEMMA SavingIsNoRest == \A s \in SavingRow : s # NoScript
BY SMTT(30) DEF SavingRow, NoScript

LEMMA ClientsStart == ClientsInit => ClientsInv
BY ClientsAssumption, SMTT(30) DEF ClientsInit, ClientsInv, ClientsTypeOK, ClientRow, NoScript

LEMMA ClientsKept == ClientsInv /\ [ClientsNext]_clientVars => ClientsInv'
<1> SUFFICES ASSUME ClientsInv, [ClientsNext]_clientVars PROVE ClientsInv'
  OBVIOUS
<1>1. ASSUME NEW role \in {"PARTNER", "REVIEWER"}, CreateClient(role) PROVE ClientsInv'
  BY <1>1, ClientsAssumption, SMTT(30) DEF ClientsInv, ClientsTypeOK, ClientRow, CreateClient
<1>2. ASSUME NEW x \in Scripts, ReadForRotate(x) PROVE ClientsInv'
  <2>1. [client EXCEPT !.secret = secrets + 1] \in {r \in ClientRow : r.secret > 0}
    BY SMTT(30) DEF ClientsInv, ClientsTypeOK, ClientRow
  <2>2. [op |-> "rotate", row |-> [client EXCEPT !.secret = secrets + 1]] \in SavingRow
    BY <2>1 DEF SavingRow
  <2>3. script' \in [Scripts -> {NoScript} \cup SavingRow]
    BY <1>2, <2>2 DEF ClientsInv, ReadForRotate
  <2>4. secrets' \in 0..MaxSecrets
    BY <1>2, ClientsAssumption, SMTT(30) DEF ClientsInv, ClientsTypeOK, ReadForRotate
  <2> QED
    BY <1>2, <2>3, <2>4 DEF ClientsInv, ClientsTypeOK, ReadForRotate
<1>3. ASSUME NEW x \in Scripts, ReadForRevoke(x) PROVE ClientsInv'
  <2>1. [client EXCEPT !.status = "REVOKED"] \in {r \in ClientRow : r.secret > 0}
    BY <1>3 DEF ClientsInv, ClientsTypeOK, ClientRow, ReadForRevoke
  <2>2. [op |-> "revoke", row |-> [client EXCEPT !.status = "REVOKED"]] \in SavingRow
    BY <2>1 DEF SavingRow
  <2>3. script' \in [Scripts -> {NoScript} \cup SavingRow]
    BY <1>3, <2>2 DEF ClientsInv, ReadForRevoke
  <2> QED
    BY <1>3, <2>3 DEF ClientsInv, ClientsTypeOK, ReadForRevoke
<1>4. ASSUME NEW x \in Scripts, SaveClient(x) PROVE ClientsInv'
  <2>1. script[x] \in SavingRow
    BY <1>4 DEF ClientsInv, SaveClient
  <2>2. client' \in ClientRow /\ client'.secret > 0
    BY <1>4, <2>1 DEF SavingRow, SaveClient
  <2>3. script' \in [Scripts -> {NoScript} \cup SavingRow]
    BY <1>4 DEF ClientsInv, SaveClient
  <2> QED
    BY <1>4, <2>2, <2>3 DEF ClientsInv, ClientsTypeOK, SaveClient
<1>5. CASE UNCHANGED clientVars
  BY <1>5 DEF ClientsInv, ClientsTypeOK, clientVars
<1> QED
  BY <1>1, <1>2, <1>3, <1>4, <1>5 DEF ClientsNext

(* A revoked client that no script works on stays as it is: the only steps  *)
(* would be a creation, which needs a row without a secret, a rotation,     *)
(* which needs an ACTIVE one, a revocation, which saves nothing, and the    *)
(* save of a script that has read the row.                                  *)
LEMMA RevocationStep ==
  ClientsInv /\ [ClientsNext]_clientVars => RevocationHolds
<1> SUFFICES ASSUME ClientsInv, [ClientsNext]_clientVars,
                    client.status = "REVOKED", \A x \in Scripts : script[x] = NoScript
             PROVE  \A x \in Scripts : /\ script'[x] = NoScript
                                       /\ \A secret \in 1..secrets : ~KeyAccepted(secret)'
  BY DEF RevocationHolds
<1>1. UNCHANGED clientVars
  <2>1. ASSUME NEW role \in {"PARTNER", "REVIEWER"}, CreateClient(role) PROVE FALSE
    BY <2>1, SMTT(30) DEF ClientsInv, ClientsTypeOK, ClientRow, CreateClient
  <2>2. ASSUME NEW x \in Scripts, ReadForRotate(x) PROVE FALSE
    BY <2>2 DEF ReadForRotate, Rotatable
  <2>3. ASSUME NEW x \in Scripts, ReadForRevoke(x) PROVE FALSE
    BY <2>3 DEF ReadForRevoke
  <2>4. ASSUME NEW x \in Scripts, SaveClient(x) PROVE FALSE
    BY <2>4 DEF SaveClient
  <2> QED
    BY <2>1, <2>2, <2>3, <2>4 DEF ClientsNext
<1> QED
  BY <1>1 DEF clientVars, KeyAccepted

(* Every variable of the API clients keeps its type (manage-api-client.ts). *)
THEOREM ClientsTypeCorrect == ClientsSpec => []ClientsTypeOK
<1>1. ClientsInv => ClientsTypeOK
  BY DEF ClientsInv
<1> QED
  BY <1>1, ClientsStart, ClientsKept, PTL DEF ClientsSpec

(* Once no script runs, a revoked API client stays revoked, however many    *)
(* scripts ran before and however they overlapped (manage-api-client.ts).   *)
THEOREM RevocationAlwaysHolds == ClientsSpec => QuietRevocationHolds
BY ClientsStart, ClientsKept, RevocationStep, PTL DEF ClientsSpec, QuietRevocationHolds

-----------------------------------------------------------------------------
(***************************************************************************)
(* IdentitySessions.                                                       *)
(***************************************************************************)

(* A row whose end is within the cap, in the table or in a request's hands. *)
CappedRow == {row \in SessionRow : row.expiresAt <= row.login + SessionCap}
Cell == {NoRow} \cup CappedRow

CookieTypes == [state: Nat, session: Nat, csrf: Nat]
CallbackState ==
  {Resting} \cup [step: {"provider"}, state: Nat, subject: Subjects]
            \cup [step: {"session", "provision", "insert"}, subject: Subjects]
TabState ==
  {Resting} \cup [step: {"refresh", "user"}, handle: Nat, row: CappedRow,
                  changed: BOOLEAN, at: Nat]

(* The tables: a workspace is made for a subject that had no user row, and  *)
(* a membership is of a workspace or of the operator's tenant.              *)
AccountsInv ==
  /\ users \subseteq Subjects
  /\ workspaces \subseteq WorkspaceRow
  /\ memberships \subseteq MembershipRow
  /\ OneWorkspacePerSubject
  /\ \A w \in workspaces : w.subject \in users
  /\ \A m \in memberships : m.tenant = OperatorTenant \/ m.tenant \in workspaces

(* The sessions, and the rows that requests hold while they wait.           *)
SessionsInv ==
  /\ wallClock \in Nat /\ minted \in Nat
  /\ sessions \in Seq(Cell)
  /\ cookies \in CookieTypes /\ cookies.session <= Len(sessions)
  /\ callback \in [Callbacks -> CallbackState]
  /\ tab \in [Tabs -> TabState]
  /\ \A r \in Tabs : tab[r] # Resting => tab[r].handle \in 1..Len(sessions)

IdentityInv == AccountsInv /\ SessionsInv

LEMMA MinOfTwo ==
  ASSUME NEW a \in Nat, NEW b \in Nat
  PROVE  Min({a, b}) \in Nat /\ Min({a, b}) <= a /\ Min({a, b}) <= b
<1>1. \E x \in {a, b} : \A y \in {a, b} : x <= y
  <2>1. CASE a <= b
    BY <2>1, SMTT(30)
  <2>2. CASE b <= a
    BY <2>2, SMTT(30)
  <2> QED
    BY <2>1, <2>2, SMTT(30)
<1>2. Min({a, b}) \in {a, b} /\ \A y \in {a, b} : Min({a, b}) <= y
  BY <1>1 DEF Min
<1> QED
  BY <1>2

LEMMA IdentityStart == IdentityInit => IdentityInv
<1> SUFFICES ASSUME IdentityInit PROVE IdentityInv
  OBVIOUS
<1>1. AccountsInv
  BY DEF IdentityInit, AccountsInv, OneWorkspacePerSubject
<1>2. sessions \in Seq(Cell) /\ Len(sessions) = 0
  BY SMTT(30) DEF IdentityInit
<1>3. cookies \in CookieTypes /\ cookies.session = 0
  BY DEF IdentityInit, NoCookies, CookieTypes
<1>4. callback \in [Callbacks -> CallbackState] /\ tab \in [Tabs -> TabState]
  BY DEF IdentityInit, CallbackState, TabState
<1>5. \A r \in Tabs : tab[r] = Resting
  BY DEF IdentityInit
<1>6. SessionsInv
  BY <1>2, <1>3, <1>4, <1>5, SMTT(30) DEF IdentityInit, SessionsInv
<1> QED
  BY <1>1, <1>6 DEF IdentityInv

-----------------------------------------------------------------------------
(* The tables.                                                              *)

(* A commit of the provisioning transaction; no table had anything of the   *)
(* new workspace.                                                           *)
LEMMA ProvisionKeepsAccounts ==
  ASSUME AccountsInv, NEW l \in Callbacks, callback[l].subject \in Subjects,
         ProvisionCommit(l)
  PROVE  AccountsInv'
<1> DEFINE w == [subject |-> callback[l].subject, by |-> l]
           own == [tenant |-> w, subject |-> w.subject, role |-> "PARTNER"]
<1>1. CASE callback[l].subject \in users
  BY <1>1, SMTT(30) DEF ProvisionCommit, Provisioned, accountVars, AccountsInv, OneWorkspacePerSubject
<1>2. CASE callback[l].subject \notin users
  <2>1. /\ users' = users \cup {w.subject}
        /\ workspaces' = workspaces \cup {w}
        /\ memberships' = memberships \cup {own}
    BY <1>2 DEF ProvisionCommit, Provisioned, ProvisionedAlways
  <2>2. w \in WorkspaceRow /\ w.subject \in Subjects /\ w.subject \notin users
    BY <1>2 DEF WorkspaceRow
  <2>3. own \in MembershipRow /\ own.tenant = w
    BY <2>2 DEF MembershipRow, Roles
  <2>4. w \notin workspaces /\ \A v \in workspaces : v.subject # w.subject
    BY <2>2 DEF AccountsInv
  <2>5. w # OperatorTenant
    BY <2>2, IdentityAssumption
  <2>6. \A m \in memberships : m.tenant # w
    BY <2>4, <2>5 DEF AccountsInv
  <2>7. /\ users' \subseteq Subjects /\ workspaces' \subseteq WorkspaceRow
        /\ memberships' \subseteq MembershipRow
    BY <2>1, <2>2, <2>3 DEF AccountsInv
  <2>8. \A u, v \in workspaces' : u.subject = v.subject => u = v
    BY <2>1, <2>4 DEF AccountsInv, OneWorkspacePerSubject
  <2>9. ASSUME NEW v \in workspaces'
        PROVE  {m \in memberships' : m.tenant = v}
                 = {[tenant |-> v, subject |-> v.subject, role |-> "PARTNER"]}
    <3>1. CASE v = w
      BY <2>1, <2>3, <2>6, <3>1
    <3>2. CASE v # w
      <4>1. v \in workspaces
        BY <2>1, <3>2
      <4>2. {m \in memberships' : m.tenant = v} = {m \in memberships : m.tenant = v}
        BY <2>1, <2>3, <3>2
      <4> QED
        BY <4>1, <4>2 DEF AccountsInv, OneWorkspacePerSubject
    <3> QED
      BY <3>1, <3>2
  <2>10. OneWorkspacePerSubject'
    BY <2>8, <2>9 DEF OneWorkspacePerSubject
  <2>11. \A v \in workspaces' : v.subject \in users'
    BY <2>1 DEF AccountsInv
  <2>12. \A m \in memberships' : m.tenant = OperatorTenant \/ m.tenant \in workspaces'
    BY <2>1, <2>3 DEF AccountsInv
  <2> QED
    BY <2>7, <2>10, <2>11, <2>12 DEF AccountsInv
<1> QED
  BY <1>1, <1>2

(* The operator's script touches memberships of the operator's tenant only. *)
LEMMA OperatorKeepsAccounts ==
  ASSUME AccountsInv, NEW s \in Subjects, NEW extra \in SUBSET MembershipRow,
         \A m \in extra : m.tenant = OperatorTenant,
         memberships' = {m \in memberships : m.tenant # OperatorTenant \/ m.subject # s}
                          \cup extra,
         UNCHANGED <<users, workspaces>>
  PROVE  AccountsInv'
<1>1. \A w \in workspaces : w # OperatorTenant
  BY IdentityAssumption DEF AccountsInv
<1>2. ASSUME NEW w \in workspaces
      PROVE  {m \in memberships' : m.tenant = w} = {m \in memberships : m.tenant = w}
  BY <1>1
<1>3. OneWorkspacePerSubject'
  BY <1>2 DEF AccountsInv, OneWorkspacePerSubject
<1>4. memberships' \subseteq MembershipRow
  BY DEF AccountsInv
<1>5. \A m \in memberships' : m.tenant = OperatorTenant \/ m.tenant \in workspaces'
  BY DEF AccountsInv
<1> QED
  BY <1>3, <1>4, <1>5 DEF AccountsInv

LEMMA AccountsStay ==
  ASSUME AccountsInv, UNCHANGED accountVars
  PROVE  AccountsInv'
BY DEF AccountsInv, accountVars, OneWorkspacePerSubject

LEMMA CallbackSubject ==
  ASSUME SessionsInv, NEW l \in Callbacks, callback[l] # Resting
  PROVE  callback[l].subject \in Subjects
<1>1. callback[l] \in CallbackState
  BY DEF SessionsInv
<1> QED
  BY <1>1 DEF CallbackState

LEMMA AccountsKept == IdentityInv /\ [IdentityNext]_identityVars => AccountsInv'
<1> SUFFICES ASSUME AccountsInv, SessionsInv, [IdentityNext]_identityVars PROVE AccountsInv'
  BY DEF IdentityInv
<1>1. ASSUME NEW l \in Callbacks, ProvisionCommit(l) PROVE AccountsInv'
  <2>1. callback[l] # Resting
    BY <1>1, SMTT(30) DEF ProvisionCommit, Resting
  <2> QED
    BY <1>1, <2>1, CallbackSubject, ProvisionKeepsAccounts
<1>2. ASSUME NEW s \in Subjects, CreateUser(s) PROVE AccountsInv'
  BY <1>2 DEF CreateUser, AccountsInv, OneWorkspacePerSubject
<1>3. ASSUME NEW s \in Subjects, RevokeMembership(s) PROVE AccountsInv'
  <2>1. memberships' = {m \in memberships : m.tenant # OperatorTenant \/ m.subject # s} \cup {}
    BY <1>3 DEF RevokeMembership
  <2>2. {} \in SUBSET MembershipRow /\ \A m \in {} : m.tenant = OperatorTenant
    OBVIOUS
  <2>3. UNCHANGED <<users, workspaces>>
    BY <1>3 DEF RevokeMembership
  <2> QED
    BY <2>1, <2>2, <2>3, OperatorKeepsAccounts
<1>4. ASSUME NEW s \in Subjects, NEW role \in Roles, GrantMembership(s, role)
      PROVE  AccountsInv'
  <2> DEFINE row == [tenant |-> OperatorTenant, subject |-> s, role |-> role]
  <2>1. row \in MembershipRow /\ row.tenant = OperatorTenant
    BY DEF MembershipRow
  <2>2. {row} \in SUBSET MembershipRow /\ \A m \in {row} : m.tenant = OperatorTenant
    BY <2>1
  <2>3. memberships' = {m \in memberships : m.tenant # OperatorTenant \/ m.subject # s}
                         \cup {row}
    BY <1>4 DEF GrantMembership
  <2>4. UNCHANGED <<users, workspaces>>
    BY <1>4 DEF GrantMembership
  <2> QED
    BY <2>2, <2>3, <2>4, OperatorKeepsAccounts
<1>5. ASSUME NEW l \in Callbacks,
             \/ \E s \in Subjects : BeginLogin(l, s)
             \/ CompleteLogin(l) \/ ProvisionLookup(l)
             \/ \E life \in RefreshLives : OpenSession(l, life)
      PROVE  UNCHANGED accountVars
  BY <1>5 DEF BeginLogin, CompleteLogin, ProvisionLookup, OpenSession
<1>6. ASSUME NEW r \in Tabs,
             \/ BusinessRequest(r) \/ IdentityRequest(r) \/ GetSessionStatus(r)
             \/ RefreshRefused(r) \/ SaveSession(r)
             \/ \E life \in RefreshLives, rotates \in BOOLEAN : Refresh(r, life, rotates)
      PROVE  UNCHANGED accountVars
  BY <1>6 DEF BusinessRequest, IdentityRequest, GetSessionStatus, ReadSession,
              RefreshRefused, SaveSession, Refresh
<1>7. Logout \/ ClockTicks => UNCHANGED accountVars
  BY DEF Logout, ClockTicks
<1>8. UNCHANGED identityVars => UNCHANGED accountVars
  BY DEF identityVars, accountVars
<1> QED
  BY <1>1, <1>2, <1>3, <1>4, <1>5, <1>6, <1>7, <1>8, AccountsStay DEF IdentityNext

-----------------------------------------------------------------------------
(* The sessions.                                                            *)

LEMMA TabIsCapped ==
  ASSUME SessionsInv, NEW r \in Tabs, tab[r] # Resting
  PROVE  /\ tab[r] \in [step: {"refresh", "user"}, handle: Nat, row: CappedRow,
                        changed: BOOLEAN, at: Nat]
         /\ tab[r].handle \in 1..Len(sessions)
         /\ tab[r].row \in CappedRow
BY DEF SessionsInv, TabState

(* A row keeps its login, and its end does not move out.                    *)
LEMMA CappedStays ==
  ASSUME NEW row \in CappedRow, NEW other \in SessionRow, other.login = row.login,
         other.expiresAt <= row.expiresAt
  PROVE  other \in CappedRow
<1>1. row.expiresAt <= row.login + SessionCap
  BY DEF CappedRow
<1>2. /\ row.expiresAt \in Nat /\ row.login \in Nat
      /\ other.expiresAt \in Nat /\ other.login \in Nat
  BY DEF CappedRow, SessionRow
<1>3. other.expiresAt <= other.login + SessionCap
  BY <1>1, <1>2, IdentityAssumption, SMTT(30)
<1> QED
  BY <1>3 DEF CappedRow

LEMMA CellReplaced ==
  ASSUME SessionsInv, NEW h \in 1..Len(sessions), NEW cell \in Cell
  PROVE  /\ [sessions EXCEPT ![h] = cell] \in Seq(Cell)
         /\ Len([sessions EXCEPT ![h] = cell]) = Len(sessions)
BY SMTT(30) DEF SessionsInv

LEMMA ResponseKept ==
  ASSUME SessionsInv, NEW r \in Tabs, tab[r] # Resting, Respond(r)
  PROVE  /\ cookies' \in CookieTypes /\ cookies'.session = cookies.session
         /\ tab' \in [Tabs -> TabState]
         /\ \A q \in Tabs : tab'[q] # Resting => tab'[q] = tab[q]
<1>1. tab[r].row.csrf \in Nat
  BY TabIsCapped DEF CappedRow, SessionRow
<1>2. cookies \in CookieTypes
  BY DEF SessionsInv
<1>3. /\ [cookies EXCEPT !.csrf = tab[r].row.csrf] \in CookieTypes
      /\ [cookies EXCEPT !.csrf = tab[r].row.csrf].session = cookies.session
  BY <1>1, <1>2 DEF CookieTypes
<1>4. cookies' \in CookieTypes /\ cookies'.session = cookies.session
  BY <1>2, <1>3 DEF Respond
<1>5. Resting \in TabState
  BY DEF TabState
<1>6. tab' \in [Tabs -> TabState] /\ \A q \in Tabs : tab'[q] # Resting => tab'[q] = tab[q]
  BY <1>5 DEF SessionsInv, Respond
<1> QED
  BY <1>4, <1>6

(* Login.                                                                   *)

LEMMA LoginKeepsSessions ==
  ASSUME SessionsInv, NEW l \in Callbacks, NEW after \in CallbackState,
         callback' = [callback EXCEPT ![l] = after],
         cookies' = cookies \/ \E n \in Nat : cookies' = [cookies EXCEPT !.state = n],
         minted' \in Nat, UNCHANGED <<sessions, tab, wallClock>>
  PROVE  SessionsInv'
<1>1. callback' \in [Callbacks -> CallbackState]
  BY DEF SessionsInv
<1>2. cookies' \in CookieTypes /\ cookies'.session = cookies.session
  BY DEF SessionsInv, CookieTypes
<1> QED
  BY <1>1, <1>2 DEF SessionsInv

LEMMA CallbackGoesOn ==
  ASSUME SessionsInv, NEW l \in Callbacks, NEW next \in {"session", "provision", "insert"},
         callback[l].step \in {"provision", "insert"}
  PROVE  [callback[l] EXCEPT !.step = next] \in CallbackState
<1>1. callback[l] \in CallbackState
  BY DEF SessionsInv
<1>2. callback[l] \in [step: {"session", "provision", "insert"}, subject: Subjects]
  BY <1>1, SMTT(30) DEF CallbackState, Resting
<1>3. [callback[l] EXCEPT !.step = next]
        \in [step: {"session", "provision", "insert"}, subject: Subjects]
  BY <1>2
<1> QED
  BY <1>3 DEF CallbackState

(* What a login saves is within the cap.                                    *)
LEMMA NewRowIsCapped ==
  ASSUME SessionsInv, NEW s \in Subjects, NEW life \in RefreshLives
  PROVE  [live |-> TRUE, subject |-> s, csrf |-> Token, refreshToken |-> Token,
          accessExpiresAt |-> wallClock + AccessLife,
          expiresAt |-> wallClock + SessionLife(life),
          lastUsedAt |-> wallClock, login |-> wallClock] \in CappedRow
<1>1. LifeAsStated(life) \in Nat
  BY IdentityAssumption DEF LifeAsStated
<1>2. SessionLife(life) \in Nat /\ SessionLife(life) <= SessionCap
  BY <1>1, MinOfTwo, IdentityAssumption DEF SessionLife
<1>3. /\ wallClock \in Nat /\ Token \in Nat
      /\ wallClock + AccessLife \in Nat /\ wallClock + SessionLife(life) \in Nat
      /\ wallClock + SessionLife(life) <= wallClock + SessionCap
  BY <1>2, IdentityAssumption, SMTT(30) DEF SessionsInv, Token
<1> QED
  BY <1>3 DEF CappedRow, SessionRow

LEMMA OpenKept ==
  ASSUME SessionsInv, NEW l \in Callbacks, NEW life \in RefreshLives, OpenSession(l, life)
  PROVE  SessionsInv'
<1> DEFINE kept == [h \in DOMAIN sessions |->
                      IF sessions[h].live /\ sessions[h].expiresAt < wallClock
                      THEN NoRow ELSE sessions[h]]
           row == [live |-> TRUE, subject |-> callback[l].subject, csrf |-> Token,
                   refreshToken |-> Token,
                   accessExpiresAt |-> wallClock + AccessLife,
                   expiresAt |-> wallClock + SessionLife(life),
                   lastUsedAt |-> wallClock, login |-> wallClock]
<1>1. callback[l].subject \in Subjects
  BY CallbackSubject, SMTT(30) DEF OpenSession, Resting
<1>2. row \in Cell
  BY <1>1, NewRowIsCapped DEF Cell
<1>3. kept \in [1..Len(sessions) -> Cell]
  BY SMTT(30) DEF SessionsInv, Cell
<1>4. kept \in Seq(Cell) /\ Len(kept) = Len(sessions)
  BY <1>3, SMTT(30) DEF SessionsInv
<1>5. sessions' = Append(kept, row) /\ cookies' = SetSessionCookies(Len(sessions) + 1, Token)
  BY DEF OpenSession
<1> HIDE DEF kept, row
<1>6. sessions' \in Seq(Cell) /\ Len(sessions') = Len(sessions) + 1
  BY <1>2, <1>4, <1>5, SMTT(30)
<1>7. Token \in Nat /\ Len(sessions) + 1 \in Nat
  BY SMTT(30) DEF SessionsInv, Token
<1>8. cookies' \in CookieTypes /\ cookies'.session = Len(sessions) + 1
  BY <1>5, <1>7 DEF SessionsInv, CookieTypes, SetSessionCookies
<1>9. callback' \in [Callbacks -> CallbackState]
  BY DEF OpenSession, SessionsInv, CallbackState
<1>10. minted' \in Nat /\ UNCHANGED <<tab, wallClock>>
  BY SMTT(30) DEF OpenSession, SessionsInv, Exchange, Mint
<1>11. Len(sessions) \in Nat
  BY SMTT(30) DEF SessionsInv
<1>12. \A r \in Tabs : tab'[r] # Resting => tab'[r].handle \in 1..Len(sessions')
  BY <1>6, <1>10, <1>11, SMTT(30) DEF SessionsInv
<1> QED
  BY <1>6, <1>8, <1>9, <1>10, <1>11, <1>12, SMTT(30) DEF SessionsInv

(* A request.                                                               *)

LEMMA ReadKept ==
  ASSUME SessionsInv, NEW r \in Tabs, NEW write \in BOOLEAN, ReadSession(r, write)
  PROVE  SessionsInv'
<1> DEFINE h == cookies.session
           row == sessions[h]
           match == CsrfMatches(row)
           fixed == IF match THEN row ELSE [row EXCEPT !.csrf = Token]
           held == [step |-> IF AccessDue(row) THEN "refresh" ELSE "user",
                    handle |-> h, row |-> fixed, changed |-> ~match, at |-> wallClock]
<1>1. h \in 1..Len(sessions) /\ row.live
  BY SMTT(30) DEF ReadSession, SessionsInv, CookieTypes
<1>2. row \in CappedRow
  <2>1. row \in Cell
    BY <1>1, SMTT(30) DEF SessionsInv
  <2> QED
    BY <1>1, <2>1, SMTT(30) DEF Cell, NoRow
<1>3. CASE row.expiresAt <= wallClock
  <2>1. /\ sessions' = [sessions EXCEPT ![h] = NoRow] /\ cookies' = ClearSessionCookies
        /\ UNCHANGED <<tab, minted, callback, wallClock>>
    BY <1>3 DEF ReadSession
  <2>2. NoRow \in Cell
    BY DEF Cell
  <2>3. sessions' \in Seq(Cell) /\ Len(sessions') = Len(sessions)
    BY <1>1, <2>1, <2>2, CellReplaced
  <2>4. cookies' \in CookieTypes /\ cookies'.session = 0
    BY <2>1 DEF SessionsInv, CookieTypes, ClearSessionCookies, SetSessionCookies
  <2> QED
    BY <2>1, <2>3, <2>4, SMTT(30) DEF SessionsInv
<1>4. CASE ~(row.expiresAt <= wallClock)
  <2>1. /\ tab' = [tab EXCEPT ![r] = held]
        /\ UNCHANGED <<sessions, cookies, callback, wallClock>>
    BY <1>4 DEF ReadSession
  <2>2. IF match THEN UNCHANGED minted ELSE Mint
    BY <1>4 DEF ReadSession
  <2>3. minted' \in Nat
    BY <2>2, SMTT(30) DEF Mint, SessionsInv
  <2>4. Token \in Nat
    BY SMTT(30) DEF SessionsInv, Token
  <2>5. [row EXCEPT !.csrf = Token] \in CappedRow
    BY <1>2, <2>4 DEF CappedRow, SessionRow
  <2>6. fixed \in CappedRow
    BY <1>2, <2>5
  <2>7. (~match) \in BOOLEAN
    OBVIOUS
  <2>8. (IF AccessDue(row) THEN "refresh" ELSE "user") \in {"refresh", "user"}
    OBVIOUS
  <2>9. h \in Nat /\ wallClock \in Nat
    BY <1>1, SMTT(30) DEF SessionsInv
  <2>10. held \in [step: {"refresh", "user"}, handle: Nat, row: CappedRow,
                   changed: BOOLEAN, at: Nat] /\ held.handle = h
    BY <2>6, <2>7, <2>8, <2>9
  <2> HIDE DEF held
  <2>11. held \in TabState
    BY <2>10 DEF TabState
  <2>12. tab' \in [Tabs -> TabState]
    BY <2>1, <2>11 DEF SessionsInv
  <2>13. \A q \in Tabs : tab'[q] # Resting => tab'[q].handle \in 1..Len(sessions')
    BY <2>1, <2>10, <1>1 DEF SessionsInv
  <2> QED
    BY <2>1, <2>3, <2>12, <2>13 DEF SessionsInv
<1> QED
  BY <1>3, <1>4

(* The merge keeps the end that the row had, or an earlier one.             *)
LEMMA MergedIsCapped ==
  ASSUME NEW row \in CappedRow, NEW token \in Nat, NEW at \in Nat, NEW life \in RefreshLives
  PROVE  Merged(row, token, at, life) \in CappedRow
<1>1. row \in SessionRow /\ row.expiresAt \in Nat
  BY DEF CappedRow, SessionRow
<1>2. life \in Nat /\ at + life \in Nat /\ at + AccessLife \in Nat
  BY IdentityAssumption, SMTT(30)
<1>3. NewExpiry(row, at, life) \in Nat /\ NewExpiry(row, at, life) <= row.expiresAt
  BY <1>1, <1>2, MinOfTwo, SMTT(30) DEF NewExpiry
<1>4. /\ Merged(row, token, at, life) \in SessionRow
      /\ Merged(row, token, at, life).login = row.login
      /\ Merged(row, token, at, life).expiresAt = NewExpiry(row, at, life)
  BY <1>1, <1>2, <1>3 DEF Merged, SessionRow
<1> QED
  BY <1>3, <1>4, CappedStays

LEMMA RefreshKept ==
  ASSUME SessionsInv, NEW r \in Tabs, NEW life \in RefreshLives, NEW rotates \in BOOLEAN,
         Refresh(r, life, rotates)
  PROVE  SessionsInv'
<1> DEFINE t == tab[r]
           token == IF rotates THEN Token ELSE t.row.refreshToken
           merged == Merged(t.row, token, t.at, life)
           held == [t EXCEPT !.step = "user", !.changed = TRUE, !.row = merged]
<1>1. t # Resting
  BY SMTT(30) DEF Refresh, Resting
<1>2. /\ t \in [step: {"refresh", "user"}, handle: Nat, row: CappedRow,
                changed: BOOLEAN, at: Nat]
      /\ t.handle \in 1..Len(sessions) /\ t.row \in CappedRow
  BY <1>1, TabIsCapped
<1>3. Token \in Nat /\ t.row.refreshToken \in Nat
  BY <1>2, SMTT(30) DEF SessionsInv, Token, CappedRow, SessionRow
<1>4. token \in Nat
  BY <1>3
<1>5. merged \in CappedRow
  BY <1>2, <1>4, MergedIsCapped
<1>6. tab' = [tab EXCEPT ![r] = held] /\ UNCHANGED <<sessions, cookies, callback, wallClock>>
  BY DEF Refresh
<1>7. minted' \in Nat
  BY SMTT(30) DEF Refresh, Rotate, Mint, SessionsInv
<1> HIDE DEF merged
<1>8. held \in [step: {"refresh", "user"}, handle: Nat, row: CappedRow,
                changed: BOOLEAN, at: Nat] /\ held.handle = t.handle
  BY <1>2, <1>5
<1> HIDE DEF held, t
<1>9. held \in TabState
  BY <1>8 DEF TabState
<1>10. tab' \in [Tabs -> TabState]
  BY <1>6, <1>9 DEF SessionsInv
<1>11. \A q \in Tabs : tab'[q] # Resting => tab'[q].handle \in 1..Len(sessions')
  BY <1>2, <1>6, <1>8 DEF SessionsInv
<1> QED
  BY <1>6, <1>7, <1>10, <1>11 DEF SessionsInv

LEMMA SaveKept ==
  ASSUME SessionsInv, NEW r \in Tabs, SaveSession(r)
  PROVE  SessionsInv'
<1> DEFINE t == tab[r]
           touch == \/ t.at - t.row.lastUsedAt >= TouchInterval
                    \/ t.row.accessExpiresAt <= t.at + RefreshSkew
           row == IF touch THEN [t.row EXCEPT !.lastUsedAt = t.at] ELSE t.row
<1>1. t # Resting
  BY SMTT(30) DEF SaveSession, Resting
<1>2. /\ t \in [step: {"refresh", "user"}, handle: Nat, row: CappedRow,
                changed: BOOLEAN, at: Nat]
      /\ t.handle \in 1..Len(sessions) /\ t.row \in CappedRow
  BY <1>1, TabIsCapped
<1>3. [t.row EXCEPT !.lastUsedAt = t.at] \in CappedRow
  BY <1>2 DEF CappedRow, SessionRow
<1>4. row \in Cell
  BY <1>2, <1>3 DEF Cell
<1>5. sessions' = IF touch \/ t.changed THEN [sessions EXCEPT ![t.handle] = row] ELSE sessions
  BY DEF SaveSession
<1>6. Respond(r) /\ UNCHANGED <<callback, minted, wallClock>>
  BY DEF SaveSession
<1> HIDE DEF row, touch
<1>7. sessions' \in Seq(Cell) /\ Len(sessions') = Len(sessions)
  <2>1. sessions \in Seq(Cell)
    BY DEF SessionsInv
  <2>2. /\ [sessions EXCEPT ![t.handle] = row] \in Seq(Cell)
        /\ Len([sessions EXCEPT ![t.handle] = row]) = Len(sessions)
    BY <1>2, <1>4, CellReplaced
  <2> QED
    BY <1>5, <2>1, <2>2
<1>8. /\ cookies' \in CookieTypes /\ cookies'.session = cookies.session
      /\ tab' \in [Tabs -> TabState]
      /\ \A q \in Tabs : tab'[q] # Resting => tab'[q] = tab[q]
  BY <1>1, <1>6, ResponseKept
<1> QED
  BY <1>6, <1>7, <1>8 DEF SessionsInv

LEMMA RefusedKept ==
  ASSUME SessionsInv, NEW r \in Tabs, RefreshRefused(r)
  PROVE  SessionsInv'
<1>1. tab[r] # Resting
  BY SMTT(30) DEF RefreshRefused, Resting
<1>2. Respond(r) /\ UNCHANGED <<sessions, callback, minted, wallClock>>
  BY DEF RefreshRefused
<1>3. /\ cookies' \in CookieTypes /\ cookies'.session = cookies.session
      /\ tab' \in [Tabs -> TabState]
      /\ \A q \in Tabs : tab'[q] # Resting => tab'[q] = tab[q]
  BY <1>1, <1>2, ResponseKept
<1> QED
  BY <1>2, <1>3 DEF SessionsInv

LEMMA LogoutKept ==
  ASSUME SessionsInv, Logout
  PROVE  SessionsInv'
<1>1. cookies.session \in 1..Len(sessions)
  BY SMTT(30) DEF Logout, SessionsInv, CookieTypes
<1>2. sessions' = [sessions EXCEPT ![cookies.session] = NoRow] /\ NoRow \in Cell
  BY DEF Logout, Cell
<1>3. sessions' \in Seq(Cell) /\ Len(sessions') = Len(sessions)
  BY <1>1, <1>2, CellReplaced
<1>4. cookies' \in CookieTypes /\ cookies'.session = 0
  BY DEF Logout, SessionsInv, CookieTypes, ClearSessionCookies, SetSessionCookies
<1> QED
  BY <1>3, <1>4, SMTT(30) DEF SessionsInv, Logout

LEMMA SessionsKept == IdentityInv /\ [IdentityNext]_identityVars => SessionsInv'
<1> SUFFICES ASSUME SessionsInv, [IdentityNext]_identityVars PROVE SessionsInv'
  BY DEF IdentityInv
<1> minted \in Nat /\ Token \in Nat
  BY SMTT(30) DEF SessionsInv, Token
<1>1. ASSUME NEW l \in Callbacks, NEW s \in Subjects, BeginLogin(l, s) PROVE SessionsInv'
  <2>1. AuthorizationRequest(s) \in CallbackState
    BY DEF AuthorizationRequest, CallbackState
  <2>2. minted' \in Nat
    BY <1>1, SMTT(30) DEF BeginLogin, Mint
  <2> QED
    BY <1>1, <2>1, <2>2, LoginKeepsSessions DEF BeginLogin
<1>2. ASSUME NEW l \in Callbacks, CompleteLogin(l) PROVE SessionsInv'
  <2>1. callback[l].subject \in Subjects
    BY <1>2, CallbackSubject, SMTT(30) DEF CompleteLogin, Resting
  <2>2. Resting \in CallbackState
    BY DEF CallbackState
  <2>3. \A next \in {"session", "provision"} :
          [step |-> next, subject |-> callback[l].subject] \in CallbackState
    BY <2>1 DEF CallbackState
  <2>4. PICK after \in CallbackState : callback' = [callback EXCEPT ![l] = after]
    BY <1>2, <2>2, <2>3 DEF CompleteLogin
  <2> QED
    BY <1>2, <2>4, LoginKeepsSessions DEF CompleteLogin
<1>3. ASSUME NEW l \in Callbacks, ProvisionLookup(l) PROVE SessionsInv'
  <2> DEFINE next == IF callback[l].subject \in users THEN "session" ELSE "insert"
  <2>1. [callback[l] EXCEPT !.step = next] \in CallbackState
    BY <1>3, CallbackGoesOn DEF ProvisionLookup
  <2>2. callback' = [callback EXCEPT ![l] = [callback[l] EXCEPT !.step = next]]
    BY <1>3 DEF ProvisionLookup, SessionsInv
  <2> QED
    BY <1>3, <2>1, <2>2, LoginKeepsSessions DEF ProvisionLookup
<1>4. ASSUME NEW l \in Callbacks, ProvisionCommit(l) PROVE SessionsInv'
  <2>1. [callback[l] EXCEPT !.step = "session"] \in CallbackState
    BY <1>4, CallbackGoesOn DEF ProvisionCommit
  <2>2. callback' = [callback EXCEPT ![l] = [callback[l] EXCEPT !.step = "session"]]
    BY <1>4 DEF ProvisionCommit, SessionsInv
  <2> QED
    BY <1>4, <2>1, <2>2, LoginKeepsSessions DEF ProvisionCommit
<1>5. ASSUME NEW r \in Tabs, BusinessRequest(r) \/ IdentityRequest(r) \/ GetSessionStatus(r)
      PROVE  SessionsInv'
  BY <1>5, ReadKept DEF BusinessRequest, IdentityRequest, GetSessionStatus
<1>6. ClockTicks => SessionsInv'
  BY SMTT(30) DEF ClockTicks, SessionsInv
<1>7. ASSUME NEW s \in Subjects,
             CreateUser(s) \/ RevokeMembership(s) \/ \E role \in Roles : GrantMembership(s, role)
      PROVE  SessionsInv'
  BY <1>7 DEF CreateUser, RevokeMembership, GrantMembership, SessionsInv
<1>8. CASE UNCHANGED identityVars
  BY <1>8 DEF identityVars, SessionsInv
<1> QED
  BY <1>1, <1>2, <1>3, <1>4, <1>5, <1>6, <1>7, <1>8, OpenKept, RefreshKept, SaveKept,
     RefusedKept, LogoutKept DEF IdentityNext

LEMMA IdentityInvImplies == IdentityInv => SignInIsSound
<1> SUFFICES ASSUME IdentityInv PROVE SignInIsSound
  OBVIOUS
<1>1. \A h \in DOMAIN sessions : sessions[h] \in Cell
  BY SMTT(30) DEF IdentityInv, SessionsInv
<1>2. \A h \in DOMAIN sessions : sessions[h] = NoRow \/ sessions[h] \in SessionRow
  BY <1>1 DEF Cell, CappedRow
<1>3. cookies.session \in {0} \cup DOMAIN sessions
  BY SMTT(30) DEF IdentityInv, SessionsInv, CookieTypes
<1>4. IdentityTypeOK
  BY <1>2, <1>3 DEF IdentityInv, AccountsInv, IdentityTypeOK
<1>5. SessionWithinCap
  BY <1>1, SMTT(30) DEF SessionWithinCap, Cell, CappedRow, NoRow
<1> QED
  BY <1>4, <1>5 DEF IdentityInv, AccountsInv, SignInIsSound

(* However many people, callbacks and tabs there are and however they       *)
(* overlap: a person has at most one self-service workspace, of which they  *)
(* are the only member, and no refresh, lost update or re-inserted row      *)
(* carries a session past the operator's cap                                *)
(* (self-service-provisioning.service.ts, oidc-session.service.ts).         *)
THEOREM SignInAlwaysSound == IdentitySpec => []SignInIsSound
<1>1. IdentityInv /\ [IdentityNext]_identityVars => IdentityInv'
  BY AccountsKept, SessionsKept DEF IdentityInv
<1> QED
  BY <1>1, IdentityStart, IdentityInvImplies, PTL DEF IdentitySpec
==============================================================================
