----------------------------- MODULE CaseProofs ------------------------------
(***************************************************************************)
(* Theorems about the case API and the messages of a case, for any tenants,*)
(* cases, calls, consents, templates, drafts and messages.                 *)
(***************************************************************************)
EXTENDS CaseApi, Communications, FiniteSetTheorems, TLAPS

(* Zenon is the prover of every leaf that names none.                       *)
USE ZenonT(90)

-----------------------------------------------------------------------------
(***************************************************************************)
(* CaseApi.                                                                *)
(***************************************************************************)

CallSteps == {"guard", "existing", "insert", "consent", "getCase", "act", "revoking",
              "audit", "answered", "dead"}
Answers == {"none", "forbidden", "existing", "created", "not found", "conflict", "done"}
SentCall == [op: Ops, tenant: Tenants, role: ApiRoles, of: CaseIds, step: CallSteps,
             seen: Nat, effect: BOOLEAN, answer: Answers]

(* What a call between two of its transactions has established: the case it *)
(* works on is there and its own tenant's, and what it is about to record   *)
(* has happened.                                                            *)
CallSound(k) ==
  \/ k = NoApiCall
  \/ /\ k \in SentCall
     /\ k.op = "create" \/ k.effect \/ k.step \in {"act", "revoking"} => k.of[1] = k.tenant
     /\ k.step \in {"existing", "insert", "consent"} => k.op = "create"
     /\ k.step \in {"audit", "consent"} => k.effect
     /\ k.step \in {"consent", "act", "revoking"} => rows[k.of] = 1
     /\ k.step = "revoking" => k.op = "revoke" /\ k.seen \in 1..Len(consents[k.of])

Revoked(c) == {i \in 1..Len(consents[c]) : consents[c][i]}

(* The tables.                                                              *)
TablesInv ==
  /\ ApiTypeOK
  /\ consents \in [CaseIds -> Seq(BOOLEAN)] /\ reviews \in [CaseIds -> Nat]
  /\ events \in [CaseIds -> [EventTypes -> Nat]] /\ OneCasePerKey
  /\ \A c \in CaseIds : Cardinality(Revoked(c)) <= reviews[c]

(* An audit event is written when its call ends.                            *)
TrailInv ==
  /\ AuditTellsTheTruth
  /\ \A e \in trail : e[1] \in ApiCalls /\ acalls[e[1]].step = "answered"

CallsInv == acalls = [x \in ApiCalls |-> acalls[x]] /\ \A x \in ApiCalls : CallSound(acalls[x])

ApiInv == TablesInv /\ CallsInv /\ TrailInv /\ ConsentFollowsCreation

(* Rows are not deleted, and consent records are not either.                *)
RowsGrow ==
  /\ \A c \in CaseIds : rows[c] = 1 => rows'[c] = 1
  /\ \A c \in CaseIds : 1..Len(consents[c]) \subseteq 1..Len(consents'[c])

LEMMA SoundCallStays ==
  ASSUME RowsGrow, NEW k, CallSound(k)
  PROVE  CallSound(k)'
<1>1. CASE k = NoApiCall
  BY <1>1 DEF CallSound
<1>2. CASE k # NoApiCall
  <2>1. k.of \in CaseIds
    BY <1>2 DEF CallSound, SentCall
  <2> QED
    BY <1>2, <2>1 DEF CallSound, RowsGrow
<1> QED
  BY <1>1, <1>2

(* The answer of any step: one call goes on, the others stay as they are.   *)
LEMMA OneCallMoves ==
  ASSUME CallsInv, RowsGrow, NEW x \in ApiCalls, NEW k,
         acalls' = [acalls EXCEPT ![x] = k], CallSound(k)'
  PROVE  CallsInv'
<1>1. acalls' = [y \in ApiCalls |-> acalls'[y]]
  BY DEF CallsInv
<1>2. ASSUME NEW y \in ApiCalls PROVE CallSound(acalls[y])'
  <2>1. CASE y = x
    <3>1. acalls'[x] = k
      BY DEF CallsInv
    <3> QED
      BY <2>1, <3>1 DEF CallSound
  <2>2. CASE y # x
    <3>1. acalls'[y] = acalls[y]
      BY <2>2 DEF CallsInv
    <3>2. PICK q : q = acalls[y]
      OBVIOUS
    <3>3. CallSound(q)'
      BY <3>2, SoundCallStays DEF CallsInv
    <3> QED
      BY <3>1, <3>2, <3>3 DEF CallSound
  <2> QED
    BY <2>1, <2>2
<1> QED
  BY <1>1, <1>2 DEF CallsInv

LEMMA TrailStays ==
  ASSUME CallsInv, TrailInv, NEW x \in ApiCalls, NEW k, acalls[x].step # "answered",
         acalls' = [acalls EXCEPT ![x] = k], UNCHANGED trail
  PROVE  TrailInv'
<1>1. \A e \in trail : e[1] # x /\ e[1] \in ApiCalls
  BY DEF TrailInv
<1>2. \A e \in trail : acalls'[e[1]] = acalls[e[1]]
  BY <1>1 DEF CallsInv
<1> QED
  BY <1>1, <1>2 DEF TrailInv, AuditTellsTheTruth

LEMMA TrailGrows ==
  ASSUME CallsInv, TrailInv, NEW x \in ApiCalls, NEW k, acalls[x].step # "answered",
         NEW what, acalls' = [acalls EXCEPT ![x] = k], k.step = "answered",
         \/ k.effect /\ what = k.op
         \/ k.answer = "forbidden" /\ what = "RBAC_REJECTED",
         trail' \in {trail, trail \cup {<<x, what>>}}
  PROVE  TrailInv'
<1>1. \A e \in trail : e[1] # x /\ e[1] \in ApiCalls
  BY DEF TrailInv
<1>2. \A e \in trail : acalls'[e[1]] = acalls[e[1]]
  BY <1>1 DEF CallsInv
<1>3. acalls'[x] = k
  BY DEF CallsInv
<1>4. <<x, what>>[1] = x /\ <<x, what>>[2] = what
  OBVIOUS
<1>5. ASSUME NEW e \in trail' PROVE e \in trail \/ e = <<x, what>>
  BY <1>5
<1> QED
  BY <1>1, <1>2, <1>3, <1>4, <1>5, SMTT(30) DEF TrailInv, AuditTellsTheTruth

(* A case that has no consent record still has the call that made it.       *)
LEMMA MakerStays ==
  ASSUME CallsInv, ConsentFollowsCreation, NEW x \in ApiCalls, NEW k,
         acalls' = [acalls EXCEPT ![x] = k],
         acalls[x].step \notin {"consent", "dead"}, UNCHANGED rows,
         \A c \in CaseIds : consents'[c] = <<>> => consents[c] = <<>>
  PROVE  ConsentFollowsCreation'
<1> SUFFICES ASSUME NEW c \in CaseIds, rows[c] > 0, consents'[c] = <<>>
             PROVE  \E y \in ApiCalls :
                      /\ acalls'[y].op = "create" /\ acalls'[y].of = c /\ acalls'[y].effect
                      /\ acalls'[y].step \in {"consent", "dead"}
  BY DEF ConsentFollowsCreation
<1>1. PICK y \in ApiCalls :
        /\ acalls[y].op = "create" /\ acalls[y].of = c /\ acalls[y].effect
        /\ acalls[y].step \in {"consent", "dead"}
  BY DEF ConsentFollowsCreation
<1>2. acalls'[y] = acalls[y]
  BY <1>1 DEF CallsInv
<1> QED
  BY <1>1, <1>2

LEMMA NothingChanged == UNCHANGED apiRows => RowsGrow
BY DEF apiRows, RowsGrow

LEMMA TablesStay ==
  ASSUME TablesInv, UNCHANGED apiRows
  PROVE  TablesInv'
BY DEF TablesInv, apiRows, ApiTypeOK, OneCasePerKey, Revoked

(* A step that only moves its call on.                                      *)
LEMMA QuietCall ==
  ASSUME ApiInv, NEW x \in ApiCalls, NEW k, acalls' = [acalls EXCEPT ![x] = k],
         acalls[x].step \notin {"consent", "dead", "answered"}, CallSound(k),
         UNCHANGED <<apiRows, trail>>
  PROVE  ApiInv'
<1>1. RowsGrow
  BY NothingChanged
<1>2. CallSound(k)'
  BY <1>1, SoundCallStays
<1>3. CallsInv'
  BY <1>1, <1>2, OneCallMoves DEF ApiInv
<1>4. TrailInv'
  BY TrailStays DEF ApiInv
<1>5. ConsentFollowsCreation'
  BY MakerStays DEF ApiInv, apiRows
<1>6. TablesInv'
  BY TablesStay DEF ApiInv
<1> QED
  BY <1>3, <1>4, <1>5, <1>6 DEF ApiInv

LEMMA CallAtWork ==
  ASSUME CallsInv, NEW x \in ApiCalls, acalls[x].step # "unsent"
  PROVE  acalls[x] \in SentCall /\ acalls[x] # NoApiCall /\ CallSound(acalls[x])
BY SMTT(30) DEF CallsInv, CallSound, NoApiCall

(* The three ways in which a handler leaves its call.                       *)
LEMMA AdvanceMoves ==
  ASSUME CallsInv, NEW x \in ApiCalls, NEW step \in CallSteps, Advance(x, step),
         acalls[x].step # "unsent"
  PROVE  \E k \in SentCall :
           /\ acalls' = [acalls EXCEPT ![x] = k]
           /\ k.step = step /\ k.op = acalls[x].op /\ k.tenant = acalls[x].tenant
           /\ k.of = acalls[x].of /\ k.seen = acalls[x].seen
           /\ k.effect = acalls[x].effect /\ k.answer = acalls[x].answer
<1>1. acalls[x] \in SentCall
  BY CallAtWork
<1>2. [acalls[x] EXCEPT !.step = step] \in SentCall
  BY <1>1 DEF SentCall
<1>3. acalls' = [acalls EXCEPT ![x] = [acalls[x] EXCEPT !.step = step]]
  BY DEF Advance, CallsInv
<1> QED
  BY <1>1, <1>2, <1>3 DEF SentCall

LEMMA AnswerMoves ==
  ASSUME CallsInv, NEW x \in ApiCalls,
         NEW what \in Answers,
         Answer(x, what), acalls[x].step # "unsent"
  PROVE  \E k \in SentCall :
           /\ acalls' = [acalls EXCEPT ![x] = k]
           /\ k.step = "answered" /\ k.op = acalls[x].op /\ k.tenant = acalls[x].tenant
           /\ k.of = acalls[x].of /\ k.effect = acalls[x].effect /\ k.answer = what
<1>1. acalls[x] \in SentCall
  BY CallAtWork
<1> DEFINE k == [acalls[x] EXCEPT !.step = "answered", !.answer = what]
<1>2. k \in SentCall
  BY <1>1 DEF SentCall, CallSteps
<1>3. acalls' = [acalls EXCEPT ![x] = k]
  BY DEF Answer, CallsInv
<1> QED
  BY <1>1, <1>2, <1>3 DEF SentCall

LEMMA EffectMoves ==
  ASSUME CallsInv, NEW x \in ApiCalls, NEW step \in CallSteps, Effect(x, step),
         acalls[x].step # "unsent"
  PROVE  \E k \in SentCall :
           /\ acalls' = [acalls EXCEPT ![x] = k]
           /\ k.step = step /\ k.op = acalls[x].op /\ k.tenant = acalls[x].tenant
           /\ k.of = acalls[x].of /\ k.effect
<1>1. acalls[x] \in SentCall
  BY CallAtWork
<1> DEFINE k == [acalls[x] EXCEPT !.step = step, !.effect = TRUE]
<1>2. k \in SentCall
  BY <1>1 DEF SentCall
<1>3. acalls' = [acalls EXCEPT ![x] = k]
  BY DEF Effect, CallsInv
<1> QED
  BY <1>1, <1>2, <1>3 DEF SentCall

(* A call that ends leaves nothing behind to be sound about but its effect. *)
LEMMA EndedIsSound ==
  ASSUME NEW j \in SentCall, NEW k \in SentCall, CallSound(j), j # NoApiCall,
         k.step \in {"answered", "dead"}, k.op = j.op, k.tenant = j.tenant, k.of = j.of,
         k.effect = j.effect
  PROVE  CallSound(k)
BY DEF CallSound

LEMMA AnswerIsQuiet ==
  ASSUME ApiInv, NEW x \in ApiCalls,
         NEW what \in Answers,
         Answer(x, what), acalls[x].step \notin {"unsent", "consent", "dead", "answered"},
         UNCHANGED <<apiRows, trail>>
  PROVE  ApiInv'
<1>0. CallsInv /\ acalls[x].step # "unsent"
  BY DEF ApiInv
<1>1. PICK k \in SentCall :
        /\ acalls' = [acalls EXCEPT ![x] = k]
        /\ k.step = "answered" /\ k.op = acalls[x].op /\ k.tenant = acalls[x].tenant
        /\ k.of = acalls[x].of /\ k.effect = acalls[x].effect /\ k.answer = what
  BY <1>0, AnswerMoves
<1>2. CallSound(k)
  BY <1>1, CallAtWork, EndedIsSound DEF ApiInv
<1> QED
  BY <1>1, <1>2, QuietCall

(* A command that takes effect on a case of its caller.                     *)
LEMMA EffectIsQuiet ==
  ASSUME ApiInv, NEW x \in ApiCalls, NEW step \in {"audit", "answered"}, Effect(x, step),
         acalls[x].step = "act", UNCHANGED <<apiRows, trail>>
  PROVE  ApiInv'
<1>1. PICK k \in SentCall :
        /\ acalls' = [acalls EXCEPT ![x] = k]
        /\ k.step = step /\ k.op = acalls[x].op /\ k.tenant = acalls[x].tenant
        /\ k.of = acalls[x].of /\ k.effect
  BY EffectMoves, SMTT(30) DEF ApiInv, CallSteps
<1>2. CallSound(acalls[x]) /\ acalls[x] # NoApiCall
  BY CallAtWork DEF ApiInv
<1>3. CallSound(k)
  BY <1>1, <1>2 DEF CallSound
<1> QED
  BY <1>1, <1>3, QuietCall

LEMMA ArriveKept ==
  ASSUME ApiInv, NEW x \in ApiCalls, NEW ops \in SUBSET Ops, Arrive(x, ops)
  PROVE  ApiInv'
<1>1. PICK op \in ops, t \in Tenants, role \in ApiRoles, c \in CaseIds :
        /\ op = "create" => c[1] = t
        /\ acalls' = [acalls EXCEPT ![x] =
            [NoApiCall EXCEPT !.op = op, !.tenant = t, !.role = role, !.of = c, !.step = "guard"]]
  BY DEF Arrive
<1> DEFINE k == [NoApiCall EXCEPT !.op = op, !.tenant = t, !.role = role, !.of = c,
                                  !.step = "guard"]
<1>2. k \in SentCall
  BY DEF NoApiCall, SentCall, CallSteps, Answers
<1>3. /\ k.op = op /\ k.tenant = t /\ k.of = c /\ k.step = "guard"
      /\ k.effect = FALSE
  BY DEF NoApiCall
<1> HIDE DEF k
<1>4. CallSound(k)
  BY <1>1, <1>2, <1>3 DEF CallSound
<1>5. acalls' = [acalls EXCEPT ![x] = k]
  BY <1>1 DEF k
<1> QED
  BY <1>4, <1>5, QuietCall DEF Arrive

LEMMA GuardKept ==
  ASSUME ApiInv, NEW x \in ApiCalls, Guard(x)
  PROVE  ApiInv'
<1>0. CallSound(acalls[x]) /\ acalls[x] # NoApiCall /\ acalls[x] \in SentCall
  BY CallAtWork DEF ApiInv, Guard
<1>1. CASE RoleAllowed(x)
  <2> DEFINE step == IF acalls[x].op = "create" THEN "existing" ELSE "getCase"
  <2>1. step \in CallSteps /\ Advance(x, step) /\ UNCHANGED <<apiRows, trail>>
    BY <1>1 DEF Guard, CallSteps
  <2>2. PICK k \in SentCall :
           /\ acalls' = [acalls EXCEPT ![x] = k]
           /\ k.step = step /\ k.op = acalls[x].op /\ k.tenant = acalls[x].tenant
           /\ k.of = acalls[x].of /\ k.seen = acalls[x].seen
           /\ k.effect = acalls[x].effect /\ k.answer = acalls[x].answer
    BY <2>1, AdvanceMoves DEF ApiInv, Guard
  <2>3. CallSound(k)
    BY <1>0, <2>2 DEF CallSound
  <2> QED
    BY <2>1, <2>2, <2>3, QuietCall DEF Guard
<1>2. CASE ~RoleAllowed(x)
  <2>1. /\ Answer(x, "forbidden") /\ UNCHANGED apiRows
        /\ trail' \in {trail, trail \cup {<<x, "RBAC_REJECTED">>}}
    BY <1>2 DEF Guard
  <2>2. PICK k \in SentCall :
        /\ acalls' = [acalls EXCEPT ![x] = k]
        /\ k.step = "answered" /\ k.op = acalls[x].op /\ k.tenant = acalls[x].tenant
        /\ k.of = acalls[x].of /\ k.effect = acalls[x].effect /\ k.answer = "forbidden"
    BY <2>1, AnswerMoves DEF ApiInv, Guard, Answers
  <2>3. RowsGrow
    BY <2>1, NothingChanged
  <2>4. CallSound(k)'
    BY <1>0, <2>2, <2>3, EndedIsSound, SoundCallStays
  <2>5. CallsInv'
    BY <2>2, <2>3, <2>4, OneCallMoves DEF ApiInv
  <2>6. TrailInv'
    BY <2>1, <2>2, TrailGrows DEF ApiInv, Guard
  <2>7. ConsentFollowsCreation'
    BY <2>1, <2>2, MakerStays DEF ApiInv, apiRows, Guard
  <2>8. TablesInv'
    BY <2>1, TablesStay DEF ApiInv
  <2> QED
    BY <2>5, <2>6, <2>7, <2>8 DEF ApiInv
<1> QED
  BY <1>1, <1>2

LEMMA AuditKept ==
  ASSUME ApiInv, NEW x \in ApiCalls, Audit(x)
  PROVE  ApiInv'
<1>0. CallSound(acalls[x]) /\ acalls[x] # NoApiCall /\ acalls[x] \in SentCall
  BY CallAtWork DEF ApiInv, Audit
<1>1. acalls[x].effect
  BY <1>0 DEF CallSound, Audit
<1>2. PICK k \in SentCall :
        /\ acalls' = [acalls EXCEPT ![x] = k]
        /\ k.step = "answered" /\ k.op = acalls[x].op /\ k.tenant = acalls[x].tenant
        /\ k.of = acalls[x].of /\ k.effect = acalls[x].effect /\ k.answer = "done"
  BY AnswerMoves DEF ApiInv, Audit, Answers
<1>3. RowsGrow
  BY NothingChanged DEF Audit
<1>4. CallSound(k)'
  BY <1>0, <1>2, <1>3, EndedIsSound, SoundCallStays
<1>5. CallsInv'
  BY <1>2, <1>3, <1>4, OneCallMoves DEF ApiInv
<1>6. TrailInv'
  BY <1>1, <1>2, TrailGrows DEF ApiInv, Audit
<1>7. ConsentFollowsCreation'
  BY <1>2, MakerStays DEF ApiInv, apiRows, Audit
<1>8. TablesInv'
  BY TablesStay DEF ApiInv, Audit
<1> QED
  BY <1>5, <1>6, <1>7, <1>8 DEF ApiInv

(* Every non-empty set of positions has the greatest that Latest chooses.   *)
LEMMA LatestIsOne ==
  ASSUME NEW n \in Nat, NEW S \in SUBSET (1..n), S # {}
  PROVE  Latest(S) \in S
<1> DEFINE R == OpToRel(<, Nat)
           T == {n - i : i \in S}
<1>1. IsWellFoundedOn(R, Nat)
  BY NatLessThanWellFounded
<1>2. \A x, y \in Nat : ~(<<y, x>> \in R) => x <= y
  BY SMTT(30) DEF OpToRel
<1> HIDE DEF R
<1>3. \A i \in S : i \in Nat /\ n - i \in Nat
  BY SMTT(30)
<1>4. T \subseteq Nat /\ T # {}
  BY <1>3
<1>5. PICK m \in T : \A y \in T : ~(<<y, m>> \in R)
  BY <1>1, <1>4, WFMin
<1>6. \A y \in T : m <= y
  BY <1>2, <1>4, <1>5
<1>7. PICK i \in S : m = n - i
  OBVIOUS
<1>8. ASSUME NEW j \in S PROVE j <= i
  <2>1. n - i <= n - j
    BY <1>6, <1>7
  <2> QED
    BY <1>3, <2>1, SMTT(30)
<1>9. \E z \in S : \A j \in S : j <= z
  BY <1>8
<1> QED
  BY <1>9 DEF Latest

LEMMA FindKept ==
  ASSUME ApiInv, NEW x \in ApiCalls, FindExisting(x)
  PROVE  ApiInv'
<1>0. CallSound(acalls[x]) /\ acalls[x] # NoApiCall
  BY CallAtWork DEF ApiInv, FindExisting
<1>1. CASE Answer(x, "existing")
  BY <1>1, AnswerIsQuiet DEF FindExisting, Answers
<1>2. CASE Advance(x, "insert")
  <2>1. PICK k \in SentCall :
           /\ acalls' = [acalls EXCEPT ![x] = k]
           /\ k.step = "insert" /\ k.op = acalls[x].op /\ k.tenant = acalls[x].tenant
           /\ k.of = acalls[x].of /\ k.seen = acalls[x].seen
           /\ k.effect = acalls[x].effect /\ k.answer = acalls[x].answer
    BY <1>2, AdvanceMoves DEF ApiInv, FindExisting, CallSteps
  <2>2. CallSound(k)
    BY <1>0, <2>1 DEF CallSound, FindExisting
  <2> QED
    BY <2>1, <2>2, QuietCall DEF FindExisting
<1> QED
  BY <1>1, <1>2 DEF FindExisting

LEMMA GetKept ==
  ASSUME ApiInv, NEW x \in ApiCalls, GetCase(x)
  PROVE  ApiInv'
<1>0. CallSound(acalls[x]) /\ acalls[x] # NoApiCall /\ acalls[x] \in SentCall
  BY CallAtWork DEF ApiInv, GetCase
<1>1. CASE ~Found(x)
  BY <1>1, AnswerIsQuiet DEF GetCase, Answers
<1>2. CASE Found(x)
  <2> DEFINE k == [acalls[x] EXCEPT !.step = "act", !.seen = version[acalls[x].of]]
  <2>1. acalls[x].of \in CaseIds
    BY <1>0 DEF SentCall
  <2>2. version[acalls[x].of] \in Nat /\ rows[acalls[x].of] = 1
    BY <1>2, <2>1, SMTT(30) DEF ApiInv, TablesInv, ApiTypeOK, Found
  <2>3. k \in SentCall
    BY <1>0, <2>2 DEF SentCall, CallSteps
  <2>4. /\ k.step = "act" /\ k.op = acalls[x].op /\ k.tenant = acalls[x].tenant
        /\ k.of = acalls[x].of /\ k.effect = acalls[x].effect
    BY <1>0 DEF SentCall
  <2>5. acalls' = [acalls EXCEPT ![x] = k]
    BY <1>2 DEF GetCase, ApiInv, CallsInv
  <2> HIDE DEF k
  <2>6. CallSound(k)
    BY <1>2, <2>2, <2>3, <2>4 DEF CallSound, Found
  <2> QED
    BY <2>5, <2>6, QuietCall DEF GetCase
<1> QED
  BY <1>1, <1>2

LEMMA RevokeReadKept ==
  ASSUME ApiInv, NEW x \in ApiCalls, RevokeRead(x)
  PROVE  ApiInv'
<1> DEFINE c == acalls[x].of
<1>0. CallSound(acalls[x]) /\ acalls[x] # NoApiCall /\ acalls[x] \in SentCall
  BY CallAtWork DEF ApiInv, RevokeRead
<1>1. CASE ActiveConsents(c) = {}
  BY <1>1, AnswerIsQuiet DEF RevokeRead, Answers
<1>2. CASE ActiveConsents(c) # {}
  <2> DEFINE k == [acalls[x] EXCEPT !.step = "revoking", !.seen = Latest(ActiveConsents(c))]
  <2>1. c \in CaseIds
    BY <1>0 DEF SentCall
  <2>2. Len(consents[c]) \in Nat
    BY <2>1, SMTT(30) DEF ApiInv, TablesInv
  <2>3. ActiveConsents(c) \in SUBSET (1..Len(consents[c]))
    BY DEF ActiveConsents
  <2>4. Latest(ActiveConsents(c)) \in 1..Len(consents[c])
    BY <1>2, <2>2, <2>3, LatestIsOne
  <2>10. \A seen \in Nat :
           [acalls[x] EXCEPT !.step = "revoking", !.seen = seen] \in SentCall
    BY <1>0 DEF SentCall, CallSteps
  <2>11. PICK seen \in Nat : seen = Latest(ActiveConsents(c))
    BY <2>2, <2>4, SMTT(30)
  <2>5. k \in SentCall
    BY <2>10, <2>11
  <2>6. /\ k.step = "revoking" /\ k.op = acalls[x].op /\ k.tenant = acalls[x].tenant
        /\ k.of = c /\ k.effect = acalls[x].effect
        /\ k.seen = Latest(ActiveConsents(c))
    BY <1>0 DEF SentCall
  <2>7. acalls' = [acalls EXCEPT ![x] = k]
    BY <1>2 DEF RevokeRead, ApiInv, CallsInv
  <2>8. /\ acalls[x].of[1] = acalls[x].tenant /\ rows[acalls[x].of] = 1
        /\ acalls[x].op = "revoke"
    BY <1>0 DEF CallSound, RevokeRead
  <2> HIDE DEF k
  <2>9. CallSound(k)
    BY <2>4, <2>5, <2>6, <2>8 DEF CallSound
  <2> QED
    BY <2>7, <2>9, QuietCall DEF RevokeRead
<1> QED
  BY <1>1, <1>2

LEMMA HandKept ==
  ASSUME ApiInv, NEW x \in ApiCalls, NEW answers \in SUBSET Answers,
         acalls[x].step = "act", HandToWorkflow(x, answers)
  PROVE  ApiInv'
<1>1. UNCHANGED <<apiRows, trail>> /\ (Effect(x, "audit") \/ \E a \in answers : Answer(x, a))
  BY DEF HandToWorkflow
<1> QED
  BY <1>1, EffectIsQuiet, AnswerIsQuiet

LEMMA ReviewerKept ==
  ASSUME ApiInv, NEW x \in ApiCalls,
         \/ SubmitReview(x) \/ CancelWorkflow(x) \/ RecoverWorkflow(x) \/ StartWorkflow(x)
  PROVE  ApiInv'
<1>1. {"not found"} \subseteq Answers /\ {"not found", "conflict"} \subseteq Answers
      /\ "conflict" \in Answers
  BY DEF Answers
<1>2. ASSUME SubmitReview(x) PROVE ApiInv'
  BY <1>1, <1>2, HandKept DEF SubmitReview
<1>3. ASSUME CancelWorkflow(x) PROVE ApiInv'
  BY <1>1, <1>3, HandKept DEF CancelWorkflow
<1>4. ASSUME RecoverWorkflow(x) PROVE ApiInv'
  BY <1>1, <1>4, HandKept, AnswerIsQuiet DEF RecoverWorkflow
<1>5. ASSUME StartWorkflow(x) PROVE ApiInv'
  BY <1>5, EffectIsQuiet DEF StartWorkflow
<1> QED
  BY <1>2, <1>3, <1>4, <1>5

(* A call that dies between the two transactions of a creation is the one   *)
(* that tells why the case has no consent record.                           *)
LEMMA DeathKept ==
  ASSUME ApiInv, NEW x \in ApiCalls, ApiCallDies(x)
  PROVE  ApiInv'
<1>0. CallSound(acalls[x]) /\ acalls[x] # NoApiCall /\ acalls[x] \in SentCall
  BY CallAtWork DEF ApiInv, ApiCallDies
<1>1. PICK k \in SentCall :
           /\ acalls' = [acalls EXCEPT ![x] = k]
           /\ k.step = "dead" /\ k.op = acalls[x].op /\ k.tenant = acalls[x].tenant
           /\ k.of = acalls[x].of /\ k.seen = acalls[x].seen
           /\ k.effect = acalls[x].effect /\ k.answer = acalls[x].answer
  BY AdvanceMoves DEF ApiInv, ApiCallDies, CallSteps
<1>2. RowsGrow
  BY NothingChanged DEF ApiCallDies
<1>3. CallSound(k)'
  BY <1>0, <1>1, <1>2, EndedIsSound, SoundCallStays
<1>4. CallsInv'
  BY <1>1, <1>2, <1>3, OneCallMoves DEF ApiInv
<1>5. TrailInv'
  BY <1>1, TrailStays DEF ApiInv, ApiCallDies
<1>6. ConsentFollowsCreation'
  <2> SUFFICES ASSUME NEW c \in CaseIds, rows[c] > 0, consents[c] = <<>>
               PROVE  \E y \in ApiCalls :
                        /\ acalls'[y].op = "create" /\ acalls'[y].of = c /\ acalls'[y].effect
                        /\ acalls'[y].step \in {"consent", "dead"}
    BY DEF ConsentFollowsCreation, ApiCallDies, apiRows
  <2>1. PICK y \in ApiCalls :
          /\ acalls[y].op = "create" /\ acalls[y].of = c /\ acalls[y].effect
          /\ acalls[y].step \in {"consent", "dead"}
    BY DEF ConsentFollowsCreation, ApiInv
  <2>2. CASE y = x
    <3>1. acalls'[x] = k
      BY <1>1 DEF ApiInv, CallsInv
    <3> QED
      BY <1>1, <2>1, <2>2, <3>1
  <2>3. CASE y # x
    <3>1. acalls'[y] = acalls[y]
      BY <1>1, <2>3 DEF ApiInv, CallsInv
    <3> QED
      BY <2>1, <3>1
  <2> QED
    BY <2>2, <2>3
<1>7. TablesInv'
  BY TablesStay DEF ApiInv, ApiCallDies
<1> QED
  BY <1>4, <1>5, <1>6, <1>7 DEF ApiInv

(* The tables under the writes.                                             *)

LEMMA InsertKept ==
  ASSUME ApiInv, NEW x \in ApiCalls, InsertCase(x)
  PROVE  ApiInv'
<1> DEFINE c == acalls[x].of
<1>0. CallSound(acalls[x]) /\ acalls[x] # NoApiCall /\ acalls[x] \in SentCall
  BY CallAtWork DEF ApiInv, InsertCase
<1>1. c \in CaseIds
  BY <1>0 DEF SentCall
<1>2. CASE ~KeyFree(c)
  <2>1. Answer(x, "existing") /\ UNCHANGED <<apiRows, trail>> /\ "existing" \in Answers
    BY <1>2 DEF InsertCase, apiRows, Answers
  <2> QED
    BY <2>1, AnswerIsQuiet DEF InsertCase
<1>3. CASE KeyFree(c)
  <2>1. /\ rows' = [rows EXCEPT ![c] = @ + 1]
        /\ version' = [version EXCEPT ![c] = 1]
        /\ cstatus' = [cstatus EXCEPT ![c] = "DRAFT"]
        /\ events' = [events EXCEPT ![c]["LoanCaseCreated"] = @ + 1]
        /\ Effect(x, "consent") /\ UNCHANGED <<consents, reviews, trail>>
        /\ acalls[x].step = "insert" /\ rows[c] = 0
    BY <1>3 DEF InsertCase, KeyFree
  <2>2. PICK k \in SentCall :
          /\ acalls' = [acalls EXCEPT ![x] = k]
          /\ k.step = "consent" /\ k.op = acalls[x].op /\ k.tenant = acalls[x].tenant
          /\ k.of = acalls[x].of /\ k.effect
    BY <2>1, EffectMoves DEF ApiInv, CallSteps
  <2>3. rows \in [CaseIds -> 0..1] /\ rows' \in [CaseIds -> 0..1]
    BY <1>1, <2>1, SMTT(30) DEF ApiInv, TablesInv, ApiTypeOK
  <2>4. rows'[c] = 1 /\ \A d \in CaseIds : d # c => rows'[d] = rows[d]
    BY <1>1, <2>1, <2>3, SMTT(30)
  <2>5. RowsGrow
    BY <2>1, <2>3, <2>4 DEF RowsGrow
  <2>6. acalls[x].op = "create" /\ acalls[x].of[1] = acalls[x].tenant
    BY <1>0, <2>1 DEF CallSound
  <2>7. CallSound(k)'
    BY <2>2, <2>4, <2>6 DEF CallSound
  <2>8. CallsInv'
    BY <2>2, <2>5, <2>7, OneCallMoves DEF ApiInv
  <2>9. TrailInv'
    BY <2>1, <2>2, TrailStays DEF ApiInv
  <2>10. ConsentFollowsCreation'
    <3> SUFFICES ASSUME NEW d \in CaseIds, rows'[d] > 0, consents[d] = <<>>
                 PROVE  \E y \in ApiCalls :
                          /\ acalls'[y].op = "create" /\ acalls'[y].of = d /\ acalls'[y].effect
                          /\ acalls'[y].step \in {"consent", "dead"}
      BY <2>1 DEF ConsentFollowsCreation
    <3>1. CASE d = c
      <4>1. acalls'[x] = k
        BY <2>2 DEF ApiInv, CallsInv
      <4> QED
        BY <2>2, <2>6, <3>1, <4>1
    <3>2. CASE d # c
      <4>1. PICK y \in ApiCalls :
              /\ acalls[y].op = "create" /\ acalls[y].of = d /\ acalls[y].effect
              /\ acalls[y].step \in {"consent", "dead"}
        BY <2>4, <3>2 DEF ConsentFollowsCreation, ApiInv
      <4>2. acalls'[y] = acalls[y]
        BY <2>1, <2>2, <4>1 DEF ApiInv, CallsInv
      <4> QED
        BY <4>1, <4>2
    <3> QED
      BY <3>1, <3>2
  <2>11. version' \in [CaseIds -> Nat] /\ cstatus' \in [CaseIds -> Statuses \cup {"NONE"}]
    BY <2>1 DEF ApiInv, TablesInv, ApiTypeOK, Statuses, Escalatable
  <2>12. /\ events' \in [CaseIds -> [EventTypes -> Nat]]
         /\ events'[c]["LoanCaseCreated"] = events[c]["LoanCaseCreated"] + 1
         /\ \A d \in CaseIds : d # c => events'[d] = events[d]
    <3>1. /\ events \in [CaseIds -> [EventTypes -> Nat]] /\ "LoanCaseCreated" \in EventTypes
          /\ events[c] \in [EventTypes -> Nat]
      BY <1>1 DEF ApiInv, TablesInv, EventTypes
    <3> DEFINE one == [events[c] EXCEPT !["LoanCaseCreated"] = @ + 1]
    <3>2. one \in [EventTypes -> Nat] /\ one["LoanCaseCreated"] = events[c]["LoanCaseCreated"] + 1
      BY <3>1, SMTT(30)
    <3>3. events' = [events EXCEPT ![c] = one]
      BY <2>1
    <3> HIDE DEF one
    <3> QED
      BY <1>1, <3>1, <3>2, <3>3
  <2>13. OneCasePerKey'
    BY <1>1, <2>1, <2>3, <2>4, <2>12, SMTT(30) DEF ApiInv, TablesInv, OneCasePerKey
  <2>14. \A d \in CaseIds : rows'[d] = 0 => consents'[d] = <<>>
    BY <2>1, <2>4 DEF ApiInv, TablesInv, ApiTypeOK
  <2>15. \A d \in CaseIds : Cardinality(Revoked(d)') <= reviews'[d]
    BY <2>1 DEF ApiInv, TablesInv, Revoked
  <2>16. TablesInv'
    BY <2>1, <2>3, <2>11, <2>12, <2>13, <2>14, <2>15 DEF ApiInv, TablesInv, ApiTypeOK
  <2> QED
    BY <2>8, <2>9, <2>10, <2>16 DEF ApiInv
<1> QED
  BY <1>2, <1>3

LEMMA OneAppended ==
  ASSUME NEW S, NEW s \in Seq(S), NEW e \in S
  PROVE  /\ Append(s, e) \in Seq(S)
         /\ Len(Append(s, e)) = Len(s) + 1
         /\ Append(s, e) # <<>>
         /\ Append(s, e)[Len(s) + 1] = e
         /\ \A i \in 1..Len(s) : Append(s, e)[i] = s[i]
BY SMTT(30)

Replaced(s, n, e) == [s EXCEPT ![n] = e]

LEMMA OneReplaced ==
  ASSUME NEW S, NEW s \in Seq(S), NEW e \in S, NEW n \in 1..Len(s)
  PROVE  /\ Replaced(s, n, e) \in Seq(S) /\ Len(Replaced(s, n, e)) = Len(s)
         /\ Replaced(s, n, e)[n] = e
         /\ \A j \in 1..Len(s) : j # n => Replaced(s, n, e)[j] = s[j]
BY SMTT(30) DEF Replaced

(* A new consent record is not a revoked one.                               *)
LEMMA ConsentAppended ==
  ASSUME TablesInv, NEW c \in CaseIds, RecordConsent(c), rows[c] = 1,
         UNCHANGED <<rows, version, cstatus, reviews, events>>
  PROVE  /\ TablesInv' /\ RowsGrow
         /\ \A d \in CaseIds : consents'[d] = <<>> => d # c /\ consents[d] = <<>>
<1>1. consents' = [consents EXCEPT ![c] = Append(consents[c], FALSE)]
  BY DEF RecordConsent, TablesInv
<1>2. consents[c] \in Seq(BOOLEAN) /\ Len(consents[c]) \in Nat
  BY SMTT(30) DEF TablesInv
<1>a. FALSE \in BOOLEAN
  OBVIOUS
<1>b. \A S : \A s \in Seq(S) : \A e \in S :
         /\ Append(s, e) \in Seq(S)
         /\ Len(Append(s, e)) = Len(s) + 1
         /\ Append(s, e) # <<>>
         /\ Append(s, e)[Len(s) + 1] = e
         /\ \A i \in 1..Len(s) : Append(s, e)[i] = s[i]
  BY OneAppended
<1>3. /\ Append(consents[c], FALSE) \in Seq(BOOLEAN)
      /\ Len(Append(consents[c], FALSE)) = Len(consents[c]) + 1
      /\ Append(consents[c], FALSE) # <<>>
      /\ Append(consents[c], FALSE)[Len(consents[c]) + 1] = FALSE
      /\ \A i \in 1..Len(consents[c]) : Append(consents[c], FALSE)[i] = consents[c][i]
  BY <1>2, <1>a, <1>b
<1>4. /\ consents' \in [CaseIds -> Seq(BOOLEAN)] /\ consents'[c] = Append(consents[c], FALSE)
      /\ \A d \in CaseIds : d # c => consents'[d] = consents[d]
  BY <1>1, <1>3 DEF TablesInv
<1>5. RowsGrow
  BY <1>2, <1>3, <1>4, SMTT(30) DEF RowsGrow
<1>6. \A d \in CaseIds : consents'[d] = <<>> => d # c /\ consents[d] = <<>>
  BY <1>3, <1>4
<1>7. Revoked(c)' = Revoked(c)
  <2>3. 1..Len(consents'[c]) = 1..Len(consents[c]) \cup {Len(consents[c]) + 1}
    BY <1>2, <1>3, <1>4, SMTT(30)
  <2> QED
    BY <1>3, <1>4, <2>3 DEF Revoked
<1>8. \A d \in CaseIds : Cardinality(Revoked(d)') <= reviews'[d]
  <2> TAKE d \in CaseIds
  <2>1. Revoked(d)' = Revoked(d)
    BY <1>4, <1>7 DEF Revoked
  <2> QED
    BY <2>1 DEF TablesInv
<1>9. TablesInv'
  BY <1>4, <1>6, <1>8, SMTT(30) DEF TablesInv, ApiTypeOK, OneCasePerKey
<1> QED
  BY <1>5, <1>6, <1>9

LEMMA CreationGrantKept ==
  ASSUME ApiInv, NEW x \in ApiCalls, GrantAtCreation(x)
  PROVE  ApiInv'
<1> DEFINE c == acalls[x].of
<1>0. CallSound(acalls[x]) /\ acalls[x] # NoApiCall /\ acalls[x] \in SentCall
  BY CallAtWork DEF ApiInv, GrantAtCreation
<1>1. c \in CaseIds /\ rows[c] = 1
  BY <1>0 DEF SentCall, CallSound, GrantAtCreation
<1>2. /\ TablesInv' /\ RowsGrow
      /\ \A d \in CaseIds : consents'[d] = <<>> => d # c /\ consents[d] = <<>>
  BY <1>1, ConsentAppended DEF ApiInv, GrantAtCreation
<1>3. PICK k \in SentCall :
        /\ acalls' = [acalls EXCEPT ![x] = k]
        /\ k.step = "answered" /\ k.op = acalls[x].op /\ k.tenant = acalls[x].tenant
        /\ k.of = acalls[x].of /\ k.effect = acalls[x].effect /\ k.answer = "created"
  BY AnswerMoves DEF ApiInv, GrantAtCreation, Answers
<1>4. CallSound(k)'
  BY <1>0, <1>2, <1>3, EndedIsSound, SoundCallStays
<1>5. CallsInv'
  BY <1>2, <1>3, <1>4, OneCallMoves DEF ApiInv
<1>6. TrailInv'
  BY <1>3, TrailStays DEF ApiInv, GrantAtCreation
<1>7. ConsentFollowsCreation'
  <2> SUFFICES ASSUME NEW d \in CaseIds, rows[d] > 0, consents'[d] = <<>>
               PROVE  \E y \in ApiCalls :
                        /\ acalls'[y].op = "create" /\ acalls'[y].of = d /\ acalls'[y].effect
                        /\ acalls'[y].step \in {"consent", "dead"}
    BY DEF ConsentFollowsCreation, GrantAtCreation
  <2>1. d # c /\ consents[d] = <<>>
    BY <1>2
  <2>2. PICK y \in ApiCalls :
          /\ acalls[y].op = "create" /\ acalls[y].of = d /\ acalls[y].effect
          /\ acalls[y].step \in {"consent", "dead"}
    BY <2>1 DEF ConsentFollowsCreation, ApiInv
  <2>3. acalls'[y] = acalls[y]
    BY <1>3, <2>1, <2>2 DEF ApiInv, CallsInv
  <2> QED
    BY <2>2, <2>3
<1> QED
  BY <1>2, <1>5, <1>6, <1>7 DEF ApiInv

(* A command that writes the tables and has taken effect.                   *)
LEMMA WriteKept ==
  ASSUME ApiInv, NEW x \in ApiCalls, acalls[x].step \in {"act", "revoking"}, Effect(x, "audit"),
         TablesInv', RowsGrow, UNCHANGED <<rows, trail>>,
         \A d \in CaseIds : consents'[d] = <<>> => consents[d] = <<>>
  PROVE  ApiInv'
<1>0. CallSound(acalls[x]) /\ acalls[x] # NoApiCall
  BY CallAtWork DEF ApiInv
<1>1. PICK k \in SentCall :
        /\ acalls' = [acalls EXCEPT ![x] = k]
        /\ k.step = "audit" /\ k.op = acalls[x].op /\ k.tenant = acalls[x].tenant
        /\ k.of = acalls[x].of /\ k.effect
  BY EffectMoves DEF ApiInv, CallSteps
<1>2. CallSound(k)
  BY <1>0, <1>1 DEF CallSound
<1>3. CallSound(k)'
  BY <1>2, SoundCallStays
<1>4. CallsInv'
  BY <1>1, <1>3, OneCallMoves DEF ApiInv
<1>5. TrailInv'
  BY <1>1, TrailStays DEF ApiInv
<1>6. ConsentFollowsCreation'
  BY <1>1, MakerStays DEF ApiInv
<1> QED
  BY <1>4, <1>5, <1>6 DEF ApiInv

LEMMA GrantKept ==
  ASSUME ApiInv, NEW x \in ApiCalls, GrantConsent(x)
  PROVE  ApiInv'
<1>0. CallSound(acalls[x]) /\ acalls[x] # NoApiCall /\ acalls[x] \in SentCall
  BY CallAtWork DEF ApiInv, GrantConsent
<1>1. acalls[x].of \in CaseIds /\ rows[acalls[x].of] = 1
  BY <1>0 DEF SentCall, CallSound, GrantConsent
<1>2. /\ TablesInv' /\ RowsGrow
      /\ \A d \in CaseIds : consents'[d] = <<>> => consents[d] = <<>>
  BY <1>1, ConsentAppended DEF ApiInv, GrantConsent
<1> QED
  BY <1>2, WriteKept DEF GrantConsent

LEMMA OneMore ==
  ASSUME NEW S, NEW x, IsFiniteSet(S)
  PROVE  /\ Cardinality(S \cup {x}) \in Nat /\ Cardinality(S) \in Nat
         /\ Cardinality(S \cup {x}) <= Cardinality(S) + 1
<1>1. Cardinality(S) \in Nat
  BY FS_CardinalityType
<1>2. IsFiniteSet(S \cup {x}) /\
      Cardinality(S \cup {x}) = IF x \in S THEN Cardinality(S) ELSE Cardinality(S) + 1
  BY FS_AddElement
<1> QED
  BY <1>1, <1>2, SMTT(30)

LEMMA RevokedCounted ==
  ASSUME TablesInv, NEW c \in CaseIds
  PROVE  IsFiniteSet(Revoked(c)) /\ Cardinality(Revoked(c)) \in Nat
<1>1. Len(consents[c]) \in Nat
  BY SMTT(30) DEF TablesInv
<1>2. IsFiniteSet(1..Len(consents[c]))
  BY <1>1, FS_Interval, SMTT(30)
<1>3. Revoked(c) \subseteq 1..Len(consents[c])
  BY DEF Revoked
<1>4. IsFiniteSet(Revoked(c))
  BY <1>2, <1>3, FS_Subset
<1> QED
  BY <1>4, FS_CardinalityType

(* One more record is revoked, and one more review is opened.               *)
LEMMA RevokeKept ==
  ASSUME ApiInv, NEW x \in ApiCalls, RevokeConsent(x)
  PROVE  ApiInv'
<1>c. PICK c : c = acalls[x].of
  OBVIOUS
<1>d. PICK i : i = acalls[x].seen
  OBVIOUS
<1> DEFINE after == Replaced(consents[c], i, TRUE)
<1>0. CallSound(acalls[x]) /\ acalls[x] # NoApiCall /\ acalls[x] \in SentCall
  BY CallAtWork DEF ApiInv, RevokeConsent
<1>1. c \in CaseIds /\ rows[c] = 1 /\ i \in 1..Len(consents[c])
  BY <1>0, <1>c, <1>d DEF SentCall, CallSound, RevokeConsent
<1>2. consents[c] \in Seq(BOOLEAN) /\ consents \in [CaseIds -> Seq(BOOLEAN)] /\ TablesInv
  BY <1>1 DEF ApiInv, TablesInv
<1>a. TRUE \in BOOLEAN
  OBVIOUS
<1>b. \A e \in BOOLEAN :
        /\ Replaced(consents[c], i, e) \in Seq(BOOLEAN)
        /\ Len(Replaced(consents[c], i, e)) = Len(consents[c])
        /\ Replaced(consents[c], i, e)[i] = e
        /\ \A j \in 1..Len(consents[c]) : j # i => Replaced(consents[c], i, e)[j] = consents[c][j]
  BY <1>1, <1>2, OneReplaced, SMTT(30)
<1>e. after \in Seq(BOOLEAN) /\ Len(after) = Len(consents[c])
  BY <1>a, <1>b
<1>f. after[i]
  BY <1>a, <1>b
<1>g. \A j \in 1..Len(consents[c]) : j # i => after[j] = consents[c][j]
  BY <1>a, <1>b
<1>3. /\ after \in Seq(BOOLEAN) /\ Len(after) = Len(consents[c]) /\ after[i]
      /\ \A j \in 1..Len(consents[c]) : j # i => after[j] = consents[c][j]
  BY <1>e, <1>f, <1>g
<1>4. consents' = [consents EXCEPT ![c] = after]
  BY <1>c, <1>d DEF RevokeConsent, Replaced
<1>5. /\ UNCHANGED <<rows, version, cstatus, events, trail>> /\ Effect(x, "audit")
      /\ acalls[x].step = "revoking"
  BY DEF RevokeConsent
<1>6. reviews' = [reviews EXCEPT ![c] = reviews[c] + 1] /\ reviews \in [CaseIds -> Nat]
  BY <1>c DEF RevokeConsent, ReviewsOpened, ApiInv, TablesInv
<1> HIDE DEF after
<1>7. /\ consents' \in [CaseIds -> Seq(BOOLEAN)] /\ consents'[c] = after
      /\ \A d \in CaseIds : d # c => consents'[d] = consents[d]
  BY <1>1, <1>2, <1>3, <1>4
<1>8. \A d \in CaseIds : Len(consents'[d]) = Len(consents[d])
  BY <1>3, <1>7
<1>9. RowsGrow
  BY <1>5, <1>8 DEF RowsGrow
<1>10. \A d \in CaseIds : consents'[d] = <<>> <=> consents[d] = <<>>
  BY <1>2, <1>7, <1>8, SMTT(30)
<1>11. Revoked(c)' = Revoked(c) \cup {i}
  <2>1. 1..Len(consents'[c]) = 1..Len(consents[c])
    BY <1>1, <1>8
  <2>2. \A j \in 1..Len(consents[c]) : consents'[c][j] <=> consents[c][j] \/ j = i
    BY <1>3, <1>7
  <2> QED
    BY <1>1, <2>1, <2>2 DEF Revoked
<1>12. /\ Cardinality(Revoked(c)) \in Nat /\ Cardinality(Revoked(c)') \in Nat
       /\ Cardinality(Revoked(c)') <= Cardinality(Revoked(c)) + 1
  <2>1. IsFiniteSet(Revoked(c)) /\ Cardinality(Revoked(c)) \in Nat
    BY <1>1, <1>2, RevokedCounted
  <2>2. /\ Cardinality(Revoked(c) \cup {i}) \in Nat
        /\ Cardinality(Revoked(c) \cup {i}) <= Cardinality(Revoked(c)) + 1
        /\ Cardinality(Revoked(c)) \in Nat
    BY <2>1, OneMore
  <2> QED
    BY <1>11, <2>2
<1>13. \A d \in CaseIds : d # c => Revoked(d)' = Revoked(d) /\ reviews'[d] = reviews[d]
  BY <1>6, <1>7 DEF Revoked
<1>14. Cardinality(Revoked(c)) <= reviews[c] /\ reviews[c] \in Nat /\ reviews'[c] = reviews[c] + 1
  BY <1>1, <1>2, <1>6 DEF TablesInv
<1>15. \A d \in CaseIds : Cardinality(Revoked(d)') <= reviews'[d]
  <2>1. Cardinality(Revoked(c)') <= reviews'[c]
    BY <1>12, <1>14, SMTT(30)
  <2> QED
    BY <1>2, <1>13, <2>1 DEF TablesInv
<1>16. TablesInv'
  <2>1. reviews' \in [CaseIds -> Nat]
    BY <1>6, <1>14, SMTT(30)
  <2>2. ApiTypeOK' /\ OneCasePerKey'
    BY <1>2, <1>5, <1>10 DEF TablesInv, ApiTypeOK, OneCasePerKey
  <2>3. events' \in [CaseIds -> [EventTypes -> Nat]]
    BY <1>2, <1>5 DEF TablesInv
  <2> QED
    BY <1>7, <1>15, <2>1, <2>2, <2>3 DEF TablesInv
<1> QED
  BY <1>5, <1>9, <1>10, <1>16, WriteKept

LEMMA EscalateKept ==
  ASSUME ApiInv, NEW x \in ApiCalls, Escalate(x)
  PROVE  ApiInv'
<1> DEFINE c == acalls[x].of
<1>0. acalls[x] \in SentCall
  BY CallAtWork DEF ApiInv, Escalate
<1>1. c \in CaseIds
  BY <1>0 DEF SentCall
<1>2. CASE ~CasMatches(x)
  <2>1. Answer(x, "conflict") /\ UNCHANGED <<apiRows, trail>> /\ "conflict" \in Answers
    BY <1>2 DEF Escalate, apiRows, Answers
  <2> QED
    BY <2>1, AnswerIsQuiet DEF Escalate
<1>3. CASE CasMatches(x)
  <2>1. /\ version' = [version EXCEPT ![c] = @ + 1]
        /\ cstatus' = [cstatus EXCEPT ![c] = "WAITING_FOR_REVIEW"]
        /\ events' = [events EXCEPT ![c]["CaseEscalated"] = @ + 1]
        /\ Effect(x, "audit") /\ UNCHANGED <<rows, consents, reviews, trail>>
        /\ acalls[x].step = "act"
    BY <1>3 DEF Escalate
  <2>2. version' \in [CaseIds -> Nat] /\ cstatus' \in [CaseIds -> Statuses \cup {"NONE"}]
    BY <1>1, <2>1, SMTT(30) DEF ApiInv, TablesInv, ApiTypeOK, Statuses
  <2>3. /\ events \in [CaseIds -> [EventTypes -> Nat]] /\ "CaseEscalated" \in EventTypes
        /\ "LoanCaseCreated" \in EventTypes /\ events[c] \in [EventTypes -> Nat]
    BY <1>1 DEF ApiInv, TablesInv, EventTypes
  <2> DEFINE one == [events[c] EXCEPT !["CaseEscalated"] = @ + 1]
  <2>4. one \in [EventTypes -> Nat] /\ one["LoanCaseCreated"] = events[c]["LoanCaseCreated"]
    BY <2>3, SMTT(30)
  <2>5. events' = [events EXCEPT ![c] = one]
    BY <2>1
  <2> HIDE DEF one
  <2>6. /\ events' \in [CaseIds -> [EventTypes -> Nat]]
        /\ \A d \in CaseIds : events'[d]["LoanCaseCreated"] = events[d]["LoanCaseCreated"]
    BY <1>1, <2>3, <2>4, <2>5
  <2>7. OneCasePerKey'
    BY <2>1, <2>6 DEF ApiInv, TablesInv, OneCasePerKey
  <2>8. \A d \in CaseIds : Cardinality(Revoked(d)') <= reviews'[d]
    BY <2>1 DEF ApiInv, TablesInv, Revoked
  <2>9. TablesInv'
    BY <2>1, <2>2, <2>6, <2>7, <2>8 DEF ApiInv, TablesInv, ApiTypeOK
  <2>10. RowsGrow
    BY <2>1 DEF RowsGrow
  <2> QED
    BY <2>1, <2>9, <2>10, WriteKept
<1> QED
  BY <1>2, <1>3

LEMMA MovesKept ==
  ASSUME ApiInv, NEW c \in CaseIds, WorkflowMoves(c)
  PROVE  ApiInv'
<1>1. /\ version' = [version EXCEPT ![c] = @ + 1]
      /\ UNCHANGED <<rows, consents, reviews, events, trail, acalls>>
      /\ \E s \in Statuses \ {"DRAFT", cstatus[c]} : cstatus' = [cstatus EXCEPT ![c] = s]
  BY DEF WorkflowMoves
<1>2. version' \in [CaseIds -> Nat] /\ cstatus' \in [CaseIds -> Statuses \cup {"NONE"}]
  BY <1>1, SMTT(30) DEF ApiInv, TablesInv, ApiTypeOK
<1>3. \A d \in CaseIds : Cardinality(Revoked(d)') <= reviews'[d]
  BY <1>1 DEF ApiInv, TablesInv, Revoked
<1>4. TablesInv'
  BY <1>1, <1>2, <1>3 DEF ApiInv, TablesInv, ApiTypeOK, OneCasePerKey
<1>5. CallsInv' /\ TrailInv' /\ ConsentFollowsCreation'
  BY <1>1, SMTT(30)
     DEF ApiInv, CallsInv, CallSound, TrailInv, AuditTellsTheTruth, ConsentFollowsCreation
<1> QED
  BY <1>4, <1>5 DEF ApiInv

LEMMA ApiStart == ApiInit => ApiInv
<1> SUFFICES ASSUME ApiInit PROVE ApiInv
  OBVIOUS
<1>1. PICK old \in {{}} \cup {{c} : c \in OldCases} :
       /\ rows = [c \in CaseIds |-> IF c \in old THEN 1 ELSE 0]
       /\ version = rows
       /\ cstatus = [c \in CaseIds |-> IF c \in old THEN "DRAFT" ELSE "NONE"]
       /\ consents = [c \in CaseIds |-> IF c \in old THEN <<FALSE, FALSE>> ELSE <<>>]
       /\ events = [c \in CaseIds |->
                     [e \in EventTypes |-> IF e = "LoanCaseCreated" THEN rows[c] ELSE 0]]
       /\ \E first \in ApiCalls :
            acalls = [x \in ApiCalls |->
              IF x = first /\ old # {} THEN Revoking(CHOOSE c \in old : TRUE) ELSE NoApiCall]
  BY DEF ApiInit
<1>2. <<FALSE, FALSE>> \in Seq(BOOLEAN) /\ <<>> \in Seq(BOOLEAN)
  BY SMTT(30)
<1>3. /\ rows \in [CaseIds -> 0..1]
      /\ cstatus \in [CaseIds -> Statuses \cup {"NONE"}]
      /\ events \in [CaseIds -> [EventTypes -> Nat]]
      /\ consents \in [CaseIds -> Seq(BOOLEAN)]
      /\ \A c \in CaseIds : rows[c] = 0 => consents[c] = <<>>
  <2>1. rows \in [CaseIds -> 0..1]
    BY <1>1, SMTT(30)
  <2>2. cstatus \in [CaseIds -> Statuses \cup {"NONE"}]
    BY <1>1 DEF Statuses, Escalatable
  <2>3. events \in [CaseIds -> [EventTypes -> Nat]]
    BY <1>1, <2>1
  <2>4. consents \in [CaseIds -> Seq(BOOLEAN)]
    BY <1>1, <1>2
  <2>5. \A c \in CaseIds : rows[c] = 0 => consents[c] = <<>>
    BY <1>1, SMTT(30)
  <2> QED
    BY <2>1, <2>2, <2>3, <2>4, <2>5
<1>4. OneCasePerKey
  BY <1>1, <1>3, SMTT(30) DEF OneCasePerKey, EventTypes
<1>5. \A c \in CaseIds : Revoked(c) = {}
  <2> TAKE c \in CaseIds
  <2>1. consents[c] = <<FALSE, FALSE>> \/ consents[c] = <<>>
    BY <1>1
  <2>4. \A e : \A i \in 1..Len(<<e, e>>) : <<e, e>>[i] = e
    BY SMTT(30)
  <2>2. \A i \in 1..Len(<<FALSE, FALSE>>) : ~(<<FALSE, FALSE>>[i])
    BY <2>4
  <2>3. 1..Len(<<>>) = {}
    BY SMTT(30)
  <2> QED
    BY <2>1, <2>2, <2>3 DEF Revoked
<1>6. reviews = [c \in CaseIds |-> 0] /\ trail = {}
  BY DEF ApiInit
<1>7. TablesInv
  <2>1. \A c \in CaseIds : Cardinality(Revoked(c)) <= reviews[c]
    BY <1>5, <1>6, FS_EmptySet, SMTT(30)
  <2>2. version \in [CaseIds -> Nat] /\ reviews \in [CaseIds -> Nat]
    BY <1>1, <1>3, <1>6
  <2> QED
    BY <1>3, <1>4, <2>1, <2>2 DEF TablesInv, ApiTypeOK
<1>8. CallsInv
  <2>1. acalls = [x \in ApiCalls |-> acalls[x]]
    BY <1>1
  <2>2. ASSUME NEW x \in ApiCalls, acalls[x] # NoApiCall PROVE CallSound(acalls[x])
    <3>1. old # {} /\ acalls[x] = Revoking(CHOOSE c \in old : TRUE)
      BY <1>1, <2>2
    <3>2. PICK c \in OldCases : old = {c}
      BY <1>1, <3>1
    <3>3. c \in CaseIds /\ acalls[x] = Revoking(c)
      BY <3>1, <3>2, CaseApiAssumption
    <3>4. c[1] \in Tenants
      BY <3>3 DEF CaseIds
    <3>5. Revoking(c) \in SentCall
      BY <3>3, <3>4 DEF Revoking, NoApiCall, SentCall, CallSteps, Answers, Ops, Writes, ApiRoles
    <3>6. /\ Revoking(c).of = c /\ Revoking(c).tenant = c[1] /\ Revoking(c).step = "act"
      BY DEF Revoking, NoApiCall
    <3>7. rows[c] = 1
      BY <1>1, <3>2, <3>3
    <3> QED
      BY <3>3, <3>5, <3>6, <3>7 DEF CallSound
  <2>3. ASSUME NEW x \in ApiCalls PROVE CallSound(acalls[x])
    BY <2>2 DEF CallSound
  <2> QED
    BY <2>1, <2>3 DEF CallsInv
<1>9. TrailInv
  BY <1>6 DEF TrailInv, AuditTellsTheTruth
<1>10. ConsentFollowsCreation
  BY <1>1, SMTT(30) DEF ConsentFollowsCreation
<1> QED
  BY <1>7, <1>8, <1>9, <1>10 DEF ApiInv

LEMMA ApiKept == ApiInv /\ [ApiNext]_apiVars => ApiInv'
<1> SUFFICES ASSUME ApiInv, [ApiNext]_apiVars PROVE ApiInv'
  OBVIOUS
<1>1. ASSUME NEW x \in ApiCalls,
             \/ CreateCaseRoute(x) \/ StartRoute(x) \/ CancelRoute(x) \/ RecoverRoute(x)
             \/ ReviewRoute(x) \/ ConsentRoute(x) \/ EscalateRoute(x)
             \/ StartMutation(x) \/ ReviewMutation(x) \/ ConsentMutation(x) \/ EscalateMutation(x)
      PROVE  ApiInv'
  <2>1. \E ops \in SUBSET Ops : Arrive(x, ops)
    BY <1>1 DEF CreateCaseRoute, StartRoute, CancelRoute, RecoverRoute, ReviewRoute, ConsentRoute,
       EscalateRoute, StartMutation, ReviewMutation, ConsentMutation, EscalateMutation,
       Ops, Writes, ReviewerOps
  <2> QED
    BY <2>1, ArriveKept
<1>2. CASE UNCHANGED apiVars
  <2>1. UNCHANGED <<apiRows, trail, acalls>>
    BY <1>2 DEF apiVars
  <2>2. TablesInv'
    BY <2>1, TablesStay DEF ApiInv
  <2>3. CallsInv' /\ TrailInv' /\ ConsentFollowsCreation'
    BY <2>1, SMTT(30) DEF ApiInv, apiRows, CallsInv, CallSound, TrailInv, AuditTellsTheTruth,
       ConsentFollowsCreation
  <2> QED
    BY <2>2, <2>3 DEF ApiInv
<1> QED
  BY <1>1, <1>2, GuardKept, FindKept, InsertKept, CreationGrantKept, GetKept, GrantKept,
     RevokeReadKept, RevokeKept, EscalateKept, ReviewerKept, AuditKept, DeathKept, MovesKept
  DEF ApiNext

LEMMA ApiInvImplies == ApiInv => CasesAreSound
<1> SUFFICES ASSUME ApiInv PROVE CasesAreSound
  OBVIOUS
<1>1. TablesInv /\ CallsInv /\ TrailInv /\ ConsentFollowsCreation
  BY DEF ApiInv
<1>2. \A c \in CaseIds : 1..Len(consents[c]) \ ActiveConsents(c) = Revoked(c)
  BY DEF ActiveConsents, Revoked
<1>3. EveryRevocationReviewed
  BY <1>1, <1>2 DEF TablesInv, EveryRevocationReviewed
<1>4. ActsOnOwnCase
  BY <1>1, SMTT(30) DEF CallsInv, CallSound, NoApiCall, ActsOnOwnCase
<1> QED
  BY <1>1, <1>3, <1>4 DEF TablesInv, TrailInv, CasesAreSound

(* However many tenants, cases, records and overlapping calls there are,    *)
(* and wherever calls die: one case per key, announced once; no case        *)
(* without a consent record but for a creation cut in half; a review for    *)
(* every revoked record; effects on own cases only; and a truthful trail    *)
(* (cases.service.ts, consent.service.ts, audit-event.service.ts).          *)
THEOREM CasesAlwaysSound == ApiSpec => []CasesAreSound
BY ApiStart, ApiKept, ApiInvImplies, PTL DEF ApiSpec

LEMMA EscalationStep ==
  ASSUME ApiInv, ApiNext
  PROVE  EscalatesAsSeen
<1> SUFFICES ASSUME NEW x \in ApiCalls, acalls[x].op = "escalate", ~acalls[x].effect,
                    acalls'[x].effect
             PROVE  version[acalls[x].of] = acalls[x].seen
  BY DEF EscalatesAsSeen
<1>0. acalls[x] \in SentCall /\ acalls[x] # NoApiCall /\ CallSound(acalls[x])
  BY SMTT(30) DEF ApiInv, CallsInv, CallSound, NoApiCall
<1>a. acalls'[x].effect # acalls[x].effect
  OBVIOUS
<1>b. CallsInv
  BY DEF ApiInv
<1>1. ASSUME NEW y \in ApiCalls, NEW step \in CallSteps, Advance(y, step) PROVE FALSE
  <2>1. acalls'[x].effect = acalls[x].effect
    BY <1>0, <1>1, <1>b DEF Advance, CallsInv, SentCall
  <2> QED
    BY <1>a, <2>1
<1>2. ASSUME NEW y \in ApiCalls, NEW what, Answer(y, what) PROVE FALSE
  <2>1. acalls'[x].effect = acalls[x].effect
    BY <1>0, <1>2, <1>b DEF Answer, CallsInv, SentCall
  <2> QED
    BY <1>a, <2>1
<1>3. ASSUME NEW y \in ApiCalls, NEW step \in CallSteps, Effect(y, step) PROVE y = x
  <2>1. ASSUME y # x PROVE acalls'[x] = acalls[x]
    BY <1>3, <1>b, <2>1 DEF Effect, CallsInv
  <2> QED
    BY <1>a, <2>1
<1>4. ASSUME NEW y \in ApiCalls, NEW ops, Arrive(y, ops) PROVE FALSE
  <2>1. CASE y # x
    <3>1. acalls'[x] = acalls[x]
      BY <1>4, <1>b, <2>1 DEF Arrive, CallsInv
    <3> QED
      BY <1>a, <3>1
  <2>2. CASE y = x
    <3>1. acalls[x].step = "unsent"
      BY <1>4, <2>2 DEF Arrive
    <3> QED
      BY <1>0, <3>1 DEF SentCall, CallSteps
  <2> QED
    BY <2>1, <2>2
<1>5. ASSUME NEW y \in ApiCalls, Guard(y) PROVE FALSE
  <2>1. Advance(y, "existing") \/ Advance(y, "getCase") \/ Answer(y, "forbidden")
    BY <1>5 DEF Guard
  <2> QED
    BY <1>1, <1>2, <2>1 DEF CallSteps
<1>6. ASSUME NEW y \in ApiCalls, FindExisting(y) PROVE FALSE
  BY <1>1, <1>2, <1>6 DEF FindExisting, CallSteps
<1>7. ASSUME NEW y \in ApiCalls, InsertCase(y) PROVE FALSE
  <2>1. Effect(y, "consent") \/ Answer(y, "existing")
    BY <1>7 DEF InsertCase
  <2>2. y = x /\ acalls[x].step = "insert"
    BY <1>2, <1>3, <1>7, <2>1 DEF InsertCase, CallSteps
  <2> QED
    BY <1>0, <2>2 DEF CallSound
<1>8. ASSUME NEW y \in ApiCalls, GrantAtCreation(y) PROVE FALSE
  BY <1>2, <1>8 DEF GrantAtCreation
<1>9. ASSUME NEW y \in ApiCalls, GetCase(y) PROVE FALSE
  <2>1. acalls'[x].effect = acalls[x].effect
    <3>1. CASE Found(y)
      BY <1>0, <1>9, <1>b, <3>1 DEF GetCase, CallsInv, SentCall
    <3>2. CASE ~Found(y)
      BY <1>2, <1>9, <3>2 DEF GetCase
    <3> QED
      BY <3>1, <3>2
  <2> QED
    BY <1>a, <2>1
<1>10. ASSUME NEW y \in ApiCalls, GrantConsent(y) PROVE FALSE
  BY <1>3, <1>10 DEF GrantConsent, CallSteps
<1>11. ASSUME NEW y \in ApiCalls, RevokeRead(y) PROVE FALSE
  <2>1. acalls'[x].effect = acalls[x].effect
    <3>1. CASE ActiveConsents(acalls[y].of) # {}
      BY <1>0, <1>11, <1>b, <3>1 DEF RevokeRead, CallsInv, SentCall
    <3>2. CASE ActiveConsents(acalls[y].of) = {}
      BY <1>2, <1>11, <3>2 DEF RevokeRead
    <3> QED
      BY <3>1, <3>2
  <2> QED
    BY <1>a, <2>1
<1>12. ASSUME NEW y \in ApiCalls, RevokeConsent(y) PROVE FALSE
  <2>1. y = x /\ acalls[x].step = "revoking"
    BY <1>3, <1>12 DEF RevokeConsent, CallSteps
  <2> QED
    BY <1>0, <2>1 DEF CallSound
<1>13. ASSUME NEW y \in ApiCalls, Escalate(y) PROVE version[acalls[x].of] = acalls[x].seen
  BY <1>2, <1>3, <1>13 DEF Escalate, CasMatches, CallSteps
<1>14. ASSUME NEW y \in ApiCalls, NEW answers, acalls[y].op # "escalate",
              HandToWorkflow(y, answers)
       PROVE  FALSE
  BY <1>2, <1>3, <1>14 DEF HandToWorkflow, CallSteps
<1>15. ASSUME NEW y \in ApiCalls, SubmitReview(y) \/ CancelWorkflow(y) \/ RecoverWorkflow(y)
       PROVE  FALSE
  BY <1>2, <1>14, <1>15 DEF SubmitReview, CancelWorkflow, RecoverWorkflow
<1>16. ASSUME NEW y \in ApiCalls, StartWorkflow(y) PROVE FALSE
  BY <1>3, <1>16 DEF StartWorkflow, CallSteps
<1>17. ASSUME NEW y \in ApiCalls, Audit(y) \/ ApiCallDies(y) PROVE FALSE
  BY <1>1, <1>2, <1>17 DEF Audit, ApiCallDies, CallSteps
<1>18. ASSUME NEW c \in CaseIds, WorkflowMoves(c) PROVE FALSE
  BY <1>a, <1>18 DEF WorkflowMoves
<1>19. ASSUME NEW y \in ApiCalls,
             \/ CreateCaseRoute(y) \/ StartRoute(y) \/ CancelRoute(y) \/ RecoverRoute(y)
             \/ ReviewRoute(y) \/ ConsentRoute(y) \/ EscalateRoute(y)
             \/ StartMutation(y) \/ ReviewMutation(y) \/ ConsentMutation(y) \/ EscalateMutation(y)
      PROVE  FALSE
  <2>1. \E ops : Arrive(y, ops)
    BY <1>19
       DEF CreateCaseRoute, StartRoute, CancelRoute, RecoverRoute, ReviewRoute, ConsentRoute,
       EscalateRoute, StartMutation, ReviewMutation, ConsentMutation, EscalateMutation
  <2> QED
    BY <1>4, <2>1
<1> QED
  BY <1>5, <1>6, <1>7, <1>8, <1>9, <1>10, <1>11, <1>12, <1>13, <1>15, <1>16, <1>17, <1>18, <1>19
  DEF ApiNext

(* No step of any number of calls escalates a case that has moved since its *)
(* caller read it (escalate-to-reviewer.tool.ts).                           *)
THEOREM EscalationsNeverStale == ApiSpec => EscalationIsNotStale
<1>1. ApiInv /\ [ApiNext]_apiVars => [EscalatesAsSeen]_apiVars
  BY EscalationStep
<1>2. ApiSpec => []ApiInv
  BY ApiStart, ApiKept, PTL DEF ApiSpec
<1> QED
  BY <1>1, <1>2, PTL DEF ApiSpec, EscalationIsNotStale

-----------------------------------------------------------------------------
(***************************************************************************)
(* Communications.                                                         *)
(***************************************************************************)

(* A reviewer has approved a message as it is; the channel has been handed  *)
(* it; it may go out.                                                       *)
ApprovedMessage(m) == \E a \in approvals : a.message = m
Delivered(m) == \E i \in DOMAIN delivered : delivered[i].message = m
Cleared(m) ==
  /\ m \in DOMAIN messages
  /\ messages[m].classification = "PROTECTED" =>
       [message |-> m, content |-> messages[m].content] \in approvals

(* Approved template text with every placeholder filled.                    *)
Plain(part) == "lit" \in DOMAIN part \/ ("value" \in DOMAIN part /\ part.value = "plain")

MessagesInv ==
  /\ templates \subseteq Keys
  /\ messages \in Seq(MessageRecord)
  /\ \A m \in DOMAIN messages :
       /\ messages[m].classification = "ROUTINE" =>
            \A j \in DOMAIN messages[m].content : Plain(messages[m].content[j])
       /\ messages[m].status \in {"APPROVED", "SENT"} => Cleared(m)
  /\ \A a \in approvals : a.message \in DOMAIN messages

DeliveredRow == [message: Nat, content: Seq(Part)]
DeliveredInv ==
  /\ delivered \in Seq(DeliveredRow)
  /\ \A i \in DOMAIN delivered :
       /\ Cleared(delivered[i].message)
       /\ delivered[i].content = messages[delivered[i].message].content

EntryOK(e) ==
  /\ e \in [message: DOMAIN messages, action: {"COMMUNICATION_APPROVED", "COMMUNICATION_SENT"}]
  /\ IF e.action = "COMMUNICATION_SENT" THEN Delivered(e.message) ELSE ApprovedMessage(e.message)
EntriesInv == \A e \in entries : EntryOK(e)

(* What a call has checked and not yet acted on.                            *)
CallState(k) ==
  \/ k = Done
  \/ k.step = "approve" /\ k.message \in DOMAIN messages
  \/ /\ k.step \in {"send", "commit"}
     /\ k = [step |-> k.step, message |-> k.message, audited |-> k.audited]
     /\ Cleared(k.message)
     /\ k.step = "commit" => Delivered(k.message)
  \/ k.step = "record" /\ EntryOK([message |-> k.message, action |-> k.action])
  \/ k.step = "draft"
  \/ k.step = "deliver" /\ k.message \in DOMAIN messages
MessageCallsInv == call = [c \in MessageCalls |-> call[c]] /\ \A c \in MessageCalls : CallState(call[c])

(* Every event, and every call that has yet to write its event, has a       *)
(* delivery of its own.                                                     *)
EventsOf(m) == {i \in DOMAIN outbox : outbox[i] = m}
CommitsOf(m) == {c \in MessageCalls : call[c].step = "commit" /\ call[c].message = m}
DeliveriesOf(m) == {i \in DOMAIN delivered : delivered[i].message = m}
Counted(m) ==
  Cardinality(EventsOf(m)) + Cardinality(CommitsOf(m)) <= Cardinality(DeliveriesOf(m))
OutboxInv ==
  /\ outbox \in Seq(Nat)
  /\ \A i \in DOMAIN outbox : outbox[i] \in DOMAIN messages
  /\ \A m \in DOMAIN messages : Counted(m)

CommsInv == MessagesInv /\ DeliveredInv /\ EntriesInv /\ MessageCallsInv /\ OutboxInv

-----------------------------------------------------------------------------
(***************************************************************************)
(* The classifier: what it lets out without a reviewer.                    *)
(***************************************************************************)

LEMMA RenderedParts ==
  ASSUME NEW k \in Keys, NEW in \in Drafts \cup {ReadyDraft}, NEW i \in DOMAIN Template[k].body
  PROVE  /\ Render(k, in.variables)[i] \in Part
         /\ MissingVariables(k, in.variables) = {} /\ Negative(in.variables) = {} =>
              Plain(Render(k, in.variables)[i])
<1> DEFINE body == Template[k].body
           variables == in.variables
<1>1. body \in Seq([lit: STRING] \cup [var: STRING])
  BY CommsAssumption DEF TemplateRow
<1>2. body[i] \in [lit: STRING] \cup [var: STRING]
  BY <1>1, SMTT(30)
<1>3. Render(k, variables)[i] =
        IF "lit" \in DOMAIN body[i] THEN body[i]
        ELSE IF body[i].var \in DOMAIN variables THEN [value |-> variables[body[i].var]]
        ELSE [hole |-> body[i].var]
  BY DEF Render
<1>4. CASE body[i] \in [lit: STRING]
  <2>1. "lit" \in DOMAIN body[i]
    BY <1>4
  <2> QED
    BY <1>3, <1>4, <2>1 DEF Part, Plain
<1>5. CASE body[i] \in [var: STRING]
  <2>1. "lit" \notin DOMAIN body[i] /\ "var" \in DOMAIN body[i] /\ body[i].var \in STRING
    BY <1>5
  <2>2. PICK x : x = body[i].var
    OBVIOUS
  <2>3. CASE x \in DOMAIN variables
    <3>1. Render(k, variables)[i] = [value |-> variables[x]]
      BY <1>3, <2>1, <2>2, <2>3
    <3>2. variables[x] \in {"plain", "negative"}
      BY <2>3, CommsAssumption
    <3>3. Negative(variables) = {} => variables[x] = "plain"
      BY <2>3, <3>2 DEF Negative
    <3>4. PICK v \in {"plain", "negative"} : v = variables[x]
      BY <3>2
    <3>5. [value |-> v] \in Part /\ (v = "plain" => Plain([value |-> v]))
      BY DEF Part, Plain
    <3> QED
      BY <3>1, <3>3, <3>4, <3>5
  <2>4. CASE x \notin DOMAIN variables
    <3>1. Render(k, variables)[i] = [hole |-> x]
      BY <1>3, <2>1, <2>2, <2>4
    <3>2. x \in MissingVariables(k, variables)
      BY <2>1, <2>2, <2>4 DEF MissingVariables
    <3>3. [hole |-> x] \in Part
      BY <2>1, <2>2 DEF Part
    <3> QED
      BY <3>1, <3>2, <3>3
  <2> QED
    BY <2>3, <2>4
<1> QED
  BY <1>2, <1>4, <1>5

LEMMA RenderIsText ==
  ASSUME NEW k \in Keys, NEW in \in Drafts \cup {ReadyDraft}
  PROVE  /\ Render(k, in.variables) \in Seq(Part)
         /\ MissingVariables(k, in.variables) = {} /\ Negative(in.variables) = {} =>
              \A j \in DOMAIN Render(k, in.variables) : Plain(Render(k, in.variables)[j])
<1> DEFINE body == Template[k].body
           text == Render(k, in.variables)
<1>1. body \in Seq([lit: STRING] \cup [var: STRING])
  BY CommsAssumption DEF TemplateRow
<1>2. PICK n \in Nat : DOMAIN body = 1..n
  BY <1>1, SMTT(30)
<1>3. DOMAIN text = DOMAIN body /\ text = [j \in DOMAIN body |-> text[j]]
  BY DEF Render
<1>4. \A j \in DOMAIN body : text[j] \in Part
  BY RenderedParts
<1>5. text \in [1..n -> Part]
  BY <1>2, <1>3, <1>4
<1>6. text \in Seq(Part)
  BY <1>5, SMTT(30)
<1> QED
  BY <1>3, <1>6, RenderedParts

LEMMA NoReasons ==
  ASSUME NEW k, NEW in, Reasons(k, in) = {}
  PROVE  MissingVariables(k, in.variables) = {} /\ Negative(in.variables) = {}
<1>1. MissingVariables(k, in.variables) = {}
  BY DEF Reasons
<1>2. ReasonsButMissing(k, in) = {}
  BY DEF Reasons
<1>3. "negative" \notin ReasonsButMissing(k, in)
  BY <1>2
<1>4. Negative(in.variables) = {}
  BY <1>3 DEF ReasonsButMissing
<1> QED
  BY <1>1, <1>4

LEMMA NotFound ==
  ASSUME NEW outcome, NEW text, outcome = [reasons |-> {"not found"}, content |-> text]
  PROVE  outcome.content = text /\ outcome.reasons # {}
OBVIOUS

LEMMA NewMessage ==
  ASSUME MessagesInv, NEW in \in Drafts \cup {ReadyDraft}
  PROVE  /\ MessageRow(in) \in MessageRecord
         /\ MessageRow(in).status \in {"DRAFTED", "AWAITING_APPROVAL"}
         /\ MessageRow(in).classification = "ROUTINE" =>
              \A j \in DOMAIN MessageRow(in).content : Plain(MessageRow(in).content[j])
<1> DEFINE outcome == Classify(in)
<1>1. MessageRow(in) =
        [classification |-> IF outcome.reasons = {} THEN "ROUTINE" ELSE "PROTECTED",
         content |-> outcome.content,
         status |-> IF outcome.reasons = {} THEN "DRAFTED" ELSE "AWAITING_APPROVAL"]
  BY DEF MessageRow
<1>2. CASE in.freeform
  <2>1. outcome = [reasons |-> {"free-form"}, content |-> <<[free |-> "text"]>>]
    BY <1>2 DEF Classify
  <2>2. [free |-> "text"] \in Part
    BY DEF Part
  <2>3. <<[free |-> "text"]>> \in Seq(Part)
    BY <2>2, SMTT(30)
  <2> QED
    BY <1>1, <2>1, <2>3, SMTT(30) DEF MessageRecord, Classifications, MessageStatuses
<1>3. CASE ~in.freeform /\ in.template \notin templates
  <2>1. outcome = [reasons |-> {"not found"}, content |-> <<>>]
    BY <1>3 DEF Classify
  <2>3. outcome.content = <<>> /\ outcome.reasons # {}
    BY <2>1, NotFound
  <2>4. outcome.content \in Seq(Part)
    BY <2>3, SMTT(30)
  <2> QED
    BY <1>1, <2>3, <2>4, SMTT(30) DEF MessageRecord, Classifications, MessageStatuses
<1>4. CASE ~in.freeform /\ in.template \in templates
  <2>1. outcome = [reasons |-> Reasons(in.template, in),
                   content |-> Render(in.template, in.variables)]
    BY <1>4 DEF Classify
  <2>2. PICK k \in Keys : k = in.template
    BY <1>4 DEF MessagesInv
  <2>3. PICK text : text = Render(k, in.variables)
    OBVIOUS
  <2>4. text \in Seq(Part) /\ (Reasons(k, in) = {} => \A j \in DOMAIN text : Plain(text[j]))
    BY <2>3, RenderIsText, NoReasons
  <2>5. outcome.content = text /\ outcome.reasons = Reasons(k, in)
    BY <2>1, <2>2, <2>3, SMTT(30)
  <2> QED
    BY <1>1, <2>4, <2>5, SMTT(30) DEF MessageRecord, Classifications, MessageStatuses
<1> QED
  BY <1>2, <1>3, <1>4

-----------------------------------------------------------------------------
(***************************************************************************)
(* What every step leaves alone: text and classification of a message, and *)
(* what has been approved and handed over.                                 *)
(***************************************************************************)

Steady ==
  /\ DOMAIN messages \subseteq DOMAIN messages'
  /\ \A m \in DOMAIN messages : /\ messages'[m].content = messages[m].content
                                /\ messages'[m].classification = messages[m].classification
  /\ approvals \subseteq approvals'
  /\ DOMAIN delivered \subseteq DOMAIN delivered'
  /\ \A i \in DOMAIN delivered : delivered'[i] = delivered[i]

LEMMA FactsStay ==
  ASSUME Steady, NEW m
  PROVE  /\ Cleared(m) => Cleared(m)'
         /\ Delivered(m) => Delivered(m)'
         /\ ApprovedMessage(m) => ApprovedMessage(m)'
<1>1. Cleared(m) => Cleared(m)'
  BY DEF Steady, Cleared
<1>2. Delivered(m) => Delivered(m)'
  BY DEF Steady, Delivered
<1>3. ApprovedMessage(m) => ApprovedMessage(m)'
  BY DEF Steady, ApprovedMessage
<1> QED
  BY <1>1, <1>2, <1>3

LEMMA EntryStays ==
  ASSUME Steady, NEW e, EntryOK(e)
  PROVE  EntryOK(e)'
<1>1. PICK m : m = e.message
  OBVIOUS
<1>2. /\ Delivered(m) => Delivered(m)'
      /\ ApprovedMessage(m) => ApprovedMessage(m)'
  BY FactsStay
<1>3. e \in [message: DOMAIN messages', action: {"COMMUNICATION_APPROVED", "COMMUNICATION_SENT"}]
  BY DEF EntryOK, Steady
<1>4. IF e.action = "COMMUNICATION_SENT" THEN Delivered(m)' ELSE ApprovedMessage(m)'
  BY <1>1, <1>2 DEF EntryOK
<1> QED
  BY <1>1, <1>3, <1>4 DEF EntryOK, Delivered, ApprovedMessage

LEMMA EntriesStay ==
  ASSUME Steady, EntriesInv, entries' = entries
  PROVE  EntriesInv'
<1>1. ASSUME NEW e \in entries PROVE EntryOK(e)'
  BY EntryStays DEF EntriesInv
<1> QED
  BY <1>1 DEF EntriesInv

LEMMA StateStays ==
  ASSUME Steady, NEW k, CallState(k)
  PROVE  CallState(k)'
<1>1. PICK m : m = k.message
  OBVIOUS
<1>2. CASE k = Done \/ k.step = "draft"
  BY <1>2 DEF CallState
<1>3. CASE k.step \in {"approve", "deliver"} /\ k.message \in DOMAIN messages
  BY <1>3 DEF CallState, Steady
<1>4. CASE k.step = "record" /\ EntryOK([message |-> k.message, action |-> k.action])
  <2>1. PICK e : e = [message |-> k.message, action |-> k.action]
    OBVIOUS
  <2>2. EntryOK(e)'
    BY <1>4, <2>1, EntryStays
  <2> QED
    BY <1>4, <2>1, <2>2 DEF CallState
<1>5. CASE /\ k.step \in {"send", "commit"}
           /\ k = [step |-> k.step, message |-> k.message, audited |-> k.audited]
           /\ Cleared(k.message)
           /\ k.step = "commit" => Delivered(k.message)
  <2>1. Cleared(m)' /\ (k.step = "commit" => Delivered(m)')
    BY <1>1, <1>5, FactsStay
  <2> QED
    BY <1>1, <1>5, <2>1 DEF CallState
<1> QED
  BY <1>2, <1>3, <1>4, <1>5 DEF CallState

LEMMA CallMoves ==
  ASSUME Steady, MessageCallsInv, NEW c \in MessageCalls, NEW k, CallState(k)',
         call' = [call EXCEPT ![c] = k]
  PROVE  MessageCallsInv'
<1>1. call' = [d \in MessageCalls |-> call'[d]]
  BY DEF MessageCallsInv
<1>2. call'[c] = k /\ \A d \in MessageCalls \ {c} : call'[d] = call[d]
  BY DEF MessageCallsInv
<1>3. ASSUME NEW d \in MessageCalls PROVE CallState(call[d])'
  <2>1. PICK x : x = call'[d]
    OBVIOUS
  <2>2. CallState(x)'
    <3>1. CASE d = c
      BY <1>2, <2>1, <3>1
    <3>2. CASE d # c
      BY <1>2, <2>1, <3>2, StateStays DEF MessageCallsInv
    <3> QED
      BY <3>1, <3>2
  <2> QED
    BY <2>1, <2>2 DEF CallState, EntryOK, Cleared, Delivered, ApprovedMessage
<1> QED
  BY <1>1, <1>3 DEF MessageCallsInv

LEMMA CallsRest ==
  ASSUME Steady, MessageCallsInv, call' = call
  PROVE  MessageCallsInv'
<1>1. ASSUME NEW d \in MessageCalls PROVE CallState(call[d])'
  <2>1. PICK x : x = call[d]
    OBVIOUS
  <2>2. CallState(x)'
    BY <2>1, StateStays DEF MessageCallsInv
  <2> QED
    BY <2>1, <2>2 DEF CallState, EntryOK, Cleared, Delivered, ApprovedMessage
<1> QED
  BY <1>1 DEF MessageCallsInv

LEMMA DeliveredStays ==
  ASSUME Steady, DeliveredInv, delivered' = delivered
  PROVE  DeliveredInv'
<1>1. ASSUME NEW i \in DOMAIN delivered
      PROVE  /\ Cleared(delivered[i].message)'
             /\ delivered'[i].content = messages'[delivered'[i].message].content
  <2>1. PICK m : m = delivered[i].message
    OBVIOUS
  <2>2. Cleared(m) /\ Cleared(m)' /\ delivered[i].content = messages[m].content
    BY <2>1, FactsStay DEF DeliveredInv
  <2>3. messages'[m].content = messages[m].content
    BY <2>2 DEF Steady, Cleared
  <2> QED
    BY <2>1, <2>2, <2>3 DEF Cleared
<1> QED
  BY <1>1 DEF DeliveredInv

-----------------------------------------------------------------------------
(***************************************************************************)
(* Counting events, calls and deliveries.                                  *)
(***************************************************************************)

LEMMA OneMoreOf ==
  ASSUME NEW S, IsFiniteSet(S), NEW x, x \notin S
  PROVE  IsFiniteSet(S \cup {x}) /\ Cardinality(S \cup {x}) = Cardinality(S) + 1
BY FS_AddElement

LEMMA OneLessOf ==
  ASSUME NEW S, IsFiniteSet(S), NEW x \in S
  PROVE  Cardinality(S \ {x}) = Cardinality(S) - 1
BY FS_RemoveElement

LEMMA SetsAreFinite ==
  ASSUME outbox \in Seq(Nat), delivered \in Seq(DeliveredRow), NEW m
  PROVE  /\ IsFiniteSet(EventsOf(m)) /\ Cardinality(EventsOf(m)) \in Nat
         /\ IsFiniteSet(CommitsOf(m)) /\ Cardinality(CommitsOf(m)) \in Nat
         /\ IsFiniteSet(DeliveriesOf(m)) /\ Cardinality(DeliveriesOf(m)) \in Nat
<1>1. PICK n \in Nat : DOMAIN outbox = 1..n
  BY SMTT(30)
<1>2. PICK d \in Nat : DOMAIN delivered = 1..d
  BY SMTT(30)
<1>3. IsFiniteSet(1..n) /\ IsFiniteSet(1..d)
  BY FS_Interval, SMTT(30)
<1>4. EventsOf(m) \subseteq 1..n /\ DeliveriesOf(m) \subseteq 1..d /\ CommitsOf(m) \subseteq MessageCalls
  BY <1>1, <1>2 DEF EventsOf, DeliveriesOf, CommitsOf
<1>5. IsFiniteSet(EventsOf(m))
  BY <1>3, <1>4, FS_Subset
<1>6. IsFiniteSet(DeliveriesOf(m))
  BY <1>3, <1>4, FS_Subset
<1>7. IsFiniteSet(CommitsOf(m))
  BY <1>4, CommsAssumption, FS_Subset
<1> QED
  BY <1>5, <1>6, <1>7, FS_CardinalityType

(* Nothing is counted by a step that writes no event, hands nothing over    *)
(* and takes no call to its commit.                                         *)
LEMMA CountStays ==
  ASSUME OutboxInv, delivered \in Seq(DeliveredRow), outbox' = outbox, delivered' = delivered,
         NEW m, Counted(m), CommitsOf(m)' \subseteq CommitsOf(m)
  PROVE  Counted(m)'
<1>1. EventsOf(m)' = EventsOf(m) /\ DeliveriesOf(m)' = DeliveriesOf(m)
  BY DEF EventsOf, DeliveriesOf
<1>2. outbox \in Seq(Nat)
  BY DEF OutboxInv
<1>3. /\ Cardinality(EventsOf(m)) \in Nat /\ Cardinality(DeliveriesOf(m)) \in Nat
      /\ IsFiniteSet(CommitsOf(m)) /\ Cardinality(CommitsOf(m)) \in Nat
  BY <1>2, SetsAreFinite
<1>4. Cardinality(CommitsOf(m)') <= Cardinality(CommitsOf(m)) /\ Cardinality(CommitsOf(m)') \in Nat
  BY <1>3, FS_Subset, FS_CardinalityType
<1> QED
  BY <1>1, <1>3, <1>4, SMTT(30) DEF Counted

(* Nothing is counted for a message that is new.                            *)
LEMMA CountStarts ==
  ASSUME OutboxInv, DeliveredInv, MessageCallsInv, outbox' = outbox, delivered' = delivered,
         NEW m, m \notin DOMAIN messages, CommitsOf(m)' \subseteq CommitsOf(m)
  PROVE  Counted(m)'
<1>1. EventsOf(m)' = {} /\ DeliveriesOf(m)' = {}
  BY DEF EventsOf, DeliveriesOf, OutboxInv, DeliveredInv, Cleared
<1>2. CommitsOf(m) = {}
  <2>1. ASSUME NEW c \in MessageCalls, call[c].step = "commit" PROVE call[c].message \in DOMAIN messages
    <3>1. CallState(call[c])
      BY DEF MessageCallsInv
    <3> QED
      BY <2>1, <3>1, SMTT(30) DEF CallState, Cleared, Done
  <2> QED
    BY <2>1 DEF CommitsOf
<1>3. CommitsOf(m)' = {}
  BY <1>2
<1> QED
  BY <1>1, <1>3, FS_EmptySet, SMTT(30) DEF Counted

-----------------------------------------------------------------------------
(* A call moves anywhere but to its commit.                                 *)
LEMMA CommitsShrink ==
  ASSUME MessageCallsInv, NEW c \in MessageCalls, NEW k, k.step # "commit",
         call' = [call EXCEPT ![c] = k], NEW m
  PROVE  CommitsOf(m)' \subseteq CommitsOf(m)
<1>1. call'[c] = k /\ \A d \in MessageCalls \ {c} : call'[d] = call[d]
  BY DEF MessageCallsInv
<1> QED
  BY <1>1 DEF CommitsOf

LEMMA OutboxStays ==
  ASSUME CommsInv, outbox' = outbox, delivered' = delivered,
         DOMAIN messages \subseteq DOMAIN messages',
         \A m : CommitsOf(m)' \subseteq CommitsOf(m)
  PROVE  OutboxInv'
<1>1. ASSUME NEW m \in DOMAIN messages' PROVE Counted(m)'
  <2>1. CASE m \in DOMAIN messages
    BY <2>1, CountStays DEF CommsInv, OutboxInv, DeliveredInv
  <2>2. CASE m \notin DOMAIN messages
    BY <2>2, CountStarts DEF CommsInv
  <2> QED
    BY <2>1, <2>2
<1> QED
  BY <1>1 DEF CommsInv, OutboxInv

LEMMA QuietStep ==
  ASSUME CommsInv, UNCHANGED <<templates, messages, approvals, outbox, delivered, entries>>,
         NEW c \in MessageCalls, NEW k, k.step # "commit", CallState(k),
         call' = [call EXCEPT ![c] = k]
  PROVE  CommsInv'
<1>1. Steady
  BY DEF Steady
<1>2. MessagesInv' /\ DeliveredInv'
  BY <1>1, DeliveredStays DEF CommsInv, MessagesInv, Cleared
<1>3. EntriesInv'
  BY <1>1, EntriesStay DEF CommsInv
<1>4. CallState(k)'
  BY <1>1, StateStays
<1>5. MessageCallsInv'
  BY <1>1, <1>4, CallMoves DEF CommsInv
<1>6. \A m : CommitsOf(m)' \subseteq CommitsOf(m)
  BY CommitsShrink DEF CommsInv
<1>7. OutboxInv'
  BY <1>6, OutboxStays
<1> QED
  BY <1>2, <1>3, <1>5, <1>7 DEF CommsInv

LEMMA StartStep ==
  ASSUME CommsInv, UNCHANGED <<templates, messages, approvals, outbox, delivered, entries>>,
         NEW c \in MessageCalls, NEW k, k.step # "commit", CallState(k), Start(c, k)
  PROVE  CommsInv'
BY QuietStep DEF Start

LEMMA ApproveReadKept ==
  ASSUME CommsInv, NEW c \in MessageCalls, NEW m \in DOMAIN messages, ApproveRead(c, m)
  PROVE  CommsInv'
<1> DEFINE k == [step |-> "approve", message |-> m]
<1>1. CallState(k) /\ k.step # "commit"
  BY DEF CallState
<1> QED
  BY <1>1, StartStep DEF ApproveRead

LEMMA ReadyIsCleared ==
  ASSUME CommsInv, NEW m \in DOMAIN messages, Ready(m)
  PROVE  Cleared(m)
<1>1. CASE messages[m].classification = "ROUTINE"
  BY <1>1 DEF Cleared
<1>2. CASE messages[m].status = "APPROVED"
  BY <1>2 DEF CommsInv, MessagesInv
<1> QED
  BY <1>1, <1>2 DEF Ready

LEMMA DeliverReadKept ==
  ASSUME CommsInv, NEW c \in MessageCalls, NEW m \in DOMAIN messages, NEW audited,
         DeliverRead(c, m, audited)
  PROVE  CommsInv'
<1> DEFINE k == [step |-> "send", message |-> m, audited |-> audited]
<1>1. Cleared(m)
  BY ReadyIsCleared DEF DeliverRead
<1>2. CallState(k) /\ k.step # "commit"
  BY <1>1 DEF CallState
<1> QED
  BY <1>2, StartStep DEF DeliverRead

LEMMA CallDiesKept ==
  ASSUME CommsInv, NEW c \in MessageCalls, MessageCallDies(c)
  PROVE  CommsInv'
<1>1. CallState(Done) /\ Done.step # "commit"
  BY DEF CallState, Done
<1> QED
  BY <1>1, QuietStep DEF MessageCallDies, MessageGoto

LEMMA NoticeBeginKept ==
  ASSUME CommsInv, NEW c \in MessageCalls, NoticeBegin(c)
  PROVE  CommsInv'
<1>1. CallState([step |-> "draft"]) /\ [step |-> "draft"].step # "commit"
  BY DEF CallState
<1> QED
  BY <1>1, StartStep DEF NoticeBegin

LEMMA NoticeDeliverKept ==
  ASSUME CommsInv, NEW c \in MessageCalls, NoticeDeliver(c)
  PROVE  CommsInv'
<1>1. PICK m : m = call[c].message
  OBVIOUS
<1>2. m \in DOMAIN messages
  <2>1. CallState(call[c]) /\ call[c].step = "deliver"
    BY DEF CommsInv, MessageCallsInv, NoticeDeliver
  <2> QED
    BY <1>1, <2>1, SMTT(30) DEF CallState, Done
<1>3. CASE Ready(m)
  <2> DEFINE k == [step |-> "send", message |-> m, audited |-> FALSE]
  <2>1. call' = [call EXCEPT ![c] = k]
    BY <1>1, <1>3 DEF NoticeDeliver, MessageGoto
  <2>2. CallState(k) /\ k.step # "commit"
    BY <1>2, <1>3, ReadyIsCleared DEF CallState
  <2> QED
    BY <2>1, <2>2, QuietStep DEF NoticeDeliver
<1>4. CASE ~Ready(m)
  <2>1. call' = [call EXCEPT ![c] = Done]
    BY <1>1, <1>4 DEF NoticeDeliver, MessageGoto
  <2>2. CallState(Done) /\ Done.step # "commit"
    BY DEF CallState, Done
  <2> QED
    BY <2>1, <2>2, QuietStep DEF NoticeDeliver
<1> QED
  BY <1>3, <1>4

-----------------------------------------------------------------------------
(* A message is drafted.                                                    *)
LEMMA DraftSaved ==
  ASSUME MessagesInv, NEW in \in Drafts \cup {ReadyDraft}, SaveDraft(in),
         UNCHANGED <<templates, approvals, delivered>>
  PROVE  Steady /\ MessagesInv' /\ DOMAIN messages' = DOMAIN messages \cup {Len(messages) + 1}
<1>1. PICK row : row = MessageRow(in)
  OBVIOUS
<1>2. /\ row \in MessageRecord
      /\ row.status \in {"DRAFTED", "AWAITING_APPROVAL"}
      /\ row.classification = "ROUTINE" => \A j \in DOMAIN row.content : Plain(row.content[j])
  BY <1>1, NewMessage
<1>3. messages' = Append(messages, row) /\ messages \in Seq(MessageRecord)
  BY <1>1 DEF SaveDraft, MessagesInv
<1>4. /\ messages' \in Seq(MessageRecord)
      /\ messages'[Len(messages) + 1] = row
      /\ DOMAIN messages' = DOMAIN messages \cup {Len(messages) + 1}
      /\ \A m \in DOMAIN messages : messages'[m] = messages[m]
  BY <1>2, <1>3, SMTT(30)
<1>5. Steady
  BY <1>4 DEF Steady
<1>6. ASSUME NEW m \in DOMAIN messages'
      PROVE  /\ messages'[m].classification = "ROUTINE" =>
                  \A j \in DOMAIN messages'[m].content : Plain(messages'[m].content[j])
             /\ messages'[m].status \in {"APPROVED", "SENT"} => Cleared(m)'
  <2>1. CASE m = Len(messages) + 1
    BY <1>2, <1>4, <2>1
  <2>2. CASE m \in DOMAIN messages
    BY <1>4, <1>5, <2>2, FactsStay DEF MessagesInv
  <2> QED
    BY <1>4, <2>1, <2>2
<1>7. MessagesInv'
  BY <1>4, <1>6 DEF MessagesInv
<1> QED
  BY <1>4, <1>5, <1>7

LEMMA DraftKept ==
  ASSUME CommsInv, NEW in \in Drafts, DraftInformationRequest(in)
  PROVE  CommsInv'
<1>1. Steady /\ MessagesInv' /\ DOMAIN messages' = DOMAIN messages \cup {Len(messages) + 1}
  BY DraftSaved DEF CommsInv, DraftInformationRequest
<1>2. UNCHANGED <<outbox, delivered, call, entries>>
  BY DEF DraftInformationRequest
<1>3. DeliveredInv' /\ EntriesInv' /\ MessageCallsInv'
  BY <1>1, <1>2, DeliveredStays, EntriesStay, CallsRest DEF CommsInv
<1>4. \A m : CommitsOf(m)' \subseteq CommitsOf(m)
  BY <1>2 DEF CommitsOf
<1>5. OutboxInv'
  BY <1>1, <1>2, <1>4, OutboxStays
<1> QED
  BY <1>1, <1>3, <1>5 DEF CommsInv

LEMMA NoticeDraftKept ==
  ASSUME CommsInv, NEW c \in MessageCalls, NoticeDraft(c)
  PROVE  CommsInv'
<1>1. Steady /\ MessagesInv' /\ DOMAIN messages' = DOMAIN messages \cup {Len(messages) + 1}
  BY DraftSaved DEF CommsInv, NoticeDraft
<1>2. UNCHANGED <<outbox, delivered, entries>>
  BY DEF NoticeDraft
<1>3. PICK k : k = [step |-> "deliver", message |-> Len(messages) + 1]
  OBVIOUS
<1>4. call' = [call EXCEPT ![c] = k] /\ k.step = "deliver" /\ k.message = Len(messages) + 1
  BY <1>3 DEF NoticeDraft, MessageGoto
<1>5. CallState(k)'
  BY <1>1, <1>4 DEF CallState
<1>6. DeliveredInv' /\ EntriesInv' /\ MessageCallsInv'
  BY <1>1, <1>2, <1>4, <1>5, DeliveredStays, EntriesStay, CallMoves DEF CommsInv
<1>7. \A m : CommitsOf(m)' \subseteq CommitsOf(m)
  BY <1>4, CommitsShrink DEF CommsInv
<1>8. OutboxInv'
  BY <1>1, <1>2, <1>7, OutboxStays
<1> QED
  BY <1>1, <1>6, <1>8 DEF CommsInv

LEMMA SeedKept ==
  ASSUME CommsInv, NEW k \in Keys, SeedTemplate(k)
  PROVE  CommsInv'
<1>1. UNCHANGED <<messages, approvals, outbox, delivered, call, entries>>
  BY DEF SeedTemplate
<1>2. Steady
  BY <1>1 DEF Steady
<1>3. MessagesInv'
  BY <1>1 DEF SeedTemplate, CommsInv, MessagesInv, Cleared
<1>4. DeliveredInv' /\ EntriesInv' /\ MessageCallsInv'
  BY <1>1, <1>2, DeliveredStays, EntriesStay, CallsRest DEF CommsInv
<1>5. \A m : CommitsOf(m)' \subseteq CommitsOf(m)
  BY <1>1 DEF CommitsOf
<1>6. OutboxInv'
  BY <1>1, <1>5, OutboxStays
<1> QED
  BY <1>3, <1>4, <1>6 DEF CommsInv

-----------------------------------------------------------------------------
(* A message that may go out gets a new status.                             *)
LEMMA StatusSaved ==
  ASSUME MessagesInv, NEW m \in DOMAIN messages, NEW status \in {"APPROVED", "SENT"},
         messages' = [messages EXCEPT ![m] = [messages[m] EXCEPT !.status = status]],
         approvals \subseteq approvals', \A a \in approvals' : a.message \in DOMAIN messages,
         DOMAIN delivered \subseteq DOMAIN delivered',
         \A i \in DOMAIN delivered : delivered'[i] = delivered[i],
         templates' = templates,
         messages[m].classification = "PROTECTED" =>
           [message |-> m, content |-> messages[m].content] \in approvals'
  PROVE  Steady /\ MessagesInv' /\ DOMAIN messages' = DOMAIN messages
<1>1. messages \in Seq(MessageRecord) /\ messages[m] \in MessageRecord
  BY SMTT(30) DEF MessagesInv
<1>2. PICK row : row = [messages[m] EXCEPT !.status = status]
  OBVIOUS
<1>3. /\ row \in MessageRecord /\ row.content = messages[m].content
      /\ row.classification = messages[m].classification /\ row.status = status
  BY <1>1, <1>2 DEF MessageRecord, MessageStatuses
<1>4. /\ messages' \in Seq(MessageRecord) /\ DOMAIN messages' = DOMAIN messages
      /\ messages'[m] = row /\ \A n \in DOMAIN messages \ {m} : messages'[n] = messages[n]
  BY <1>1, <1>2, <1>3, SMTT(30)
<1>5. Steady
  BY <1>3, <1>4 DEF Steady
<1>6. Cleared(m)'
  BY <1>3, <1>4 DEF Cleared
<1>7. ASSUME NEW n \in DOMAIN messages'
      PROVE  /\ messages'[n].classification = "ROUTINE" =>
                  \A j \in DOMAIN messages'[n].content : Plain(messages'[n].content[j])
             /\ messages'[n].status \in {"APPROVED", "SENT"} => Cleared(n)'
  <2>1. CASE n = m
    BY <1>3, <1>4, <1>6, <2>1, SMTT(30) DEF MessagesInv
  <2>2. CASE n # m
    BY <1>4, <1>5, <2>2, FactsStay DEF MessagesInv
  <2> QED
    BY <2>1, <2>2
<1>8. MessagesInv'
  BY <1>4, <1>7 DEF MessagesInv
<1> QED
  BY <1>4, <1>5, <1>8

LEMMA ApproveCommitKept ==
  ASSUME CommsInv, NEW c \in MessageCalls, ApproveCommit(c)
  PROVE  CommsInv'
<1>1. PICK m : m = call[c].message
  OBVIOUS
<1>2. m \in DOMAIN messages
  <2>1. CallState(call[c]) /\ call[c].step = "approve"
    BY DEF CommsInv, MessageCallsInv, ApproveCommit
  <2> QED
    BY <1>1, <2>1, SMTT(30) DEF CallState, Done
<1>3. PICK a : a = [message |-> m, content |-> messages[m].content]
  OBVIOUS
<1>4. approvals' = approvals \cup {a} /\ a.message = m
  BY <1>1, <1>3 DEF ApproveCommit
<1>5. messages' = [messages EXCEPT ![m] = [messages[m] EXCEPT !.status = "APPROVED"]]
  BY <1>1 DEF ApproveCommit
<1>6. UNCHANGED <<templates, outbox, delivered, entries>>
  BY DEF ApproveCommit
<1>7. \A b \in approvals' : b.message \in DOMAIN messages
  BY <1>2, <1>4 DEF CommsInv, MessagesInv
<1>8. Steady /\ MessagesInv' /\ DOMAIN messages' = DOMAIN messages
  BY <1>2, <1>3, <1>4, <1>5, <1>6, <1>7, StatusSaved DEF CommsInv
<1> DEFINE k == [step |-> "record", message |-> m, action |-> "COMMUNICATION_APPROVED"]
<1>9. call' = [call EXCEPT ![c] = k] /\ k.step # "commit"
  BY <1>1 DEF ApproveCommit, MessageGoto
<1>10. ApprovedMessage(m)'
  BY <1>4 DEF ApprovedMessage
<1>11. CallState(k)'
  BY <1>2, <1>8, <1>10 DEF CallState, EntryOK
<1>12. DeliveredInv' /\ EntriesInv' /\ MessageCallsInv'
  BY <1>6, <1>8, <1>9, <1>11, DeliveredStays, EntriesStay, CallMoves DEF CommsInv
<1>13. \A n : CommitsOf(n)' \subseteq CommitsOf(n)
  BY <1>9, CommitsShrink DEF CommsInv
<1>14. OutboxInv'
  BY <1>6, <1>8, <1>13, OutboxStays
<1> QED
  BY <1>8, <1>12, <1>14 DEF CommsInv

LEMMA RecordEntryKept ==
  ASSUME CommsInv, NEW c \in MessageCalls, RecordEntry(c)
  PROVE  CommsInv'
<1>1. PICK e : e = [message |-> call[c].message, action |-> call[c].action]
  OBVIOUS
<1>2. EntryOK(e)
  <2>1. CallState(call[c]) /\ call[c].step = "record"
    BY DEF CommsInv, MessageCallsInv, RecordEntry
  <2> QED
    BY <1>1, <2>1, SMTT(30) DEF CallState, Done
<1>3. UNCHANGED <<templates, messages, approvals, outbox, delivered>>
  BY DEF RecordEntry
<1>4. Steady
  BY <1>3 DEF Steady
<1>5. MessagesInv' /\ DeliveredInv'
  BY <1>3, <1>4, DeliveredStays DEF CommsInv, MessagesInv, Cleared
<1>6. entries' = entries \cup {e}
  BY <1>1 DEF RecordEntry
<1>7. ASSUME NEW x \in entries' PROVE EntryOK(x)'
  BY <1>2, <1>4, <1>6, EntryStays DEF CommsInv, EntriesInv
<1>8. EntriesInv'
  BY <1>7 DEF EntriesInv
<1>9. call' = [call EXCEPT ![c] = Done] /\ Done.step # "commit" /\ CallState(Done)'
  BY DEF RecordEntry, MessageGoto, CallState, Done
<1>10. MessageCallsInv'
  BY <1>4, <1>9, CallMoves DEF CommsInv
<1>11. \A n : CommitsOf(n)' \subseteq CommitsOf(n)
  BY <1>9, CommitsShrink DEF CommsInv
<1>12. OutboxInv'
  BY <1>3, <1>11, OutboxStays
<1> QED
  BY <1>5, <1>8, <1>10, <1>12 DEF CommsInv

-----------------------------------------------------------------------------
LEMMA HandOverKept ==
  ASSUME CommsInv, NEW c \in MessageCalls, HandOver(c)
  PROVE  CommsInv'
<1>1. PICK m, audited : m = call[c].message /\ audited = call[c].audited
  OBVIOUS
<1>2. CallState(call[c]) /\ call[c].step = "send"
  BY DEF CommsInv, MessageCallsInv, HandOver
<1>3. /\ call[c] = [step |-> "send", message |-> m, audited |-> audited]
      /\ Cleared(m) /\ m \in DOMAIN messages
  BY <1>1, <1>2, SMTT(30) DEF CallState, Done, Cleared
<1>4. PICK row : row = [message |-> m, content |-> messages[m].content]
  OBVIOUS
<1>5. messages \in Seq(MessageRecord) /\ messages[m] \in MessageRecord /\ m \in Nat
  BY <1>3, SMTT(30) DEF CommsInv, MessagesInv
<1>6. row \in DeliveredRow /\ row.message = m /\ row.content = messages[m].content
  BY <1>4, <1>5 DEF DeliveredRow, MessageRecord
<1>7. delivered' = Append(delivered, row) /\ delivered \in Seq(DeliveredRow)
  BY <1>1, <1>4 DEF HandOver, CommsInv, DeliveredInv
<1>8. /\ delivered' \in Seq(DeliveredRow)
      /\ DOMAIN delivered' = DOMAIN delivered \cup {Len(delivered) + 1}
      /\ delivered'[Len(delivered) + 1] = row
      /\ \A i \in DOMAIN delivered : delivered'[i] = delivered[i]
      /\ Len(delivered) + 1 \notin DOMAIN delivered
  BY <1>6, <1>7, SMTT(30)
<1>9. UNCHANGED <<templates, messages, approvals, outbox, entries>>
  BY DEF HandOver
<1>10. Steady
  BY <1>8, <1>9 DEF Steady
<1>11. MessagesInv'
  BY <1>9 DEF CommsInv, MessagesInv, Cleared
<1>12. ASSUME NEW i \in DOMAIN delivered'
       PROVE  /\ Cleared(delivered[i].message)'
              /\ delivered'[i].content = messages'[delivered'[i].message].content
  <2>1. CASE i = Len(delivered) + 1
    BY <1>3, <1>6, <1>8, <1>9, <2>1 DEF Cleared
  <2>2. CASE i \in DOMAIN delivered
    BY <1>8, <1>9, <2>2 DEF CommsInv, DeliveredInv, Cleared
  <2> QED
    BY <1>8, <2>1, <2>2
<1>13. DeliveredInv'
  BY <1>8, <1>12 DEF DeliveredInv
<1>14. EntriesInv'
  BY <1>9, <1>10, EntriesStay DEF CommsInv
<1> DEFINE k == [step |-> "commit", message |-> m, audited |-> audited]
<1>15. [call[c] EXCEPT !.step = "commit"] = k
  BY <1>3, SMTT(30)
<1>16. call' = [call EXCEPT ![c] = k]
  BY <1>15 DEF HandOver, MessageGoto
<1>17. Delivered(m)' /\ Cleared(m)'
  BY <1>3, <1>6, <1>8, <1>10, FactsStay DEF Delivered
<1>18. CallState(k)'
  BY <1>17 DEF CallState
<1>19. MessageCallsInv'
  BY <1>10, <1>16, <1>18, CallMoves DEF CommsInv
<1>20. call'[c] = k /\ \A d \in MessageCalls \ {c} : call'[d] = call[d]
  BY <1>16 DEF CommsInv, MessageCallsInv
<1>21. outbox \in Seq(Nat)
  BY DEF CommsInv, OutboxInv
<1>22. ASSUME NEW n \in DOMAIN messages PROVE Counted(n)'
  <2>1. /\ Cardinality(EventsOf(n)) \in Nat
        /\ IsFiniteSet(CommitsOf(n)) /\ Cardinality(CommitsOf(n)) \in Nat
        /\ IsFiniteSet(DeliveriesOf(n)) /\ Cardinality(DeliveriesOf(n)) \in Nat
    BY <1>7, <1>21, SetsAreFinite
  <2>2. Counted(n) /\ EventsOf(n)' = EventsOf(n)
    BY <1>9 DEF CommsInv, OutboxInv, EventsOf
  <2>3. CASE n = m
    <3>1. CommitsOf(n)' = CommitsOf(n) \cup {c} /\ c \notin CommitsOf(n)
      BY <1>2, <1>20, <2>3, SMTT(30) DEF CommitsOf
    <3>2. DeliveriesOf(n)' = DeliveriesOf(n) \cup {Len(delivered) + 1}
      BY <1>6, <1>8, <2>3 DEF DeliveriesOf
    <3>3. Len(delivered) + 1 \notin DeliveriesOf(n)
      BY <1>8 DEF DeliveriesOf
    <3>4. /\ Cardinality(CommitsOf(n)') = Cardinality(CommitsOf(n)) + 1
          /\ Cardinality(DeliveriesOf(n)') = Cardinality(DeliveriesOf(n)) + 1
      BY <2>1, <3>1, <3>2, <3>3, OneMoreOf
    <3> QED
      BY <2>1, <2>2, <3>4, SMTT(30) DEF Counted
  <2>4. CASE n # m
    <3>1. CommitsOf(n)' = CommitsOf(n)
      BY <1>2, <1>20, <2>4, SMTT(30) DEF CommitsOf
    <3>2. DeliveriesOf(n)' = DeliveriesOf(n)
      BY <1>6, <1>8, <2>4 DEF DeliveriesOf
    <3> QED
      BY <2>2, <3>1, <3>2 DEF Counted
  <2> QED
    BY <2>3, <2>4
<1>23. OutboxInv'
  BY <1>9, <1>22 DEF CommsInv, OutboxInv
<1> QED
  BY <1>11, <1>13, <1>14, <1>19, <1>23 DEF CommsInv

LEMMA DeliverCommitKept ==
  ASSUME CommsInv, NEW c \in MessageCalls, DeliverCommit(c)
  PROVE  CommsInv'
<1>1. PICK m : m = call[c].message
  OBVIOUS
<1>2. CallState(call[c]) /\ call[c].step = "commit"
  BY DEF CommsInv, MessageCallsInv, DeliverCommit
<1>3. Cleared(m) /\ m \in DOMAIN messages /\ Delivered(m)
  BY <1>1, <1>2, SMTT(30) DEF CallState, Done, Cleared
<1>4. messages' = [messages EXCEPT ![m] = [messages[m] EXCEPT !.status = "SENT"]]
  BY <1>1 DEF DeliverCommit
<1>5. UNCHANGED <<templates, approvals, delivered, entries>>
  BY DEF DeliverCommit
<1>6. Steady /\ MessagesInv' /\ DOMAIN messages' = DOMAIN messages
  BY <1>3, <1>4, <1>5, StatusSaved DEF CommsInv, MessagesInv, Cleared
<1>7. PICK k : k = AfterDelivery(c)
  OBVIOUS
<1>8. call' = [call EXCEPT ![c] = k]
  BY <1>7 DEF DeliverCommit, MessageGoto
<1>9. k = Done \/ k = [step |-> "record", message |-> m, action |-> "COMMUNICATION_SENT"]
  BY <1>1, <1>7 DEF AfterDelivery
<1>10. k.step # "commit"
  BY <1>9, SMTT(30) DEF Done
<1>11. Delivered(m)'
  BY <1>3, <1>6, FactsStay
<1>12. CallState(k)'
  BY <1>3, <1>6, <1>9, <1>11, SMTT(30) DEF CallState, EntryOK
<1>13. DeliveredInv' /\ EntriesInv' /\ MessageCallsInv'
  BY <1>5, <1>6, <1>8, <1>12, DeliveredStays, EntriesStay, CallMoves DEF CommsInv
<1>14. /\ outbox \in Seq(Nat) /\ delivered \in Seq(DeliveredRow) /\ outbox' = Append(outbox, m)
       /\ m \in Nat
  BY <1>1, <1>3, SMTT(30) DEF CommsInv, OutboxInv, DeliveredInv, DeliverCommit, MessagesInv
<1>15. /\ outbox' \in Seq(Nat)
       /\ DOMAIN outbox' = DOMAIN outbox \cup {Len(outbox) + 1}
       /\ outbox'[Len(outbox) + 1] = m
       /\ \A i \in DOMAIN outbox : outbox'[i] = outbox[i]
       /\ Len(outbox) + 1 \notin DOMAIN outbox
  BY <1>14, SMTT(30)
<1>16. call'[c] = k /\ \A d \in MessageCalls \ {c} : call'[d] = call[d]
  BY <1>8 DEF CommsInv, MessageCallsInv
<1>17. ASSUME NEW n \in DOMAIN messages PROVE Counted(n)'
  <2>1. /\ IsFiniteSet(EventsOf(n)) /\ Cardinality(EventsOf(n)) \in Nat
        /\ IsFiniteSet(CommitsOf(n)) /\ Cardinality(CommitsOf(n)) \in Nat
        /\ Cardinality(DeliveriesOf(n)) \in Nat
    BY <1>14, SetsAreFinite
  <2>2. Counted(n) /\ DeliveriesOf(n)' = DeliveriesOf(n)
    BY <1>5 DEF CommsInv, OutboxInv, DeliveriesOf
  <2>3. CASE n = m
    <3>1. CommitsOf(n)' = CommitsOf(n) \ {c} /\ c \in CommitsOf(n)
      BY <1>1, <1>2, <1>10, <1>16, <2>3 DEF CommitsOf
    <3>2. EventsOf(n)' = EventsOf(n) \cup {Len(outbox) + 1} /\ Len(outbox) + 1 \notin EventsOf(n)
      BY <1>15, <2>3 DEF EventsOf
    <3>3. /\ Cardinality(CommitsOf(n)') = Cardinality(CommitsOf(n)) - 1
          /\ Cardinality(EventsOf(n)') = Cardinality(EventsOf(n)) + 1
      BY <2>1, <3>1, <3>2, OneMoreOf, OneLessOf
    <3> QED
      BY <2>1, <2>2, <3>3, SMTT(30) DEF Counted
  <2>4. CASE n # m
    <3>1. CommitsOf(n)' = CommitsOf(n)
      BY <1>1, <1>10, <1>16, <2>4 DEF CommitsOf
    <3>2. EventsOf(n)' = EventsOf(n)
      BY <1>15, <2>4 DEF EventsOf
    <3> QED
      BY <2>2, <3>1, <3>2 DEF Counted
  <2> QED
    BY <2>3, <2>4
<1>18. \A i \in DOMAIN outbox' : outbox'[i] \in DOMAIN messages
  BY <1>3, <1>15 DEF CommsInv, OutboxInv
<1>19. OutboxInv'
  BY <1>6, <1>15, <1>17, <1>18 DEF OutboxInv
<1> QED
  BY <1>6, <1>13, <1>19 DEF CommsInv

-----------------------------------------------------------------------------
LEMMA CommsInvStart ==
  CommsInit => CommsInv
<1> SUFFICES ASSUME CommsInit PROVE CommsInv
  OBVIOUS
<1>1. MessagesInv /\ DeliveredInv /\ EntriesInv
  BY SMTT(30) DEF CommsInit, MessagesInv, DeliveredInv, EntriesInv
<1>2. MessageCallsInv
  BY DEF CommsInit, MessageCallsInv, CallState, Done
<1>3. OutboxInv
  BY SMTT(30) DEF CommsInit, OutboxInv
<1> QED
  BY <1>1, <1>2, <1>3 DEF CommsInv

LEMMA CommsInvKept ==
  CommsInv /\ [CommsNext]_commsVars => CommsInv'
<1> SUFFICES ASSUME CommsInv, [CommsNext]_commsVars PROVE CommsInv'
  OBVIOUS
<1>1. CASE CommsNext
  BY <1>1, DraftKept, SeedKept, ApproveReadKept, DeliverReadKept, ApproveCommitKept,
     RecordEntryKept, HandOverKept, DeliverCommitKept, CallDiesKept, NoticeBeginKept,
     NoticeDraftKept, NoticeDeliverKept
     DEF CommsNext, SendMessage, SendInformationRequest
<1>2. CASE UNCHANGED commsVars
  <2>1. UNCHANGED <<templates, messages, approvals, outbox, delivered, call, entries>>
    BY <1>2 DEF commsVars
  <2>2. Steady
    BY <2>1 DEF Steady
  <2>3. MessagesInv' /\ DeliveredInv' /\ EntriesInv' /\ MessageCallsInv'
    BY <2>1, <2>2, DeliveredStays, EntriesStay, CallsRest DEF CommsInv, MessagesInv, Cleared
  <2>4. \A m : CommitsOf(m)' \subseteq CommitsOf(m)
    BY <2>1 DEF CommitsOf
  <2>5. OutboxInv'
    BY <2>1, <2>4, OutboxStays
  <2> QED
    BY <2>3, <2>5 DEF CommsInv
<1> QED
  BY <1>1, <1>2

LEMMA CommsInvImplies ==
  CommsInv => MessagesAreApproved
<1> SUFFICES ASSUME CommsInv PROVE MessagesAreApproved
  OBVIOUS
<1>1. CommsTypeOK
  <2>1. entries \subseteq [message: DOMAIN messages,
                           action: {"COMMUNICATION_APPROVED", "COMMUNICATION_SENT"}]
    BY DEF CommsInv, EntriesInv, EntryOK
  <2>2. \A m \in DOMAIN messages : messages[m] \in MessageRecord
    BY SMTT(30) DEF CommsInv, MessagesInv
  <2> QED
    BY <2>1, <2>2 DEF CommsInv, MessagesInv, OutboxInv, CommsTypeOK
<1>2. ProtectedTextApproved
  BY DEF CommsInv, DeliveredInv, Cleared, ProtectedTextApproved
<1>3. RoutineTextIsTemplate
  <2>1. ASSUME NEW i \in DOMAIN delivered,
               messages[delivered[i].message].classification = "ROUTINE",
               NEW j \in DOMAIN delivered[i].content
        PROVE  Plain(delivered[i].content[j])
    BY <2>1 DEF CommsInv, MessagesInv, DeliveredInv, Cleared
  <2> QED
    BY <2>1 DEF Plain, RoutineTextIsTemplate
<1>4. ASSUME NEW m \in DOMAIN messages
      PROVE  Cardinality({i \in DOMAIN outbox : outbox[i] = m})
               <= Cardinality({i \in DOMAIN delivered : delivered[i].message = m})
  <2>1. /\ Cardinality(EventsOf(m)) \in Nat /\ Cardinality(CommitsOf(m)) \in Nat
        /\ Cardinality(DeliveriesOf(m)) \in Nat
    BY SetsAreFinite DEF CommsInv, OutboxInv, DeliveredInv
  <2>2. Cardinality(EventsOf(m)) <= Cardinality(DeliveriesOf(m))
    BY <2>1, SMTT(30) DEF CommsInv, OutboxInv, Counted
  <2> QED
    BY <2>2 DEF EventsOf, DeliveriesOf
<1>5. EventFollowsDelivery
  BY <1>4 DEF EventFollowsDelivery, CommsInv, EntriesInv, EntryOK, Delivered, ApprovedMessage
<1> QED
  BY <1>1, <1>2, <1>3, <1>5 DEF MessagesAreApproved

(* What leaves the platform, for any templates, drafts and number of        *)
(* overlapping calls: the text of a PROTECTED message is one that a reviewer*)
(* approved, what goes out without a reviewer is approved template text with*)
(* every placeholder filled and nothing flagged, and no event or audit entry*)
(* tells of a delivery or an approval that did not happen, however often    *)
(* calls die (communication-delivery.service.ts,                            *)
(* communication-classifier.ts).                                            *)
THEOREM MessagesAlwaysApproved ==
  CommsSpec => []MessagesAreApproved
BY CommsInvStart, CommsInvKept, CommsInvImplies, PTL DEF CommsSpec
==============================================================================
