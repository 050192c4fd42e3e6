------------------------------- MODULE CaseApi -------------------------------
(***************************************************************************)
(* The commands of the case API as its callers send them, over REST        *)
(* (src/src/cases/cases.controller.ts) or GraphQL (cases.resolver.ts):     *)
(* creating a case under an idempotency key, granting and revoking         *)
(* consent, escalating, and the reviewer's commands that are handed to the *)
(* workflow engine, each with its audit record.                            *)
(*                                                                         *)
(* Every database transaction of a call is one step, a call may die after  *)
(* any of them, and callers retry with the same key.  A case is named by   *)
(* its tenant and its idempotency key.  The workflow behind the reviewer's *)
(* commands is module CaseWorkflow; here the engine either accepts a       *)
(* command or knows no run, and its activities move the case on.           *)
(***************************************************************************)
EXTENDS Integers, FiniteSets, Sequences

CONSTANTS
  Tenants,      \* tenants
  CaseKeys,     \* idempotency keys
  ApiCalls,     \* bound: calls
  MaxCaseRows,  \* bound: changes of a case row
  MaxConsents,  \* bound: consent records of a case
  OldCases      \* cases that may be there at the start

VARIABLES
  rows,     \* per case: how many rows loan_cases holds for it
  version,  \* per case: its version column
  cstatus,  \* per case: its status column
  consents, \* per case: its consent records, oldest first: revoked or not
  reviews,  \* per case: data-disposition reviews opened
  events,   \* per case and event type: outbox events
  trail,    \* audit events: the call and the action
  acalls    \* the calls

apiRows == <<rows, version, cstatus, consents, reviews, events>>
apiVars == <<apiRows, trail, acalls>>

CaseIds == Tenants \X CaseKeys
Writes == {"create", "grant", "revoke", "escalate"}
ReviewerOps == {"review", "cancel", "recover"}
Ops == Writes \cup ReviewerOps \cup {"start"}
ApiRoles == {"REVIEWER", "PARTNER"}

ASSUME CaseApiAssumption == OldCases \subseteq CaseIds

Escalatable == {"DRAFT", "COLLECTING_EVIDENCE", "CONDITIONS_OPEN", "WAITING_FOR_INFORMATION"}
Statuses == Escalatable \cup
  {"WAITING_FOR_REVIEW", "MANUAL_REVIEW", "READY_FOR_UNDERWRITING", "CLOSED"}
EventTypes == {"LoanCaseCreated", "CaseEscalated"}

NoApiCall == [op |-> "none", tenant |-> "none", role |-> "none", of |-> <<>>,
           step |-> "unsent", seen |-> 0, answer |-> "none", effect |-> FALSE]

Revoking(c) == [NoApiCall EXCEPT !.op = "revoke", !.tenant = c[1], !.role = "PARTNER",
                              !.of = c, !.step = "act", !.seen = 1]

\* No case at all, or one with two consent records of which a call is about
\* to revoke the newer.
ApiInit ==
  /\ \E old \in {{}} \cup {{c} : c \in OldCases} :
       /\ rows = [c \in CaseIds |-> IF c \in old THEN 1 ELSE 0]
       /\ version = rows
       /\ cstatus = [c \in CaseIds |-> IF c \in old THEN "DRAFT" ELSE "NONE"]
       /\ consents = [c \in CaseIds |-> IF c \in old THEN <<FALSE, FALSE>> ELSE <<>>]
       /\ events = [c \in CaseIds |->
                     [e \in EventTypes |-> IF e = "LoanCaseCreated" THEN rows[c] ELSE 0]]
       /\ \E first \in ApiCalls :
            acalls = [x \in ApiCalls |->
              IF x = first /\ old # {} THEN Revoking(CHOOSE c \in old : TRUE) ELSE NoApiCall]
  /\ reviews = [c \in CaseIds |-> 0]
  /\ trail = {}

Advance(x, step) == acalls' = [acalls EXCEPT ![x] = [@ EXCEPT !.step = step]]
Answer(x, what) ==
  acalls' = [acalls EXCEPT ![x] = [@ EXCEPT !.step = "answered", !.answer = what]]
Effect(x, step) ==
  acalls' = [acalls EXCEPT ![x] = [@ EXCEPT !.step = step, !.effect = TRUE]]

\* A request arrives: the guard has resolved its tenant and role; the body
\* names a case, which for a creation is one of the caller's own keys.
Arrive(x, ops) ==
  /\ acalls[x].step = "unsent"
  /\ \E op \in ops, t \in Tenants, role \in ApiRoles, c \in CaseIds :
       /\ op = "create" => c[1] = t
       /\ acalls' = [acalls EXCEPT ![x] =
            [NoApiCall EXCEPT !.op = op, !.tenant = t, !.role = role, !.of = c, !.step = "guard"]]
  /\ UNCHANGED <<apiRows, trail>>

\* The endpoints of the controller; the reads among them change nothing.
CreateCaseRoute(x) == Arrive(x, {"create"})
StartRoute(x) == Arrive(x, {"start"})
CancelRoute(x) == Arrive(x, {"cancel"})
RecoverRoute(x) == Arrive(x, {"recover"})
ReviewRoute(x) == Arrive(x, {"review"})
ConsentRoute(x) == Arrive(x, {"grant", "revoke"})
EscalateRoute(x) == Arrive(x, {"escalate"})

\* The mutations of the resolver reach the same services.
StartMutation(x) == Arrive(x, {"start"})
ReviewMutation(x) == Arrive(x, {"review"})
ConsentMutation(x) == Arrive(x, {"grant", "revoke"})
EscalateMutation(x) == Arrive(x, {"escalate"})

\* RoleGuard: the handlers of the reviewer's commands name the role.
RoleAllowed(x) == acalls[x].op \in ReviewerOps => acalls[x].role = "REVIEWER"

\* RoleGuard records the rejection and throws.
Guard(x) ==
  /\ acalls[x].step = "guard"
  /\ \/ /\ RoleAllowed(x)
        /\ Advance(x, IF acalls[x].op = "create" THEN "existing" ELSE "getCase")
        /\ UNCHANGED trail
     \/ /\ ~RoleAllowed(x)
        /\ Answer(x, "forbidden")
        /\ trail' \in {trail, trail \cup {<<x, "RBAC_REJECTED">>}}
  /\ UNCHANGED apiRows

\* createCase looks for a case under the caller's key.
FindExisting(x) ==
  /\ acalls[x].step = "existing"
  /\ IF rows[acalls[x].of] > 0 THEN Answer(x, "existing") ELSE Advance(x, "insert")
  /\ UNCHANGED <<apiRows, trail>>

\* An insert that relies on the look-up alone.
AlwaysFree(c) == TRUE

\* UQ_loan_cases_tenant_idempotency_key
KeyFree(c) == rows[c] = 0

\* The case row and its event in one transaction; a unique violation reads
\* the case somebody else created.
InsertCase(x) ==
  LET c == acalls[x].of
  IN /\ acalls[x].step = "insert"
     /\ IF KeyFree(c)
        THEN /\ rows' = [rows EXCEPT ![c] = @ + 1]
             /\ version' = [version EXCEPT ![c] = 1]
             /\ cstatus' = [cstatus EXCEPT ![c] = "DRAFT"]
             /\ events' = [events EXCEPT ![c]["LoanCaseCreated"] = @ + 1]
             /\ Effect(x, "consent")
        ELSE /\ Answer(x, "existing")
             /\ UNCHANGED <<rows, version, cstatus, events>>
     /\ UNCHANGED <<consents, reviews, trail>>

RecordConsent(c) == consents' = [consents EXCEPT ![c] = Append(@, FALSE)]

\* A creation that answers without the grant.
GrantForgotten(x) ==
  /\ acalls[x].step = "consent"
  /\ Answer(x, "created")
  /\ UNCHANGED <<apiRows, trail>>

\* grantForCase, in a transaction of its own after the case's.
GrantAtCreation(x) ==
  /\ acalls[x].step = "consent"
  /\ RecordConsent(acalls[x].of)
  /\ Answer(x, "created")
  /\ UNCHANGED <<rows, version, cstatus, reviews, events, trail>>

\* A look-up by id alone.
FoundAnywhere(x) == rows[acalls[x].of] > 0

\* getCase: a case of another tenant is not found.
Found(x) == rows[acalls[x].of] > 0 /\ acalls[x].of[1] = acalls[x].tenant

GetCase(x) ==
  /\ acalls[x].step = "getCase"
  /\ IF Found(x)
     THEN acalls' = [acalls EXCEPT ![x] =
            [@ EXCEPT !.step = "act", !.seen = version[acalls[x].of]]]
     ELSE Answer(x, "not found")
  /\ UNCHANGED <<apiRows, trail>>

\* submitConsentAction GRANT
GrantConsent(x) ==
  /\ acalls[x].step = "act" /\ acalls[x].op = "grant"
  /\ Len(consents[acalls[x].of]) < MaxConsents
  /\ RecordConsent(acalls[x].of)
  /\ Effect(x, "audit")
  /\ UNCHANGED <<rows, version, cstatus, reviews, events, trail>>

ActiveConsents(c) == {i \in 1..Len(consents[c]) : ~consents[c][i]}
Latest(S) == CHOOSE i \in S : \A j \in S : j <= i

\* revoke, in one transaction that locks nothing: the newest record that is
\* not revoked is read, ...
RevokeRead(x) ==
  LET c == acalls[x].of
  IN /\ acalls[x].step = "act" /\ acalls[x].op = "revoke"
     /\ IF ActiveConsents(c) = {}
        THEN Answer(x, "not found")
        ELSE acalls' = [acalls EXCEPT ![x] =
               [@ EXCEPT !.step = "revoking", !.seen = Latest(ActiveConsents(c))]]
     /\ UNCHANGED <<apiRows, trail>>

\* A review for a case that has none.
OneReviewPerCase(c) == IF reviews[c] = 0 THEN 1 ELSE reviews[c]

\* openRetentionReviewForRevokedConsent
ReviewsOpened(c) == reviews[c] + 1

\* ... it is marked revoked, and the review of what was collected under it
\* is opened.
RevokeConsent(x) ==
  LET c == acalls[x].of
  IN /\ acalls[x].step = "revoking"
     /\ consents' = [consents EXCEPT ![c] = [@ EXCEPT ![acalls[x].seen] = TRUE]]
     /\ reviews' = [reviews EXCEPT ![c] = ReviewsOpened(c)]
     /\ Effect(x, "audit")
     /\ UNCHANGED <<rows, version, cstatus, events, trail>>

\* A write that checks the status only.
StatusOnly(x) == cstatus[acalls[x].of] \in Escalatable

\* The conditions of escalate_to_reviewer's UPDATE: the version that was
\* read and a status it may leave.
CasMatches(x) ==
  /\ version[acalls[x].of] = acalls[x].seen
  /\ cstatus[acalls[x].of] \in Escalatable

Escalate(x) ==
  LET c == acalls[x].of
  IN /\ acalls[x].step = "act" /\ acalls[x].op = "escalate"
     /\ IF CasMatches(x)
        THEN /\ version' = [version EXCEPT ![c] = @ + 1]
             /\ cstatus' = [cstatus EXCEPT ![c] = "WAITING_FOR_REVIEW"]
             /\ events' = [events EXCEPT ![c]["CaseEscalated"] = @ + 1]
             /\ Effect(x, "audit")
        ELSE Answer(x, "conflict") /\ UNCHANGED <<version, cstatus, events>>
     /\ UNCHANGED <<rows, consents, reviews, trail>>

\* What Temporal does with a command: it accepts it, or reports that there
\* is no run, or that the run is not in a state for it.
HandToWorkflow(x, answers) ==
  /\ Effect(x, "audit") \/ \E a \in answers : Answer(x, a)
  /\ UNCHANGED <<apiRows, trail>>

\* A review that is recorded whatever Temporal says.
ReviewAssumed(x) ==
  /\ acalls[x].step = "act" /\ acalls[x].op = "review"
  /\ Advance(x, "audit")
  /\ UNCHANGED <<apiRows, trail>>

SubmitReview(x) ==
  /\ acalls[x].step = "act" /\ acalls[x].op = "review"
  /\ HandToWorkflow(x, {"not found"})

CancelWorkflow(x) ==
  /\ acalls[x].step = "act" /\ acalls[x].op = "cancel"
  /\ HandToWorkflow(x, {"not found", "conflict"})

RecoverWorkflow(x) ==
  /\ acalls[x].step = "act" /\ acalls[x].op = "recover"
  /\ IF cstatus[acalls[x].of] \in {"READY_FOR_UNDERWRITING", "CLOSED"}
     THEN Answer(x, "conflict") /\ UNCHANGED <<apiRows, trail>>
     ELSE HandToWorkflow(x, {"not found", "conflict"})

\* startWorkflow: a start that finds a run returns it; nothing is audited.
StartWorkflow(x) ==
  /\ acalls[x].step = "act" /\ acalls[x].op = "start"
  /\ Effect(x, "answered")
  /\ UNCHANGED <<apiRows, trail>>

\* The controller records the action after the service call has returned;
\* a failing audit write is logged and swallowed.
Audit(x) ==
  /\ acalls[x].step = "audit"
  /\ trail' \in {trail, trail \cup {<<x, acalls[x].op>>}}
  /\ Answer(x, "done")
  /\ UNCHANGED apiRows

\* The API process dies, or the connection does.
ApiCallDies(x) ==
  /\ acalls[x].step \notin {"unsent", "answered", "dead"}
  /\ Advance(x, "dead")
  /\ UNCHANGED <<apiRows, trail>>

\* The workflow's activities write the status of the case.
WorkflowMoves(c) ==
  /\ rows[c] > 0 /\ version[c] < MaxCaseRows
  /\ \E s \in Statuses \ {"DRAFT", cstatus[c]} : cstatus' = [cstatus EXCEPT ![c] = s]
  /\ version' = [version EXCEPT ![c] = @ + 1]
  /\ UNCHANGED <<rows, consents, reviews, events, trail, acalls>>

ApiNext ==
  \/ \E x \in ApiCalls :
       \/ CreateCaseRoute(x) \/ StartRoute(x) \/ CancelRoute(x) \/ RecoverRoute(x)
       \/ ReviewRoute(x) \/ ConsentRoute(x) \/ EscalateRoute(x)
       \/ StartMutation(x) \/ ReviewMutation(x) \/ ConsentMutation(x) \/ EscalateMutation(x)
       \/ Guard(x) \/ FindExisting(x) \/ InsertCase(x) \/ GrantAtCreation(x)
       \/ GetCase(x) \/ GrantConsent(x) \/ RevokeRead(x) \/ RevokeConsent(x) \/ Escalate(x)
       \/ SubmitReview(x) \/ CancelWorkflow(x) \/ RecoverWorkflow(x) \/ StartWorkflow(x)
       \/ Audit(x) \/ ApiCallDies(x)
  \/ \E c \in CaseIds : WorkflowMoves(c)

ApiSpec == ApiInit /\ [][ApiNext]_apiVars
-----------------------------------------------------------------------------
\* Every variable has its type.
ApiTypeOK ==
  /\ rows \in [CaseIds -> 0..1] /\ version \in [CaseIds -> Nat]
  /\ cstatus \in [CaseIds -> Statuses \cup {"NONE"}]
  /\ \A c \in CaseIds : rows[c] = 0 => consents[c] = <<>>

\* However many calls create a case under one key, concurrently or after a
\* death, there is one case, announced once.
OneCasePerKey ==
  \A c \in CaseIds : rows[c] <= 1 /\ events[c]["LoanCaseCreated"] = rows[c]

\* A case has no consent record only while its creating call is between
\* its two transactions, or when that call died there.
ConsentFollowsCreation ==
  \A c \in CaseIds : rows[c] > 0 /\ consents[c] = <<>> =>
    \E x \in ApiCalls :
      /\ acalls[x].op = "create" /\ acalls[x].of = c /\ acalls[x].effect
      /\ acalls[x].step \in {"consent", "dead"}

\* Every consent record that was revoked has a retention review of its own,
\* however revocations of one case overlap and die.
EveryRevocationReviewed ==
  \A c \in CaseIds : Cardinality(1..Len(consents[c]) \ ActiveConsents(c)) <= reviews[c]

\* A call acts only on a case of its own tenant, whichever case it names.
ActsOnOwnCase ==
  \A x \in ApiCalls : acalls[x].effect => acalls[x].of[1] = acalls[x].tenant

\* An audit event of an action tells of something that happened: the call
\* it names has taken effect, or was rejected by the role guard.
AuditTellsTheTruth ==
  \A e \in trail :
    \/ acalls[e[1]].effect /\ e[2] = acalls[e[1]].op
    \/ acalls[e[1]].answer = "forbidden" /\ e[2] = "RBAC_REJECTED"

\* An escalation replaces only the state its caller saw: between the read
\* and the write nobody else has moved the case.
EscalatesAsSeen ==
  \A x \in ApiCalls :
    acalls[x].op = "escalate" /\ ~acalls[x].effect /\ acalls'[x].effect =>
      version[acalls[x].of] = acalls[x].seen

\* However many calls create a case under one key, there is one case,
\* announced once; it has no consent record only while its creating call is
\* between its two transactions, or died there; every revoked record has a
\* retention review of its own; a call acts only on a case of its own
\* tenant; and an audit event tells of an effect or a rejection that
\* happened (cases.service.ts, consent.service.ts, audit-event.service.ts).
CasesAreSound ==
  /\ ApiTypeOK /\ OneCasePerKey /\ ConsentFollowsCreation /\ EveryRevocationReviewed
  /\ ActsOnOwnCase /\ AuditTellsTheTruth

\* No step escalates a case that has moved since it was read
\* (escalate-to-reviewer.tool.ts).
EscalationIsNotStale == [][EscalatesAsSeen]_apiVars
==============================================================================
