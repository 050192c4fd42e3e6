---------------------------- MODULE Communications ----------------------------
(***************************************************************************)
(* Messages to borrowers (src/src/communications): templates, drafts and   *)
(* their classification, a reviewer's approval, delivery, and the notice   *)
(* that the workflow sends when a case is ready for underwriting.          *)
(*                                                                         *)
(* A text is a sequence of parts: literal template text, the value of a    *)
(* variable (plain, or one that findNegativeImplication flags), free-form  *)
(* text, or a placeholder that was left unsubstituted.  A transaction that *)
(* reads, then writes, is two steps: the row is not locked in between.     *)
(***************************************************************************)
EXTENDS Integers, Sequences, FiniteSets

CONSTANTS
  Template,        \* per template key and version: its row
  ReadyTemplate,   \* READY_FOR_UNDERWRITING_TEMPLATE_KEY at its version
  Drafts,          \* inputs of draft_information_request
  ReadyDraft,      \* the input of the ready-for-underwriting notice
  MessageCalls,    \* approve, send and notice calls that can be in progress
  MaxMessages,     \* bound: messages
  MaxMessageCalls  \* bound: calls

VARIABLES
  templates,    \* template rows that exist
  messages,     \* communication_messages, oldest first
  approvals,    \* communication_approvals
  outbox,       \* CommunicationDelivered events, as message numbers
  delivered,    \* history: what the channel was handed, in order
  call,         \* per call: its state
  entries,      \* audit_events about messages
  made          \* bound counter

commsVars == <<templates, messages, approvals, outbox, delivered, call, entries, made>>

Keys == DOMAIN Template
NoKey == "none"
TemplateRow == [channel: STRING, locale: STRING, recipientRelationship: STRING,
                body: Seq([lit: STRING] \cup [var: STRING]), allowedVariables: SUBSET STRING,
                attachmentsAllowed: BOOLEAN, status: {"DRAFT", "APPROVED"}]
Part == [lit: STRING] \cup [value: {"plain", "negative"}] \cup [hole: STRING] \cup [free: {"text"}]
Classifications == {"ROUTINE", "PROTECTED"}
MessageStatuses == {"DRAFTED", "AWAITING_APPROVAL", "APPROVED", "SENT"}
MessageRecord ==
  [classification: Classifications, content: Seq(Part), status: MessageStatuses]

ASSUME CommsAssumption ==
  /\ Template \in [Keys -> TemplateRow]
  /\ \A in \in Drafts \cup {ReadyDraft} :
       \A x \in DOMAIN in.variables : in.variables[x] \in {"plain", "negative"}
  /\ IsFiniteSet(MessageCalls)

CommsInit ==
  /\ templates = {k \in Keys : Template[k].status = "DRAFT"}
  /\ messages = <<>>
  /\ approvals = {}
  /\ outbox = <<>>
  /\ delivered = <<>>
  /\ call = [c \in MessageCalls |-> [step |-> "idle"]]
  /\ entries = {}
  /\ made = 0

-----------------------------------------------------------------------------
(***************************************************************************)
(* renderTemplate and classifyCommunication.                               *)
(***************************************************************************)

Render(k, variables) ==
  LET body == Template[k].body
  IN  [i \in DOMAIN body |->
         IF "lit" \in DOMAIN body[i] THEN body[i]
         ELSE IF body[i].var \in DOMAIN variables THEN [value |-> variables[body[i].var]]
         ELSE [hole |-> body[i].var]]

MissingVariables(k, variables) ==
  {Template[k].body[i].var : i \in {j \in DOMAIN Template[k].body :
      "var" \in DOMAIN Template[k].body[j] /\ Template[k].body[j].var \notin DOMAIN variables}}
UnknownVariables(k, variables) == DOMAIN variables \ Template[k].allowedVariables
Negative(variables) == {x \in DOMAIN variables : variables[x] = "negative"}

ReasonsButMissing(k, in) ==                                 \* mutant of Reasons
  LET t == Template[k]
      breaks == [status |-> t.status # "APPROVED",
                 channel |-> t.channel # in.channel,
                 locale |-> t.locale # in.locale,
                 relationship |-> t.recipientRelationship # in.recipientRelationship,
                 attachments |-> in.hasAttachments /\ ~t.attachmentsAllowed,
                 unknown |-> UnknownVariables(k, in.variables) # {},
                 negative |-> Negative(in.variables) # {}]
  IN  {rule \in DOMAIN breaks : breaks[rule]}

Reasons(k, in) ==
  ReasonsButMissing(k, in) \cup {"missing" : x \in MissingVariables(k, in.variables)}

(* The outcome of a draft, given the templates that exist.                  *)
Classify(in) ==
  CASE in.freeform ->
         [reasons |-> {"free-form"}, content |-> <<[free |-> "text"]>>]
    [] ~in.freeform /\ in.template \notin templates ->
         [reasons |-> {"not found"}, content |-> <<>>]
    [] OTHER ->
         [reasons |-> Reasons(in.template, in), content |-> Render(in.template, in.variables)]

(* CommunicationMessageService.draft; without a template key and without    *)
(* free-form text classifyCommunication throws and nothing is saved.        *)
MessageRow(in) ==
  LET outcome == Classify(in)
      routine == outcome.reasons = {}
  IN  [classification |-> IF routine THEN "ROUTINE" ELSE "PROTECTED",
       content |-> outcome.content,
       status |-> IF routine THEN "DRAFTED" ELSE "AWAITING_APPROVAL"]

SaveDraft(in) ==
  /\ in.freeform \/ in.template # NoKey
  /\ Len(messages) < MaxMessages
  /\ messages' = Append(messages, MessageRow(in))

(* The draft_information_request tool of the Agent.                         *)
DraftInformationRequest(in) ==
  /\ SaveDraft(in)
  /\ UNCHANGED <<templates, approvals, outbox, delivered, call, entries, made>>

(* seed-communication-template: refuses a key and version that exist.       *)
SeedTemplate(k) ==
  /\ k \notin templates
  /\ Template[k].status = "APPROVED"
  /\ templates' = templates \cup {k}
  /\ UNCHANGED <<messages, approvals, outbox, delivered, call, entries, made>>

-----------------------------------------------------------------------------
Start(c, state) ==
  /\ call[c].step = "idle"
  /\ made < MaxMessageCalls
  /\ made' = made + 1
  /\ call' = [call EXCEPT ![c] = state]
MessageGoto(c, state) == call' = [call EXCEPT ![c] = state] /\ UNCHANGED made
Done == [step |-> "idle"]

(* CommunicationApprovalService.approve: only APPROVED is refused.  The     *)
(* audit event is written after the transaction has committed.              *)
MayApproveMessage(m) ==
  /\ messages[m].classification = "PROTECTED"
  /\ messages[m].status # "APPROVED"

ApproveRead(c, m) ==
  /\ MayApproveMessage(m)
  /\ Start(c, [step |-> "approve", message |-> m])
  /\ UNCHANGED <<templates, messages, approvals, outbox, delivered, entries>>

ApproveCommit(c) ==
  LET m == call[c].message
  IN  /\ call[c].step = "approve"
      /\ approvals' = approvals \cup {[message |-> m, content |-> messages[m].content]}
      /\ messages' = [messages EXCEPT ![m] = [@ EXCEPT !.status = "APPROVED"]]
      /\ MessageGoto(c, [step |-> "record", message |-> m, action |-> "COMMUNICATION_APPROVED"])
      /\ UNCHANGED <<templates, outbox, delivered, entries>>

RecordEntry(c) ==
  /\ call[c].step = "record"
  /\ entries' = entries \cup {[message |-> call[c].message, action |-> call[c].action]}
  /\ MessageGoto(c, Done)
  /\ UNCHANGED <<templates, messages, approvals, outbox, delivered>>

-----------------------------------------------------------------------------
(***************************************************************************)
(* CommunicationDeliveryService.deliver: read and check, hand the content  *)
(* to the channel, then commit SENT with its outbox event.  The controller *)
(* and the resolver record an audit event after it; the Agent's tool and   *)
(* the workflow's notice do not.                                           *)
(***************************************************************************)

ReadyUnlessSent(m) == messages[m].status # "SENT"               \* mutant of Ready

Ready(m) ==
  \/ messages[m].classification = "ROUTINE" /\ messages[m].status = "DRAFTED"
  \/ messages[m].classification = "PROTECTED" /\ messages[m].status = "APPROVED"

DeliverUnsent(c, m, audited) ==                        \* mutant of DeliverRead
  /\ Ready(m)
  /\ Start(c, [step |-> "commit", message |-> m, audited |-> audited])
  /\ UNCHANGED <<templates, messages, approvals, outbox, delivered, entries>>

DeliverRead(c, m, audited) ==
  /\ Ready(m)
  /\ Start(c, [step |-> "send", message |-> m, audited |-> audited])
  /\ UNCHANGED <<templates, messages, approvals, outbox, delivered, entries>>

SendMessage(c, m) == DeliverRead(c, m, TRUE)
SendInformationRequest(c, m) == DeliverRead(c, m, FALSE)

(* The reference is a digest of the message and its content.                *)
HandOver(c) ==
  LET m == call[c].message
  IN  /\ call[c].step = "send"
      /\ delivered' = Append(delivered, [message |-> m, content |-> messages[m].content])
      /\ MessageGoto(c, [call[c] EXCEPT !.step = "commit"])
      /\ UNCHANGED <<templates, messages, approvals, outbox, entries>>

AfterDelivery(c) ==
  IF call[c].audited
  THEN [step |-> "record", message |-> call[c].message, action |-> "COMMUNICATION_SENT"] ELSE Done

DeliverCommit(c) ==
  LET m == call[c].message
  IN  /\ call[c].step = "commit"
      /\ messages' = [messages EXCEPT ![m] = [@ EXCEPT !.status = "SENT"]]
      /\ outbox' = Append(outbox, m)
      /\ MessageGoto(c, AfterDelivery(c))
      /\ UNCHANGED <<templates, approvals, delivered, entries>>

(* The process of a call dies: its transaction is rolled back, or it ends   *)
(* before its audit event.                                                  *)
MessageCallDies(c) ==
  /\ call[c].step # "idle"
  /\ MessageGoto(c, Done)
  /\ UNCHANGED <<templates, messages, approvals, outbox, delivered, entries>>

-----------------------------------------------------------------------------
(***************************************************************************)
(* sendReadyForUnderwritingNotification: nothing without an approved       *)
(* template; otherwise a draft, then its delivery if it is ready.          *)
(***************************************************************************)

NoticeBegin(c) ==
  /\ ReadyTemplate \in templates
  /\ Start(c, [step |-> "draft"])
  /\ UNCHANGED <<templates, messages, approvals, outbox, delivered, entries>>

NoticeDraft(c) ==
  /\ call[c].step = "draft"
  /\ SaveDraft(ReadyDraft)
  /\ MessageGoto(c, [step |-> "deliver", message |-> Len(messages) + 1])
  /\ UNCHANGED <<templates, approvals, outbox, delivered, entries>>

NoticeDeliver(c) ==
  /\ call[c].step = "deliver"
  /\ MessageGoto(c, IF Ready(call[c].message)
             THEN [step |-> "send", message |-> call[c].message, audited |-> FALSE] ELSE Done)
  /\ UNCHANGED <<templates, messages, approvals, outbox, delivered, entries>>

CommsNext ==
  \/ \E in \in Drafts : DraftInformationRequest(in)
  \/ \E k \in Keys : SeedTemplate(k)
  \/ \E c \in MessageCalls :
       \/ \E m \in DOMAIN messages :
            ApproveRead(c, m) \/ SendMessage(c, m) \/ SendInformationRequest(c, m)
       \/ ApproveCommit(c) \/ RecordEntry(c) \/ HandOver(c) \/ DeliverCommit(c) \/ MessageCallDies(c)
       \/ NoticeBegin(c) \/ NoticeDraft(c) \/ NoticeDeliver(c)

CommsSpec == CommsInit /\ [][CommsNext]_commsVars

-----------------------------------------------------------------------------
(***************************************************************************)
(* Properties.                                                             *)
(***************************************************************************)

(* Every variable has its type.                                             *)
CommsTypeOK ==
  /\ templates \subseteq Keys
  /\ \A m \in DOMAIN messages : messages[m] \in MessageRecord
  /\ \A a \in approvals : a.message \in DOMAIN messages
  /\ \A i \in DOMAIN outbox : outbox[i] \in DOMAIN messages
  /\ entries \subseteq [message: DOMAIN messages, action: {"COMMUNICATION_APPROVED", "COMMUNICATION_SENT"}]

(* What goes out of a PROTECTED message is text that a reviewer approved,   *)
(* whatever approvals, deliveries and notices overlapped.                   *)
ProtectedTextApproved ==
  \A i \in DOMAIN delivered :
    messages[delivered[i].message].classification = "PROTECTED" =>
      [message |-> delivered[i].message, content |-> delivered[i].content] \in approvals

(* What goes out without a reviewer is approved template text with every    *)
(* placeholder filled, no flagged value and no free-form text.              *)
RoutineTextIsTemplate ==
  \A i \in DOMAIN delivered :
    messages[delivered[i].message].classification = "ROUTINE" =>
      \A j \in DOMAIN delivered[i].content :
        LET part == delivered[i].content[j]
        IN  "lit" \in DOMAIN part \/ ("value" \in DOMAIN part /\ part.value = "plain")

(* An event is published, and an audit entry written, only for what really *)
(* happened: a delivery for every event and for every COMMUNICATION_SENT,   *)
(* an approval for every COMMUNICATION_APPROVED.                            *)
EventFollowsDelivery ==
  /\ \A m \in DOMAIN messages :
       Cardinality({i \in DOMAIN outbox : outbox[i] = m})
         <= Cardinality({i \in DOMAIN delivered : delivered[i].message = m})
  /\ \A e \in entries :
       IF e.action = "COMMUNICATION_SENT" THEN \E i \in DOMAIN delivered : delivered[i].message = e.message
       ELSE \E a \in approvals : a.message = e.message

(* All of it at once, whatever approvals, deliveries and notices overlap    *)
(* (communication-delivery.service.ts, communication-classifier.ts).        *)
MessagesAreApproved ==
  CommsTypeOK /\ ProtectedTextApproved /\ RoutineTextIsTemplate /\ EventFollowsDelivery
=============================================================================
