-------------------------- MODULE ProviderDispatch --------------------------
(***************************************************************************)
(* dispatchProviderRequest and the operation intent it persists            *)
(* (src/src/provider-platform), for one logical operation of one case: the *)
(* attempts of a fetch-evidence activity (src/src/workflows/               *)
(* case-conditions.activities.ts), the consent they rest on, the kill      *)
(* switch, the reconciliation sweep and the reviewer.                      *)
(*                                                                         *)
(* The logical operation key names the case and the capability, so every   *)
(* Temporal retry, every attempt that outlived its timeout and every later *)
(* workflow run of the case works on the same intent row.  An attempt may  *)
(* therefore begin at any time, next to any number of others, with the     *)
(* same request: prepare() never sees a changed fingerprint.               *)
(*                                                                         *)
(* A grant and a permissible-purpose decision belong to the attempt that   *)
(* issued them.  Activities dispatch in SIMULATOR mode, which the          *)
(* promotion chain does not gate.                                          *)
(***************************************************************************)
EXTENDS Naturals, Sequences

CONSTANTS
  Attempts,       \* attempts of the activity, over all workflow runs
  NoAttempt,      \* "no grant"
  ConsumerReport, \* TRUE for CREDIT, which needs a permissible purpose
  MaxConsents     \* bound on the consent records of the case

ASSUME DispatchAssumption ==
  /\ NoAttempt \notin Attempts
  /\ ConsumerReport \in BOOLEAN
  /\ MaxConsents \in Nat \ {0}

VARIABLES
  intentState,    \* state column of the intent; NONE when there is no row
  intentGrant,    \* authorizationGrantId: the attempt that issued the grant
  intentContent,  \* TRUE when a provider receipt or finding is stored
  consents,       \* the case's consent records, oldest first
  record,         \* per attempt: its grant's consent record; 0 when none
  disabled,       \* the kill switch of the adapter
  lapsed,         \* attempts whose five-minute grant and decision expired
  submissions,    \* how often adapter.submit was called
  evidence,       \* evidence facts, named by the attempt that recorded them
  pc,             \* per attempt: the next step
  error           \* per attempt: the error it ended with

intentVars == <<intentState, intentGrant, intentContent>>
authorityVars == <<consents, record, disabled, lapsed>>
dispatchVars == <<intentVars, authorityVars, submissions, evidence, pc, error>>

Terminal == {"SUCCEEDED", "FAILED_FINAL", "CANCELLED"}
IntentStates == {"NONE", "PREPARED", "DISPATCHED", "OUTCOME_UNKNOWN",
                 "RECONCILING"} \cup Terminal

(* The steps of an attempt; in the first set its grant names a consent      *)
(* record that is still to be revalidated.                                  *)
BeforeRevalidation == {"authorize", "find", "insert", "adopt", "revalidate"}
Running == BeforeRevalidation \cup
           {"killSwitch", "consent", "repurpose", "refuse", "dispatch",
            "submit", "succeed", "reject", "contract", "unclear", "evidence"}
Errors == {"DISABLED", "CONSENT", "PURPOSE", "AUTHORIZATION", "REPLAY_BLOCKED",
           "TX_ABORTED", "TRANSITION", "REJECTED", "CONTRACT", "TIMEOUT",
           "DATABASE"}

DispatchInit ==
  /\ intentState = "NONE"
  /\ intentGrant = NoAttempt
  /\ intentContent = FALSE
  /\ consents = <<"GRANTED">>
  /\ record = [a \in Attempts |-> 0]
  /\ disabled = FALSE
  /\ lapsed = {}
  /\ submissions = 0
  /\ evidence = {}
  /\ pc = [a \in Attempts |-> "idle"]
  /\ error = [a \in Attempts |-> "NONE"]

Goto(a, label) == pc' = [pc EXCEPT ![a] = label] /\ UNCHANGED error

Fail(a, why) ==
  /\ pc' = [pc EXCEPT ![a] = "failed"]
  /\ error' = [error EXCEPT ![a] = why]

Begin(a) ==
  /\ pc[a] = "idle"
  /\ Goto(a, "killSwitch")
  /\ UNCHANGED <<intentVars, authorityVars, submissions, evidence>>

-----------------------------------------------------------------------------
(***************************************************************************)
(* Authority: kill switch, consent, purpose and grant.                     *)
(***************************************************************************)
CheckKillSwitch(a) ==
  /\ pc[a] = "killSwitch"
  /\ IF disabled THEN Fail(a, "DISABLED") ELSE Goto(a, "consent")
  /\ UNCHANGED <<intentVars, authorityVars, submissions, evidence>>

(* The most recent record decides; every record of the case covers the      *)
(* purpose and the data classes.                                            *)
CheckConsent(a) ==
  /\ pc[a] = "consent"
  /\ IF consents[Len(consents)] = "GRANTED"
       THEN /\ record' = [record EXCEPT ![a] = Len(consents)]
            /\ Goto(a, "authorize")
       ELSE Fail(a, "CONSENT") /\ UNCHANGED record
  /\ UNCHANGED <<intentVars, consents, disabled, lapsed, submissions, evidence>>

(* The synthetic decision is issued and validated, then the grant issued;   *)
(* the decision may lapse in between.                                       *)
Authorize(a) ==
  /\ pc[a] = "authorize"
  /\ \/ Goto(a, "find")
     \/ ConsumerReport /\ Fail(a, "PURPOSE")
  /\ UNCHANGED <<intentVars, authorityVars, submissions, evidence>>

-----------------------------------------------------------------------------
(***************************************************************************)
(* prepare(): one transaction of a read followed by an insert or update.   *)
(***************************************************************************)

ReplayUnchecked(a) ==                                    \* mutant of Replay
  IF intentState = "SUCCEEDED" THEN Goto(a, "evidence")
                               ELSE Fail(a, "REPLAY_BLOCKED")

(* What the caller does with an intent that is not PREPARED.                *)
Replay(a) ==
  IF intentState = "SUCCEEDED" /\ intentContent THEN Goto(a, "evidence")
                                                ELSE Fail(a, "REPLAY_BLOCKED")

Find(a) ==
  /\ pc[a] = "find"
  /\ \/ intentState = "NONE" /\ Goto(a, "insert")
     \/ intentState = "PREPARED" /\ Goto(a, "adopt")
     \/ intentState \notin {"NONE", "PREPARED"} /\ Replay(a)
  /\ UNCHANGED <<intentVars, authorityVars, submissions, evidence>>

(* A unique violation aborts the transaction, so the reload in the catch    *)
(* block fails as well.                                                     *)
Insert(a) ==
  /\ pc[a] = "insert"
  /\ IF intentState = "NONE"
       THEN /\ intentState' = "PREPARED"
            /\ intentGrant' = a
            /\ Goto(a, "revalidate")
       ELSE Fail(a, "TX_ABORTED") /\ UNCHANGED <<intentState, intentGrant>>
  /\ UNCHANGED <<intentContent, authorityVars, submissions, evidence>>

(* The conditional update; the caller goes on with the state it read.       *)
Adopt(a) ==
  /\ pc[a] = "adopt"
  /\ intentGrant' = IF intentState = "PREPARED" THEN a ELSE intentGrant
  /\ Goto(a, "revalidate")
  /\ UNCHANGED <<intentState, intentContent, authorityVars, submissions,
                 evidence>>

-----------------------------------------------------------------------------
(***************************************************************************)
(* Revalidation and dispatch.                                              *)
(***************************************************************************)
RevalidateGrantOnly(a) ==                            \* mutant of Revalidate
  /\ pc[a] = "revalidate"
  /\ IF a \notin lapsed
       THEN Goto(a, IF ConsumerReport THEN "repurpose" ELSE "dispatch")
       ELSE Goto(a, "refuse")
  /\ UNCHANGED <<intentVars, authorityVars, submissions, evidence>>

Revalidate(a) ==
  /\ pc[a] = "revalidate"
  /\ IF a \notin lapsed /\ consents[record[a]] = "GRANTED"
       THEN Goto(a, IF ConsumerReport THEN "repurpose" ELSE "dispatch")
       ELSE Goto(a, "refuse")
  /\ UNCHANGED <<intentVars, authorityVars, submissions, evidence>>

Repurpose(a) ==
  /\ pc[a] = "repurpose"
  /\ Goto(a, IF a \in lapsed THEN "refuse" ELSE "dispatch")
  /\ UNCHANGED <<intentVars, authorityVars, submissions, evidence>>

(* transition(): an UPDATE conditional on the states it may come from.      *)
Transition(a, from, to, label) ==
  /\ intentState \in from
  /\ intentState' = to
  /\ Goto(a, label)

TransitionFails(a, from) ==
  /\ intentState \notin from
  /\ Fail(a, "TRANSITION")
  /\ UNCHANGED intentState

FailableAnyState == IntentStates                  \* mutant of FailableStates
FailableStates == {"PREPARED", "DISPATCHED"}

(* markFailedFinal, with the receipt if there is one, then the error that   *)
(* led to it.                                                               *)
MarkFailedFinal(a, why, receipt) ==
  /\ \/ /\ intentState \in FailableStates
        /\ intentState' = "FAILED_FINAL"
        /\ intentContent' = receipt
        /\ Fail(a, why)
     \/ TransitionFails(a, FailableStates) /\ UNCHANGED intentContent
  /\ UNCHANGED <<intentGrant, authorityVars, submissions, evidence>>

(* A failed revalidation of the grant or of the purpose decision.           *)
Refuse(a) == pc[a] = "refuse" /\ MarkFailedFinal(a, "AUTHORIZATION", FALSE)

(* The provider rejected the request.                                       *)
Reject(a) == pc[a] = "reject" /\ MarkFailedFinal(a, "REJECTED", FALSE)

(* The provider answered and the answer could not be accepted.              *)
Contract(a) == pc[a] = "contract" /\ MarkFailedFinal(a, "CONTRACT", TRUE)

DispatchAnyState == {"NONE", "PREPARED", "DISPATCHED"} \* mutant of Dispatchable
Dispatchable == {"PREPARED"}

Dispatch(a) ==
  /\ pc[a] = "dispatch"
  /\ \/ Transition(a, Dispatchable, "DISPATCHED", "submit")
     \/ TransitionFails(a, Dispatchable)
  /\ UNCHANGED <<intentGrant, intentContent, authorityVars, submissions,
                 evidence>>

(* The provider answers, refuses, or fails in a way that leaves open what   *)
(* it did; an answer may violate the finding contract.                      *)
Submit(a) ==
  /\ pc[a] = "submit"
  /\ submissions' = submissions + 1
  /\ \E answer \in {"succeed", "contract", "reject", "unclear"} : Goto(a, answer)
  /\ UNCHANGED <<intentVars, authorityVars, evidence>>

(* markSucceeded; its failure is handled with the receipt at hand.          *)
Succeed(a) ==
  /\ pc[a] = "succeed"
  /\ \/ /\ Transition(a, {"DISPATCHED"}, "SUCCEEDED", "evidence")
        /\ intentContent' = TRUE
     \/ /\ intentState # "DISPATCHED"
        /\ Goto(a, "contract")
        /\ UNCHANGED <<intentState, intentContent>>
  /\ UNCHANGED <<intentGrant, authorityVars, submissions, evidence>>

Unclear(a) ==
  /\ pc[a] = "unclear"
  /\ \/ /\ intentState = "DISPATCHED"
        /\ intentState' = "OUTCOME_UNKNOWN"
        /\ Fail(a, "TIMEOUT")
     \/ TransitionFails(a, {"DISPATCHED"})
  /\ UNCHANGED <<intentGrant, intentContent, authorityVars, submissions,
                 evidence>>

(* The activity's own transaction: the evidence fact and its outbox event.  *)
RecordEvidence(a) ==
  /\ pc[a] = "evidence"
  /\ evidence' = evidence \cup {a}
  /\ Goto(a, "done")
  /\ UNCHANGED <<intentVars, authorityVars, submissions>>

ThrowUnclassified(a) ==                                   \* mutant of Throw
  /\ pc[a] \in Running \ {"submit"}
  /\ Fail(a, "UNCLASSIFIED")
  /\ UNCHANGED <<intentVars, authorityVars, submissions, evidence>>

(* A database error fails the attempt; around markSucceeded it is caught.   *)
Throw(a) ==
  /\ pc[a] \in Running \ {"submit"}
  /\ IF pc[a] = "succeed" THEN Goto(a, "contract") ELSE Fail(a, "DATABASE")
  /\ UNCHANGED <<intentVars, authorityVars, submissions, evidence>>

(* The worker dies.                                                         *)
Crash(a) ==
  /\ pc[a] \in Running
  /\ Goto(a, "crashed")
  /\ UNCHANGED <<intentVars, authorityVars, submissions, evidence>>

Step(a) ==
  \/ CheckKillSwitch(a) \/ CheckConsent(a) \/ Authorize(a)
  \/ Find(a) \/ Insert(a) \/ Adopt(a)
  \/ Revalidate(a) \/ Repurpose(a) \/ Refuse(a)
  \/ Dispatch(a) \/ Submit(a) \/ Succeed(a) \/ Reject(a) \/ Contract(a)
  \/ Unclear(a) \/ RecordEvidence(a)

-----------------------------------------------------------------------------
(***************************************************************************)
(* Everyone else.                                                          *)
(***************************************************************************)
GrantConsent ==
  /\ Len(consents) < MaxConsents
  /\ consents' = Append(consents, "GRANTED")
  /\ UNCHANGED <<intentVars, record, disabled, lapsed, submissions, evidence,
                 pc, error>>

(* The newest record that is not revoked yet.                               *)
IsActiveRecord(i) ==
  /\ i \in 1..Len(consents)
  /\ consents[i] = "GRANTED"
  /\ \A j \in (i + 1)..Len(consents) : consents[j] = "REVOKED"

RevokeConsent ==
  /\ \E i \in 1..MaxConsents :
       IsActiveRecord(i) /\ consents' = [consents EXCEPT ![i] = "REVOKED"]
  /\ UNCHANGED <<intentVars, record, disabled, lapsed, submissions, evidence,
                 pc, error>>

SetKillSwitch(off) ==
  /\ disabled # off
  /\ disabled' = off
  /\ UNCHANGED <<intentVars, consents, record, lapsed, submissions, evidence,
                 pc, error>>

Lapse(a) ==
  /\ pc[a] \in {"find", "insert", "adopt", "revalidate", "repurpose"}
  /\ lapsed' = lapsed \cup {a}
  /\ UNCHANGED <<intentVars, consents, record, disabled, submissions,
                 evidence, pc, error>>

(* The sweep lists stale OUTCOME_UNKNOWN intents and moves each one under   *)
(* a condition on its state.                                                *)
FlagUnknown ==
  /\ intentState = "OUTCOME_UNKNOWN"
  /\ intentState' = "RECONCILING"
  /\ UNCHANGED <<intentGrant, intentContent, authorityVars, submissions,
                 evidence, pc, error>>

ResolveAnyOpen(outcome) ==                      \* mutant of ResolveManually
  /\ intentState \notin Terminal \cup {"NONE"}
  /\ intentState' = outcome
  /\ UNCHANGED <<intentGrant, intentContent, authorityVars, submissions,
                 evidence, pc, error>>

ResolveUnflagged(outcome) ==                    \* mutant of ResolveManually
  /\ intentState = "OUTCOME_UNKNOWN"
  /\ intentState' = outcome
  /\ UNCHANGED <<intentGrant, intentContent, authorityVars, submissions,
                 evidence, pc, error>>

ResolveManually(outcome) ==
  /\ intentState \in {"OUTCOME_UNKNOWN", "RECONCILING"}
  /\ intentState' = outcome
  /\ UNCHANGED <<intentGrant, intentContent, authorityVars, submissions,
                 evidence, pc, error>>

DispatchNext ==
  \/ \E a \in Attempts :
       Begin(a) \/ Step(a) \/ Throw(a) \/ Crash(a) \/ Lapse(a)
  \/ GrantConsent
  \/ RevokeConsent
  \/ \E off \in BOOLEAN : SetKillSwitch(off)
  \/ FlagUnknown
  \/ \E outcome \in Terminal : ResolveManually(outcome)

(* Attempts on a live worker keep running, the sweep is on a timer and the  *)
(* reviewer works through the list of intents that need reconciliation.     *)
DispatchFairness ==
  /\ \A a \in Attempts : WF_dispatchVars(Step(a))
  /\ WF_dispatchVars(FlagUnknown)
  /\ WF_dispatchVars(\E outcome \in Terminal : ResolveManually(outcome))

DispatchSpec == DispatchInit /\ [][DispatchNext]_dispatchVars /\ DispatchFairness

-----------------------------------------------------------------------------
(***************************************************************************)
(* Properties.                                                             *)
(***************************************************************************)
IntentTypeOK ==
  /\ intentState \in IntentStates
  /\ intentGrant \in Attempts \cup {NoAttempt}
  /\ intentContent \in BOOLEAN
  /\ disabled \in BOOLEAN
  /\ lapsed \subseteq Attempts
  /\ submissions \in Nat
  /\ evidence \subseteq Attempts
  /\ pc \in [Attempts -> Running \cup {"idle", "done", "failed", "crashed"}]
  /\ error \in [Attempts -> Errors \cup {"NONE"}]

ConsentTypeOK ==
  /\ consents \in Seq({"GRANTED", "REVOKED"})
  /\ Len(consents) \in 1..MaxConsents
  /\ record \in [Attempts -> 0..MaxConsents]

(* Every column, consent record and step of an attempt stays in its domain. *)
DispatchTypeOK == IntentTypeOK /\ ConsentTypeOK

(* "Provider retry/fallback duplicate effect: 0": however many attempts     *)
(* overlap, retry, crash or are restarted by a new workflow run, the        *)
(* provider is asked at most once for a logical operation.                  *)
AtMostOneSubmission == submissions <= 1

(* "a late writer cannot regress a terminal result": SUCCEEDED,             *)
(* FAILED_FINAL and CANCELLED are never left.                               *)
TerminalIsFinal ==
  [][(intentState \in Terminal) => intentState' = intentState]_dispatchVars

(* Evidence is only ever recorded from a finding the provider was asked for *)
(* and the intent durably accepted.                                         *)
EvidenceIsAccepted ==
  evidence # {} => intentState = "SUCCEEDED" /\ intentContent /\ submissions = 1

(* "a stale, mismatched, expired, or revoked reference fails closed instead *)
(* of dispatching": an attempt whose consent record is revoked before the   *)
(* attempt passed revalidation never reaches the provider.                  *)
RevokedNeverDispatches ==
  \A a \in Attempts :
    [](pc[a] \in BeforeRevalidation /\ consents[record[a]] = "REVOKED"
         => [](pc[a] # "submit"))

Once == INSTANCE OnceOnlyEffect
          WITH sent <- submissions > 0,
               verdict <- IF intentState \in Terminal THEN intentState
                                                      ELSE "OPEN"

(* The intent row, its conditional updates and all attempts together        *)
(* implement one effect that is sent at most once and decided once.         *)
ImplementsOnceOnly == Once!OnceSpec

(* An ambiguous operation is decided in the end: the sweep that flags it    *)
(* for a reviewer never strands it where nobody may resolve it.             *)
AmbiguityIsDecided ==
  intentState \in {"OUTCOME_UNKNOWN", "RECONCILING"} ~> intentState \in Terminal

(* Claim: revocation "stops new processing immediately, invalidates every   *)
(* dependent provider authorization grant": while the case's consent status *)
(* is REVOKED, no attempt passes revalidation.                              *)
RevocationInvalidatesGrants ==
  [][\A a \in Attempts :
       pc[a] = "revalidate" /\ consents[Len(consents)] = "REVOKED"
         => pc'[a] \notin {"repurpose", "dispatch"}]_dispatchVars
=============================================================================
