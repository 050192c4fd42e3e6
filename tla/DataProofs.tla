----------------------------- MODULE DataProofs ------------------------------
(***************************************************************************)
(* Theorems about what becomes of a case's data: ProviderDispatch,         *)
(* DataDisposition, KeyRotation and GuestSandbox, for any attempts,        *)
(* revocations, reviewers, holds, tasks, rows, processes, keys and guests. *)
(***************************************************************************)
EXTENDS DataDisposition, KeyRotation, GuestSandbox, TLAPS

(* Zenon is the prover of every leaf that names none.                       *)
USE ZenonT(90)

-----------------------------------------------------------------------------
(***************************************************************************)
(* ProviderDispatch.                                                       *)
(***************************************************************************)

(* What the conditional updates buy: the one attempt that moved the intent  *)
(* to DISPATCHED is the only one that may submit, and until then nothing    *)
(* was sent.  Later states all come after the submission.                   *)
DispatchInv ==
  /\ IntentTypeOK
  /\ AtMostOneSubmission
  /\ \A a, b \in Attempts : pc[a] = "submit" /\ pc[b] = "submit" => a = b
  /\ \A a \in Attempts :
       pc[a] = "submit" => /\ submissions = 0
                           /\ intentState \in {"DISPATCHED", "FAILED_FINAL"}
  /\ \A a \in Attempts :
       pc[a] \in {"succeed", "contract", "reject", "unclear"} => submissions = 1
  /\ intentState \in {"NONE", "PREPARED"} => submissions = 0
  /\ intentState \in {"OUTCOME_UNKNOWN", "RECONCILING", "SUCCEEDED", "CANCELLED"}
       => submissions = 1
  /\ \A a \in Attempts :
       (pc[a] = "evidence" \/ a \in evidence)
         => intentState = "SUCCEEDED" /\ intentContent

(* Every action preserves DispatchInv.                                      *)
LEMMA DispatchStep == DispatchInv /\ [DispatchNext]_dispatchVars => DispatchInv'
<1> SUFFICES ASSUME DispatchInv, [DispatchNext]_dispatchVars PROVE DispatchInv'
  OBVIOUS
<1> USE DispatchAssumption
    DEF DispatchInv, IntentTypeOK, AtMostOneSubmission, IntentStates,
        Terminal, Running, BeforeRevalidation, Errors, intentVars, authorityVars
<1>1. ASSUME NEW a \in Attempts, Begin(a) PROVE DispatchInv'
  BY <1>1 DEF Begin, Goto
<1>2. ASSUME NEW a \in Attempts, CheckKillSwitch(a) PROVE DispatchInv'
  BY <1>2, SMTT(30) DEF CheckKillSwitch, Goto, Fail
<1>3. ASSUME NEW a \in Attempts, CheckConsent(a) PROVE DispatchInv'
  BY <1>3, SMTT(30) DEF CheckConsent, Goto, Fail
<1>4. ASSUME NEW a \in Attempts, Authorize(a) PROVE DispatchInv'
  BY <1>4, SMTT(30) DEF Authorize, Goto, Fail
<1>5. ASSUME NEW a \in Attempts, Find(a) PROVE DispatchInv'
  BY <1>5, SMTT(30) DEF Find, Replay, Goto, Fail
<1>6. ASSUME NEW a \in Attempts, Insert(a) PROVE DispatchInv'
  BY <1>6, SMTT(30) DEF Insert, Goto, Fail
<1>7. ASSUME NEW a \in Attempts, Adopt(a) PROVE DispatchInv'
  BY <1>7 DEF Adopt, Goto
<1>8. ASSUME NEW a \in Attempts, Revalidate(a) \/ Repurpose(a) PROVE DispatchInv'
  BY <1>8, SMTT(30) DEF Revalidate, Repurpose, Goto
<1>9. ASSUME NEW a \in Attempts, Refuse(a) \/ Reject(a) \/ Contract(a)
      PROVE DispatchInv'
  <2>1. ASSUME NEW why \in {"AUTHORIZATION", "REJECTED", "CONTRACT"},
               NEW receipt \in BOOLEAN,
               intentState \in FailableStates,
               MarkFailedFinal(a, why, receipt)
        PROVE DispatchInv'
    <3>1. \A b \in Attempts : pc[b] # "evidence" /\ b \notin evidence
      BY <2>1 DEF FailableStates
    <3>2. /\ intentState' = "FAILED_FINAL" /\ intentContent' = receipt
          /\ pc' = [pc EXCEPT ![a] = "failed"]
          /\ error' = [error EXCEPT ![a] = why]
      BY <2>1 DEF MarkFailedFinal, TransitionFails, Fail
    <3>3. QED
      BY <2>1, <3>1, <3>2 DEF MarkFailedFinal
  <2>2. ASSUME NEW why, NEW receipt, intentState \notin FailableStates,
               MarkFailedFinal(a, why, receipt)
        PROVE DispatchInv'
    BY <2>2, SMTT(30) DEF MarkFailedFinal, TransitionFails, Fail
  <2>3. QED
    BY <1>9, <2>1, <2>2 DEF Refuse, Reject, Contract
<1>11. ASSUME NEW a \in Attempts, Dispatch(a) PROVE DispatchInv'
  BY <1>11, SMTT(30) DEF Dispatch, Dispatchable, Transition, TransitionFails, Goto, Fail
<1>12. ASSUME NEW a \in Attempts, Submit(a) PROVE DispatchInv'
  BY <1>12, SMTT(30) DEF Submit, Goto
<1>13. ASSUME NEW a \in Attempts, Succeed(a) PROVE DispatchInv'
  <2>1. \A b \in Attempts : pc[b] # "submit"
    BY <1>13, SMTT(30) DEF Succeed
  <2>2. CASE intentState = "DISPATCHED"
    BY <1>13, <2>1, <2>2 DEF Succeed, Transition, Goto
  <2>3. CASE intentState # "DISPATCHED"
    BY <1>13, <2>1, <2>3 DEF Succeed, Transition, Goto
  <2>4. QED
    BY <2>2, <2>3
<1>14. ASSUME NEW a \in Attempts, Unclear(a) PROVE DispatchInv'
  BY <1>14, SMTT(30) DEF Unclear, TransitionFails, Fail
<1>15. ASSUME NEW a \in Attempts, RecordEvidence(a) PROVE DispatchInv'
  BY <1>15 DEF RecordEvidence, Goto
<1>16. ASSUME NEW a \in Attempts, Throw(a) PROVE DispatchInv'
  BY <1>16, SMTT(30) DEF Throw, Goto, Fail
<1>17. ASSUME NEW a \in Attempts, Crash(a) \/ Lapse(a) PROVE DispatchInv'
  BY <1>17, SMTT(30) DEF Crash, Lapse, Goto
<1>18. CASE GrantConsent \/ RevokeConsent \/ \E off \in BOOLEAN : SetKillSwitch(off)
  BY <1>18 DEF GrantConsent, RevokeConsent, SetKillSwitch
<1>19. CASE FlagUnknown
  BY <1>19 DEF FlagUnknown
<1>20. ASSUME NEW outcome \in Terminal, ResolveManually(outcome)
       PROVE DispatchInv'
  BY <1>20 DEF ResolveManually
<1>21. CASE UNCHANGED dispatchVars
  BY <1>21 DEF dispatchVars
<1>22. QED
  BY <1>1, <1>2, <1>3, <1>4, <1>5, <1>6, <1>7, <1>8, <1>9, <1>11, <1>12,
     <1>13, <1>14, <1>15, <1>16, <1>17, <1>18, <1>19, <1>20, <1>21
     DEF DispatchNext, Step

(* The intent's part of the invariant holds throughout.                     *)
THEOREM DispatchInvariant == DispatchSpec => []DispatchInv
<1>1. DispatchInit => DispatchInv
  <2> SUFFICES ASSUME DispatchInit PROVE DispatchInv
    OBVIOUS
  <2>1. IntentTypeOK
    BY DEF DispatchInit, IntentTypeOK, IntentStates, Terminal, Running,
           BeforeRevalidation, Errors
  <2>2. QED
    BY <2>1, SMTT(30) DEF DispatchInit, DispatchInv, AtMostOneSubmission
<1>2. QED
  BY <1>1, DispatchStep, PTL DEF DispatchSpec

(* The consent record behind the grant of an attempt exists.                *)
ConsentInv ==
  /\ ConsentTypeOK
  /\ \A a \in Attempts :
       pc[a] \in BeforeRevalidation => record[a] \in 1..Len(consents)

(* An attempt only gets to "authorize" through CheckConsent, and every      *)
(* other step keeps it before revalidation or takes it past.                *)
LEMMA OtherSteps ==
  ASSUME DispatchInv, NEW a \in Attempts,
         \/ Begin(a) \/ CheckKillSwitch(a) \/ Authorize(a) \/ Find(a)
         \/ Insert(a) \/ Adopt(a) \/ Revalidate(a) \/ Repurpose(a)
         \/ Refuse(a) \/ Dispatch(a) \/ Submit(a) \/ Succeed(a) \/ Reject(a)
         \/ Contract(a) \/ Unclear(a) \/ RecordEvidence(a) \/ Throw(a)
         \/ Crash(a) \/ Lapse(a)
  PROVE  /\ UNCHANGED <<consents, record>>
         /\ \A b \in Attempts :
              pc'[b] \in BeforeRevalidation => pc[b] \in BeforeRevalidation
<1> USE DEF DispatchInv, IntentTypeOK, BeforeRevalidation, Goto, Fail,
            authorityVars
<1>1. CASE Begin(a) \/ CheckKillSwitch(a) \/ Authorize(a) \/ Find(a)
  BY <1>1 DEF Begin, CheckKillSwitch, Authorize, Find, Replay
<1>2. CASE Insert(a) \/ Adopt(a) \/ Revalidate(a) \/ Repurpose(a)
  BY <1>2 DEF Insert, Adopt, Revalidate, Repurpose
<1>3. CASE Refuse(a) \/ Reject(a) \/ Contract(a) \/ Unclear(a)
  BY <1>3 DEF Refuse, Reject, Contract, MarkFailedFinal, TransitionFails, Unclear
<1>4. CASE Dispatch(a) \/ Submit(a) \/ Succeed(a) \/ RecordEvidence(a)
  BY <1>4 DEF Dispatch, Submit, Succeed, RecordEvidence, Transition,
              TransitionFails
<1>5. CASE Throw(a) \/ Crash(a) \/ Lapse(a)
  BY <1>5 DEF Throw, Crash, Lapse
<1>6. QED
  BY <1>1, <1>2, <1>3, <1>4, <1>5

(* Every action preserves ConsentInv.                                       *)
LEMMA ConsentStep ==
  DispatchInv /\ ConsentInv /\ [DispatchNext]_dispatchVars => ConsentInv'
<1> SUFFICES ASSUME DispatchInv, ConsentInv, [DispatchNext]_dispatchVars
             PROVE ConsentInv'
  OBVIOUS
<1> USE DispatchAssumption DEF ConsentInv, ConsentTypeOK
<1>1. ASSUME UNCHANGED <<consents, record>>,
             \A b \in Attempts :
               pc'[b] \in BeforeRevalidation => pc[b] \in BeforeRevalidation
      PROVE ConsentInv'
  BY <1>1
<1>2. ASSUME NEW a \in Attempts, CheckConsent(a) PROVE ConsentInv'
  BY <1>2, SMTT(30) DEF CheckConsent, Goto, Fail, BeforeRevalidation, DispatchInv,
              IntentTypeOK
<1>3. CASE GrantConsent
  <2>1. consents' \in Seq({"GRANTED", "REVOKED"}) /\ Len(consents') = Len(consents) + 1
    BY <1>3, SMTT(30) DEF GrantConsent
  <2>2. QED
    BY <1>3, <2>1, SMTT(30) DEF GrantConsent
<1>4. CASE RevokeConsent
  <2>1. consents' \in Seq({"GRANTED", "REVOKED"}) /\ Len(consents') = Len(consents)
    BY <1>4, SMTT(30) DEF RevokeConsent, IsActiveRecord
  <2>2. QED
    BY <1>4, <2>1 DEF RevokeConsent
<1>5. CASE \E off \in BOOLEAN : SetKillSwitch(off)
  BY <1>1, <1>5 DEF SetKillSwitch
<1>6. CASE FlagUnknown \/ \E outcome \in Terminal : ResolveManually(outcome)
  BY <1>1, <1>6 DEF FlagUnknown, ResolveManually, authorityVars
<1>7. CASE UNCHANGED dispatchVars
  BY <1>1, <1>7 DEF dispatchVars, authorityVars
<1>8. QED
  BY <1>1, <1>2, <1>3, <1>4, <1>5, <1>6, <1>7, OtherSteps DEF DispatchNext, Step

(* Both parts of the invariant hold throughout.                             *)
THEOREM ConsentInvariant == DispatchSpec => [](DispatchInv /\ ConsentInv)
<1>1. DispatchInit => ConsentInv
  BY DispatchAssumption, SMTT(30)
     DEF DispatchInit, ConsentInv, ConsentTypeOK, BeforeRevalidation
<1>2. QED
  BY <1>1, ConsentStep, DispatchInvariant, PTL DEF DispatchSpec

(* Type correctness: dispatchProviderRequest, the intent service and the    *)
(* consent service keep every column and every step in its domain.          *)
THEOREM DispatchTypeCorrect == DispatchSpec => []DispatchTypeOK
<1>1. DispatchInv /\ ConsentInv => DispatchTypeOK
  BY DEF DispatchInv, ConsentInv, DispatchTypeOK
<1>2. QED
  BY <1>1, ConsentInvariant, PTL

(* However many attempts overlap, crash or are started again,               *)
(* adapter.submit is called at most once per logical operation.             *)
THEOREM SubmittedOnce == DispatchSpec => []AtMostOneSubmission
<1>1. DispatchInv => AtMostOneSubmission
  BY DEF DispatchInv
<1>2. QED
  BY <1>1, DispatchInvariant, PTL

(* A fact is recorded only from a stored finding of a SUCCEEDED intent.     *)
THEOREM EvidenceAccepted == DispatchSpec => []EvidenceIsAccepted
<1>1. DispatchInv => EvidenceIsAccepted
  BY DEF DispatchInv, EvidenceIsAccepted, IntentTypeOK
<1>2. QED
  BY <1>1, DispatchInvariant, PTL
(* "a late writer cannot regress a terminal result": no update of the       *)
(* intent service is enabled from a terminal state.                         *)
THEOREM VerdictIsFinal == DispatchSpec => TerminalIsFinal
<1>1. DispatchInv /\ [DispatchNext]_dispatchVars
        => [(intentState \in Terminal) => intentState' = intentState]_dispatchVars
  <2> SUFFICES ASSUME DispatchInv, [DispatchNext]_dispatchVars,
                      intentState \in Terminal
               PROVE intentState' = intentState
    BY DEF dispatchVars
  <2>1. ASSUME NEW a \in Attempts, Step(a) PROVE intentState' = intentState
    <3>1. ~Dispatch(a) \/ TransitionFails(a, Dispatchable)
      BY DEF Dispatch, Transition, Dispatchable, Terminal
    <3>2. UNCHANGED intentState \/ Insert(a) \/ Refuse(a) \/ Reject(a)
            \/ Contract(a) \/ Succeed(a) \/ Unclear(a)
      BY <2>1, <3>1 DEF Step, CheckKillSwitch, CheckConsent, Authorize, Find,
         Adopt, Revalidate, Repurpose, Submit, RecordEvidence, TransitionFails,
         intentVars
    <3>3. QED
      BY <3>2 DEF Insert, Refuse, Reject, Contract, MarkFailedFinal, Succeed,
         Unclear, Transition, TransitionFails, FailableStates, Terminal
  <2>2. CASE \E a \in Attempts : Begin(a) \/ Throw(a) \/ Crash(a) \/ Lapse(a)
    BY <2>2 DEF Begin, Throw, Crash, Lapse, intentVars
  <2>3. CASE GrantConsent \/ RevokeConsent \/ \E off \in BOOLEAN : SetKillSwitch(off)
    BY <2>3 DEF GrantConsent, RevokeConsent, SetKillSwitch, intentVars
  <2>4. CASE FlagUnknown \/ \E outcome \in Terminal : ResolveManually(outcome)
    BY <2>4 DEF FlagUnknown, ResolveManually, Terminal
  <2>5. CASE UNCHANGED dispatchVars
    BY <2>5 DEF dispatchVars, intentVars
  <2>6. QED
    BY <2>1, <2>2, <2>3, <2>4, <2>5 DEF DispatchNext
<1>2. QED
  BY <1>1, DispatchInvariant, PTL DEF DispatchSpec, TerminalIsFinal

(* The attempt cannot reach adapter.submit any more: its consent record is  *)
(* revoked and revalidation ahead of it, or it has left that path.          *)
Barred(a) ==
  /\ record[a] \in 1..Len(consents)
  /\ consents[record[a]] = "REVOKED"
  /\ pc[a] \in BeforeRevalidation \cup
       {"refuse", "evidence", "done", "failed", "crashed"}

(* A barred attempt stays barred: revalidate() reads the revoked record.    *)
LEMMA BarredStep ==
  ASSUME NEW a \in Attempts, DispatchInv, ConsentInv,
         [DispatchNext]_dispatchVars, Barred(a)
  PROVE  Barred(a)'
<1> USE DEF Barred, BeforeRevalidation, DispatchInv, IntentTypeOK
<1>1. ASSUME UNCHANGED <<consents, record>>, pc'[a] = pc[a] PROVE Barred(a)'
  BY <1>1
<1>2. ASSUME NEW b \in Attempts, b # a,
             Begin(b) \/ Step(b) \/ Throw(b) \/ Crash(b) \/ Lapse(b)
      PROVE pc'[a] = pc[a]
  BY <1>2 DEF Begin, Step, CheckKillSwitch, CheckConsent, Authorize, Find,
     Replay, Insert, Adopt, Revalidate, Repurpose, Refuse, Reject, Contract,
     MarkFailedFinal, Dispatch, Submit, Succeed, Unclear, RecordEvidence,
     Transition, TransitionFails, Throw, Crash, Lapse, Goto, Fail
<1>3. ASSUME NEW b \in Attempts, CheckConsent(b) PROVE Barred(a)'
  <2>1. b # a /\ pc'[a] = pc[a] /\ consents' = consents
    BY <1>2, <1>3 DEF CheckConsent, Step
  <2>2. record'[a] = record[a]
    BY <1>3, <2>1 DEF CheckConsent, ConsentInv, ConsentTypeOK
  <2>3. QED
    BY <2>1, <2>2
<1>4. ASSUME Begin(a) \/ Step(a) \/ Throw(a) \/ Crash(a) \/ Lapse(a)
      PROVE pc'[a] \in BeforeRevalidation \cup
              {"refuse", "evidence", "done", "failed", "crashed"}
  BY <1>4 DEF Begin, Step, CheckKillSwitch, CheckConsent, Authorize, Find,
     Replay, Insert, Adopt, Revalidate, Repurpose, Refuse, Reject, Contract,
     MarkFailedFinal, Dispatch, Submit, Succeed, Unclear, RecordEvidence,
     TransitionFails, Throw, Crash, Lapse, Goto, Fail
<1>5. ASSUME NEW b \in Attempts, ~CheckConsent(b),
             Begin(b) \/ Step(b) \/ Throw(b) \/ Crash(b) \/ Lapse(b)
      PROVE Barred(a)'
  <2>1. UNCHANGED <<consents, record>>
    BY <1>5, OtherSteps DEF Step
  <2>2. QED
    BY <1>2, <1>4, <1>5, <2>1
<1>6. CASE GrantConsent
  BY <1>6, SMTT(30) DEF GrantConsent, ConsentInv, ConsentTypeOK
<1>7. CASE RevokeConsent
  <2>1. PICK i \in 1..MaxConsents :
          IsActiveRecord(i) /\ consents' = [consents EXCEPT ![i] = "REVOKED"]
    BY <1>7 DEF RevokeConsent
  <2>2. Len(consents') = Len(consents) /\ consents'[record[a]] = "REVOKED"
    BY <2>1, SMTT(30) DEF IsActiveRecord, ConsentInv, ConsentTypeOK
  <2>3. QED
    BY <1>7, <2>2 DEF RevokeConsent
<1>8. CASE \E off \in BOOLEAN : SetKillSwitch(off)
  BY <1>1, <1>8 DEF SetKillSwitch
<1>9. CASE FlagUnknown \/ \E outcome \in Terminal : ResolveManually(outcome)
  BY <1>1, <1>9 DEF FlagUnknown, ResolveManually, authorityVars
<1>10. CASE UNCHANGED dispatchVars
  BY <1>1, <1>10 DEF dispatchVars, authorityVars
<1>11. QED
  BY <1>3, <1>5, <1>6, <1>7, <1>8, <1>9, <1>10 DEF DispatchNext

(* "a revoked reference fails closed instead of dispatching": an attempt    *)
(* that has revalidation ahead of it when its consent record is revoked     *)
(* never reaches adapter.submit.                                            *)
THEOREM RevocationBarsDispatch == DispatchSpec => RevokedNeverDispatches
<1> SUFFICES ASSUME NEW a \in Attempts
             PROVE DispatchSpec =>
               [](pc[a] \in BeforeRevalidation /\ consents[record[a]] = "REVOKED"
                    => [](pc[a] # "submit"))
  BY DEF RevokedNeverDispatches
<1>1. ConsentInv /\ pc[a] \in BeforeRevalidation
        /\ consents[record[a]] = "REVOKED" => Barred(a)
  BY DEF Barred, ConsentInv
<1>2. Barred(a) => pc[a] # "submit"
  BY DEF Barred, BeforeRevalidation
<1>3. DispatchInv /\ ConsentInv /\ [DispatchNext]_dispatchVars /\ Barred(a)
        => Barred(a)'
  BY BarredStep
<1>4. QED
  BY <1>1, <1>2, <1>3, ConsentInvariant, PTL DEF DispatchSpec

(* The row, its conditional updates and all attempts implement one effect   *)
(* that is sent at most once and decided once.                              *)
THEOREM OnceOnlyRefinement == DispatchSpec => ImplementsOnceOnly
<1> USE DEF DispatchInv, IntentTypeOK, AtMostOneSubmission
<1>1. DispatchInit => Once!OnceInit
  BY SMTT(30) DEF DispatchInit, Once!OnceInit, Terminal
<1>2. DispatchInv /\ DispatchInv' /\ [DispatchNext]_dispatchVars
        => [Once!OnceNext]_(Once!onceVars)
  <2> SUFFICES ASSUME DispatchInv, DispatchInv', [DispatchNext]_dispatchVars
               PROVE [Once!OnceNext]_(Once!onceVars)
    OBVIOUS
  <2> USE DEF Once!OnceNext, Once!onceVars, Once!Send, Once!Decide, Terminal
  <2>1. ASSUME NEW a \in Attempts, Submit(a) PROVE [Once!OnceNext]_(Once!onceVars)
    BY <2>1, SMTT(30) DEF Submit, intentVars
  <2>2. ASSUME NEW a \in Attempts, Refuse(a) \/ Reject(a) \/ Contract(a)
        PROVE [Once!OnceNext]_(Once!onceVars)
    BY <2>2 DEF Refuse, Reject, Contract, MarkFailedFinal, TransitionFails,
                FailableStates
  <2>3. ASSUME NEW a \in Attempts, Succeed(a) PROVE [Once!OnceNext]_(Once!onceVars)
    BY <2>3, SMTT(30) DEF Succeed, Transition
  <2>4. ASSUME NEW a \in Attempts, Dispatch(a) \/ Insert(a) \/ Unclear(a)
        PROVE [Once!OnceNext]_(Once!onceVars)
    BY <2>4 DEF Dispatch, Dispatchable, Insert, Unclear, Transition, TransitionFails
  <2>5. ASSUME NEW outcome \in Terminal, ResolveManually(outcome)
        PROVE [Once!OnceNext]_(Once!onceVars)
    BY <2>5, SMTT(30) DEF ResolveManually
  <2>6. CASE FlagUnknown
    BY <2>6 DEF FlagUnknown
  <2>7. CASE UNCHANGED <<intentState, submissions>>
    BY <2>7
  <2>8. ASSUME NEW a \in Attempts,
               \/ Begin(a) \/ Throw(a) \/ Crash(a) \/ Lapse(a)
               \/ CheckKillSwitch(a) \/ CheckConsent(a) \/ Authorize(a)
               \/ Find(a) \/ Adopt(a) \/ Revalidate(a) \/ Repurpose(a)
               \/ RecordEvidence(a)
        PROVE UNCHANGED <<intentState, submissions>>
    BY <2>8 DEF Begin, Throw, Crash, Lapse, CheckKillSwitch, CheckConsent,
       Authorize, Find, Adopt, Revalidate, Repurpose, RecordEvidence, intentVars
  <2>9. CASE GrantConsent \/ RevokeConsent \/ \E off \in BOOLEAN : SetKillSwitch(off)
    BY <2>7, <2>9 DEF GrantConsent, RevokeConsent, SetKillSwitch, intentVars
  <2>10. CASE UNCHANGED dispatchVars
    BY <2>7, <2>10 DEF dispatchVars, intentVars
  <2>11. QED
    BY <2>1, <2>2, <2>3, <2>4, <2>5, <2>6, <2>7, <2>8, <2>9, <2>10
       DEF DispatchNext, Step
<1>3. QED
  BY <1>1, <1>2, DispatchInvariant, PTL
     DEF DispatchSpec, ImplementsOnceOnly, Once!OnceSpec

-----------------------------------------------------------------------------
(***************************************************************************)
(* DataDisposition.                                                        *)
(***************************************************************************)

(* The intent next to reviews that cancel and erase it.  DispatchInv does   *)
(* not hold here: a review cancels an operation that was never sent, and    *)
(* takes the finding from under its evidence.                               *)
IntentInv ==
  /\ IntentTypeOK
  /\ AtMostOneSubmission
  /\ \A a, b \in Attempts : pc[a] = "submit" /\ pc[b] = "submit" => a = b
  /\ \A a \in Attempts :
       pc[a] = "submit" => /\ submissions = 0
                           /\ intentState \in {"DISPATCHED", "FAILED_FINAL"}
  /\ \A a \in Attempts :
       pc[a] \in {"succeed", "contract", "reject", "unclear"} => submissions = 1
  /\ intentState \in {"NONE", "PREPARED"} => submissions = 0
  /\ intentState \in {"OUTCOME_UNKNOWN", "RECONCILING", "SUCCEEDED"}
       => submissions = 1

(* The rows of reviews: a transaction that has read a record or a task      *)
(* points at one that exists, an intent that a revocation snapshotted       *)
(* exists, and erasing it is possible only where nothing answers any more.  *)
RequestType == [step : {"idle", "snapshot", "commit"}, record : Nat,
                facts : SUBSET Attempts, covers : BOOLEAN]
ReviewType == [step : {"idle", "hold", "apply"}, task : Nat,
               action : {"NONE", "ERASE", "RETAIN", "VERIFY"}]

RowsInv ==
  /\ ConsentTypeOK
  /\ tasks \in Seq(TaskType)
  /\ Len(tasks) <= MaxTasks
  /\ revoking \in [Requests -> RequestType]
  /\ \A r \in Requests :
       /\ revoking[r].record \in 0..Len(consents)
       /\ revoking[r].step # "idle" => revoking[r].record # 0
  /\ review \in [Reviewers -> ReviewType]
  /\ \A w \in Reviewers :
       /\ review[w].task \in 0..Len(tasks)
       /\ review[w].step # "idle" => review[w].task # 0
  /\ hold \in [Holds -> {"NONE", "PLACING", "ACTIVE", "RELEASED"}]

ErasureInv ==
  /\ \A r \in Requests : revoking[r].covers => intentState # "NONE"
  /\ \A t \in DOMAIN tasks : tasks[t].covers => intentState # "NONE"
  /\ \A t \in DOMAIN tasks :
       tasks[t].outcome = "ERASED" /\ tasks[t].covers
         => intentState \in Terminal /\ ~intentContent

(* Every step of an attempt, and every other writer of the intent,          *)
(* preserves IntentInv.                                                     *)
LEMMA IntentDispatching == IntentInv /\ Dispatching => IntentInv'
<1> SUFFICES ASSUME IntentInv, Dispatching PROVE IntentInv'
  OBVIOUS
<1> USE DispatchAssumption
    DEF IntentInv, IntentTypeOK, AtMostOneSubmission, IntentStates,
        Terminal, Running, BeforeRevalidation, Errors, intentVars, authorityVars
<1>1. ASSUME NEW a \in Attempts,
             Begin(a) \/ CheckKillSwitch(a) \/ CheckConsent(a) \/ Authorize(a)
      PROVE IntentInv'
  BY <1>1, SMTT(30) DEF Begin, CheckKillSwitch, CheckConsent, Authorize, Goto, Fail
<1>2. ASSUME NEW a \in Attempts, Find(a) \/ Insert(a) \/ Adopt(a)
      PROVE IntentInv'
  <2>1. CASE Find(a)
    BY <2>1, SMTT(30) DEF Find, Replay, Goto, Fail
  <2>2. CASE Insert(a)
    BY <2>2, SMTT(30) DEF Insert, Goto, Fail
  <2>3. CASE Adopt(a)
    BY <2>3 DEF Adopt, Goto
  <2>4. QED
    BY <1>2, <2>1, <2>2, <2>3
<1>3. ASSUME NEW a \in Attempts, Revalidate(a) \/ Repurpose(a) PROVE IntentInv'
  BY <1>3, SMTT(30) DEF Revalidate, Repurpose, Goto
<1>4. ASSUME NEW a \in Attempts, Refuse(a) \/ Reject(a) \/ Contract(a)
      PROVE IntentInv'
  <2>1. ASSUME NEW why \in {"AUTHORIZATION", "REJECTED", "CONTRACT"},
               NEW receipt \in BOOLEAN,
               pc[a] # "submit",
               MarkFailedFinal(a, why, receipt)
        PROVE IntentInv'
    BY <2>1, SMTT(30) DEF MarkFailedFinal, TransitionFails, FailableStates, Fail
  <2>2. QED
    BY <1>4, <2>1 DEF Refuse, Reject, Contract
<1>5. ASSUME NEW a \in Attempts, Dispatch(a) PROVE IntentInv'
  BY <1>5, SMTT(30) DEF Dispatch, Dispatchable, Transition, TransitionFails, Goto, Fail
<1>6. ASSUME NEW a \in Attempts, Submit(a) PROVE IntentInv'
  BY <1>6, SMTT(30) DEF Submit, Goto
<1>7. ASSUME NEW a \in Attempts, Succeed(a) PROVE IntentInv'
  <2>1. \A b \in Attempts : pc[b] # "submit"
    BY <1>7, SMTT(30) DEF Succeed
  <2>2. QED
    BY <1>7, <2>1 DEF Succeed, Transition, Goto
<1>8. ASSUME NEW a \in Attempts, Unclear(a) \/ RecordEvidence(a) PROVE IntentInv'
  BY <1>8, SMTT(30) DEF Unclear, RecordEvidence, TransitionFails, Goto, Fail
<1>9. ASSUME NEW a \in Attempts, Throw(a) \/ Crash(a) \/ Lapse(a)
      PROVE IntentInv'
  BY <1>9, SMTT(30) DEF Throw, Crash, Lapse, Goto, Fail
<1>10. CASE GrantConsent \/ FlagUnknown
  BY <1>10 DEF GrantConsent, FlagUnknown
<1>11. ASSUME NEW outcome \in Terminal, ResolveManually(outcome) PROVE IntentInv'
  BY <1>11 DEF ResolveManually
<1>12. QED
  BY <1>1, <1>2, <1>3, <1>4, <1>5, <1>6, <1>7, <1>8, <1>9, <1>10, <1>11
     DEF Dispatching, Step

(* A review that erases takes the content away and cancels an operation     *)
(* that was not dispatched; it leaves every other state alone.              *)
LEMMA IntentErase ==
  ASSUME IntentInv, RowsInv, NEW w \in Reviewers, Erase(w)
  PROVE  IntentInv'
<1>1. UNCHANGED <<intentGrant, disabled, lapsed, submissions, pc, error>>
  BY DEF Erase, authorityVars
<1>2. /\ intentState' = intentState \/ (intentState = "PREPARED" /\ intentState' = "CANCELLED")
      /\ evidence' \subseteq evidence
  BY DEF Erase, RejectErasure, CancelPrepared
<1>3. intentContent' \in BOOLEAN
  BY DEF Erase, RejectErasure, IntentInv, IntentTypeOK
<1>4. QED
  BY <1>1, <1>2, <1>3 DEF IntentInv, IntentTypeOK, AtMostOneSubmission, IntentStates, Terminal

(* Every step preserves IntentInv.                                          *)
LEMMA IntentStep == IntentInv /\ RowsInv /\ [Next]_vars => IntentInv'
<1> SUFFICES ASSUME IntentInv, RowsInv, [Next]_vars PROVE IntentInv'
  OBVIOUS
<1>1. ASSUME UNCHANGED <<intentVars, disabled, lapsed, submissions, evidence, pc, error>>
      PROVE IntentInv'
  BY <1>1 DEF IntentInv, IntentTypeOK, AtMostOneSubmission, intentVars
<1>2. ASSUME NEW r \in Requests, RevokeRead(r) \/ RevokeSnapshot(r) \/ RevokeCommit(r)
      PROVE IntentInv'
  BY <1>1, <1>2 DEF RevokeRead, RevokeSnapshot, RevokeCommit, dispatchVars, authorityVars
<1>3. ASSUME NEW w \in Reviewers,
             \/ \E t \in 1..MaxTasks, action \in {"ERASE", "RETAIN", "VERIFY"} :
                  ReadTask(w, t, action)
             \/ CheckHold(w) \/ Retain(w) \/ VerifyBackupExpiry(w)
      PROVE IntentInv'
  BY <1>1, <1>3 DEF ReadTask, CheckHold, Retain, VerifyBackupExpiry, dispatchVars, authorityVars
<1>4. ASSUME NEW h \in Holds, PlaceRead(h) \/ PlaceInsert(h) \/ Release(h)
      PROVE IntentInv'
  BY <1>1, <1>4 DEF PlaceRead, PlaceInsert, Release, dispatchVars, authorityVars
<1>5. CASE UNCHANGED vars
  BY <1>1, <1>5 DEF vars, dispatchVars, authorityVars
<1>6. QED
  BY <1>2, <1>3, <1>4, <1>5, IntentDispatching, IntentErase DEF Next

-----------------------------------------------------------------------------
(* An attempt leaves the consent records alone, and its grant names the     *)
(* newest of them.                                                          *)
LEMMA ConsentDispatching ==
  ASSUME IntentInv, RowsInv, Dispatching
  PROVE  /\ ConsentTypeOK'
         /\ Len(consents) <= Len(consents')
         /\ UNCHANGED dispositionVars
<1> ConsentTypeOK
  BY DEF RowsInv
<1> USE DispatchAssumption DEF ConsentTypeOK
<1>1. UNCHANGED dispositionVars
  BY DEF Dispatching
<1>2. ASSUME UNCHANGED <<consents, record>>
      PROVE ConsentTypeOK' /\ Len(consents) <= Len(consents')
  BY <1>2, SMTT(30)
<1>3. ASSUME NEW a \in Attempts, CheckConsent(a)
      PROVE ConsentTypeOK' /\ Len(consents) <= Len(consents')
  BY <1>3, SMTT(30) DEF CheckConsent
<1>4. CASE GrantConsent
  <2>1. consents' \in Seq({"GRANTED", "REVOKED"}) /\ Len(consents') = Len(consents) + 1
    BY <1>4, SMTT(30) DEF GrantConsent
  <2>2. QED
    BY <1>1, <1>4, <2>1, SMTT(30) DEF GrantConsent
<1>5. ASSUME NEW a \in Attempts, ~CheckConsent(a),
             Begin(a) \/ Step(a) \/ Throw(a) \/ Crash(a) \/ Lapse(a)
      PROVE UNCHANGED <<consents, record>>
  BY <1>5 DEF Begin, Step, CheckKillSwitch, Authorize, Find, Insert, Adopt,
     Revalidate, Repurpose, Refuse, Reject, Contract, MarkFailedFinal, Dispatch,
     Submit, Succeed, Unclear, RecordEvidence, Throw, Crash, Lapse, authorityVars
<1>6. CASE FlagUnknown \/ \E outcome \in Terminal : ResolveManually(outcome)
  BY <1>1, <1>2, <1>6 DEF FlagUnknown, ResolveManually, authorityVars
<1>7. QED
  BY <1>1, <1>2, <1>3, <1>4, <1>5, <1>6 DEF Dispatching

(* The task a review ends with.                                             *)
LEMMA EndedTask ==
  ASSUME RowsInv, NEW w \in Reviewers, NEW t \in DOMAIN tasks,
         NEW status \in {"COMPLETED", "VERIFIED"},
         NEW outcome \in {"NONE", "ERASED", "RETAINED"},
         EndReview(w, t, status, outcome)
  PROVE  /\ tasks' \in Seq(TaskType)
         /\ Len(tasks') = Len(tasks) /\ DOMAIN tasks' = DOMAIN tasks
         /\ \A u \in DOMAIN tasks :
              /\ tasks'[u].covers = tasks[u].covers
              /\ tasks'[u].outcome = (IF u = t THEN outcome ELSE tasks[u].outcome)
         /\ review' = [review EXCEPT ![w] = NoReview]
<1>1. tasks[t] \in TaskType
  BY SMTT(30) DEF RowsInv
<1> DEFINE new == [tasks[t] EXCEPT !.status = status, !.outcome = outcome]
<1>2. new \in TaskType /\ new.covers = tasks[t].covers /\ new.outcome = outcome
  BY <1>1 DEF TaskType
<1>3. tasks' = [tasks EXCEPT ![t] = new] /\ review' = [review EXCEPT ![w] = NoReview]
  BY DEF EndReview
<1> HIDE DEF new
<1>4. QED
  BY <1>1, <1>2, <1>3, SMTT(30) DEF RowsInv

(* Every step preserves RowsInv.                                            *)
LEMMA RowsStep == IntentInv /\ RowsInv /\ [Next]_vars => RowsInv'
<1> SUFFICES ASSUME IntentInv, RowsInv, [Next]_vars PROVE RowsInv'
  OBVIOUS
<1>1. CASE Dispatching
  BY <1>1, ConsentDispatching, SMTT(30) DEF RowsInv, ConsentTypeOK, dispositionVars
<1>2. ASSUME NEW r \in Requests, RevokeRead(r) PROVE RowsInv'
  <2>1. PICK i \in 1..Len(consents) :
          revoking' = [revoking EXCEPT ![r] =
            [step |-> "snapshot", record |-> i, facts |-> {}, covers |-> FALSE]]
    BY <1>2 DEF RevokeRead, IsActiveRecord
  <2>2. UNCHANGED <<consents, record, tasks, review, hold>>
    BY <1>2 DEF RevokeRead, dispatchVars, authorityVars
  <2>3. QED
    BY <2>1, <2>2, SMTT(30) DEF RowsInv, ConsentTypeOK, RequestType
<1>3. ASSUME NEW r \in Requests, RevokeSnapshot(r) PROVE RowsInv'
  <2>1. evidence \subseteq Attempts
    BY DEF IntentInv, IntentTypeOK
  <2>2. UNCHANGED <<consents, record, tasks, review, hold>>
    BY <1>3 DEF RevokeSnapshot, dispatchVars, authorityVars
  <2>3. QED
    BY <1>3, <2>1, <2>2 DEF RevokeSnapshot, RowsInv, ConsentTypeOK, RequestType
<1>4. ASSUME NEW r \in Requests, RevokeCommit(r) PROVE RowsInv'
  <2>1. revoking[r].record \in 1..Len(consents) /\ revoking[r] \in RequestType
    BY <1>4, SMTT(30) DEF RevokeCommit, RowsInv, RequestType
  <2>2. /\ consents' \in Seq({"GRANTED", "REVOKED"}) /\ Len(consents') = Len(consents)
        /\ UNCHANGED <<record, review, hold>>
    BY <1>4, <2>1, SMTT(30) DEF RevokeCommit, RowsInv, ConsentTypeOK
  <2>3. [status |-> "PENDING", outcome |-> "NONE", facts |-> revoking[r].facts,
         covers |-> revoking[r].covers] \in TaskType
    BY <2>1 DEF TaskType, RequestType
  <2>4. tasks' \in Seq(TaskType) /\ Len(tasks') = Len(tasks) + 1 /\ Len(tasks') <= MaxTasks
    BY <1>4, <2>3, DispositionAssumption, SMTT(30) DEF RevokeCommit, RowsInv
  <2>5. revoking' \in [Requests -> RequestType]
        /\ \A q \in Requests : revoking'[q] = (IF q = r THEN NoRequest ELSE revoking[q])
    BY <1>4 DEF RevokeCommit, RowsInv, RequestType, NoRequest
  <2>6. QED
    BY <2>2, <2>4, <2>5, SMTT(30) DEF RowsInv, ConsentTypeOK, NoRequest
<1>5. ASSUME NEW w \in Reviewers, NEW t \in 1..MaxTasks,
             NEW action \in {"ERASE", "RETAIN", "VERIFY"}, ReadTask(w, t, action)
      PROVE RowsInv'
  <2>1. UNCHANGED <<consents, record, revoking, tasks, hold>>
    BY <1>5 DEF ReadTask, dispatchVars, authorityVars
  <2>2. QED
    BY <1>5, <2>1, SMTT(30) DEF ReadTask, RowsInv, ConsentTypeOK, ReviewType
<1>6. ASSUME NEW w \in Reviewers, CheckHold(w) PROVE RowsInv'
  <2>1. UNCHANGED <<consents, record, revoking, tasks, hold>>
    BY <1>6 DEF CheckHold, dispatchVars, authorityVars
  <2>2. review[w] \in ReviewType
    BY DEF RowsInv
  <2>3. /\ [review[w] EXCEPT !.step = "apply"] \in ReviewType
        /\ [review[w] EXCEPT !.step = "apply"].task = review[w].task
        /\ NoReview \in ReviewType /\ NoReview.task = 0 /\ NoReview.step = "idle"
    BY <2>2 DEF ReviewType, NoReview
  <2>4. PICK x \in {[review[w] EXCEPT !.step = "apply"], NoReview} :
          review' = [review EXCEPT ![w] = x]
    BY <1>6 DEF CheckHold
  <2>5. QED
    BY <1>6, <2>1, <2>3, <2>4, SMTT(30) DEF CheckHold, RowsInv, ConsentTypeOK
<1>7. ASSUME NEW w \in Reviewers, UNCHANGED <<consents, record, revoking, hold>>,
             review' = [review EXCEPT ![w] = NoReview],
             tasks' \in Seq(TaskType), Len(tasks') = Len(tasks)
      PROVE RowsInv'
  BY <1>7, SMTT(30) DEF RowsInv, ConsentTypeOK, ReviewType, NoReview
<1>8. ASSUME NEW w \in Reviewers, Erase(w) \/ Retain(w) \/ VerifyBackupExpiry(w)
      PROVE RowsInv'
  <2>1. review[w].task \in DOMAIN tasks
    BY <1>8, SMTT(30) DEF Erase, Retain, VerifyBackupExpiry, RowsInv
  <2>2. UNCHANGED <<consents, record, revoking, hold>>
    BY <1>8 DEF Erase, Retain, VerifyBackupExpiry, dispatchVars, authorityVars
  <2>3. tasks[review[w].task].outcome \in {"NONE", "ERASED", "RETAINED"}
    <3>1. tasks[review[w].task] \in TaskType
      BY <2>1, SMTT(30) DEF RowsInv
    <3>2. QED
      BY <3>1 DEF TaskType
  <2>4. CASE review' = [review EXCEPT ![w] = NoReview] /\ UNCHANGED tasks
    BY <1>7, <2>2, <2>4 DEF RowsInv
  <2>5. ASSUME NEW status \in {"COMPLETED", "VERIFIED"},
               NEW outcome \in {"NONE", "ERASED", "RETAINED"},
               EndReview(w, review[w].task, status, outcome)
        PROVE RowsInv'
    <3>1. /\ tasks' \in Seq(TaskType) /\ Len(tasks') = Len(tasks)
          /\ review' = [review EXCEPT ![w] = NoReview]
      BY <2>1, <2>5, EndedTask, SMTT(30)
    <3>2. QED
      BY <1>7, <2>2, <3>1
  <2>6. QED
    BY <1>8, <2>3, <2>4, <2>5 DEF Erase, RejectErasure, Retain, VerifyBackupExpiry
<1>9. ASSUME NEW h \in Holds, PlaceRead(h) \/ PlaceInsert(h) \/ Release(h)
      PROVE RowsInv'
  BY <1>9 DEF PlaceRead, PlaceInsert, Release, dispatchVars, authorityVars,
              RowsInv, ConsentTypeOK
<1>10. CASE UNCHANGED vars
  BY <1>10 DEF vars, dispatchVars, authorityVars, dispositionVars, RowsInv, ConsentTypeOK
<1>11. QED
  BY <1>1, <1>2, <1>3, <1>4, <1>5, <1>6, <1>8, <1>9, <1>10 DEF Next

-----------------------------------------------------------------------------
(* No step of an attempt, of the sweep or of a reviewer leaves a verdict or *)
(* writes a receipt or a finding after one, and no intent disappears.       *)
LEMMA VerdictStays ==
  ASSUME IntentInv, RowsInv, [Next]_vars
  PROVE  /\ intentState # "NONE" => intentState' # "NONE"
         /\ intentState \in Terminal =>
              intentState' = intentState /\ (~intentContent => ~intentContent')
<1> USE DEF Terminal, intentVars
<1>1. CASE UNCHANGED intentVars
  BY <1>1
<1>2. ASSUME NEW a \in Attempts,
             \/ Insert(a) \/ Refuse(a) \/ Reject(a) \/ Contract(a) \/ Dispatch(a)
             \/ Succeed(a) \/ Unclear(a) \/ Adopt(a)
      PROVE  /\ intentState # "NONE" => intentState' # "NONE"
             /\ intentState \in Terminal => UNCHANGED <<intentState, intentContent>>
  BY <1>2 DEF Insert, Refuse, Reject, Contract, MarkFailedFinal, FailableStates,
     Dispatch, Dispatchable, Succeed, Unclear, Adopt, Transition, TransitionFails
<1>3. ASSUME NEW a \in Attempts,
             \/ Begin(a) \/ Throw(a) \/ Crash(a) \/ Lapse(a)
             \/ CheckKillSwitch(a) \/ CheckConsent(a) \/ Authorize(a) \/ Find(a)
             \/ Revalidate(a) \/ Repurpose(a) \/ Submit(a) \/ RecordEvidence(a)
      PROVE UNCHANGED intentVars
  BY <1>3 DEF Begin, Throw, Crash, Lapse, CheckKillSwitch, CheckConsent, Authorize,
     Find, Revalidate, Repurpose, Submit, RecordEvidence
<1>4. CASE FlagUnknown \/ \E outcome \in Terminal : ResolveManually(outcome)
  BY <1>4 DEF FlagUnknown, ResolveManually
<1>5. CASE Dispatching
  BY <1>1, <1>2, <1>3, <1>4, <1>5 DEF Dispatching, Step, GrantConsent
<1>6. ASSUME NEW w \in Reviewers, Erase(w)
      PROVE  /\ intentState # "NONE" => intentState' # "NONE"
             /\ intentState \in Terminal =>
                  intentState' = intentState /\ (~intentContent => ~intentContent')
  BY <1>6 DEF Erase, RejectErasure, CancelPrepared
<1>7. ASSUME NEW w \in Reviewers,
             \/ \E t \in 1..MaxTasks, action \in {"ERASE", "RETAIN", "VERIFY"} :
                  ReadTask(w, t, action)
             \/ CheckHold(w) \/ Retain(w) \/ VerifyBackupExpiry(w)
      PROVE UNCHANGED intentVars
  BY <1>7 DEF ReadTask, CheckHold, Retain, VerifyBackupExpiry, dispatchVars
<1>8. ASSUME NEW r \in Requests, RevokeRead(r) \/ RevokeSnapshot(r) \/ RevokeCommit(r)
      PROVE UNCHANGED intentVars
  BY <1>8 DEF RevokeRead, RevokeSnapshot, RevokeCommit, dispatchVars
<1>9. ASSUME NEW h \in Holds, PlaceRead(h) \/ PlaceInsert(h) \/ Release(h)
      PROVE UNCHANGED intentVars
  BY <1>9 DEF PlaceRead, PlaceInsert, Release, dispatchVars
<1>10. CASE UNCHANGED vars
  BY <1>1, <1>10 DEF vars, dispatchVars
<1>11. QED
  BY <1>1, <1>5, <1>6, <1>7, <1>8, <1>9, <1>10 DEF Next

(* Every step preserves ErasureInv: an erasure that succeeds leaves the     *)
(* intent terminal, and from there nothing comes back.                      *)
LEMMA ErasureStep == IntentInv /\ RowsInv /\ ErasureInv /\ [Next]_vars => ErasureInv'
<1> SUFFICES ASSUME IntentInv, RowsInv, ErasureInv, [Next]_vars PROVE ErasureInv'
  OBVIOUS
<1>1. ASSUME \A r \in Requests : revoking'[r].covers => revoking[r].covers \/ intentState # "NONE",
             UNCHANGED tasks
      PROVE ErasureInv'
  BY <1>1, VerdictStays DEF ErasureInv
<1>2. CASE Dispatching
  BY <1>1, <1>2 DEF Dispatching, dispositionVars
<1>3. ASSUME NEW r \in Requests, RevokeRead(r) \/ RevokeSnapshot(r) PROVE ErasureInv'
  <2>1. CASE RevokeRead(r)
    <3>1. \A q \in Requests : revoking'[q].covers => revoking[q].covers
      BY <2>1, SMTT(30) DEF RevokeRead, RowsInv
    <3>2. QED
      BY <1>1, <2>1, <3>1 DEF RevokeRead
  <2>2. CASE RevokeSnapshot(r)
    <3>1. \A q \in Requests : revoking'[q].covers => revoking[q].covers \/ intentState # "NONE"
      BY <2>2 DEF RevokeSnapshot, RowsInv
    <3>2. QED
      BY <1>1, <2>2, <3>1 DEF RevokeSnapshot
  <2>3. QED
    BY <1>3, <2>1, <2>2
<1>4. ASSUME NEW r \in Requests, RevokeCommit(r) PROVE ErasureInv'
  <2>1. \A q \in Requests : revoking'[q].covers => revoking[q].covers
    BY <1>4 DEF RevokeCommit, RowsInv, NoRequest
  <2> DEFINE task == [status |-> "PENDING", outcome |-> "NONE",
                      facts |-> revoking[r].facts, covers |-> revoking[r].covers]
  <2>2. tasks' = Append(tasks, task) /\ task.outcome = "NONE" /\ task.covers = revoking[r].covers
    BY <1>4 DEF RevokeCommit
  <2> HIDE DEF task
  <2>3. \A t \in DOMAIN tasks' : tasks'[t] = task \/ (t \in DOMAIN tasks /\ tasks'[t] = tasks[t])
    BY <2>2, SMTT(30) DEF RowsInv
  <2>4. QED
    BY <2>1, <2>2, <2>3, VerdictStays DEF ErasureInv
<1>5. ASSUME NEW w \in Reviewers, Erase(w) PROVE ErasureInv'
  <2>1. review[w].task \in DOMAIN tasks
    BY <1>5, SMTT(30) DEF Erase, RowsInv
  <2>2. CASE UNCHANGED <<tasks, revoking>>
    BY <1>1, <2>2
  <2>3. CASE EndReview(w, review[w].task, "COMPLETED", "ERASED")
    <3>1. /\ DOMAIN tasks' = DOMAIN tasks
          /\ \A u \in DOMAIN tasks :
               /\ tasks'[u].covers = tasks[u].covers
               /\ tasks'[u].outcome =
                    (IF u = review[w].task THEN "ERASED" ELSE tasks[u].outcome)
      BY <2>1, <2>3, EndedTask
    <3>2. UNCHANGED revoking
      BY <1>5 DEF Erase
    <3>3. tasks[review[w].task].covers /\ tasks' # tasks
            => intentState' \in Terminal /\ ~intentContent'
      BY <1>5, <2>1 DEF Erase, RejectErasure, CancelPrepared, Unsettled, Terminal,
         ErasureInv, IntentInv, IntentTypeOK, IntentStates
    <3>4. QED
      BY <1>1, <3>1, <3>2, <3>3, VerdictStays DEF ErasureInv
  <2>4. QED
    BY <1>5, <2>2, <2>3 DEF Erase, RejectErasure
<1>6. ASSUME NEW w \in Reviewers, Retain(w) \/ VerifyBackupExpiry(w) PROVE ErasureInv'
  <2>1. review[w].task \in DOMAIN tasks /\ UNCHANGED <<revoking, intentVars>>
    BY <1>6, SMTT(30) DEF Retain, VerifyBackupExpiry, RowsInv, dispatchVars
  <2>2. CASE UNCHANGED tasks
    BY <1>1, <2>1, <2>2
  <2>3. ASSUME NEW status \in {"COMPLETED", "VERIFIED"},
               NEW outcome \in {"NONE", "ERASED", "RETAINED"},
               outcome = "ERASED" => tasks[review[w].task].outcome = "ERASED",
               EndReview(w, review[w].task, status, outcome)
        PROVE ErasureInv'
    <3>1. /\ DOMAIN tasks' = DOMAIN tasks
          /\ \A u \in DOMAIN tasks :
               /\ tasks'[u].covers = tasks[u].covers
               /\ tasks'[u].outcome =
                    (IF u = review[w].task THEN outcome ELSE tasks[u].outcome)
      BY <2>1, <2>3, EndedTask, SMTT(30)
    <3>2. QED
      BY <2>1, <2>3, <3>1 DEF ErasureInv, intentVars
  <2>4. tasks[review[w].task].outcome \in {"NONE", "ERASED", "RETAINED"}
    <3>1. tasks[review[w].task] \in TaskType
      BY <2>1, SMTT(30) DEF RowsInv
    <3>2. QED
      BY <3>1 DEF TaskType
  <2>5. QED
    BY <1>6, <2>2, <2>3, <2>4 DEF Retain, VerifyBackupExpiry
<1>7. ASSUME NEW w \in Reviewers,
             \/ \E t \in 1..MaxTasks, action \in {"ERASE", "RETAIN", "VERIFY"} :
                  ReadTask(w, t, action)
             \/ CheckHold(w)
      PROVE ErasureInv'
  BY <1>1, <1>7 DEF ReadTask, CheckHold
<1>8. ASSUME NEW h \in Holds, PlaceRead(h) \/ PlaceInsert(h) \/ Release(h)
      PROVE ErasureInv'
  BY <1>1, <1>8 DEF PlaceRead, PlaceInsert, Release
<1>9. CASE UNCHANGED vars
  BY <1>1, <1>9 DEF vars, dispositionVars
<1>10. QED
  BY <1>2, <1>3, <1>4, <1>5, <1>6, <1>7, <1>8, <1>9 DEF Next

-----------------------------------------------------------------------------
(* The three parts of the inductive invariant.                              *)
DispositionInv == IntentInv /\ RowsInv /\ ErasureInv

(* DispositionInv holds throughout.                                         *)
THEOREM DispositionInvariant == Spec => []DispositionInv
<1>1. Init => DispositionInv
  <2> SUFFICES ASSUME Init PROVE DispositionInv
    OBVIOUS
  <2>1. IntentInv
    <3>1. IntentTypeOK
      BY DEF Init, DispatchInit, IntentTypeOK, IntentStates, Terminal, Running,
             BeforeRevalidation, Errors
    <3>2. QED
      BY <3>1, SMTT(30) DEF Init, DispatchInit, IntentInv, AtMostOneSubmission
  <2>2. RowsInv
    BY DispatchAssumption, DispositionAssumption, SMTT(30)
       DEF Init, DispatchInit, RowsInv, ConsentTypeOK, RequestType, ReviewType,
           NoRequest, NoReview
  <2>3. ErasureInv
    BY SMTT(30) DEF Init, ErasureInv, NoRequest
  <2>4. QED
    BY <2>1, <2>2, <2>3 DEF DispositionInv
<1>2. DispositionInv /\ [Next]_vars => DispositionInv'
  BY IntentStep, RowsStep, ErasureStep DEF DispositionInv
<1>3. QED
  BY <1>1, <1>2, PTL DEF Spec

(* Type correctness: the tables, holds and steps of revocations and reviews *)
(* keep their types (consent.service.ts, data-disposition.service.ts).      *)
THEOREM DispositionTypeCorrect == Spec => []TypeOK
<1>1. DispositionInv => TypeOK
  BY DEF DispositionInv, IntentInv, RowsInv, TypeOK, DispatchTypeOK, RequestType, ReviewType
<1>2. QED
  BY <1>1, DispositionInvariant, PTL

(* "A DISPATCHED or ambiguous provider operation blocks disposition ...     *)
(* preventing a late callback/result from restoring removed data": whatever *)
(* attempts, reviews and revocations overlap, what a review erased stays    *)
(* erased.                                                                  *)
THEOREM ErasureIsFinal == Spec => []ErasedIntentStaysEmpty
<1>1. DispositionInv => ErasedIntentStaysEmpty
  BY DEF DispositionInv, ErasureInv, ErasedIntentStaysEmpty
<1>2. QED
  BY <1>1, DispositionInvariant, PTL

(* With reviews that cancel and erase, the intent and all its writers still *)
(* implement one effect that is sent at most once and decided once.         *)
THEOREM ReviewedOnceOnly == Spec => ImplementsOnceOnly
<1>1. Init => Once!OnceInit
  BY SMTT(30) DEF Init, DispatchInit, Once!OnceInit, Terminal
<1>2. DispositionInv /\ DispositionInv' /\ [Next]_vars => [Once!OnceNext]_(Once!onceVars)
  <2> SUFFICES ASSUME IntentInv, RowsInv, IntentInv', [Next]_vars
               PROVE [Once!OnceNext]_(Once!onceVars)
    BY DEF DispositionInv
  <2> USE DEF Once!OnceNext, Once!onceVars, Once!Send, Once!Decide, Terminal
  <2>1. CASE UNCHANGED <<intentState, submissions>>
    BY <2>1
  <2>2. ASSUME NEW a \in Attempts, Submit(a) PROVE [Once!OnceNext]_(Once!onceVars)
    BY <2>2, SMTT(30) DEF Submit, intentVars, IntentInv, IntentTypeOK
  <2>3. ASSUME NEW a \in Attempts, Refuse(a) \/ Reject(a) \/ Contract(a)
        PROVE [Once!OnceNext]_(Once!onceVars)
    BY <2>3 DEF Refuse, Reject, Contract, MarkFailedFinal, TransitionFails, FailableStates
  <2>4. ASSUME NEW a \in Attempts, Succeed(a) PROVE [Once!OnceNext]_(Once!onceVars)
    BY <2>4, SMTT(30) DEF Succeed, Transition, IntentInv
  <2>5. ASSUME NEW a \in Attempts, Dispatch(a) \/ Insert(a) \/ Unclear(a)
        PROVE [Once!OnceNext]_(Once!onceVars)
    BY <2>5 DEF Dispatch, Dispatchable, Insert, Unclear, Transition, TransitionFails
  <2>6. ASSUME NEW outcome \in Terminal, ResolveManually(outcome)
        PROVE [Once!OnceNext]_(Once!onceVars)
    BY <2>6, SMTT(30) DEF ResolveManually, IntentInv
  <2>7. CASE FlagUnknown
    BY <2>7 DEF FlagUnknown
  <2>8. ASSUME NEW a \in Attempts,
               \/ Begin(a) \/ Throw(a) \/ Crash(a) \/ Lapse(a)
               \/ CheckKillSwitch(a) \/ CheckConsent(a) \/ Authorize(a)
               \/ Find(a) \/ Adopt(a) \/ Revalidate(a) \/ Repurpose(a)
               \/ RecordEvidence(a)
        PROVE UNCHANGED <<intentState, submissions>>
    BY <2>8 DEF Begin, Throw, Crash, Lapse, CheckKillSwitch, CheckConsent,
       Authorize, Find, Adopt, Revalidate, Repurpose, RecordEvidence, intentVars
  <2>9. CASE Dispatching
    BY <2>1, <2>2, <2>3, <2>4, <2>5, <2>6, <2>7, <2>8, <2>9
       DEF Dispatching, Step, GrantConsent, intentVars
  <2>10. ASSUME NEW w \in Reviewers, Erase(w) PROVE [Once!OnceNext]_(Once!onceVars)
    BY <2>10 DEF Erase, RejectErasure, CancelPrepared
  <2>11. ASSUME NEW w \in Reviewers,
                \/ \E t \in 1..MaxTasks, action \in {"ERASE", "RETAIN", "VERIFY"} :
                     ReadTask(w, t, action)
                \/ CheckHold(w) \/ Retain(w) \/ VerifyBackupExpiry(w)
         PROVE UNCHANGED <<intentState, submissions>>
    BY <2>11 DEF ReadTask, CheckHold, Retain, VerifyBackupExpiry, dispatchVars, intentVars
  <2>12. ASSUME NEW r \in Requests, RevokeRead(r) \/ RevokeSnapshot(r) \/ RevokeCommit(r)
         PROVE UNCHANGED <<intentState, submissions>>
    BY <2>12 DEF RevokeRead, RevokeSnapshot, RevokeCommit, dispatchVars, intentVars
  <2>13. ASSUME NEW h \in Holds, PlaceRead(h) \/ PlaceInsert(h) \/ Release(h)
         PROVE UNCHANGED <<intentState, submissions>>
    BY <2>13 DEF PlaceRead, PlaceInsert, Release, dispatchVars, intentVars
  <2>14. CASE UNCHANGED vars
    BY <2>1, <2>14 DEF vars, dispatchVars, intentVars
  <2>15. QED
    BY <2>1, <2>9, <2>10, <2>11, <2>12, <2>13, <2>14 DEF Next
<1>3. QED
  BY <1>1, <1>2, DispositionInvariant, PTL DEF Spec, ImplementsOnceOnly, Once!OnceSpec

-----------------------------------------------------------------------------
(***************************************************************************)
(* KeyRotation.  The inductive invariant keeps every stored key and every  *)
(* key somebody may still write with inside the deployed ring, and records *)
(* how far a rotation begun after the last restart has come.               *)
(***************************************************************************)

\* Every key in use lies in the deployed ring.
KeysInRing ==
  /\ oldest <= newest
  /\ \A r \in Stored : Decrypts(oldest, newest, kid[r])
  /\ \A p \in Procs : Decrypts(oldest, newest, ringHi[p])
  /\ phase # "idle" => Decrypts(oldest, newest, jobHi)

\* After a complete sweep nobody writes with an older key any more.
SweptHolds ==
  swept => /\ RolledOut
           /\ \A r \in Stored : kid[r] = newest
           /\ phase # "idle" => jobHi = newest

\* The progress of a rotation that began after the last restart: a row it
\* has no work left on is stored under the newest key.
SweepProgress ==
  ~early =>
    /\ phase # "idle" /\ RolledOut /\ jobHi = newest
    /\ \A r \in Stored \cap IntentRows :
         phase \in {"select", "facts"} \/ seen[r] = Absent => kid[r] = newest
    /\ \A r \in Stored \cap FactRows :
         phase = "facts" /\ seen[r] = Absent => kid[r] = newest

RotationInv == RotationTypeOK /\ KeysInRing /\ SweptHolds /\ SweepProgress

\* The initial state satisfies the invariant.
LEMMA RotationInitInv == RotationInit => RotationInv
<1> USE KeyRotationAssumption
<1> SUFFICES ASSUME RotationInit PROVE RotationInv
  OBVIOUS
<1>0. early \in BOOLEAN /\ swept \in BOOLEAN
  BY DEF RotationInit
<1>1. RotationTypeOK
  BY <1>0, SMTT(30) DEF RotationInit, RotationTypeOK, NothingSeen, Kids, Absent
<1>2. KeysInRing
  BY SMTT(30) DEF RotationInit, KeysInRing, Stored, Decrypts
<1>3. SweptHolds /\ SweepProgress
  BY DEF RotationInit, SweptHolds, SweepProgress
<1> QED
  BY <1>1, <1>2, <1>3 DEF RotationInv

\* Every step of the system preserves it.
LEMMA RotationNextInv == RotationInv /\ [RotationNext]_rotationVars => RotationInv'
<1> USE KeyRotationAssumption
<1> SUFFICES ASSUME RotationInv, [RotationNext]_rotationVars PROVE RotationInv'
  OBVIOUS
<1> USE DEF RotationInv, RotationTypeOK, KeysInRing, SweptHolds, SweepProgress,
            Stored, Decrypts, RolledOut, Rows, Kids, Absent,
            rowVars, ringVars, jobVars
<1>1. ASSUME NEW r \in Rows, EraseRow(r) PROVE RotationInv'
  BY <1>1 DEF EraseRow
<1>2. ASSUME NEW r \in Rows, UpdateFact(r) PROVE RotationInv'
  BY <1>2, SMTT(30) DEF UpdateFact, ReEncrypted, Rotatable
<1>3. ASSUME NEW r \in Rows, NEW p \in Procs, WriteRow(p, r) PROVE RotationInv'
  BY <1>3 DEF WriteRow
<1>4. ASSUME NEW r \in Rows, NEW p \in Procs, AnonymizeFact(p, r) PROVE RotationInv'
  BY <1>4 DEF AnonymizeFact
<1>5. ASSUME NEW p \in Procs, RollOut(p) PROVE RotationInv'
  BY <1>5, SMTT(30) DEF RollOut
<1>6. CASE AddKey
  <2>0. early' \in BOOLEAN /\ swept' \in BOOLEAN
    BY <1>6 DEF AddKey
  <2>1. RotationTypeOK'
    BY <1>6, <2>0, SMTT(30) DEF AddKey
  <2>2. KeysInRing'
    BY <1>6, SMTT(30) DEF AddKey
  <2>3. SweptHolds' /\ SweepProgress'
    BY <1>6 DEF AddKey
  <2> QED
    BY <2>1, <2>2, <2>3
<1>7. CASE DropKey
  BY <1>7, SMTT(30) DEF DropKey
<1>8. CASE ScanIntents
  BY <1>8, SMTT(30) DEF ScanIntents, Snapshot
<1>9. CASE CommitIntents
  BY <1>9 DEF CommitIntents, ReEncrypted, NothingSeen
<1>10. CASE ScanFacts
  BY <1>10 DEF ScanFacts, Snapshot
<1>11. CASE FinishRotation
  BY <1>11, SMTT(30) DEF FinishRotation, TaskEnds, NothingSeen
<1>12. CASE RotationDies
  BY <1>12, SMTT(30) DEF RotationDies, TaskEnds, NothingSeen
<1>13. CASE UNCHANGED rotationVars
  BY <1>13 DEF rotationVars
<1> QED
  BY <1>1, <1>2, <1>3, <1>4, <1>5, <1>6, <1>7, <1>8, <1>9, <1>10, <1>11, <1>12, <1>13
  DEF RotationNext

\* The invariant holds in every reachable state.
LEMMA RotationInvariant == RotationSpec => []RotationInv
  BY RotationInitInv, RotationNextInv, PTL DEF RotationSpec

\* rotate-sensitive-data-encryption: a run begun after the last restart
\* leaves no row under an older key, for any rows, processes and keys.
THEOREM SweepIsCompleteAlways == RotationSpec => []SweepIsComplete
<1>1. RotationInv => SweepIsComplete
  BY DEF RotationInv, SweptHolds, SweepIsComplete
<1> QED
  BY <1>1, RotationInvariant, PTL

\* A process started with the deployed ring decrypts every stored row.
THEOREM RolledOutAlwaysReads == RotationSpec => []RolledOutReads
<1>1. RotationInv => RolledOutReads
  BY DEF RotationInv, KeysInRing, RolledOutReads
<1> QED
  BY <1>1, RotationInvariant, PTL

-----------------------------------------------------------------------------
(***************************************************************************)
(* GuestSandbox.                                                           *)
(***************************************************************************)

(* The state of a sweep; what it has read of a guest is of that guest.      *)
SweepState ==
  {NoSweep} \cup [step: {"next"}, todo: SUBSET Guests, for: SUBSET Guests]
            \cup [step: {"tenant"}, todo: SUBSET Guests, for: SUBSET Guests,
                  guest: Guests, seen: Nat]

GuestInv ==
  /\ gtenant \in [Guests -> {"none", "live", "purged"}]
  /\ gsession \in [Guests -> SessionState]
  /\ gcases \in [Guests -> 0..MaxGuestCases]
  /\ gconsents = gcases
  /\ sweep \in [Sweepers -> SweepState]
  /\ PurgedTenantIsEmpty
  /\ SessionHasTenant

LEMMA GuestStart == GuestInit => GuestInv
<1> SUFFICES ASSUME GuestInit PROVE GuestInv
  OBVIOUS
<1>1. gcases \in [Guests -> 0..MaxGuestCases] /\ gconsents = gcases
  BY GuestAssumption, SMTT(30) DEF GuestInit
<1>2. sweep \in [Sweepers -> SweepState]
  BY DEF GuestInit, SweepState
<1>3. gsession \in [Guests -> SessionState]
  BY DEF GuestInit, SessionState
<1>4. gtenant \in [Guests -> {"none", "live", "purged"}] /\ PurgedTenantIsEmpty
  BY DEF GuestInit, PurgedTenantIsEmpty
<1>5. SessionHasTenant
  BY DEF GuestInit, SessionHasTenant
<1> QED
  BY <1>1, <1>2, <1>3, <1>4, <1>5 DEF GuestInv

(* A case and its consent are inserted for a tenant that is live then.      *)
LEMMA SeedKeepsCount ==
  ASSUME GuestInv, NEW g \in Guests, SeedCase(g)
  PROVE  /\ gcases' \in [Guests -> 0..MaxGuestCases] /\ gconsents' = gcases'
         /\ \A h \in Guests : h # g => gcases'[h] = gcases[h]
BY GuestAssumption, SMTT(30) DEF GuestInv, SeedCase

LEMMA SweepStaysTyped ==
  ASSUME GuestInv, NEW s, NEW v \in SweepState, sweep' = [sweep EXCEPT ![s] = v]
  PROVE  sweep' \in [Sweepers -> SweepState]
BY DEF GuestInv

LEMMA SessionStays ==
  ASSUME GuestInv, NEW g \in Guests, NEW b \in BOOLEAN,
         gsession' = [gsession EXCEPT ![g] = [@ EXCEPT !.row = b]]
  PROVE  /\ gsession' \in [Guests -> SessionState]
         /\ gsession'[g].row = b
         /\ \A h \in Guests : h # g => gsession'[h] = gsession[h]
<1>1. gsession[g] \in SessionState
  BY DEF GuestInv
<1>2. [gsession[g] EXCEPT !.row = b] \in SessionState
  BY <1>1 DEF SessionState
<1>3. gsession' \in [Guests -> SessionState]
  BY <1>2 DEF GuestInv
<1>4. [gsession[g] EXCEPT !.row = b].row = b
  BY <1>1 DEF SessionState
<1>5. gsession'[g] = [gsession[g] EXCEPT !.row = b]
  BY DEF GuestInv
<1>6. \A h \in Guests : h # g => gsession'[h] = gsession[h]
  BY DEF GuestInv
<1> QED
  BY <1>3, <1>4, <1>5, <1>6

(* The sweep's transaction commits: everything of the guest is gone.        *)
LEMMA PurgeKept ==
  ASSUME GuestInv, NEW s \in Sweepers, PurgeTenant(s)
  PROVE  GuestInv'
<1> DEFINE g == sweep[s].guest
<1>1. sweep[s] \in SweepState /\ sweep[s].step = "tenant"
  BY DEF GuestInv, PurgeTenant
<1>2. /\ g \in Guests /\ sweep[s].seen \in Nat
      /\ sweep[s].todo \in SUBSET Guests /\ sweep[s].for \in SUBSET Guests
  <2>1. /\ NoSweep.step # "tenant"
        /\ \A v \in [step: {"next"}, todo: SUBSET Guests, for: SUBSET Guests] :
             v.step # "tenant"
    BY DEF NoSweep
  <2>2. sweep[s] \in [step: {"tenant"}, todo: SUBSET Guests, for: SUBSET Guests,
                     guest: Guests, seen: Nat]
    BY <1>1, <2>1 DEF SweepState
  <2> QED
    BY <2>2
<1>3. CASE ~PurgeCommits(s, g)
  <2>1. NoSweep \in SweepState
    BY DEF SweepState
  <2>2. /\ sweep' = [sweep EXCEPT ![s] = NoSweep]
        /\ UNCHANGED <<gtenant, gsession, gcases, gconsents>>
    BY <1>3 DEF PurgeTenant, guestRowVars
  <2>3. sweep' \in [Sweepers -> SweepState]
    BY <2>1, <2>2, SweepStaysTyped
  <2> QED
    BY <2>2, <2>3 DEF GuestInv, PurgedTenantIsEmpty, SessionHasTenant
<1>4. CASE PurgeCommits(s, g)
  <2> DEFINE next == [step |-> "next", todo |-> sweep[s].todo, for |-> sweep[s].for]
  <2>1. /\ gtenant' = [gtenant EXCEPT ![g] = "purged"]
        /\ gcases' = [gcases EXCEPT ![g] = IF @ > sweep[s].seen THEN @ - sweep[s].seen ELSE 0]
        /\ gconsents' = [gconsents EXCEPT ![g] =
                           IF @ > sweep[s].seen THEN @ - sweep[s].seen ELSE 0]
        /\ gsession' = [gsession EXCEPT ![g] = [@ EXCEPT !.row = FALSE]]
        /\ sweep' = [sweep EXCEPT ![s] = next]
    BY <1>1, <1>4 DEF PurgeTenant, GuestInv
  <2>2. ~(gcases[g] > sweep[s].seen)
    BY <1>2, <1>4, GuestAssumption, SMTT(30) DEF PurgeCommits, GuestInv
  <2>3. gcases' = [gcases EXCEPT ![g] = 0] /\ gconsents' = gcases'
    BY <2>1, <2>2, <1>2 DEF GuestInv
  <2>4. next \in SweepState
    BY <1>2 DEF SweepState
  <2>5. sweep' \in [Sweepers -> SweepState]
    BY <2>1, <2>4, SweepStaysTyped
  <2>6. /\ gsession' \in [Guests -> SessionState] /\ gsession'[g].row = FALSE
        /\ \A h \in Guests : h # g => gsession'[h] = gsession[h]
    BY <2>1, <1>2, SessionStays
  <2>7. /\ gtenant' \in [Guests -> {"none", "live", "purged"}]
        /\ gcases' \in [Guests -> 0..MaxGuestCases]
    BY <2>1, <2>3, <1>2, GuestAssumption, SMTT(30) DEF GuestInv
  <2>8. PurgedTenantIsEmpty'
    BY <2>1, <2>3, <1>2 DEF GuestInv, PurgedTenantIsEmpty
  <2>9. SessionHasTenant'
    BY <2>1, <2>6, <1>2 DEF GuestInv, SessionHasTenant
  <2> QED
    BY <2>3, <2>5, <2>6, <2>7, <2>8, <2>9 DEF GuestInv
<1> QED
  BY <1>3, <1>4

(* A sweep that is over, and the tenant that a create goes on to make.      *)
LEMMA EndSweepKept ==
  ASSUME GuestInv, NEW s \in Sweepers, EndSweep(s)
  PROVE  GuestInv'
<1>1. sweep' = [sweep EXCEPT ![s] = NoSweep] /\ NoSweep \in SweepState
  BY DEF EndSweep, SweepState
<1>2. sweep' \in [Sweepers -> SweepState]
  BY <1>1, SweepStaysTyped
<1>3. CASE UNCHANGED <<gtenant, gsession, guestRowVars>>
  BY <1>2, <1>3 DEF GuestInv, PurgedTenantIsEmpty, SessionHasTenant, guestRowVars
<1>4. CASE ~UNCHANGED <<gtenant, gsession, guestRowVars>>
  <2>1. sweep[s] \in SweepState /\ sweep[s].step = "next"
    BY DEF GuestInv, EndSweep
  <2>2. sweep[s].for \in SUBSET Guests
    BY <2>1, SMTT(30) DEF SweepState, NoSweep
  <2>3. PICK g \in sweep[s].for :
          /\ gtenant[g] = "none"
          /\ gtenant' = [gtenant EXCEPT ![g] = "live"]
          /\ gsession' = [gsession EXCEPT ![g] = [@ EXCEPT !.row = TRUE]]
          /\ SeedCase(g)
    BY <1>4 DEF EndSweep
  <2>4. g \in Guests
    BY <2>2
  <2>5. /\ gcases' \in [Guests -> 0..MaxGuestCases] /\ gconsents' = gcases'
        /\ \A h \in Guests : h # g => gcases'[h] = gcases[h]
    BY <2>3, <2>4, SeedKeepsCount
  <2>6. /\ gsession' \in [Guests -> SessionState] /\ gsession'[g].row = TRUE
        /\ \A h \in Guests : h # g => gsession'[h] = gsession[h]
    BY <2>3, <2>4, SessionStays
  <2>7. gtenant' \in [Guests -> {"none", "live", "purged"}]
    BY <2>3, <2>4 DEF GuestInv
  <2>8. PurgedTenantIsEmpty'
    BY <2>3, <2>4, <2>5 DEF GuestInv, PurgedTenantIsEmpty
  <2>9. SessionHasTenant'
    BY <2>3, <2>4, <2>6 DEF GuestInv, SessionHasTenant
  <2> QED
    BY <1>2, <2>5, <2>6, <2>7, <2>8, <2>9 DEF GuestInv
<1> QED
  BY <1>3, <1>4

(* Steps that change nothing but a request, an activity or a sweep.         *)
LEMMA QuietGuestStep ==
  ASSUME GuestInv, UNCHANGED <<gtenant, gsession, gcases, gconsents>>,
         sweep' \in [Sweepers -> SweepState]
  PROVE  GuestInv'
BY DEF GuestInv, PurgedTenantIsEmpty, SessionHasTenant

LEMMA GuestKept == GuestInv /\ [GuestNext]_guestVars => GuestInv'
<1> SUFFICES ASSUME GuestInv, [GuestNext]_guestVars PROVE GuestInv'
  OBVIOUS
<1> sweep \in [Sweepers -> SweepState]
  BY DEF GuestInv
<1>1. ASSUME NEW g \in Guests,
             GetSession(g) \/ RequestCase(g) \/ ActivityReads(g) \/ ActivityWrites(g)
      PROVE  GuestInv'
  BY <1>1, QuietGuestStep DEF GetSession, RequestCase, ActivityReads, ActivityWrites, guestRowVars
<1>2. ASSUME NEW g \in Guests, NEW b \in BOOLEAN, b => gtenant[g] = "live",
             gsession' = [gsession EXCEPT ![g] = [@ EXCEPT !.row = b]],
             UNCHANGED <<gtenant, guestRowVars, sweep>>
      PROVE  GuestInv'
  <2>1. /\ gsession' \in [Guests -> SessionState] /\ gsession'[g].row = b
        /\ \A h \in Guests : h # g => gsession'[h] = gsession[h]
    BY <1>2, SessionStays
  <2>2. SessionHasTenant'
    BY <1>2, <2>1 DEF GuestInv, SessionHasTenant
  <2> QED
    BY <1>2, <2>1, <2>2 DEF GuestInv, PurgedTenantIsEmpty, guestRowVars
<1>3. ASSUME NEW g \in Guests, SaveCsrf(g) PROVE GuestInv'
  <2>1. (gtenant[g] = "live") \in BOOLEAN
    OBVIOUS
  <2> QED
    BY <1>2, <1>3, <2>1 DEF SaveCsrf
<1>4. ASSUME NEW g \in Guests, GuestLogout(g) PROVE GuestInv'
  BY <1>2, <1>4 DEF GuestLogout
<1>5. ASSUME NEW g \in Guests, AddCase(g) PROVE GuestInv'
  <2>1. CASE gtenant[g] = "live"
    <3>1. /\ gcases' \in [Guests -> 0..MaxGuestCases] /\ gconsents' = gcases'
          /\ \A h \in Guests : h # g => gcases'[h] = gcases[h]
      BY <1>5, <2>1, SeedKeepsCount DEF AddCase
    <3>2. PurgedTenantIsEmpty'
      BY <1>5, <2>1, <3>1 DEF AddCase, GuestInv, PurgedTenantIsEmpty
    <3> QED
      BY <1>5, <3>1, <3>2 DEF AddCase, GuestInv, SessionHasTenant
  <2>2. CASE gtenant[g] # "live"
    BY <1>5, <2>2, QuietGuestStep DEF AddCase, guestRowVars
  <2> QED
    BY <2>1, <2>2
<1>6. ASSUME NEW g \in Guests, Expire(g) PROVE GuestInv'
  <2>1. gsession[g] \in SessionState
    BY DEF GuestInv
  <2>2. /\ [gsession[g] EXCEPT !.expired = TRUE] \in SessionState
        /\ [gsession[g] EXCEPT !.expired = TRUE].row = gsession[g].row
    BY <2>1 DEF SessionState
  <2>3. gsession' \in [Guests -> SessionState]
    BY <1>6, <2>2 DEF Expire, GuestInv
  <2>4. \A h \in Guests : gsession'[h].row = gsession[h].row
    BY <1>6, <2>2 DEF Expire, GuestInv
  <2> QED
    BY <1>6, <2>3, <2>4 DEF Expire, GuestInv, PurgedTenantIsEmpty, SessionHasTenant, guestRowVars
<1>7. ASSUME NEW s, NEW for \in SUBSET Guests, StartSweep(s, for) PROVE GuestInv'
  <2>1. [step |-> "next", todo |-> Expired, for |-> for] \in SweepState
    BY DEF SweepState, Expired
  <2>2. sweep' \in [Sweepers -> SweepState]
    BY <1>7, <2>1, SweepStaysTyped DEF StartSweep
  <2> QED
    BY <1>7, <2>2, QuietGuestStep DEF StartSweep, guestRowVars
<1>8. ASSUME NEW s \in Sweepers, NEW g \in Guests, PurgeRows(s, g) PROVE GuestInv'
  <2> DEFINE held == [step |-> "tenant", todo |-> sweep[s].todo \ {g}, for |-> sweep[s].for,
                      guest |-> g, seen |-> gcases[g]]
  <2>1. sweep[s] \in SweepState /\ sweep[s].step = "next"
    BY <1>8 DEF GuestInv, PurgeRows
  <2>2. sweep[s].todo \in SUBSET Guests /\ sweep[s].for \in SUBSET Guests
    BY <2>1, SMTT(30) DEF SweepState, NoSweep
  <2>3. gcases[g] \in Nat
    BY GuestAssumption, SMTT(30) DEF GuestInv
  <2>4. held \in SweepState
    BY <2>2, <2>3 DEF SweepState
  <2>5. sweep' = [sweep EXCEPT ![s] = held]
    BY <1>8 DEF PurgeRows, GuestInv
  <2>6. sweep' \in [Sweepers -> SweepState]
    BY <2>4, <2>5, SweepStaysTyped
  <2> QED
    BY <1>8, <2>6, QuietGuestStep DEF PurgeRows, guestRowVars
<1>9. ASSUME NEW s \in Sweepers, SweepDies(s) PROVE GuestInv'
  <2>1. NoSweep \in SweepState
    BY DEF SweepState
  <2>2. sweep' \in [Sweepers -> SweepState]
    BY <1>9, <2>1, SweepStaysTyped DEF SweepDies
  <2> QED
    BY <1>9, <2>2, QuietGuestStep DEF SweepDies, guestRowVars
<1>10. CASE UNCHANGED guestVars
  BY <1>10, QuietGuestStep DEF guestVars
<1>11. WorkerTick => GuestInv'
  BY <1>7 DEF WorkerTick
<1>12. ASSUME NEW s \in Sweepers, NEW g \in Guests, CreateSession(s, g) PROVE GuestInv'
  BY <1>7, <1>12 DEF CreateSession
<1> QED
  BY <1>1, <1>3, <1>4, <1>5, <1>6, <1>8, <1>9, <1>10, <1>11, <1>12, PurgeKept, EndSweepKept
     DEF GuestNext

(* A purged guest tenant has no case or consent left, although requests     *)
(* passed their session check before the purge and sweeps overlap, and no   *)
(* session cookie resolves to it, whatever the number of guests and         *)
(* sweeping processes (guest-sandbox.service.ts, purge-tenant-data.ts).     *)
THEOREM PurgeAlwaysComplete == GuestSpec => []PurgeIsComplete
<1>1. GuestInv => PurgeIsComplete
  BY DEF GuestInv, PurgeIsComplete, GuestTypeOK
<1> QED
  BY <1>1, GuestStart, GuestKept, PTL DEF GuestSpec
==============================================================================
