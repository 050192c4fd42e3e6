--------------------------- MODULE ProviderPromotion ---------------------------
(***************************************************************************)
(* Provider governance (provider-promotion.service.ts,                     *)
(* provider-kill-switch.service.ts): manifests are proposed, certified,    *)
(* approved and activated; a tuple of provider, capability and mode is     *)
(* deactivated or disabled; kill-switch-drill exercises the gate.          *)
(*                                                                         *)
(* propose, activate and the kill switch's upsert read, then write, in no  *)
(* transaction: calls of several admins and scripts overlap.  Decisions    *)
(* are append-only rows of which the latest counts; one may carry an       *)
(* expiry that passes.                                                     *)
(***************************************************************************)
EXTENDS Integers, Sequences, FiniteSets, FiniteSetsExt

CONSTANTS
  Admins,          \* platform admins and operators with the script
  Tuples,          \* provider tuples that they govern
  DrillTuple,      \* the tuple of kill-switch-drill
  Calls,           \* calls that can be in progress
  CertInputs,      \* certification decisions that are recorded
  ApprovalInputs,  \* approval decisions that are recorded
  MaxManifests, MaxCerts, MaxApprovals, MaxDrills  \* bounds

CertDecisions == {"PASSED", "FAILED", "REVOKED"}
ApprovalDecisions == {"APPROVED", "REJECTED", "REVOKED"}

VARIABLES
  manifests,    \* provider_promotion_manifests; their place is their id
  certs,        \* provider_certification_records, oldest first
  gapprovals,    \* provider_approval_records, oldest first
  activation,   \* provider_activations, per tuple
  gstatus,       \* provider_adapter_status, per tuple
  gcall,        \* per call: its state
  gaudit,       \* the newest of the platform's audit_events
  drill,        \* kill-switch-drill: step and what it has seen
  drills        \* bound counter

promotionVars == <<manifests, certs, gapprovals, activation, gstatus, gcall, gaudit, drill, drills>>
recordVars == <<manifests, certs, gapprovals>>

AllTuples == Tuples \cup {DrillTuple}
ManifestRow == [tuple: AllTuples, version: Nat, proposedBy: Admins \cup {"drill-operator"}]
ActivationRow == [manifest: Nat, version: Nat, state: {"ACTIVE", "DEACTIVATED"}]
NoActivation == [manifest |-> 0, version |-> 0, state |-> "DEACTIVATED"]
CertRow == [manifest: Nat, decision: CertDecisions, expired: BOOLEAN]
ApprovalRow == [manifest: Nat, by: Admins \cup {"drill-approver"}, decision: ApprovalDecisions,
                expired: BOOLEAN]
NoCall == [op |-> "none"]

(* A deleted row keeps its place: an id is never given out again.           *)
NoManifest == [tuple |-> "none", version |-> 0, proposedBy |-> "none"]
NoCert == [manifest |-> 0, decision |-> "REVOKED", expired |-> TRUE]
NoApproval == [manifest |-> 0, by |-> "none", decision |-> "REVOKED", expired |-> TRUE]

ASSUME PromotionAssumption ==
  /\ DrillTuple \notin Tuples /\ "none" \notin Tuples \cup {DrillTuple}
  /\ CertInputs \subseteq CertDecisions /\ ApprovalInputs \subseteq ApprovalDecisions

PromotionInit ==
  /\ manifests = <<>> /\ certs = <<>> /\ gapprovals = <<>>
  /\ activation = [t \in AllTuples |-> NoActivation]
  /\ gstatus = [t \in AllTuples |-> "none"]
  /\ gcall = [c \in Calls |-> NoCall] /\ gaudit = <<>>
  /\ drill = [step |-> 0, manifest |-> 0, ok |-> TRUE, died |-> FALSE]
  /\ drills = 0

(* listManifests, newest first, and the history that getManifestDetail shows*)
(* are reads of these rows.                                                 *)
ManifestsOf(t) == {m \in DOMAIN manifests : manifests[m].tuple = t}

(* The manifests that people decide on; the drill's are its own, and its    *)
(* decisions do not expire.                                                 *)
Governed == {m \in DOMAIN manifests : manifests[m].tuple \in Tuples}
LatestVersion(t) == Max({0} \cup {manifests[m].version : m \in ManifestsOf(t)})

-----------------------------------------------------------------------------
(* Every state-changing method ends with an audit event of its own, written *)
(* after its save; a process that dies in between never writes it.          *)
ToAudit(c, action, of) == gcall' = [gcall EXCEPT ![c] = [op |-> "audit", entry |-> <<action, of>>]]

RecordPromotion(c) ==
  /\ gcall[c].op = "audit"
  /\ gaudit' = gcall[c].entry
  /\ gcall' = [gcall EXCEPT ![c] = NoCall]
  /\ UNCHANGED <<recordVars, activation, gstatus, drill, drills>>

PromotionDies(c) ==
  /\ gcall[c] # NoCall
  /\ gcall' = [gcall EXCEPT ![c] = NoCall]
  /\ UNCHANGED <<recordVars, activation, gstatus, gaudit, drill, drills>>

-----------------------------------------------------------------------------
(***************************************************************************)
(* propose, certify, approve.                                              *)
(***************************************************************************)

Excluded == {"FUNDS_MOVEMENT"}   \* STRUCTURALLY_EXCLUDED_COMMAND_CLASSES

(* propose: the command class is checked, the latest version read.          *)
ProposeRead(c, t, a, class) ==
  /\ gcall[c] = NoCall
  /\ class \notin Excluded
  /\ gcall' = [gcall EXCEPT ![c] =
       [op |-> "propose",
        row |-> [tuple |-> t, version |-> LatestVersion(t) + 1, proposedBy |-> a]]]
  /\ UNCHANGED <<recordVars, activation, gstatus, gaudit, drill, drills>>

ProposeSave(c) ==
  /\ gcall[c].op = "propose"
  /\ Len(manifests) < MaxManifests
  /\ manifests' = Append(manifests, gcall[c].row)
  /\ ToAudit(c, "PROPOSED", Len(manifests) + 1)
  /\ UNCHANGED <<certs, gapprovals, activation, gstatus, gaudit, drill, drills>>

Certify(c, m, decision) ==
  /\ gcall[c] = NoCall
  /\ Len(certs) < MaxCerts
  /\ certs' = Append(certs, [manifest |-> m, decision |-> decision, expired |-> FALSE])
  /\ ToAudit(c, "CERTIFIED", m)
  /\ UNCHANGED <<manifests, gapprovals, activation, gstatus, gaudit, drill, drills>>

AnyApprover(m, a, decision) == TRUE                    \* mutant of MayDecide

(* approve: the proposer may reject or revoke, not approve.                 *)
MayDecide(m, a, decision) == decision = "APPROVED" => manifests[m].proposedBy # a

Approve(c, m, a, decision) ==
  /\ gcall[c] = NoCall
  /\ MayDecide(m, a, decision)
  /\ Len(gapprovals) < MaxApprovals
  /\ gapprovals' = Append(gapprovals,
       [manifest |-> m, by |-> a, decision |-> decision, expired |-> FALSE])
  /\ ToAudit(c, "APPROVAL_RECORDED", m)
  /\ UNCHANGED <<manifests, certs, activation, gstatus, gaudit, drill, drills>>

(* The expiry of a decision passes.                                         *)
CertExpires(i) ==
  /\ certs[i].manifest \in Governed /\ ~certs[i].expired
  /\ certs' = [certs EXCEPT ![i] = [@ EXCEPT !.expired = TRUE]]
  /\ UNCHANGED <<manifests, gapprovals, activation, gstatus, gcall, gaudit, drill, drills>>

ApprovalExpires(i) ==
  /\ gapprovals[i].manifest \in Governed /\ ~gapprovals[i].expired
  /\ gapprovals' = [gapprovals EXCEPT ![i] = [@ EXCEPT !.expired = TRUE]]
  /\ UNCHANGED <<manifests, certs, activation, gstatus, gcall, gaudit, drill, drills>>

-----------------------------------------------------------------------------
(***************************************************************************)
(* activate, deactivate, isActivated; the kill switch.                     *)
(***************************************************************************)

(* latestDecision: the newest row of a manifest.                            *)
LatestIs(rows, m, decision) ==
  LET mine == {i \in DOMAIN rows : rows[i].manifest = m}
  IN  /\ mine # {}
      /\ rows[Max(mine)].decision = decision
      /\ ~rows[Max(mine)].expired

CertifiedOrApproved(m) ==                                     \* mutant of Gates
  LatestIs(certs, m, "PASSED") \/ LatestIs(gapprovals, m, "APPROVED")

Gates(m) == LatestIs(certs, m, "PASSED") /\ LatestIs(gapprovals, m, "APPROVED")

(* activate: both gates, then the optimistic lock on the version that the   *)
(* admin last saw, all read before the write.                               *)
ActivateRead(c, m, expected) ==
  LET t == manifests[m].tuple
  IN  /\ gcall[c] = NoCall
      /\ Gates(m)
      /\ expected = activation[t].version
      /\ gcall' = [gcall EXCEPT ![c] =
           [op |-> "activate", tuple |-> t, manifest |-> m, had |-> activation[t].version > 0,
            expected |-> expected]]
      /\ UNCHANGED <<recordVars, activation, gstatus, gaudit, drill, drills>>

(* The save updates the row that was read, or inserts the first one, which  *)
(* the unique tuple refuses when another call inserted it meanwhile.        *)
ActivateSave(c) ==
  LET t == gcall[c].tuple
      m == gcall[c].manifest
      refused == ~gcall[c].had /\ activation[t].version > 0
  IN  /\ gcall[c].op = "activate"
      /\ activation' = IF refused THEN activation ELSE [activation EXCEPT ![t] =
           [manifest |-> m, version |-> manifests[m].version, state |-> "ACTIVE"]]
      /\ IF refused THEN gcall' = [gcall EXCEPT ![c] = NoCall] ELSE ToAudit(c, "ACTIVATED", t)
      /\ UNCHANGED <<recordVars, gstatus, gaudit, drill, drills>>

(* deactivate: an update of the state column only.                          *)
Deactivate(c, t) ==
  /\ gcall[c] = NoCall
  /\ activation[t].version > 0
  /\ activation' = [activation EXCEPT ![t] = [@ EXCEPT !.state = "DEACTIVATED"]]
  /\ ToAudit(c, "DEACTIVATED", t)
  /\ UNCHANGED <<recordVars, gstatus, gaudit, drill, drills>>

(* disable and enable: the upsert reads whether there is a row.             *)
StatusRead(c, t, state) ==
  /\ gcall[c] = NoCall
  /\ gcall' = [gcall EXCEPT ![c] =
       [op |-> "status", tuple |-> t, state |-> state, had |-> gstatus[t] # "none"]]
  /\ UNCHANGED <<recordVars, activation, gstatus, gaudit, drill, drills>>

StatusSave(c) ==
  LET t == gcall[c].tuple
      refused == ~gcall[c].had /\ gstatus[t] # "none"
  IN  /\ gcall[c].op = "status"
      /\ gstatus' = IF refused THEN gstatus ELSE [gstatus EXCEPT ![t] = gcall[c].state]
      /\ gcall' = [gcall EXCEPT ![c] = NoCall]
      /\ UNCHANGED <<recordVars, activation, gaudit, drill, drills>>

IsActivatedOnce(t) == activation[t].version > 0              \* mutant of IsActivated

IsActivated(t) == activation[t].version > 0 /\ activation[t].state = "ACTIVE"
IsActive(t) == gstatus[t] # "DISABLED"
Dispatches(t) == IsActive(t) /\ IsActivated(t)

(* manage-provider-promotion's operations, each also an endpoint.           *)
ManageProviderPromotion(c) ==
  \/ \E t \in Tuples, a \in Admins, class \in {"none"} \cup Excluded : ProposeRead(c, t, a, class)
  \/ \E m \in Governed :
       \/ \E d \in CertInputs : Certify(c, m, d)
       \/ \E a \in Admins, d \in ApprovalInputs : Approve(c, m, a, d)
       \/ \E v \in 0..MaxManifests : ActivateRead(c, m, v)
  \/ \E t \in Tuples : Deactivate(c, t)

PromotionNext ==
  \/ \E c \in Calls : \/ ManageProviderPromotion(c) \/ ProposeSave(c) \/ ActivateSave(c)
                      \/ RecordPromotion(c) \/ PromotionDies(c)
  \/ \E i \in DOMAIN certs : CertExpires(i)
  \/ \E i \in DOMAIN gapprovals : ApprovalExpires(i)

KillSwitchNext ==
  \E c \in Calls :
    \/ \E t \in Tuples, state \in {"ACTIVE", "DISABLED"} : StatusRead(c, t, state)
    \/ StatusSave(c)

-----------------------------------------------------------------------------
(***************************************************************************)
(* kill-switch-drill, on a tuple of its own: dispatch is refused, promote, *)
(* dispatch succeeds, deactivate, dispatch is refused, clean up.  A step   *)
(* that throws goes to the clean-up.                                       *)
(***************************************************************************)

StartDrill ==
  /\ drill.step = 0
  /\ drills < MaxDrills
  /\ drills' = drills + 1
  /\ drill' = [drill EXCEPT !.step = 1, !.ok = TRUE]
  /\ UNCHANGED <<recordVars, activation, gstatus, gcall, gaudit>>

ExpectDispatch(step, expected) ==
  /\ drill.step = step
  /\ drill' = [drill EXCEPT !.step = step + 1, !.ok = @ /\ (Dispatches(DrillTuple) <=> expected)]
  /\ UNCHANGED <<recordVars, activation, gstatus, gcall, gaudit, drills>>

DrillPromotes ==
  LET m == Len(manifests) + 1
  IN  /\ drill.step = 2
      /\ manifests' = Append(manifests,
           [tuple |-> DrillTuple, version |-> LatestVersion(DrillTuple) + 1,
            proposedBy |-> "drill-operator"])
      /\ certs' = Append(certs, [manifest |-> m, decision |-> "PASSED", expired |-> FALSE])
      /\ gapprovals' = Append(gapprovals, [manifest |-> m, by |-> "drill-approver",
                                         decision |-> "APPROVED", expired |-> FALSE])
      /\ drill' = [drill EXCEPT !.step = 3, !.manifest = m]
      /\ UNCHANGED <<activation, gstatus, gcall, gaudit, drills>>

(* activate with "no activation yet" as the expected version.               *)
DrillActivates ==
  /\ drill.step = 3
  /\ IF activation[DrillTuple].version = 0
       THEN /\ activation' = [activation EXCEPT ![DrillTuple] =
                 [manifest |-> drill.manifest, version |-> manifests[drill.manifest].version,
                  state |-> "ACTIVE"]]
            /\ drill' = [drill EXCEPT !.step = 4]
       ELSE /\ drill' = [drill EXCEPT !.step = 7, !.ok = FALSE]
            /\ UNCHANGED activation
  /\ UNCHANGED <<recordVars, gstatus, gcall, gaudit, drills>>

DrillDeactivates ==
  /\ drill.step = 5
  /\ activation' = [activation EXCEPT ![DrillTuple] = [@ EXCEPT !.state = "DEACTIVATED"]]
  /\ drill' = [drill EXCEPT !.step = 6]
  /\ UNCHANGED <<recordVars, gstatus, gcall, gaudit, drills>>

CleanNothing == drill.ok                                       \* mutant of CleansUp

(* The clean-up is in a finally block.                                      *)
CleansUp == TRUE

DrillCleansUp ==
  LET mine == ManifestsOf(DrillTuple)
  IN  /\ drill.step = 7
      /\ IF CleansUp
           THEN /\ activation' = [activation EXCEPT ![DrillTuple] = NoActivation]
                /\ manifests' = [m \in DOMAIN manifests |->
                     IF m \in mine THEN NoManifest ELSE manifests[m]]
                /\ certs' = [i \in DOMAIN certs |->
                     IF certs[i].manifest \in mine THEN NoCert ELSE certs[i]]
                /\ gapprovals' = [i \in DOMAIN gapprovals |->
                     IF gapprovals[i].manifest \in mine THEN NoApproval ELSE gapprovals[i]]
           ELSE UNCHANGED <<activation, recordVars>>
      /\ drill' = [drill EXCEPT !.step = 0, !.manifest = 0, !.died = FALSE]
      /\ UNCHANGED <<gstatus, gcall, gaudit, drills>>

(* The drill's process dies.                                                *)
DrillDies ==
  /\ drill.step > 0
  /\ drill' = [drill EXCEPT !.step = 0, !.manifest = 0, !.ok = TRUE, !.died = TRUE]
  /\ UNCHANGED <<recordVars, activation, gstatus, gcall, gaudit, drills>>

DrillNext ==
  \/ StartDrill \/ ExpectDispatch(1, FALSE) \/ DrillPromotes \/ DrillActivates
  \/ ExpectDispatch(4, TRUE) \/ DrillDeactivates \/ ExpectDispatch(6, FALSE)
  \/ DrillCleansUp \/ DrillDies

PromotionSpec == PromotionInit /\ [][PromotionNext \/ KillSwitchNext \/ DrillNext]_promotionVars

-----------------------------------------------------------------------------
(***************************************************************************)
(* Properties.                                                             *)
(***************************************************************************)

(* Every variable has its type.                                             *)
PromotionTypeOK ==
  /\ \A m \in DOMAIN manifests : manifests[m] \in ManifestRow \cup {NoManifest}
  /\ \A i \in DOMAIN certs : certs[i] \in CertRow
  /\ \A i \in DOMAIN gapprovals : gapprovals[i] \in ApprovalRow \cup {NoApproval}
  /\ activation \in [AllTuples -> ActivationRow]
  /\ gstatus \in [AllTuples -> {"none", "ACTIVE", "DISABLED"}]
  /\ \A t \in AllTuples : activation[t].version > 0 =>
       /\ activation[t].manifest \in ManifestsOf(t)
       /\ activation[t].version = manifests[activation[t].manifest].version

(* Dual control: whatever calls overlap, what is active was certified       *)
(* PASSED, and approved by someone other than its proposer.                 *)
DualControl ==
  \A t \in AllTuples : activation[t].version > 0 =>
    LET m == activation[t].manifest
    IN  /\ \E i \in DOMAIN certs : certs[i].manifest = m /\ certs[i].decision = "PASSED"
        /\ \E i \in DOMAIN gapprovals : /\ gapprovals[i].manifest = m
                                       /\ gapprovals[i].decision = "APPROVED"
                                       /\ gapprovals[i].by # manifests[m].proposedBy

(* A drill reports a failure only after an earlier drill died half-way, and *)
(* then cleans up so that the next one passes.                              *)
DrillPasses == drill.step > 0 /\ ~drill.ok => drill.died

(* All of it at once, whatever calls, scripts and drills overlap            *)
(* (provider-promotion.service.ts, provider-kill-switch-drill.ts).          *)
PromotionIsGoverned == PromotionTypeOK /\ DualControl /\ DrillPasses
=============================================================================
