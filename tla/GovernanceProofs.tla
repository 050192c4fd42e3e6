-------------------------- MODULE GovernanceProofs ---------------------------
(***************************************************************************)
(* Theorems about what people decide before machines act: ProviderPromotion*)
(* and PolicyResearch, for any assets, manifests, certificates, approvals, *)
(* drills, sources, bulletins, leases and timeouts.                        *)
(***************************************************************************)
EXTENDS ProviderPromotion, PolicyResearch, WellFoundedInduction, TLAPS

(* Zenon is the prover of every leaf that names none.                       *)
USE ZenonT(90)

(* Every non-empty set of numbers up to n has the greatest that Max chooses.*)
LEMMA MaxUpTo ==
  ASSUME NEW n \in Nat, NEW S \in SUBSET (0..n), S # {}
  PROVE  Max(S) \in S /\ \A j \in S : j <= Max(S)
<1> DEFINE R == OpToRel(<, Nat)
           T == {n - i : i \in S}
<1>1. IsWellFoundedOn(R, Nat)
  BY NatLessThanWellFounded
<1>2. \A x, y \in Nat : ~(<<y, x>> \in R) => x <= y
  BY SMTT(30) DEF OpToRel
<1> HIDE DEF R
<1>3. \A i \in S : i \in Nat /\ n - i \in Nat
  BY SMTT(30)
<1>4. T \subseteq Nat /\ T # {}
  BY <1>3
<1>5. PICK m \in T : \A y \in T : ~(<<y, m>> \in R)
  BY <1>1, <1>4, WFMin
<1>6. \A y \in T : m <= y
  BY <1>2, <1>4, <1>5
<1>7. PICK i \in S : m = n - i
  OBVIOUS
<1>8. ASSUME NEW j \in S PROVE i >= j
  <2>1. n - i <= n - j
    BY <1>6, <1>7
  <2> QED
    BY <1>3, <2>1, SMTT(30)
<1>9. \E z \in S : \A j \in S : z >= j
  BY <1>8
<1>10. Max(S) \in S /\ \A j \in S : Max(S) >= j
  BY <1>9 DEF Max
<1> QED
  BY <1>3, <1>10

-----------------------------------------------------------------------------
(***************************************************************************)
(* ProviderPromotion.                                                      *)
(***************************************************************************)

ManifestCell == ManifestRow \cup {NoManifest}
ApprovalCell == ApprovalRow \cup {NoApproval}

(* A manifest has been certified, and approved.                             *)
Certified(m) == \E i \in DOMAIN certs : certs[i].manifest = m /\ certs[i].decision = "PASSED"
Approved(m) ==
  \E i \in DOMAIN gapprovals : gapprovals[i].manifest = m /\ gapprovals[i].decision = "APPROVED"

(* The append-only records: versions are counted up from 1, no faster than  *)
(* rows are added, and nobody has approved their own proposal.              *)
RecordsInv ==
  /\ manifests \in Seq(ManifestCell) /\ certs \in Seq(CertRow) /\ gapprovals \in Seq(ApprovalCell)
  /\ \A m \in DOMAIN manifests : manifests[m].version <= Len(manifests)
  /\ \A m \in DOMAIN manifests : manifests[m].tuple # "none" => manifests[m].version > 0
  /\ \A i \in DOMAIN gapprovals : gapprovals[i].decision = "APPROVED" =>
       /\ gapprovals[i].manifest \in DOMAIN manifests
       /\ gapprovals[i].by # manifests[gapprovals[i].manifest].proposedBy

(* A manifest that a tuple may be activated with.                           *)
Ready(t, m) == m \in ManifestsOf(t) /\ Certified(m) /\ Approved(m)

(* What a call has read and not yet written.                                *)
CallOK(k) ==
  \/ k = NoCall
  \/ k.op = "audit"
  \/ /\ k.op = "propose"
     /\ k.row \in ManifestRow /\ k.row.version > 0 /\ k.row.version <= Len(manifests) + 1
  \/ k.op = "activate" /\ k.tuple \in Tuples /\ Ready(k.tuple, k.manifest)
  \/ k.op = "status" /\ k.tuple \in Tuples /\ k.state \in {"ACTIVE", "DISABLED"}
CallsInv == gcall = [c \in Calls |-> gcall[c]] /\ \A c \in Calls : CallOK(gcall[c])

Backed(t) ==
  activation[t].version > 0 =>
    /\ Ready(t, activation[t].manifest)
    /\ activation[t].version = manifests[activation[t].manifest].version
TuplesInv ==
  /\ activation \in [AllTuples -> ActivationRow]
  /\ gstatus \in [AllTuples -> {"none", "ACTIVE", "DISABLED"}]
  /\ gstatus[DrillTuple] = "none"
  /\ \A t \in AllTuples : Backed(t)

DrillTypeOK ==
  DOMAIN drill = {"step", "manifest", "ok", "died"} /\ drill.step \in 0..7

(* What the drill relies on, unless an earlier one died half-way.           *)
DrillInv ==
  /\ DrillTypeOK
  /\ drill.step = 3 => Ready(DrillTuple, drill.manifest)
  /\ ~drill.died =>
       /\ drill.step \in 0..3 => activation[DrillTuple] = NoActivation
       /\ drill.step \in {4, 5} =>
            activation[DrillTuple].version > 0 /\ activation[DrillTuple].state = "ACTIVE"
       /\ drill.step = 6 => activation[DrillTuple].state = "DEACTIVATED"
  /\ DrillPasses

PromotionInv == RecordsInv /\ CallsInv /\ TuplesInv /\ DrillInv

-----------------------------------------------------------------------------
LEMMA VersionsCount ==
  ASSUME RecordsInv, NEW t \in AllTuples
  PROVE  LatestVersion(t) \in Nat /\ LatestVersion(t) <= Len(manifests)
<1> DEFINE S == {0} \cup {manifests[m].version : m \in ManifestsOf(t)}
<1>1. Len(manifests) \in Nat
  BY SMTT(30) DEF RecordsInv
<1>2. ASSUME NEW m \in ManifestsOf(t) PROVE manifests[m].version \in 0..Len(manifests)
  <2>1. m \in DOMAIN manifests /\ manifests[m] \in ManifestCell
    BY SMTT(30) DEF ManifestsOf, RecordsInv
  <2>2. manifests[m].version \in Nat
    BY <2>1, SMTT(30) DEF ManifestCell, ManifestRow, NoManifest
  <2> QED
    BY <1>1, <2>1, <2>2, SMTT(30) DEF RecordsInv
<1>3. S \in SUBSET (0..Len(manifests)) /\ S # {}
  BY <1>1, <1>2, SMTT(30)
<1>4. Max(S) \in S
  BY <1>1, <1>3, MaxUpTo
<1>5. LatestVersion(t) = Max(S)
  BY DEF LatestVersion
<1> QED
  BY <1>1, <1>3, <1>4, <1>5, SMTT(30)

LEMMA LatestIsSome ==
  ASSUME NEW R, NEW rows \in Seq(R), NEW m, NEW decision, LatestIs(rows, m, decision)
  PROVE  \E i \in DOMAIN rows : rows[i].manifest = m /\ rows[i].decision = decision
<1> DEFINE mine == {i \in DOMAIN rows : rows[i].manifest = m}
<1>1. mine # {} /\ rows[Max(mine)].decision = decision
  BY DEF LatestIs
<1>2. Len(rows) \in Nat /\ mine \in SUBSET (0..Len(rows))
  BY SMTT(30)
<1>3. Max(mine) \in mine
  BY <1>1, <1>2, MaxUpTo
<1> QED
  BY <1>1, <1>3

-----------------------------------------------------------------------------
(* What the records may do to a manifest, for as long as it is there.       *)
Keeps(m) ==
  /\ m \in DOMAIN manifests' /\ manifests'[m] = manifests[m]
  /\ Certified(m) => Certified(m)'
  /\ Approved(m) => Approved(m)'
Grows ==
  /\ Len(manifests) <= Len(manifests')
  /\ \A m \in DOMAIN manifests : manifests[m].tuple # DrillTuple => Keeps(m)
AllKept == Grows /\ \A m \in DOMAIN manifests : Keeps(m)

LEMMA ReadyKept ==
  ASSUME NEW t, NEW m, Keeps(m), Ready(t, m)
  PROVE  Ready(t, m)'
<1>1. Certified(m)' /\ Approved(m)'
  BY DEF Keeps, Ready
<1>2. m \in ManifestsOf(t)'
  BY DEF Keeps, Ready, ManifestsOf
<1> QED
  BY <1>1, <1>2 DEF Ready

LEMMA CallKept ==
  ASSUME RecordsInv, Grows, Len(manifests') \in Nat, NEW k, CallOK(k)
  PROVE  CallOK(k)'
<1>1. CASE \/ k = NoCall \/ k.op = "audit"
           \/ k.op = "status" /\ k.tuple \in Tuples /\ k.state \in {"ACTIVE", "DISABLED"}
  BY <1>1 DEF CallOK
<1>2. CASE /\ k.op = "propose"
           /\ k.row \in ManifestRow /\ k.row.version > 0 /\ k.row.version <= Len(manifests) + 1
  <2>1. Len(manifests) \in Nat /\ k.row.version \in Nat
    BY <1>2, SMTT(30) DEF RecordsInv, ManifestRow
  <2>2. k.row.version <= Len(manifests') + 1
    BY <1>2, <2>1, SMTT(30) DEF Grows
  <2> QED
    BY <1>2, <2>2 DEF CallOK
<1>3. CASE k.op = "activate" /\ k.tuple \in Tuples /\ Ready(k.tuple, k.manifest)
  <2>1. PICK t, m : t = k.tuple /\ m = k.manifest
    OBVIOUS
  <2>2. m \in DOMAIN manifests /\ manifests[m].tuple # DrillTuple
    BY <1>3, <2>1, PromotionAssumption DEF Ready, ManifestsOf
  <2>3. Ready(t, m)'
    BY <1>3, <2>1, <2>2, ReadyKept DEF Grows
  <2> QED
    BY <1>3, <2>1, <2>3 DEF CallOK
<1> QED
  BY <1>1, <1>2, <1>3 DEF CallOK

(* The other calls go on as they were.                                      *)
LEMMA CallStep ==
  ASSUME RecordsInv, Grows, Len(manifests') \in Nat, CallsInv, NEW c \in Calls, NEW k, CallOK(k)',
         gcall' = [gcall EXCEPT ![c] = k]
  PROVE  CallsInv'
<1>1. gcall' = [d \in Calls |-> gcall'[d]]
  BY DEF CallsInv
<1>2. gcall'[c] = k /\ \A d \in Calls \ {c} : gcall'[d] = gcall[d]
  BY DEF CallsInv
<1>3. ASSUME NEW d \in Calls PROVE CallOK(gcall[d])'
  <2>1. CASE d = c
    <3>1. PICK x : x = gcall'[c]
      OBVIOUS
    <3> QED
      BY <1>2, <2>1, <3>1 DEF CallOK, Ready, ManifestsOf, Certified, Approved
  <2>2. CASE d # c
    <3>1. PICK x : x = gcall[d]
      OBVIOUS
    <3>2. CallOK(x)'
      BY <3>1, CallKept DEF CallsInv
    <3> QED
      BY <1>2, <2>2, <3>1, <3>2 DEF CallOK, Ready, ManifestsOf, Certified, Approved
  <2> QED
    BY <2>1, <2>2
<1> QED
  BY <1>1, <1>3 DEF CallsInv

LEMMA CallsKept ==
  ASSUME RecordsInv, Grows, Len(manifests') \in Nat, CallsInv, gcall' = gcall
  PROVE  CallsInv'
<1>3. ASSUME NEW d \in Calls PROVE CallOK(gcall[d])'
  <2>1. PICK x : x = gcall[d]
    OBVIOUS
  <2>2. CallOK(x)'
    BY <2>1, CallKept DEF CallsInv
  <2> QED
    BY <2>1, <2>2 DEF CallOK, Ready, ManifestsOf, Certified, Approved
<1> QED
  BY <1>3 DEF CallsInv

LEMMA TuplesKept ==
  ASSUME TuplesInv, AllKept, activation' = activation, gstatus' = gstatus
  PROVE  TuplesInv'
<1>1. ASSUME NEW t \in AllTuples, activation[t].version > 0 PROVE Backed(t)'
  <2>1. PICK m : m = activation[t].manifest
    OBVIOUS
  <2>2. Ready(t, m) /\ activation[t].version = manifests[m].version
    BY <1>1, <2>1 DEF TuplesInv, Backed
  <2>3. Keeps(m)
    BY <2>2 DEF AllKept, Ready, ManifestsOf
  <2>4. Ready(t, m)' /\ manifests'[m] = manifests[m]
    BY <2>2, <2>3, ReadyKept DEF Keeps
  <2> QED
    BY <2>1, <2>2, <2>4 DEF Backed, Ready, ManifestsOf, Certified, Approved
<1>2. \A t \in AllTuples : Backed(t)'
  BY <1>1 DEF Backed
<1> QED
  BY <1>2 DEF TuplesInv

LEMMA DrillKept ==
  ASSUME DrillInv, AllKept, activation'[DrillTuple] = activation[DrillTuple], drill' = drill
  PROVE  DrillInv'
<1>1. PICK m : m = drill.manifest
  OBVIOUS
<1>2. drill.step = 3 => Ready(DrillTuple, m)'
  <2>1. SUFFICES ASSUME drill.step = 3 PROVE Ready(DrillTuple, m)'
    OBVIOUS
  <2>2. Ready(DrillTuple, m)
    BY <1>1, <2>1 DEF DrillInv
  <2>3. Keeps(m)
    BY <2>2 DEF AllKept, Ready, ManifestsOf
  <2> QED
    BY <2>2, <2>3, ReadyKept
<1>3. drill'.step = 3 => Ready(DrillTuple, drill.manifest)'
  BY <1>1, <1>2 DEF Ready, ManifestsOf, Certified, Approved
<1> QED
  BY <1>3 DEF DrillInv, DrillTypeOK, DrillPasses

(* Nothing happens to the records.                                          *)
LEMMA RecordsStill ==
  ASSUME RecordsInv, UNCHANGED recordVars
  PROVE  RecordsInv' /\ AllKept /\ Grows /\ Len(manifests') \in Nat
<1>1. manifests' = manifests /\ certs' = certs /\ gapprovals' = gapprovals
  BY DEF recordVars
<1>2. RecordsInv' /\ Len(manifests') \in Nat /\ Len(manifests) <= Len(manifests')
  BY <1>1, SMTT(30) DEF RecordsInv
<1>3. ASSUME NEW m \in DOMAIN manifests PROVE Keeps(m)
  BY <1>1 DEF Keeps, Certified, Approved
<1> QED
  BY <1>2, <1>3 DEF AllKept, Grows

-----------------------------------------------------------------------------
(* Rows are appended.                                                       *)
LEMMA AppendKeeps ==
  ASSUME NEW R, NEW rows \in Seq(R), NEW row
  PROVE  /\ Len(Append(rows, row)) = Len(rows) + 1
         /\ Append(rows, row)[Len(rows) + 1] = row
         /\ DOMAIN Append(rows, row) = DOMAIN rows \cup {Len(rows) + 1}
         /\ \A i \in DOMAIN rows : Append(rows, row)[i] = rows[i]
         /\ DOMAIN rows = 1..Len(rows) /\ Len(rows) \in Nat
BY SMTT(30)

LEMMA CertsGrow ==
  ASSUME NEW m, NEW R, certs \in Seq(R), NEW row, certs' = Append(certs, row), Certified(m)
  PROVE  Certified(m)'
<1>1. PICK i \in DOMAIN certs : certs[i].manifest = m /\ certs[i].decision = "PASSED"
  BY DEF Certified
<1>2. i \in DOMAIN certs' /\ certs'[i] = certs[i]
  BY AppendKeeps, SMTT(30)
<1> QED
  BY <1>1, <1>2 DEF Certified

LEMMA ApprovalsGrow ==
  ASSUME NEW m, NEW R, gapprovals \in Seq(R), NEW row, gapprovals' = Append(gapprovals, row),
         Approved(m)
  PROVE  Approved(m)'
<1>1. PICK i \in DOMAIN gapprovals :
        gapprovals[i].manifest = m /\ gapprovals[i].decision = "APPROVED"
  BY DEF Approved
<1>2. i \in DOMAIN gapprovals' /\ gapprovals'[i] = gapprovals[i]
  BY AppendKeeps, SMTT(30)
<1> QED
  BY <1>1, <1>2 DEF Approved

(* A manifest is added.                                                     *)
LEMMA ManifestAdded ==
  ASSUME RecordsInv, NEW row \in ManifestRow, row.version > 0, row.version <= Len(manifests) + 1,
         manifests' = Append(manifests, row)
  PROVE  /\ manifests' \in Seq(ManifestCell)
         /\ Len(manifests') = Len(manifests) + 1 /\ Len(manifests) \in Nat
         /\ manifests'[Len(manifests) + 1] = row
         /\ DOMAIN manifests' = DOMAIN manifests \cup {Len(manifests) + 1}
         /\ \A m \in DOMAIN manifests : manifests'[m] = manifests[m]
         /\ \A m \in DOMAIN manifests' : manifests'[m].version <= Len(manifests')
         /\ \A m \in DOMAIN manifests' : manifests'[m].tuple # "none" => manifests'[m].version > 0
<1>1. manifests \in Seq(ManifestCell) /\ row \in ManifestCell
  BY DEF RecordsInv, ManifestCell
<1>2. manifests' \in Seq(ManifestCell)
  BY <1>1, SMTT(30)
<1>3. /\ Len(manifests') = Len(manifests) + 1 /\ Len(manifests) \in Nat
      /\ manifests'[Len(manifests) + 1] = row
      /\ DOMAIN manifests' = DOMAIN manifests \cup {Len(manifests) + 1}
      /\ \A m \in DOMAIN manifests : manifests'[m] = manifests[m]
  BY <1>1, AppendKeeps, SMTT(30)
<1>4. ASSUME NEW m \in DOMAIN manifests'
      PROVE  /\ manifests'[m].version <= Len(manifests')
             /\ manifests'[m].tuple # "none" => manifests'[m].version > 0
  <2>1. CASE m = Len(manifests) + 1
    BY <1>3, <2>1
  <2>2. CASE m \in DOMAIN manifests
    <3>1. manifests[m] \in ManifestCell
      BY <1>1, <2>2, SMTT(30)
    <3>2. manifests[m].version \in Nat
      BY <3>1, SMTT(30) DEF ManifestCell, ManifestRow, NoManifest
    <3>3. /\ manifests[m].version <= Len(manifests)
          /\ manifests[m].tuple # "none" => manifests[m].version > 0
      BY <2>2 DEF RecordsInv
    <3> QED
      BY <1>3, <2>2, <3>2, <3>3, SMTT(30)
  <2> QED
    BY <1>3, <2>1, <2>2
<1> QED
  BY <1>2, <1>3, <1>4

LEMMA ProposalSaved ==
  ASSUME RecordsInv, NEW row \in ManifestRow, row.version > 0, row.version <= Len(manifests) + 1,
         manifests' = Append(manifests, row), UNCHANGED <<certs, gapprovals>>
  PROVE  RecordsInv' /\ AllKept /\ Grows /\ Len(manifests') \in Nat
<1>1. /\ manifests' \in Seq(ManifestCell)
      /\ Len(manifests') = Len(manifests) + 1 /\ Len(manifests) \in Nat
      /\ DOMAIN manifests' = DOMAIN manifests \cup {Len(manifests) + 1}
      /\ \A m \in DOMAIN manifests : manifests'[m] = manifests[m]
      /\ \A m \in DOMAIN manifests' : manifests'[m].version <= Len(manifests')
      /\ \A m \in DOMAIN manifests' : manifests'[m].tuple # "none" => manifests'[m].version > 0
  BY ManifestAdded
<1>2. \A i \in DOMAIN gapprovals' : gapprovals'[i].decision = "APPROVED" =>
        /\ gapprovals'[i].manifest \in DOMAIN manifests'
        /\ gapprovals'[i].by # manifests'[gapprovals'[i].manifest].proposedBy
  BY <1>1 DEF RecordsInv
<1>3. certs' \in Seq(CertRow) /\ gapprovals' \in Seq(ApprovalCell)
  BY DEF RecordsInv
<1>4. RecordsInv'
  BY <1>1, <1>2, <1>3 DEF RecordsInv
<1>5. ASSUME NEW m \in DOMAIN manifests PROVE Keeps(m)
  BY <1>1 DEF Keeps, Certified, Approved
<1>6. Len(manifests) <= Len(manifests') /\ Len(manifests') \in Nat
  BY <1>1, SMTT(30)
<1> QED
  BY <1>4, <1>5, <1>6 DEF AllKept, Grows

LEMMA CertificationSaved ==
  ASSUME RecordsInv, NEW row \in CertRow, certs' = Append(certs, row),
         UNCHANGED <<manifests, gapprovals>>
  PROVE  RecordsInv' /\ AllKept /\ Grows /\ Len(manifests') \in Nat
<1>1. certs \in Seq(CertRow) /\ certs' \in Seq(CertRow)
  BY SMTT(30) DEF RecordsInv
<1>2. RecordsInv'
  BY <1>1 DEF RecordsInv
<1>3. ASSUME NEW m \in DOMAIN manifests PROVE Keeps(m)
  <2>1. Certified(m) => Certified(m)'
    BY <1>1, CertsGrow
  <2>2. Approved(m) => Approved(m)'
    BY DEF Approved
  <2> QED
    BY <2>1, <2>2 DEF Keeps
<1>4. Len(manifests) <= Len(manifests') /\ Len(manifests') \in Nat
  BY SMTT(30) DEF RecordsInv
<1> QED
  BY <1>2, <1>3, <1>4 DEF AllKept, Grows

LEMMA ApprovalSaved ==
  ASSUME RecordsInv, NEW row \in ApprovalRow, gapprovals' = Append(gapprovals, row),
         row.decision = "APPROVED" =>
           row.manifest \in DOMAIN manifests /\ row.by # manifests[row.manifest].proposedBy,
         UNCHANGED <<manifests, certs>>
  PROVE  RecordsInv' /\ AllKept /\ Grows /\ Len(manifests') \in Nat
<1>1. gapprovals \in Seq(ApprovalCell) /\ row \in ApprovalCell
  BY DEF RecordsInv, ApprovalCell
<1>2. gapprovals' \in Seq(ApprovalCell)
  BY <1>1, SMTT(30)
<1>3. /\ gapprovals'[Len(gapprovals) + 1] = row
      /\ DOMAIN gapprovals' = DOMAIN gapprovals \cup {Len(gapprovals) + 1}
      /\ \A i \in DOMAIN gapprovals : gapprovals'[i] = gapprovals[i]
  BY <1>1, AppendKeeps, SMTT(30)
<1>4. \A i \in DOMAIN gapprovals' : gapprovals'[i].decision = "APPROVED" =>
        /\ gapprovals'[i].manifest \in DOMAIN manifests'
        /\ gapprovals'[i].by # manifests'[gapprovals'[i].manifest].proposedBy
  BY <1>3 DEF RecordsInv
<1>5. RecordsInv'
  BY <1>2, <1>4 DEF RecordsInv
<1>6. ASSUME NEW m \in DOMAIN manifests PROVE Keeps(m)
  <2>1. Certified(m) => Certified(m)'
    BY DEF Certified
  <2>2. Approved(m) => Approved(m)'
    BY <1>1, ApprovalsGrow
  <2> QED
    BY <2>1, <2>2 DEF Keeps
<1>7. Len(manifests) <= Len(manifests') /\ Len(manifests') \in Nat
  BY SMTT(30) DEF RecordsInv
<1> QED
  BY <1>5, <1>6, <1>7 DEF AllKept, Grows

LEMMA CertExpiresKept ==
  ASSUME RecordsInv, NEW i \in DOMAIN certs, CertExpires(i)
  PROVE  RecordsInv' /\ AllKept /\ Grows /\ Len(manifests') \in Nat
<1>1. certs \in Seq(CertRow) /\ certs[i] \in CertRow
  BY SMTT(30) DEF RecordsInv
<1>2. [certs[i] EXCEPT !.expired = TRUE] \in CertRow
  BY <1>1 DEF CertRow
<1>3. certs' = [certs EXCEPT ![i] = [certs[i] EXCEPT !.expired = TRUE]]
  BY DEF CertExpires
<1>4. certs' \in Seq(CertRow) /\ DOMAIN certs' = DOMAIN certs
  BY <1>1, <1>2, <1>3, SMTT(30)
<1>5. \A j \in DOMAIN certs :
        certs'[j].manifest = certs[j].manifest /\ certs'[j].decision = certs[j].decision
  BY <1>1, <1>3 DEF CertRow
<1>6. manifests' = manifests /\ gapprovals' = gapprovals
  BY DEF CertExpires
<1>7. RecordsInv' /\ Len(manifests) <= Len(manifests') /\ Len(manifests') \in Nat
  BY <1>4, <1>6, SMTT(30) DEF RecordsInv
<1>8. ASSUME NEW m \in DOMAIN manifests PROVE Keeps(m)
  BY <1>4, <1>5, <1>6 DEF Keeps, Certified, Approved
<1> QED
  BY <1>7, <1>8 DEF AllKept, Grows

LEMMA ApprovalExpiresKept ==
  ASSUME RecordsInv, NEW i \in DOMAIN gapprovals, ApprovalExpires(i)
  PROVE  RecordsInv' /\ AllKept /\ Grows /\ Len(manifests') \in Nat
<1>1. gapprovals \in Seq(ApprovalCell) /\ gapprovals[i] \in ApprovalCell
  BY SMTT(30) DEF RecordsInv
<1>0. gapprovals[i] # NoApproval
  BY SMTT(30) DEF ApprovalExpires, NoApproval
<1>2. [gapprovals[i] EXCEPT !.expired = TRUE] \in ApprovalCell
  BY <1>0, <1>1 DEF ApprovalRow, ApprovalCell
<1>3. gapprovals' = [gapprovals EXCEPT ![i] = [gapprovals[i] EXCEPT !.expired = TRUE]]
  BY DEF ApprovalExpires
<1>4. gapprovals' \in Seq(ApprovalCell) /\ DOMAIN gapprovals' = DOMAIN gapprovals
  BY <1>1, <1>2, <1>3, SMTT(30)
<1>5. \A j \in DOMAIN gapprovals :
        /\ gapprovals'[j].manifest = gapprovals[j].manifest
        /\ gapprovals'[j].decision = gapprovals[j].decision
        /\ gapprovals'[j].by = gapprovals[j].by
  BY <1>0, <1>1, <1>3 DEF ApprovalRow, ApprovalCell
<1>6. manifests' = manifests /\ certs' = certs
  BY DEF ApprovalExpires
<1>7. RecordsInv' /\ Len(manifests) <= Len(manifests') /\ Len(manifests') \in Nat
  BY <1>4, <1>5, <1>6, SMTT(30) DEF RecordsInv
<1>8. ASSUME NEW m \in DOMAIN manifests PROVE Keeps(m)
  BY <1>4, <1>5, <1>6 DEF Keeps, Certified, Approved
<1> QED
  BY <1>7, <1>8 DEF AllKept, Grows

(* The drill's manifest is added with both of its decisions.                *)
LEMMA DrillPromotesKept ==
  ASSUME RecordsInv, DrillPromotes, NEW m, m = Len(manifests) + 1
  PROVE  /\ RecordsInv' /\ AllKept /\ Grows /\ Len(manifests') \in Nat
         /\ m \in Nat /\ Ready(DrillTuple, m)'
<1> DEFINE row == [tuple |-> DrillTuple, version |-> LatestVersion(DrillTuple) + 1,
                   proposedBy |-> "drill-operator"]
           cert == [manifest |-> m, decision |-> "PASSED", expired |-> FALSE]
           ok == [manifest |-> m, by |-> "drill-approver", decision |-> "APPROVED",
                  expired |-> FALSE]
<1>1. /\ manifests' = Append(manifests, row) /\ certs' = Append(certs, cert)
      /\ gapprovals' = Append(gapprovals, ok)
  BY DEF DrillPromotes
<1>2. Len(manifests) \in Nat /\ m \in Nat
  BY SMTT(30) DEF RecordsInv
<1>3. LatestVersion(DrillTuple) \in Nat /\ LatestVersion(DrillTuple) <= Len(manifests)
  BY VersionsCount DEF AllTuples
<1>4. row \in ManifestRow /\ row.version > 0 /\ row.version <= Len(manifests) + 1
  BY <1>2, <1>3, SMTT(30) DEF ManifestRow, AllTuples
<1>5. cert \in CertRow /\ ok \in ApprovalCell
  BY <1>2 DEF CertRow, CertDecisions, ApprovalCell, ApprovalRow, ApprovalDecisions
<1>6. /\ manifests' \in Seq(ManifestCell)
      /\ Len(manifests') = Len(manifests) + 1
      /\ manifests'[m] = row
      /\ DOMAIN manifests' = DOMAIN manifests \cup {m}
      /\ \A n \in DOMAIN manifests : manifests'[n] = manifests[n]
      /\ \A n \in DOMAIN manifests' : manifests'[n].version <= Len(manifests')
      /\ \A n \in DOMAIN manifests' : manifests'[n].tuple # "none" => manifests'[n].version > 0
  BY <1>1, <1>4, ManifestAdded
<1> HIDE DEF row, cert, ok
<1>7. certs \in Seq(CertRow) /\ gapprovals \in Seq(ApprovalCell)
  BY DEF RecordsInv
<1>8. certs' \in Seq(CertRow) /\ gapprovals' \in Seq(ApprovalCell)
  BY <1>1, <1>5, <1>7, SMTT(30)
<1>9. /\ gapprovals'[Len(gapprovals) + 1] = ok
      /\ DOMAIN gapprovals' = DOMAIN gapprovals \cup {Len(gapprovals) + 1}
      /\ \A i \in DOMAIN gapprovals : gapprovals'[i] = gapprovals[i]
  BY <1>1, <1>7, AppendKeeps, SMTT(30)
<1>10. certs'[Len(certs) + 1] = cert /\ Len(certs) + 1 \in DOMAIN certs'
  BY <1>1, <1>7, AppendKeeps, SMTT(30)
<1>11. ok.manifest = m /\ ok.decision = "APPROVED" /\ ok.by # row.proposedBy
  BY DEF ok, row
<1>12. \A i \in DOMAIN gapprovals' : gapprovals'[i].decision = "APPROVED" =>
         /\ gapprovals'[i].manifest \in DOMAIN manifests'
         /\ gapprovals'[i].by # manifests'[gapprovals'[i].manifest].proposedBy
  BY <1>6, <1>9, <1>11, SMTT(30) DEF RecordsInv
<1>13. RecordsInv'
  BY <1>6, <1>8, <1>12 DEF RecordsInv
<1>14. ASSUME NEW n \in DOMAIN manifests PROVE Keeps(n)
  <2>1. Certified(n) => Certified(n)'
    BY <1>1, <1>7, CertsGrow
  <2>2. Approved(n) => Approved(n)'
    BY <1>1, <1>7, ApprovalsGrow
  <2> QED
    BY <1>6, <2>1, <2>2 DEF Keeps
<1>16. m \in ManifestsOf(DrillTuple)'
  BY <1>6, SMTT(30) DEF ManifestsOf, row
<1>17. Certified(m)'
  BY <1>10, SMTT(30) DEF Certified, cert
<1>18. Approved(m)'
  BY <1>9, <1>11 DEF Approved
<1>19. Ready(DrillTuple, m)'
  BY <1>16, <1>17, <1>18 DEF Ready
<1>21. Len(manifests) <= Len(manifests') /\ Len(manifests') \in Nat
  BY <1>2, <1>6, SMTT(30)
<1> QED
  BY <1>2, <1>13, <1>14, <1>19, <1>21 DEF AllKept, Grows

(* The clean-up removes the drill's rows and no other.                      *)
LEMMA DrillCleansUpKept ==
  ASSUME RecordsInv, DrillCleansUp
  PROVE  RecordsInv' /\ Grows /\ Len(manifests') \in Nat
<1> DEFINE mine == ManifestsOf(DrillTuple)
<1>1. /\ manifests' = [m \in DOMAIN manifests |-> IF m \in mine THEN NoManifest ELSE manifests[m]]
      /\ certs' = [i \in DOMAIN certs |-> IF certs[i].manifest \in mine THEN NoCert ELSE certs[i]]
      /\ gapprovals' = [i \in DOMAIN gapprovals |->
           IF gapprovals[i].manifest \in mine THEN NoApproval ELSE gapprovals[i]]
  BY DEF DrillCleansUp, CleansUp
<1>2. mine \subseteq DOMAIN manifests
  BY DEF ManifestsOf
<1> HIDE DEF mine
<1>3. /\ manifests \in Seq(ManifestCell) /\ Len(manifests) \in Nat
      /\ DOMAIN manifests = 1..Len(manifests)
      /\ \A m \in DOMAIN manifests : manifests[m] \in ManifestCell
  BY SMTT(30) DEF RecordsInv
<1>4. manifests' \in [1..Len(manifests) -> ManifestCell]
  BY <1>1, <1>3 DEF ManifestCell
<1>5. manifests' \in Seq(ManifestCell) /\ Len(manifests') = Len(manifests)
  BY <1>3, <1>4, SMTT(30)
<1>6. /\ certs \in Seq(CertRow) /\ Len(certs) \in Nat /\ DOMAIN certs = 1..Len(certs)
      /\ \A i \in DOMAIN certs : certs[i] \in CertRow
  BY SMTT(30) DEF RecordsInv
<1>7. NoCert \in CertRow
  BY DEF NoCert, CertRow, CertDecisions
<1>8. certs' \in [1..Len(certs) -> CertRow]
  BY <1>1, <1>6, <1>7
<1>9. certs' \in Seq(CertRow)
  BY <1>6, <1>8, SMTT(30)
<1>10. /\ gapprovals \in Seq(ApprovalCell) /\ Len(gapprovals) \in Nat
       /\ DOMAIN gapprovals = 1..Len(gapprovals)
       /\ \A i \in DOMAIN gapprovals : gapprovals[i] \in ApprovalCell
  BY SMTT(30) DEF RecordsInv
<1>11. gapprovals' \in [1..Len(gapprovals) -> ApprovalCell]
  BY <1>1, <1>10 DEF ApprovalCell
<1>12. gapprovals' \in Seq(ApprovalCell)
  BY <1>10, <1>11, SMTT(30)
<1>13. ASSUME NEW m \in DOMAIN manifests'
       PROVE  /\ manifests'[m].version <= Len(manifests')
              /\ manifests'[m].tuple # "none" => manifests'[m].version > 0
  <2>1. CASE m \in mine
    <3>1. manifests'[m] = NoManifest
      BY <1>1, <1>2, <2>1
    <3> QED
      BY <1>3, <1>5, <3>1, SMTT(30) DEF NoManifest
  <2>2. CASE m \notin mine
    BY <1>1, <1>5, <2>2 DEF RecordsInv
  <2> QED
    BY <2>1, <2>2
<1>14. ASSUME NEW i \in DOMAIN gapprovals', gapprovals'[i].decision = "APPROVED"
       PROVE  /\ gapprovals'[i].manifest \in DOMAIN manifests'
              /\ gapprovals'[i].by # manifests'[gapprovals'[i].manifest].proposedBy
  <2>1. i \in DOMAIN gapprovals
    BY <1>1
  <2>2. gapprovals[i].manifest \notin mine /\ gapprovals'[i] = gapprovals[i]
    BY <1>1, <1>14, <2>1 DEF NoApproval
  <2>3. /\ gapprovals[i].manifest \in DOMAIN manifests
        /\ gapprovals[i].by # manifests[gapprovals[i].manifest].proposedBy
    BY <1>14, <2>1, <2>2 DEF RecordsInv
  <2>4. manifests'[gapprovals[i].manifest] = manifests[gapprovals[i].manifest]
    BY <1>1, <2>2, <2>3
  <2> QED
    BY <1>1, <2>2, <2>3, <2>4
<1>15. RecordsInv'
  BY <1>5, <1>9, <1>12, <1>13, <1>14 DEF RecordsInv
<1>16. ASSUME NEW m \in DOMAIN manifests, manifests[m].tuple # DrillTuple PROVE Keeps(m)
  <2>1. m \notin mine
    BY <1>16 DEF mine, ManifestsOf
  <2>2. m \in DOMAIN manifests' /\ manifests'[m] = manifests[m]
    BY <1>1, <2>1
  <2>3. Certified(m) => Certified(m)'
    BY <1>1, <2>1 DEF Certified
  <2>4. Approved(m) => Approved(m)'
    BY <1>1, <2>1 DEF Approved
  <2> QED
    BY <2>2, <2>3, <2>4 DEF Keeps
<1> QED
  BY <1>3, <1>5, <1>15, <1>16, SMTT(30) DEF Grows

-----------------------------------------------------------------------------
(* Steps of a call that leave the tuples and the drill alone.               *)
LEMMA CallOnly ==
  ASSUME PromotionInv, RecordsInv', AllKept, Grows, Len(manifests') \in Nat,
         activation' = activation, gstatus' = gstatus, drill' = drill, CallsInv'
  PROVE  PromotionInv'
<1>1. TuplesInv'
  BY TuplesKept DEF PromotionInv
<1>2. DrillInv'
  BY DrillKept DEF PromotionInv
<1> QED
  BY <1>1, <1>2 DEF PromotionInv

LEMMA AuditOK ==
  ASSUME NEW e
  PROVE  CallOK([op |-> "audit", entry |-> e])'
BY DEF CallOK

LEMMA RecordKept ==
  ASSUME PromotionInv, NEW c \in Calls, RecordPromotion(c) \/ PromotionDies(c)
  PROVE  PromotionInv'
<1>1. RecordsInv' /\ AllKept /\ Grows /\ Len(manifests') \in Nat
  BY RecordsStill DEF PromotionInv, RecordPromotion, PromotionDies
<1>2. CallOK(NoCall)'
  BY DEF CallOK
<1>3. gcall' = [gcall EXCEPT ![c] = NoCall]
  BY DEF RecordPromotion, PromotionDies
<1>4. CallsInv'
  BY <1>1, <1>2, <1>3, CallStep DEF PromotionInv
<1> QED
  BY <1>1, <1>4, CallOnly DEF RecordPromotion, PromotionDies

LEMMA ProposeReadKept ==
  ASSUME PromotionInv, NEW c \in Calls, NEW t \in Tuples, NEW a \in Admins, NEW class,
         ProposeRead(c, t, a, class)
  PROVE  PromotionInv'
<1>1. RecordsInv' /\ AllKept /\ Grows /\ Len(manifests') \in Nat
  BY RecordsStill DEF PromotionInv, ProposeRead
<1>2. PICK v : v = LatestVersion(t) + 1
  OBVIOUS
<1>3. v \in Nat /\ v > 0 /\ v <= Len(manifests) + 1
  <2>1. LatestVersion(t) \in Nat /\ LatestVersion(t) <= Len(manifests) /\ Len(manifests) \in Nat
    BY VersionsCount, SMTT(30) DEF PromotionInv, AllTuples, RecordsInv
  <2> QED
    BY <1>2, <2>1, SMTT(30)
<1> DEFINE k == [op |-> "propose", row |-> [tuple |-> t, version |-> v, proposedBy |-> a]]
<1>4. manifests' = manifests
  BY DEF ProposeRead, recordVars
<1>5. k.row \in ManifestRow
  BY <1>3 DEF ManifestRow, AllTuples
<1>6. CallOK(k)'
  BY <1>3, <1>4, <1>5 DEF CallOK
<1>7. gcall' = [gcall EXCEPT ![c] = k]
  BY <1>2 DEF ProposeRead
<1>8. CallsInv'
  BY <1>1, <1>6, <1>7, CallStep DEF PromotionInv
<1> QED
  BY <1>1, <1>8, CallOnly DEF ProposeRead

LEMMA ProposeSaveKept ==
  ASSUME PromotionInv, NEW c \in Calls, ProposeSave(c)
  PROVE  PromotionInv'
<1>1. PICK row : row = gcall[c].row
  OBVIOUS
<1>2. CallOK(gcall[c]) /\ gcall[c].op = "propose"
  BY DEF PromotionInv, CallsInv, ProposeSave
<1>3. row \in ManifestRow /\ row.version > 0 /\ row.version <= Len(manifests) + 1
  BY <1>1, <1>2, SMTT(30) DEF CallOK, NoCall
<1>4. RecordsInv' /\ AllKept /\ Grows /\ Len(manifests') \in Nat
  BY <1>1, <1>3, ProposalSaved DEF PromotionInv, ProposeSave
<1>5. PICK e : e = <<"PROPOSED", Len(manifests) + 1>>
  OBVIOUS
<1>6. gcall' = [gcall EXCEPT ![c] = [op |-> "audit", entry |-> e]]
  BY <1>5 DEF ProposeSave, ToAudit
<1>7. CallsInv'
  BY <1>4, <1>6, AuditOK, CallStep DEF PromotionInv
<1> QED
  BY <1>4, <1>7, CallOnly DEF ProposeSave

LEMMA CertifyKept ==
  ASSUME PromotionInv, NEW c \in Calls, NEW m \in Governed, NEW d \in CertInputs, Certify(c, m, d)
  PROVE  PromotionInv'
<1>1. m \in Nat
  BY SMTT(30) DEF Governed, PromotionInv, RecordsInv
<1>2. [manifest |-> m, decision |-> d, expired |-> FALSE] \in CertRow
  BY <1>1, PromotionAssumption DEF CertRow
<1>3. RecordsInv' /\ AllKept /\ Grows /\ Len(manifests') \in Nat
  BY <1>2, CertificationSaved DEF PromotionInv, Certify
<1>4. gcall' = [gcall EXCEPT ![c] = [op |-> "audit", entry |-> <<"CERTIFIED", m>>]]
  BY DEF Certify, ToAudit
<1>5. CallsInv'
  BY <1>3, <1>4, AuditOK, CallStep DEF PromotionInv
<1> QED
  BY <1>3, <1>5, CallOnly DEF Certify

LEMMA ApproveKept ==
  ASSUME PromotionInv, NEW c \in Calls, NEW m \in Governed, NEW a \in Admins,
         NEW d \in ApprovalInputs, Approve(c, m, a, d)
  PROVE  PromotionInv'
<1>1. m \in Nat /\ m \in DOMAIN manifests
  BY SMTT(30) DEF Governed, PromotionInv, RecordsInv
<1> DEFINE row == [manifest |-> m, by |-> a, decision |-> d, expired |-> FALSE]
<1>2. row \in ApprovalRow
  BY <1>1, PromotionAssumption DEF ApprovalRow
<1>3. row.decision = "APPROVED" =>
        row.manifest \in DOMAIN manifests /\ row.by # manifests[row.manifest].proposedBy
  BY <1>1 DEF Approve, MayDecide
<1>4. RecordsInv' /\ AllKept /\ Grows /\ Len(manifests') \in Nat
  BY <1>2, <1>3, ApprovalSaved DEF PromotionInv, Approve
<1>5. gcall' = [gcall EXCEPT ![c] = [op |-> "audit", entry |-> <<"APPROVAL_RECORDED", m>>]]
  BY DEF Approve, ToAudit
<1>6. CallsInv'
  BY <1>4, <1>5, AuditOK, CallStep DEF PromotionInv
<1> QED
  BY <1>4, <1>6, CallOnly DEF Approve

LEMMA ExpiryKept ==
  ASSUME PromotionInv,
         \/ \E i \in DOMAIN certs : CertExpires(i)
         \/ \E i \in DOMAIN gapprovals : ApprovalExpires(i)
  PROVE  PromotionInv'
<1>1. RecordsInv' /\ AllKept /\ Grows /\ Len(manifests') \in Nat
  BY CertExpiresKept, ApprovalExpiresKept DEF PromotionInv
<1>2. UNCHANGED <<activation, gstatus, gcall, drill>>
  BY DEF CertExpires, ApprovalExpires
<1>3. CallsInv'
  BY <1>1, <1>2, CallsKept DEF PromotionInv
<1> QED
  BY <1>1, <1>2, <1>3, CallOnly

-----------------------------------------------------------------------------
LEMMA ActivateReadKept ==
  ASSUME PromotionInv, NEW c \in Calls, NEW m \in Governed, NEW v, ActivateRead(c, m, v)
  PROVE  PromotionInv'
<1>1. RecordsInv' /\ AllKept /\ Grows /\ Len(manifests') \in Nat
  BY RecordsStill DEF PromotionInv, ActivateRead
<1>2. PICK t, had : t = manifests[m].tuple /\ had = (activation[t].version > 0)
  OBVIOUS
<1>3. certs \in Seq(CertRow) /\ gapprovals \in Seq(ApprovalCell)
  BY DEF PromotionInv, RecordsInv
<1>4. LatestIs(certs, m, "PASSED") /\ LatestIs(gapprovals, m, "APPROVED")
  BY DEF ActivateRead, Gates
<1>5. Certified(m)
  BY <1>3, <1>4, LatestIsSome, SMTT(30) DEF Certified
<1>6. Approved(m)
  BY <1>3, <1>4, LatestIsSome, SMTT(30) DEF Approved
<1>7. t \in Tuples /\ Ready(t, m) /\ m \in DOMAIN manifests
  BY <1>2, <1>5, <1>6 DEF Governed, Ready, ManifestsOf
<1>8. Ready(t, m)'
  BY <1>1, <1>7, ReadyKept DEF AllKept
<1> DEFINE k == [op |-> "activate", tuple |-> t, manifest |-> m, had |-> had, expected |-> v]
<1>9. CallOK(k)'
  BY <1>7, <1>8 DEF CallOK
<1>10. gcall' = [gcall EXCEPT ![c] = k]
  BY <1>2 DEF ActivateRead
<1>11. CallsInv'
  BY <1>1, <1>9, <1>10, CallStep DEF PromotionInv
<1> QED
  BY <1>1, <1>11, CallOnly DEF ActivateRead

(* One tuple's activation is written.                                       *)
LEMMA TupleStep ==
  ASSUME PromotionInv, UNCHANGED <<manifests, certs, gapprovals, gstatus>>, NEW t \in AllTuples,
         NEW row \in ActivationRow, activation' = [activation EXCEPT ![t] = row],
         row.version > 0 =>
           Ready(t, row.manifest) /\ row.version = manifests[row.manifest].version
  PROVE  TuplesInv'
<1>1. activation \in [AllTuples -> ActivationRow]
  BY DEF PromotionInv, TuplesInv
<1>2. activation' \in [AllTuples -> ActivationRow]
  BY <1>1
<1>3. activation'[t] = row /\ \A u \in AllTuples \ {t} : activation'[u] = activation[u]
  BY <1>1
<1>4. ASSUME NEW u \in AllTuples PROVE Backed(u)'
  BY <1>3, SMTT(30) DEF Backed, Ready, ManifestsOf, Certified, Approved, PromotionInv, TuplesInv
<1> QED
  BY <1>2, <1>4 DEF PromotionInv, TuplesInv

LEMMA ActivateSaveKept ==
  ASSUME PromotionInv, NEW c \in Calls, ActivateSave(c)
  PROVE  PromotionInv'
<1>1. RecordsInv' /\ AllKept /\ Grows /\ Len(manifests') \in Nat
  BY RecordsStill DEF PromotionInv, ActivateSave
<1>2. PICK t, m : t = gcall[c].tuple /\ m = gcall[c].manifest
  OBVIOUS
<1>3. CallOK(gcall[c]) /\ gcall[c].op = "activate"
  BY DEF PromotionInv, CallsInv, ActivateSave
<1>4. t \in Tuples /\ Ready(t, m)
  BY <1>2, <1>3, SMTT(30) DEF CallOK, NoCall
<1>5. CASE ~gcall[c].had /\ activation[t].version > 0
  <2>1. activation' = activation /\ gcall' = [gcall EXCEPT ![c] = NoCall]
    BY <1>2, <1>5 DEF ActivateSave
  <2>2. CallOK(NoCall)'
    BY DEF CallOK
  <2>3. CallsInv'
    BY <1>1, <2>1, <2>2, CallStep DEF PromotionInv
  <2> QED
    BY <1>1, <2>1, <2>3, CallOnly DEF ActivateSave
<1>6. CASE ~(~gcall[c].had /\ activation[t].version > 0)
  <2>1. PICK row : row = [manifest |-> m, version |-> manifests[m].version, state |-> "ACTIVE"]
    OBVIOUS
  <2>2. activation' = [activation EXCEPT ![t] = row]
    BY <1>2, <1>6, <2>1 DEF ActivateSave
  <2>3. gcall' = [gcall EXCEPT ![c] = [op |-> "audit", entry |-> <<"ACTIVATED", t>>]]
    BY <1>2, <1>6 DEF ActivateSave, ToAudit
  <2>4. m \in DOMAIN manifests /\ m \in Nat /\ manifests[m] \in ManifestCell
    BY <1>4, SMTT(30) DEF Ready, ManifestsOf, PromotionInv, RecordsInv
  <2>5. manifests[m].version \in Nat
    BY <2>4, SMTT(30) DEF ManifestCell, ManifestRow, NoManifest
  <2>6. row \in ActivationRow
    BY <2>1, <2>4, <2>5 DEF ActivationRow
  <2>7. UNCHANGED <<manifests, certs, gapprovals, gstatus, drill>>
    BY DEF ActivateSave, recordVars
  <2>8. t \in AllTuples /\ t # DrillTuple
    BY <1>4, PromotionAssumption DEF AllTuples
  <2>9. row.manifest = m /\ row.version = manifests[m].version
    BY <2>1
  <2>10. TuplesInv'
    BY <1>4, <2>2, <2>6, <2>7, <2>8, <2>9, TupleStep
  <2>11. activation'[DrillTuple] = activation[DrillTuple]
    BY <2>2, <2>8, SMTT(30)
  <2>12. DrillInv'
    BY <1>1, <2>7, <2>11, DrillKept DEF PromotionInv
  <2>13. CallsInv'
    BY <1>1, <2>3, AuditOK, CallStep DEF PromotionInv
  <2> QED
    BY <1>1, <2>10, <2>12, <2>13 DEF PromotionInv
<1> QED
  BY <1>5, <1>6

(* Switching a tuple off keeps what it was activated with.                  *)
LEMMA OffIsBacked ==
  ASSUME PromotionInv, NEW t \in AllTuples,
         NEW row, row = [activation[t] EXCEPT !.state = "DEACTIVATED"]
  PROVE  /\ row \in ActivationRow /\ row.state = "DEACTIVATED"
         /\ row.version > 0 =>
              Ready(t, row.manifest) /\ row.version = manifests[row.manifest].version
<1>1. activation[t] \in ActivationRow /\ Backed(t)
  BY DEF PromotionInv, TuplesInv
<1>2. /\ row \in ActivationRow /\ row.state = "DEACTIVATED"
      /\ row.version = activation[t].version /\ row.manifest = activation[t].manifest
  BY <1>1 DEF ActivationRow
<1> QED
  BY <1>1, <1>2 DEF Backed

LEMMA DeactivateKept ==
  ASSUME PromotionInv, NEW c \in Calls, NEW t \in Tuples, Deactivate(c, t)
  PROVE  PromotionInv'
<1>1. RecordsInv' /\ AllKept /\ Grows /\ Len(manifests') \in Nat
  BY RecordsStill DEF PromotionInv, Deactivate
<1>2. t \in AllTuples /\ t # DrillTuple
  BY PromotionAssumption DEF AllTuples
<1>3. PICK row : row = [activation[t] EXCEPT !.state = "DEACTIVATED"]
  OBVIOUS
<1>4. activation' = [activation EXCEPT ![t] = row]
  BY <1>3 DEF Deactivate
<1>5. UNCHANGED <<manifests, certs, gapprovals, gstatus, drill>>
  BY DEF Deactivate, recordVars
<1>6. TuplesInv'
  BY <1>2, <1>3, <1>4, <1>5, OffIsBacked, TupleStep
<1>7. activation'[DrillTuple] = activation[DrillTuple]
  BY <1>2, <1>4, SMTT(30)
<1>8. DrillInv'
  BY <1>1, <1>5, <1>7, DrillKept DEF PromotionInv
<1>9. gcall' = [gcall EXCEPT ![c] = [op |-> "audit", entry |-> <<"DEACTIVATED", t>>]]
  BY DEF Deactivate, ToAudit
<1>10. CallsInv'
  BY <1>1, <1>9, AuditOK, CallStep DEF PromotionInv
<1> QED
  BY <1>1, <1>6, <1>8, <1>10 DEF PromotionInv

LEMMA StatusReadKept ==
  ASSUME PromotionInv, NEW c \in Calls, NEW t \in Tuples, NEW state \in {"ACTIVE", "DISABLED"},
         StatusRead(c, t, state)
  PROVE  PromotionInv'
<1>1. RecordsInv' /\ AllKept /\ Grows /\ Len(manifests') \in Nat
  BY RecordsStill DEF PromotionInv, StatusRead
<1>2. PICK had : had = (gstatus[t] # "none")
  OBVIOUS
<1> DEFINE k == [op |-> "status", tuple |-> t, state |-> state, had |-> had]
<1>3. gcall' = [gcall EXCEPT ![c] = k]
  BY <1>2 DEF StatusRead
<1>4. CallOK(k)'
  BY DEF CallOK
<1>5. CallsInv'
  BY <1>1, <1>3, <1>4, CallStep DEF PromotionInv
<1> QED
  BY <1>1, <1>5, CallOnly DEF StatusRead

LEMMA StatusSaveKept ==
  ASSUME PromotionInv, NEW c \in Calls, StatusSave(c)
  PROVE  PromotionInv'
<1>1. RecordsInv' /\ AllKept /\ Grows /\ Len(manifests') \in Nat
  BY RecordsStill DEF PromotionInv, StatusSave
<1>2. CallOK(gcall[c]) /\ gcall[c].op = "status"
  BY DEF PromotionInv, CallsInv, StatusSave
<1>3. gcall[c].tuple \in Tuples /\ gcall[c].state \in {"ACTIVE", "DISABLED"}
  BY <1>2, SMTT(30) DEF CallOK, NoCall
<1>4. gcall[c].tuple \in AllTuples /\ gcall[c].tuple # DrillTuple
  BY <1>3, PromotionAssumption DEF AllTuples
<1>5. /\ gstatus' \in [AllTuples -> {"none", "ACTIVE", "DISABLED"}]
      /\ gstatus'[DrillTuple] = "none"
  BY <1>3, <1>4, SMTT(30) DEF StatusSave, PromotionInv, TuplesInv
<1>6. UNCHANGED <<manifests, certs, gapprovals, activation, drill>>
  BY DEF StatusSave, recordVars
<1>7. TuplesInv'
  BY <1>5, <1>6, SMTT(30) DEF PromotionInv, TuplesInv, Backed, Ready, ManifestsOf, Certified, Approved
<1>8. DrillInv'
  BY <1>1, <1>6, DrillKept DEF PromotionInv
<1>9. CallOK(NoCall)' /\ gcall' = [gcall EXCEPT ![c] = NoCall]
  BY DEF CallOK, StatusSave
<1>10. CallsInv'
  BY <1>1, <1>9, CallStep DEF PromotionInv
<1> QED
  BY <1>1, <1>7, <1>8, <1>10 DEF PromotionInv

-----------------------------------------------------------------------------
(* Steps of the drill that leave the tables alone.                          *)
LEMMA DrillOnly ==
  ASSUME PromotionInv, UNCHANGED <<recordVars, activation, gstatus, gcall>>, DrillInv'
  PROVE  PromotionInv'
<1>1. RecordsInv' /\ AllKept /\ Grows /\ Len(manifests') \in Nat
  BY RecordsStill DEF PromotionInv
<1>2. CallsInv'
  BY <1>1, CallsKept DEF PromotionInv
<1>3. TuplesInv'
  BY <1>1, TuplesKept DEF PromotionInv
<1> QED
  BY <1>1, <1>2, <1>3 DEF PromotionInv

LEMMA StartKept ==
  ASSUME PromotionInv, StartDrill \/ DrillDies
  PROVE  PromotionInv'
<1>1. UNCHANGED <<recordVars, activation, gstatus, gcall>>
  BY DEF StartDrill, DrillDies
<1>3. CASE StartDrill
  <2>0. DrillTypeOK'
    BY <1>3, SMTT(30) DEF StartDrill, PromotionInv, DrillInv, DrillTypeOK
  <2>1. drill'.step = 1 /\ drill'.ok /\ drill'.died = drill.died /\ drill.step = 0
    BY <1>3, SMTT(30) DEF StartDrill, PromotionInv, DrillInv
  <2>2. DrillInv'
    BY <1>1, <2>0, <2>1, SMTT(30) DEF PromotionInv, DrillInv, DrillPasses
  <2> QED
    BY <1>1, <2>2, DrillOnly
<1>4. CASE DrillDies
  <2>0. DrillTypeOK'
    BY <1>4, SMTT(30) DEF DrillDies, PromotionInv, DrillInv, DrillTypeOK
  <2>1. drill'.step = 0 /\ drill'.died
    BY <1>4, SMTT(30) DEF DrillDies, PromotionInv, DrillInv
  <2>2. DrillInv'
    BY <2>0, <2>1, SMTT(30) DEF DrillInv, DrillPasses
  <2> QED
    BY <1>1, <2>2, DrillOnly
<1> QED
  BY <1>3, <1>4

LEMMA ExpectKept ==
  ASSUME PromotionInv,
         ExpectDispatch(1, FALSE) \/ ExpectDispatch(4, TRUE) \/ ExpectDispatch(6, FALSE)
  PROVE  PromotionInv'
<1>1. UNCHANGED <<recordVars, activation, gstatus, gcall>>
  BY DEF ExpectDispatch
<1>2. DrillTypeOK
  BY DEF PromotionInv, DrillInv
<1>3. gstatus[DrillTuple] = "none"
  BY DEF PromotionInv, TuplesInv
<1>4. CASE ExpectDispatch(1, FALSE)
  <2>1. /\ drill' = [drill EXCEPT !.step = 2, !.ok = @ /\ (Dispatches(DrillTuple) <=> FALSE)]
        /\ drill.step = 1
    BY <1>4, SMTT(30) DEF ExpectDispatch
  <2>2. ~drill.died => ~Dispatches(DrillTuple)
    BY <2>1, SMTT(30) DEF PromotionInv, DrillInv, NoActivation, Dispatches, IsActivated
  <2>3. ~drill.died => drill.ok
    BY <2>1, SMTT(30) DEF PromotionInv, DrillInv, DrillPasses
  <2>4. DrillTypeOK'
    BY <1>2, <2>1, SMTT(30) DEF DrillTypeOK
  <2>5. drill'.step = 2 /\ drill'.died = drill.died /\ (~drill.died => drill'.ok)
    BY <1>2, <2>1, <2>2, <2>3 DEF DrillTypeOK
  <2>6. DrillInv'
    BY <1>1, <2>1, <2>4, <2>5, SMTT(30) DEF PromotionInv, DrillInv, DrillPasses
  <2> QED
    BY <1>1, <2>6, DrillOnly
<1>5. CASE ExpectDispatch(4, TRUE)
  <2>1. /\ drill' = [drill EXCEPT !.step = 5, !.ok = @ /\ (Dispatches(DrillTuple) <=> TRUE)]
        /\ drill.step = 4
    BY <1>5, SMTT(30) DEF ExpectDispatch
  <2>2. ~drill.died => Dispatches(DrillTuple)
    BY <1>3, <2>1 DEF PromotionInv, DrillInv, Dispatches, IsActivated, IsActive
  <2>3. ~drill.died => drill.ok
    BY <2>1, SMTT(30) DEF PromotionInv, DrillInv, DrillPasses
  <2>4. DrillTypeOK'
    BY <1>2, <2>1, SMTT(30) DEF DrillTypeOK
  <2>5. drill'.step = 5 /\ drill'.died = drill.died /\ (~drill.died => drill'.ok)
    BY <1>2, <2>1, <2>2, <2>3 DEF DrillTypeOK
  <2>6. DrillInv'
    BY <1>1, <2>1, <2>4, <2>5, SMTT(30) DEF PromotionInv, DrillInv, DrillPasses
  <2> QED
    BY <1>1, <2>6, DrillOnly
<1>6. CASE ExpectDispatch(6, FALSE)
  <2>1. /\ drill' = [drill EXCEPT !.step = 7, !.ok = @ /\ (Dispatches(DrillTuple) <=> FALSE)]
        /\ drill.step = 6
    BY <1>6, SMTT(30) DEF ExpectDispatch
  <2>2. ~drill.died => ~Dispatches(DrillTuple)
    BY <2>1 DEF PromotionInv, DrillInv, Dispatches, IsActivated
  <2>3. ~drill.died => drill.ok
    BY <2>1, SMTT(30) DEF PromotionInv, DrillInv, DrillPasses
  <2>4. DrillTypeOK'
    BY <1>2, <2>1, SMTT(30) DEF DrillTypeOK
  <2>5. drill'.step = 7 /\ drill'.died = drill.died /\ (~drill.died => drill'.ok)
    BY <1>2, <2>1, <2>2, <2>3 DEF DrillTypeOK
  <2>6. DrillInv'
    BY <1>1, <2>1, <2>4, <2>5, SMTT(30) DEF PromotionInv, DrillInv, DrillPasses
  <2> QED
    BY <1>1, <2>6, DrillOnly
<1> QED
  BY <1>4, <1>5, <1>6

LEMMA PromotesKept ==
  ASSUME PromotionInv, DrillPromotes
  PROVE  PromotionInv'
<1>1. PICK m : m = Len(manifests) + 1
  OBVIOUS
<1>2. /\ RecordsInv' /\ AllKept /\ Grows /\ Len(manifests') \in Nat
      /\ m \in Nat /\ Ready(DrillTuple, m)'
  BY <1>1, DrillPromotesKept DEF PromotionInv
<1>3. UNCHANGED <<activation, gstatus, gcall>> /\ drill.step = 2
  BY DEF DrillPromotes
<1>4. CallsInv'
  BY <1>2, <1>3, CallsKept DEF PromotionInv
<1>5. TuplesInv'
  BY <1>2, <1>3, TuplesKept DEF PromotionInv
<1>6. drill' = [drill EXCEPT !.step = 3, !.manifest = m]
  BY <1>1 DEF DrillPromotes
<1>7. /\ DrillTypeOK'
      /\ drill'.step = 3 /\ drill'.manifest = m /\ drill'.ok = drill.ok /\ drill'.died = drill.died
  BY <1>2, <1>6, SMTT(30) DEF PromotionInv, DrillInv, DrillTypeOK
<1>8. Ready(DrillTuple, drill.manifest)'
  BY <1>2, <1>7 DEF Ready, ManifestsOf, Certified, Approved
<1>9. DrillInv'
  BY <1>3, <1>7, <1>8, SMTT(30) DEF PromotionInv, DrillInv, DrillPasses
<1> QED
  BY <1>2, <1>4, <1>5, <1>9 DEF PromotionInv

LEMMA ActivatesKept ==
  ASSUME PromotionInv, DrillActivates
  PROVE  PromotionInv'
<1>1. UNCHANGED <<recordVars, gstatus, gcall>> /\ drill.step = 3
  BY DEF DrillActivates
<1>2. DrillTypeOK
  BY DEF PromotionInv, DrillInv
<1>3. CASE activation[DrillTuple].version # 0
  <2>1. drill' = [drill EXCEPT !.step = 7, !.ok = FALSE] /\ activation' = activation
    BY <1>3 DEF DrillActivates
  <2>2. drill.died
    BY <1>1, <1>2, <1>3, SMTT(30) DEF PromotionInv, DrillInv, NoActivation
  <2>3. /\ DrillTypeOK'
        /\ drill'.step = 7 /\ drill'.died
    BY <1>2, <2>1, <2>2, SMTT(30) DEF DrillTypeOK
  <2>4. DrillInv'
    BY <2>3, SMTT(30) DEF DrillInv, DrillPasses
  <2> QED
    BY <1>1, <2>1, <2>4, DrillOnly
<1>4. CASE activation[DrillTuple].version = 0
  <2>1. PICK m, row : /\ m = drill.manifest
                      /\ row = [manifest |-> m, version |-> manifests[m].version, state |-> "ACTIVE"]
    OBVIOUS
  <2>2. activation' = [activation EXCEPT ![DrillTuple] = row] /\ drill' = [drill EXCEPT !.step = 4]
    BY <1>4, <2>1 DEF DrillActivates
  <2>3. Ready(DrillTuple, m)
    BY <1>1, <2>1 DEF PromotionInv, DrillInv
  <2>4. m \in DOMAIN manifests /\ m \in Nat /\ manifests[m] \in ManifestCell
    BY <2>3, SMTT(30) DEF Ready, ManifestsOf, PromotionInv, RecordsInv
  <2>5. manifests[m].version \in Nat /\ manifests[m].version > 0
    <3>1. manifests[m].tuple # "none"
      BY <2>3, PromotionAssumption DEF Ready, ManifestsOf
    <3> QED
      BY <2>4, <3>1, SMTT(30) DEF ManifestCell, ManifestRow, NoManifest, PromotionInv, RecordsInv
  <2>6. row \in ActivationRow /\ row.version > 0 /\ row.state = "ACTIVE"
        /\ row.manifest = m /\ row.version = manifests[m].version
    BY <2>1, <2>4, <2>5 DEF ActivationRow
  <2>7. UNCHANGED <<manifests, certs, gapprovals, gstatus>>
    BY <1>1 DEF recordVars
  <2>8. TuplesInv'
    BY <2>2, <2>3, <2>6, <2>7, TupleStep DEF AllTuples
  <2>9. activation'[DrillTuple] = row
    BY <2>2 DEF PromotionInv, TuplesInv, AllTuples
  <2>10. /\ DrillTypeOK'
         /\ drill'.step = 4 /\ drill'.died = drill.died /\ drill'.ok = drill.ok
    BY <1>2, <2>2, SMTT(30) DEF DrillTypeOK
  <2>11. DrillInv'
    BY <1>1, <2>6, <2>9, <2>10, SMTT(30) DEF PromotionInv, DrillInv, DrillPasses
  <2>12. RecordsInv' /\ Grows /\ Len(manifests') \in Nat
    BY <1>1, RecordsStill DEF PromotionInv
  <2>13. CallsInv'
    BY <1>1, <2>12, CallsKept DEF PromotionInv
  <2> QED
    BY <2>8, <2>11, <2>12, <2>13 DEF PromotionInv
<1> QED
  BY <1>3, <1>4

LEMMA DeactivatesKept ==
  ASSUME PromotionInv, DrillDeactivates
  PROVE  PromotionInv'
<1>1. UNCHANGED <<recordVars, gstatus, gcall>> /\ drill.step = 5
  BY DEF DrillDeactivates
<1>2. PICK row : row = [activation[DrillTuple] EXCEPT !.state = "DEACTIVATED"]
  OBVIOUS
<1>3. activation' = [activation EXCEPT ![DrillTuple] = row]
  BY <1>2 DEF DrillDeactivates
<1>4. UNCHANGED <<manifests, certs, gapprovals, gstatus>>
  BY <1>1 DEF recordVars
<1>5. DrillTuple \in AllTuples
  BY DEF AllTuples
<1>6. TuplesInv'
  BY <1>2, <1>3, <1>4, <1>5, OffIsBacked, TupleStep
<1>7. activation'[DrillTuple].state = "DEACTIVATED"
  BY <1>2, <1>3, <1>5, OffIsBacked DEF PromotionInv, TuplesInv
<1>8. /\ DrillTypeOK'
      /\ drill'.step = 6 /\ drill'.died = drill.died /\ drill'.ok = drill.ok
  BY SMTT(30) DEF DrillDeactivates, PromotionInv, DrillInv, DrillTypeOK
<1>9. DrillInv'
  BY <1>1, <1>7, <1>8, SMTT(30) DEF PromotionInv, DrillInv, DrillPasses
<1>10. RecordsInv' /\ Grows /\ Len(manifests') \in Nat
  BY <1>1, RecordsStill DEF PromotionInv
<1>11. CallsInv'
  BY <1>1, <1>10, CallsKept DEF PromotionInv
<1> QED
  BY <1>6, <1>9, <1>10, <1>11 DEF PromotionInv

LEMMA CleansUpKept ==
  ASSUME PromotionInv, DrillCleansUp
  PROVE  PromotionInv'
<1>1. RecordsInv' /\ Grows /\ Len(manifests') \in Nat
  BY DrillCleansUpKept DEF PromotionInv
<1>2. /\ activation' = [activation EXCEPT ![DrillTuple] = NoActivation]
      /\ UNCHANGED <<gstatus, gcall>>
  BY DEF DrillCleansUp, CleansUp
<1>3. CallsInv'
  BY <1>1, <1>2, CallsKept DEF PromotionInv
<1>4. /\ activation \in [AllTuples -> ActivationRow] /\ NoActivation \in ActivationRow
      /\ DrillTuple \in AllTuples
  BY DEF PromotionInv, TuplesInv, NoActivation, ActivationRow, AllTuples
<1>5. /\ activation' \in [AllTuples -> ActivationRow]
      /\ activation'[DrillTuple] = NoActivation
      /\ \A t \in Tuples : activation'[t] = activation[t]
  BY <1>2, <1>4, PromotionAssumption DEF AllTuples
<1>6. ASSUME NEW t \in Tuples PROVE Backed(t)'
  <2>1. SUFFICES ASSUME activation[t].version > 0 PROVE Backed(t)'
    BY <1>5 DEF Backed
  <2>2. PICK m : m = activation[t].manifest
    OBVIOUS
  <2>3. Ready(t, m) /\ activation[t].version = manifests[m].version
    BY <2>1, <2>2 DEF PromotionInv, TuplesInv, Backed, AllTuples
  <2>4. Keeps(m)
    BY <1>1, <2>3, PromotionAssumption DEF Grows, Ready, ManifestsOf
  <2>5. Ready(t, m)' /\ manifests'[m] = manifests[m]
    BY <2>3, <2>4, ReadyKept DEF Keeps
  <2> QED
    BY <1>5, <2>2, <2>3, <2>5 DEF Backed, Ready, ManifestsOf, Certified, Approved
<1>7. Backed(DrillTuple)'
  BY <1>5, SMTT(30) DEF Backed, NoActivation
<1>8. TuplesInv'
  BY <1>2, <1>5, <1>6, <1>7 DEF PromotionInv, TuplesInv, AllTuples
<1>9. /\ DrillTypeOK'
      /\ drill'.step = 0
  BY SMTT(30) DEF DrillCleansUp, PromotionInv, DrillInv, DrillTypeOK
<1>10. DrillInv'
  BY <1>5, <1>9, SMTT(30) DEF DrillInv, DrillPasses
<1> QED
  BY <1>1, <1>3, <1>8, <1>10 DEF PromotionInv

-----------------------------------------------------------------------------
LEMMA PromotionInvStart ==
  PromotionInit => PromotionInv
<1> SUFFICES ASSUME PromotionInit PROVE PromotionInv
  OBVIOUS
<1>1. RecordsInv
  BY SMTT(30) DEF PromotionInit, RecordsInv
<1>2. CallsInv
  BY DEF PromotionInit, CallsInv, CallOK
<1>3. TuplesInv
  BY SMTT(30) DEF PromotionInit, TuplesInv, Backed, NoActivation, ActivationRow, AllTuples
<1>4. DrillInv
  BY SMTT(30) DEF PromotionInit, DrillInv, DrillTypeOK, DrillPasses, AllTuples
<1> QED
  BY <1>1, <1>2, <1>3, <1>4 DEF PromotionInv

LEMMA PromotionInvKept ==
  PromotionInv /\ [PromotionNext \/ KillSwitchNext \/ DrillNext]_promotionVars => PromotionInv'
<1> SUFFICES ASSUME PromotionInv, [PromotionNext \/ KillSwitchNext \/ DrillNext]_promotionVars
             PROVE  PromotionInv'
  OBVIOUS
<1>1. CASE PromotionNext
  <2>1. ASSUME NEW c \in Calls, ManageProviderPromotion(c) PROVE PromotionInv'
    BY <2>1, ProposeReadKept, CertifyKept, ApproveKept, ActivateReadKept, DeactivateKept
       DEF ManageProviderPromotion
  <2> QED
    BY <1>1, <2>1, ProposeSaveKept, ActivateSaveKept, RecordKept, ExpiryKept DEF PromotionNext
<1>2. CASE KillSwitchNext
  BY <1>2, StatusReadKept, StatusSaveKept DEF KillSwitchNext
<1>3. CASE DrillNext
  BY <1>3, StartKept, ExpectKept, PromotesKept, ActivatesKept, DeactivatesKept, CleansUpKept
     DEF DrillNext
<1>4. CASE UNCHANGED promotionVars
  <2>1. UNCHANGED <<recordVars, activation, gstatus, gcall, drill>>
    BY <1>4 DEF promotionVars, recordVars
  <2>2. RecordsInv' /\ AllKept /\ Grows /\ Len(manifests') \in Nat
    BY <2>1, RecordsStill DEF PromotionInv
  <2>3. CallsInv'
    BY <2>1, <2>2, CallsKept DEF PromotionInv
  <2> QED
    BY <2>1, <2>2, <2>3, CallOnly
<1> QED
  BY <1>1, <1>2, <1>3, <1>4

LEMMA PromotionInvImplies ==
  PromotionInv => PromotionIsGoverned
<1> SUFFICES ASSUME PromotionInv PROVE PromotionIsGoverned
  OBVIOUS
<1>1. /\ \A m \in DOMAIN manifests : manifests[m] \in ManifestRow \cup {NoManifest}
      /\ \A i \in DOMAIN certs : certs[i] \in CertRow
      /\ \A i \in DOMAIN gapprovals : gapprovals[i] \in ApprovalRow \cup {NoApproval}
  BY SMTT(30) DEF PromotionInv, RecordsInv, ManifestCell, ApprovalCell
<1>2. PromotionTypeOK
  BY <1>1 DEF PromotionInv, TuplesInv, Backed, Ready, PromotionTypeOK
<1>3. ASSUME NEW t \in AllTuples, activation[t].version > 0
      PROVE  LET m == activation[t].manifest
             IN  /\ \E i \in DOMAIN certs : certs[i].manifest = m /\ certs[i].decision = "PASSED"
                 /\ \E i \in DOMAIN gapprovals : /\ gapprovals[i].manifest = m
                                                /\ gapprovals[i].decision = "APPROVED"
                                                /\ gapprovals[i].by # manifests[m].proposedBy
  <2>1. Certified(activation[t].manifest) /\ Approved(activation[t].manifest)
    BY <1>3 DEF PromotionInv, TuplesInv, Backed, Ready
  <2> QED
    BY <2>1 DEF Certified, Approved, PromotionInv, RecordsInv
<1>4. DualControl
  BY <1>3 DEF DualControl
<1> QED
  BY <1>2, <1>4 DEF PromotionInv, DrillInv, PromotionIsGoverned

(* Dual control of provider promotion, for any number of admins, tuples and *)
(* overlapping calls, whatever dies half-way: a tuple is activated only with*)
(* a manifest of its own that was certified PASSED and that someone other   *)
(* than its proposer approved, and a kill-switch drill fails only when an   *)
(* earlier one died before its clean-up (provider-promotion.service.ts,     *)
(* kill-switch-drill.ts).                                                   *)
THEOREM PromotionAlwaysGoverned ==
  PromotionSpec => []PromotionIsGoverned
BY PromotionInvStart, PromotionInvKept, PromotionInvImplies, PTL DEF PromotionSpec

-----------------------------------------------------------------------------
(***************************************************************************)
(* PolicyResearch.  A live tick holds a run that is PROCESSING and exactly*)
(* as old as the tick has waited, which is within the lease: so nobody else*)
(* may claim it, and the citations are the ones this tick wrote.           *)
(***************************************************************************)

RunsInv ==
  /\ runs \in Seq(RunRow) /\ citations \in Seq(SUBSET Nat) /\ Len(citations) = Len(runs)
  /\ OneRunPerFingerprint /\ BriefMatchesCitations /\ RecoveryIsClean

CallersInv ==
  /\ caller \in [Requesters -> {Idle} \cup [step: {"insert"}, fp: Fingerprints]]
  /\ deaths \in 0..MaxDeaths

HoldsRun(t) ==
  /\ t.run \in DOMAIN runs
  /\ runs[t.run].status = "PROCESSING" /\ runs[t.run].age = t.waited /\ t.waited <= Timeout
  /\ t.step \in {"retrieve", "cite"} => citations[t.run] = {}
  /\ t.step \in {"model", "complete"} => citations[t.run] = t.excerpts
  /\ t.step = "fail" => t.cause = "model"

TickOK(t) ==
  IF t.run = 0 THEN t.step \in {"idle", "next"}
               ELSE t.step \notin {"idle", "next"} /\ HoldsRun(t)
TicksInv ==
  /\ tick \in [ResearchWorkers -> TickRow]
  /\ \A w \in ResearchWorkers : TickOK(tick[w])
  /\ NoPreemption

MonitorOK ==
  \/ monitor = Idle
  \/ monitor = [step |-> "fetch", known |-> LatestChecksum]
  \/ \E u \in 1..MaxBulletins : u # LatestChecksum /\ monitor = [step |-> "save", update |-> u]
  \/ \E fp \in Fingerprints : monitor = [step |-> "request", fp |-> fp]
SourcesInv ==
  /\ revisions \in Seq(RevisionRow) /\ bulletin \in 0..MaxBulletins
  /\ RevisionsDiffer /\ MonitorOK

ResearchInv == RunsInv /\ CallersInv /\ TicksInv /\ SourcesInv

-----------------------------------------------------------------------------
LEMMA LatestIsLast ==
  ASSUME SourcesInv, NEW s
  PROVE  /\ LatestRevision(s) \in Nat
         /\ RevisionsOf(s) # {} =>
              /\ LatestRevision(s) \in RevisionsOf(s)
              /\ \A i \in RevisionsOf(s) : i <= LatestRevision(s)
<1>1. Len(revisions) \in Nat /\ RevisionsOf(s) \in SUBSET (0..Len(revisions))
  BY SMTT(30) DEF SourcesInv, RevisionsOf
<1>2. CASE RevisionsOf(s) = {}
  BY <1>2 DEF LatestRevision
<1>3. CASE RevisionsOf(s) # {}
  <2>1. LatestRevision(s) = Max(RevisionsOf(s))
    BY <1>3 DEF LatestRevision
  <2>2. Max(RevisionsOf(s)) \in RevisionsOf(s) /\ \A i \in RevisionsOf(s) : i <= Max(RevisionsOf(s))
    BY <1>1, <1>3, MaxUpTo
  <2>3. LatestRevision(s) \in Nat
    BY <1>1, <2>1, <2>2, SMTT(30)
  <2> QED
    BY <2>1, <2>2, <2>3
<1> QED
  BY <1>2, <1>3

LEMMA EnqueueKept ==
  ASSUME RunsInv, TicksInv, NEW fp \in Fingerprints, Enqueue(fp), tick' = tick
  PROVE  RunsInv' /\ TicksInv'
<1>1. CASE UNCHANGED <<runs, citations>>
  BY <1>1 DEF RunsInv, TicksInv, OneRunPerFingerprint, BriefMatchesCitations, RecoveryIsClean,
     NoPreemption, TickOK, HoldsRun
<1>2. CASE ~Known(fp) /\ runs' = Append(runs, QueuedRun(fp)) /\ citations' = Append(citations, {})
  <2>1. QueuedRun(fp) \in RunRow /\ QueuedRun(fp).status = "QUEUED" /\ QueuedRun(fp).fingerprint = fp
    BY ResearchAssumption, SMTT(30) DEF QueuedRun, RunRow, ResearchStatuses
  <2>2. PICK row : row = QueuedRun(fp)
    OBVIOUS
  <2>3. runs \in Seq(RunRow) /\ citations \in Seq(SUBSET Nat) /\ Len(citations) = Len(runs)
    BY DEF RunsInv
  <2>4. /\ runs' \in Seq(RunRow) /\ DOMAIN runs' = DOMAIN runs \cup {Len(runs) + 1}
        /\ runs'[Len(runs) + 1] = row /\ Len(runs') = Len(runs) + 1
        /\ \A r \in DOMAIN runs : runs'[r] = runs[r]
    BY <1>2, <2>1, <2>2, <2>3, SMTT(30)
  <2>5. /\ citations' \in Seq(SUBSET Nat) /\ Len(citations') = Len(runs) + 1
        /\ \A r \in DOMAIN runs : citations'[r] = citations[r]
    BY <1>2, <2>3, SMTT(30)
  <2>6. \A r \in DOMAIN runs : runs[r].fingerprint # row.fingerprint
    BY <1>2, <2>1, <2>2 DEF Known
  <2>7. OneRunPerFingerprint'
    BY <2>4, <2>6 DEF OneRunPerFingerprint, RunsInv
  <2>8. BriefMatchesCitations' /\ RecoveryIsClean'
    BY <2>1, <2>2, <2>4, <2>5 DEF BriefMatchesCitations, RecoveryIsClean, RunsInv
  <2>9. ASSUME NEW w \in ResearchWorkers PROVE TickOK(tick[w])'
    <3>1. TickOK(tick[w])
      BY DEF TicksInv
    <3>2. HoldsRun(tick[w]) => HoldsRun(tick[w])'
      BY <2>4, <2>5 DEF HoldsRun
    <3> QED
      BY <3>1, <3>2 DEF TickOK
  <2>10. TicksInv'
    BY <2>9 DEF TicksInv, NoPreemption
  <2> QED
    BY <2>4, <2>5, <2>7, <2>8, <2>10 DEF RunsInv
<1> QED
  BY <1>1, <1>2 DEF Enqueue

(* What a step leaves alone.                                                *)
LEMMA SourcesRest ==
  ASSUME SourcesInv, UNCHANGED <<revisions, bulletin, monitor>>
  PROVE  SourcesInv'
<1>1. RevisionsDiffer'
  BY SMTT(30) DEF SourcesInv, RevisionsDiffer, RevisionsOf
<1>2. LatestChecksum' = LatestChecksum
  BY DEF LatestChecksum, LatestRevision, RevisionsOf
<1>3. MonitorOK'
  BY <1>2 DEF SourcesInv, MonitorOK
<1> QED
  BY <1>1, <1>3 DEF SourcesInv

LEMMA RunsRest ==
  ASSUME RunsInv, UNCHANGED <<runs, citations>>
  PROVE  RunsInv'
BY DEF RunsInv, OneRunPerFingerprint, BriefMatchesCitations, RecoveryIsClean

LEMMA TicksRest ==
  ASSUME TicksInv, UNCHANGED <<runs, citations, tick>>
  PROVE  TicksInv'
BY DEF TicksInv, TickOK, HoldsRun, NoPreemption

LEMMA RequestKept ==
  ASSUME ResearchInv, NEW q \in Requesters,
         RequestInsert(q) \/ \E gap \in Gaps : RequestFind(q, gap)
  PROVE  ResearchInv'
<1>1. CASE RequestInsert(q)
  <2>1. caller[q].fp \in Fingerprints
    BY <1>1, SMTT(30) DEF RequestInsert, ResearchInv, CallersInv, Idle
  <2>2. RunsInv' /\ TicksInv'
    BY <1>1, <2>1, EnqueueKept DEF RequestInsert, ResearchInv
  <2>3. CallersInv'
    BY <1>1 DEF RequestInsert, ResearchInv, CallersInv
  <2>4. SourcesInv'
    BY <1>1, SourcesRest DEF RequestInsert, ResearchInv
  <2> QED
    BY <2>2, <2>3, <2>4 DEF ResearchInv
<1>2. ASSUME NEW gap \in Gaps, RequestFind(q, gap) PROVE ResearchInv'
  <2>1. [kind |-> "gap", key |-> gap] \in Fingerprints
    BY DEF Fingerprints
  <2>2. CallersInv'
    BY <1>2, <2>1 DEF RequestFind, ResearchInv, CallersInv
  <2>3. RunsInv' /\ TicksInv' /\ SourcesInv'
    BY <1>2, SourcesRest, RunsRest, TicksRest DEF RequestFind, ResearchInv
  <2> QED
    BY <2>2, <2>3 DEF ResearchInv
<1> QED
  BY <1>1, <1>2

-----------------------------------------------------------------------------
LEMMA SaveRevisionKept ==
  ASSUME SourcesInv, SaveRevision
  PROVE  SourcesInv'
<1>1. PICK u \in 1..MaxBulletins : u # LatestChecksum /\ monitor = [step |-> "save", update |-> u]
  BY SMTT(30) DEF SaveRevision, SourcesInv, MonitorOK, Idle
<1>2. PICK row : row = [source |-> PolledSource, checksum |-> u]
  OBVIOUS
<1>3. row \in RevisionRow /\ row.checksum = u /\ row.source = PolledSource
  BY <1>2, ResearchAssumption, SMTT(30) DEF RevisionRow
<1>4. revisions \in Seq(RevisionRow) /\ revisions' = Append(revisions, row)
  BY <1>1, <1>2 DEF SaveRevision, SourcesInv
<1>5. PICK n : n = Len(revisions) + 1
  OBVIOUS
<1>6. /\ revisions' \in Seq(RevisionRow) /\ DOMAIN revisions' = DOMAIN revisions \cup {n}
      /\ revisions'[n] = row /\ \A i \in DOMAIN revisions : revisions'[i] = revisions[i]
      /\ n \in Nat /\ \A i \in DOMAIN revisions : i \in Nat /\ i < n
  BY <1>3, <1>4, <1>5, SMTT(30)
<1>7. RevisionsOf(PolledSource)' = RevisionsOf(PolledSource) \cup {n}
  BY <1>3, <1>6 DEF RevisionsOf
<1>8. ASSUME NEW i \in RevisionsOf(PolledSource)', NEW j \in RevisionsOf(PolledSource)', i < j,
             \A k \in RevisionsOf(PolledSource)' : ~(i < k /\ k < j)
      PROVE  revisions'[i].checksum # revisions'[j].checksum
  <2>1. i \in RevisionsOf(PolledSource) /\ i \in DOMAIN revisions
    <3>1. j \in DOMAIN revisions \/ j = n
      BY <1>7 DEF RevisionsOf
    <3>2. i # n
      BY <1>6, <1>8, <3>1, SMTT(30)
    <3> QED
      BY <1>7, <3>2 DEF RevisionsOf
  <2>2. CASE j \in RevisionsOf(PolledSource)
    <3>1. revisions[i].checksum # revisions[j].checksum
      BY <1>7, <1>8, <2>1, <2>2 DEF SourcesInv, RevisionsDiffer
    <3> QED
      BY <1>6, <2>1, <2>2, <3>1 DEF RevisionsOf
  <2>3. CASE j = n
    <3>1. \A k \in RevisionsOf(PolledSource) : k < n /\ k \in Nat
      BY <1>6 DEF RevisionsOf
    <3>2. \A k \in RevisionsOf(PolledSource) : k <= i
      BY <1>7, <1>8, <2>1, <2>3, <3>1, SMTT(30)
    <3>3. /\ LatestRevision(PolledSource) \in RevisionsOf(PolledSource)
          /\ i <= LatestRevision(PolledSource)
      BY <2>1, LatestIsLast
    <3>4. LatestRevision(PolledSource) = i /\ i # 0
      BY <1>4, <2>1, <3>1, <3>2, <3>3, SMTT(30)
    <3>5. LatestChecksum = revisions[i].checksum
      BY <3>4 DEF LatestChecksum
    <3> QED
      BY <1>1, <1>3, <1>6, <2>1, <2>3, <3>5
  <2> QED
    BY <1>7, <2>2, <2>3
<1>9. RevisionsDiffer'
  BY <1>8 DEF RevisionsDiffer
<1>10. [kind |-> "revision", key |-> n] \in Fingerprints
  BY <1>6 DEF Fingerprints
<1>11. MonitorOK'
  BY <1>5, <1>10 DEF SaveRevision, MonitorOK
<1> QED
  BY <1>6, <1>9, <1>11 DEF SourcesInv, SaveRevision

LEMMA MonitorKept ==
  ASSUME ResearchInv,
         Publish \/ CheckSource \/ FetchUpdate \/ SaveRevision \/ RequestForNewRevision \/ MonitorDies
  PROVE  ResearchInv'
<1> USE DEF ResearchInv
<1>1. CASE RequestForNewRevision
  <2>1. monitor.fp \in Fingerprints
    BY <1>1, SMTT(30) DEF RequestForNewRevision, SourcesInv, MonitorOK, Idle
  <2>2. RunsInv' /\ TicksInv'
    BY <1>1, <2>1, EnqueueKept DEF RequestForNewRevision
  <2>3. CallersInv' /\ monitor' = Idle /\ UNCHANGED <<revisions, bulletin>>
    BY <1>1 DEF RequestForNewRevision, CallersInv
  <2>4. SourcesInv'
    BY <2>3, SMTT(30) DEF SourcesInv, MonitorOK, RevisionsDiffer, RevisionsOf
  <2> QED
    BY <2>2, <2>3, <2>4
<1>2. ASSUME ~RequestForNewRevision PROVE RunsInv' /\ TicksInv' /\ CallersInv'
  <2>1. UNCHANGED <<runs, citations, tick, caller>>
    BY <1>2 DEF Publish, CheckSource, FetchUpdate, SaveRevision, MonitorDies
  <2>2. deaths' \in 0..MaxDeaths
    BY <1>2, ResearchAssumption, SMTT(30)
       DEF Publish, CheckSource, FetchUpdate, SaveRevision, MonitorDies, CallersInv
  <2> QED
    BY <2>1, <2>2, RunsRest, TicksRest DEF CallersInv
<1>3. ASSUME Publish \/ CheckSource \/ FetchUpdate \/ MonitorDies PROVE SourcesInv'
  <2>1. revisions' = revisions
    BY <1>3 DEF Publish, CheckSource, FetchUpdate, MonitorDies
  <2>2. RevisionsDiffer'
    BY <2>1, SMTT(30) DEF SourcesInv, RevisionsDiffer, RevisionsOf
  <2>3. LatestChecksum' = LatestChecksum
    BY <2>1 DEF LatestChecksum, LatestRevision, RevisionsOf
  <2>4. bulletin' \in 0..MaxBulletins
    BY <1>3, ResearchAssumption, SMTT(30)
       DEF Publish, CheckSource, FetchUpdate, MonitorDies, SourcesInv
  <2>5. MonitorOK'
    <3>1. CASE Publish
      BY <2>3, <3>1 DEF Publish, MonitorOK, SourcesInv
    <3>2. CASE CheckSource
      BY <2>3, <3>2 DEF CheckSource, MonitorOK
    <3>3. CASE MonitorDies
      BY <3>3 DEF MonitorDies, MonitorOK
    <3>4. CASE FetchUpdate
      <4>1. monitor.known = LatestChecksum
        BY <3>4, SMTT(30) DEF FetchUpdate, MonitorOK, SourcesInv, Idle
      <4>2. CASE monitor' = Idle
        BY <4>2 DEF MonitorOK
      <4>3. CASE /\ bulletin # 0 /\ Changed(monitor.known)
                 /\ monitor' = [step |-> "save", update |-> bulletin]
        <5>1. bulletin \in 1..MaxBulletins /\ bulletin # LatestChecksum'
          BY <2>3, <4>1, <4>3, ResearchAssumption, SMTT(30) DEF SourcesInv, Changed
        <5> QED
          BY <4>3, <5>1 DEF MonitorOK
      <4> QED
        BY <3>4, <4>2, <4>3 DEF FetchUpdate
    <3> QED
      BY <1>3, <3>1, <3>2, <3>3, <3>4
  <2> QED
    BY <2>1, <2>2, <2>4, <2>5 DEF SourcesInv
<1> QED
  BY <1>1, <1>2, <1>3, SaveRevisionKept

-----------------------------------------------------------------------------
LEMMA NoTickIsIdle ==
  /\ NoTick \in TickRow /\ NoTick.run = 0 /\ NoTick.step = "idle" /\ NoTick.waited = 0
  /\ \A left \in Nat : LET t == [NoTick EXCEPT !.step = "next", !.left = left]
                       IN  t \in TickRow /\ t.run = 0 /\ t.step = "next"
  /\ \A r, left \in Nat : LET t == [NoTick EXCEPT !.step = "clear", !.run = r, !.left = left]
                          IN  t \in TickRow /\ t.run = r /\ t.step = "clear" /\ t.waited = 0
BY DEF NoTick, TickRow

(* A tick comes to a state of which its run, if it has one, is not another's*)
(* and everyone else's run is as it was.                                    *)
LEMMA TickMoves ==
  ASSUME TicksInv, NEW w \in ResearchWorkers, NEW t \in TickRow,
         tick' = [tick EXCEPT ![w] = t], TickOK(t)',
         \A x \in ResearchWorkers \ {w} : t.run # 0 => tick[x].run # t.run,
         DOMAIN runs \subseteq DOMAIN runs',
         \A x \in ResearchWorkers \ {w} : tick[x].run # 0 =>
           /\ runs'[tick[x].run] = runs[tick[x].run]
           /\ citations'[tick[x].run] = citations[tick[x].run]
  PROVE  TicksInv'
<1>1. tick \in [ResearchWorkers -> TickRow]
  BY DEF TicksInv
<1>2. tick' \in [ResearchWorkers -> TickRow] /\ tick'[w] = t
  BY <1>1
<1>3. \A x \in ResearchWorkers \ {w} : tick'[x] = tick[x]
  BY <1>1
<1>4. ASSUME NEW x \in ResearchWorkers PROVE TickOK(tick[x])'
  <2>1. CASE x = w
    BY <1>2, <2>1 DEF TickOK, HoldsRun
  <2>2. CASE x # w
    <3>1. TickOK(tick[x]) /\ tick'[x] = tick[x]
      BY <1>3, <2>2 DEF TicksInv
    <3> QED
      BY <2>2, <3>1 DEF TickOK, HoldsRun
  <2> QED
    BY <2>1, <2>2
<1>5. NoPreemption'
  BY <1>2, <1>3 DEF NoPreemption, TicksInv
<1> QED
  BY <1>2, <1>4, <1>5 DEF TicksInv

LEMMA HeldRun ==
  ASSUME TicksInv, RunsInv, NEW w \in ResearchWorkers,
         tick[w].step \notin {"idle", "next"}
  PROVE  /\ tick[w] \in TickRow /\ tick[w].run # 0 /\ HoldsRun(tick[w])
         /\ \A x \in ResearchWorkers \ {w} : tick[x].run # tick[w].run
         /\ tick[w].run \in DOMAIN citations /\ tick[w].run \in Nat
<1>1. tick[w] \in TickRow /\ TickOK(tick[w])
  BY DEF TicksInv
<1>2. tick[w].run # 0 /\ HoldsRun(tick[w])
  BY <1>1 DEF TickOK
<1>3. tick[w].run \in DOMAIN citations /\ tick[w].run \in Nat
  BY <1>1, <1>2, SMTT(30) DEF HoldsRun, RunsInv, TickRow
<1> QED
  BY <1>1, <1>2, <1>3 DEF TicksInv, NoPreemption

(* A run that a live tick holds may not be claimed.                         *)
LEMMA HeldIsNotClaimable ==
  ASSUME ResearchInv, NEW x \in ResearchWorkers, tick[x].run # 0
  PROVE  ~Claimable(tick[x].run)
<1>1. HoldsRun(tick[x]) /\ tick[x] \in TickRow
  BY DEF ResearchInv, TicksInv, TickOK
<1> QED
  BY <1>1, ResearchAssumption, SMTT(30) DEF HoldsRun, Claimable, TickRow

LEMMA ClaimKept ==
  ASSUME ResearchInv, NEW w \in ResearchWorkers, NEW left \in Nat, Claim(w, left)
  PROVE  ResearchInv'
<1>1. PICK r \in Candidate :
        /\ runs' = [runs EXCEPT ![r] = [@ EXCEPT !.status = "PROCESSING", !.age = 0, !.failure = "none"]]
        /\ tick' = [tick EXCEPT ![w] = [NoTick EXCEPT !.step = "clear", !.run = r, !.left = left]]
        /\ UNCHANGED <<citations, revisions, bulletin, caller, monitor, deaths>>
  BY DEF Claim
<1>2. /\ runs \in Seq(RunRow) /\ r \in DOMAIN runs /\ Claimable(r) /\ r \in Nat /\ r # 0
      /\ runs[r] \in RunRow
  BY SMTT(30) DEF Candidate, ResearchInv, RunsInv
<1>3. PICK row : row = [runs[r] EXCEPT !.status = "PROCESSING", !.age = 0, !.failure = "none"]
  OBVIOUS
<1>4. /\ row \in RunRow /\ row.status = "PROCESSING" /\ row.age = 0
      /\ row.fingerprint = runs[r].fingerprint
  <2>1. 0 \in 0..(Lease + 1)
    BY ResearchAssumption, SMTT(30)
  <2> QED
    BY <1>2, <1>3, <2>1 DEF RunRow, ResearchStatuses
<1>5. /\ runs' \in Seq(RunRow) /\ DOMAIN runs' = DOMAIN runs /\ Len(runs') = Len(runs) /\ runs'[r] = row
      /\ \A x \in DOMAIN runs \ {r} : runs'[x] = runs[x]
  BY <1>1, <1>2, <1>3, <1>4, SMTT(30)
<1>6. RunsInv'
  <2>1. OneRunPerFingerprint'
    <3>1. \A x \in DOMAIN runs : runs'[x].fingerprint = runs[x].fingerprint
      BY <1>4, <1>5
    <3> QED
      BY <1>5, <3>1 DEF ResearchInv, RunsInv, OneRunPerFingerprint
  <2>2. BriefMatchesCitations' /\ RecoveryIsClean'
    BY <1>1, <1>4, <1>5 DEF ResearchInv, RunsInv, BriefMatchesCitations, RecoveryIsClean
  <2> QED
    BY <1>1, <1>5, <2>1, <2>2 DEF ResearchInv, RunsInv
<1>7. PICK t : t = [NoTick EXCEPT !.step = "clear", !.run = r, !.left = left]
  OBVIOUS
<1>8. t \in TickRow /\ t.run = r /\ t.step = "clear" /\ t.waited = 0
  BY <1>2, <1>7, NoTickIsIdle
<1>9. TickOK(t)'
  BY <1>2, <1>4, <1>5, <1>8, ResearchAssumption, SMTT(30) DEF TickOK, HoldsRun
<1>10. \A x \in ResearchWorkers : tick[x].run # 0 => tick[x].run # r
  BY <1>2, HeldIsNotClaimable
<1>11. \A x \in ResearchWorkers : tick[x].run # 0 => tick[x].run \in DOMAIN runs
  BY DEF ResearchInv, TicksInv, TickOK, HoldsRun
<1>12. TicksInv'
  <2>1. \A x \in ResearchWorkers \ {w} : t.run # 0 => tick[x].run # t.run
    BY <1>2, <1>8, <1>10
  <2>2. \A x \in ResearchWorkers \ {w} : tick[x].run # 0 =>
          /\ runs'[tick[x].run] = runs[tick[x].run]
          /\ citations'[tick[x].run] = citations[tick[x].run]
    BY <1>1, <1>5, <1>10, <1>11
  <2>3. tick' = [tick EXCEPT ![w] = t] /\ DOMAIN runs \subseteq DOMAIN runs'
    BY <1>1, <1>5, <1>7
  <2> QED
    BY <1>8, <1>9, <2>1, <2>2, <2>3, TickMoves DEF ResearchInv
<1>13. CallersInv' /\ SourcesInv'
  BY <1>1, SourcesRest DEF CallersInv, ResearchInv
<1> QED
  BY <1>6, <1>12, <1>13 DEF ResearchInv

(* A step of a tick that ends, or goes on, with nothing written.            *)
LEMMA TickOnly ==
  ASSUME ResearchInv, NEW w \in ResearchWorkers, NEW t \in TickRow,
         tick' = [tick EXCEPT ![w] = t], TickOK(t), t.run \in {0, tick[w].run},
         UNCHANGED <<runs, citations, revisions, bulletin, caller, monitor>>,
         deaths' \in 0..MaxDeaths
  PROVE  ResearchInv'
<1>1. TickOK(t)'
  BY DEF TickOK, HoldsRun
<1>2. \A x \in ResearchWorkers \ {w} : t.run # 0 => tick[x].run # t.run
  BY DEF ResearchInv, TicksInv, NoPreemption
<1>3. TicksInv'
  BY <1>1, <1>2, TickMoves DEF ResearchInv
<1> QED
  BY <1>3, RunsRest, SourcesRest DEF ResearchInv, CallersInv

LEMMA BatchKept ==
  ASSUME ResearchInv, NEW w \in ResearchWorkers, StartTick(w) \/ NextOfBatch(w) \/ WorkerDies(w)
  PROVE  ResearchInv'
<1>1. tick[w] \in TickRow /\ tick[w].left \in Nat
  BY DEF ResearchInv, TicksInv, TickRow
<1>2. TickOK(NoTick) /\ NoTick \in TickRow /\ NoTick.run = 0
  BY NoTickIsIdle DEF TickOK
<1>3. CASE StartTick(w)
  BY <1>3, ResearchAssumption, ClaimKept, SMTT(30) DEF StartTick
<1>4. CASE NextOfBatch(w) /\ tick[w].left > 0 /\ Claim(w, tick[w].left - 1)
  BY <1>1, <1>4, ClaimKept, SMTT(30)
<1>5. CASE NextOfBatch(w) /\ tick' = [tick EXCEPT ![w] = NoTick]
           /\ UNCHANGED <<runs, citations, revisions, bulletin, caller, monitor, deaths>>
  BY <1>2, <1>5, TickOnly DEF ResearchInv, CallersInv
<1>6. CASE WorkerDies(w)
  <2>1. deaths' \in 0..MaxDeaths
    BY <1>6, ResearchAssumption, SMTT(30) DEF WorkerDies, ResearchInv, CallersInv
  <2> QED
    BY <1>2, <1>6, <2>1, TickOnly DEF WorkerDies
<1> QED
  BY <1>3, <1>4, <1>5, <1>6 DEF NextOfBatch

-----------------------------------------------------------------------------
(* The tick that holds a run rewrites the run's citations.                  *)
LEMMA Recited ==
  ASSUME ResearchInv, NEW w \in ResearchWorkers, tick[w].step \notin {"idle", "next"},
         NEW quoted \in SUBSET Nat, citations' = [citations EXCEPT ![tick[w].run] = quoted],
         NEW t \in TickRow, tick' = [tick EXCEPT ![w] = t], t.run = tick[w].run,
         t.waited = tick[w].waited, t.step \in {"retrieve", "model"},
         t.step = "retrieve" => quoted = {}, t.step = "model" => quoted = t.excerpts,
         UNCHANGED <<runs, revisions, bulletin, caller, monitor, deaths>>
  PROVE  ResearchInv'
<1>1. PICK r : r = tick[w].run
  OBVIOUS
<1>2. /\ r # 0 /\ HoldsRun(tick[w]) /\ r \in DOMAIN citations
      /\ \A x \in ResearchWorkers \ {w} : tick[x].run # r
  BY <1>1, HeldRun DEF ResearchInv
<1>3. citations \in Seq(SUBSET Nat)
  BY DEF ResearchInv, RunsInv
<1>4. /\ citations' \in Seq(SUBSET Nat) /\ Len(citations') = Len(citations) /\ citations'[r] = quoted
      /\ \A x \in DOMAIN citations \ {r} : citations'[x] = citations[x]
  BY <1>1, <1>2, <1>3, SMTT(30)
<1>5. runs[r].status = "PROCESSING" /\ r \in DOMAIN runs /\ DOMAIN runs = DOMAIN citations
  BY <1>1, <1>2, SMTT(30) DEF HoldsRun, ResearchInv, RunsInv
<1>6. RunsInv'
  <2>1. BriefMatchesCitations'
    BY <1>4, <1>5 DEF BriefMatchesCitations, ResearchInv, RunsInv
  <2> QED
    BY <1>4, <2>1 DEF ResearchInv, RunsInv, OneRunPerFingerprint, RecoveryIsClean
<1>7. TickOK(t)'
  BY <1>1, <1>2, <1>4 DEF TickOK, HoldsRun
<1>8. \A x \in ResearchWorkers : tick[x].run # 0 => tick[x].run \in DOMAIN runs
  BY DEF ResearchInv, TicksInv, TickOK, HoldsRun
<1>9. \A x \in ResearchWorkers \ {w} : tick[x].run # 0 =>
        /\ runs'[tick[x].run] = runs[tick[x].run]
        /\ citations'[tick[x].run] = citations[tick[x].run]
  BY <1>2, <1>4, <1>5, <1>8
<1>10. TicksInv'
  <2>1. \A x \in ResearchWorkers \ {w} : t.run # 0 => tick[x].run # t.run
    BY <1>1, <1>2
  <2>2. DOMAIN runs \subseteq DOMAIN runs'
    OBVIOUS
  <2> QED
    BY <1>7, <1>9, <2>1, <2>2, TickMoves DEF ResearchInv
<1> QED
  BY <1>6, <1>10, SourcesRest DEF ResearchInv, CallersInv

LEMMA ClearCitationsKept ==
  ASSUME ResearchInv, NEW w \in ResearchWorkers, ClearCitations(w)
  PROVE  ResearchInv'
<1>1. tick[w] \in TickRow
  BY DEF ResearchInv, TicksInv
<1>2. PICK t : t = [tick[w] EXCEPT !.step = "retrieve"]
  OBVIOUS
<1>3. t \in TickRow /\ t.step = "retrieve" /\ t.run = tick[w].run /\ t.waited = tick[w].waited
  BY <1>1, <1>2 DEF TickRow
<1>4. /\ citations' = [citations EXCEPT ![tick[w].run] = {}] /\ tick' = [tick EXCEPT ![w] = t]
      /\ tick[w].step = "clear" /\ UNCHANGED <<runs, revisions, bulletin, caller, monitor, deaths>>
  BY <1>2 DEF ClearCitations, ClearedCitations
<1> QED
  BY <1>3, <1>4, Recited

LEMMA ExcerptsAreRevisions ==
  ASSUME ResearchInv, NEW r \in DOMAIN runs
  PROVE  Excerpts(r) \in SUBSET Nat
<1>1. runs[r] \in RunRow
  BY SMTT(30) DEF ResearchInv, RunsInv
<1>2. runs[r].fingerprint \in Fingerprints
  BY <1>1 DEF RunRow
<1>3. runs[r].fingerprint.kind = "revision" => runs[r].fingerprint.key \in Nat
  BY <1>2 DEF Fingerprints
<1>4. \A s : LatestRevision(s) \in Nat
  BY LatestIsLast DEF ResearchInv
<1> QED
  BY <1>3, <1>4 DEF Excerpts

LEMMA RetrieveKept ==
  ASSUME ResearchInv, NEW w \in ResearchWorkers, Retrieve(w)
  PROVE  ResearchInv'
<1>1. tick[w] \in TickRow /\ HoldsRun(tick[w]) /\ tick[w].run # 0
  BY HeldRun DEF Retrieve, ResearchInv
<1>2. PICK found : found = Excerpts(tick[w].run)
  OBVIOUS
<1>3. found \in SUBSET Nat
  BY <1>1, <1>2, ExcerptsAreRevisions DEF HoldsRun
<1>4. PICK t : t = [tick[w] EXCEPT !.step = "cite", !.excerpts = found]
  OBVIOUS
<1>5. t \in TickRow /\ t.step = "cite" /\ t.run = tick[w].run /\ t.waited = tick[w].waited
  BY <1>1, <1>3, <1>4 DEF TickRow
<1>6. TickOK(t)
  BY <1>1, <1>5 DEF TickOK, HoldsRun, Retrieve
<1>7. tick' = [tick EXCEPT ![w] = t]
      /\ UNCHANGED <<runs, citations, revisions, bulletin, caller, monitor, deaths>>
  BY <1>2, <1>4 DEF Retrieve
<1> QED
  BY <1>5, <1>6, <1>7, TickOnly DEF ResearchInv, CallersInv

LEMMA SaveCitationsKept ==
  ASSUME ResearchInv, NEW w \in ResearchWorkers, SaveCitations(w)
  PROVE  ResearchInv'
<1>1. tick[w] \in TickRow /\ HoldsRun(tick[w]) /\ tick[w].step = "cite"
  BY HeldRun DEF SaveCitations, ResearchInv
<1>2. citations[tick[w].run] = {}
  BY <1>1 DEF HoldsRun
<1>3. PICK t : t = [tick[w] EXCEPT !.step = "model"]
  OBVIOUS
<1>4. /\ t \in TickRow /\ t.step = "model" /\ t.run = tick[w].run /\ t.waited = tick[w].waited
      /\ t.excerpts = tick[w].excerpts /\ t.excerpts \in SUBSET Nat
  BY <1>1, <1>3 DEF TickRow
<1>5. /\ citations' = [citations EXCEPT ![tick[w].run] = t.excerpts]
      /\ tick' = [tick EXCEPT ![w] = t]
      /\ UNCHANGED <<runs, revisions, bulletin, caller, monitor, deaths>>
  BY <1>2, <1>3, <1>4 DEF SaveCitations
<1> QED
  BY <1>1, <1>4, <1>5, Recited

LEMMA SynthesizeKept ==
  ASSUME ResearchInv, NEW w \in ResearchWorkers, Synthesize(w)
  PROVE  ResearchInv'
<1>1. tick[w] \in TickRow /\ HoldsRun(tick[w]) /\ tick[w].run # 0 /\ tick[w].step = "model"
  BY HeldRun DEF Synthesize, ResearchInv
<1>2. ASSUME NEW t, t = [tick[w] EXCEPT !.step = "complete"]
                    \/ t = [tick[w] EXCEPT !.step = "fail", !.cause = "model"]
      PROVE  t \in TickRow /\ TickOK(t) /\ t.run = tick[w].run
  <2>1. /\ t \in TickRow /\ t.step \in {"complete", "fail"} /\ (t.step = "fail" => t.cause = "model")
        /\ t.run = tick[w].run /\ t.waited = tick[w].waited /\ t.excerpts = tick[w].excerpts
    BY <1>1, <1>2 DEF TickRow
  <2> QED
    BY <1>1, <2>1 DEF TickOK, HoldsRun
<1>3. PICK t : /\ t = [tick[w] EXCEPT !.step = "complete"]
                  \/ t = [tick[w] EXCEPT !.step = "fail", !.cause = "model"]
               /\ tick' = [tick EXCEPT ![w] = t]
  BY DEF Synthesize
<1> QED
  BY <1>2, <1>3, TickOnly DEF Synthesize, ResearchInv, CallersInv

-----------------------------------------------------------------------------
(* The run of a tick is COMPLETED, or FAILED because of the model.          *)
LEMMA EndRunKept ==
  ASSUME ResearchInv, NEW w \in ResearchWorkers, tick[w].step \notin {"idle", "next"},
         NEW row \in RunRow, EndRun(w, row), row.fingerprint = runs[tick[w].run].fingerprint,
         row.status = "COMPLETED" => row.brief = citations[tick[w].run],
         row.status = "FAILED" => row.failure = "model"
  PROVE  ResearchInv'
<1>1. PICK r : r = tick[w].run
  OBVIOUS
<1>2. /\ tick[w] \in TickRow /\ r # 0 /\ HoldsRun(tick[w])
      /\ \A x \in ResearchWorkers \ {w} : tick[x].run # r
  BY <1>1, HeldRun DEF ResearchInv
<1>3. r \in DOMAIN runs /\ runs[r].status = "PROCESSING" /\ runs \in Seq(RunRow)
  BY <1>1, <1>2 DEF HoldsRun, ResearchInv, RunsInv
<1>4. runs' = [runs EXCEPT ![r] = row]
      /\ UNCHANGED <<citations, revisions, bulletin, caller, monitor, deaths>>
  BY <1>1, <1>3 DEF EndRun
<1>5. /\ runs' \in Seq(RunRow) /\ DOMAIN runs' = DOMAIN runs /\ Len(runs') = Len(runs) /\ runs'[r] = row
      /\ \A x \in DOMAIN runs \ {r} : runs'[x] = runs[x]
  BY <1>3, <1>4, SMTT(30)
<1>6. RunsInv'
  <2>1. OneRunPerFingerprint'
    <3>1. \A x \in DOMAIN runs : runs'[x].fingerprint = runs[x].fingerprint
      BY <1>1, <1>5
    <3> QED
      BY <1>5, <3>1 DEF ResearchInv, RunsInv, OneRunPerFingerprint
  <2>2. BriefMatchesCitations' /\ RecoveryIsClean'
    BY <1>1, <1>4, <1>5 DEF ResearchInv, RunsInv, BriefMatchesCitations, RecoveryIsClean
  <2> QED
    BY <1>4, <1>5, <2>1, <2>2 DEF ResearchInv, RunsInv
<1>7. PICK t : t = [NoTick EXCEPT !.step = "next", !.left = tick[w].left]
  OBVIOUS
<1>8. t \in TickRow /\ t.run = 0 /\ t.step = "next"
  BY <1>2, <1>7, NoTickIsIdle DEF TickRow
<1>9. tick' = [tick EXCEPT ![w] = t] /\ TickOK(t)'
  BY <1>7, <1>8 DEF EndRun, TickOK
<1>10. \A x \in ResearchWorkers : tick[x].run # 0 => tick[x].run \in DOMAIN runs
  BY DEF ResearchInv, TicksInv, TickOK, HoldsRun
<1>11. TicksInv'
  <2>1. \A x \in ResearchWorkers \ {w} : tick[x].run # 0 =>
          /\ runs'[tick[x].run] = runs[tick[x].run]
          /\ citations'[tick[x].run] = citations[tick[x].run]
    BY <1>2, <1>4, <1>5, <1>10
  <2> QED
    BY <1>5, <1>8, <1>9, <2>1, TickMoves DEF ResearchInv
<1> QED
  BY <1>4, <1>6, <1>11, SourcesRest DEF ResearchInv, CallersInv

LEMMA FinishKept ==
  ASSUME ResearchInv, NEW w \in ResearchWorkers, CompleteRun(w) \/ FailRun(w)
  PROVE  ResearchInv'
<1>1. PICK r : r = tick[w].run
  OBVIOUS
<1>2. tick[w].step \in {"complete", "fail"}
  BY DEF CompleteRun, FailRun
<1>3. tick[w] \in TickRow /\ HoldsRun(tick[w])
  BY <1>2, HeldRun DEF ResearchInv
<1>4. runs[r] \in RunRow
  BY <1>1, <1>3, SMTT(30) DEF HoldsRun, ResearchInv, RunsInv
<1>5. CASE CompleteRun(w)
  <2>1. PICK row : row = [runs[r] EXCEPT !.status = "COMPLETED", !.brief = tick[w].excerpts]
    OBVIOUS
  <2>2. /\ row \in RunRow /\ row.status = "COMPLETED" /\ row.fingerprint = runs[r].fingerprint
        /\ row.brief = tick[w].excerpts
    BY <1>3, <1>4, <2>1 DEF RunRow, ResearchStatuses, TickRow
  <2>3. EndRun(w, row) /\ row.brief = citations[r]
    BY <1>1, <1>3, <1>5, <2>1, <2>2 DEF CompleteRun, HoldsRun
  <2> QED
    BY <1>1, <1>2, <2>2, <2>3, EndRunKept
<1>6. CASE FailRun(w)
  <2>1. PICK row : row = [runs[r] EXCEPT !.status = "FAILED", !.failure = tick[w].cause]
    OBVIOUS
  <2>2. tick[w].cause = "model"
    BY <1>3, <1>6 DEF FailRun, HoldsRun
  <2>3. /\ row \in RunRow /\ row.status = "FAILED" /\ row.fingerprint = runs[r].fingerprint
        /\ row.failure = "model"
    BY <1>4, <2>1, <2>2 DEF RunRow, ResearchStatuses
  <2>4. EndRun(w, row)
    BY <1>1, <1>6, <2>1 DEF FailRun
  <2> QED
    BY <1>1, <1>2, <2>3, <2>4, EndRunKept
<1> QED
  BY <1>5, <1>6

-----------------------------------------------------------------------------
LEMMA MinuteKept ==
  ASSUME ResearchInv, Minute
  PROVE  ResearchInv'
<1> DEFINE ages(r) == runs[r].status = "PROCESSING" /\ runs[r].age <= Lease
           aged(r) == IF ages(r) THEN [runs[r] EXCEPT !.age = @ + 1] ELSE runs[r]
<1>1. runs \in Seq(RunRow) /\ runs' = [r \in DOMAIN runs |-> aged(r)]
  BY DEF ResearchInv, RunsInv, Minute
<1>2. ASSUME NEW r \in DOMAIN runs
      PROVE  /\ aged(r) \in RunRow /\ aged(r).fingerprint = runs[r].fingerprint
             /\ aged(r).status = runs[r].status /\ aged(r).brief = runs[r].brief
             /\ aged(r).failure = runs[r].failure
             /\ ages(r) => aged(r).age = runs[r].age + 1
  <2>1. runs[r] \in RunRow /\ runs[r].age \in 0..(Lease + 1)
    <3>1. runs[r] \in RunRow
      BY SMTT(30) DEF ResearchInv, RunsInv
    <3> QED
      BY <3>1 DEF RunRow
  <2>2. CASE ages(r)
    <3>1. runs[r].age + 1 \in 0..(Lease + 1)
      BY <2>1, <2>2, ResearchAssumption, SMTT(30)
    <3> QED
      BY <2>1, <2>2, <3>1 DEF RunRow
  <2>3. CASE ~ages(r)
    BY <2>1, <2>3
  <2> QED
    BY <2>2, <2>3
<1> HIDE DEF ages, aged
<1>3. /\ runs' \in Seq(RunRow) /\ DOMAIN runs' = DOMAIN runs /\ Len(runs') = Len(runs)
      /\ \A r \in DOMAIN runs : runs'[r] = aged(r)
  <2>1. runs' \in [1..Len(runs) -> RunRow] /\ Len(runs) \in Nat
    BY <1>1, <1>2, SMTT(30)
  <2> QED
    BY <1>1, <2>1, SMTT(30)
<1>4. RunsInv'
  <2>1. OneRunPerFingerprint'
    BY <1>2, <1>3, SMTT(30) DEF ResearchInv, RunsInv, OneRunPerFingerprint
  <2>2. BriefMatchesCitations' /\ RecoveryIsClean'
    BY <1>2, <1>3, SMTT(30) DEF ResearchInv, RunsInv, BriefMatchesCitations, RecoveryIsClean, Minute
  <2> QED
    BY <1>3, <2>1, <2>2 DEF ResearchInv, RunsInv, Minute
<1>5. ASSUME NEW w \in ResearchWorkers
      PROVE  tick'[w] \in TickRow /\ tick'[w].run = tick[w].run /\ TickOK(tick[w])'
  <2>1. tick[w] \in TickRow /\ TickOK(tick[w]) /\ tick[w].step \in {"idle", "model"}
    BY DEF ResearchInv, TicksInv, Minute
  <2>2. CASE tick[w].step = "idle"
    <3>1. tick'[w] = tick[w] /\ tick[w].run = 0
      BY <2>1, <2>2 DEF Minute, TickOK
    <3> QED
      BY <2>1, <2>2, <3>1 DEF TickOK
  <2>3. CASE tick[w].step = "model"
    <3>1. PICK t : t = [tick[w] EXCEPT !.waited = tick[w].waited + 1]
      OBVIOUS
    <3>2. tick'[w] = t /\ tick[w].waited < Timeout
      BY <2>3, <3>1 DEF Minute
    <3>3. /\ t \in TickRow /\ t.run = tick[w].run /\ t.waited = tick[w].waited + 1
          /\ t.step = "model" /\ t.excerpts = tick[w].excerpts /\ tick[w].waited \in Nat
      BY <2>1, <2>3, <3>1, SMTT(30) DEF TickRow
    <3>4. HoldsRun(tick[w]) /\ tick[w].run # 0
      BY <2>1, <2>3 DEF TickOK
    <3>5. ages(tick[w].run)
      BY <3>2, <3>3, <3>4, ResearchAssumption, SMTT(30) DEF HoldsRun, ages
    <3>6. /\ t.run \in DOMAIN runs' /\ runs'[t.run].status = "PROCESSING"
          /\ runs'[t.run].age = t.waited /\ t.waited <= Timeout
      BY <1>2, <1>3, <3>2, <3>3, <3>4, <3>5, ResearchAssumption, SMTT(30) DEF HoldsRun
    <3>7. citations'[t.run] = t.excerpts
      BY <2>3, <3>3, <3>4 DEF HoldsRun, Minute
    <3>8. TickOK(tick[w])'
      BY <3>2, <3>3, <3>4, <3>6, <3>7 DEF TickOK, HoldsRun
    <3> QED
      BY <3>2, <3>3, <3>8
  <2> QED
    BY <2>1, <2>2, <2>3
<1>6. TicksInv'
  <2>1. tick' \in [ResearchWorkers -> TickRow]
    BY <1>5 DEF Minute
  <2>2. NoPreemption'
    BY <1>5 DEF NoPreemption, ResearchInv, TicksInv
  <2> QED
    BY <1>5, <2>1, <2>2 DEF TicksInv
<1> QED
  BY <1>4, <1>6, SourcesRest DEF ResearchInv, CallersInv, Minute

LEMMA ResearchInvStart ==
  ResearchInit => ResearchInv
<1> SUFFICES ASSUME ResearchInit PROVE ResearchInv
  OBVIOUS
<1>1. RunsInv
  BY SMTT(30) DEF ResearchInit, RunsInv, OneRunPerFingerprint, BriefMatchesCitations, RecoveryIsClean
<1>2. CallersInv
  BY ResearchAssumption, SMTT(30) DEF ResearchInit, CallersInv
<1>3. TicksInv
  BY NoTickIsIdle DEF ResearchInit, TicksInv, TickOK, NoPreemption
<1>4. PICK order \in [1..Cardinality(SeededSources) -> SeededSources] :
        revisions = [i \in DOMAIN order |-> [source |-> order[i], checksum |-> 0]]
  BY DEF ResearchInit, SeededRevisions
<1>5. /\ revisions \in [1..Cardinality(SeededSources) -> RevisionRow]
      /\ \A i \in DOMAIN revisions : revisions[i].source \in SeededSources
  BY <1>4 DEF RevisionRow
<1>6. revisions \in Seq(RevisionRow)
  BY <1>5, ResearchAssumption, SMTT(30)
<1>7. RevisionsDiffer
  BY <1>5, ResearchAssumption DEF RevisionsDiffer, RevisionsOf
<1>8. SourcesInv
  BY <1>6, <1>7, ResearchAssumption, SMTT(30) DEF ResearchInit, SourcesInv, MonitorOK
<1> QED
  BY <1>1, <1>2, <1>3, <1>8 DEF ResearchInv

LEMMA ResearchInvKept ==
  ResearchInv /\ [ResearchNext]_researchVars => ResearchInv'
<1> SUFFICES ASSUME ResearchInv, [ResearchNext]_researchVars PROVE ResearchInv'
  OBVIOUS
<1>1. CASE ResearchNext
  BY <1>1, RequestKept, MonitorKept, BatchKept, ClearCitationsKept, RetrieveKept,
     SaveCitationsKept, SynthesizeKept, FinishKept, MinuteKept DEF ResearchNext, WorkerStep
<1>2. CASE UNCHANGED researchVars
  BY <1>2, RunsRest, TicksRest, SourcesRest DEF researchVars, ResearchInv, CallersInv
<1> QED
  BY <1>1, <1>2

LEMMA ResearchInvImplies ==
  ResearchInv => ResearchIsSound
<1> SUFFICES ASSUME ResearchInv PROVE ResearchIsSound
  OBVIOUS
<1>1. ResearchTypeOK
  BY SMTT(30) DEF ResearchTypeOK, CitationRow, ResearchInv, RunsInv, SourcesInv, TicksInv, CallersInv
<1> QED
  BY <1>1 DEF ResearchIsSound, ResearchInv, RunsInv, SourcesInv, TicksInv

(* Policy research, for any number of workers, requesters, sources and      *)
(* deaths, any batch size and any lease that is no shorter than the model's *)
(* timeout: a request is queued once, no bulletin is recorded twice in a    *)
(* row, a completed brief cites exactly what it was synthesized from, no    *)
(* run fails because of citations an earlier attempt left behind, and no    *)
(* worker takes over a run that a live one is researching                   *)
(* (policy-research.service.ts, policy-source-monitor.service.ts).          *)
THEOREM ResearchAlwaysSound ==
  ResearchSpec => []ResearchIsSound
BY ResearchInvStart, ResearchInvKept, ResearchInvImplies, PTL DEF ResearchSpec
==============================================================================
