--------------------------- MODULE AgentRunProofs ----------------------------
(***************************************************************************)
(* Theorems about the budget ledger and the attempts of an evaluation, for *)
(* every number of runs, keys, months, budgets, claims, reported costs,    *)
(* attempts, retries and case versions.                                    *)
(***************************************************************************)
EXTENDS AgentRun, TLAPS

(* Zenon is the prover of every leaf that names none.                       *)
USE ZenonT(90)

-----------------------------------------------------------------------------
(***************************************************************************)
(* AgentBudgetLedger.                                                      *)
(***************************************************************************)

(* A run without a row has spent and reserved nothing: what makes the       *)
(* capacity bound inductive, because CreateOrLoad sets the limit.           *)
NoRowNoUsage ==
  \A l \in Ledgers : version[l] = 0 =>
    used[l] = ZeroUnits /\ reserved[l] = ZeroUnits

LedgerInv == LedgerTypeOK /\ NoRowNoUsage /\ NeverOverspend

-----------------------------------------------------------------------------
(* The rows written by Init and by the claims are rows of their tables.     *)
LEMMA ZeroTypes ==
  /\ ZeroUnits \in Units
  /\ ZeroAggregate \in AggregateUnits
  /\ NoReservation \in Reservation
BY DEF ZeroUnits, ZeroAggregate, NoReservation, Units, AggregateUnits,
       Reservation, NoWindow

(* What a commit charges in each dimension is a natural number.             *)
LEMMA ChargeType ==
  ASSUME NEW r \in Reservation, NEW c \in Nat
  PROVE  /\ \A d \in Dimension : Charge(r, c, d) \in Nat
         /\ \A d \in AggregateDimension : Charge(r, c, d) \in Nat
         /\ Charge(r, c, "cost") = c
         /\ \A d \in Dimension \ {"cost"} : Charge(r, c, d) = r.units[d]
BY DEF Charge, Reservation, Units, Dimension, AggregateDimension

(* Resolving a row keeps it a row, its claim and its month.                 *)
LEMMA ResolvedType ==
  ASSUME NEW r \in Reservation, NEW c \in Nat,
         NEW s \in Live \cup Settled
  PROVE  Resolved(r, s, c) \in Reservation
BY DEF Resolved, Reservation

(* A claim of four natural numbers covers the two aggregate dimensions.     *)
LEMMA UnitsType ==
  ASSUME NEW u \in Units
  PROVE  /\ \A d \in Dimension : u[d] \in Nat
         /\ \A d \in AggregateDimension : u[d] \in Nat
BY DEF Units, Dimension, AggregateDimension

(* The invariant holds when no run has a ledger yet.                        *)
LEMMA InitInv == LedgerInit => LedgerInv
<1> SUFFICES ASSUME LedgerInit PROVE LedgerInv
  OBVIOUS
<1>1. LedgerTypeOK
  BY ZeroTypes, LedgerAssumption, SMTT(30) DEF LedgerInit, LedgerTypeOK, Month
<1>2. NoRowNoUsage /\ NeverOverspend
  BY SMTT(30) DEF LedgerInit, NoRowNoUsage, NeverOverspend, ZeroUnits
<1> QED
  BY <1>1, <1>2 DEF LedgerInv

(* A new row starts with its full capacity.                                 *)
LEMMA CreateOrLoadInv ==
  ASSUME LedgerInv, NEW l \in Ledgers, NEW budget \in Limits,
         CreateOrLoad(l, budget)
  PROVE  LedgerInv'
<1> USE DEF LedgerInv, CreateOrLoad
<1>1. LedgerTypeOK'
  BY LedgerAssumption DEF LedgerTypeOK
<1>2. NoRowNoUsage'
  BY DEF NoRowNoUsage, LedgerTypeOK
<1>3. NeverOverspend'
  <2> SUFFICES ASSUME NEW m \in Ledgers, NEW d \in Dimension
               PROVE  used[m][d] + reserved[m][d] <= limit'[m][d]
    BY DEF NeverOverspend
  <2>1. CASE m = l
    <3>1. used[l][d] = 0 /\ reserved[l][d] = 0
      BY DEF NoRowNoUsage, ZeroUnits
    <3>2. limit'[l][d] \in Nat
      BY <1>1, UnitsType DEF LedgerTypeOK
    <3> QED
      BY <2>1, <3>1, <3>2, SMTT(30)
  <2>2. CASE m # l
    BY <2>2 DEF NeverOverspend, LedgerTypeOK
  <2> QED
    BY <2>1, <2>2
<1> QED
  BY <1>1, <1>2, <1>3

(* The conditional UPDATE of reserve keeps a run within its limit.          *)
LEMMA ReserveInv ==
  ASSUME LedgerInv, NEW l \in Ledgers, NEW k \in Keys, NEW units \in Claims,
         NEW v, Reserve(l, k, units, v)
  PROVE  LedgerInv'
<1> USE DEF LedgerInv
<1>0. units \in Units /\ Fits(l, units)
  BY LedgerAssumption DEF Reserve, ReserveOutcome
<1>1. LedgerTypeOK'
  <2>1. reserved' \in [Ledgers -> Units]
    <3>1. [d \in Dimension |-> reserved[l][d] + units[d]] \in Units
      BY <1>0, UnitsType, SMTT(30) DEF LedgerTypeOK, Units
    <3> QED
      BY <3>1 DEF Reserve, LedgerTypeOK
  <2>2. reservation' \in [Ledgers -> [Keys -> Reservation]]
    <3> DEFINE row == [status |-> "RESERVED", units |-> units,
                       actualCost |-> 0,
                       window |-> IF NeedsAggregate(units) THEN month
                                                           ELSE NoWindow]
    <3>1. row \in Reservation
      BY <1>0 DEF Reservation, Live, LedgerTypeOK
    <3> HIDE DEF row
    <3>2. reservation' = [reservation EXCEPT ![l][k] = row]
      BY DEF Reserve, row
    <3> QED
      BY <3>1, <3>2 DEF LedgerTypeOK
  <2>3. monthReserved' \in [Month -> AggregateUnits]
    <3>1. [d \in AggregateDimension |-> monthReserved[month][d] + units[d]]
            \in AggregateUnits
      BY <1>0, UnitsType, SMTT(30) DEF LedgerTypeOK, AggregateUnits
    <3> QED
      BY <3>1 DEF Reserve, LedgerTypeOK
  <2> QED
    BY <2>1, <2>2, <2>3, SMTT(30) DEF Reserve, LedgerTypeOK
<1>2. NoRowNoUsage'
  BY SMTT(30) DEF NoRowNoUsage, LedgerTypeOK, Reserve
<1>3. NeverOverspend'
  <2> SUFFICES ASSUME NEW m \in Ledgers, NEW d \in Dimension
               PROVE  used[m][d] + reserved'[m][d] <= limit[m][d]
    BY DEF NeverOverspend, Reserve
  <2>1. CASE m = l
    <3>1. reserved'[l][d] = reserved[l][d] + units[d]
      BY DEF Reserve, LedgerTypeOK
    <3>2. /\ used[l][d] \in Nat /\ reserved[l][d] \in Nat
          /\ units[d] \in Nat /\ limit[l][d] \in Nat
      BY <1>0, UnitsType DEF LedgerTypeOK
    <3> QED
      BY <1>0, <2>1, <3>1, <3>2, SMTT(30) DEF Fits
  <2>2. CASE m # l
    BY <2>2 DEF NeverOverspend, LedgerTypeOK, Reserve
  <2> QED
    BY <2>1, <2>2
<1> QED
  BY <1>1, <1>2, <1>3

(* A commit moves a claim to the used counters, and an overage must fit.    *)
LEMMA CommitInv ==
  ASSUME LedgerInv, NEW l \in Ledgers, NEW k \in Keys, NEW c \in Nat,
         Commit(l, k, c)
  PROVE  LedgerInv'
<1> DEFINE r == reservation[l][k]
<1> USE DEF LedgerInv
<1>0. r \in Reservation /\ r.units \in Units
  BY DEF LedgerTypeOK, Reservation
<1>1. LedgerTypeOK'
  <2>1. used' \in [Ledgers -> Units]
    <3>1. [d \in Dimension |-> used[l][d] + Charge(r, c, d)] \in Units
      BY <1>0, UnitsType, ChargeType, SMTT(30) DEF LedgerTypeOK, Units
    <3> QED
      BY <3>1 DEF Commit, LedgerTypeOK
  <2>2. reserved' \in [Ledgers -> Units]
    <3>1. [d \in Dimension |-> reserved[l][d] - r.units[d]] \in Units
      BY <1>0, UnitsType, SMTT(30) DEF Commit, HoldsUnits, LedgerTypeOK, Units
    <3> QED
      BY <3>1 DEF Commit, LedgerTypeOK
  <2>3. reservation' \in [Ledgers -> [Keys -> Reservation]]
    <3>1. Resolved(r, "COMMITTED", c) \in Reservation
      BY <1>0, ResolvedType DEF Settled
    <3> QED
      BY <3>1 DEF Commit, LedgerTypeOK
  <2>4. /\ monthUsed' \in [Month -> AggregateUnits]
        /\ monthReserved' \in [Month -> AggregateUnits]
    <3>1. CASE r.window = NoWindow
      BY <3>1 DEF Commit, LedgerTypeOK
    <3>2. CASE r.window # NoWindow
      <4>0. r.window \in Month /\ AggregateCommits(r, c)
        BY <1>0, <3>2 DEF Commit, Reservation
      <4>1. [d \in AggregateDimension |->
               monthUsed[r.window][d] + Charge(r, c, d)] \in AggregateUnits
        BY <1>0, <4>0, ChargeType, SMTT(30) DEF LedgerTypeOK, AggregateUnits
      <4>2. [d \in AggregateDimension |->
               monthReserved[r.window][d] - r.units[d]] \in AggregateUnits
        BY <1>0, <4>0, UnitsType, SMTT(30)
           DEF AggregateCommits, ChargedMonth, LedgerTypeOK, AggregateUnits
      <4> QED
        BY <3>2, <4>0, <4>1, <4>2 DEF Commit, ChargedMonth, LedgerTypeOK
    <3> QED
      BY <3>1, <3>2
  <2> QED
    BY <2>1, <2>2, <2>3, <2>4, SMTT(30) DEF Commit, LedgerTypeOK
<1>2. NoRowNoUsage'
  BY SMTT(30) DEF NoRowNoUsage, LedgerTypeOK, Commit
<1>3. NeverOverspend'
  <2> SUFFICES ASSUME NEW m \in Ledgers, NEW d \in Dimension
               PROVE  used'[m][d] + reserved'[m][d] <= limit[m][d]
    BY DEF NeverOverspend, Commit
  <2>1. CASE m = l
    <3>1. /\ used'[l][d] = used[l][d] + Charge(r, c, d)
          /\ reserved'[l][d] = reserved[l][d] - r.units[d]
      BY DEF Commit, LedgerTypeOK
    <3>2. /\ used[l][d] \in Nat /\ reserved[l][d] \in Nat
          /\ r.units[d] \in Nat /\ limit[l][d] \in Nat
          /\ used[l][d] + reserved[l][d] <= limit[l][d]
      BY <1>0, UnitsType DEF LedgerTypeOK, NeverOverspend
    <3>3. CASE d = "cost"
      BY <1>0, <2>1, <3>1, <3>2, <3>3, ChargeType, SMTT(30) DEF Commit
    <3>4. CASE d # "cost"
      BY <1>0, <2>1, <3>1, <3>2, <3>4, ChargeType, SMTT(30)
    <3> QED
      BY <3>3, <3>4
  <2>2. CASE m # l
    BY <2>2 DEF NeverOverspend, LedgerTypeOK, Commit
  <2> QED
    BY <2>1, <2>2
<1> QED
  BY <1>1, <1>2, <1>3

(* A release only gives capacity back.                                      *)
LEMMA ReleaseInv ==
  ASSUME LedgerInv, NEW l \in Ledgers, NEW k \in Keys, Release(l, k)
  PROVE  LedgerInv'
<1> DEFINE r == reservation[l][k]
<1> USE DEF LedgerInv
<1>0. r \in Reservation /\ r.units \in Units
  BY DEF LedgerTypeOK, Reservation
<1>1. LedgerTypeOK'
  <2>1. reserved' \in [Ledgers -> Units]
    <3>1. [d \in Dimension |-> reserved[l][d] - r.units[d]] \in Units
      BY <1>0, UnitsType, SMTT(30) DEF Release, HoldsUnits, LedgerTypeOK, Units
    <3> QED
      BY <3>1 DEF Release, LedgerTypeOK
  <2>2. reservation' \in [Ledgers -> [Keys -> Reservation]]
    <3>1. Resolved(r, "RELEASED", 0) \in Reservation
      BY <1>0, ResolvedType DEF Settled
    <3> QED
      BY <3>1 DEF Release, LedgerTypeOK
  <2>3. monthReserved' \in [Month -> AggregateUnits]
    <3>1. CASE r.window = NoWindow
      BY <3>1 DEF Release, LedgerTypeOK
    <3>2. CASE r.window # NoWindow
      <4>0. r.window \in Month
        BY <1>0, <3>2 DEF Reservation
      <4>1. [d \in AggregateDimension |->
               monthReserved[r.window][d] - r.units[d]] \in AggregateUnits
        BY <1>0, <3>2, <4>0, UnitsType, SMTT(30)
           DEF Release, ChargedMonth, LedgerTypeOK, AggregateUnits
      <4> QED
        BY <3>2, <4>0, <4>1 DEF Release, ChargedMonth, LedgerTypeOK
    <3> QED
      BY <3>1, <3>2
  <2> QED
    BY <2>1, <2>2, <2>3, SMTT(30) DEF Release, LedgerTypeOK
<1>2. NoRowNoUsage'
  BY SMTT(30) DEF NoRowNoUsage, LedgerTypeOK, Release
<1>3. NeverOverspend'
  <2> SUFFICES ASSUME NEW m \in Ledgers, NEW d \in Dimension
               PROVE  used[m][d] + reserved'[m][d] <= limit[m][d]
    BY DEF NeverOverspend, Release
  <2>1. /\ used[m][d] \in Nat /\ reserved[m][d] \in Nat
        /\ r.units[d] \in Nat /\ limit[m][d] \in Nat
        /\ used[m][d] + reserved[m][d] <= limit[m][d]
    BY <1>0, UnitsType DEF LedgerTypeOK, NeverOverspend
  <2>2. reserved'[m][d] = reserved[m][d]
          \/ reserved'[m][d] = reserved[m][d] - r.units[d]
    BY DEF Release, LedgerTypeOK
  <2> QED
    BY <2>1, <2>2, SMTT(30)
<1> QED
  BY <1>1, <1>2, <1>3

(* The actions that change no counter.                                      *)
LEMMA OtherStepsInv ==
  ASSUME LedgerInv,
         \/ \E l \in Ledgers, k \in Keys : MarkUnknown(l, k)
         \/ \E l \in Ledgers : DeadlinePasses(l)
         \/ \E a \in Authorities : SetTenantBudget(a)
         \/ MonthRolls
         \/ UNCHANGED ledgerVars
  PROVE  LedgerInv'
<1> USE DEF LedgerInv
<1>1. LedgerTypeOK'
  <2>1. ASSUME NEW l \in Ledgers, NEW k \in Keys, MarkUnknown(l, k)
        PROVE  LedgerTypeOK'
    <3>1. reservation' \in [Ledgers -> [Keys -> Reservation]]
      <4>1. Resolved(reservation[l][k], "UNKNOWN", 0) \in Reservation
        BY ResolvedType DEF LedgerTypeOK, Live
      <4> QED
        BY <2>1, <4>1 DEF MarkUnknown, LedgerTypeOK
    <3> QED
      BY <2>1, <3>1 DEF MarkUnknown, LedgerTypeOK
  <2>2. CASE MonthRolls
    BY <2>2, LedgerAssumption, SMTT(30) DEF MonthRolls, LedgerTypeOK, Month
  <2> QED
    BY <2>1, <2>2 DEF LedgerTypeOK, DeadlinePasses, SetTenantBudget, ledgerVars
<1>2. UNCHANGED <<used, reserved, version, limit>>
  BY DEF MarkUnknown, DeadlinePasses, SetTenantBudget, MonthRolls, ledgerVars
<1>3. NoRowNoUsage' /\ NeverOverspend'
  BY <1>2 DEF NoRowNoUsage, NeverOverspend
<1> QED
  BY <1>1, <1>3

(* A cost that a settlement may commit is a natural number.                 *)
LEMMA CostType ==
  ASSUME LedgerTypeOK, NEW l \in Ledgers, NEW k \in Keys,
         NEW c \in Costs \cup {reservation[l][k].units["cost"]}
  PROVE  c \in Nat
<1>1. reservation[l][k].units \in Units
  BY DEF LedgerTypeOK, Reservation
<1> QED
  BY <1>1, LedgerAssumption DEF Units, Dimension

(* Every transaction of the service keeps the invariant.                    *)
LEMMA NextInv == LedgerInv /\ [LedgerNext]_ledgerVars => LedgerInv'
<1> SUFFICES ASSUME LedgerInv, [LedgerNext]_ledgerVars PROVE LedgerInv'
  OBVIOUS
<1>1. ASSUME NEW l \in Ledgers, NEW budget \in Limits, CreateOrLoad(l, budget)
      PROVE  LedgerInv'
  BY <1>1, CreateOrLoadInv
<1>2. ASSUME NEW l \in Ledgers, NEW k \in Keys, NEW units \in Claims,
             Reserve(l, k, units, version[l])
      PROVE  LedgerInv'
  BY <1>2, ReserveInv
<1>3. ASSUME NEW l \in Ledgers, NEW k \in Keys,
             NEW c \in Costs \cup {reservation[l][k].units["cost"]},
             Commit(l, k, c) \/ Reconcile(l, k, c)
      PROVE  LedgerInv'
  <2>1. c \in Nat
    BY CostType DEF LedgerInv
  <2> QED
    BY <1>3, <2>1, CommitInv, ReleaseInv DEF Reconcile
<1>4. ASSUME NEW l \in Ledgers, NEW k \in Keys, Release(l, k)
      PROVE  LedgerInv'
  BY <1>4, ReleaseInv
<1> QED
  BY <1>1, <1>2, <1>3, <1>4, OtherStepsInv DEF LedgerNext

(* The inductive invariant holds in every reachable state.                  *)
THEOREM LedgerInvariant == LedgerSpec => []LedgerInv
BY InitInv, NextInv, PTL DEF LedgerSpec

(* Rows keep their column types and no counter ever becomes negative.       *)
THEOREM LedgerTypeCorrect == LedgerSpec => []LedgerTypeOK
<1>1. LedgerInv => LedgerTypeOK
  BY DEF LedgerInv
<1> QED
  BY LedgerInvariant, <1>1, PTL

(* A run never spends or holds more than its limit, whatever its snapshot   *)
(* says.                                                                    *)
THEOREM LedgerNeverOverspends == LedgerSpec => []NeverOverspend
<1>1. LedgerInv => NeverOverspend
  BY DEF LedgerInv
<1> QED
  BY LedgerInvariant, <1>1, PTL

-----------------------------------------------------------------------------
(* No step of the service changes a settled reservation.                    *)
THEOREM LedgerSettledIsFinal == LedgerSpec => SettledIsFinal
<1> DEFINE Final == \A l \in Ledgers, k \in Keys :
                      reservation[l][k].status \in Settled =>
                        reservation'[l][k] = reservation[l][k]
<1>1. LedgerInv /\ [LedgerNext]_ledgerVars => [Final]_ledgerVars
  <2> SUFFICES ASSUME LedgerInv, LedgerNext,
                      NEW l \in Ledgers, NEW k \in Keys,
                      reservation[l][k].status \in Settled
               PROVE  reservation'[l][k] = reservation[l][k]
    OBVIOUS
  <2>0. reservation \in [Ledgers -> [Keys -> Reservation]]
    BY DEF LedgerInv, LedgerTypeOK
  <2>1. ASSUME NEW m \in Ledgers, NEW j \in Keys, NEW row,
               reservation' = [reservation EXCEPT ![m][j] = row],
               reservation[m][j].status \notin Settled
        PROVE  reservation'[l][k] = reservation[l][k]
    BY <2>0, <2>1
  <2>2. CASE UNCHANGED reservation
    BY <2>2
  <2>3. ASSUME NEW m \in Ledgers, NEW j \in Keys, NEW units \in Claims,
               Reserve(m, j, units, version[m])
        PROVE  reservation'[l][k] = reservation[l][k]
    BY <2>1, <2>3 DEF Reserve, Settled
  <2>4. ASSUME NEW m \in Ledgers, NEW j \in Keys, NEW c, Commit(m, j, c)
        PROVE  reservation'[l][k] = reservation[l][k]
    BY <2>1, <2>4 DEF Commit, Live, Settled
  <2>5. ASSUME NEW m \in Ledgers, NEW j \in Keys, Release(m, j)
        PROVE  reservation'[l][k] = reservation[l][k]
    BY <2>1, <2>5 DEF Release, Live, Settled
  <2>6. ASSUME NEW m \in Ledgers, NEW j \in Keys, MarkUnknown(m, j)
        PROVE  reservation'[l][k] = reservation[l][k]
    BY <2>1, <2>6 DEF MarkUnknown, Settled
  <2> QED
    BY <2>2, <2>3, <2>4, <2>5, <2>6
       DEF LedgerNext, CreateOrLoad, DeadlinePasses, Reconcile,
           SetTenantBudget, MonthRolls
<1> QED
  BY <1>1, LedgerInvariant, PTL DEF LedgerSpec, SettledIsFinal

(* No interleaving of parallel runs raises a month's usage past the ceiling *)
(* in force at that step.                                                   *)
THEOREM LedgerMonthGrowsWithinAuthority ==
  LedgerSpec => MonthGrowsWithinAuthority
<1> DEFINE Total(m, d) == monthUsed[m][d] + monthReserved[m][d]
           After(m, d) == monthUsed'[m][d] + monthReserved'[m][d]
           Bounded == \A m \in Month, d \in AggregateDimension :
                        After(m, d) > Total(m, d) =>
                          /\ authority.enabled
                          /\ After(m, d) <= authority.limit[d]
<1>1. LedgerInv /\ [LedgerNext]_ledgerVars => [Bounded]_ledgerVars
  <2> SUFFICES ASSUME LedgerInv, LedgerNext,
                      NEW m \in Month, NEW d \in AggregateDimension,
                      After(m, d) > Total(m, d)
               PROVE  authority.enabled /\ After(m, d) <= authority.limit[d]
    OBVIOUS
  <2>0. /\ LedgerTypeOK
        /\ monthUsed[m][d] \in Nat /\ monthReserved[m][d] \in Nat
        /\ month \in Month
    BY DEF LedgerInv, LedgerTypeOK, AggregateUnits
  <2>1. ASSUME UNCHANGED <<monthUsed, monthReserved>> PROVE FALSE
    BY <2>0, <2>1, SMTT(30)
  <2>2. ASSUME NEW l \in Ledgers, NEW k \in Keys, NEW units \in Claims,
               Reserve(l, k, units, version[l])
        PROVE  authority.enabled /\ After(m, d) <= authority.limit[d]
    <3>1. NeedsAggregate(units) /\ m = month
      BY <2>0, <2>1, <2>2, SMTT(30) DEF Reserve, LedgerTypeOK
    <3>2. After(m, d) = Total(m, d) + units[d]
      <4>1. units[d] \in Nat
        BY LedgerAssumption, UnitsType
      <4> QED
        BY <2>0, <2>2, <3>1, <4>1, SMTT(30) DEF Reserve, LedgerTypeOK
    <3>3. AggregateFits(units)
      BY <2>2, <3>1 DEF Reserve
    <3> QED
      BY <3>1, <3>2, <3>3 DEF AggregateFits
  <2>3. ASSUME NEW l \in Ledgers, NEW k \in Keys, NEW c \in Nat, Commit(l, k, c)
        PROVE  authority.enabled /\ After(m, d) <= authority.limit[d]
    <3> DEFINE r == reservation[l][k]
    <3>0. r \in Reservation /\ r.units \in Units /\ r.units[d] \in Nat
      <4>1. r \in Reservation /\ r.units \in Units
        BY <2>0 DEF LedgerTypeOK, Reservation
      <4> QED
        BY <4>1, UnitsType
    <3>1. r.window # NoWindow /\ m = r.window /\ AggregateCommits(r, c)
      <4>1. r.window # NoWindow
        BY <2>1, <2>3 DEF Commit
      <4>2. m # r.window => monthUsed'[m] = monthUsed[m]
                              /\ monthReserved'[m] = monthReserved[m]
        BY <2>0, <2>3, <4>1 DEF Commit, ChargedMonth, LedgerTypeOK
      <4>3. m = r.window
        BY <2>0, <4>2, SMTT(30)
      <4> QED
        BY <2>3, <4>1, <4>3 DEF Commit
    <3>2. /\ monthUsed'[m][d] = monthUsed[m][d] + Charge(r, c, d)
          /\ monthReserved'[m][d] = monthReserved[m][d] - r.units[d]
      <4>1. /\ monthUsed' = [monthUsed EXCEPT ![m] =
                 [e \in AggregateDimension |->
                    monthUsed[m][e] + Charge(r, c, e)]]
            /\ monthReserved' = [monthReserved EXCEPT ![m] =
                 [e \in AggregateDimension |->
                    monthReserved[m][e] - r.units[e]]]
        BY <2>3, <3>1 DEF Commit, ChargedMonth
      <4>2. /\ monthUsed \in [Month -> AggregateUnits]
            /\ monthReserved \in [Month -> AggregateUnits]
        BY <2>0 DEF LedgerTypeOK
      <4> QED
        BY <4>1, <4>2
    <3>3. d = "cost" /\ Charge(r, c, d) = c
      <4>1. d # "cost" => Charge(r, c, d) = r.units[d]
        BY <3>0, ChargeType DEF Dimension, AggregateDimension
      <4>2. d # "cost" => After(m, d) = Total(m, d)
        BY <2>0, <3>0, <3>2, <4>1, SMTT(30)
      <4> QED
        BY <2>0, <3>0, <4>2, ChargeType, SMTT(30)
    <3>4. c > r.units["cost"]
      BY <2>0, <3>0, <3>2, <3>3, SMTT(30)
    <3>5. authority.limit[d] \in Nat
      <4>1. authority \in [enabled : BOOLEAN, limit : AggregateUnits,
                            currency : STRING]
        BY <2>0, LedgerAssumption DEF LedgerTypeOK
      <4> QED
        BY <4>1 DEF AggregateUnits
    <3>6. /\ authority.enabled
          /\ monthUsed[m][d] - r.units[d] + c + monthReserved[m][d]
               <= authority.limit[d]
      <4>1. ~(c <= r.units["cost"])
        BY <3>0, <3>3, <3>4, SMTT(30)
      <4> QED
        BY <3>1, <3>3, <4>1 DEF AggregateCommits, ChargedMonth
    <3> QED
      BY <2>0, <3>0, <3>2, <3>3, <3>5, <3>6, SMTT(30)
  <2>4. ASSUME NEW l \in Ledgers, NEW k \in Keys, Release(l, k) PROVE FALSE
    <3> DEFINE r == reservation[l][k]
    <3>0. r.units[d] \in Nat
      <4>1. r \in Reservation /\ r.units \in Units
        BY <2>0 DEF LedgerTypeOK, Reservation
      <4> QED
        BY <4>1, UnitsType
    <3>1. /\ monthUsed'[m][d] = monthUsed[m][d]
          /\ \/ monthReserved'[m][d] = monthReserved[m][d]
             \/ monthReserved'[m][d] = monthReserved[m][d] - r.units[d]
      BY <2>0, <2>4 DEF Release, ChargedMonth, LedgerTypeOK
    <3> QED
      BY <2>0, <3>0, <3>1, SMTT(30)
  <2>5. ASSUME NEW l \in Ledgers, NEW k \in Keys,
               NEW c \in Costs \cup {reservation[l][k].units["cost"]},
               Commit(l, k, c) \/ Reconcile(l, k, c)
        PROVE  authority.enabled /\ After(m, d) <= authority.limit[d]
    <3>1. c \in Nat
      BY <2>0, CostType
    <3> QED
      BY <2>3, <2>4, <2>5, <3>1 DEF Reconcile
  <2> QED
    BY <2>1, <2>2, <2>4, <2>5
       DEF LedgerNext, CreateOrLoad, DeadlinePasses, MarkUnknown,
           SetTenantBudget, MonthRolls
<1> QED
  BY <1>1, LedgerInvariant, PTL DEF LedgerSpec, MonthGrowsWithinAuthority

-----------------------------------------------------------------------------
(***************************************************************************)
(* AgentRun.                                                               *)
(***************************************************************************)

(***************************************************************************)
(* The ledger under the runtime.                                           *)
(***************************************************************************)

(* What an attempt's steps need to name an existing key.                    *)
KeysTyped ==
  /\ node \in [Attempts -> Node]
  /\ seenCase \in [Attempts -> CaseVersions]

(* The idempotency key of an attempt is a key of the ledger.                *)
LEMMA KeyIsKey ==
  ASSUME KeysTyped, NEW a \in Attempts
  PROVE  Key(a) \in Keys
BY AgentRunAssumption DEF KeysTyped, Key

(* The units of every node are units a caller may claim.                    *)
LEMMA UnitsOfClaim ==
  ASSUME NEW n \in Node PROVE UnitsOf(n) \in Claims
BY AgentRunAssumption DEF UnitsOf

(* The runtime touches the ledger only through its operations.              *)
LEMMA StepIsLedgerStep ==
  ASSUME KeysTyped, [Next]_vars
  PROVE  [LedgerNext]_ledgerVars
<1> USE AgentRunAssumption
<1>1. ASSUME NEW k \in Keys, NEW u \in Claims, NEW v, Reserve(Run, k, u, v)
      PROVE  LedgerNext
  <2>1. Reserve(Run, k, u, version[Run])
    BY <1>1 DEF Reserve, ReserveOutcome
  <2> QED
    BY <2>1 DEF LedgerNext
<1>2. ASSUME NEW k \in Keys, Commit(Run, k, 0) PROVE LedgerNext
  BY <1>2 DEF LedgerNext
<1>3. ASSUME NEW k \in Keys, Release(Run, k) PROVE LedgerNext
  BY <1>3 DEF LedgerNext
<1>4. ASSUME NEW k \in Keys, MarkUnknown(Run, k) PROVE LedgerNext
  BY <1>4 DEF LedgerNext
<1>5. ASSUME NEW a \in Attempts, Step(a) PROVE [LedgerNext]_ledgerVars
  <2>0. Key(a) \in Keys /\ UnitsOf(node[a]) \in Claims
    BY KeyIsKey, UnitsOfClaim DEF KeysTyped
  <2>1. CASE Start(a)
    BY <2>1 DEF Start, LedgerNext
  <2>2. CASE Claim(a)
    BY <2>0, <2>2, <1>1 DEF Claim
  <2>3. CASE Quarantine(a)
    BY <2>0, <2>3, <1>4 DEF Quarantine
  <2>4. CASE Settle(a)
    BY <2>0, <2>4, <1>2 DEF Settle
  <2>5. CASE SettlePlan(a)
    BY <2>0, <2>5, <1>2 DEF SettlePlan
  <2>6. CASE Abandon(a)
    BY <2>0, <2>6, <1>3 DEF Abandon
  <2>7. CASE \/ Lookup(a) \/ Invoke(a) \/ Write(a) \/ Find(a) \/ Plan(a)
             \/ Persist(a) \/ Record(a) \/ Finalize(a)
    BY <2>7 DEF Lookup, Invoke, Write, Find, Plan, Persist, Record, Finalize
  <2> QED
    BY <1>5, <2>1, <2>2, <2>3, <2>4, <2>5, <2>6, <2>7 DEF Step
<1>6. ASSUME NEW a \in Attempts, Throw(a) PROVE [LedgerNext]_ledgerVars
  BY <1>6 DEF Throw
<1>7. CASE Retry \/ GiveUp \/ Accept \/ Resume \/ CaseChanges
  BY <1>7 DEF Retry, GiveUp, Accept, Resume, CaseChanges, Begin
<1>8. CASE ReviewerReconciles
  BY <1>8 DEF ReviewerReconciles, LedgerNext
<1>9. CASE Expires
  BY <1>9 DEF Expires, LedgerNext
<1>10. CASE UNCHANGED vars
  BY <1>10 DEF vars
<1> QED
  BY <1>5, <1>6, <1>7, <1>8, <1>9, <1>10 DEF Next

-----------------------------------------------------------------------------
(***************************************************************************)
(* The inductive invariant.                                                *)
(***************************************************************************)

(* The attempts that are left to Temporal fit in Attempts, and only a       *)
(* planner decision is ever persisted.                                      *)
ControlInv ==
  /\ tries \in 1..MaxTries
  /\ current + (MaxTries - tries) <= MaxAttempts
  /\ \A a \in Attempts :
       pc[a] = "persist" => invocation[a] \in Decisions

(* An attempt that is about to run a side effect.                           *)
InFlight(a) == pc[a] \in {"invoke", "write"} /\ node[a] \in SideEffecting

(* Where each attempt is, as far as the planner and the write  *)
(* of a condition are concerned.                                            *)
PlacesInv ==
  \A a \in Attempts :
    /\ pc[a] \in {"find", "plan", "persist", "settlePlan", "abandon"} =>
         node[a] = "agent_planner"
    /\ pc[a] = "write" => node[a] = "create_condition"

(* Only the attempt that inserted the reservation of a key gets to run its  *)
(* side effect, and it has not done so yet.                                 *)
EffectInv ==
  /\ PlacesInv
  /\ \A a \in Attempts : InFlight(a) =>
       Row(a).status # "NONE" /\ executions[Key(a)] = 0
  /\ \A a, b \in Attempts :
       InFlight(a) /\ InFlight(b) /\ a # b => Key(a) # Key(b)
  /\ \A k \in Keys : k[2] \in SideEffecting =>
       /\ executions[k] <= 1
       /\ reservation[Run][k].status = "NONE" => executions[k] = 0

RunInv == LedgerInv /\ TypeOK /\ ControlInv /\ EffectInv

(* The labels an attempt may move to after a receipt.                       *)
LEMMA AfterReceiptType ==
  ASSUME NEW n \in Node
  PROVE  /\ n = "agent_planner" => AfterReceipt(n) = "find"
         /\ n = "resolve_outcome" => AfterReceipt(n) = "settle"
         /\ n \notin {"agent_planner", "resolve_outcome"} =>
              AfterReceipt(n) = "invoke"
         /\ AfterReceipt(n) \in {"find", "settle", "invoke"}
BY DEF AfterReceipt, Node

(* The invariant holds initially.                                           *)
LEMMA RunInitInv == Init => RunInv
<1> SUFFICES ASSUME Init PROVE RunInv
  OBVIOUS
<1> USE AgentRunAssumption
<1>1. LedgerInv /\ LedgerTypeOK
  BY InitInv DEF Init, LedgerInv
<1>2. TypeOK
  BY <1>1, SMTT(30) DEF Init, TypeOK, Node, Attempts, CaseVersions, Running,
                 Invocations, Causes
<1>3. ControlInv
  <2>1. tries \in 1..MaxTries /\ current + (MaxTries - tries) <= MaxAttempts
    BY SMTT(30) DEF Init
  <2>2. \A a \in Attempts : pc[a] # "persist"
    BY DEF Init
  <2> QED
    BY <2>1, <2>2 DEF ControlInv
<1>4. EffectInv
  BY SMTT(30) DEF Init, EffectInv, PlacesInv, InFlight, SideEffecting
<1> QED
  BY <1>1, <1>2, <1>3, <1>4 DEF RunInv

-----------------------------------------------------------------------------
(* A snapshot shows a version and a nonnegative number of remaining steps.  *)
SnapshotOK ==
  /\ version[Run] \in Nat
  /\ limit[Run]["step"] - used[Run]["step"] - reserved[Run]["step"] \in Nat

(* Because the ledger is never overspent, its snapshots are well-formed.    *)
LEMMA SnapshotType == LedgerInv => SnapshotOK
<1> SUFFICES ASSUME LedgerInv PROVE SnapshotOK
  OBVIOUS
<1> USE AgentRunAssumption
<1>1. version[Run] \in Nat
  BY DEF LedgerInv, LedgerTypeOK
<1>2. /\ limit[Run]["step"] \in Nat /\ used[Run]["step"] \in Nat
      /\ reserved[Run]["step"] \in Nat
  BY UnitsType DEF LedgerInv, LedgerTypeOK, Dimension
<1>3. used[Run]["step"] + reserved[Run]["step"] <= limit[Run]["step"]
  BY DEF LedgerInv, NeverOverspend, Dimension
<1> QED
  BY <1>1, <1>2, <1>3, SMTT(30) DEF SnapshotOK

(* An attempt that applies a snapshot keeps numbers to compare with.        *)
LEMMA SnapshotTyped ==
  ASSUME TypeOK, SnapshotOK', NEW a \in Attempts, ApplySnapshot(a)
  PROVE  seenLedger' \in [Attempts -> Nat] /\ seenSteps' \in [Attempts -> Nat]
<1>1. version'[Run] \in Nat
  BY DEF SnapshotOK
<1>2. limit'[Run]["step"] - used'[Run]["step"] - reserved'[Run]["step"] \in Nat
  BY DEF SnapshotOK
<1>3. seenLedger \in [Attempts -> Nat] /\ seenSteps \in [Attempts -> Nat]
  BY DEF TypeOK
<1>4. seenLedger' \in [Attempts -> Nat]
  BY <1>1, <1>3 DEF ApplySnapshot
<1>5. seenSteps' \in [Attempts -> Nat]
  BY <1>2, <1>3 DEF ApplySnapshot
<1> QED
  BY <1>4, <1>5

(* A step that leaves the attempts at places of the graph, and brings none  *)
(* of them to where a decision is persisted.                                *)
MoveTyped ==
  /\ pc' \in [Attempts -> Running \cup {"idle", "start", "done", "thrown"}]
  /\ \A b \in Attempts : pc'[b] = "persist" => pc[b] = "persist"
  /\ result' \in [Attempts -> {"NONE"} \cup Outcomes]
  /\ cause' \in [Attempts -> {"NONE"} \cup Causes]

(* Going on with another step is such a move,                               *)
LEMMA GotoTyped ==
  ASSUME TypeOK, NEW a \in Attempts,
         NEW label \in (Running \cup {"done", "thrown"}) \ {"persist"}, Goto(a, label),
         UNCHANGED <<result, cause>>
  PROVE  MoveTyped
BY DEF TypeOK, MoveTyped, Goto

(* and so is entering a node of the graph,                                  *)
LEMMA EnterTyped ==
  ASSUME TypeOK, NEW a \in Attempts, NEW n \in Node, Enter(a, n)
  PROVE  MoveTyped /\ node' \in [Attempts -> Node]
<1>1. MoveTyped
  BY GotoTyped DEF Enter, Running
<1>2. node' \in [Attempts -> Node]
  BY DEF TypeOK, Enter
<1> QED
  BY <1>1, <1>2

(* or ending the run.                                                       *)
LEMMA EndRunTyped ==
  ASSUME TypeOK, NEW a \in Attempts, NEW route \in Outcomes,
         NEW why \in {"NONE"} \cup Causes, EndRun(a, route, why)
  PROVE  MoveTyped
BY DEF TypeOK, MoveTyped, EndRun, Goto, Running

(* Every step keeps the types and leaves Temporal enough attempts.          *)
LEMMA TypeStep ==
  ASSUME RunInv, [Next]_vars, LedgerInv'
  PROVE  TypeOK' /\ ControlInv'
<1> USE AgentRunAssumption
<1> USE DEF VerifyConsent, CheckCaseCompleteness, EvaluatePolicy,
            DraftInformationRequest, CreateCondition, Review, Interrupt,
            AfterCompleteness, AfterPolicy, AfterOutcome, AfterCondition,
            AfterDraft
<1>0. LedgerTypeOK' /\ TypeOK /\ ControlInv
  BY DEF RunInv, LedgerInv
<1> USE <1>0 DEF TypeOK, ControlInv
<1>1. SnapshotOK /\ SnapshotOK'
  <2>1. SnapshotOK
    BY SnapshotType DEF RunInv
  <2>2. SnapshotOK'
    BY SnapshotType, PTL
  <2> QED
    BY <2>1, <2>2
<1>2. ASSUME NEW a \in Attempts, Start(a) PROVE TypeOK' /\ ControlInv'
  <2>1. MoveTyped /\ node' \in [Attempts -> Node]
    <3>1. CASE Enter(a, "check_case_completeness")
      BY <3>1, EnterTyped DEF Node
    <3>2. CASE EndRun(a, "REVIEW_REQUIRED", "CONSENT") /\ UNCHANGED node
      BY <3>2, EndRunTyped DEF Outcomes, Causes
    <3> QED
      BY <1>2, <3>1, <3>2 DEF Start
  <2>2. seenLedger' \in [Attempts -> Nat] /\ seenSteps' \in [Attempts -> Nat]
    BY <1>1, <1>2, SnapshotTyped DEF Start
  <2>3. seenCase' \in [Attempts -> CaseVersions]
    BY <1>2 DEF Start
  <2>4. UNCHANGED <<sharedVars, temporalVars, receipt, invocation>>
    BY <1>2 DEF Start
  <2> QED
    BY <2>1, <2>2, <2>3, <2>4 DEF MoveTyped, sharedVars, temporalVars
<1>3. ASSUME NEW a \in Attempts, Lookup(a) PROVE TypeOK' /\ ControlInv'
  <2>1. receipt' \in [Attempts -> {"NONE"} \cup Live \cup Settled]
    <3>1. Row(a).status \in {"NONE"} \cup Live \cup Settled
      BY KeyIsKey, SMTT(30) DEF Row, LedgerTypeOK, Reservation, KeysTyped
    <3> QED
      BY <1>3, <3>1 DEF Lookup
  <2>2. /\ seenLedger' \in [Attempts -> Nat]
        /\ seenSteps' \in [Attempts -> Nat]
    BY <1>1, <1>3, SMTT(30) DEF Lookup, SnapshotOK
  <2>3. MoveTyped
    <3>1. PICK label \in {"claim", "quarantine", AfterReceipt(node[a])} :
            \/ Goto(a, label) /\ UNCHANGED <<result, cause>>
            \/ EndRun(a, "REVIEW_REQUIRED", "BUDGET")
            \/ EndRun(a, "REVIEW_REQUIRED", "REPLAY")
      BY <1>3 DEF Lookup
    <3>2. label \in (Running \cup {"done", "thrown"}) \ {"persist"}
      BY AfterReceiptType, SMTT(30) DEF Running
    <3>3. CASE Goto(a, label) /\ UNCHANGED <<result, cause>>
      BY <3>2, <3>3, GotoTyped
    <3>4. CASE EndRun(a, "REVIEW_REQUIRED", "BUDGET") \/ EndRun(a, "REVIEW_REQUIRED", "REPLAY")
      BY <3>4, EndRunTyped DEF Outcomes, Causes
    <3> QED
      BY <3>1, <3>3, <3>4
  <2>4. UNCHANGED <<sharedVars, temporalVars, node, seenCase, invocation>>
    BY <1>3 DEF Lookup
  <2> QED
    BY <2>1, <2>2, <2>3, <2>4 DEF MoveTyped, sharedVars, temporalVars
<1>4. ASSUME NEW a \in Attempts, Claim(a) PROVE TypeOK' /\ ControlInv'
  <2>1. UNCHANGED <<sharedVars, temporalVars, node, seenCase, invocation>>
    BY <1>4 DEF Claim
  <2>2. /\ MoveTyped
        /\ seenLedger' \in [Attempts -> Nat] /\ seenSteps' \in [Attempts -> Nat]
        /\ receipt' \in [Attempts -> {"NONE"} \cup Live \cup Settled]
    <3>1. CASE /\ receipt' = [receipt EXCEPT ![a] = "RESERVED"] /\ ApplySnapshot(a)
               /\ Goto(a, AfterReceipt(node[a])) /\ UNCHANGED <<result, cause>>
      <4>1. AfterReceipt(node[a]) \in (Running \cup {"done", "thrown"}) \ {"persist"}
        BY AfterReceiptType, SMTT(30) DEF Running
      <4>2. MoveTyped
        BY <3>1, <4>1, GotoTyped
      <4>3. seenLedger' \in [Attempts -> Nat] /\ seenSteps' \in [Attempts -> Nat]
        BY <1>1, <3>1, SnapshotTyped
      <4>4. receipt' \in [Attempts -> {"NONE"} \cup Live \cup Settled]
        BY <3>1 DEF Live
      <4> QED
        BY <4>2, <4>3, <4>4
    <3>2. CASE /\ EndRun(a, "REVIEW_REQUIRED", "BUDGET")
               /\ UNCHANGED <<receipt, seenLedger, seenSteps>>
      BY <3>2, EndRunTyped DEF Outcomes, Causes
    <3> QED
      BY <1>4, <3>1, <3>2 DEF Claim
  <2> QED
    BY <2>1, <2>2 DEF MoveTyped, sharedVars, temporalVars
<1>5. ASSUME NEW a \in Attempts, Quarantine(a) PROVE TypeOK' /\ ControlInv'
  BY <1>5 DEF Quarantine, sharedVars, temporalVars, EndRun, Goto, Running,
     Outcomes, Causes
<1>6. ASSUME NEW a \in Attempts, Invoke(a) \/ Write(a)
      PROVE  TypeOK' /\ ControlInv'
  <2>1. executions' \in [Keys -> Nat]
    <3>1. Executed(a) \/ UNCHANGED executions
      BY <1>6 DEF Invoke, Write
    <3> QED
      BY <3>1, KeyIsKey, SMTT(30) DEF Executed, KeysTyped
  <2> QED
    <3>1. \/ Goto(a, "write") /\ UNCHANGED invocation
          \/ \E outcome \in Invocations : Returns(a, outcome)
      BY <1>6 DEF Invoke, Write, Invocations
    <3>2. UNCHANGED <<modelRecord, temporalVars, node, seenCase, seenLedger, seenSteps,
                      receipt, result, cause>>
      BY <1>6 DEF Invoke, Write
    <3>3. caseVersion' \in Nat /\ conditions' \in Nat
      BY <1>6, SMTT(30) DEF Invoke, Write
    <3>4. MoveTyped
      <4>1. Goto(a, "write") \/ Goto(a, "settle")
        BY <3>1 DEF Returns
      <4> QED
        BY <3>2, <4>1, GotoTyped DEF Running
    <3>5. /\ invocation' \in [Attempts -> {"NONE"} \cup Invocations]
          /\ \A b \in Attempts : pc'[b] = "persist" => invocation'[b] = invocation[b]
      BY <3>1, SMTT(30) DEF Returns, Goto
    <3> QED
      BY <2>1, <3>2, <3>3, <3>4, <3>5 DEF MoveTyped, temporalVars
<1>7. ASSUME NEW a \in Attempts, Settle(a) PROVE TypeOK' /\ ControlInv'
  <2>1. \/ Continue(a)
        \/ EndRun(a, "REVIEW_REQUIRED", "BUDGET") /\ UNCHANGED node
    BY <1>7 DEF Settle
  <2>2. /\ pc' \in [Attempts -> Running \cup {"idle", "start", "done", "thrown"}]
        /\ \A b \in Attempts : pc'[b] = "persist" => pc[b] = "persist"
    BY <2>1 DEF Continue, Enter, EndRun, Goto, Running
  <2>3. node' \in [Attempts -> Node]
    BY <2>1 DEF Continue, Enter, Node
  <2>4. /\ result' \in [Attempts -> {"NONE"} \cup Outcomes]
        /\ cause' \in [Attempts -> {"NONE"} \cup Causes]
    BY <2>1 DEF Continue, Enter, EndRun, Outcomes, Causes
  <2>5. /\ seenLedger' \in [Attempts -> Nat]
        /\ seenSteps' \in [Attempts -> Nat]
    <3>1. ApplySnapshot(a) \/ UNCHANGED <<seenLedger, seenSteps>>
      BY <1>7 DEF Settle
    <3> QED
      BY <1>1, <3>1, SnapshotTyped
  <2>6. UNCHANGED <<sharedVars, temporalVars, seenCase, receipt, invocation>>
    BY <1>7 DEF Settle
  <2> QED
    BY <2>2, <2>3, <2>4, <2>5, <2>6 DEF sharedVars, temporalVars
<1>8. ASSUME NEW a \in Attempts, Find(a) \/ Persist(a)
      PROVE  TypeOK' /\ ControlInv'
  <2>1. CASE Find(a)
    BY <2>1, SMTT(30) DEF Find, sharedVars, temporalVars, Goto, Running, Invocations
  <2>2. CASE Persist(a)
    BY <2>2 DEF Persist, temporalVars, Goto, Running, Invocations
  <2> QED
    BY <1>8, <2>1, <2>2
<1>9. ASSUME NEW a \in Attempts, Plan(a) PROVE TypeOK' /\ ControlInv'
  <2>1. executions' \in [Keys -> Nat]
    BY <1>9, KeyIsKey, SMTT(30) DEF Plan, Executed, KeysTyped
  <2> QED
    <3>1. invocation' \in [Attempts -> {"NONE"} \cup Invocations]
      BY <1>9 DEF Plan, Invocations
    <3>2. pc' \in [Attempts -> Running \cup {"idle", "start", "done", "thrown"}]
      BY <1>9 DEF Plan, Goto, Running
    <3>3. \A b \in Attempts : pc'[b] = "persist" => invocation'[b] \in Decisions
      BY <1>9 DEF Plan, Goto
    <3> QED
      BY <1>9, <2>1, <3>1, <3>2, <3>3 DEF Plan, temporalVars
<1>10. ASSUME NEW a \in Attempts, SettlePlan(a) PROVE TypeOK' /\ ControlInv'
  <2>1. \/ Enter(a, "evaluate_policy")
        \/ EndRun(a, "INTERRUPTED", "MODEL") /\ UNCHANGED node
        \/ Goto(a, "abandon") /\ UNCHANGED <<node, result, cause>>
    BY <1>10 DEF SettlePlan, AfterPlan
  <2>2. ApplySnapshot(a) \/ UNCHANGED <<seenLedger, seenSteps>>
    BY <1>10 DEF SettlePlan
  <2>3. UNCHANGED <<sharedVars, temporalVars, seenCase, receipt, invocation>>
    BY <1>10 DEF SettlePlan
  <2>4. MoveTyped /\ node' \in [Attempts -> Node]
    <3>1. CASE Enter(a, "evaluate_policy")
      BY <3>1, EnterTyped DEF Node
    <3>2. CASE EndRun(a, "INTERRUPTED", "MODEL") /\ UNCHANGED node
      BY <3>2, EndRunTyped DEF Outcomes, Causes
    <3>3. CASE Goto(a, "abandon") /\ UNCHANGED <<node, result, cause>>
      BY <3>3, GotoTyped DEF Running
    <3> QED
      BY <2>1, <3>1, <3>2, <3>3
  <2>5. seenLedger' \in [Attempts -> Nat] /\ seenSteps' \in [Attempts -> Nat]
    BY <1>1, <2>2, SnapshotTyped
  <2> QED
    BY <2>3, <2>4, <2>5 DEF MoveTyped, sharedVars, temporalVars
<1>11. ASSUME NEW a \in Attempts, Abandon(a) PROVE TypeOK' /\ ControlInv'
  BY <1>11 DEF Abandon, sharedVars, temporalVars, EndRun, Goto, Running,
     Outcomes, Causes
<1>12. ASSUME NEW a \in Attempts, Record(a) \/ Finalize(a) \/ Throw(a)
       PROVE  TypeOK' /\ ControlInv'
  <2>1. PICK label \in {"finalize", "done", "thrown", "abandon"} : Goto(a, label)
    BY <1>12 DEF Record, Finalize, Throw
  <2>2. UNCHANGED <<modelRecord, executions, conditions, temporalVars, node, seenCase,
                    seenLedger, seenSteps, receipt, invocation, result, cause>>
    BY <1>12 DEF Record, Finalize, Throw, sharedVars
  <2>3. caseVersion' \in Nat
    <3>1. CASE Record(a) \/ Throw(a)
      BY <3>1 DEF Record, Throw, sharedVars
    <3>2. CASE Finalize(a)
      BY <3>2, SMTT(30) DEF Finalize
    <3> QED
      BY <1>12, <3>1, <3>2
  <2>4. MoveTyped
    BY <2>1, <2>2, GotoTyped DEF Running
  <2> QED
    BY <2>2, <2>3, <2>4 DEF MoveTyped, temporalVars
<1>13. CASE Retry \/ Resume
  <2>1. /\ current' \in Attempts /\ tries' \in 1..MaxTries
        /\ current' + (MaxTries - tries') <= MaxAttempts
    <3>1. \/ current' = current + 1 /\ tries' = tries + 1 /\ tries < MaxTries
          \/ /\ current' = current + 1 /\ tries' = 1
             /\ current + MaxTries <= MaxAttempts
      BY <1>13 DEF Retry, Resume, Begin
    <3>2. /\ MaxTries \in Nat /\ MaxAttempts \in Nat /\ 1 <= MaxTries
          /\ current \in 1..MaxAttempts /\ tries \in 1..MaxTries
          /\ current + (MaxTries - tries) <= MaxAttempts
      BY SMTT(30) DEF Attempts
    <3> HIDE <1>0 DEF TypeOK, ControlInv
    <3> QED
      BY <3>1, <3>2, SMTT(30) DEF Attempts
  <2>2. resumed' \subseteq Attempts
    BY <1>13, <2>1 DEF Retry, Resume, Begin
  <2>3. workflow' \in {"EVALUATING", "WAITING", "FINISHED"}
    BY <1>13 DEF Retry, Resume
  <2>4. pc' = [pc EXCEPT ![current'] = "start"]
    BY <1>13 DEF Retry, Resume, Begin
  <2> QED
    <3>1. UNCHANGED <<sharedVars, node, seenCase, seenLedger, seenSteps, receipt,
                      invocation, result, cause>>
      BY <1>13 DEF Retry, Resume, Begin
    <3>2. /\ pc' \in [Attempts -> Running \cup {"idle", "start", "done", "thrown"}]
          /\ \A b \in Attempts : pc'[b] = "persist" => pc[b] = "persist"
      BY <2>1, <2>4
    <3> QED
      <4>1. TypeOK'
        <5>1. tries' \in Nat
          BY <2>1, SMTT(30)
        <5> QED
          BY <2>1, <2>2, <2>3, <3>1, <3>2, <5>1 DEF sharedVars
      <4>2. ControlInv'
        BY <2>1, <3>1, <3>2
      <4> QED
        BY <4>1, <4>2
<1>14. CASE GiveUp \/ Accept \/ CaseChanges
  <2>1. UNCHANGED <<modelRecord, executions, conditions, current, tries, resumed, localVars>>
    BY <1>14 DEF GiveUp, Accept, CaseChanges, temporalVars
  <2>2. workflow' \in {"EVALUATING", "WAITING", "FINISHED"}
    BY <1>14 DEF GiveUp, Accept, CaseChanges, temporalVars
  <2>3. caseVersion' \in Nat
    BY <1>14, SMTT(30) DEF GiveUp, Accept, CaseChanges
  <2> QED
    BY <2>1, <2>2, <2>3 DEF localVars
<1>15. CASE ReviewerReconciles \/ Expires \/ UNCHANGED vars
  BY <1>15 DEF ReviewerReconciles, Expires, vars, sharedVars, temporalVars,
     localVars
<1> QED
  BY <1>2, <1>3, <1>4, <1>5, <1>6, <1>7, <1>8, <1>9, <1>10, <1>11, <1>12,
     <1>13, <1>14, <1>15 DEF Next, Step

-----------------------------------------------------------------------------
(***************************************************************************)
(* Side effects.                                                           *)
(***************************************************************************)

(* No row of the ledger ever disappears.                                    *)
LEMMA RowsStay ==
  ASSUME LedgerInv, [LedgerNext]_ledgerVars, NEW k \in Keys,
         reservation'[Run][k].status = "NONE"
  PROVE  reservation[Run][k].status = "NONE"
<1>0. reservation \in [Ledgers -> [Keys -> Reservation]] /\ Run \in Ledgers
  BY AgentRunAssumption DEF LedgerInv, LedgerTypeOK
<1>1. ASSUME NEW l \in Ledgers, NEW j \in Keys, NEW row,
             reservation' = [reservation EXCEPT ![l][j] = row],
             row.status # "NONE"
      PROVE  reservation[Run][k].status = "NONE"
  BY <1>0, <1>1
<1>2. ASSUME NEW l \in Ledgers, NEW j \in Keys,
             \/ \E units \in Claims : Reserve(l, j, units, version[l])
             \/ \E c : Commit(l, j, c)
             \/ Release(l, j)
             \/ MarkUnknown(l, j)
      PROVE  reservation[Run][k].status = "NONE"
  <2>1. CASE \E units \in Claims : Reserve(l, j, units, version[l])
    BY <1>1, <2>1, SMTT(30) DEF Reserve
  <2>2. CASE \E c : Commit(l, j, c)
    <3>1. PICK c : reservation' = [reservation EXCEPT ![l][j] =
                                     Resolved(reservation[l][j], "COMMITTED", c)]
      BY <2>2 DEF Commit
    <3>2. Resolved(reservation[l][j], "COMMITTED", c).status # "NONE"
      BY DEF Resolved
    <3> QED
      BY <1>1, <3>1, <3>2
  <2>3. CASE Release(l, j)
    <3>1. reservation' = [reservation EXCEPT ![l][j] =
                            Resolved(reservation[l][j], "RELEASED", 0)]
      BY <2>3 DEF Release
    <3>2. Resolved(reservation[l][j], "RELEASED", 0).status # "NONE"
      BY DEF Resolved
    <3> QED
      BY <1>1, <3>1, <3>2
  <2>4. CASE MarkUnknown(l, j)
    BY <1>1, <2>4, SMTT(30) DEF MarkUnknown, Resolved
  <2> QED
    BY <1>2, <2>1, <2>2, <2>3, <2>4
<1>3. CASE UNCHANGED reservation
  BY <1>3
<1> QED
  BY <1>2, <1>3 DEF LedgerNext, CreateOrLoad, DeadlinePasses, Reconcile,
     SetTenantBudget, MonthRolls, ledgerVars

(* A step that runs nothing and brings no attempt before a side effect.     *)
Quiet ==
  /\ \A k \in Keys : k[2] \in SideEffecting => executions'[k] = executions[k]
  /\ \A a \in Attempts : InFlight(a)' => InFlight(a) /\ Key(a)' = Key(a)

(* Quiet steps keep the rest of the effect invariant.                       *)
LEMMA QuietStep ==
  ASSUME RunInv, [LedgerNext]_ledgerVars, Quiet, PlacesInv', KeysTyped'
  PROVE  EffectInv'
<1>1. \A a \in Attempts : InFlight(a)' =>
        Row(a)'.status # "NONE" /\ executions'[Key(a)'] = 0
  <2> SUFFICES ASSUME NEW a \in Attempts, InFlight(a)'
               PROVE  Row(a)'.status # "NONE" /\ executions'[Key(a)'] = 0
    OBVIOUS
  <2>1. InFlight(a) /\ Key(a)' = Key(a)
    BY DEF Quiet
  <2>2. Key(a) \in Keys /\ Key(a)[2] \in SideEffecting
    BY <2>1, KeyIsKey DEF RunInv, TypeOK, KeysTyped, Key, InFlight
  <2>3. Row(a).status # "NONE" /\ executions[Key(a)] = 0
    BY <2>1 DEF RunInv, EffectInv
  <2>4. reservation'[Run][Key(a)].status # "NONE"
    BY <2>2, <2>3, RowsStay DEF RunInv, Row
  <2> QED
    BY <2>1, <2>2, <2>3, <2>4 DEF Quiet, Row
<1>2. \A a, b \in Attempts :
        InFlight(a)' /\ InFlight(b)' /\ a # b => Key(a)' # Key(b)'
  BY DEF Quiet, RunInv, EffectInv
<1>3. \A k \in Keys : k[2] \in SideEffecting =>
        /\ executions'[k] <= 1
        /\ reservation'[Run][k].status = "NONE" => executions'[k] = 0
  BY RowsStay DEF Quiet, RunInv, EffectInv
<1> QED
  BY <1>1, <1>2, <1>3 DEF EffectInv

(* Every step keeps the effect invariant.                                   *)
LEMMA EffectStep ==
  ASSUME RunInv, [Next]_vars, LedgerInv', TypeOK', ControlInv'
  PROVE  EffectInv'
<1> USE AgentRunAssumption
<1> USE DEF VerifyConsent, CheckCaseCompleteness, EvaluatePolicy,
            DraftInformationRequest, CreateCondition, Review, Interrupt,
            AfterCompleteness, AfterPolicy, AfterOutcome, AfterCondition,
            AfterDraft
<1>0. /\ TypeOK /\ KeysTyped /\ KeysTyped' /\ EffectInv /\ PlacesInv
      /\ [LedgerNext]_ledgerVars
  BY StepIsLedgerStep DEF RunInv, TypeOK, KeysTyped, EffectInv
<1>t. /\ pc \in [Attempts -> Running \cup {"idle", "start", "done", "thrown"}]
      /\ node \in [Attempts -> Node]
      /\ seenCase \in [Attempts -> CaseVersions]
      /\ executions \in [Keys -> Nat]
  BY <1>0 DEF TypeOK
<1>q. ASSUME Quiet, PlacesInv' PROVE EffectInv'
  BY <1>0, <1>q, QuietStep
<1> USE <1>t
<1>1. ASSUME NEW a \in Attempts, Start(a) PROVE EffectInv'
  <2>1. Quiet
    BY <1>1 DEF Start, Quiet, InFlight, Key, Enter, EndRun, Goto, sharedVars
  <2>2. PlacesInv'
    BY <1>0, <1>1 DEF Start, PlacesInv, Enter, EndRun, Goto
  <2> QED
    BY <2>1, <2>2, <1>q
<1>2. ASSUME NEW a \in Attempts, Lookup(a) PROVE EffectInv'
  <2>0. UNCHANGED <<node, seenCase, executions>>
    BY <1>2 DEF Lookup, sharedVars
  <2>a. \/ pc' = [pc EXCEPT ![a] = "record"]
        \/ pc' = [pc EXCEPT ![a] = "claim"]
        \/ pc' = [pc EXCEPT ![a] = "quarantine"]
        \/ /\ pc' = [pc EXCEPT ![a] = AfterReceipt(node[a])]
           /\ node[a] \notin SideEffecting
    BY <1>2 DEF Lookup, EndRun, Goto, MustQuarantine
  <2>b. /\ AfterReceipt(node[a]) \in {"find", "settle", "invoke"}
        /\ AfterReceipt(node[a]) = "find" => node[a] = "agent_planner"
    BY AfterReceiptType, SMTT(30)
  <2>1. Quiet
    BY <2>0, <2>a, <2>b DEF Quiet, InFlight, Key
  <2>2. PlacesInv'
    BY <1>0, <2>0, <2>a, <2>b DEF PlacesInv
  <2> QED
    BY <2>1, <2>2, <1>q
<1>3. ASSUME NEW a \in Attempts, Quarantine(a) \/ Settle(a) \/ Abandon(a)
      PROVE  EffectInv'
  <2>1. Quiet
    BY <1>3 DEF Quarantine, Settle, Abandon, Continue, Quiet, InFlight, Key,
       Enter, EndRun, Goto, sharedVars
  <2>2. PlacesInv'
    <3>1. CASE Quarantine(a)
      BY <1>0, <3>1 DEF Quarantine, PlacesInv, EndRun, Goto
    <3>2. CASE Settle(a)
      BY <1>0, <3>2, SMTT(30) DEF Settle, Continue, PlacesInv, Enter, EndRun, Goto
    <3>3. CASE Abandon(a)
      BY <1>0, <3>3 DEF Abandon, PlacesInv, EndRun, Goto
    <3> QED
      BY <1>3, <3>1, <3>2, <3>3
  <2> QED
    BY <2>1, <2>2, <1>q
<1>4. ASSUME NEW a \in Attempts, Find(a) \/ Persist(a) \/ SettlePlan(a)
      PROVE  EffectInv'
  <2>1. Quiet
    BY <1>4 DEF Find, Persist, SettlePlan, AfterPlan, Quiet, InFlight, Key,
       Enter, EndRun, Goto, sharedVars
  <2>2. PlacesInv'
    BY <1>0, <1>4 DEF Find, Persist, SettlePlan, AfterPlan, PlacesInv, Enter,
       EndRun, Goto
  <2> QED
    BY <2>1, <2>2, <1>q
<1>5. ASSUME NEW a \in Attempts, Record(a) \/ Finalize(a) \/ Throw(a)
      PROVE  EffectInv'
  <2>1. Quiet
    BY <1>5 DEF Record, Finalize, Throw, Quiet, InFlight, Key, Goto, sharedVars
  <2>2. PlacesInv'
    BY <1>0, <1>5 DEF Record, Finalize, Throw, PlacesInv, Goto
  <2> QED
    BY <2>1, <2>2, <1>q
<1>6. ASSUME NEW a \in Attempts, Plan(a) PROVE EffectInv'
  <2>1. Quiet
    <3>1. Key(a) \in Keys /\ Key(a)[2] \notin SideEffecting
      BY <1>0, <1>6, KeyIsKey DEF Plan, PlacesInv, Key, SideEffecting
    <3>2. \A k \in Keys : k[2] \in SideEffecting =>
            executions'[k] = executions[k]
      BY <1>6, <3>1 DEF Plan, Executed
    <3> QED
      BY <1>6, <3>2 DEF Plan, Quiet, InFlight, Key, Goto
  <2>2. PlacesInv'
    BY <1>0, <1>6 DEF Plan, PlacesInv, Goto
  <2> QED
    BY <2>1, <2>2, <1>q
<1>7. CASE Retry \/ Resume
  <2>1. Quiet
    BY <1>7 DEF Retry, Resume, Begin, Quiet, InFlight, Key, sharedVars
  <2>2. PlacesInv'
    BY <1>0, <1>7 DEF Retry, Resume, Begin, PlacesInv
  <2> QED
    BY <2>1, <2>2, <1>q
<1>8. CASE \/ GiveUp \/ Accept \/ CaseChanges \/ ReviewerReconciles
           \/ Expires \/ UNCHANGED vars
  <2>1. UNCHANGED <<localVars, executions>>
    BY <1>8 DEF GiveUp, Accept, CaseChanges, ReviewerReconciles, Expires,
       vars, sharedVars
  <2>2. Quiet /\ PlacesInv'
    BY <1>0, <2>1 DEF localVars, Quiet, PlacesInv, InFlight, Key
  <2> QED
    BY <2>2, <1>q
<1>9. ASSUME NEW a \in Attempts, Claim(a) PROVE EffectInv'
  <2>1. /\ UNCHANGED executions
        /\ \A b \in Attempts : Key(b)' = Key(b)
        /\ \A b \in Attempts \ {a} : InFlight(b)' => InFlight(b)
    BY <1>9 DEF Claim, sharedVars, Key, InFlight, EndRun, Goto
  <2>2. PlacesInv'
    <3>1. \/ pc' = [pc EXCEPT ![a] = "record"]
          \/ pc' = [pc EXCEPT ![a] = AfterReceipt(node[a])]
      BY <1>9 DEF Claim, EndRun, Goto
    <3>2. /\ AfterReceipt(node[a]) \in {"find", "settle", "invoke"}
          /\ AfterReceipt(node[a]) = "find" => node[a] = "agent_planner"
      BY AfterReceiptType, SMTT(30)
    <3>3. UNCHANGED node
      BY <1>9 DEF Claim
    <3> QED
      BY <1>0, <3>1, <3>2, <3>3 DEF PlacesInv
  <2>3. CASE ~InFlight(a)'
    BY <1>q, <2>1, <2>2, <2>3 DEF Quiet
  <2>4. CASE InFlight(a)'
    <3>1. Reserve(Run, Key(a), UnitsOf(node[a]), seenLedger[a])
      BY <1>9, <2>4 DEF Claim, InFlight, EndRun, Goto
    <3>2. /\ Key(a) \in Keys /\ Key(a)[2] \in SideEffecting
          /\ reservation[Run][Key(a)].status = "NONE"
      BY <1>0, <1>9, <2>4, <3>1, KeyIsKey DEF Reserve, Key, InFlight, Claim
    <3>3. reservation'[Run][Key(a)].status # "NONE"
      <4> DEFINE units == UnitsOf(node[a])
                 row == [status |-> "RESERVED", units |-> units,
                         actualCost |-> 0,
                         window |-> IF NeedsAggregate(units) THEN month
                                                             ELSE NoWindow]
      <4>0. row.status = "RESERVED"
        OBVIOUS
      <4>1. reservation' = [reservation EXCEPT ![Run][Key(a)] = row]
        BY <3>1 DEF Reserve
      <4> HIDE DEF row
      <4>2. reservation \in [Ledgers -> [Keys -> Reservation]]
        BY DEF RunInv, LedgerInv, LedgerTypeOK
      <4> QED
        BY <3>2, <4>0, <4>1, <4>2
    <3>4. \A b \in Attempts \ {a} : InFlight(b) => Key(b) # Key(a)
      BY <1>0, <3>2 DEF EffectInv, Row
    <3>5. ASSUME NEW b \in Attempts, InFlight(b)'
          PROVE  Row(b)'.status # "NONE" /\ executions'[Key(b)'] = 0
      <4>1. CASE b = a
        BY <1>0, <2>1, <3>2, <3>3, <4>1 DEF EffectInv, Row
      <4>2. CASE b # a
        <5>1. InFlight(b) /\ Key(b) \in Keys
          BY <1>0, <2>1, <3>5, <4>2, KeyIsKey
        <5>2. Row(b).status # "NONE" /\ executions[Key(b)] = 0
          BY <1>0, <5>1 DEF EffectInv
        <5> QED
          BY <1>0, <2>1, <5>1, <5>2, RowsStay DEF Row, RunInv
      <4> QED
        BY <4>1, <4>2
    <3>6. ASSUME NEW k \in Keys, k[2] \in SideEffecting
          PROVE  /\ executions'[k] <= 1
                 /\ reservation'[Run][k].status = "NONE" => executions'[k] = 0
      BY <1>0, <2>1, <3>6, RowsStay DEF EffectInv, RunInv
    <3>7. \A b, c \in Attempts :
            InFlight(b)' /\ InFlight(c)' /\ b # c => Key(b)' # Key(c)'
      BY <1>0, <2>1, <3>4 DEF EffectInv
    <3> QED
      BY <2>2, <3>5, <3>6, <3>7 DEF EffectInv
  <2> QED
    BY <2>3, <2>4
<1>10. ASSUME NEW a \in Attempts, Invoke(a) \/ Write(a) PROVE EffectInv'
  <2>1. /\ \A b \in Attempts : Key(b)' = Key(b)
        /\ \A b \in Attempts : InFlight(b)' => InFlight(b)
    BY <1>10 DEF Invoke, Write, Key, InFlight, Returns, Goto
  <2>2. PlacesInv'
    BY <1>0, <1>10 DEF Invoke, Write, PlacesInv, Returns, Goto
  <2>3. CASE UNCHANGED executions
    BY <1>q, <2>1, <2>2, <2>3 DEF Quiet
  <2>4. CASE Executed(a) /\ pc'[a] = "settle"
    <3>1. Key(a) \in Keys
      BY <1>0, KeyIsKey
    <3>2. \A k \in Keys \ {Key(a)} : executions'[k] = executions[k]
      BY <2>4 DEF Executed
    <3>3. ASSUME NEW b \in Attempts, InFlight(b)'
          PROVE  Row(b)'.status # "NONE" /\ executions'[Key(b)'] = 0
      <4>1. InFlight(b) /\ b # a /\ Key(b) \in Keys
        BY <1>0, <2>1, <2>4, <3>3, KeyIsKey DEF InFlight
      <4>2. Key(b)[2] \in SideEffecting
        BY <4>1 DEF InFlight, Key
      <4>3. Key(b) # Key(a)
        <5>1. Key(b) = Key(a) => node[a] \in SideEffecting
          BY <4>2 DEF Key
        <5>2. Key(b) = Key(a) => InFlight(a)
          BY <1>10, <5>1 DEF InFlight, Invoke, Write
        <5> QED
          BY <1>0, <4>1, <5>2 DEF EffectInv
      <4>4. Row(b).status # "NONE" /\ executions[Key(b)] = 0
        BY <1>0, <4>1 DEF EffectInv
      <4> QED
        BY <1>0, <2>1, <3>2, <4>1, <4>3, <4>4, RowsStay DEF Row, RunInv
    <3>4. ASSUME NEW k \in Keys, k[2] \in SideEffecting
          PROVE  /\ executions'[k] <= 1
                 /\ reservation'[Run][k].status = "NONE" => executions'[k] = 0
      <4>1. CASE k = Key(a)
        <5>1. InFlight(a)
          BY <1>10, <3>4, <4>1 DEF InFlight, Key, Invoke, Write
        <5>2. Row(a).status # "NONE" /\ executions[Key(a)] = 0
          BY <1>0, <5>1 DEF EffectInv
        <5>3. executions'[k] = 1
          BY <2>4, <3>1, <4>1, <5>2, SMTT(30) DEF Executed
        <5>4. reservation'[Run][k].status # "NONE"
          <6>1. reservation[Run][k].status # "NONE"
            BY <4>1, <5>2 DEF Row
          <6> QED
            BY <1>0, <6>1, RowsStay DEF RunInv
        <5> QED
          BY <5>3, <5>4, SMTT(30)
      <4>2. CASE k # Key(a)
        BY <1>0, <3>2, <3>4, <4>2, RowsStay DEF EffectInv, RunInv
      <4> QED
        BY <4>1, <4>2
    <3>5. \A b, c \in Attempts :
            InFlight(b)' /\ InFlight(c)' /\ b # c => Key(b)' # Key(c)'
      BY <1>0, <2>1 DEF EffectInv
    <3> QED
      BY <2>2, <3>3, <3>4, <3>5 DEF EffectInv
  <2> QED
    BY <1>10, <2>3, <2>4 DEF Invoke, Write, Returns, Goto
<1> QED
  BY <1>1, <1>2, <1>3, <1>4, <1>5, <1>6, <1>7, <1>8, <1>9, <1>10
     DEF Next, Step

-----------------------------------------------------------------------------
(* Every step keeps the invariant.                                          *)
LEMMA RunNextInv == RunInv /\ [Next]_vars => RunInv'
<1> SUFFICES ASSUME RunInv, [Next]_vars PROVE RunInv'
  OBVIOUS
<1>1. LedgerInv'
  BY StepIsLedgerStep, NextInv DEF RunInv, TypeOK, KeysTyped
<1>2. TypeOK' /\ ControlInv'
  BY <1>1, TypeStep
<1>3. EffectInv'
  BY <1>1, <1>2, EffectStep
<1> QED
  BY <1>1, <1>2, <1>3 DEF RunInv

(* The inductive invariant holds in every reachable state.                  *)
THEOREM RunInvariant == Spec => []RunInv
BY RunInitInv, RunNextInv, PTL DEF Spec

(* No attempt is started beyond the retry policy, no snapshot shows a       *)
(* negative step budget, and a side-effecting tool runs at most once for    *)
(* its idempotency key, whatever attempts overlap, throw, time out or are   *)
(* reconciled.                                                              *)
THEOREM RunAlwaysSafe == Spec => []RunIsSafe
<1>1. RunInv => RunIsSafe
  BY DEF RunInv, EffectInv, EffectOncePerKey, RunIsSafe
<1> QED
  BY RunInvariant, <1>1, PTL

(* The runtime implements the budget ledger: what is proved of LedgerSpec   *)
(* holds of every evaluation.                                               *)
THEOREM RunImplementsLedger == Spec => ImplementsLedger
<1>1. Init => LedgerInit
  BY DEF Init
<1>2. RunInv /\ [Next]_vars => [LedgerNext]_ledgerVars
  BY StepIsLedgerStep DEF RunInv, TypeOK, KeysTyped
<1> QED
  BY <1>1, <1>2, RunInvariant, PTL DEF Spec, ImplementsLedger

(* No evaluation ever spends more than the budget of its workflow run.      *)
THEOREM RunNeverOverspends == Spec => []NeverOverspend
BY RunImplementsLedger, LedgerNeverOverspends, PTL DEF ImplementsLedger, LedgerSpec
==============================================================================
