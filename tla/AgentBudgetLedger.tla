------------------------- MODULE AgentBudgetLedger -------------------------
(***************************************************************************)
(* The PostgreSQL authority for Agent budgets                              *)
(* (src/src/agent-runtime/agent-budget-ledger.service.ts), for one tenant. *)
(* Every query of the service filters on the tenant, so tenants do not     *)
(* interact.                                                               *)
(*                                                                         *)
(* A workflow run owns one ledger row; a reservation is identified by its  *)
(* ledger and its idempotency key (the unique constraint of the table); a  *)
(* usage row holds what all ledgers of the tenant used and reserved in one *)
(* UTC month.  Each action is one transaction of the service: reserve,     *)
(* commit and release lock the ledger row before they read or change       *)
(* anything they depend on, then the usage row, always in that order.  A   *)
(* transaction that throws is rolled back and changes nothing, so the      *)
(* failures are the states in which an action is disabled.                 *)
(***************************************************************************)
EXTENDS Integers, FiniteSetsExt

CONSTANTS
  Ledgers,         \* workflow runs of the tenant (a ledger row per run)
  Keys,            \* idempotency keys a caller may use in a ledger
  Limits,          \* budgets a run may be created with
  Claims,          \* units a caller may reserve
  Costs,           \* actual costs a settlement may report
  Authorities,     \* monthly tenant budgets an operator may configure
  LedgerCurrency,  \* the currency of the runs' budgets
  MaxMonth         \* bound: number of UTC months that are observed

(***************************************************************************)
(* The four budget dimensions of a ledger, and the two a tenant's monthly  *)
(* budget covers.                                                          *)
(***************************************************************************)
Dimension == {"step", "token", "providerCall", "cost"}
AggregateDimension == {"providerCall", "cost"}

Units == [Dimension -> Nat]
AggregateUnits == [AggregateDimension -> Nat]

NoWindow == 0
Month == 1..MaxMonth

(***************************************************************************)
(* A reservation row.  Status NONE stands for "no row"; window is the      *)
(* usage row it was charged to (null for a claim without provider calls    *)
(* and cost); actualCost is meaningful once COMMITTED.                     *)
(***************************************************************************)
LiveOrReleased == {"RESERVED", "UNKNOWN", "RELEASED"}     \* mutant of Live
Live == {"RESERVED", "UNKNOWN"}
Settled == {"COMMITTED", "RELEASED"}
Reservation == [status : {"NONE"} \cup Live \cup Settled,
                units : Units,
                window : {NoWindow} \cup Month,
                actualCost : Nat]

ASSUME LedgerAssumption ==
  /\ Limits \subseteq Units
  /\ Claims \subseteq Units
  /\ Costs \subseteq Nat
  /\ MaxMonth \in Nat \ {0}
  /\ Authorities \subseteq
       [enabled : BOOLEAN, limit : AggregateUnits, currency : STRING]

VARIABLES
  limit,        \* per ledger: the budget it was created with
  used,         \* per ledger: committed units
  reserved,     \* per ledger: units held by live reservations
  version,      \* per ledger: optimistic version; 0 when there is no row
  expired,      \* ledgers whose deadlineAt has passed
  reservation,  \* per ledger and key: the reservation row
  monthUsed,    \* per month: committed units of the usage row
  monthReserved,\* per month: reserved units of the usage row
  authority,    \* the tenant's monthly budget configuration
  month         \* the current UTC month

ledgerVars == <<limit, used, reserved, version, expired, reservation,
                monthUsed, monthReserved, authority, month>>

ZeroUnits == [d \in Dimension |-> 0]
ZeroAggregate == [d \in AggregateDimension |-> 0]
NoReservation == [status |-> "NONE", units |-> ZeroUnits,
                  window |-> NoWindow, actualCost |-> 0]

LedgerInit ==
  /\ limit = [l \in Ledgers |-> ZeroUnits]
  /\ used = [l \in Ledgers |-> ZeroUnits]
  /\ reserved = [l \in Ledgers |-> ZeroUnits]
  /\ version = [l \in Ledgers |-> 0]
  /\ expired = {}
  /\ reservation = [l \in Ledgers |-> [k \in Keys |-> NoReservation]]
  /\ monthUsed = [m \in Month |-> ZeroAggregate]
  /\ monthReserved = [m \in Month |-> ZeroAggregate]
  /\ authority \in Authorities
  /\ month = 1

-----------------------------------------------------------------------------
(***************************************************************************)
(* Operations of the service.                                              *)
(***************************************************************************)

(* INSERT ... ON CONFLICT DO NOTHING: a retry of the run loads the row it   *)
(* finds, with its capacity and deadline, and changes nothing.              *)
CreateOrLoad(l, budget) ==
  /\ version[l] = 0
  /\ limit' = [limit EXCEPT ![l] = budget]
  /\ version' = [version EXCEPT ![l] = 1]
  /\ UNCHANGED <<used, reserved, expired, reservation, monthUsed,
                 monthReserved, authority, month>>

FitsIgnoringReserved(l, units) ==                         \* mutant of Fits
  \A d \in Dimension : used[l][d] + units[d] <= limit[l][d]

Fits(l, units) ==
  \A d \in Dimension : used[l][d] + reserved[l][d] + units[d] <= limit[l][d]

(* Why the conditional UPDATE of reserve() matched no row, in the order     *)
(* throwReservationFailure looks; "OK" when it does match.                  *)
ReserveOutcome(l, units, expectedVersion) ==
  CASE l \in expired                       -> "DEADLINE_EXCEEDED"
    [] version[l] # expectedVersion        -> "LEDGER_VERSION_CONFLICT"
    [] ~Fits(l, units)                     -> "BUDGET_EXHAUSTED"
    [] OTHER                               -> "OK"

NeedsAggregate(units) == units["providerCall"] # 0 \/ units["cost"] # 0

AggregateFitsIgnoringReserved(units) ==          \* mutant of AggregateFits
  /\ authority.enabled
  /\ authority.currency = LedgerCurrency
  /\ \A d \in AggregateDimension :
       monthUsed[month][d] + units[d] <= authority.limit[d]

(* reserveTenantAggregate: the usage row of the current month (inserted on  *)
(* first use) takes the claim only under a configured budget in the         *)
(* ledger's currency that still has room.                                   *)
AggregateFits(units) ==
  /\ authority.enabled
  /\ authority.currency = LedgerCurrency
  /\ \A d \in AggregateDimension :
       monthUsed[month][d] + monthReserved[month][d] + units[d]
         <= authority.limit[d]

Reserve(l, k, units, expectedVersion) ==
  /\ version[l] > 0
  /\ units # ZeroUnits
  /\ reservation[l][k].status = "NONE"
  /\ ReserveOutcome(l, units, expectedVersion) = "OK"
  /\ NeedsAggregate(units) => AggregateFits(units)
  /\ reserved' = [reserved EXCEPT
                    ![l] = [d \in Dimension |-> reserved[l][d] + units[d]]]
  /\ version' = [version EXCEPT ![l] = version[l] + 1]
  /\ reservation' = [reservation EXCEPT ![l][k] =
       [status |-> "RESERVED", units |-> units, actualCost |-> 0,
        window |-> IF NeedsAggregate(units) THEN month ELSE NoWindow]]
  /\ monthReserved' = IF NeedsAggregate(units)
       THEN [monthReserved EXCEPT ![month] =
              [d \in AggregateDimension |-> monthReserved[month][d] + units[d]]]
       ELSE monthReserved
  /\ UNCHANGED <<limit, used, expired, monthUsed, authority, month>>

(* The usage row a settlement adjusts: the one the claim was charged to,    *)
(* not the current month's.                                                 *)
CurrentMonth(r) == month                          \* mutant of ChargedMonth
ChargedMonth(r) == r.window

(* commitTenantAggregate: an actual cost above the claim needs room in      *)
(* today's configuration.                                                   *)
AggregateCommits(r, actualCost) ==
  /\ \A d \in AggregateDimension :
       monthReserved[ChargedMonth(r)][d] >= r.units[d]
  /\ \/ actualCost <= r.units["cost"]
     \/ /\ authority.enabled
        /\ authority.currency = LedgerCurrency
        /\ monthUsed[ChargedMonth(r)]["cost"] - r.units["cost"] + actualCost
             + monthReserved[ChargedMonth(r)]["cost"] <= authority.limit["cost"]

(* What a commit adds to the used counter of dimension d.                   *)
ChargeReservedCost(r, actualCost, d) == r.units[d]          \* mutant of Charge
ChargeDifference(r, actualCost, d) ==                       \* mutant of Charge
  IF d = "cost" THEN actualCost - r.units[d] ELSE r.units[d]
Charge(r, actualCost, d) == IF d = "cost" THEN actualCost ELSE r.units[d]

(* The nonnegativity CHECKs of the tables abort a transaction that would    *)
(* take a reserved counter below zero.                                      *)
HoldsUnits(l, units) == \A d \in Dimension : reserved[l][d] >= units[d]

Resolved(r, newStatus, actualCost) ==
  [status |-> newStatus, units |-> r.units, window |-> r.window,
   actualCost |-> actualCost]

Commit(l, k, actualCost) ==
  LET r == reservation[l][k] IN
  /\ r.status \in Live
  /\ HoldsUnits(l, r.units)
  /\ used[l]["cost"] + reserved[l]["cost"] - r.units["cost"] + actualCost
       <= limit[l]["cost"]
  /\ r.window # NoWindow => AggregateCommits(r, actualCost)
  /\ used' = [used EXCEPT ![l] =
       [d \in Dimension |-> used[l][d] + Charge(r, actualCost, d)]]
  /\ reserved' = [reserved EXCEPT ![l] =
       [d \in Dimension |-> reserved[l][d] - r.units[d]]]
  /\ version' = [version EXCEPT ![l] = version[l] + 1]
  /\ reservation' = [reservation EXCEPT ![l][k] =
                                          Resolved(r, "COMMITTED", actualCost)]
  /\ IF r.window = NoWindow
       THEN UNCHANGED <<monthUsed, monthReserved>>
       ELSE /\ monthUsed' = [monthUsed EXCEPT ![ChargedMonth(r)] =
                 [d \in AggregateDimension |->
                    monthUsed[ChargedMonth(r)][d] + Charge(r, actualCost, d)]]
            /\ monthReserved' = [monthReserved EXCEPT ![ChargedMonth(r)] =
                 [d \in AggregateDimension |->
                    monthReserved[ChargedMonth(r)][d] - r.units[d]]]
  /\ UNCHANGED <<limit, expired, authority, month>>

Release(l, k) ==
  LET r == reservation[l][k] IN
  /\ r.status \in Live
  /\ HoldsUnits(l, r.units)
  /\ r.window # NoWindow =>
       \A d \in AggregateDimension :
         monthReserved[ChargedMonth(r)][d] >= r.units[d]
  /\ reserved' = [reserved EXCEPT ![l] =
       [d \in Dimension |-> reserved[l][d] - r.units[d]]]
  /\ version' = [version EXCEPT ![l] = version[l] + 1]
  /\ reservation' = [reservation EXCEPT ![l][k] = Resolved(r, "RELEASED", 0)]
  /\ monthReserved' = IF r.window = NoWindow
       THEN monthReserved
       ELSE [monthReserved EXCEPT ![ChargedMonth(r)] =
              [d \in AggregateDimension |->
                 monthReserved[ChargedMonth(r)][d] - r.units[d]]]
  /\ UNCHANGED <<limit, used, expired, monthUsed, authority, month>>

MarkUnknown(l, k) ==
  /\ reservation[l][k].status = "RESERVED"
  /\ reservation' = [reservation EXCEPT
       ![l][k] = Resolved(reservation[l][k], "UNKNOWN", 0)]
  /\ UNCHANGED <<limit, used, reserved, version, expired, monthUsed,
                 monthReserved, authority, month>>

(* The reviewer's reconciliation: commit or release with requireUnknown.    *)
(* Without a reported cost the reserved one is committed.                   *)
Reconcile(l, k, reportedCost) ==
  /\ reservation[l][k].status = "UNKNOWN"
  /\ \/ Commit(l, k, reportedCost)
     \/ Release(l, k)

(* The operator's script overwrites the tenant's monthly budget.            *)
SetTenantBudget(a) ==
  /\ authority' = a
  /\ UNCHANGED <<limit, used, reserved, version, expired, reservation,
                 monthUsed, monthReserved, month>>

(* Time: deadlines pass and months roll over between transactions.          *)
DeadlinePasses(l) ==
  /\ version[l] > 0
  /\ expired' = expired \cup {l}
  /\ UNCHANGED <<limit, used, reserved, version, reservation, monthUsed,
                 monthReserved, authority, month>>

MonthRolls ==
  /\ month < MaxMonth
  /\ month' = month + 1
  /\ UNCHANGED <<limit, used, reserved, version, expired, reservation,
                 monthUsed, monthReserved, authority>>

LedgerNext ==
  \/ \E l \in Ledgers :
       \/ \E budget \in Limits : CreateOrLoad(l, budget)
       \/ DeadlinePasses(l)
       \/ \E k \in Keys :
            \/ \E units \in Claims : Reserve(l, k, units, version[l])
            \/ \E c \in Costs \cup {reservation[l][k].units["cost"]} :
                 \/ Commit(l, k, c)
                 \/ Reconcile(l, k, c)
            \/ Release(l, k)
            \/ MarkUnknown(l, k)
  \/ \E a \in Authorities : SetTenantBudget(a)
  \/ MonthRolls

LedgerSpec == LedgerInit /\ [][LedgerNext]_ledgerVars

-----------------------------------------------------------------------------
(***************************************************************************)
(* Properties.                                                             *)
(***************************************************************************)

(* Every row stays within its column types; in particular no counter ever   *)
(* becomes negative.                                                        *)
LedgerTypeOK ==
  /\ limit \in [Ledgers -> Units]
  /\ used \in [Ledgers -> Units]
  /\ reserved \in [Ledgers -> Units]
  /\ version \in [Ledgers -> Nat]
  /\ expired \subseteq Ledgers
  /\ reservation \in [Ledgers -> [Keys -> Reservation]]
  /\ monthUsed \in [Month -> AggregateUnits]
  /\ monthReserved \in [Month -> AggregateUnits]
  /\ authority \in Authorities
  /\ month \in Month

(* "A stale graph snapshot can fail, but it can never overspend": used plus *)
(* reserved capacity of a run stays within its limit in every dimension,    *)
(* whatever order claims, settlements and reconciliations come in and       *)
(* however far an actual cost is above its claim.                           *)
NeverOverspend ==
  \A l \in Ledgers, d \in Dimension : used[l][d] + reserved[l][d] <= limit[l][d]

LiveKeys(l) == {k \in Keys : reservation[l][k].status \in Live}
CommittedKeys(l) == {k \in Keys : reservation[l][k].status = "COMMITTED"}

(* The counters of a ledger are exactly what its reservation rows add up    *)
(* to: reserve, commit, release and markUnknown neither lose nor duplicate  *)
(* capacity.                                                                *)
LedgerBalances ==
  \A l \in Ledgers, d \in Dimension :
    LET Held(k) == reservation[l][k].units[d]
        Spent(k) == IF d = "cost" THEN reservation[l][k].actualCost
                                  ELSE reservation[l][k].units[d]
    IN  /\ reserved[l][d] = MapThenSumSet(Held, LiveKeys(l))
        /\ used[l][d] = MapThenSumSet(Spent, CommittedKeys(l))

(* A month's usage row is exactly what the reservations charged to it add   *)
(* up to, over all runs of the tenant, although they are settled after the  *)
(* month has rolled over or the tenant's budget has changed.                *)
MonthBalances ==
  \A m \in Month, d \in AggregateDimension :
    LET Row(p) == reservation[p[1]][p[2]]
        Charged(statuses) == {p \in Ledgers \X Keys :
                                Row(p).window = m /\ Row(p).status \in statuses}
        Held(p) == Row(p).units[d]
        Spent(p) == IF d = "cost" THEN Row(p).actualCost ELSE Row(p).units[d]
    IN  /\ monthReserved[m][d] = MapThenSumSet(Held, Charged(Live))
        /\ monthUsed[m][d] = MapThenSumSet(Spent, Charged({"COMMITTED"}))

(* A settled reservation never changes again: a late commit, release,       *)
(* quarantine or second reconciliation leaves its row alone.                *)
SettledIsFinal ==
  [][\A l \in Ledgers, k \in Keys :
       reservation[l][k].status \in Settled =>
         reservation'[l][k] = reservation[l][k]]_ledgerVars

(* Parallel runs cannot multiply their limits past the tenant's ceiling: a  *)
(* step that raises what a month has used and reserved leaves it within the *)
(* ceiling configured at that step.                                         *)
MonthGrowsWithinAuthority ==
  [][\A m \in Month, d \in AggregateDimension :
       monthUsed'[m][d] + monthReserved'[m][d]
           > monthUsed[m][d] + monthReserved[m][d] =>
         /\ authority.enabled
         /\ monthUsed'[m][d] + monthReserved'[m][d]
              <= authority.limit[d]]_ledgerVars

=============================================================================
