----------------------------- MODULE GuestSandbox -----------------------------
(***************************************************************************)
(* The public guest sandbox (guest-sandbox.service.ts) and the purge of a  *)
(* disposable tenant (purge-tenant-data.ts).                               *)
(*                                                                         *)
(* Every guest has a tenant of their own, with cases, consents and the     *)
(* rows that a workflow's activities write for a case without a foreign    *)
(* key onto it.  The sweep of expired sessions runs on the worker's        *)
(* interval and at the start of every create; purging a tenant is one      *)
(* transaction, whose row deletes and final tenant delete are two steps:   *)
(* a case committed in between makes the RESTRICT foreign key of           *)
(* loan_cases onto tenants fail it.                                        *)
(***************************************************************************)
EXTENDS Integers, FiniteSets

CONSTANTS
  Guests,         \* visitors, each with at most one session and tenant
  Sweepers,       \* processes that sweep: "worker" and API requests
  MaxGuestCases   \* bound: cases per guest

ASSUME GuestAssumption == MaxGuestCases \in Nat

VARIABLES
  gtenant,    \* per guest: "none", "live" or "purged"
  gsession,   \* per guest: whether the row exists, whether it has expired
  gcases,     \* per guest: loan_cases rows
  gconsents,  \* per guest: consent_records rows
  gloose,     \* per guest: rows without a foreign key onto the case
  request,    \* per guest: the request in progress
  activity,   \* per guest: a workflow activity in progress
  sweep       \* per sweeper: its state

guestVars == <<gtenant, gsession, gcases, gconsents, gloose, request, activity, sweep>>

SessionState == [row: BOOLEAN, expired: BOOLEAN]
NoSweep == [step |-> "idle"]

GuestInit ==
  /\ gtenant = [g \in Guests |-> "none"]
  /\ gsession = [g \in Guests |-> [row |-> FALSE, expired |-> FALSE]]
  /\ gcases = [g \in Guests |-> 0] /\ gconsents = [g \in Guests |-> 0] /\ gloose = [g \in Guests |-> 0]
  /\ request = [g \in Guests |-> "idle"]
  /\ activity = [g \in Guests |-> "idle"]
  /\ sweep = [s \in Sweepers |-> NoSweep]

guestRowVars == <<gcases, gconsents, gloose>>

-----------------------------------------------------------------------------
(* seedCase: a case and its consent, in one transaction.                    *)
SeedCase(g) ==
  /\ gcases[g] < MaxGuestCases
  /\ gcases' = [gcases EXCEPT ![g] = @ + 1]
  /\ gconsents' = [gconsents EXCEPT ![g] = @ + 1]
  /\ UNCHANGED gloose

(* resolve: a session that exists and has not expired.                      *)
Resolves(g) == gsession[g].row /\ ~gsession[g].expired

(* GET session: a CSRF value that does not match is replaced, and the row   *)
(* that was read is saved (inserted again when it has gone meanwhile, which *)
(* the tenant's foreign key refuses once the tenant is purged).             *)
GetSession(g) ==
  /\ request[g] = "idle"
  /\ Resolves(g)
  /\ request' = [request EXCEPT ![g] = "csrf"]
  /\ UNCHANGED <<gtenant, gsession, guestRowVars, activity, sweep>>

SaveCsrfBlindly(g) ==                                    \* mutant of SaveCsrf
  /\ request[g] = "csrf"
  /\ gsession' = [gsession EXCEPT ![g] = [@ EXCEPT !.row = TRUE]]
  /\ request' = [request EXCEPT ![g] = "idle"]
  /\ UNCHANGED <<gtenant, guestRowVars, activity, sweep>>

SaveCsrf(g) ==
  /\ request[g] = "csrf"
  /\ gsession' = [gsession EXCEPT ![g] = [@ EXCEPT !.row = gtenant[g] = "live"]]
  /\ request' = [request EXCEPT ![g] = "idle"]
  /\ UNCHANGED <<gtenant, guestRowVars, activity, sweep>>

(* createAdditionalCase: authenticated first, inserted afterwards; the      *)
(* insert fails when the tenant has been purged.                            *)
RequestCase(g) ==
  /\ request[g] = "idle"
  /\ Resolves(g)
  /\ gcases[g] < MaxGuestCases
  /\ request' = [request EXCEPT ![g] = "case"]
  /\ UNCHANGED <<gtenant, gsession, guestRowVars, activity, sweep>>

AddCase(g) ==
  /\ request[g] = "case"
  /\ IF gtenant[g] = "live" THEN SeedCase(g) ELSE UNCHANGED guestRowVars
  /\ request' = [request EXCEPT ![g] = "idle"]
  /\ UNCHANGED <<gtenant, gsession, activity, sweep>>

(* logout deletes the session row only.                                     *)
GuestLogout(g) ==
  /\ request[g] = "idle"
  /\ Resolves(g)
  /\ gsession' = [gsession EXCEPT ![g] = [@ EXCEPT !.row = FALSE]]
  /\ UNCHANGED <<gtenant, guestRowVars, request, activity, sweep>>

(* GUEST_SANDBOX_TTL_SECONDS pass.                                          *)
Expire(g) ==
  /\ gtenant[g] # "none" /\ ~gsession[g].expired
  /\ gsession' = [gsession EXCEPT ![g] = [@ EXCEPT !.expired = TRUE]]
  /\ UNCHANGED <<gtenant, guestRowVars, request, activity, sweep>>

(* A workflow of one of the guest's cases: an activity reads its case, and  *)
(* later writes rows that carry only the tenant's and the case's id.        *)
ActivityReads(g) ==
  /\ activity[g] = "idle"
  /\ gcases[g] > 0
  /\ activity' = [activity EXCEPT ![g] = "write"]
  /\ UNCHANGED <<gtenant, gsession, guestRowVars, request, sweep>>

ActivityWrites(g) ==
  /\ activity[g] = "write"
  /\ gloose' = [gloose EXCEPT ![g] = 1]
  /\ activity' = [activity EXCEPT ![g] = "idle"]
  /\ UNCHANGED <<gtenant, gsession, gcases, gconsents, request, sweep>>

-----------------------------------------------------------------------------
(***************************************************************************)
(* purgeExpiredSessions and purgeTenantData.                               *)
(***************************************************************************)

Expired == {g \in Guests : gsession[g].row /\ gsession[g].expired}

(* The worker's tick, or a create for guest g.                              *)
StartSweep(s, for) ==
  /\ sweep[s] = NoSweep
  /\ sweep' = [sweep EXCEPT ![s] = [step |-> "next", todo |-> Expired, for |-> for]]
  /\ UNCHANGED <<gtenant, gsession, guestRowVars, request, activity>>

WorkerTick == StartSweep("worker", {})
CreateSession(s, g) == s # "worker" /\ gtenant[g] = "none" /\ StartSweep(s, {g})

(* The next tenant's transaction: its rows are deleted, not yet committed.  *)
PurgeRows(s, g) ==
  /\ sweep[s].step = "next" /\ g \in sweep[s].todo
  /\ sweep' = [sweep EXCEPT ![s] =
       [step |-> "tenant", todo |-> @.todo \ {g}, for |-> @.for, guest |-> g, seen |-> gcases[g]]]
  /\ UNCHANGED <<gtenant, gsession, guestRowVars, request, activity>>

PurgeUnchecked(s, g) == TRUE                             \* mutant of PurgeCommits

(* The tenant row can go: no case came in since its cases were deleted.     *)
PurgeCommits(s, g) == gcases[g] <= sweep[s].seen

(* Delete the tenant and commit, which takes the session row with it; or    *)
(* the foreign key fails the transaction, and with it the whole sweep.      *)
PurgeTenant(s) ==
  LET g == sweep[s].guest
  IN  /\ sweep[s].step = "tenant"
      /\ IF PurgeCommits(s, g)
           THEN /\ gtenant' = [gtenant EXCEPT ![g] = "purged"]
                /\ gcases' = [gcases EXCEPT ![g] = IF @ > sweep[s].seen THEN @ - sweep[s].seen ELSE 0]
                /\ gconsents' = [gconsents EXCEPT ![g] = IF @ > sweep[s].seen THEN @ - sweep[s].seen ELSE 0]
                /\ gloose' = [gloose EXCEPT ![g] = 0]
                /\ gsession' = [gsession EXCEPT ![g] = [@ EXCEPT !.row = FALSE]]
                /\ sweep' = [sweep EXCEPT ![s] = [step |-> "next", todo |-> @.todo, for |-> @.for]]
           ELSE /\ sweep' = [sweep EXCEPT ![s] = NoSweep]
                /\ UNCHANGED <<gtenant, gsession, guestRowVars>>
      /\ UNCHANGED <<request, activity>>

(* The sweep is over; a create goes on: tenant, seeded case and session in  *)
(* one transaction.                                                         *)
EndSweep(s) ==
  /\ sweep[s].step = "next" /\ sweep[s].todo = {}
  /\ sweep' = [sweep EXCEPT ![s] = NoSweep]
  /\ \/ /\ sweep[s].for \subseteq {g \in Guests : gtenant[g] # "none"}
        /\ UNCHANGED <<gtenant, gsession, guestRowVars>>
     \/ \E g \in sweep[s].for :
          /\ gtenant[g] = "none"
          /\ gtenant' = [gtenant EXCEPT ![g] = "live"]
          /\ gsession' = [gsession EXCEPT ![g] = [@ EXCEPT !.row = TRUE]]
          /\ SeedCase(g)
  /\ UNCHANGED <<request, activity>>

(* A sweeping process dies; its transaction is rolled back.                 *)
SweepDies(s) ==
  /\ sweep[s] # NoSweep
  /\ sweep' = [sweep EXCEPT ![s] = NoSweep]
  /\ UNCHANGED <<gtenant, gsession, guestRowVars, request, activity>>

WorkerSweep ==
  \/ WorkerTick
  \/ \E g \in Guests : PurgeRows("worker", g)
  \/ PurgeTenant("worker") \/ EndSweep("worker")

GuestNext ==
  \/ \E g \in Guests : \/ GetSession(g) \/ SaveCsrf(g) \/ RequestCase(g) \/ AddCase(g)
                       \/ GuestLogout(g) \/ Expire(g) \/ ActivityReads(g) \/ ActivityWrites(g)
  \/ WorkerTick
  \/ \E s \in Sweepers :
       \/ \E g \in Guests : CreateSession(s, g) \/ PurgeRows(s, g)
       \/ PurgeTenant(s) \/ EndSweep(s) \/ (s # "worker" /\ SweepDies(s))

GuestSpec == GuestInit /\ [][GuestNext]_guestVars /\ WF_guestVars(WorkerSweep)

-----------------------------------------------------------------------------
(***************************************************************************)
(* Properties.                                                             *)
(***************************************************************************)

(* Every variable has its type.                                             *)
GuestTypeOK ==
  /\ gtenant \in [Guests -> {"none", "live", "purged"}]
  /\ gsession \in [Guests -> SessionState]
  /\ \A g \in Guests : gcases[g] \in 0..MaxGuestCases /\ gconsents[g] = gcases[g]

(* A tenant that was purged has no case or consent left, although a request *)
(* may have passed its session check before the purge began.                *)
PurgedTenantIsEmpty ==
  \A g \in Guests : gtenant[g] = "purged" => gcases[g] = 0 /\ gconsents[g] = 0

(* A session cookie never resolves to a tenant that is gone.                *)
SessionHasTenant == \A g \in Guests : gsession[g].row => gtenant[g] = "live"

(* A purged guest tenant has no case or consent left, although a request    *)
(* passed its session check before the purge, and no session cookie         *)
(* resolves to it (guest-sandbox.service.ts, purge-tenant-data.ts).         *)
PurgeIsComplete == GuestTypeOK /\ PurgedTenantIsEmpty /\ SessionHasTenant

(* A workspace whose session has expired and that no sweep has purged yet.  *)
Overdue == \E g \in Expired : gtenant[g] # "purged" /\ gsession[g].row
=============================================================================
