------------------------------ MODULE ApiClients ------------------------------
(***************************************************************************)
(* Machine credentials (api-client.service.ts, api-key.guard.ts) and the   *)
(* operator scripts create-api-client and manage-api-client.  rotate and   *)
(* revoke read the row, change it and save every column of it; runs of the *)
(* script overlap.  A secret is a number; only its latest is stored.       *)
(***************************************************************************)
EXTENDS Integers

CONSTANTS
  Scripts,        \* manage-api-client runs that can be in progress
  MaxSecrets      \* bound: secrets generated

ASSUME ClientsAssumption == MaxSecrets \in Nat \ {0}

VARIABLES
  client,    \* one api_clients row; secret 0: not created yet
  script,    \* per script run: the row it is about to save
  secrets    \* counter: secrets generated

clientVars == <<client, script, secrets>>

ClientRow == [status: {"ACTIVE", "REVOKED"}, secret: Nat, role: {"PARTNER", "REVIEWER"}]
NoScript == [op |-> "none"]

ClientsInit ==
  /\ client = [status |-> "ACTIVE", secret |-> 0, role |-> "PARTNER"]
  /\ script = [x \in Scripts |-> NoScript]
  /\ secrets = 0

(* create-api-client.                                                       *)
CreateClient(role) ==
  /\ client.secret = 0
  /\ client' = [status |-> "ACTIVE", secret |-> 1, role |-> role]
  /\ secrets' = 1
  /\ UNCHANGED script

RotatableAlways == TRUE                                    \* mutant of Rotatable

Rotatable == client.status = "ACTIVE"

(* rotate: refused unless the row it reads is ACTIVE.                       *)
ReadForRotate(x) ==
  /\ script[x] = NoScript /\ client.secret > 0
  /\ Rotatable
  /\ secrets < MaxSecrets
  /\ secrets' = secrets + 1
  /\ script' = [script EXCEPT ![x] =
       [op |-> "rotate", row |-> [client EXCEPT !.secret = secrets + 1]]]
  /\ UNCHANGED client

(* revoke: nothing to save when the row it reads is REVOKED.                *)
ReadForRevoke(x) ==
  /\ script[x] = NoScript /\ client.secret > 0
  /\ client.status # "REVOKED"
  /\ script' = [script EXCEPT ![x] = [op |-> "revoke", row |-> [client EXCEPT !.status = "REVOKED"]]]
  /\ UNCHANGED <<client, secrets>>

SaveClient(x) ==
  /\ script[x] # NoScript
  /\ client' = script[x].row
  /\ script' = [script EXCEPT ![x] = NoScript]
  /\ UNCHANGED secrets

(* ApiKeyGuard.canActivate: the bearer of a secret is let in.               *)
KeyAccepted(secret) == secret > 0 /\ client.status = "ACTIVE" /\ client.secret = secret

ClientsNext ==
  \/ \E role \in {"PARTNER", "REVIEWER"} : CreateClient(role)
  \/ \E x \in Scripts : ReadForRotate(x) \/ ReadForRevoke(x) \/ SaveClient(x)

ClientsSpec == ClientsInit /\ [][ClientsNext]_clientVars

-----------------------------------------------------------------------------
(* Every variable has its type.                                             *)
ClientsTypeOK == client \in ClientRow /\ secrets \in 0..MaxSecrets

(* Once no script runs, a revoked client stays revoked: no secret that was  *)
(* ever printed is accepted again, although a rotation that overlapped the  *)
(* revocation may have undone it.                                           *)
RevocationHolds ==
  client.status = "REVOKED" /\ (\A x \in Scripts : script[x] = NoScript)
    => \A x \in Scripts : script'[x] = NoScript /\ \A secret \in 1..secrets : ~KeyAccepted(secret)'

(* No step of any script breaks that (manage-api-client.ts).                *)
QuietRevocationHolds == [][RevocationHolds]_clientVars
=============================================================================
