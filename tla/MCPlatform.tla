--------------------------- MODULE MCPlatform ---------------------------
(***************************************************************************)
(* The platform around a case, one component per behaviour: the webhook    *)
(* dispatcher, messages, sign-in, API clients, provider promotion, the     *)
(* tenant guard and the case API.  A behaviour is of the component in      *)
(* focus; the others rest in their first state.                            *)
(***************************************************************************)
EXTENDS TenantIsolation, WebhookDispatch, Communications, IdentitySessions, ApiClients,
        ProviderPromotion, CaseApi, TLC

CONSTANTS c1, c2, p1, p2, operator

VARIABLE focus

(* One template approved and one not; a draft that fits, and six that break *)
(* one rule of the classifier each.                                         *)
Letter(st) ==
  [channel |-> "EMAIL", locale |-> "en", recipientRelationship |-> "BORROWER",
   body |-> <<[lit |-> "dear"], [var |-> "caseId"]>>,
   allowedVariables |-> {"caseId"}, attachmentsAllowed |-> FALSE, status |-> st]
Letters == ("ready" :> Letter("APPROVED")) @@ ("old" :> Letter("DRAFT"))

Draft(k, free, channel, variables) ==
  [template |-> k, freeform |-> free, channel |-> channel, locale |-> "en",
   recipientRelationship |-> "BORROWER", variables |-> variables, hasAttachments |-> FALSE]
FittingDraft == Draft("ready", FALSE, "EMAIL", [caseId |-> "plain"])
BrokenDrafts ==
  {Draft("ready", TRUE, "EMAIL", <<>>),
   Draft("ready", FALSE, "SMS", [caseId |-> "plain"]),
   Draft("ready", FALSE, "EMAIL", <<>>),
   Draft("ready", FALSE, "EMAIL", [caseId |-> "negative"]),
   Draft("old", FALSE, "EMAIL", [caseId |-> "plain"]),
   Draft("ready", FALSE, "EMAIL", [caseId |-> "plain", other |-> "plain"])}

(* A case, and a call that revokes its consent, may be there already.       *)
OneOldCase == {<<"t1", "k">>}

-----------------------------------------------------------------------------
MCInit ==
  /\ focus \in {"webhooks", "messages", "identity", "clients", "promotion", "drill",
                "kill switch", "cases", "tenants"}
  /\ Init /\ CommsInit /\ IdentityInit /\ ClientsInit /\ PromotionInit /\ ApiInit
  /\ IsolationInit
  /\ focus # "cases" => \A c \in CaseIds : rows[c] = 0
  /\ focus # "tenants" => environment = "production" /\ applied = 0 /\ ~synchronized

Webhooks ==
  /\ focus = "webhooks" /\ Next
  /\ UNCHANGED <<focus, commsVars, identityVars, clientVars, promotionVars, apiVars,
                 isolationVars>>

Messages ==
  /\ focus = "messages" /\ CommsNext
  /\ UNCHANGED <<focus, vars, identityVars, clientVars, promotionVars, apiVars, isolationVars>>

SignIn ==
  /\ focus = "identity" /\ IdentityNext
  /\ UNCHANGED <<focus, vars, commsVars, clientVars, promotionVars, apiVars, isolationVars>>

Clients ==
  /\ focus = "clients" /\ ClientsNext
  /\ UNCHANGED <<focus, vars, commsVars, identityVars, promotionVars, apiVars, isolationVars>>

Promotion ==
  /\ \/ focus = "promotion" /\ PromotionNext
     \/ focus = "drill" /\ DrillNext
     \/ focus = "kill switch" /\ KillSwitchNext
  /\ UNCHANGED <<focus, vars, commsVars, identityVars, clientVars, apiVars, isolationVars>>

CaseCalls ==
  /\ focus = "cases" /\ ApiNext
  /\ UNCHANGED <<focus, vars, commsVars, identityVars, clientVars, promotionVars,
                 isolationVars>>

TenantGuard ==
  /\ focus = "tenants" /\ IsolationNext
  /\ UNCHANGED <<focus, vars, commsVars, identityVars, clientVars, promotionVars, apiVars>>

MCNext ==
  \/ Webhooks \/ Messages \/ SignIn \/ Clients \/ Promotion \/ CaseCalls \/ TenantGuard

MCSpec ==
  MCInit /\ [][MCNext]_<<focus, vars, commsVars, identityVars, clientVars, promotionVars,
                        apiVars, isolationVars>>

(* Passes, calls and callbacks are not told apart, nor tabs and people.     *)
Symmetry == Permutations({c1, c2}) \cup Permutations({p1, p2})
=============================================================================
