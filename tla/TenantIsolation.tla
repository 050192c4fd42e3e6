--------------------------- MODULE TenantIsolation ---------------------------
(***************************************************************************)
(* Row-level security and the connection pool under it                     *)
(* (src/database): the chain of migrations that protects the tenant-scoped *)
(* tables, the role a process connects as, the check a process makes       *)
(* before it serves, and the two helpers that give a transaction its       *)
(* tenant (runInTenantContext) or lift the policies (runWithRlsBypass).    *)
(*                                                                         *)
(* Each table holds one row of every tenant; what a statement sees is the  *)
(* set of tenants whose row it returned.  The two settings are             *)
(* transaction-local: when the transaction ends the connection returns to  *)
(* the pool with the setting at '' and not at NULL.                        *)
(***************************************************************************)
EXTENDS Naturals, Sequences

CONSTANTS RowTenants,    \* tenants with rows
          Connections,   \* connections of the pool
          Environments   \* values of NODE_ENV that are tried

(* A tenant's id is a UUID: none of the words the model uses in its place. *)
ASSUME TenantAssumption == RowTenants \cap {"none", "bypass", "unset", "empty", "true"} = {}

VARIABLES environment,   \* NODE_ENV of the process
          applied,       \* migrations of the chain applied to the database
          synchronized,  \* a development boot once created the missing tables
          up,            \* the process serves
          conns,         \* connection |-> its transaction and its settings
          lastRead       \* the context and the outcome of the last statement

isolationVars == <<environment, applied, synchronized, up, conns, lastRead>>

Deployments == {"staging", "production"}

(* A step of the chain: the tables it creates, the tables whose own        *)
(* tenantId column its policy compares, the tables whose policy asks a     *)
(* parent row.                                                             *)
Migration(creates, secures, secureChildren) ==
    [creates |-> creates, secures |-> secures, children |-> secureChildren]

(* The migrations before the chain: tables with a tenantId column.         *)
CaseEvidenceConditionSchema == {"loan_cases", "evidence_facts", "loan_conditions"}
OutboxEvents == {"outbox_events"}
CasePolicySnapshotAndBinding == {"case_policy_snapshots", "case_policy_bindings"}
PolicyCatalogGenerationAndChangeImpact == {"policy_change_impact_assessments"}
CommunicationClassification == {"communication_templates", "communication_messages"}
AgentRunTimeline == {"agent_runs"}
EvaluationInputManifest == {"evaluation_input_manifests"}
ProviderPlatform == {"provider_operation_intents", "provider_authorization_grants"}
WebhookPlatform == {"webhook_endpoints", "webhook_deliveries"}
ApiClientsTable == {"api_clients"}

EarlierTables ==
    CaseEvidenceConditionSchema \cup OutboxEvents \cup CasePolicySnapshotAndBinding
    \cup PolicyCatalogGenerationAndChangeImpact \cup CommunicationClassification
    \cup AgentRunTimeline \cup EvaluationInputManifest \cup ProviderPlatform
    \cup WebhookPlatform \cup ApiClientsTable

(* Tables they create that carry their tenant through a parent row.        *)
ChildTables == {"condition_transitions", "tool_attempts", "communication_approvals"}

WebhookTenantIsolation == Migration({}, {"webhook_endpoints", "webhook_deliveries"}, {})
AppRuntimeRole == Migration({}, {}, {})
CaseCoreTenantIsolation ==
    Migration({}, {"loan_cases", "evidence_facts", "outbox_events"}, {"condition_transitions"})
ConsentRecords == Migration({"consent_records"}, {"consent_records"}, {})
CaseConditionsAgentTenantIsolation ==
    Migration({}, {"loan_conditions", "agent_runs"}, {"tool_attempts"})
EvaluationManifestTenantIsolation == Migration({}, {"evaluation_input_manifests"}, {})
PolicyChangeImpactAssessmentTenantIsolation ==
    Migration({}, {"policy_change_impact_assessments"}, {})
CommunicationTenantIsolation ==
    Migration({}, {"communication_messages", "communication_templates"}, {})
CasePolicyTenantIsolation ==
    Migration({}, {"case_policy_snapshots", "case_policy_bindings"}, {})
ProviderPlatformTenantIsolation ==
    Migration({}, {"provider_authorization_grants", "provider_operation_intents"}, {})
DataDispositionTasks == Migration({"data_disposition_tasks"}, {"data_disposition_tasks"}, {})
CommunicationApprovalTenantIsolation == Migration({}, {}, {"communication_approvals"})
AuditEvents == Migration({"audit_events"}, {"audit_events"}, {})
LegalHolds == Migration({"legal_holds"}, {"legal_holds"}, {})
UsersAndTenantMemberships == Migration({"tenant_memberships"}, {}, {})
AgentBudgetLedgers ==
    LET both == {"agent_budget_ledgers", "agent_budget_reservations"}
    IN  Migration(both, both, {})
TenantAgentAggregateBudget ==
    Migration({"tenant_agent_budget_usage"}, {"tenant_agent_budget_usage"}, {})
PurposeBoundProviderAuthority ==
    Migration({"permissible_purpose_decisions"}, {"permissible_purpose_decisions"}, {})
GovernedAgentPlanner == Migration({"agent_model_invocations"}, {"agent_model_invocations"}, {})
DocumentVaultMetadata == Migration({"document_records"}, {"document_records"}, {})
GuestSandboxSessions == Migration({"guest_sandbox_sessions"}, {}, {})

Chain == <<WebhookTenantIsolation, AppRuntimeRole, CaseCoreTenantIsolation,
           ConsentRecords, CaseConditionsAgentTenantIsolation,
           EvaluationManifestTenantIsolation,
           PolicyChangeImpactAssessmentTenantIsolation,
           CommunicationTenantIsolation, CasePolicyTenantIsolation,
           ProviderPlatformTenantIsolation, DataDispositionTasks,
           CommunicationApprovalTenantIsolation, AuditEvents, LegalHolds,
           UsersAndTenantMemberships, AgentBudgetLedgers,
           TenantAgentAggregateBudget, PurposeBoundProviderAuthority,
           GovernedAgentPlanner, DocumentVaultMetadata, GuestSandboxSessions>>

RolePosition == CHOOSE i \in DOMAIN Chain : Chain[i] = AppRuntimeRole

CreatedBy(n) == UNION {Chain[i].creates : i \in 1 .. n}

TenantTables ==
    EarlierTables \cup CreatedBy(IF synchronized THEN Len(Chain) ELSE applied)

ExistingTables == TenantTables \cup ChildTables

Secured == UNION {Chain[i].secures \cup Chain[i].children : i \in 1 .. applied}

----------------------------------------------------------------------------
(* The process.                                                            *)

(* The deployment environments connect as the restricted role; the others  *)
(* keep the owner's credential, a superuser no policy applies to.          *)
ConnectsAsOwner == environment \notin Deployments

(* The role exists, and has its privileges, once its migration is applied  *)
(* (one database in the cluster): on the tables of that moment by the      *)
(* GRANT, on later ones by the default privileges.                         *)
MayConnect == ConnectsAsOwner \/ applied >= RolePosition

KNOWN_AUTH_BOOTSTRAP_TABLES ==
    {"api_clients", "tenant_memberships", "guest_sandbox_sessions"}

findTenantIsolationRlsGaps == (TenantTables \ Secured) \ KNOWN_AUTH_BOOTSTRAP_TABLES

(* Staging and production refuse to start over a gap; the others warn.     *)
MayServe == environment \in Deployments => findTenantIsolationRlsGaps = {}

FreshConnection == [tx |-> "none", tenant |-> "unset", bypass |-> "unset"]

StartProcess ==
    /\ ~up
    /\ MayConnect
    /\ MayServe
    /\ up' = TRUE
    /\ conns' = [c \in Connections |-> FreshConnection]
    /\ UNCHANGED <<environment, applied, synchronized, lastRead>>

StopProcess ==
    /\ up
    /\ up' = FALSE
    /\ conns' = [c \in Connections |-> FreshConnection]
    /\ UNCHANGED <<environment, applied, synchronized, lastRead>>

(* migration:run applies the pending migrations of a release in one        *)
(* transaction; a table synchronize already created makes it fail.         *)
RunMigrations(n) ==
    /\ n > applied
    /\ synchronized => CreatedBy(n) \subseteq CreatedBy(applied)
    /\ applied' = n
    /\ UNCHANGED <<environment, synchronized, up, conns, lastRead>>

----------------------------------------------------------------------------
(* Transactions and statements.                                            *)

Idle(c) == conns[c].tx = "none"

runInTenantContext(c, t) ==
    /\ up /\ Idle(c)
    /\ conns' = [conns EXCEPT ![c].tx = t, ![c].tenant = t]
    /\ UNCHANGED <<environment, applied, synchronized, up, lastRead>>

runWithRlsBypass(c) ==
    /\ up /\ Idle(c)
    /\ conns' = [conns EXCEPT ![c].tx = "bypass", ![c].bypass = "true"]
    /\ UNCHANGED <<environment, applied, synchronized, up, lastRead>>

(* A setting a transaction made locally is '' afterwards (SettingKept: a    *)
(* setting made for the session).                                          *)
SettingKept(s) == s

AfterTransaction(s) == IF s = "unset" THEN "unset" ELSE "empty"

EndTransaction(c) ==
    /\ ~Idle(c)
    /\ conns' = [conns EXCEPT ![c] =
                     [tx |-> "none",
                      tenant |-> AfterTransaction(@.tenant),
                      bypass |-> AfterTransaction(@.bypass)]]
    /\ UNCHANGED <<environment, applied, synchronized, up, lastRead>>

(* NULLIF(current_setting('app.current_tenant_id', true), '')::uuid: the   *)
(* cast of NULL, or of a setting never made, is NULL and matches no row;   *)
(* the cast of '' would raise (CastAsIs: the policy without NULLIF).       *)
CastAsIs(s) == s

NullIfEmpty(s) == IF s = "empty" THEN "unset" ELSE s

TenantsNamed(s) == {t \in RowTenants : t = NullIfEmpty(s)}

(* The tenant_isolation policy of one table under a connection's settings. *)
Admitted(c) ==
    IF conns[c].bypass = "true" THEN RowTenants ELSE TenantsNamed(conns[c].tenant)

Visible(c, table) ==
    IF ConnectsAsOwner \/ table \notin Secured THEN RowTenants ELSE Admitted(c)

(* A statement, inside a transaction of a helper or outside of any.        *)
Statement(c, table) ==
    /\ up
    /\ lastRead' = [context |-> conns[c].tx,
                    scoped |-> table \in TenantTables \ KNOWN_AUTH_BOOTSTRAP_TABLES,
                    saw |-> Visible(c, table),
                    raised |-> /\ ~ConnectsAsOwner
                               /\ table \in Secured
                               /\ conns[c].bypass # "true"
                               /\ NullIfEmpty(conns[c].tenant) = "empty"]
    /\ UNCHANGED <<environment, applied, synchronized, up, conns>>

NoRead == [context |-> "none", scoped |-> FALSE, saw |-> {}, raised |-> FALSE]

IsolationInit ==
    /\ environment \in Environments
    /\ applied \in 0 .. Len(Chain)
    /\ synchronized \in BOOLEAN
    /\ up = FALSE
    /\ conns = [c \in Connections |-> FreshConnection]
    /\ lastRead = NoRead

IsolationNext ==
    \/ StartProcess
    \/ StopProcess
    \/ \E n \in DOMAIN Chain : RunMigrations(n)
    \/ \E c \in Connections :
          \/ \E t \in RowTenants : runInTenantContext(c, t)
          \/ runWithRlsBypass(c)
          \/ EndTransaction(c)
          \/ \E table \in ExistingTables : Statement(c, table)

IsolationSpec == IsolationInit /\ [][IsolationNext]_isolationVars

----------------------------------------------------------------------------
(* Every variable has its type.                                             *)
IsolationTypeOK ==
    /\ environment \in Environments
    /\ applied \in 0 .. Len(Chain)
    /\ synchronized \in BOOLEAN /\ up \in BOOLEAN
    /\ conns \in [Connections -> [tx : RowTenants \cup {"none", "bypass"},
                                  tenant : RowTenants \cup {"unset", "empty"},
                                  bypass : {"unset", "empty", "true"}]]
    /\ lastRead \in [context : RowTenants \cup {"none", "bypass"}, scoped : BOOLEAN,
                     saw : SUBSET RowTenants, raised : BOOLEAN]

(* In a deployment, a statement over a table that carries a tenantId sees  *)
(* no row but its own transaction's tenant's, unless the transaction asked *)
(* for the bypass: whatever the connection served before, however far the  *)
(* schema was migrated when the process started, and however it was built  *)
(* (tenant-context.ts: the setting "can never leak across a pooled         *)
(* connection into an unrelated later request or transaction"; main.ts     *)
(* refuses to serve over a gap).                                           *)
OwnRowsOnly ==
    environment \in Deployments /\ lastRead.scoped /\ lastRead.context # "bypass"
        => lastRead.saw \subseteq {lastRead.context}

(* A statement outside both helpers on a connection that served a          *)
(* transaction before returns no row and does not fail: the '' the         *)
(* transaction left behind is turned into NULL before the cast             *)
(* (WebhookTenantIsolation's NULLIF).                                      *)
FailsClosedQuietly == ~lastRead.raised

(* Pooled connections keep tenants apart: a statement sees its own tenant's *)
(* rows only, and one outside both helpers sees none and does not fail      *)
(* (tenant-context.ts, main.ts and the isolation migrations).               *)
IsolationHolds == IsolationTypeOK /\ OwnRowsOnly /\ FailsClosedQuietly
=============================================================================
