---------------------------- MODULE ConsoleSession ----------------------------
(***************************************************************************)
(* The operations console's sign-in state (console/src): App's startup     *)
(* checks and disconnect, the browser-held OIDC session (oidc.ts), the     *)
(* guest sandbox session (demo-sandbox.ts), the stored bearer credential   *)
(* (auth.ts), and the headers every GraphQL query takes from them          *)
(* (apollo-client.ts).                                                     *)
(*                                                                         *)
(* Every fetch is two steps, sending and answering; between them the user  *)
(* and the other tabs of the browser act.  Storage and cookies belong to   *)
(* the browser, the rest to the page, which a navigation reloads.  A       *)
(* credential is the tenant it reaches; a case is named by its tenant.     *)
(***************************************************************************)
EXTENDS Naturals, FiniteSets

CONSTANTS BearerTenant,   \* the tenant of the API client's bearer token
          OidcTenants,    \* the signed-in user's memberships (two or more)
          GuestTenants,   \* tenants of the sandboxes the server creates
          MaxQueries      \* bound on queries in flight

VARIABLES token,          \* localStorage: bearer token's tenant, or none
          oidcTenant,     \* localStorage: the chosen membership
          hint,           \* localStorage: the sandbox resume hint
          ssoCookie,      \* the backend's OIDC session cookie is live
          guestCookie,    \* tenant of the sandbox cookie, or none
          guestsMade,     \* sandboxes the server has created
          oidc,           \* oidc.ts currentSession: its memberships, or none
          demo,           \* demo-sandbox.ts currentSession, or none
          page,           \* App's state: what the page is doing
          selectedCase,   \* tenant of the case on screen, or none
          calls,          \* fetches in flight
          queries,        \* GraphQL queries in flight, by tenant of headers
          cache,          \* tenants with rows in Apollo's cache
          lateAnswer      \* a sign-out answered after this connection began

storageVars == <<token, oidcTenant, hint>>
serverVars == <<ssoCookie, guestCookie, guestsMade>>
memoryVars == <<oidc, demo>>
resultVars == <<queries, cache>>
consoleVars == <<storageVars, serverVars, memoryVars, page, selectedCase, calls,
                 resultVars, lateAnswer>>

None == "none"

NoSandbox == [tenant |-> None, case |-> None]

Screens == {"checking", "connect", "selecting", "connected"}

Call(kind) == [kind |-> kind, tenant |-> None]

----------------------------------------------------------------------------
(* Which credential a request carries.                                     *)

hasOidcSession == oidc # {} /\ oidcTenant \in oidc

hasDemoSandbox == demo.tenant # None

(* authLink: the sandbox first, then the OIDC session, then the token.     *)
Credential ==
    IF hasDemoSandbox THEN demo.tenant
    ELSE IF hasOidcSession THEN oidcTenant
    ELSE token

----------------------------------------------------------------------------
(* The sandbox session as the page keeps it.                               *)

(* The resume endpoint omits the case: the stored hint supplies it when    *)
(* its tenant is the session's (AnyHint: without that comparison).         *)
AnyHint(session) == IF session.case # None THEN session.case ELSE hint.case

HintedCase(session) ==
    IF session.case # None THEN session.case
    ELSE IF hint.tenant = session.tenant THEN hint.case
    ELSE None

store(session) ==
    LET withHint == [session EXCEPT !.case = HintedCase(session)]
    IN  /\ demo' = withHint
        /\ hint' = withHint
        /\ selectedCase' = withHint.case

clearDemoSandbox ==
    /\ demo' = NoSandbox
    /\ hint' = NoSandbox

----------------------------------------------------------------------------
(* Startup: the OIDC session, then the sandbox.                            *)

(* A navigation or a reload: the page's memory is gone, its fetches are    *)
(* abandoned, and the startup effect asks for the OIDC session.            *)
PageLoads ==
    /\ oidc' = {} /\ demo' = NoSandbox
    /\ page' = "checking"
    /\ selectedCase' = None
    /\ calls' = {Call("loadOidc")}
    /\ queries' = {} /\ cache' = {}
    /\ lateAnswer' = FALSE

Reload == PageLoads /\ UNCHANGED <<storageVars, serverVars>>

(* An authenticated session: straight in when the stored choice is one of  *)
(* its memberships, to the selection screen otherwise.                     *)
OidcSessionLoaded(k) ==
    /\ k.kind = "loadOidc"
    /\ ssoCookie
    /\ oidc' = OidcTenants
    /\ page' = IF oidcTenant \in OidcTenants THEN "connected" ELSE "selecting"
    /\ calls' = calls \ {k}
    /\ UNCHANGED <<storageVars, serverVars, demo, selectedCase, resultVars, lateAnswer>>

(* No session, told so (the stored choice is dropped) or by an error       *)
(* status: the sandbox is asked for next.                                  *)
NoOidcSession(k) ==
    /\ k.kind = "loadOidc"
    /\ oidc' = {}
    /\ \/ ~ssoCookie /\ oidcTenant' = None
       \/ UNCHANGED oidcTenant
    /\ calls' = (calls \ {k}) \cup {[kind |-> "loadDemo", tenant |-> guestCookie]}
    /\ UNCHANGED <<token, hint, serverVars, demo, page, selectedCase, resultVars, lateAnswer>>

(* Signing-in is over without a session: the stored bearer credential, if  *)
(* any, connects.                                                          *)
AfterCheck == IF token # None THEN "connected" ELSE "connect"

(* A transport failure or a malformed answer of either request.            *)
StartupFails(k) ==
    /\ k.kind \in {"loadOidc", "loadDemo"}
    /\ oidc' = {} /\ oidcTenant' = None
    /\ page' = AfterCheck
    /\ calls' = calls \ {k}
    /\ UNCHANGED <<token, hint, serverVars, demo, selectedCase, resultVars, lateAnswer>>

(* The answer is about the sandbox whose cookie the request carried.       *)
SandboxLoaded(k) ==
    /\ k.kind = "loadDemo"
    /\ k.tenant # None
    /\ store([tenant |-> k.tenant, case |-> None])
    /\ page' = "connected"
    /\ calls' = calls \ {k}
    /\ UNCHANGED <<token, oidcTenant, serverVars, oidc, resultVars, lateAnswer>>

NoSandboxFound(k) ==
    /\ k.kind = "loadDemo"
    /\ clearDemoSandbox
    /\ page' = AfterCheck
    /\ calls' = calls \ {k}
    /\ UNCHANGED <<token, oidcTenant, serverVars, oidc, selectedCase, resultVars, lateAnswer>>

----------------------------------------------------------------------------
(* Connecting.                                                             *)

Connected ==
    /\ page' = "connected"
    /\ lateAnswer' = FALSE

connectWithBearer ==
    /\ page = "connect"
    /\ token' = BearerTenant
    /\ Connected
    /\ UNCHANGED <<oidcTenant, hint, serverVars, memoryVars, selectedCase, calls, resultVars>>

(* beginOidcLogin leaves the page; the provider's answer reloads it with a *)
(* session cookie (or without, when the sign-in is abandoned).             *)
connectWithOidc ==
    /\ page = "connect"
    /\ ssoCookie' \in {ssoCookie, TRUE}
    /\ PageLoads
    /\ UNCHANGED <<storageVars, guestCookie, guestsMade>>

SelectTenant(t) ==
    /\ page = "selecting"
    /\ t \in oidc
    /\ oidcTenant' = t
    /\ Connected
    /\ UNCHANGED <<token, hint, serverVars, memoryVars, selectedCase, calls, resultVars>>

(* The button is disabled while a creation is in flight.                   *)
StartSandbox ==
    /\ page = "connect"
    /\ Call("create") \notin calls
    /\ calls' = calls \cup {Call("create")}
    /\ UNCHANGED <<storageVars, serverVars, memoryVars, page, selectedCase, resultVars, lateAnswer>>

(* The server creates tenant, case and cookie; the page stores the session,*)
(* empties the cache and connects.                                         *)
SandboxCreated(k) ==
    /\ k.kind = "create"
    /\ \E t \in GuestTenants \ guestsMade :
          /\ guestsMade' = guestsMade \cup {t}
          /\ guestCookie' = t
          /\ store([tenant |-> t, case |-> t])
    /\ queries' = {} /\ cache' = {}
    /\ Connected
    /\ calls' = calls \ {k}
    /\ UNCHANGED <<token, oidcTenant, ssoCookie, oidc>>

SandboxRefused(k) ==
    /\ k.kind = "create"
    /\ calls' = calls \ {k}
    /\ UNCHANGED <<storageVars, serverVars, memoryVars, page, selectedCase, resultVars, lateAnswer>>

(* createDemoSandboxCase, from the case list: one more case of the tenant  *)
(* the cookie names.                                                       *)
NewSandboxCase ==
    /\ page = "connected"
    /\ hasDemoSandbox /\ guestCookie # None
    /\ \A k \in calls : k.kind # "newCase"
    /\ calls' = calls \cup {[kind |-> "newCase", tenant |-> guestCookie]}
    /\ UNCHANGED <<storageVars, serverVars, memoryVars, page, selectedCase, resultVars, lateAnswer>>

(* The list selects the new case; after a disconnect its refetch may have  *)
(* been cancelled, and the handler ends there.                             *)
SandboxCaseCreated(k) ==
    /\ k.kind = "newCase"
    /\ \/ selectedCase' = k.tenant
       \/ page # "connected" /\ UNCHANGED selectedCase
    /\ calls' = calls \ {k}
    /\ UNCHANGED <<storageVars, serverVars, memoryVars, page, resultVars, lateAnswer>>

----------------------------------------------------------------------------
(* Disconnecting.                                                          *)

(* clearGraphqlSessionCache: the store is emptied and queries in flight    *)
(* are cancelled (KeepCache: left alone).                                  *)
KeepCache == UNCHANGED resultVars

clearGraphqlSessionCache == queries' = {} /\ cache' = {}

(* An OIDC session is signed out at the provider, its memory cleared only  *)
(* by the answer; a sandbox likewise; a bearer token at once.              *)
disconnect ==
    /\ page = "connected"
    /\ token' = None
    /\ page' = "connect"
    /\ selectedCase' = None
    /\ clearGraphqlSessionCache
    /\ IF oidc # {}
       THEN calls' = calls \cup {Call("logout")} /\ UNCHANGED <<oidc, oidcTenant, demo, hint>>
       ELSE /\ oidc' = {} /\ oidcTenant' = None
            /\ IF hasDemoSandbox
               THEN calls' = calls \cup {[kind |-> "close", tenant |-> guestCookie]}
                    /\ UNCHANGED <<demo, hint>>
               ELSE clearDemoSandbox /\ UNCHANGED calls
    /\ UNCHANGED <<serverVars, lateAnswer>>

(* The provider's logout page: the browser leaves and comes back.          *)
LogoutLeaves(k) ==
    /\ k.kind = "logout"
    /\ ssoCookie' = FALSE
    /\ oidcTenant' = None
    /\ PageLoads
    /\ UNCHANGED <<token, hint, guestCookie, guestsMade>>

(* No logout page to go to, or a transport failure.                        *)
LogoutClears(k) ==
    /\ k.kind = "logout"
    /\ ssoCookie' \in {ssoCookie, FALSE}
    /\ oidc' = {} /\ oidcTenant' = None
    /\ calls' = calls \ {k}
    /\ lateAnswer' = (lateAnswer \/ page = "connected")
    /\ UNCHANGED <<token, hint, guestCookie, guestsMade, demo, page, selectedCase, resultVars>>

(* An error status: the session stays in the page.                         *)
LogoutRefused(k) ==
    /\ k.kind = "logout"
    /\ calls' = calls \ {k}
    /\ lateAnswer' = (lateAnswer \/ page = "connected")
    /\ UNCHANGED <<storageVars, serverVars, memoryVars, page, selectedCase, resultVars>>

(* The server closes the session the cookie named and clears the cookie;   *)
(* the page then drops whatever sandbox it holds.                          *)
SandboxClosed(k) ==
    /\ k.kind = "close"
    /\ guestCookie' \in {guestCookie, None}
    /\ clearDemoSandbox
    /\ calls' = calls \ {k}
    /\ lateAnswer' = (lateAnswer \/ page = "connected")
    /\ UNCHANGED <<token, oidcTenant, ssoCookie, guestsMade, oidc, page, selectedCase, resultVars>>

----------------------------------------------------------------------------
(* Queries, and the rest of the browser.                                   *)

SendQuery ==
    /\ page = "connected"
    /\ Credential # None
    /\ Cardinality(queries) < MaxQueries
    /\ queries' = queries \cup {Credential}
    /\ UNCHANGED <<storageVars, serverVars, memoryVars, page, selectedCase, calls, cache, lateAnswer>>

QueryAnswered(t) ==
    /\ queries' = queries \ {t}
    /\ cache' = cache \cup {t}
    /\ UNCHANGED <<storageVars, serverVars, memoryVars, page, selectedCase, calls, lateAnswer>>

SelectCase(t) ==
    /\ page = "connected"
    /\ selectedCase' = t
    /\ UNCHANGED <<storageVars, serverVars, memoryVars, page, calls, resultVars, lateAnswer>>

(* A second tab starts its own sandbox: cookie and hint are shared.        *)
OtherTabStartsSandbox ==
    /\ \E t \in GuestTenants \ guestsMade :
          /\ guestsMade' = guestsMade \cup {t}
          /\ guestCookie' = t
          /\ hint' = [tenant |-> t, case |-> t]
    /\ UNCHANGED <<token, oidcTenant, ssoCookie, memoryVars, page, selectedCase, calls,
                   resultVars, lateAnswer>>

GuestCookieExpires ==
    /\ guestCookie # None
    /\ guestCookie' = None
    /\ UNCHANGED <<storageVars, ssoCookie, guestsMade, memoryVars, page, selectedCase, calls,
                   resultVars, lateAnswer>>

ConsoleInit ==
    /\ token \in {None, BearerTenant}
    /\ oidcTenant = None /\ hint = NoSandbox
    /\ ssoCookie = FALSE /\ guestCookie = None /\ guestsMade = {}
    /\ oidc = {} /\ demo = NoSandbox
    /\ page = "checking" /\ selectedCase = None
    /\ calls = {Call("loadOidc")}
    /\ queries = {} /\ cache = {}
    /\ lateAnswer = FALSE

Answer(k) ==
    \/ OidcSessionLoaded(k) \/ NoOidcSession(k) \/ StartupFails(k)
    \/ SandboxLoaded(k) \/ NoSandboxFound(k)
    \/ SandboxCreated(k) \/ SandboxRefused(k)
    \/ LogoutLeaves(k) \/ LogoutClears(k) \/ LogoutRefused(k)
    \/ SandboxClosed(k) \/ SandboxCaseCreated(k)

ConsoleNext ==
    \/ Reload
    \/ \E k \in calls : Answer(k)
    \/ connectWithBearer
    \/ connectWithOidc
    \/ \E t \in OidcTenants : SelectTenant(t)
    \/ StartSandbox
    \/ NewSandboxCase
    \/ disconnect
    \/ SendQuery
    \/ \E t \in queries : QueryAnswered(t)
    \/ \E t \in cache : SelectCase(t)
    \/ OtherTabStartsSandbox
    \/ GuestCookieExpires

ConsoleSpec == ConsoleInit /\ [][ConsoleNext]_consoleVars

----------------------------------------------------------------------------
AllTenants == {BearerTenant} \cup OidcTenants \cup GuestTenants

(* Every variable has its type.                                             *)
ConsoleTypeOK ==
    /\ token \in {None, BearerTenant}
    /\ oidcTenant \in OidcTenants \cup {None}
    /\ {hint, demo} \subseteq [tenant : GuestTenants \cup {None}, case : GuestTenants \cup {None}]
    /\ ssoCookie \in BOOLEAN /\ lateAnswer \in BOOLEAN
    /\ guestCookie \in GuestTenants \cup {None}
    /\ guestsMade \subseteq GuestTenants
    /\ oidc \in {{}, OidcTenants}
    /\ page \in Screens
    /\ selectedCase \in AllTenants \cup {None}
    /\ queries \cup cache \subseteq AllTenants

(* The case a returning guest lands on is one of the guest's own: a hint   *)
(* that another sandbox left in the browser (an expired one, another       *)
(* tab's) is never taken for the session's case (demo-sandbox.ts, store:   *)
(* "Preserve only the matching, non-sensitive display hint").              *)
ResumedCaseIsOwn == demo.case # None => demo.case = demo.tenant

(* Rows of two tenants meet in the page's cache only when a sign-out begun *)
(* before the connection answers during it; otherwise the cache emptied by *)
(* disconnect is the whole boundary (App.tsx, disconnect: "so the next     *)
(* session never renders the previous one from cache").                    *)
MixedOnlyByLateSignOut ==
    Cardinality(cache \cup queries) > 1 => lateAnswer \/ \E k \in calls : k.kind = "logout"

(* The page shows one tenant: the case a guest resumes is the guest's own, *)
(* and rows of two tenants meet in its cache only by a late sign-out       *)
(* (demo-sandbox.ts, App.tsx).                                             *)
PageShowsOneTenant == ConsoleTypeOK /\ ResumedCaseIsOwn /\ MixedOnlyByLateSignOut
=============================================================================
