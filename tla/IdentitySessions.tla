--------------------------- MODULE IdentitySessions ---------------------------
(***************************************************************************)
(* Sign-in of people (src/src/auth): the OIDC callback, self-service       *)
(* provisioning of a first-time user, the server-side session with its     *)
(* token refresh, log-out, and the operator's user script.                 *)
(*                                                                         *)
(* A request reads the session row, waits for the identity provider, and   *)
(* saves the whole row it read: requests of one browser (its tabs) and     *)
(* callbacks overlap.  repository.save inserts the row again when it has   *)
(* been deleted meanwhile.  Time is a counter; tokens are numbers.         *)
(***************************************************************************)
EXTENDS Integers, Sequences, FiniteSets, FiniteSetsExt

CONSTANTS
  Subjects,        \* people the identity provider knows
  OperatorTenant,  \* a tenant that the operator created
  Callbacks,       \* login callbacks that can be in progress
  Tabs,            \* requests with the session cookie that can be in progress
  SignupEnabled,   \* SELF_SERVICE_SIGNUP_ENABLED
  SessionCap,      \* OIDC_SESSION_MAX_AGE_SECONDS
  AccessLife,      \* expires_in of an access token
  RefreshLives,    \* refresh_expires_in the provider may state; 0 is "not stated"
  RefreshSkew,     \* REFRESH_SKEW_MS
  TouchInterval,   \* LAST_USED_WRITE_INTERVAL_MS
  MaxClock, MaxSessions, MaxTokens  \* bounds

VARIABLES
  users,        \* subjects with a user row
  workspaces,   \* self-service tenants, each for the subject that created it
  memberships,  \* tenant_memberships
  sessions,     \* oidc_sessions, by handle
  cookies,      \* the browser: login state, session handle, CSRF value
  callback,     \* per callback: its state
  tab,          \* per request: its state
  honoured,     \* refresh tokens that the provider accepts
  minted,       \* counter: tokens minted so far
  wallClock

identityVars == <<users, workspaces, memberships, sessions, cookies, callback, tab,
                  honoured, minted, wallClock>>

Roles == {"PARTNER", "REVIEWER"}
WorkspaceRow == [subject: Subjects, by: Callbacks]
MembershipRow == [tenant: WorkspaceRow \cup {OperatorTenant}, subject: Subjects, role: Roles]
NoRow == [live |-> FALSE]
SessionRow == [live: {TRUE}, subject: Subjects, csrf: Nat, refreshToken: Nat,
               accessExpiresAt: Nat, expiresAt: Nat, lastUsedAt: Nat, login: Nat]
NoCookies == [state |-> 0, session |-> 0, csrf |-> 0]
Resting == [step |-> "idle"]

ASSUME IdentityAssumption ==
  /\ SessionCap \in Nat /\ AccessLife \in Nat /\ RefreshSkew \in Nat /\ TouchInterval \in Nat
  /\ RefreshLives \subseteq Nat
  /\ OperatorTenant \notin WorkspaceRow

IdentityInit ==
  /\ users = {} /\ workspaces = {} /\ memberships = {}
  /\ sessions = <<>>
  /\ cookies = NoCookies
  /\ callback = [l \in Callbacks |-> Resting]
  /\ tab = [r \in Tabs |-> Resting]
  /\ honoured = {} /\ minted = 0 /\ wallClock = 0

accountVars == <<users, workspaces, memberships>>

-----------------------------------------------------------------------------
(***************************************************************************)
(* Login: beginLogin, completeLogin with resolveUser.                      *)
(***************************************************************************)

Token == minted + 1
Mint == minted < MaxTokens /\ minted' = minted + 1

(* The authorization URL that the browser follows, with its state value.    *)
AuthorizationRequest(s) == [step |-> "provider", state |-> Token, subject |-> s]

(* The provider's answer to a code exchange: a refresh token it honours.    *)
Exchange == Mint /\ honoured' = honoured \cup {Token}

SetSessionCookies(h, csrf) == [cookies EXCEPT !.session = h, !.csrf = csrf]
ClearSessionCookies == SetSessionCookies(0, 0)

(* beginLogin sets the state cookie; a second login replaces it.            *)
BeginLogin(l, s) ==
  /\ callback[l] = Resting
  /\ Mint
  /\ cookies' = [cookies EXCEPT !.state = Token]
  /\ callback' = [callback EXCEPT ![l] = AuthorizationRequest(s)]
  /\ UNCHANGED <<accountVars, sessions, tab, honoured, wallClock>>

(* The provider redirects back; the login cookies are cleared, and another  *)
(* state than the cookie's is refused.  A known user goes on to the session.*)
CompleteLogin(l) ==
  LET c == callback[l]
      next == IF c.state # cookies.state THEN "idle"
              ELSE IF c.subject \in users THEN "session"
              ELSE IF SignupEnabled THEN "provision"
              ELSE "idle"
  IN  /\ c.step = "provider"
      /\ cookies' = [cookies EXCEPT !.state = 0]
      /\ callback' = [callback EXCEPT ![l] =
           IF next = "idle" THEN Resting ELSE [step |-> next, subject |-> c.subject]]
      /\ UNCHANGED <<accountVars, sessions, tab, honoured, minted, wallClock>>

(* resolveUser: the lookup that opens the provisioning transaction.         *)
ProvisionLookup(l) ==
  /\ callback[l].step = "provision"
  /\ callback' = [callback EXCEPT ![l] = [@ EXCEPT !.step =
       IF callback[l].subject \in users THEN "session" ELSE "insert"]]
  /\ UNCHANGED <<accountVars, sessions, cookies, tab, honoured, minted, wallClock>>

(* What the transaction commits: tenant, user and PARTNER membership, or,   *)
(* when the unique subject is taken, nothing.                               *)
ProvisionedAlways(l) ==                              \* mutant of Provisioned
  LET w == [subject |-> callback[l].subject, by |-> l]
  IN  /\ users' = users \cup {w.subject}
      /\ workspaces' = workspaces \cup {w}
      /\ memberships' = memberships \cup {[tenant |-> w, subject |-> w.subject, role |-> "PARTNER"]}

Provisioned(l) ==
  IF callback[l].subject \in users THEN UNCHANGED accountVars ELSE ProvisionedAlways(l)

ProvisionCommit(l) ==
  /\ callback[l].step = "insert"
  /\ Provisioned(l)
  /\ callback' = [callback EXCEPT ![l] = [@ EXCEPT !.step = "session"]]
  /\ UNCHANGED <<sessions, cookies, tab, honoured, minted, wallClock>>

LifeAsStated(life) == IF life = 0 THEN SessionCap ELSE life     \* mutant of SessionLife

SessionLife(life) == Min({LifeAsStated(life), SessionCap})

(* The rest of completeLogin: expired rows deleted, the session saved, its  *)
(* cookies set.                                                             *)
OpenSession(l, life) ==
  LET kept == [h \in DOMAIN sessions |->
                 IF sessions[h].live /\ sessions[h].expiresAt < wallClock THEN NoRow ELSE sessions[h]]
  IN  /\ callback[l].step = "session"
      /\ Len(sessions) < MaxSessions
      /\ Exchange
      /\ sessions' = Append(kept,
           [live |-> TRUE, subject |-> callback[l].subject, csrf |-> Token, refreshToken |-> Token,
            accessExpiresAt |-> wallClock + AccessLife, expiresAt |-> wallClock + SessionLife(life),
            lastUsedAt |-> wallClock, login |-> wallClock])
      /\ cookies' = SetSessionCookies(Len(sessions) + 1, Token)
      /\ callback' = [callback EXCEPT ![l] = Resting]
      /\ UNCHANGED <<accountVars, tab, wallClock>>

-----------------------------------------------------------------------------
(***************************************************************************)
(* authenticateCookie, for the guards and GET /v1/auth/session.            *)
(***************************************************************************)

(* assertCsrf.                                                              *)
CsrfMatches(row) == cookies.csrf = row.csrf

AccessDue(row) == row.accessExpiresAt <= wallClock + RefreshSkew

(* Read the row.  No row: refused.  Expired: deleted, cookies cleared.      *)
(* Otherwise a CSRF value that does not match is refused on a write and     *)
(* replaced on a read.                                                      *)
ReadSession(r, write) ==
  LET h == cookies.session
      row == sessions[h]
      match == CsrfMatches(row)
      fixed == IF match THEN row ELSE [row EXCEPT !.csrf = Token]
  IN  /\ tab[r] = Resting
      /\ h # 0 /\ row.live
      /\ IF row.expiresAt <= wallClock
           THEN /\ sessions' = [sessions EXCEPT ![h] = NoRow]
                /\ cookies' = ClearSessionCookies
                /\ UNCHANGED <<tab, minted>>
           ELSE /\ match \/ ~write
                /\ IF match THEN UNCHANGED minted ELSE Mint
                /\ tab' = [tab EXCEPT ![r] =
                     [step |-> IF AccessDue(row) THEN "refresh" ELSE "user",
                      handle |-> h, row |-> fixed, changed |-> ~match, at |-> wallClock]]
                /\ UNCHANGED <<sessions, cookies>>
      /\ UNCHANGED <<accountVars, callback, honoured, wallClock>>

(* The response carries the CSRF cookie also when the request is refused.   *)
Respond(r) ==
  /\ cookies' = IF tab[r].changed /\ cookies.session = tab[r].handle
                  THEN [cookies EXCEPT !.csrf = tab[r].row.csrf] ELSE cookies
  /\ tab' = [tab EXCEPT ![r] = Resting]

RefreshRefused(r) ==
  /\ tab[r].step = "refresh"
  /\ tab[r].row.refreshToken \notin honoured
  /\ Respond(r)
  /\ UNCHANGED <<accountVars, sessions, callback, honoured, minted, wallClock>>

ExtendedExpiry(row, at, life) == IF life = 0 THEN row.expiresAt ELSE at + life  \* mutant of NewExpiry

NewExpiry(row, at, life) ==
  IF life = 0 THEN row.expiresAt ELSE Min({row.expiresAt, at + life})

(* mergeRefreshedBundle, and the row that is kept with it.                  *)
Merged(row, token, at, life) ==
  [row EXCEPT !.refreshToken = token, !.accessExpiresAt = at + AccessLife,
              !.expiresAt = NewExpiry(row, at, life)]

(* The provider rotates a refresh token: the old one is no longer honoured. *)
Rotate(old) == Mint /\ honoured' = (honoured \ {old}) \cup {Token}

(* The provider answers a refresh, with or without a new refresh token that *)
(* replaces the old one.                                                    *)
Refresh(r, life, rotates) ==
  LET t == tab[r]
      token == IF rotates THEN Token ELSE t.row.refreshToken
  IN  /\ t.step = "refresh"
      /\ t.row.refreshToken \in honoured
      /\ IF rotates THEN Rotate(t.row.refreshToken) ELSE UNCHANGED <<minted, honoured>>
      /\ tab' = [tab EXCEPT ![r] = [t EXCEPT !.step = "user", !.changed = TRUE,
                                               !.row = Merged(t.row, token, t.at, life)]]
      /\ UNCHANGED <<accountVars, sessions, cookies, callback, wallClock>>

(* The callers: the tenant-scoped guard, which asks for a CSRF header on a  *)
(* write, the guard of the identity alone, and the session endpoint.        *)
BusinessRequest(r) == \E write \in BOOLEAN : ReadSession(r, write)
IdentityRequest(r) == ReadSession(r, FALSE)
GetSessionStatus(r) == ReadSession(r, FALSE)

(* The user is looked up, lastUsedAt refreshed when due, the row saved when *)
(* something changed: an update of every column, or an insert if the row is *)
(* gone.                                                                    *)
SaveSession(r) ==
  LET t == tab[r]
      touch == t.at - t.row.lastUsedAt >= TouchInterval \/ t.row.accessExpiresAt <= t.at + RefreshSkew
      row == IF touch THEN [t.row EXCEPT !.lastUsedAt = t.at] ELSE t.row
  IN  /\ t.step = "user"
      /\ t.row.subject \in users
      /\ sessions' = IF touch \/ t.changed THEN [sessions EXCEPT ![t.handle] = row] ELSE sessions
      /\ Respond(r)
      /\ UNCHANGED <<accountVars, callback, honoured, minted, wallClock>>

(* logout: a cookie without a session is cleared; a CSRF mismatch refused.  *)
Logout ==
  LET h == cookies.session
  IN  /\ h # 0
      /\ sessions[h].live => CsrfMatches(sessions[h])
      /\ sessions' = [sessions EXCEPT ![h] = NoRow]
      /\ cookies' = ClearSessionCookies
      /\ UNCHANGED <<accountVars, callback, tab, honoured, minted, wallClock>>

ClockTicks ==
  /\ wallClock < MaxClock
  /\ wallClock' = wallClock + 1
  /\ UNCHANGED <<accountVars, sessions, cookies, callback, tab, honoured, minted>>

-----------------------------------------------------------------------------
(***************************************************************************)
(* manage-user.                                                            *)
(***************************************************************************)

CreateUser(s) ==
  /\ s \notin users
  /\ users' = users \cup {s}
  /\ UNCHANGED <<workspaces, memberships, sessions, cookies, callback, tab, honoured, minted, wallClock>>

GrantMembership(s, role) ==
  /\ s \in users
  /\ memberships' = {m \in memberships : m.tenant # OperatorTenant \/ m.subject # s}
                      \cup {[tenant |-> OperatorTenant, subject |-> s, role |-> role]}
  /\ UNCHANGED <<users, workspaces, sessions, cookies, callback, tab, honoured, minted, wallClock>>

RevokeMembership(s) ==
  /\ \E m \in memberships : m.tenant = OperatorTenant /\ m.subject = s
  /\ memberships' = {m \in memberships : m.tenant # OperatorTenant \/ m.subject # s}
  /\ UNCHANGED <<users, workspaces, sessions, cookies, callback, tab, honoured, minted, wallClock>>

IdentityNext ==
  \/ \E l \in Callbacks :
       \/ \E s \in Subjects : BeginLogin(l, s)
       \/ CompleteLogin(l) \/ ProvisionLookup(l) \/ ProvisionCommit(l)
       \/ \E life \in RefreshLives : OpenSession(l, life)
  \/ \E r \in Tabs :
       \/ BusinessRequest(r) \/ IdentityRequest(r) \/ GetSessionStatus(r)
       \/ RefreshRefused(r) \/ SaveSession(r)
       \/ \E life \in RefreshLives, rotates \in BOOLEAN : Refresh(r, life, rotates)
  \/ Logout \/ ClockTicks
  \/ \E s \in Subjects : \/ CreateUser(s) \/ RevokeMembership(s)
                         \/ \E role \in Roles : GrantMembership(s, role)

IdentitySpec == IdentityInit /\ [][IdentityNext]_identityVars

-----------------------------------------------------------------------------
(***************************************************************************)
(* Properties.                                                             *)
(***************************************************************************)

(* Every variable has its type.                                             *)
IdentityTypeOK ==
  /\ users \subseteq Subjects
  /\ workspaces \subseteq WorkspaceRow
  /\ memberships \subseteq MembershipRow
  /\ \A h \in DOMAIN sessions : sessions[h] = NoRow \/ sessions[h] \in SessionRow
  /\ cookies.session \in {0} \cup DOMAIN sessions

(* However first callbacks, operator scripts and retries overlap, a person  *)
(* has at most one self-service workspace; each workspace has its owner, as *)
(* PARTNER, and no other member: a callback never joins one that exists.    *)
OneWorkspacePerSubject ==
  /\ \A v, w \in workspaces : v.subject = w.subject => v = w
  /\ \A w \in workspaces : {m \in memberships : m.tenant = w}
                             = {[tenant |-> w, subject |-> w.subject, role |-> "PARTNER"]}

(* No refresh, lost update or re-inserted row carries a session past the    *)
(* operator's cap, counted from its login.                                  *)
SessionWithinCap ==
  \A h \in DOMAIN sessions :
    sessions[h].live => sessions[h].expiresAt <= sessions[h].login + SessionCap

(* However first callbacks overlap, a person has at most one self-service   *)
(* workspace, and it has no member but them; and no refresh, lost update or *)
(* re-inserted row carries a session past the operator's cap                *)
(* (self-service-provisioning.service.ts, oidc-session.service.ts).         *)
SignInIsSound == IdentityTypeOK /\ OneWorkspacePerSubject /\ SessionWithinCap
=============================================================================
