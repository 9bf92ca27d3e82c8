----------------------------- MODULE OAuthServer -----------------------------
(***************************************************************************)
(* The authorization server between the MCP clients and the Facebook       *)
(* login: /oauth/register, /oauth/authorize, /meta/callback, /oauth/token  *)
(* and the reconnection links, over the tables oauth_clients,              *)
(* login_states, oauth_codes and oauth_refresh_tokens, with the periodic   *)
(* purge of expired rows and the part of a data deletion that ends         *)
(* sessions.  A handler that touches the database more than once is split  *)
(* at every statement; any request may fail or be lost between two of      *)
(* them, anything may be presented again, and the process may restart.     *)
(*                                                                         *)
(* A state, a code and a refresh token are 32 random bytes drawn once: a   *)
(* secret is in one table at most and the three tables are one function.   *)
(* A flow is named by the secret of the login state that started it; the   *)
(* redirect URI and the PKCE verifier of a token request are right when    *)
(* they are those of the code's flow.  The login itself is TenantLifecycle *)
(* and only its answer, a tenant id, is seen here.  Access tokens are      *)
(* signed, not stored, and left out.                                       *)
(***************************************************************************)
EXTENDS Naturals, FiniteSets

CONSTANTS
    Clients,            \* MCP clients
    Secrets,            \* pool of random secrets
    TenantIDs,          \* tenants
    Requests,           \* concurrent callback and token requests
    LoginStateTTL, AuthCodeTTL, RefreshTokenTTL,
    MaxTime,            \* bound: the clock stops here
    MaxCrashes,         \* bound: the process restarts at most so often
    None

ASSUME OAuthAssumption ==
    /\ LoginStateTTL \in Nat \ {0} /\ AuthCodeTTL \in Nat \ {0} /\ RefreshTokenTTL \in Nat \ {0}
    /\ MaxTime \in Nat /\ MaxCrashes \in Nat
    /\ None \notin Clients \cup TenantIDs \cup Secrets

VARIABLES
    now,                \* the clock
    crashes,            \* restarts so far
    clients,            \* table oauth_clients
    rows,               \* rows[s]: the row of secret s in whichever table
    request,            \* request[r]: what a handler holds between two statements
    purge,              \* the purge under way: its next statement and its cutoff
    tenant              \* history: whether t is stored, and how it was erased

vars == <<now, crashes, clients, rows, request, purge, tenant>>

-----------------------------------------------------------------------------
(* Rows and requests.                                                      *)

Row == [kind : {"state", "code", "refresh"}, flow : Secrets, client : Clients \cup {None},
        tenant : TenantIDs \cup {None}, expires : Nat, revoked : BOOLEAN]

\* A secret not drawn yet, and one whose row was deleted.
NoRow(kind) == [kind |-> kind, flow |-> None, client |-> None, tenant |-> None,
                expires |-> 0, revoked |-> FALSE]
Unused == NoRow("unused")
Gone   == NoRow("gone")

NewRow(kind, flow, client, owner, ttl) ==
    [kind |-> kind, flow |-> flow, client |-> client, tenant |-> owner,
     expires |-> now + ttl, revoked |-> FALSE]

Steps == {"completing", "completed", "redeemed", "rotated"}
Request == [step : Steps, flow : Secrets, client : Clients \cup {None},
            tenant : TenantIDs \cup {None}]
Working(step, flow, client, owner) ==
    [step |-> step, flow |-> flow, client |-> client, tenant |-> owner]
Idle == Working("idle", None, None, None)

\* The statements of PurgeExpired, in order, after which it is idle again.
NoPurge == [next |-> "idle", cutoff |-> 0]

TypeOK ==
    /\ now \in 0..MaxTime
    /\ crashes \in 0..MaxCrashes
    /\ clients \subseteq Clients
    /\ rows \in [Secrets -> Row \cup {Unused, Gone}]
    /\ \A s \in Secrets : rows[s].kind \in {"code", "refresh"} => rows[s].client \in clients
    /\ request \in [Requests -> Request \cup {Idle}]
    /\ purge \in [next : {"idle", "code", "state", "refresh"}, cutoff : 0..MaxTime]
    /\ tenant \in [TenantIDs -> {"absent", "stored", "erased", "overlapped"}]

Init ==
    /\ now = 0
    /\ crashes = 0
    /\ clients = {}
    /\ rows = [s \in Secrets |-> Unused]
    /\ request = [r \in Requests |-> Idle]
    /\ purge = NoPurge
    /\ tenant = [t \in TenantIDs |-> "absent"]

\* A row its table would still answer for: not deleted, revoked or expired.
Usable(s) ==
    /\ rows[s].kind \in {"state", "code", "refresh"}
    /\ ~rows[s].revoked
    /\ now < rows[s].expires

-----------------------------------------------------------------------------
(* Starting a flow.                                                        *)

\* RegisterHandler
Register(c) ==
    /\ c \notin clients
    /\ clients' = clients \cup {c}
    /\ UNCHANGED <<now, crashes, rows, request, purge, tenant>>

\* AuthorizeHandler.  Clients are never removed, so the lookup and the insert
\* are one step.
Authorize(c, s) ==
    /\ c \in clients
    /\ rows[s] = Unused
    /\ rows' = [rows EXCEPT ![s] = NewRow("state", s, c, None, LoginStateTTL)]
    /\ UNCHANGED <<now, crashes, clients, request, purge, tenant>>

\* ReconnectURL parks a state of no client.
Reconnect(s) ==
    /\ rows[s] = Unused
    /\ \E t \in TenantIDs : tenant[t] # "absent"
    /\ rows' = [rows EXCEPT ![s] = NewRow("state", s, None, None, LoginStateTTL)]
    /\ UNCHANGED <<now, crashes, clients, request, purge, tenant>>

-----------------------------------------------------------------------------
(* CallbackHandler.                                                        *)

\* Mutant: SELECT, and the row stays.
ConsumeBySelect(kind, s) == rows[s].kind = kind /\ UNCHANGED rows

\* DELETE .. RETURNING, shared by states and codes: the row goes whether or
\* not it is still valid.
Consume(kind, s) ==
    /\ rows[s].kind = kind
    /\ rows' = [rows EXCEPT ![s] = Gone]

\* ConsumeState.  The deadline is checked right after the row was read.
CallbackConsume(r, s) ==
    /\ request[r] = Idle
    /\ Consume("state", s)
    /\ request' = IF now < rows[s].expires
                  THEN [request EXCEPT ![r] = Working("completing", rows[s].flow, rows[s].client, None)]
                  ELSE request
    /\ UNCHANGED <<now, crashes, clients, purge, tenant>>

\* Mutant: a reconnection is not told apart from a client's request.
CallbackCompleteAsClient(r, t) ==
    /\ request[r].step = "completing"
    /\ tenant' = [tenant EXCEPT ![t] = "stored"]
    /\ request' = [request EXCEPT ![r] = Working("completed", @.flow, @.client, t)]
    /\ UNCHANGED <<now, crashes, clients, rows, purge>>

\* Complete has stored a tenant, new, known or brought back.  Its page fetch is
\* still to come: if that fails, or the client gives up, the request ends in
\* RequestFails with the tenant stored and no code.  A reconnection has nothing
\* left to do here, whether its page fetch succeeds or not.
CallbackComplete(r, t) ==
    /\ request[r].step = "completing"
    /\ tenant' = [tenant EXCEPT ![t] = "stored"]
    /\ request' = [request EXCEPT ![r] =
                      IF @.client = None THEN Idle ELSE Working("completed", @.flow, @.client, t)]
    /\ UNCHANGED <<now, crashes, clients, rows, purge>>

\* IssueAuthCode
IssueAuthCode(r, s) ==
    /\ request[r].step = "completed"
    /\ rows[s] = Unused
    /\ rows' = [rows EXCEPT ![s] =
                   NewRow("code", request[r].flow, request[r].client, request[r].tenant, AuthCodeTTL)]
    /\ request' = [request EXCEPT ![r] = Idle]
    /\ UNCHANGED <<now, crashes, clients, purge, tenant>>

-----------------------------------------------------------------------------
(* TokenHandler.                                                           *)

\* grantAuthorizationCode: the code is burnt first, then checked against the
\* deadline and what the request presents.
RedeemCode(r, s, c, f) ==
    /\ request[r] = Idle
    /\ Consume("code", s)
    /\ request' = IF now < rows[s].expires /\ c = rows[s].client /\ f = rows[s].flow
                  THEN [request EXCEPT ![r] = Working("redeemed", f, c, rows[s].tenant)]
                  ELSE request
    /\ UNCHANGED <<now, crashes, clients, purge, tenant>>

\* RotateRefreshToken: UPDATE .. WHERE revoked = 0 AND expires_at > now.
Rotate(s) ==
    /\ rows[s].kind = "refresh"
    /\ ~rows[s].revoked
    /\ now < rows[s].expires
    /\ rows' = [rows EXCEPT ![s].revoked = TRUE]

\* grantRefreshToken: the token is revoked first, then its client is checked.
RotateToken(r, s, c) ==
    /\ request[r] = Idle
    /\ Rotate(s)
    /\ request' = IF c = rows[s].client
                  THEN [request EXCEPT ![r] = Working("rotated", rows[s].flow, c, rows[s].tenant)]
                  ELSE request
    /\ UNCHANGED <<now, crashes, clients, purge, tenant>>

\* issueTokens
IssueTokens(r, s) ==
    /\ request[r].step \in {"redeemed", "rotated"}
    /\ rows[s] = Unused
    /\ rows' = [rows EXCEPT ![s] =
                   NewRow("refresh", request[r].flow, request[r].client, request[r].tenant,
                          RefreshTokenTTL)]
    /\ request' = [request EXCEPT ![r] = Idle]
    /\ UNCHANGED <<now, crashes, clients, purge, tenant>>

\* The user declines, Meta or the store fails, before the tenant is stored or
\* after; the client gives up.
RequestFails(r) ==
    /\ request[r] # Idle
    /\ request' = [request EXCEPT ![r] = Idle]
    /\ UNCHANGED <<now, crashes, clients, rows, purge, tenant>>

-----------------------------------------------------------------------------
(* Data deletion and housekeeping.                                         *)

\* Mutant: the authorization codes are forgotten.
EndRefreshTokens(t) ==
    rows' = [s \in Secrets |->
                IF rows[s].kind = "refresh" /\ rows[s].tenant = t THEN Gone ELSE rows[s]]

\* DeleteTenant, the part that ends sessions: one transaction over codes and
\* refresh tokens.  A second request that looked the tenant up before the first
\* one committed runs it again; here it may do so however late.
EndSessions(t) ==
    rows' = [s \in Secrets |->
                IF rows[s].kind \in {"code", "refresh"} /\ rows[s].tenant = t THEN Gone ELSE rows[s]]

DeleteTenant(t) ==
    /\ tenant[t] # "absent"
    /\ EndSessions(t)
    /\ tenant' = [tenant EXCEPT ![t] =
                     IF \E r \in Requests : request[r].tenant = t THEN "overlapped" ELSE "erased"]
    /\ UNCHANGED <<now, crashes, clients, request, purge>>

\* PurgeExpired reads the clock once, then runs three statements.
PurgeStart ==
    /\ purge.next = "idle"
    /\ purge' = [next |-> "code", cutoff |-> now]
    /\ UNCHANGED <<now, crashes, clients, rows, request, tenant>>

\* Mutant: one second too early.
PastCutoffSoon(row) == row.expires <= purge.cutoff + 1

PastCutoff(row) == row.expires <= purge.cutoff

PurgeStatement(kind, next) ==
    /\ purge.next = kind
    /\ rows' = [s \in Secrets |->
                   IF rows[s].kind = kind /\ PastCutoff(rows[s]) THEN Gone ELSE rows[s]]
    /\ purge' = IF next = "idle" THEN NoPurge ELSE [purge EXCEPT !.next = next]
    /\ UNCHANGED <<now, crashes, clients, request, tenant>>

\* Mutant: the login states are forgotten.
PurgeCodesOnly == PurgeStatement("code", "refresh")

PurgeCodes == PurgeStatement("code", "state")
PurgeStates == PurgeStatement("state", "refresh")
PurgeRefresh == PurgeStatement("refresh", "idle")

\* A statement fails: the rest of this purge does not run.
PurgeFails ==
    /\ purge.next # "idle"
    /\ purge' = NoPurge
    /\ UNCHANGED <<now, crashes, clients, rows, request, tenant>>

Tick ==
    /\ now < MaxTime
    /\ now' = now + 1
    /\ UNCHANGED <<crashes, clients, rows, request, purge, tenant>>

\* A restart loses the requests and the purge under way; the tables survive
\* and a purge runs first.
Crash ==
    /\ crashes < MaxCrashes
    /\ crashes' = crashes + 1
    /\ request' = [r \in Requests |-> Idle]
    /\ purge' = [next |-> "code", cutoff |-> now]
    /\ UNCHANGED <<now, clients, rows, tenant>>

Start(s) == Reconnect(s) \/ \E c \in Clients : Authorize(c, s)

Callback(r) ==
    \/ \E s \in Secrets : CallbackConsume(r, s) \/ IssueAuthCode(r, s)
    \/ \E t \in TenantIDs : CallbackComplete(r, t)

TokenRequest(r) ==
    \E s \in Secrets :
        \/ \E c \in Clients, f \in Secrets : RedeemCode(r, s, c, f)
        \/ \E c \in Clients : RotateToken(r, s, c)
        \/ IssueTokens(r, s)

Purge == PurgeStart \/ PurgeCodes \/ PurgeStates \/ PurgeRefresh \/ PurgeFails

Next ==
    \/ \E c \in Clients : Register(c)
    \/ \E s \in Secrets : Start(s)
    \/ \E r \in Requests : Callback(r) \/ TokenRequest(r) \/ RequestFails(r)
    \/ \E t \in TenantIDs : DeleteTenant(t)
    \/ Purge
    \/ Tick
    \/ Crash

Spec == Init /\ [][Next]_vars

\* purgeLoop keeps running while the process does, and no statement fails for
\* ever.  Clients, users and the clock owe nothing.
FairSpec ==
    /\ Spec
    /\ WF_vars(PurgeStart)
    /\ SF_vars(PurgeCodes)
    /\ SF_vars(PurgeStates)
    /\ SF_vars(PurgeRefresh)

-----------------------------------------------------------------------------
(* Properties.                                                             *)

\* What carries flow f: its usable rows and the requests between consuming one
\* and issuing the next.
RowsOf(f)     == {s \in Secrets : Usable(s) /\ rows[s].flow = f}
RequestsOf(f) == {r \in Requests : request[r].flow = f}

RowPhase(s) ==
    CASE rows[s].kind = "state"   -> "login"
      [] rows[s].kind = "code"    -> "code"
      [] rows[s].kind = "refresh" -> "session"
RequestPhase(r) ==
    CASE request[r].step \in {"completing", "completed"} -> "login"
      [] request[r].step = "redeemed"                    -> "code"
      [] request[r].step = "rotated"                     -> "session"

\* A secret drawn for a code or a refresh token names no flow of its own.
PhaseOf(f) ==
    LET carriers == {RowPhase(s) : s \in RowsOf(f)} \cup {RequestPhase(r) : r \in RequestsOf(f)}
        count    == Cardinality(RowsOf(f)) + Cardinality(RequestsOf(f))
    IN  CASE count = 0 -> IF rows[f].kind \in {"unused", "code", "refresh"} THEN "none" ELSE "over"
          [] count = 1 -> CHOOSE p \in carriers : TRUE
          [] count > 1 -> "torn"

\* One credential per authorization request, moving forward only and never back
\* once over, whatever is replayed, raced, lost or restarted (ConsumeLoginState, ConsumeAuthCode,
\* RotateRefreshToken).
Grant == INSTANCE GrantFlow WITH Flows <- Secrets, phase <- [f \in Secrets |-> PhaseOf(f)]
ImplementsGrant == Grant!GrantSpec

\* The purge, working from a cutoff that may be old by now, never takes a row
\* somebody could still use (PurgeExpired).
PurgeTakesOnlyDead ==
    [][purge' # purge => \A s \in Secrets : Usable(s) => Usable(s)']_vars

\* A data deletion that overlapped with no login and no token request of the
\* tenant ends every session: no code and no refresh token of it is usable
\* until it logs in again (DeleteTenant).
CleanErasureEndsSessions ==
    \A s \in Secrets : Usable(s) /\ rows[s].tenant # None => tenant[rows[s].tenant] # "erased"

\* Every row is eventually dropped once it expired, although any statement of a
\* purge may fail and end it (purgeLoop, PurgeExpired).
ExpiredRow(s) == rows[s].kind \in {"state", "code", "refresh"} /\ rows[s].expires <= now
ExpiredRowsAreDropped == \A s \in Secrets : ExpiredRow(s) ~> ~ExpiredRow(s)

(* What the documentation says and the code does not.                      *)

\* store.go: "Its refresh tokens are revoked too so no client keeps a live
\* session".  An erased tenant has no usable refresh token.
ErasureEndsSessions ==
    \A s \in Secrets : Usable(s) /\ rows[s].kind = "refresh" => tenant[rows[s].tenant] = "stored"
=============================================================================
