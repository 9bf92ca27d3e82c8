--------------------------- MODULE TenantLifecycle ---------------------------
(***************************************************************************)
(* The tenant and page tables of the server and every operation that       *)
(* writes them: the Facebook login callback (LoginService.Complete), the   *)
(* token renewal sweep (RefreshExpiringTokens), the data deletion callback *)
(* (DeleteByMetaUserID) and the sync_pages tool.  SQLite runs on a single  *)
(* connection, so each statement or transaction is one atomic action;      *)
(* between two of them, and around every call to Meta, anything may        *)
(* interleave, any step may fail and the process may stop.                 *)
(*                                                                         *)
(* Meta's side is external: which accounts currently grant the app and     *)
(* under which authorization (a number that grows each time the app is     *)
(* granted again).  The pages an account administers come and go at Meta,  *)
(* so me/accounts may answer any of those it may ever administer.          *)
(*                                                                         *)
(* Left out: display names, creation dates, encryption at rest.            *)
(***************************************************************************)
EXTENDS Naturals, FiniteSets

CONSTANTS
    MetaUsers,      \* Facebook accounts
    TenantIDs,      \* pool of uuids
    Pages,          \* Facebook Pages
    Manageable,     \* Manageable[u]: the pages account u may ever administer
    Allowed,        \* ALLOWED_META_USER_IDS
    Logins,         \* concurrent /meta/callback requests
    Deletions,      \* concurrent /meta/data-deletion requests
    Syncs,          \* concurrent sync_pages calls
    Lifetimes,      \* what Meta may answer in expires_in; 0 when it says nothing
    Window,         \* DefaultRefreshWindow
    Recheck,        \* recheckInterval
    MaxTime,        \* bound: the clock stops here
    MaxGrant,       \* bound: an account authorizes the app at most so often
    MaxCrashes,     \* bound: the process restarts at most so often
    None

ASSUME LifecycleAssumption ==
    /\ Manageable \in [MetaUsers -> SUBSET Pages]
    /\ Allowed \subseteq MetaUsers
    /\ Lifetimes \subseteq Nat
    /\ Window \in Nat /\ Recheck \in Nat
    /\ MaxTime \in Nat \ {0} /\ MaxGrant \in Nat /\ MaxCrashes \in Nat
    /\ None \notin TenantIDs \cup MetaUsers

VARIABLES
    now,            \* the clock
    crashes,        \* restarts so far
    grant,          \* Meta: grant[u], the number of u's latest authorization
    granted,        \* Meta: granted[u], whether it still stands
    tenants,        \* table tenants: tenants[id], a row or NoRow
    pages,          \* table pages: pages[id], the pages filed under id
    login,          \* login[l]: progress of a callback request
    due,            \* due[id]: the sweep's copy of a tenant it still has to renew
    renewing,       \* the tenant whose token the sweep just exchanged
    outcome,        \* outcome[id]: what the running sweep did with id so far
    deletion,       \* deletion[d]: progress of a deletion request
    sync,           \* sync[s]: progress of a sync_pages call
    erased,         \* history: how the latest deletion of u's data ended
    settled         \* history: the authorization u's latest undisturbed login stored

metaVars  == <<grant, granted>>
dbVars    == <<tenants, pages>>
sweepVars == <<due, renewing, outcome>>
history   == <<erased, settled>>
vars == <<now, crashes, metaVars, dbVars, login, sweepVars, deletion, sync, history>>

-----------------------------------------------------------------------------
(* Rows.  expires = 0 is an unknown deadline.                              *)

Token == [user : MetaUsers, grant : 1..MaxGrant]
Row   == [user : MetaUsers, token : Token, expires : Nat, updated : Nat]

\* What an absent row or an idle request holds.
NoRow == [user |-> None, token |-> None, expires |-> 0, updated |-> 0]

Working(step, id, row, fetched) == [step |-> step, id |-> id, row |-> row, fetched |-> fetched]
Idle == Working("idle", None, NoRow, {})

Work(steps, ids) == [step : steps, id : ids, row : Row, fetched : SUBSET Pages]
LoginWork == Work({"lookup"}, {None})
             \cup Work({"upsert", "accounts", "replace", "done"}, TenantIDs)
SyncWork  == Work({"accounts", "replace"}, TenantIDs)

TypeOK ==
    /\ now \in 1..MaxTime
    /\ crashes \in 0..MaxCrashes
    /\ grant \in [MetaUsers -> 0..MaxGrant]
    /\ granted \in [MetaUsers -> BOOLEAN]
    /\ \A u \in MetaUsers : granted[u] => grant[u] # 0
    /\ tenants \in [TenantIDs -> Row \cup {NoRow}]
    /\ pages \in [TenantIDs -> SUBSET Pages]
    /\ login \in [Logins -> LoginWork \cup {Idle}]
    /\ due \in [TenantIDs -> Row \cup {NoRow}]
    /\ renewing \in TenantIDs \cup {None}
    /\ outcome \in [TenantIDs -> {"none", "renewed", "refused", "failed"}]
    /\ deletion \in [Deletions -> [id : TenantIDs \cup {None}, user : MetaUsers \cup {None}]]
    /\ sync \in [Syncs -> SyncWork \cup {Idle}]
    /\ erased \in [MetaUsers -> {"no", "clean", "login", "sweep"}]
    /\ settled \in [MetaUsers -> 0..MaxGrant]

Init ==
    /\ now = 1
    /\ crashes = 0
    /\ grant = [u \in MetaUsers |-> 0]
    /\ granted = [u \in MetaUsers |-> FALSE]
    /\ tenants = [id \in TenantIDs |-> NoRow]
    /\ pages = [id \in TenantIDs |-> {}]
    /\ login = [l \in Logins |-> Idle]
    /\ due = [id \in TenantIDs |-> NoRow]
    /\ renewing = None
    /\ outcome = [id \in TenantIDs |-> "none"]
    /\ deletion = [d \in Deletions |-> [id |-> None, user |-> None]]
    /\ sync = [s \in Syncs |-> Idle]
    /\ erased = [u \in MetaUsers |-> "no"]
    /\ settled = [u \in MetaUsers |-> 0]

-----------------------------------------------------------------------------
(* The statements of the store, one transaction each.                      *)

\* TenantByMetaUserID: the ids (one at most) under which u is stored.
ByMetaUser(u) == {id \in TenantIDs : tenants[id].user = u}

\* Mutant: INSERT OR REPLACE, which moves the account to the new id.
UpsertTenantReplace(id, row) ==
    LET old == ByMetaUser(row.user)
    IN  /\ tenants' = [i \in TenantIDs |->
                          IF i = id THEN row ELSE IF i \in old THEN NoRow ELSE tenants[i]]
        /\ pages' = [i \in TenantIDs |-> IF i \in old THEN {} ELSE pages[i]]

\* INSERT .. ON CONFLICT(meta_user_id) DO UPDATE: a known account keeps its id
\* and its pages, an unknown one gets the id the caller brought, unless the
\* primary key is taken.
UpsertTenant(id, row) ==
    LET target == IF ByMetaUser(row.user) = {} THEN {id} ELSE ByMetaUser(row.user)
    IN  /\ ByMetaUser(row.user) = {} => tenants[id] = NoRow
        /\ tenants' = [i \in TenantIDs |-> IF i \in target THEN row ELSE tenants[i]]
        /\ UNCHANGED pages

\* Mutant: only the pages go.
DeletePagesOnly(id) == UNCHANGED tenants /\ pages' = [pages EXCEPT ![id] = {}]

DeleteTenant(id) ==
    /\ tenants' = [tenants EXCEPT ![id] = NoRow]
    /\ pages' = [pages EXCEPT ![id] = {}]

\* Mutant: foreign keys left off, SQLite's default.
ReplacePagesUnchecked(id, S) == pages' = [pages EXCEPT ![id] = S] /\ UNCHANGED tenants

\* The foreign key refuses a page of an absent tenant; an empty list passes.
ReplacePages(id, S) ==
    /\ S # {} => tenants[id] # NoRow
    /\ pages' = [pages EXCEPT ![id] = S]
    /\ UNCHANGED tenants

\* TenantsDueForTokenRefresh, at the window RefreshExpiringTokens asks for.
DueForRefresh(row) ==
    /\ row # NoRow
    /\ \/ row.expires > 0 /\ row.expires < now + Window
       \/ row.expires = 0 /\ row.updated + Recheck < now

-----------------------------------------------------------------------------
(* Meta.  A token works while the authorization it came from still stands  *)
(* and its deadline has not passed.                                        *)

Works(row) ==
    /\ granted[row.token.user]
    /\ grant[row.token.user] = row.token.grant
    /\ row.expires > 0 => now < row.expires

\* Mutant: the zero time stored as the Unix time it has, which is negative.
ExpiryOfZeroTime(lifetime) == IF lifetime = 0 THEN 0 - 1 ELSE now + lifetime

\* expiryFrom
ExpiryFrom(lifetime) == IF lifetime = 0 THEN 0 ELSE now + lifetime

\* The user goes through the Facebook dialog.
Consent(u) ==
    /\ ~granted[u] /\ grant[u] < MaxGrant
    /\ grant' = [grant EXCEPT ![u] = @ + 1]
    /\ granted' = [granted EXCEPT ![u] = TRUE]
    /\ UNCHANGED <<now, crashes, dbVars, login, sweepVars, deletion, sync, history>>

\* The user removes the app in the Facebook settings.
RemoveApp(u) ==
    /\ granted[u]
    /\ granted' = [granted EXCEPT ![u] = FALSE]
    /\ UNCHANGED <<now, crashes, grant, dbVars, login, sweepVars, deletion, sync, history>>

\* me/accounts, asked with a row's token.
Accounts(row) == SUBSET Manageable[row.token.user]

-----------------------------------------------------------------------------
(* What is in flight.                                                      *)

\* A request or a sweep that will write back a row of u it already holds.
LoginHolds(l, u) == login[l].step \in {"lookup", "upsert"} /\ login[l].row.user = u
SweepHolds(u)    == \E id \in TenantIDs : due[id].user = u

\* The sweep exchanged u's token and is about to write the row back.
SweepWrites(u)   == \E id \in TenantIDs : renewing = id /\ due[id].user = u

\* uuids are never drawn twice: a fresh one is referenced nowhere.
Fresh(id) ==
    /\ tenants[id] = NoRow
    /\ due[id] = NoRow /\ outcome[id] = "none"
    /\ \A l \in Logins : login[l].id # id
    /\ \A d \in Deletions : deletion[d].id # id
    /\ \A s \in Syncs : sync[s].id # id

-----------------------------------------------------------------------------
(* LoginService.Complete.                                                  *)

\* The row a login of u stores.
LoginRow(u, lifetime) ==
    [user |-> u, token |-> [user |-> u, grant |-> grant[u]],
     expires |-> ExpiryFrom(lifetime), updated |-> now]

\* ExchangeCode, ExchangeLongLivedToken and Me succeed, the account is allowed,
\* and the tenant row to store is filled in.
LoginExchange(l, u) ==
    /\ login[l].step = "idle"
    /\ granted[u]
    /\ u \in Allowed
    /\ \E lifetime \in Lifetimes :
        login' = [login EXCEPT ![l] = Working("lookup", None, LoginRow(u, lifetime), {})]
    /\ erased' = [erased EXCEPT ![u] = "no"]
    /\ UNCHANGED <<now, crashes, metaVars, dbVars, sweepVars, deletion, sync, settled>>

\* A returning user keeps the id already stored, a new one gets a fresh uuid.
LoginLookup(l) ==
    /\ login[l].step = "lookup"
    /\ \E id \in TenantIDs :
        /\ IF ByMetaUser(login[l].row.user) = {}
           THEN Fresh(id)
           ELSE id \in ByMetaUser(login[l].row.user)
        /\ login' = [login EXCEPT ![l] = Working("upsert", id, @.row, {})]
    /\ UNCHANGED <<now, crashes, metaVars, dbVars, sweepVars, deletion, sync, history>>

LoginUpsert(l) ==
    LET u == login[l].row.user
        undisturbed == ~SweepWrites(u) /\ \A k \in Logins \ {l} : ~LoginHolds(k, u)
    IN  /\ login[l].step = "upsert"
        /\ UpsertTenant(login[l].id, login[l].row)
        /\ login' = [login EXCEPT ![l] = Working("accounts", @.id, @.row, {})]
        /\ settled' = [settled EXCEPT ![u] = IF undisturbed THEN login[l].row.token.grant ELSE @]
        /\ UNCHANGED <<now, crashes, metaVars, sweepVars, deletion, sync, erased>>

\* syncPages, as Complete calls it: the id is the one looked up, whatever row
\* the upsert landed on.
LoginAccounts(l) ==
    /\ login[l].step = "accounts"
    /\ Works(login[l].row)
    /\ \E S \in Accounts(login[l].row) :
        login' = [login EXCEPT ![l] = Working("replace", @.id, @.row, S)]
    /\ UNCHANGED <<now, crashes, metaVars, dbVars, sweepVars, deletion, sync, history>>

LoginReplacePages(l) ==
    /\ login[l].step = "replace"
    /\ ReplacePages(login[l].id, login[l].fetched)
    /\ login' = [login EXCEPT ![l] = Working("done", @.id, @.row, {})]
    /\ UNCHANGED <<now, crashes, metaVars, sweepVars, deletion, sync, history>>

\* The LoginResult goes back to the callback handler.
LoginReturn(l) ==
    /\ login[l].step = "done"
    /\ login' = [login EXCEPT ![l] = Idle]
    /\ UNCHANGED <<now, crashes, metaVars, dbVars, sweepVars, deletion, sync, history>>

\* Meta, the store or the caller's context gives up: what was written stays.
LoginFails(l) ==
    /\ login[l].step \in {"lookup", "upsert", "accounts", "replace"}
    /\ login' = [login EXCEPT ![l] = Idle]
    /\ UNCHANGED <<now, crashes, metaVars, dbVars, sweepVars, deletion, sync, history>>

-----------------------------------------------------------------------------
(* RefreshExpiringTokens, called by refreshLoop: one sweep at a time.      *)

\* A sweep lists the due tenants once and works from that copy.
SweepList ==
    /\ \A id \in TenantIDs : due[id] = NoRow /\ outcome[id] = "none"
    /\ \E id \in TenantIDs : DueForRefresh(tenants[id])
    /\ due' = [id \in TenantIDs |-> IF DueForRefresh(tenants[id]) THEN tenants[id] ELSE NoRow]
    /\ UNCHANGED <<now, crashes, metaVars, dbVars, login, renewing, outcome, deletion, sync, history>>

\* ORDER BY user_token_expires_at
NextDue(id) ==
    /\ renewing = None
    /\ due[id] # NoRow
    /\ \A i \in TenantIDs : due[i] # NoRow => due[id].expires <= due[i].expires

\* Mutant: the loop mixes up two tenants' tokens.
RenewedMixedUp(row, lifetime) ==
    LET others == {r \in {due[i] : i \in TenantIDs} : r # NoRow /\ r # row}
    IN  [user |-> row.user, token |-> IF others = {} THEN row.token ELSE (CHOOSE r \in others : TRUE).token,
         expires |-> ExpiryFrom(lifetime), updated |-> now]

\* refreshOne: what Meta answered is merged into the sweep's own copy.
Renewed(row, lifetime) ==
    [user |-> row.user, token |-> row.token, expires |-> ExpiryFrom(lifetime), updated |-> now]

\* Mutant: an exchange that is refused goes unnoticed.
SweepExchangeUnchecked(id) ==
    /\ NextDue(id)
    /\ \E lifetime \in Lifetimes : due' = [due EXCEPT ![id] = Renewed(@, lifetime)]
    /\ renewing' = id
    /\ UNCHANGED <<now, crashes, metaVars, dbVars, login, outcome, deletion, sync, history>>

SweepExchange(id) ==
    /\ NextDue(id)
    /\ Works(due[id])
    /\ \E lifetime \in Lifetimes : due' = [due EXCEPT ![id] = Renewed(@, lifetime)]
    /\ renewing' = id
    /\ UNCHANGED <<now, crashes, metaVars, dbVars, login, outcome, deletion, sync, history>>

SweepUpsert(id) ==
    /\ renewing = id
    /\ UpsertTenant(id, due[id])
    /\ renewing' = None
    /\ due' = [due EXCEPT ![id] = NoRow]
    /\ outcome' = [outcome EXCEPT ![id] = "renewed"]
    /\ UNCHANGED <<now, crashes, metaVars, login, deletion, sync, history>>

\* Mutant: a refused tenant ends the whole sweep.
SweepRefusedAborts(id) ==
    /\ NextDue(id)
    /\ ~Works(due[id])
    /\ due' = [i \in TenantIDs |-> NoRow]
    /\ outcome' = [outcome EXCEPT ![id] = "refused"]
    /\ UNCHANGED <<now, crashes, metaVars, dbVars, login, renewing, deletion, sync, history>>

\* Meta answers that the token is dead.
SweepRefused(id) ==
    /\ NextDue(id)
    /\ ~Works(due[id])
    /\ due' = [due EXCEPT ![id] = NoRow]
    /\ outcome' = [outcome EXCEPT ![id] = "refused"]
    /\ UNCHANGED <<now, crashes, metaVars, dbVars, login, renewing, deletion, sync, history>>

\* A transport error, a quota or a failed write: the sweep goes on.
SweepFails(id) ==
    /\ NextDue(id) \/ renewing = id
    /\ due' = [due EXCEPT ![id] = NoRow]
    /\ renewing' = None
    /\ outcome' = [outcome EXCEPT ![id] = "failed"]
    /\ UNCHANGED <<now, crashes, metaVars, dbVars, login, deletion, sync, history>>

\* Every tenant of the list was handled: the report is returned and logged.
SweepReport ==
    /\ \E id \in TenantIDs : outcome[id] # "none"
    /\ \A id \in TenantIDs : due[id] = NoRow
    /\ outcome' = [id \in TenantIDs |-> "none"]
    /\ UNCHANGED <<now, crashes, metaVars, dbVars, login, due, renewing, deletion, sync, history>>

-----------------------------------------------------------------------------
(* DeleteByMetaUserID.  Meta sends the request once the user removed the   *)
(* app, at some later time, and may send it again.                         *)

\* History: what else was at work on u's data when its deletion is acknowledged.
Verdict(u, id) ==
    IF (\E l \in Logins : LoginHolds(l, u)) \/ ~(ByMetaUser(u) \subseteq {id}) THEN "login"
    ELSE IF SweepHolds(u) THEN "sweep"
    ELSE "clean"

\* u removed the app at least once.
RemovedOnce(u) == grant[u] > (IF granted[u] THEN 1 ELSE 0)

\* TenantByMetaUserID finds no tenant: success, nothing to do.
DeletionUnknown(d, u) ==
    /\ deletion[d].user = None
    /\ RemovedOnce(u)
    /\ ByMetaUser(u) = {}
    /\ erased' = [erased EXCEPT ![u] = Verdict(u, None)]
    /\ UNCHANGED <<now, crashes, metaVars, dbVars, login, sweepVars, deletion, sync, settled>>

DeletionLookup(d, u) ==
    /\ deletion[d].user = None
    /\ RemovedOnce(u)
    /\ \E id \in ByMetaUser(u) : deletion' = [deletion EXCEPT ![d] = [id |-> id, user |-> u]]
    /\ UNCHANGED <<now, crashes, metaVars, dbVars, login, sweepVars, sync, history>>

DeletionCommit(d) ==
    LET u == deletion[d].user
        id == deletion[d].id
    IN  /\ u # None
        /\ DeleteTenant(id)
        /\ erased' = [erased EXCEPT ![u] = Verdict(u, id)]
        /\ deletion' = [deletion EXCEPT ![d] = [id |-> None, user |-> None]]
        /\ UNCHANGED <<now, crashes, metaVars, login, sweepVars, sync, settled>>

\* The store refuses: Meta gets an error and nothing is deleted.
DeletionFails(d) ==
    /\ deletion[d].user # None
    /\ deletion' = [deletion EXCEPT ![d] = [id |-> None, user |-> None]]
    /\ UNCHANGED <<now, crashes, metaVars, dbVars, login, sweepVars, sync, history>>

-----------------------------------------------------------------------------
(* Service.SyncPages, the sync_pages tool.                                 *)

SyncLoad(s, id) ==
    /\ sync[s].step = "idle"
    /\ tenants[id] # NoRow
    /\ sync' = [sync EXCEPT ![s] = Working("accounts", id, tenants[id], {})]
    /\ UNCHANGED <<now, crashes, metaVars, dbVars, login, sweepVars, deletion, history>>

SyncAccounts(s) ==
    /\ sync[s].step = "accounts"
    /\ Works(sync[s].row)
    /\ \E S \in Accounts(sync[s].row) :
        sync' = [sync EXCEPT ![s] = Working("replace", @.id, @.row, S)]
    /\ UNCHANGED <<now, crashes, metaVars, dbVars, login, sweepVars, deletion, history>>

SyncReplacePages(s) ==
    /\ sync[s].step = "replace"
    /\ ReplacePages(sync[s].id, sync[s].fetched)
    /\ sync' = [sync EXCEPT ![s] = Idle]
    /\ UNCHANGED <<now, crashes, metaVars, login, sweepVars, deletion, history>>

SyncFails(s) ==
    /\ sync[s].step # "idle"
    /\ sync' = [sync EXCEPT ![s] = Idle]
    /\ UNCHANGED <<now, crashes, metaVars, dbVars, login, sweepVars, deletion, history>>

-----------------------------------------------------------------------------

Tick ==
    /\ now < MaxTime
    /\ now' = now + 1
    /\ UNCHANGED <<crashes, metaVars, dbVars, login, sweepVars, deletion, sync, history>>

\* The process stops at any point and starts again: the tables survive, every
\* request and the running sweep are lost.  The next sweep starts at startup.
Crash ==
    /\ crashes < MaxCrashes
    /\ crashes' = crashes + 1
    /\ login' = [l \in Logins |-> Idle]
    /\ due' = [id \in TenantIDs |-> NoRow]
    /\ renewing' = None
    /\ outcome' = [id \in TenantIDs |-> "none"]
    /\ deletion' = [d \in Deletions |-> [id |-> None, user |-> None]]
    /\ sync' = [s \in Syncs |-> Idle]
    /\ UNCHANGED <<now, metaVars, dbVars, history>>

Meta(u) == Consent(u) \/ RemoveApp(u)

Login(l) ==
    \/ \E u \in MetaUsers : LoginExchange(l, u)
    \/ LoginLookup(l)
    \/ LoginUpsert(l)
    \/ LoginAccounts(l)
    \/ LoginReplacePages(l)
    \/ LoginReturn(l)
    \/ LoginFails(l)

Sweep ==
    \/ SweepList
    \/ \E id \in TenantIDs :
        SweepExchange(id) \/ SweepUpsert(id) \/ SweepRefused(id) \/ SweepFails(id)
    \/ SweepReport

Deletion(d) ==
    \/ \E u \in MetaUsers : DeletionUnknown(d, u) \/ DeletionLookup(d, u)
    \/ DeletionCommit(d)
    \/ DeletionFails(d)

Sync(s) ==
    \/ \E id \in TenantIDs : SyncLoad(s, id)
    \/ SyncAccounts(s)
    \/ SyncReplacePages(s)
    \/ SyncFails(s)

Next ==
    \/ \E u \in MetaUsers : Meta(u)
    \/ \E l \in Logins : Login(l)
    \/ Sweep
    \/ \E d \in Deletions : Deletion(d)
    \/ \E s \in Syncs : Sync(s)
    \/ Tick
    \/ Crash

Spec == Init /\ [][Next]_vars

\* refreshLoop keeps sweeping while the process runs, works through its list,
\* and Meta does not fail for ever on the same tenant.  Users, requests, the
\* clock and restarts owe nothing.
FairSpec ==
    /\ Spec
    /\ WF_vars(SweepList)
    /\ WF_vars(SweepReport)
    /\ \A id \in TenantIDs :
        /\ WF_vars(SweepExchange(id) \/ SweepUpsert(id) \/ SweepRefused(id) \/ SweepFails(id))
        /\ SF_vars(SweepExchange(id))
        /\ SF_vars(SweepUpsert(id))

-----------------------------------------------------------------------------
(* Properties.                                                             *)

\* Every tenant belongs to an allowed account, carries that account's own Meta
\* token, and is filed with pages that account may administer: whatever the
\* interleaving of logins, sweeps and syncs, nothing of one account ends up
\* under another (README, Isolation).
TenantIsolation ==
    \A id \in TenantIDs : tenants[id] # NoRow =>
        /\ tenants[id].user \in Allowed
        /\ tenants[id].token.user = tenants[id].user
        /\ pages[id] \subseteq Manageable[tenants[id].user]

\* A page is only ever stored under a tenant that exists, although pages are
\* fetched from Meta long after the tenant was read (DeleteTenant, ReplacePages).
NoOrphanPages ==
    \A id \in TenantIDs : pages[id] # {} => tenants[id] # NoRow

\* A data deletion that overlapped with no login and no sweep of the same
\* account is final: the account has no tenant until it logs in again
\* (DeleteByMetaUserID against Complete and refreshOne).
CleanErasureIsFinal ==
    \A u \in MetaUsers : erased[u] = "clean" => ByMetaUser(u) = {}

\* A login is not undone by an older token: the stored one comes from its
\* authorization or a later one, even if a sweep listed the account before and
\* still holds the old token, for Meta refuses to exchange that one.  Left out
\* are the two writers that are past asking Meta: another login of the account,
\* and a sweep between its exchange and its upsert, which does overwrite the
\* newer token (Complete against refreshOne).
SettledLoginHolds ==
    \A id \in TenantIDs : tenants[id] # NoRow =>
        tenants[id].token.grant >= settled[tenants[id].user]

\* The tables implement the registry: one id per account, kept until erased,
\* pages replaced as a whole and erased with the tenant.
TenantOf == [u \in MetaUsers |->
    IF ByMetaUser(u) = {} THEN None ELSE CHOOSE id \in ByMetaUser(u) : TRUE]
PagesOf == [u \in MetaUsers |-> UNION {pages[id] : id \in ByMetaUser(u)}]
Registry == INSTANCE TenantRegistry WITH tenantOf <- TenantOf, pagesOf <- PagesOf
ImplementsRegistry == Registry!RegistrySpec

\* A tenant whose renewal is due is renewed, erased, or its token stops working
\* first (refreshLoop, "a tenant who keeps using the server never has to log in
\* again").
NeedsRenewal(id) == DueForRefresh(tenants[id]) /\ Works(tenants[id])
DueTenantIsRenewed ==
    \A id \in TenantIDs : NeedsRenewal(id) ~> ~NeedsRenewal(id)

(* What the documentation says and the code does not.                      *)

\* README: "tenant, Pages and sessions are gone immediately".  Once Meta was
\* told the data is deleted, a sweep running meanwhile does not bring it back.
SweepNeverRevives ==
    \A u \in MetaUsers : erased[u] = "sweep" => ByMetaUser(u) = {}

\* login.go: "A returning user keeps the tenant id they already had".  The id a
\* login answers with is the id of the account's tenant.
LoginAnswersStoredID ==
    \A l \in Logins : login[l].step = "done" =>
        ByMetaUser(login[l].row.user) \subseteq {login[l].id}
=============================================================================
