# A TLA+ development of meta-mcp

meta-mcp is an MCP server in Go that gives AI clients access to the Facebook
Pages and Instagram accounts of its users.  It is an OAuth authorization server
towards the MCP clients and an OAuth client towards Facebook; it keeps one
SQLite file and talks to Meta's Graph API.  These modules model the parts of it
that are hard to get right and hard to test, model-check them on small
instances and prove their safety properties and refinements for every instance.

## 1. Inventory

| Component | Code | State it keeps | Operations |
|---|---|---|---|
| Tenant lifecycle | `app/login.go`, `app/refresh_tokens.go`, `app/sync_pages.go`, `sqlite/store.go` | tables `tenants`, `pages`; the sweep's list in memory | `Complete`, `SyncPages`, `DeleteByMetaUserID`, `RefreshExpiringTokens`/`refreshOne` |
| Authorization server | `authserver/*.go`, `meta/handlers.go`, `app/reconnect_url.go`, `sqlite/store.go` | tables `oauth_clients`, `login_states`, `oauth_codes`, `oauth_refresh_tokens` | register, authorize, callback, token (two grants), reconnection link, `PurgeExpired` |
| Access tokens | `authserver/jwt.go` | none: HS256, signed | `MintAccessToken`, `VerifyAccessToken` |
| Graph client | `meta/client.go`, `graph.go`, `publish.go`, `moderate.go`, `oauth.go` | none; Meta keeps the posts, comments and media | `call` with one retry, `collect`, `insightsWithFallback`, `PublishPost`, `IGPublish`, `DeleteObject` |
| Write tools | `app/page_publish_post.go`, `ig_publish.go`, `page_cancel_scheduled_post.go`, `page_delete_post.go`, `moderate_comment.go`, `*_reply_comment.go` | none | preview, or confirmed write |
| Read tools | `app/page_insights*.go`, `post_insights.go`, `page_posts.go`, `ig_*.go`, `connection_status.go` | none | bounded reads |
| Storage | `sqlite/db.go`, `migrations/` | `schema_migrations` | `New`, `migrate`, `applyMigration` |
| Front ends | `mcpserver/`, `httpserver/`, `web/` | none | routing, rendering |
| Process | `cmd/metasocial-mcp/main.go` | the context of `run`; two goroutines: `purgeLoop`, `refreshLoop` | start, loops, shutdown |
| Configuration | `config/config.go` | none | `Load`, or a refusal to start |
| Crypto, clock | `crypto/`, `clock/` | none | AES-GCM, the time |

**How they interact.**  The callback handler consumes a login state, calls
`LoginService.Complete` (Meta calls, then tenant and page writes), then asks the
authorization server for a code.  Tool calls carry a tenant id out of the access
token and read pages under that id.  `refreshLoop` and `purgeLoop` write the same
tables in the background, and Meta calls the data deletion endpoint when it
pleases.  Everything shares one SQLite connection: a statement or a transaction
is atomic, a handler is not.  The process itself is started, signalled, killed
and replaced by its supervisor; the database, the environment and the clients'
access tokens are what passes from one process to the next.

**What is hard.**  Handlers read a row, go out to Meta for seconds, and write it
back: another request, the sweep, a deletion or a restart may come in between.
Secrets are consumed in one statement and succeeded in another.  Deadlines mix
"unknown" (0) with real times.  Writes at Meta are neither idempotent nor
transactional.  A migration is looked up outside the transaction that applies
it.  An access token has a deadline that is rounded twice, from two readings of
the clock.  `PROJECT.json` lists each such hazard at its line, with the
properties that cover it.

**What makes each part correct.**
- Tenant lifecycle: an account has one tenant id and keeps it; nothing of one
  account is stored under another; pages never outlive their tenant; erased data
  does not come back unless a login or a sweep was at work on it; a login's token
  is not lost to an older one that the sweep had only listed; a token that is due
  is renewed unless it stops working, or its tenant is erased, first.
- Authorization server: each authorization request is carried by one usable
  credential at a time and moves forward only; sessions of erased tenants are
  over; the purge takes dead rows, all of them, and no other.
- Graph client and write tools: nothing is written without `confirm=true`; one
  confirmed call writes at most once unless Meta itself acts on a call it
  refuses; Instagram publishes a container only when it is finished.
- Read tools: a result is what a page-by-page or metric-by-metric reading would
  give, up to the documented cap, over whole days; the connection is reported
  healthy exactly on Meta's word, and a way to reconnect is sought whenever it is
  not.
- Process and storage: the record of the migrations is the schema; nothing is
  served before the database is migrated; a server that is down can always come
  up again, and one that is told to stop does.
- Access tokens: honoured by every process of the same key until the deadline
  announced, and by none after the lifetime.

## 2. Modules

| Module | Models |
|---|---|
| `TenantRegistry` | what the tenant tables promise: one id per account until erased, pages replaced as a whole |
| `TenantLifecycle` | login, renewal sweep, deletion and page sync over the two tables, Meta's grants, the clock, restarts |
| `MCTenantLifecycle` | its instances and symmetry sets |
| `TenantLifecycle_proofs` | its theorems |
| `GrantFlow` | what an authorization request goes through: login, code, session, over |
| `OAuthServer` | the authorization server over its four tables, with the purge and the session part of a deletion |
| `MCOAuthServer` | its instances |
| `OAuthServer_proofs` | its theorems |
| `ConfirmedWrite` | what a write tool promises about one call: nothing unconfirmed, one change at most, an answer that can be relied upon |
| `Publishing` | the write tools over the Graph client, against Meta, its scheduler and visitors |
| `MCPublishing` | its instances: the arguments calls are made with |
| `Publishing_proofs` | its theorems |
| `GraphReads` | the reading tools over the Graph client: insights, listings, ratings, dates, the connection status |
| `MCGraphReads` | its instance |
| `GraphReads_proofs` | its theorems |
| `Configuration` | what `config.Load` accepts and what it makes of it |
| `AccessTokens` | minting, announcing and verifying an access token |
| `ServerProcess` | the life of the process over one database: start-up, migrations, token requests, shutdown; extends the two modules above |
| `MCServerProcess` | its instance: what an operator may deploy |
| `ServerProcess_proofs` | its theorems |

The components share the tenant rows.  They are not composed into one state
machine: what one of them sees of another is an external choice (a tool call
finds any set of pages stored, a deletion cuts a tenant's sessions at any
moment), which covers every behaviour of the other and keeps each module small
enough to be checked and proved.

### TenantLifecycle

One action is one statement or transaction of the store, or one call to Meta,
with the guards around it:

| Code | Actions |
|---|---|
| `Complete` | `LoginExchange` (code exchange, long-lived token, `Me`, allow list, the row), `LoginLookup`, `LoginUpsert`, `LoginAccounts`, `LoginReplacePages`, `LoginReturn`, `LoginFails` anywhere |
| `RefreshExpiringTokens`, `refreshOne` | `SweepList`, `SweepExchange`, `SweepUpsert`, `SweepRefused` (ErrReauthorize), `SweepFails`, `SweepReport` |
| `DeleteByMetaUserID` | `DeletionUnknown`, `DeletionLookup`, `DeletionCommit`, `DeletionFails` |
| `SyncPages` | `SyncLoad`, `SyncAccounts`, `SyncReplacePages`, `SyncFails` |
| Meta (external) | `Consent`, `RemoveApp`, what `Accounts` may answer, whether a token `Works` |
| `main.run` | `Crash`: tables survive, everything in flight is lost |

`tenants[id]` and `pages[id]` are the tables; `login`, `due`, `renewing`,
`deletion`, `sync` are the local variables of what is in flight.  A token is the
account and the authorization (`grant`) it came from; a deadline of 0 is
unknown.  Time is in abstract units; whether stored seconds are truncated is
not visible.  `erased` and `settled` are history variables: they record, when a
deletion or an upsert commits, whether another writer of the same account was
at work, so that properties can say which races are harmless.  A sweep that has
only listed a tenant is one of them for a login, since Meta refuses to exchange a
token that is not the latest; for a deletion it is not, and neither is harmless
once the exchange is done (section 5).

### OAuthServer

States, codes and refresh tokens are 32 random bytes, so one function `rows`
over secrets stands for three tables.  A flow is named by its login state;
"same redirect URI and verifier" is "same flow".  `CallbackConsume`,
`CallbackComplete` and `IssueAuthCode` are the callback, `RedeemCode` /
`RotateToken` and `IssueTokens` the token endpoint: between the two halves the
request holds the only copy, and `RequestFails` and `Crash` lose it.  A login
that stored its tenant and then failed to fetch its pages is `CallbackComplete`
followed by `RequestFails`.
`DeleteTenant` is the transaction of the data deletion, restricted to codes and
refresh tokens; two deletion requests that found the same tenant both run it, and
the model lets the second come at any time.  `PurgeStart` reads the clock, three statements follow, and
`PurgeFails` ends it at any of them.  `Store.RevokeTenantRefreshTokens` has no
caller and is left out.

### Publishing

A call starts with `Reject`, `Preview` or `Start`: the page it acts for is
resolved among the tenant's (`page`, `igPage`, `ownerPage`, `ownerIGPage`), the
arguments are checked, and without `confirm` it ends there.  Then one action is
one request to Meta with its answer:

| Code | Actions |
|---|---|
| `Client.call`, `callOnce` | `Refused`, `Throttled` (one retry), `Breaks`; a lost answer is the `"failed"` branch of `Wrote` and of `CreateContainer` |
| `PublishPost`, `ReplyToComment`, `IGReplyToComment`, `SetCommentHidden`, `DeleteObject` | the action of that name |
| `IGPublish` | `CreateCarouselItem`, `CreateIGContainer`, `PollFinished` / `PollRejected` / `PollPending`, `PublishContainer` |
| Meta (external) | `VisitorComments`, `ScheduledPostGoesOut`, `ContainerProceeds` |

`objects` is what Meta keeps, `call[c]` the local variables of a call, `wrote`
a history variable that counts the visible changes made for a call.  Containers
are invisible and do not count.  `DeleteObject` is one request whichever tool sends
it: a moderation reaches a post, and a removal a comment, if that is what the id
names.  Meta refuses an object to the token of another
page; that a refusal changes nothing is an assumption about Meta.

### GraphReads

One read at a time over a state of Meta that is chosen when the read begins: the
metrics it serves, the length of a list, whether inlined numbers or the reviews
edge are retired.  `BatchServed`,
`BatchRefused` and `Single` are `insightsWithFallback`, `AfterGroup` the second
request of `IGAccountInsights`; `ListPage` is one turn of `collect`, in which Meta
may promise a next page that turns out empty; `ReadPlainly` is the second reading
of `PagePosts` and `IGMedia`, `SummaryOnly` the tolerated refusal of `PageRatings`;
`Fails` is any other failing request.  Items are counted, not named: Meta cuts a
list into pages without loss.  `DateWindow` and `WindowRefused` are `dateWindow`
in seconds, with days of a few seconds; `AskListSince` is `optionalDay`.
`ConnectionStatus` reads the store (`TenantLoaded`), asks for the state of the
token (`DebugToken`, or `DebugTokenFails`, which is not an error of the read),
derives the rest (`Fill`) and, unless all is well, tries for a link
(`AttachReconnectLink`): it is `"drawn"`, or `"lost"` because the store could not
keep its state, in which case the answer has none and does not say so.  That the link is a login state like another is in
`OAuthServer`'s `Reconnect`.

### ServerProcess

| Code | Actions |
|---|---|
| `config.Load` | `Start`, `StartRefused` (from `Configuration`: `Loads`, `ConfigOf`) |
| `migrate` | `LookUp` (`migrationApplied`), `BeginMigration`, `ApplyBody`, `CommitMigration` (`applyMigration`), `Migrated` |
| `run`, start-up | `PurgeAtStart`, `Listen`; `Aborts` where a start-up fails for certain, `Fails` where anything may |
| `run`, the end | `Sigterm`, `BeginShutdown`, `Drained`, `GraceOver`; `Kill` |
| `issueTokens` | `Accept`, `Mint`, `Respond`, `RespondOtherwise` |
| the operator (external) | `Deploy`: another release, another environment, for the next start |

`schema` holds the migrations whose body took effect, `recorded` the table
`schema_migrations`: two variables, so that the two can differ.  A body that ran
before fails, as the `CREATE TABLE` and `ADD COLUMN` of the two files do.  A
transaction is the steps `begun` and `applied` of a process: what it did takes
effect when it commits, and a process that ends in them rolls it back.
`_txlock=immediate` makes `BEGIN` wait for the other writer.  Every statement of
the start-up runs under the context that a signal ends; between the purge and the
`select` nothing looks at it.  A delivered token keeps what it was minted under
and the deadline its client was told, to compare with what other processes,
started before or after, make of it.

## 3. Runs

| Run | Instance | Shows |
|---|---|---|
| `tenant_safety` | 2 accounts with a Page each, a third that is not allowed, 2 ids, one request of each kind, the sweep | `TypeOK`, `TenantIsolation`, `NoOrphanPages` |
| `tenant_races` | 1 account, 2 logins, a deletion, the sweep, 3 ids, a restart | `CleanErasureIsFinal`, `SettledLoginHolds`, `ImplementsRegistry` |
| `tenant_renewal` | 2 accounts, known and unknown deadlines, a restart, fairness | `DueTenantIsRenewed` |
| `oauth_safety` | 2 clients, 2 requests, 4 secrets | `TypeOK`, `ImplementsGrant`, `CleanErasureEndsSessions`, `PurgeTakesOnlyDead` |
| `oauth_purge` | 1 client, 3 secrets, a restart, fairness | `ExpiredRowsAreDropped` |
| `tenant_erasure_race` | as `tenant_races` | violates `SweepNeverRevives` |
| `tenant_first_login_race` | two first logins | violates `LoginAnswersStoredID` |
| `oauth_erasure_race` | one client | violates `ErasureEndsSessions` |
| `publishing` | 2 calls, 11 kinds of arguments, every tool among them, 1 visitor's comment, 2 Pages (one with Instagram), 3 object ids, fairness | `TypeOK`, `PublishesFinishedOnly`, `CarouselIsComplete`, `ImplementsConfirmedWrite`, `EveryCallIsAnswered` |
| `publishing_cancel` | 2 calls that schedule and cancel | violates `CancelTakesOnlyScheduled` |
| `graph_reads` | 16 reads, 3 metrics, lists of up to 7 items in pages of 2, a cap of 3 pages, 3 days, 3 permissions, fairness | `TypeOK`, `InsightsAreComplete`, `ListIsWhole`, `OnlyRealFailuresFail`, `WindowIsWholeDays`, `StatusIsMetasWord`, `EveryReadIsAnswered` |
| `server_process` | 2 processes, 2 releases, 5 deployments, one change of deployment, one incident, a token, fairness | `TypeOK`, `SchemaIsRecorded`, `ServesMigratedSchema`, `TokensLiveAsAnnounced`, `ComesUp`, `StopsWhenTold` |

**Why the bounds are enough.**  The races are between two writers of one row:
two logins, or one login and the sweep, or the sweep and a deletion, with a
second authorization (`MaxGrant = 2`) to tell an old token from a new one, and a
third id so that two first logins can draw different ones after a lookup.
`tenant_races` and `tenant_renewal` have a restart: it loses what is in flight
wherever it strikes, the list of a running sweep included.
Isolation needs two accounts and one request of each kind, and one account more
that logs in without being allowed to.  For the authorization
server, four secrets are a state, a code, a refresh token and its successor, or
two flows; two requests are enough to race for one secret.  The clock runs over
two deadlines.  The theorems of section 4 hold
without any of these bounds; what they leave to the runs is liveness.  A write
races with one other write, with the scheduler or with a visitor: two calls are
enough, with three ids for the containers of a carousel of two.  Two polls are a
first and a last one, two time units are before and after a scheduled post goes
out.  For the reads, seven items are more than the cap lets through
(three pages of two), and the limits asked for lie below, between and above every
bound; one metric is a time series, two are not.  A day has three seconds: its
first, its last and one between; reads are asked for at the last second of a day
and at the first of the next.

In `server_process` a race for a migration takes two processes, a migration that
was already applied by one of them and another that was not takes two releases.
One incident (a failure, a signal or a kill, at any step) on top of two processes
that may each be restarted is what the properties are about; a second one finds a
state that a start over the same database also reaches, and the theorems hold for
any number.  A second is two ticks, so that tokens are minted, announced and
checked on either side of a rounding; the lifetimes are one tick and three, less
than a second and more.  The five deployments are two releases, one of them also
with a new key and a shorter lifetime, with another public URL, or with a key that
is refused.  The deployment changes once; releases and environments that go back
and forth are left to the theorems.

**Fairness.**  `refreshLoop` and `purgeLoop` run as long as the process does:
listing and reporting are weakly fair.  An exchange, an upsert and a purge
statement may fail any number of times but not for ever, hence strong fairness.
In `publishing` and
`graph_reads` a call that has begun goes on: every request is bounded by the HTTP
client's timeout, every delay by a timer or by the caller's patience, so `Request`
is weakly fair, and a failing request is a step of it.
In `server_process` the supervisor starts what is down and a process goes on with
its start-up or its shutdown, whose grace is a timer: `StartUp` and `Stop` are
weakly fair for each process.  Failures, signals, kills and deployments owe
nothing and are bounded (`MaxIncidents`, `MaxDeploys`): a process killed at every
start never serves.  Requests owe nothing either, they may never end.
Users, Meta, the clock and restarts owe nothing.  Restarts are bounded
(`MaxCrashes`): a process that restarts for ever before it gets to a tenant
renews nothing.

**Deadlock.**  Checked except in `tenant_renewal`,
`tenant_first_login_race`, `publishing` and `publishing_cancel`, where the bounded
calls and ids may be used up and nothing is left to do, and in `server_process`,
where two processes may serve for ever once incidents, deployments and tokens are
used up.

## 4. Proofs

`TenantLifecycle_proofs` proves, from `LifecycleAssumption` alone and for any
number of accounts, ids, requests, times and restarts:

- `TypeCorrect`: `Spec => []TypeOK`.
- `Isolation`: `Spec => []TenantIsolation`.  The property is not inductive: what
  is stored comes from rows in flight.  `IsolationInv` adds that the rows held by
  logins, syncs and the sweep carry their own account's token (`SoundLogins`,
  `SoundSyncs`, `SoundSweep`), that a request's id, as long as it is stored at all,
  is stored for the account the request works for (`OneOwner`), that an account
  has one row (`OneRow`), and that pages have a tenant (`NoOrphanPages`).
- `NoOrphans`: `Spec => []NoOrphanPages`, a conjunct of the same invariant.
- `CleanErasure`: `Spec => []CleanErasureIsFinal`.  The strengthening says that
  after a clean erasure nothing in flight holds a row of the account.
- `SettledLogin`: `Spec => []SettledLoginHolds`.  The strengthening says that
  the row a login holds, and the one a sweep has exchanged (`SweepWrites`), is at
  least as new as the settled login.  A row that a sweep only listed may be older:
  it has to be exchanged to be written, and Meta exchanges the latest only.
- `Refinement`: `Spec => ImplementsRegistry`, under the refinement mapping of
  `TenantLifecycle`: each action maps to `Enrol`, `FilePages`, `Erase` or a stutter.
- `IdsAreKept`: an account has one row, and a row stays its account's under the same
  id, whatever is written into it, until a deletion of that very id takes it with its
  pages and leaves no other row of the account (`KeepsId`).  Of all handlers only five
  write the tables at all (`StepWrites`); the refinement and this theorem both rest on
  that.
- `SweepsRunOut`: once a sweep has listed its tenants, each of its steps is Meta's
  answer for one of them (`Exchanged`) or the verdict that takes it off the list
  (`Handled`); a failure or a refusal does not end the sweep, no login or deletion
  touches its list, and only a restart drops it.

`ServerProcess_proofs` proves, from the assumptions of `ServerProcess`,
`Configuration` and `AccessTokens`, for any number of processes, releases,
deployments, incidents and tokens:

- `TypeCorrect`: `Spec => []TypeOK`.  Its substance is that whatever a process
  runs with passed every check of `Load`, and that a process that ends takes its
  requests with it.
- `SchemaConsistent`: `Spec => []SchemaIsRecorded`, and `MigratedBeforeServing`:
  `Spec => []ServesMigratedSchema`.  Neither is inductive.  `SchemaInv` adds that
  one transaction at most is open (`OneWriter`), and what each process knows of the
  database while it migrates (`Informed`): everything below the migration it has
  come to is recorded, the body it has run inside its transaction had not been run
  before, and once past the migrations it has all of its release.  What a process
  knows stays true because migrations are never undone, whichever process, release
  or environment comes next.

- `TokensLive`: `Spec => []TokensLiveAsAnnounced`.  `TokensInv` says what a token
  is between `Mint` and any later check: it carries the key, issuer and audience of
  the process that minted it, its `exp` is its deadline in whole seconds, rounded
  down (`TokenOf`), and what its client was told ends by that deadline or had ended
  when it was told (`DeliveredAsMinted`).  The arithmetic of the two roundings is in
  the lemmas `SecondsOf` and `AnnouncedWithin`.
- `LivesRunOut`: `StepsLeft`, four steps for each migration not yet come to and one
  each for the purge, the listener, the service and the drain, is a natural number
  that every step of a start-up or a shutdown makes smaller; nobody else's step
  touches a process, and one that was told to stop stays told until it ends.  It is
  a natural number because a process never looks past the migration after its last
  (`Fits`).

`OAuthServer_proofs` proves, from `OAuthAssumption`, for any clients, secrets,
requests, tenants, lifetimes and restarts:

- `TypeCorrect`: `Spec => []TypeOK`.  `TypeInv` adds that whoever holds a client or
  a tenant holds a registered one (`KnownHolders`), without which what a handler
  writes back would not be a row.
- `PurgeIsSafe`: `Spec => PurgeTakesOnlyDead`, since the time a purge compares with
  never runs ahead of the clock, whichever of the three statements it has come to.
- `PurgeIsComplete`: a purge that comes to its end leaves no row that had expired when
  it read the clock.  Its statements are no transaction, so the invariant (`Cleared`)
  is about the tables it has passed: whoever writes there meanwhile writes a row that
  outlives the cutoff, because the cutoff is past and lifetimes are positive.
- `CleanErasureEnds`: `Spec => []CleanErasureEndsSessions`.  Not inductive: a row
  that is expired or a request in flight says nothing about usable rows, yet a
  request writes one.  `ErasureInv` says that nothing at all of an erased tenant is
  held, by a row or by a request, until it is enrolled again.
- `Refinement`: `Spec => ImplementsGrant`.  What makes the phase of an authorization
  request a function of the state is `OneCarrier`: of the states, codes, refresh
  tokens and requests in flight that stem from it, one is good for anything.
  `GrantInv` adds that a flow that was begun keeps its name (`RowsOfBegunFlows`), so
  that no later authorization is taken for it.  The many actions are of four
  shapes, each of which is shown once to preserve the invariant and to be a step or
  a stutter of `GrantFlow`: carriers only leave, a request takes one over, a request
  issues one for what it held, a state begins a flow.
- `OneCredential`: `Spec => []OneCarrier`, and `NothingComesBack`: no authorization
  request goes back to an earlier phase, and one that is over stays over.  Both are
  read off the refinement; no run needs to repeat them.

`Publishing_proofs` proves, from `PublishingAssumption`, for any calls, arguments,
pages, objects and numbers of polls:

- `ResolvesOwnedPage`: what the hint, the id prefix and the fallback come to is one
  page at most, and one of the tenant's.
- `TypeCorrect`: `Spec => []TypeOK`; `FinishedBeforePublished`:
  `Spec => []PublishesFinishedOnly`; `CarouselWhole`: `Spec => []CarouselIsComplete`.
  They share `PublishingInv`: a call knows of which kind and page its containers
  are, has as many items as its step says, and shares its last container with no
  other call (`ContainersApart`), or publishing one call's container would undo
  what the other has polled.
- `Refinement`: `Spec => ImplementsConfirmedWrite`.  `WriteInv` says that a call with
  a request to send is confirmed and has changed nothing yet: the request that
  changes something ends the call, answered or lost.  Each action is then a
  stutter for all calls but one (`Unnoticed`), and a step of `ConfirmedWrite` for it.
- `AnswersAreReliable`: a success means one change, a preview or a refusal none, a
  failure one at most.
- `CallsRunOut`: `RequestsLeft`, two for the write, each slide, each container, each
  poll and the publication, one of them gone once it was retried, is a natural number
  that every request makes smaller; a call that has a request to send is moved by its
  own request only.

`GraphReads_proofs` proves, from `ReadsAssumption`, for any metrics, limits, lists,
caps, days and permissions:

- `TypeCorrect`: `Spec => []TypeOK`, from `TypeInv`, which says which requests each
  kind of read makes.  The other proofs rest on two lemmas: `CallShapes`, the four
  ways a read begins, and `RequestShapes`, what each kind of read may do next and
  that only the diagnosis changes what a read was about.
- `InsightsComplete`: `Spec => []InsightsAreComplete`.  `InsightsInv` accounts for
  every metric at every step: it is pending, in this request or in a later one
  (`Pending`), or it has its values, or it is reported.
- `ListWhole`: `Spec => []ListIsWhole`.  While a list is walked, fewer items were
  collected than the limit allows and no more than there are (`Walking`).
- `RealFailures`: `Spec => []OnlyRealFailuresFail`, `WholeDays`:
  `Spec => []WindowIsWholeDays` (from lemmas on days as intervals of seconds:
  `DaysAreWhole`, `WindowBounds`), `StatusOnMetasWord`: `Spec => []StatusIsMetasWord`,
  both directions: which status is healthy, and for which a link was tried.
- `ReadsRunOut`: `RequestsLeft` bounds what a read may still send: each metric once in
  a batch and once alone, the pages left under the cap and the second reading of a
  list, the three requests of a diagnosis.  Every request makes it smaller.

Each of these inductive invariants was an invariant of a run before it was proved.
They are in the modules of proofs, so that the configurations check only what the
code promises.

**Model-checked only.**  Every safety property, action property and refinement of a
passing run is a theorem.  The six liveness properties are not: `DueTenantIsRenewed`,
`ExpiredRowsAreDropped`, `EveryCallIsAnswered`, `EveryReadIsAnswered`, `ComesUp` and
`StopsWhenTold` rest on fairness, that is on `ENABLED`, which the prover does not
handle.  What is safety in them is proved: by `CallsRunOut`, `ReadsRunOut`,
`LivesRunOut` and `SweepsRunOut` nothing goes on for ever, and by `PurgeIsComplete`
one purge that succeeds is enough, so that what TLC adds is that a step that fairness
speaks of is always possible.  (A server that is neither told to stop
nor fails is meant to stay at `serving`.)  The four refuted properties of section 5 are counterexamples, and TLC's.
What the proofs take from outside: the named assumptions on the constants, which
TLC evaluates on every instance, and the library's theorems on finite sets.

## 5. Divergences found

Each of the first four has a run in which TLC refutes what is said, and an entry
under `findings`.

1. A sweep that listed a tenant before its deletion recreates it
   (`refresh_tokens.go:84` against README "gone immediately").
2. Of two concurrent first logins, one goes on with an id that was never stored
   (`login.go:79`).
3. A token request that consumed its code before a deletion stores a usable
   refresh token after it (`token.go:163`).
4. `page_cancel_scheduled_post` deletes a post that was published meanwhile
   (`page_cancel_scheduled_post.go:52` against its comment at line 27).

Four more are plain to see and have no run:

- "A tenant who keeps using the server never has to log in again", say the README
  (386-388) and the comment of `RefreshExpiringTokens`.  `refreshOne` writes back
  the row the sweep listed, with the token Meta gave for the old one, and reads
  nothing in between.  A user who removes the app, authorizes it again and logs in
  between the exchange and that write (line 84) has the new token replaced by the
  dead one and has to log in once more.  `SettledLoginHolds` leaves out precisely
  this window (`SweepWrites`) and that of a second login; without the former TLC
  refutes it and the theorem would not hold.
- "Expired lists the tenants whose token Meta refused to renew", says the comment
  at `refresh_tokens.go:26`.  The default branch of the sweep (line 64) appends
  tenants that merely failed, by a timeout, a quota or a failed write, and
  `refreshLoop` logs them as needing a reconnection.
- The argument description of `page_post_insights` (`tools_insights.go`) announces
  `post_impressions` among the default metrics, which `DefaultPostMetrics`
  (`post_insights.go`) leaves out.
- The comment of `toolError` (`mcpserver/server.go`) says that anything unexpected
  is "logged and replaced by a neutral message"; the function returns the error as
  it is.

## 6. Not modelled

Encryption at rest, the encoding of tokens, rendering, routing, the loopback
relay, the parsing of URLs, numbers and base64, and the discovery documents:
library calls or pure formatting.  Cosmetic fields (names, dates of creation, days
remaining, summaries).  The metric catalogue is a constant.  Of the write tools:
what is in a text or a URL, and an answer of `success: false` under status 200,
which the code does not look at.  A `TOKEN_CIPHER_KEY` that is replaced by another
of the right size: no stored token can be decrypted, the list of due tenants fails
as a whole.  The background loops are not waited for at shutdown; what they lose
is what a restart loses.  Two processes over one database are modelled for the
migrations and the access tokens only: the tenants and the authorization server
have one process at a time.

## 7. Plan

Done: 1. `TenantLifecycle` with its registry and proofs; 2. `OAuthServer` with
`GrantFlow`; 3. `Publishing` with `ConfirmedWrite`; 4. `GraphReads` with dates and
the connection status; 5. `ServerProcess` with `Configuration` and `AccessTokens`;
6. proofs of `OAuthServer`; 7. of `Publishing`; 8. of `GraphReads`; 9. of
`ServerProcess`, the tokens included; 10. and 11. the part of liveness that is safety,
for calls, reads, start-ups and shutdowns; 12. what follows for the tenant tables from
`TenantRegistry`; 13. and 14. the same part of liveness for the sweep and the purge.

Next, in this order:

15. The refuted properties under the condition that keeps them true (one first login
    of an account at a time, no token request of the tenant in flight, nothing
    published between looking at a post and cancelling it), as theorems beside the
    counterexamples.
16. The answers of a sweep: that what `SweepReport` tells of a tenant is what happened
    to its row.
17. The hazards that no property covers yet: the order of two page lists, the edges of
    the scheduling window, the owner of an object.
