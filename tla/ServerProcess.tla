---------------------------- MODULE ServerProcess ----------------------------
(***************************************************************************)
(* The life of the server process (main.run): it reads its configuration,  *)
(* migrates the database, purges it, serves, and on SIGTERM drains for a   *)
(* while and exits.  It may fail at any step and be killed between any     *)
(* two, and a supervisor starts it again, possibly from another release or *)
(* with another environment.  Two processes may share the database: a      *)
(* deployment that starts the new one before the old one is gone, a second *)
(* one started by hand.                                                    *)
(*                                                                         *)
(* The database is seen through its schema: a migration is a number, its   *)
(* body fails where it already ran (CREATE TABLE, ADD COLUMN).  SQLite     *)
(* gives transactions and one writer at a time; net/http gives Shutdown.   *)
(* What a request does is seen through the access tokens it mints.  The    *)
(* time a statement waits for the lock, and the grace, are not counted:    *)
(* they may be over at any moment.                                         *)
(***************************************************************************)
EXTENDS Configuration, AccessTokens, FiniteSets

CONSTANTS
    Processes,          \* slots a process may run in
    Sites, Keys,        \* public URLs and signing keys
    Requests,           \* concurrent token requests
    TenantIDs,          \* tenants
    Deployments,        \* what the operator may deploy: a release, which is the
                        \* number of its last migration, and an environment
    MaxDeploys,         \* bound: releases and environments change so often
    MaxIncidents,       \* bound: failures, signals and kills, all together
    MaxTokens,          \* bound: access tokens delivered
    MaxTime,            \* bound: the clock stops here
    None

ASSUME ProcessAssumption ==
    /\ \A d \in Deployments : d.release \in Nat \ {0} /\ \A name \in Settings :
        LET setting == d.environment[name]
        IN  /\ setting.form \in {"absent", "garbled", "sound"} /\ setting.size \in Int
            /\ setting.form = "sound" /\ name = "PUBLIC_URL" => setting.id \in Sites
            /\ setting.form = "sound" /\ name = "JWT_SIGNING_KEY" => setting.id \in Keys
    /\ MaxDeploys \in Nat /\ MaxIncidents \in Nat /\ MaxTokens \in Nat
    /\ MaxTime \in Nat /\ 2 * Second <= MaxTime
    /\ None \notin Processes \cup TenantIDs

VARIABLES
    now,                \* the clock
    deployed,           \* the deployment the next start takes
    deploys,            \* changes of these so far
    incidents,          \* failures, signals and kills so far
    schema,             \* database: migrations whose body took effect
    recorded,           \* database: table schema_migrations
    process,            \* process[p]: what runs in slot p
    request,            \* request[r]: the token request under way
    tokens              \* access tokens delivered, as their clients know them

dbVars    == <<schema, recorded>>
worldVars == <<now, deployed, deploys, incidents>>
vars      == <<worldVars, dbVars, process, request, tokens>>

-----------------------------------------------------------------------------

\* "migrating": about to look up migration next.  "missing": not applied, no
\* transaction yet.  "begun", "applied": in its transaction, before and after
\* its body.  "purging", "listening": the two steps that are left.  "stopped":
\* exit code 0.  "down": any other end, or never started.
InTransaction == {"begun", "applied"}
StartingUp    == {"migrating", "missing", "purging", "listening"} \cup InTransaction
Running       == {"serving", "draining"}
Ended         == {"down", "stopped"}

\* cancelled: SIGTERM was received, the context of run is done.
Config  == [site : Sites, signingKey : Keys, cipherSize : {KeySize}, lifetime : Nat \ {0}]
Process == [step : StartingUp \cup Running, release : Nat \ {0}, config : Config,
            next : Nat \ {0}, cancelled : BOOLEAN]
NoProcess(step) == [step |-> step, release |-> 0, config |-> None, next |-> 0, cancelled |-> FALSE]

\* A request that reached process at: "accepted", then "minted" with its token.
Token   == [key : Keys, iss : Sites, aud : Sites, sub : TenantIDs, exp : Nat]
Request == [step : {"accepted"}, at : Processes, token : {None}, expiry : {0}]
           \cup [step : {"minted"}, at : Processes, token : Token, expiry : Nat]
Idle    == [step |-> "idle", at |-> None, token |-> None, expiry |-> 0]

\* A token as delivered: what it was minted under, its expiry before rounding,
\* and until when its client was told it lives.
Delivered == [token : Token, config : Config, expiry : Nat, until : Int]

TypeOK ==
    /\ now \in Second..MaxTime
    /\ deployed \in Deployments
    /\ deploys \in 0..MaxDeploys /\ incidents \in 0..MaxIncidents
    /\ schema \subseteq Nat \ {0} /\ recorded \subseteq Nat \ {0}
    /\ process \in [Processes -> Process \cup {NoProcess("down"), NoProcess("stopped")}]
    /\ request \in [Requests -> Request \cup {Idle}]
    /\ \A r \in Requests : request[r] # Idle => process[request[r].at].step \in Running
    /\ tokens \subseteq Delivered

Init ==
    /\ now \in Second..(2 * Second - 1)
    /\ deployed \in Deployments
    /\ deploys = 0 /\ incidents = 0
    /\ schema = {} /\ recorded = {}
    /\ process = [p \in Processes |-> NoProcess("down")]
    /\ request = [r \in Requests |-> Idle]
    /\ tokens = {}

\* The process in which a transaction holds the write lock.
Writers == {p \in Processes : process[p].step \in InTransaction}

Goto(p, step) == process' = [process EXCEPT ![p].step = step]
End(p, step)  == process' = [process EXCEPT ![p] = NoProcess(step)]

\* A statement of the start-up, under the context of run.
Starting(p, step) == process[p].step = step /\ ~process[p].cancelled

RequestsOf(p) == {r \in Requests : request[r].at = p}
Cut(p)        == request' = [r \in Requests |-> IF r \in RequestsOf(p) THEN Idle ELSE request[r]]

-----------------------------------------------------------------------------
(* Start-up: config.Load, sqlite.New, the first purge, the listener.       *)

Start(p) ==
    /\ process[p].step \in Ended
    /\ Loads(deployed.environment)
    /\ process' = [process EXCEPT ![p] =
            [step |-> "migrating", release |-> deployed.release,
             config |-> ConfigOf(deployed.environment), next |-> 1, cancelled |-> FALSE]]
    /\ UNCHANGED <<worldVars, dbVars, request, tokens>>

StartRefused(p) ==
    /\ process[p].step \in Ended
    /\ ~Loads(deployed.environment)
    /\ End(p, "down")
    /\ UNCHANGED <<worldVars, dbVars, request, tokens>>

\* migrationApplied, outside of any transaction.
LookUp(p) ==
    /\ Starting(p, "migrating")
    /\ process[p].next <= process[p].release
    /\ process' = IF process[p].next \in recorded
                  THEN [process EXCEPT ![p].next = @ + 1]
                  ELSE [process EXCEPT ![p].step = "missing"]
    /\ UNCHANGED <<worldVars, dbVars, request, tokens>>

\* applyMigration: BEGIN IMMEDIATE waits for the lock.
BeginMigration(p) ==
    /\ Starting(p, "missing")
    /\ Writers = {}
    /\ Goto(p, "begun")
    /\ UNCHANGED <<worldVars, dbVars, request, tokens>>

\* Mutant: the body is run on the database, not in the transaction.
ApplyBodyOutside(p) ==
    /\ Starting(p, "begun")
    /\ process[p].next \notin schema
    /\ schema' = schema \cup {process[p].next}
    /\ Goto(p, "applied")
    /\ UNCHANGED <<worldVars, recorded, request, tokens>>

\* The body takes effect with the transaction.
ApplyBody(p) ==
    /\ Starting(p, "begun")
    /\ process[p].next \notin schema
    /\ Goto(p, "applied")
    /\ UNCHANGED <<worldVars, dbVars, request, tokens>>

\* Its record is inserted and the transaction committed.
CommitMigration(p) ==
    /\ Starting(p, "applied")
    /\ process[p].next \notin recorded
    /\ schema' = schema \cup {process[p].next}
    /\ recorded' = recorded \cup {process[p].next}
    /\ process' = [process EXCEPT ![p].step = "migrating", ![p].next = @ + 1]
    /\ UNCHANGED <<worldVars, request, tokens>>

\* Mutant: the last migration is not waited for.
MigratedButOne(p) ==
    /\ Starting(p, "migrating")
    /\ process[p].next >= process[p].release
    /\ Goto(p, "purging")
    /\ UNCHANGED <<worldVars, dbVars, request, tokens>>

Migrated(p) ==
    /\ Starting(p, "migrating")
    /\ process[p].next > process[p].release
    /\ Goto(p, "purging")
    /\ UNCHANGED <<worldVars, dbVars, request, tokens>>

PurgeAtStart(p) ==
    /\ Starting(p, "purging")
    /\ Writers = {}
    /\ Goto(p, "listening")
    /\ UNCHANGED <<worldVars, dbVars, request, tokens>>

\* Nothing looks at the context between the purge and the select.
Listen(p) ==
    /\ process[p].step = "listening"
    /\ Goto(p, "serving")
    /\ UNCHANGED <<worldVars, dbVars, request, tokens>>

\* Mutant: the migration is tried again, under the lock, until it works.
AbortsWhenCancelled(p) ==
    /\ process[p].step \in StartingUp \ {"listening"} /\ process[p].cancelled
    /\ End(p, "down")
    /\ UNCHANGED <<worldVars, dbVars, request, tokens>>

\* What makes a start-up fail for certain: the context is done, or another
\* process applied the migration since it was looked up.  The transaction is
\* rolled back.
Aborts(p) ==
    /\ \/ process[p].step \in StartingUp \ {"listening"} /\ process[p].cancelled
       \/ process[p].step = "begun" /\ process[p].next \in schema
    /\ End(p, "down")
    /\ UNCHANGED <<worldVars, dbVars, request, tokens>>

\* run returns an error: a statement or ListenAndServe failed.
Fails(p) ==
    /\ incidents < MaxIncidents
    /\ process[p].step \in StartingUp \cup {"serving"}
    /\ incidents' = incidents + 1
    /\ End(p, "down")
    /\ Cut(p)
    /\ UNCHANGED <<now, deployed, deploys, dbVars, tokens>>

-----------------------------------------------------------------------------
(* The end of a process.                                                   *)

Sigterm(p) ==
    /\ incidents < MaxIncidents
    /\ process[p].step \in StartingUp \cup {"serving"} /\ ~process[p].cancelled
    /\ incidents' = incidents + 1
    /\ process' = [process EXCEPT ![p].cancelled = TRUE]
    /\ UNCHANGED <<now, deployed, deploys, dbVars, request, tokens>>

\* The select of run; it may come before the listener was opened.
BeginShutdown(p) ==
    /\ process[p].step \in {"listening", "serving"} /\ process[p].cancelled
    /\ Goto(p, "draining")
    /\ UNCHANGED <<worldVars, dbVars, request, tokens>>

Drained(p) ==
    /\ process[p].step = "draining"
    /\ RequestsOf(p) = {}
    /\ End(p, "stopped")
    /\ UNCHANGED <<worldVars, dbVars, request, tokens>>

\* Mutant: Shutdown is given a context without a deadline.
GraceWithoutEnd(p) ==
    /\ process[p].step = "draining"
    /\ RequestsOf(p) = {}
    /\ End(p, "down")
    /\ UNCHANGED <<worldVars, dbVars, request, tokens>>

\* shutdownGrace is over: what is left is cut, the exit code is 1.
GraceOver(p) ==
    /\ process[p].step = "draining"
    /\ RequestsOf(p) # {}
    /\ End(p, "down")
    /\ Cut(p)
    /\ UNCHANGED <<worldVars, dbVars, tokens>>

Kill(p) ==
    /\ incidents < MaxIncidents
    /\ process[p].step \notin Ended
    /\ incidents' = incidents + 1
    /\ End(p, "down")
    /\ Cut(p)
    /\ UNCHANGED <<now, deployed, deploys, dbVars, tokens>>

-----------------------------------------------------------------------------
(* Requests for a token.                                                   *)

Accept(p, r) ==
    /\ process[p].step = "serving"
    /\ request[r] = Idle
    /\ Cardinality(tokens) < MaxTokens
    /\ request' = [request EXCEPT ![r] = [Idle EXCEPT !.step = "accepted", !.at = p]]
    /\ UNCHANGED <<worldVars, dbVars, process, tokens>>

\* issueTokens, up to the refresh token it stores.
Mint(r, t) ==
    LET config == process[request[r].at].config
    IN  /\ request[r].step = "accepted"
        /\ request' = [request EXCEPT ![r] =
                [step |-> "minted", at |-> @.at, token |-> Minted(config, t, now),
                 expiry |-> now + config.lifetime]]
        /\ UNCHANGED <<worldVars, dbVars, process, tokens>>

Respond(r) ==
    /\ request[r].step = "minted"
    /\ tokens' = tokens \cup {[token  |-> request[r].token,
                               config |-> process[request[r].at].config,
                               expiry |-> request[r].expiry,
                               until  |-> now + ExpiresIn(request[r].expiry, now) * Second]}
    /\ request' = [request EXCEPT ![r] = Idle]
    /\ UNCHANGED <<worldVars, dbVars, process>>

\* Refused, failed, or of another kind.
RespondOtherwise(r) ==
    /\ request[r] # Idle
    /\ request' = [request EXCEPT ![r] = Idle]
    /\ UNCHANGED <<worldVars, dbVars, process, tokens>>

-----------------------------------------------------------------------------

Deploy ==
    /\ deploys < MaxDeploys
    /\ deploys' = deploys + 1
    /\ deployed' \in Deployments
    /\ UNCHANGED <<now, incidents, dbVars, process, request, tokens>>

\* Only tokens read the clock: without one it may stand still.
Tick ==
    /\ now < MaxTime
    /\ tokens # {} \/ \E r \in Requests : request[r] # Idle
    /\ now' = now + 1
    /\ UNCHANGED <<deployed, deploys, incidents, dbVars, process, request, tokens>>

StartUp(p) ==
    \/ Start(p) \/ StartRefused(p)
    \/ LookUp(p) \/ BeginMigration(p) \/ ApplyBody(p) \/ CommitMigration(p)
    \/ Migrated(p) \/ PurgeAtStart(p) \/ Listen(p) \/ Aborts(p)

Stop(p) == BeginShutdown(p) \/ Drained(p) \/ GraceOver(p)

Incident(p) == Fails(p) \/ Sigterm(p) \/ Kill(p)

TokenRequest(r) ==
    \/ \E p \in Processes : Accept(p, r)
    \/ \E t \in TenantIDs : Mint(r, t)
    \/ Respond(r) \/ RespondOtherwise(r)

Next ==
    \/ \E p \in Processes : StartUp(p) \/ Stop(p) \/ Incident(p)
    \/ \E r \in Requests : TokenRequest(r)
    \/ Deploy
    \/ Tick

Spec == Init /\ [][Next]_vars

\* The supervisor starts what is down, and a process goes on with its start-up
\* or its shutdown, whose timer runs.  Operators, clients and the clock owe
\* nothing, and a request may never end.
FairSpec == Spec /\ \A p \in Processes : WF_vars(StartUp(p)) /\ WF_vars(Stop(p))

-----------------------------------------------------------------------------
(* Properties.                                                             *)

\* The record of the migrations is the schema, wherever processes were killed
\* and however two of them raced through migrate, and the schema is always that
\* of some release: no gap, no body without its record (applyMigration).
SchemaIsRecorded ==
    /\ schema = recorded
    /\ \A m \in schema : 1..m \subseteq schema

\* A process serves only over a database that has every migration of its own
\* release, also after a deployment went back and forth (sqlite.New before
\* ListenAndServe).
ServesMigratedSchema ==
    \A p \in Processes : process[p].step \in {"purging", "listening"} \cup Running =>
        1..process[p].release \subseteq schema

\* "A restart of the container never invalidates a token that has not expired"
\* (mcpserver.Handler): a token is honoured by every process of the same
\* signing key and public URL, started before or after it was minted, until the
\* deadline its client was told, less the second it was rounded down by, and
\* never past the lifetime it was given (MintAccessToken, VerifyAccessToken).
SameIssuer(k, p) ==
    process[p].step \in Running /\ process[p].config.site = k.config.site
        /\ process[p].config.signingKey = k.config.signingKey
TokensLiveAsAnnounced ==
    \A k \in tokens, p \in Processes : SameIssuer(k, p) =>
        /\ now + Second <= k.until => VerifyAccessToken(process[p].config, k.token, now)
        /\ VerifyAccessToken(process[p].config, k.token, now) => now < k.expiry

\* A server that is down comes up again as long as its configuration loads: no
\* kill and no race leaves a database no start-up can migrate.
ComesUp ==
    \A p \in Processes :
        process[p].step \in Ended ~> process[p].step = "serving" \/ ~Loads(deployed.environment)

\* A process told to stop is gone before long, whatever it was doing and
\* whoever is still waiting for an answer (shutdownGrace).
StopsWhenTold ==
    \A p \in Processes : process[p].cancelled ~> process[p].step \in Ended
=============================================================================
