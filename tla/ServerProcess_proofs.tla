------------------------ MODULE ServerProcess_proofs ------------------------
(***************************************************************************)
(* Proofs about ServerProcess: type correctness, the consistency of the    *)
(* schema, the life of access tokens and that of a process, for any number *)
(* of processes over the database, any releases and configurations, and    *)
(* any number of failures, signals and kills.                              *)
(***************************************************************************)
EXTENDS ServerProcess, TLAPS

-----------------------------------------------------------------------------
(* Type correctness.                                                       *)

\* A configuration that loads has what the server needs.
LEMMA LoadedType ==
    ASSUME NEW d \in Deployments, Loads(d.environment)
    PROVE  d.release \in Nat \ {0} /\ ConfigOf(d.environment) \in Config
<1> DEFINE e == d.environment
<1>1. /\ e["PUBLIC_URL"].form = "sound"
      /\ e["JWT_SIGNING_KEY"].form = "sound"
      /\ e["TOKEN_CIPHER_KEY"].size = KeySize
      /\ e["ACCESS_TOKEN_TTL"].form # "absent" => e["ACCESS_TOKEN_TTL"].size > 0
  BY DEF Loads, Accepted, Settings, Mandatory, Durations
<1>2. /\ d.release \in Nat \ {0}
      /\ e["PUBLIC_URL"].id \in Sites /\ e["JWT_SIGNING_KEY"].id \in Keys
      /\ e["ACCESS_TOKEN_TTL"].size \in Int
  BY <1>1, ProcessAssumption DEF ProcessAssumption, Settings, Mandatory, Durations
<1> QED
  BY <1>1, <1>2, ConfigurationAssumption DEF ConfigurationAssumption, ConfigOf, Config

LEMMA ProcessType ==
    ASSUME TypeOK, NEW p \in Processes, process[p].step \notin Ended
    PROVE  process[p] \in Process
  BY DEF TypeOK, Ended, NoProcess

LEMMA NoProcessIsNone ==
    /\ NoProcess("down") \notin Process /\ NoProcess("stopped") \notin Process
    /\ NoProcess("down").step \in Ended /\ NoProcess("stopped").step \in Ended
  BY DEF NoProcess, Process, Ended, StartingUp, InTransaction, Running

LEMMA RequestType ==
    ASSUME TypeOK, NEW r \in Requests, request[r] # Idle
    PROVE  /\ request[r] \in Request /\ request[r].at \in Processes
           /\ process[request[r].at] \in Process
           /\ process[request[r].at].config \in Config
<1>1. request[r] \in Request /\ request[r].at \in Processes
  BY DEF TypeOK, Request
<1>2. process[request[r].at].step \in Running
  BY DEF TypeOK
<1>3. process[request[r].at].step \notin Ended
  BY <1>2 DEF Running, Ended
<1>4. process[request[r].at] \in Process
  BY <1>1, <1>3, ProcessType
<1> QED
  BY <1>1, <1>4 DEF Process

LEMMA EndType ==
    ASSUME TypeOK, NEW p \in Processes, NEW step \in Ended, End(p, step)
    PROVE  /\ process' \in [Processes -> Process \cup {NoProcess("down"), NoProcess("stopped")}]
           /\ \A q \in Processes \ {p} : process'[q] = process[q]
  BY DEF End, Ended, TypeOK

\* A step of one process that leaves its requests, if it had any, with a process
\* that still runs.
LEMMA ProcessStepType ==
    ASSUME TypeOK, NEW p \in Processes,
           process' \in [Processes -> Process \cup {NoProcess("down"), NoProcess("stopped")}],
           \A q \in Processes \ {p} : process'[q] = process[q],
           process[p].step \in Running => process'[p].step \in Running \/ RequestsOf(p) = {},
           UNCHANGED <<now, deployed, deploys, request, tokens>>,
           incidents' \in 0..MaxIncidents,
           schema' \subseteq Nat \ {0}, recorded' \subseteq Nat \ {0}
    PROVE  TypeOK'
<1>1. ASSUME NEW r \in Requests, request[r] # Idle
      PROVE  process'[request[r].at].step \in Running
  <2>1. request[r].at \in Processes /\ process[request[r].at].step \in Running
    BY <1>1, RequestType DEF TypeOK
  <2>2. CASE request[r].at = p
    BY <2>1, <2>2 DEF RequestsOf
  <2>3. CASE request[r].at # p
    BY <2>1, <2>3
  <2> QED
    BY <2>2, <2>3
<1> QED
  BY <1>1 DEF TypeOK

\* A process that ends and takes its requests with it.
LEMMA CutType ==
    ASSUME TypeOK, NEW p \in Processes, End(p, "down"), Cut(p),
           UNCHANGED <<now, deployed, deploys, tokens, dbVars>>,
           incidents' \in 0..MaxIncidents
    PROVE  TypeOK'
<1>1. /\ process' \in [Processes -> Process \cup {NoProcess("down"), NoProcess("stopped")}]
      /\ \A q \in Processes \ {p} : process'[q] = process[q]
  BY EndType DEF Ended
<1>2. request' \in [Requests -> Request \cup {Idle}]
  BY DEF Cut, TypeOK
<1>3. ASSUME NEW r \in Requests, request'[r] # Idle
      PROVE  process'[request'[r].at].step \in Running
  <2>1. request'[r] = request[r] /\ request[r].at # p /\ request[r] # Idle
    BY <1>3 DEF Cut, RequestsOf, TypeOK
  <2>2. request[r].at \in Processes /\ process[request[r].at].step \in Running
    BY <2>1, RequestType DEF TypeOK
  <2> QED
    BY <1>1, <2>1, <2>2
<1> QED
  BY <1>1, <1>2, <1>3 DEF TypeOK, dbVars

\* The same, of a step that only sets process[p] to v.
LEMMA SetType ==
    ASSUME TypeOK, NEW p \in Processes,
           NEW v \in Process \cup {NoProcess("down"), NoProcess("stopped")},
           process' = [process EXCEPT ![p] = v],
           process[p].step \in Running => v.step \in Running \/ RequestsOf(p) = {},
           UNCHANGED <<worldVars, dbVars, request, tokens>>
    PROVE  TypeOK'
<1>1. /\ process' \in [Processes -> Process \cup {NoProcess("down"), NoProcess("stopped")}]
      /\ process'[p] = v
      /\ \A q \in Processes \ {p} : process'[q] = process[q]
  BY DEF TypeOK
<1>2. /\ incidents' \in 0..MaxIncidents
      /\ schema' \subseteq Nat \ {0} /\ recorded' \subseteq Nat \ {0}
  BY DEF TypeOK, worldVars, dbVars
<1> QED
  BY <1>1, <1>2, ProcessStepType DEF worldVars

LEMMA GotoIsSet ==
    ASSUME TypeOK, NEW p \in Processes, process[p] \in Process,
           NEW step \in StartingUp \cup Running, Goto(p, step)
    PROVE  \E v \in Process : v.step = step /\ process' = [process EXCEPT ![p] = v]
<1>1. [process[p] EXCEPT !.step = step] \in Process /\ [process[p] EXCEPT !.step = step].step = step
  BY DEF Process
<1> QED
  BY <1>1 DEF Goto

LEMMA InitTypeOK == Init => TypeOK
  BY ProcessAssumption, SecondAssumption DEF ProcessAssumption, SecondAssumption, Init, TypeOK

LEMMA StartUpTypeOK ==
    ASSUME TypeOK, NEW p \in Processes, StartUp(p)
    PROVE  TypeOK'
<1>1. CASE Start(p)
  <2> DEFINE started == [step |-> "migrating", release |-> deployed.release,
                         config |-> ConfigOf(deployed.environment), next |-> 1, cancelled |-> FALSE]
  <2>1. deployed \in Deployments /\ Loads(deployed.environment)
    BY <1>1 DEF Start, TypeOK
  <2>2. deployed.release \in Nat \ {0} /\ ConfigOf(deployed.environment) \in Config
    BY <2>1, LoadedType
  <2>3. started \in Process
    BY <2>2 DEF Process, StartingUp
  <2>4. process[p].step \notin Running
    BY <1>1 DEF Start, Ended, Running
  <2>5. process' = [process EXCEPT ![p] = started] /\ UNCHANGED <<worldVars, dbVars, request, tokens>>
    BY <1>1 DEF Start
  <2> HIDE DEF started
  <2> QED
    BY <2>3, <2>4, <2>5, SetType
<1>2. CASE StartRefused(p) \/ Aborts(p)
  <2>1. process[p].step \notin Running
    BY <1>2 DEF StartRefused, Aborts, Ended, StartingUp, InTransaction, Running
  <2>2. process' = [process EXCEPT ![p] = NoProcess("down")] /\ UNCHANGED <<worldVars, dbVars, request, tokens>>
    BY <1>2 DEF StartRefused, Aborts, End
  <2> QED
    BY <2>1, <2>2, SetType
<1>3. CASE LookUp(p)
  <2>1. process[p] \in Process /\ process[p].step \notin Running
    BY <1>3, ProcessType DEF LookUp, Starting, Ended, Running
  <2>2. [process[p] EXCEPT !.next = @ + 1] \in Process /\ [process[p] EXCEPT !.step = "missing"] \in Process
    BY <2>1 DEF Process, StartingUp
  <2>3. PICK v \in Process : process' = [process EXCEPT ![p] = v]
    BY <1>3, <2>2 DEF LookUp
  <2>4. UNCHANGED <<worldVars, dbVars, request, tokens>>
    BY <1>3 DEF LookUp
  <2> QED
    BY <2>1, <2>3, <2>4, SetType
<1>4. CASE BeginMigration(p) \/ ApplyBody(p) \/ Migrated(p) \/ PurgeAtStart(p) \/ Listen(p)
  <2>1. process[p] \in Process /\ process[p].step \notin Running
    BY <1>4, ProcessType
       DEF BeginMigration, ApplyBody, Migrated, PurgeAtStart, Listen, Starting, Ended, Running
  <2>2. PICK step \in StartingUp \cup Running : Goto(p, step)
    BY <1>4 DEF BeginMigration, ApplyBody, Migrated, PurgeAtStart, Listen,
                StartingUp, InTransaction, Running
  <2>3. PICK v \in Process : process' = [process EXCEPT ![p] = v]
    BY <2>1, <2>2, GotoIsSet
  <2>4. UNCHANGED <<worldVars, dbVars, request, tokens>>
    BY <1>4 DEF BeginMigration, ApplyBody, Migrated, PurgeAtStart, Listen
  <2> QED
    BY <2>1, <2>3, <2>4, SetType
<1>5. CASE CommitMigration(p)
  <2>1. process[p] \in Process /\ process[p].next \in Nat \ {0} /\ process[p].step \notin Running
    BY <1>5, ProcessType DEF CommitMigration, Starting, Process, Ended, Running
  <2>2. PICK v : v = [process[p] EXCEPT !.step = "migrating", !.next = @ + 1]
    OBVIOUS
  <2>3. v \in Process /\ process' = [process EXCEPT ![p] = v]
    <3>1. v = [step |-> "migrating", release |-> process[p].release, config |-> process[p].config,
               next |-> process[p].next + 1, cancelled |-> process[p].cancelled]
      BY <2>1, <2>2 DEF Process
    <3>2. v \in Process
      BY <2>1, <3>1 DEF Process, StartingUp
    <3> QED
      BY <1>5, <2>2, <3>2 DEF CommitMigration
  <2>4. /\ process' \in [Processes -> Process \cup {NoProcess("down"), NoProcess("stopped")}]
        /\ \A q \in Processes \ {p} : process'[q] = process[q]
    BY <2>3 DEF TypeOK
  <2>5. schema' \subseteq Nat \ {0} /\ recorded' \subseteq Nat \ {0} /\ incidents' \in 0..MaxIncidents
    BY <1>5, <2>1 DEF CommitMigration, TypeOK, worldVars
  <2>6. UNCHANGED <<now, deployed, deploys, request, tokens>>
    BY <1>5 DEF CommitMigration, worldVars
  <2> QED
    BY <2>1, <2>4, <2>5, <2>6, ProcessStepType
<1> QED
  BY <1>1, <1>2, <1>3, <1>4, <1>5 DEF StartUp

LEMMA StopTypeOK ==
    ASSUME TypeOK, NEW p \in Processes, Stop(p)
    PROVE  TypeOK'
<1>1. CASE BeginShutdown(p)
  <2>1. process[p] \in Process
    BY <1>1, ProcessType DEF BeginShutdown, Ended
  <2>2. PICK v \in Process : v.step = "draining" /\ process' = [process EXCEPT ![p] = v]
    BY <1>1, <2>1, GotoIsSet DEF BeginShutdown, Running
  <2> QED
    BY <1>1, <2>2, SetType DEF BeginShutdown, Running
<1>2. CASE Drained(p)
  BY <1>2, SetType DEF Drained, End
<1>3. CASE GraceOver(p)
  <2>1. UNCHANGED <<now, deployed, deploys, tokens, dbVars>> /\ incidents' \in 0..MaxIncidents
    BY <1>3 DEF GraceOver, worldVars, TypeOK
  <2> QED
    BY <1>3, <2>1, CutType DEF GraceOver
<1> QED
  BY <1>1, <1>2, <1>3 DEF Stop

LEMMA IncidentTypeOK ==
    ASSUME TypeOK, NEW p \in Processes, Incident(p)
    PROVE  TypeOK'
<1> USE DEF dbVars, worldVars, StartingUp, Running, Ended, InTransaction
<1>1. incidents' \in 0..MaxIncidents
  BY ProcessAssumption DEF ProcessAssumption, Incident, Fails, Sigterm, Kill, TypeOK
<1>2. CASE Fails(p) \/ Kill(p)
  BY <1>1, <1>2, CutType DEF Fails, Kill
<1>3. CASE Sigterm(p)
  <2>1. process[p] \in Process
    BY <1>3, ProcessType DEF Sigterm
  <2>2. [process[p] EXCEPT !.cancelled = TRUE] \in Process
    BY <2>1 DEF Process
  <2>3. process' = [process EXCEPT ![p] = [process[p] EXCEPT !.cancelled = TRUE]]
    BY <1>3 DEF Sigterm
  <2>4. process[p].step \in Running => process'[p].step \in Running
    BY <2>1, <2>3 DEF TypeOK, Process
  <2> QED
    BY <1>1, <1>3, <2>2, <2>3, <2>4, ProcessStepType DEF Sigterm, TypeOK
<1> QED
  BY <1>2, <1>3 DEF Incident

\* What is minted, and what its client is told of it.
LEMMA MintedType ==
    ASSUME NEW config \in Config, NEW t \in TenantIDs, NEW n \in Nat
    PROVE  Minted(config, t, n) \in Token
  BY SecondAssumption DEF SecondAssumption, Minted, Token, Config

LEMMA ExpiresInType ==
    ASSUME NEW expiry \in Nat, NEW n \in Nat
    PROVE  n + ExpiresIn(expiry, n) * Second \in Int
<1>1. (expiry - n) \div Second \in Int /\ (n - expiry) \div Second \in Int
  BY SecondAssumption DEF SecondAssumption
<1>2. ExpiresIn(expiry, n) \in Int
  BY <1>1 DEF ExpiresIn
<1> QED
  BY <1>2, SecondAssumption DEF SecondAssumption

LEMMA TokenRequestTypeOK ==
    ASSUME TypeOK, NEW r \in Requests, TokenRequest(r)
    PROVE  TypeOK'
<1>1. now \in Nat
  BY ProcessAssumption, SecondAssumption DEF ProcessAssumption, SecondAssumption, TypeOK
<1>2. ASSUME NEW p \in Processes, Accept(p, r) PROVE TypeOK'
  <2>1. [Idle EXCEPT !.step = "accepted", !.at = p] \in Request
    BY DEF Idle, Request
  <2>2. request' = [request EXCEPT ![r] = [Idle EXCEPT !.step = "accepted", !.at = p]]
    BY <1>2 DEF Accept
  <2>3. request'[r].at = p
    BY <2>2 DEF TypeOK, Idle
  <2>4. request' \in [Requests -> Request \cup {Idle}]
    BY <2>1, <2>2 DEF TypeOK
  <2>5. \A s \in Requests \ {r} : request'[s] = request[s]
    BY <2>2 DEF TypeOK
  <2> QED
    BY <1>2, <2>3, <2>4, <2>5 DEF Accept, worldVars, dbVars, Running, TypeOK
<1>3. ASSUME NEW t \in TenantIDs, Mint(r, t) PROVE TypeOK'
  <2>1. request[r] \in [step : {"accepted"}, at : Processes, token : {None}, expiry : {0}]
    BY <1>3 DEF Mint, Idle, Request, TypeOK
  <2>2. PICK config \in Config : config = process[request[r].at].config
    BY <2>1, RequestType DEF Idle
  <2>3. PICK token \in Token, expiry \in Nat : token = Minted(config, t, now) /\ expiry = now + config.lifetime
    BY <1>1, MintedType DEF Config
  <2>4. PICK v : v = [step |-> "minted", at |-> request[r].at, token |-> token, expiry |-> expiry]
    OBVIOUS
  <2>5. request' = [request EXCEPT ![r] = v]
    BY <1>3, <2>2, <2>3, <2>4 DEF Mint
  <2>6. v \in Request /\ v.at = request[r].at
    BY <2>1, <2>4 DEF Request
  <2>7. /\ request' \in [Requests -> Request \cup {Idle}]
        /\ request'[r].at = request[r].at
        /\ \A s \in Requests \ {r} : request'[s] = request[s]
    BY <2>5, <2>6 DEF TypeOK
  <2> QED
    BY <1>3, <2>1, <2>7 DEF Mint, Idle, worldVars, dbVars, TypeOK
<1>4. CASE Respond(r)
  <2> DEFINE config == process[request[r].at].config
             k      == [token |-> request[r].token, config |-> config, expiry |-> request[r].expiry,
                        until |-> now + ExpiresIn(request[r].expiry, now) * Second]
  <2>1. request[r] # Idle
    BY <1>4 DEF Respond, Idle
  <2>2. request[r] \in Request /\ config \in Config
    BY <2>1, RequestType
  <2>3. request[r].token \in Token
    BY <1>4, <2>2 DEF Respond, Request
  <2>4. request[r].expiry \in Nat
    BY <1>4, <2>2 DEF Respond, Request
  <2>5. k \in Delivered
    BY <1>1, <2>2, <2>3, <2>4, ExpiresInType DEF Delivered
  <2>6. tokens' = tokens \cup {k}
    BY <1>4 DEF Respond
  <2> HIDE DEF k
  <2> QED
    BY <1>4, <2>5, <2>6 DEF Respond, worldVars, dbVars, TypeOK
<1>5. CASE RespondOtherwise(r)
  BY <1>5 DEF RespondOtherwise, worldVars, dbVars, TypeOK
<1> QED
  BY <1>2, <1>3, <1>4, <1>5 DEF TokenRequest

LEMMA NextTypeOK == TypeOK /\ [Next]_vars => TypeOK'
<1> SUFFICES ASSUME TypeOK, [Next]_vars PROVE TypeOK'
  OBVIOUS
<1>1. CASE UNCHANGED vars
  BY <1>1 DEF vars, worldVars, dbVars, TypeOK
<1>2. CASE Deploy
  BY <1>2, ProcessAssumption DEF ProcessAssumption, Deploy, dbVars, TypeOK
<1>3. CASE Tick
  BY <1>3, ProcessAssumption, SecondAssumption
     DEF ProcessAssumption, SecondAssumption, Tick, dbVars, TypeOK
<1> QED
  BY <1>1, <1>2, <1>3, StartUpTypeOK, StopTypeOK, IncidentTypeOK, TokenRequestTypeOK DEF Next

\* Every variable keeps its type; in particular no process runs without the
\* settings it needs (config.Load), and no request outlives its process.
THEOREM TypeCorrect == Spec => []TypeOK
  BY InitTypeOK, NextTypeOK, PTL DEF Spec

-----------------------------------------------------------------------------
(* The schema.  SchemaIsRecorded is not inductive: that a commit adds the  *)
(* next migration, and one that did not run yet, comes from what its       *)
(* process has seen and from nobody else writing meanwhile.                *)

\* What process p knows of the schema: the migrations it passed are there; the
\* one of its transaction was not there when its body ran; past its last one,
\* all of its release are.
Informed(p) ==
    /\ process[p].step \notin Ended => \A m \in 1..(process[p].next - 1) : m \in schema
    /\ process[p].step = "applied" => process[p].next \notin schema
    /\ process[p].step \in {"purging", "listening"} \cup Running => process[p].next > process[p].release

\* One transaction at a time.
OneWriter == \A p, q \in Writers : p = q

SchemaInv ==
    /\ TypeOK
    /\ SchemaIsRecorded
    /\ OneWriter
    /\ \A p \in Processes : Informed(p)

LEMMA InitSchemaInv == Init => SchemaInv
<1> SUFFICES ASSUME Init PROVE SchemaInv
  OBVIOUS
<1>1. \A p \in Processes : process[p].step = "down"
  BY DEF Init, NoProcess
<1> QED
  BY <1>1, InitTypeOK
     DEF Init, SchemaInv, SchemaIsRecorded, OneWriter, Writers, Informed, InTransaction, Ended, Running

\* A process that changes without writing keeps the invariant if it is informed
\* itself and begins no transaction while another is open.
LEMMA ReadingStep ==
    ASSUME SchemaInv, TypeOK', NEW p \in Processes,
           UNCHANGED dbVars,
           \A q \in Processes \ {p} : process'[q] = process[q],
           Informed(p)',
           process'[p].step \in InTransaction => p \in Writers \/ Writers = {}
    PROVE  SchemaInv'
<1>1. SchemaIsRecorded'
  BY DEF SchemaInv, SchemaIsRecorded, dbVars
<1>2. OneWriter'
  BY DEF SchemaInv, OneWriter, Writers
<1>3. \A q \in Processes \ {p} : Informed(q)'
  BY DEF SchemaInv, Informed, dbVars
<1> QED
  BY <1>1, <1>2, <1>3 DEF SchemaInv

\* A process that ends.
LEMMA EndStep ==
    ASSUME SchemaInv, TypeOK', NEW p \in Processes, NEW step \in Ended, End(p, step),
           UNCHANGED dbVars
    PROVE  SchemaInv'
<1>1. process'[p].step = step /\ \A q \in Processes \ {p} : process'[q] = process[q]
  BY DEF SchemaInv, TypeOK, End, NoProcess
<1>2. Informed(p)' /\ process'[p].step \notin InTransaction
  BY <1>1 DEF Informed, Ended, InTransaction, Running
<1> QED
  BY <1>1, <1>2, ReadingStep

\* A step of the process that goes no further in the list and reads nothing.
LEMMA GotoStep ==
    ASSUME SchemaInv, TypeOK', NEW p \in Processes, NEW step \in StartingUp \cup Running,
           process[p].step \notin Ended, Goto(p, step), UNCHANGED dbVars,
           step = "applied" => process[p].next \notin schema,
           step \in {"purging", "listening"} \cup Running => process[p].next > process[p].release,
           step \in InTransaction => p \in Writers \/ Writers = {}
    PROVE  SchemaInv'
<1>1. /\ process'[p].step = step /\ process'[p].next = process[p].next
      /\ process'[p].release = process[p].release
      /\ \A q \in Processes \ {p} : process'[q] = process[q]
  <2>1. process[p] \in Process
    BY ProcessType DEF SchemaInv
  <2> QED
    BY <2>1 DEF SchemaInv, TypeOK, Goto, Process
<1>2. Informed(p)'
  BY <1>1 DEF SchemaInv, Informed, dbVars
<1> QED
  BY <1>1, <1>2, ReadingStep

\* Only processes and the database matter.
LEMMA OtherStep ==
    ASSUME SchemaInv, TypeOK', UNCHANGED <<process, dbVars>>
    PROVE  SchemaInv'
  BY DEF SchemaInv, SchemaIsRecorded, OneWriter, Writers, Informed, dbVars

LEMMA CommitStep ==
    ASSUME SchemaInv, TypeOK', NEW p \in Processes, CommitMigration(p)
    PROVE  SchemaInv'
<1> DEFINE n == process[p].next
<1>1. process[p] \in Process /\ n \in Nat \ {0} /\ process[p].step = "applied" /\ p \in Writers
  BY ProcessType DEF SchemaInv, CommitMigration, Starting, Process, Ended, Writers, InTransaction
<1>2. n \notin schema /\ \A m \in 1..(n - 1) : m \in schema
  BY <1>1 DEF SchemaInv, Informed, Ended
<1>3. schema' = schema \cup {n} /\ recorded' = recorded \cup {n}
  BY DEF CommitMigration
<1>4. /\ process'[p].step = "migrating" /\ process'[p].next = n + 1
      /\ \A q \in Processes \ {p} : process'[q] = process[q]
  <2>1. process' = [process EXCEPT ![p].step = "migrating", ![p].next = @ + 1]
    BY DEF CommitMigration
  <2> QED
    BY <1>1, <2>1 DEF SchemaInv, TypeOK, Process
<1>5. SchemaIsRecorded'
  <2>1. \A m \in 1..n : m \in schema'
    BY <1>1, <1>2, <1>3
  <2>2. ASSUME NEW m \in schema' PROVE 1..m \subseteq schema'
    BY <1>3, <2>1, <2>2 DEF SchemaInv, SchemaIsRecorded
  <2> QED
    BY <1>3, <2>2 DEF SchemaInv, SchemaIsRecorded
<1>6. OneWriter'
  BY <1>4 DEF SchemaInv, OneWriter, Writers, InTransaction
<1>7. Informed(p)'
  BY <1>1, <1>2, <1>3, <1>4 DEF Informed, Ended, Running
<1>8. ASSUME NEW q \in Processes \ {p} PROVE Informed(q)'
  <2>1. process'[q] = process[q] /\ process[q].step # "applied"
    BY <1>1, <1>4 DEF SchemaInv, OneWriter, Writers, InTransaction
  <2> QED
    BY <1>3, <2>1 DEF SchemaInv, Informed
<1> QED
  BY <1>5, <1>6, <1>7, <1>8 DEF SchemaInv

LEMMA StartUpStep ==
    ASSUME SchemaInv, TypeOK', NEW p \in Processes, StartUp(p)
    PROVE  SchemaInv'
<1>1. CASE Start(p)
  <2>1. process'[p].step = "migrating" /\ process'[p].next = 1
    BY <1>1 DEF SchemaInv, TypeOK, Start
  <2>2. \A q \in Processes \ {p} : process'[q] = process[q]
    BY <1>1 DEF SchemaInv, TypeOK, Start
  <2>3. Informed(p)' /\ process'[p].step \notin InTransaction
    BY <2>1 DEF Informed, Ended, Running, InTransaction
  <2> QED
    BY <1>1, <2>2, <2>3, ReadingStep DEF Start
<1>2. CASE StartRefused(p) \/ Aborts(p)
  BY <1>2, EndStep DEF StartRefused, Aborts, Ended
<1>3. CASE LookUp(p)
  <2>1. process[p] \in Process /\ process[p].next \in Nat \ {0} /\ process[p].step = "migrating"
    BY <1>3, ProcessType DEF SchemaInv, LookUp, Starting, Process, Ended
  <2>2. CASE process[p].next \in recorded
    <3>1. /\ process'[p].step = "migrating" /\ process'[p].next = process[p].next + 1
          /\ \A q \in Processes \ {p} : process'[q] = process[q]
      BY <1>3, <2>1, <2>2 DEF LookUp, SchemaInv, TypeOK, Process
    <3>2. process[p].next \in schema /\ \A m \in 1..(process[p].next - 1) : m \in schema
      BY <2>1, <2>2 DEF SchemaInv, SchemaIsRecorded, Informed, Ended
    <3>3. Informed(p)' /\ process'[p].step \notin InTransaction
      BY <1>3, <2>1, <3>1, <3>2 DEF LookUp, dbVars, Informed, Ended, Running, InTransaction
    <3> QED
      BY <1>3, <3>1, <3>3, ReadingStep DEF LookUp
  <2>3. CASE process[p].next \notin recorded
    <3>1. Goto(p, "missing")
      BY <1>3, <2>3 DEF LookUp, Goto
    <3> QED
      BY <1>3, <2>1, <3>1, GotoStep DEF LookUp, Ended, StartingUp, InTransaction, Running
  <2> QED
    BY <2>2, <2>3
<1>4. CASE BeginMigration(p)
  BY <1>4, GotoStep DEF BeginMigration, Starting, Ended, StartingUp, InTransaction, Running
<1>5. CASE ApplyBody(p)
  BY <1>5, GotoStep DEF ApplyBody, Starting, Ended, StartingUp, InTransaction, Running, Writers
<1>6. CASE CommitMigration(p)
  BY <1>6, CommitStep
<1>7. CASE Migrated(p)
  BY <1>7, GotoStep DEF Migrated, Starting, Ended, StartingUp, InTransaction, Running
<1>8. CASE PurgeAtStart(p) \/ Listen(p)
  <2>1. process[p].next > process[p].release
    BY <1>8 DEF PurgeAtStart, Listen, Starting, SchemaInv, Informed
  <2> QED
    BY <1>8, <2>1, GotoStep DEF PurgeAtStart, Listen, Starting, Ended, StartingUp, InTransaction, Running
<1> QED
  BY <1>1, <1>2, <1>3, <1>4, <1>5, <1>6, <1>7, <1>8 DEF StartUp

LEMMA NextSchemaInv == SchemaInv /\ [Next]_vars => SchemaInv'
<1> SUFFICES ASSUME SchemaInv, [Next]_vars PROVE SchemaInv'
  OBVIOUS
<1>1. TypeOK'
  BY NextTypeOK DEF SchemaInv
<1>2. CASE UNCHANGED vars \/ Deploy \/ Tick
  BY <1>1, <1>2, OtherStep DEF vars, Deploy, Tick
<1>3. ASSUME NEW p \in Processes, StartUp(p) PROVE SchemaInv'
  BY <1>1, <1>3, StartUpStep
<1>4. ASSUME NEW p \in Processes, Stop(p) PROVE SchemaInv'
  <2>1. CASE BeginShutdown(p)
    <3>1. process[p].next > process[p].release
      BY <2>1 DEF BeginShutdown, SchemaInv, Informed, Running
    <3> QED
      BY <1>1, <2>1, <3>1, GotoStep DEF BeginShutdown, Ended, InTransaction, StartingUp, Running
  <2>2. CASE Drained(p) \/ GraceOver(p)
    BY <1>1, <2>2, EndStep DEF Drained, GraceOver, Ended
  <2> QED
    BY <1>4, <2>1, <2>2 DEF Stop
<1>5. ASSUME NEW p \in Processes, Incident(p) PROVE SchemaInv'
  <2>1. CASE Fails(p) \/ Kill(p)
    BY <1>1, <2>1, EndStep DEF Fails, Kill, Ended
  <2>2. CASE Sigterm(p)
    <3>1. process[p] \in Process /\ UNCHANGED dbVars
      BY <2>2, ProcessType DEF SchemaInv, Sigterm, StartingUp, InTransaction, Ended
    <3>2. /\ process'[p].step = process[p].step /\ process'[p].next = process[p].next
          /\ process'[p].release = process[p].release
          /\ \A q \in Processes \ {p} : process'[q] = process[q]
      BY <2>2, <3>1 DEF Sigterm, SchemaInv, TypeOK, Process
    <3>3. Informed(p)'
      BY <3>1, <3>2 DEF SchemaInv, Informed, dbVars
    <3>4. process'[p].step \in InTransaction => p \in Writers
      BY <3>2 DEF Writers
    <3> QED
      BY <1>1, <3>1, <3>2, <3>3, <3>4, ReadingStep
  <2> QED
    BY <1>5, <2>1, <2>2 DEF Incident
<1>6. ASSUME NEW r \in Requests, TokenRequest(r) PROVE SchemaInv'
  BY <1>1, <1>6, OtherStep DEF TokenRequest, Accept, Mint, Respond, RespondOtherwise
<1> QED
  BY <1>2, <1>3, <1>4, <1>5, <1>6 DEF Next

\* The migrations recorded are those that took effect, without a gap, however
\* processes race through migrate and wherever they fail or are killed
\* (applyMigration).
THEOREM SchemaConsistent == Spec => []SchemaIsRecorded
<1>1. SchemaInv => SchemaIsRecorded
  BY DEF SchemaInv
<1> QED
  BY <1>1, InitSchemaInv, NextSchemaInv, PTL DEF Spec

\* No process serves before every migration of its release took effect
\* (sqlite.New before ListenAndServe), whatever was deployed before.
THEOREM MigratedBeforeServing == Spec => []ServesMigratedSchema
<1>1. SchemaInv => ServesMigratedSchema
  <2> SUFFICES ASSUME SchemaInv, NEW p \in Processes,
                      process[p].step \in {"purging", "listening"} \cup Running,
                      NEW m \in 1..process[p].release
               PROVE  m \in schema
    BY DEF ServesMigratedSchema
  <2>1. process[p] \in Process /\ process[p].release \in Nat /\ process[p].next \in Nat
    BY ProcessType DEF SchemaInv, Process, Ended, Running
  <2>2. process[p].next > process[p].release /\ process[p].step \notin Ended
    BY DEF SchemaInv, Informed, Ended, Running
  <2>3. m \in 1..(process[p].next - 1)
    BY <2>1, <2>2
  <2> QED
    BY <2>2, <2>3 DEF SchemaInv, Informed
<1> QED
  BY <1>1, InitSchemaInv, NextSchemaInv, PTL DEF Spec

-----------------------------------------------------------------------------
(* Access tokens: rounded twice, the expiry down to its second and the     *)
(* lifetime the client is told down to a whole number of them.             *)

LEMMA SecondsOf ==
    ASSUME NEW x \in Nat
    PROVE  /\ x \div Second \in Nat /\ (x \div Second) * Second \in Nat
           /\ (x \div Second) * Second <= x
           /\ x < (x \div Second) * Second + Second
           /\ x >= Second => x \div Second # 0
<1>1. Second \in Nat \ {0}
  BY SecondAssumption DEF SecondAssumption
<1>2. /\ x \div Second \in Nat
      /\ (x \div Second) * Second <= x
      /\ x < (x \div Second) * Second + Second
  BY <1>1
<1>3. (x \div Second) * Second \in Nat
  BY <1>1, <1>2
<1>4. ASSUME x >= Second, x \div Second = 0 PROVE FALSE
  <2>1. (x \div Second) * Second = 0
    BY <1>1, <1>4
  <2> QED
    BY <1>1, <1>2, <1>4, <2>1
<1> QED
  BY <1>2, <1>3, <1>4

\* A client is never told a deadline past the expiry, unless it is told after it.
LEMMA AnnouncedWithin ==
    ASSUME NEW expiry \in Nat, NEW n \in Nat,
           NEW until, until = n + ExpiresIn(expiry, n) * Second
    PROVE  until \in Int /\ (until <= expiry \/ until <= n)
<1>1. Second \in Nat \ {0} /\ until \in Int
  BY SecondAssumption, ExpiresInType DEF SecondAssumption
<1>2. CASE n <= expiry
  <2>1. expiry - n \in Nat
    BY <1>2
  <2>2. /\ ((expiry - n) \div Second) * Second \in Nat
        /\ ((expiry - n) \div Second) * Second <= expiry - n
    BY <2>1, SecondsOf
  <2>3. until = n + ((expiry - n) \div Second) * Second
    BY <1>2 DEF ExpiresIn
  <2> QED
    BY <1>1, <2>2, <2>3
<1>3. CASE ~(n <= expiry)
  <2>1. n - expiry \in Nat
    BY <1>3
  <2>2. (n - expiry) \div Second \in Nat /\ ((n - expiry) \div Second) * Second \in Nat
    BY <2>1, SecondsOf
  <2>3. until = n + (-((n - expiry) \div Second)) * Second
    BY <1>3 DEF ExpiresIn
  <2>4. (-((n - expiry) \div Second)) * Second = -(((n - expiry) \div Second) * Second)
    BY <1>1, <2>2
  <2> QED
    BY <1>1, <2>2, <2>3, <2>4
<1> QED
  BY <1>1, <1>2, <1>3

\* A token of a configuration: its key and site, its expiry in whole seconds.
TokenOf(token, config, expiry) ==
    /\ token.key = config.signingKey
    /\ token.iss = config.site /\ token.aud = config.site
    /\ token.exp = expiry \div Second
    /\ expiry >= Second

MintedByItsProcess ==
    \A r \in Requests : request[r].step = "minted" =>
        TokenOf(request[r].token, process[request[r].at].config, request[r].expiry)

DeliveredAsMinted ==
    \A k \in tokens :
        /\ TokenOf(k.token, k.config, k.expiry)
        /\ k.until <= k.expiry \/ k.until <= now

TokensInv == TypeOK /\ MintedByItsProcess /\ DeliveredAsMinted

\* A step of a process leaves the requests that stay with it, and the
\* configuration they run under.
Undisturbed ==
    /\ \A r \in Requests :
          request'[r] # Idle =>
             /\ request'[r] = request[r]
             /\ process'[request[r].at].config = process[request[r].at].config
    /\ UNCHANGED <<now, tokens>>

LEMMA AsideUndisturbed ==
    ASSUME TypeOK, NEW p \in Processes, process[p].step \notin Running,
           \A q \in Processes \ {p} : process'[q] = process[q],
           UNCHANGED <<now, tokens, request>>
    PROVE  Undisturbed
<1>1. ASSUME NEW r \in Requests, request[r] # Idle
      PROVE  process'[request[r].at] = process[request[r].at]
  BY <1>1, RequestType DEF TypeOK
<1> QED
  BY <1>1 DEF Undisturbed

LEMMA CutUndisturbed ==
    ASSUME TypeOK, NEW p \in Processes, NEW step \in Ended, End(p, step), Cut(p),
           UNCHANGED <<now, tokens>>
    PROVE  Undisturbed
<1>1. ASSUME NEW r \in Requests, request'[r] # Idle
      PROVE  request'[r] = request[r] /\ process'[request[r].at] = process[request[r].at]
  <2>1. request'[r] = request[r] /\ request[r].at # p /\ request[r] # Idle
    BY <1>1 DEF Cut, RequestsOf, TypeOK
  <2> QED
    BY <2>1, RequestType, EndType
<1> QED
  BY <1>1 DEF Undisturbed

LEMMA StartUpUndisturbed ==
    ASSUME TypeOK, NEW p \in Processes, StartUp(p)
    PROVE  Undisturbed
<1>1. process[p].step \notin Running
  BY DEF StartUp, Start, StartRefused, LookUp, BeginMigration, ApplyBody, CommitMigration, Migrated,
         PurgeAtStart, Listen, Aborts, Starting, StartingUp, InTransaction, Running, Ended
<1>2. UNCHANGED <<now, tokens, request>>
  BY DEF StartUp, Start, StartRefused, LookUp, BeginMigration, ApplyBody, CommitMigration, Migrated,
         PurgeAtStart, Listen, Aborts, worldVars
<1>3. \A q \in Processes \ {p} : process'[q] = process[q]
  BY DEF TypeOK, StartUp, Start, StartRefused, LookUp, BeginMigration, ApplyBody, CommitMigration,
         Migrated, PurgeAtStart, Listen, Aborts, Goto, End
<1> QED
  BY <1>1, <1>2, <1>3, AsideUndisturbed

LEMMA StopUndisturbed ==
    ASSUME TypeOK, NEW p \in Processes, Stop(p)
    PROVE  Undisturbed
<1>1. CASE BeginShutdown(p)
  <2>1. /\ process[p] \in Process /\ process' = [process EXCEPT ![p].step = "draining"]
        /\ UNCHANGED <<now, tokens, request>>
    BY <1>1, ProcessType DEF BeginShutdown, Goto, Ended, worldVars
  <2>2. \A q \in Processes : process'[q].config = process[q].config
    BY <2>1 DEF TypeOK, Process
  <2>3. \A r \in Requests : request[r] # Idle => request[r].at \in Processes
    BY RequestType
  <2> QED
    BY <2>1, <2>2, <2>3 DEF Undisturbed
<1>2. CASE Drained(p)
  <2>1. \A r \in Requests : request[r].at # p
    BY <1>2 DEF Drained, RequestsOf
  <2>2. \A q \in Processes \ {p} : process'[q] = process[q]
    BY <1>2, EndType DEF Drained, Ended
  <2>3. \A r \in Requests : request[r] # Idle => request[r].at \in Processes \ {p}
    BY <2>1, RequestType
  <2> QED
    BY <1>2, <2>2, <2>3 DEF Undisturbed, Drained, worldVars
<1>3. CASE GraceOver(p)
  BY <1>3, CutUndisturbed DEF GraceOver, worldVars, Ended
<1> QED
  BY <1>1, <1>2, <1>3 DEF Stop

LEMMA IncidentUndisturbed ==
    ASSUME TypeOK, NEW p \in Processes, Incident(p)
    PROVE  Undisturbed
<1>1. CASE Fails(p) \/ Kill(p)
  BY <1>1, CutUndisturbed DEF Fails, Kill, Ended
<1>2. CASE Sigterm(p)
  <2>1. /\ process[p] \in Process /\ process' = [process EXCEPT ![p].cancelled = TRUE]
        /\ UNCHANGED <<now, tokens, request>>
    BY <1>2, ProcessType DEF Sigterm, StartingUp, InTransaction, Ended
  <2>2. \A q \in Processes : process'[q].config = process[q].config
    BY <2>1 DEF TypeOK, Process
  <2>3. \A r \in Requests : request[r] # Idle => request[r].at \in Processes
    BY RequestType
  <2> QED
    BY <2>1, <2>2, <2>3 DEF Undisturbed
<1> QED
  BY <1>1, <1>2 DEF Incident

LEMMA UndisturbedTokens ==
    ASSUME TokensInv, Undisturbed
    PROVE  MintedByItsProcess' /\ DeliveredAsMinted'
<1>1. ASSUME NEW r \in Requests, request'[r].step = "minted"
      PROVE  TokenOf(request'[r].token, process'[request'[r].at].config, request'[r].expiry)
  <2>1. request'[r] # Idle
    BY <1>1 DEF Idle
  <2>2. request'[r] = request[r] /\ process'[request[r].at].config = process[request[r].at].config
    BY <2>1 DEF Undisturbed
  <2>3. TokenOf(request[r].token, process[request[r].at].config, request[r].expiry)
    BY <1>1, <2>2 DEF TokensInv, MintedByItsProcess
  <2> QED
    BY <2>2, <2>3
<1>2. MintedByItsProcess'
  BY <1>1 DEF MintedByItsProcess, TokenOf
<1>3. DeliveredAsMinted'
  BY DEF TokensInv, DeliveredAsMinted, Undisturbed, TokenOf
<1> QED
  BY <1>2, <1>3

LEMMA MintedIsTokenOf ==
    ASSUME NEW config \in Config, NEW t, NEW n \in Nat, n >= Second,
           NEW expiry, expiry = n + config.lifetime
    PROVE  expiry \in Nat /\ TokenOf(Minted(config, t, n), config, expiry)
<1>1. expiry \in Nat /\ expiry >= Second
  BY SecondAssumption DEF SecondAssumption, Config
<1> QED
  BY <1>1 DEF Minted, TokenOf

LEMMA TokenRequestTokens ==
    ASSUME TokensInv, TypeOK', NEW q \in Requests, TokenRequest(q)
    PROVE  MintedByItsProcess' /\ DeliveredAsMinted'
<1>1. process' = process /\ now' = now
  BY DEF TokenRequest, Accept, Mint, Respond, RespondOtherwise, worldVars
<1>2. TypeOK /\ now \in Nat /\ now >= Second
  BY ProcessAssumption, SecondAssumption DEF ProcessAssumption, SecondAssumption, TokensInv, TypeOK
<1>3. \A r \in Requests \ {q} : request'[r] = request[r]
  BY DEF TokensInv, TypeOK, TokenRequest, Accept, Mint, Respond, RespondOtherwise
<1>4. ASSUME request'[q].step = "minted" =>
                TokenOf(request'[q].token, process'[request'[q].at].config, request'[q].expiry)
      PROVE  MintedByItsProcess'
  <2>1. ASSUME NEW r \in Requests, request'[r].step = "minted"
        PROVE  TokenOf(request'[r].token, process'[request'[r].at].config, request'[r].expiry)
    BY <1>1, <1>3, <1>4, <2>1 DEF TokensInv, MintedByItsProcess
  <2> QED
    BY <2>1 DEF MintedByItsProcess, TokenOf
<1>5. ASSUME request'[q].step # "minted", tokens' = tokens
      PROVE  MintedByItsProcess' /\ DeliveredAsMinted'
  BY <1>1, <1>4, <1>5 DEF TokensInv, DeliveredAsMinted, TokenOf
<1>6. ASSUME NEW p \in Processes, Accept(p, q) PROVE MintedByItsProcess' /\ DeliveredAsMinted'
  <2>1. request'[q].step # "minted" /\ tokens' = tokens
    BY <1>2, <1>6 DEF Accept, Idle, TypeOK
  <2> QED
    BY <1>5, <2>1
<1>7. ASSUME NEW t \in TenantIDs, Mint(q, t) PROVE MintedByItsProcess' /\ DeliveredAsMinted'
  <2>1. request[q] # Idle /\ tokens' = tokens
    BY <1>7 DEF Mint, Idle
  <2>2. PICK config \in Config : config = process[request[q].at].config
    BY <1>2, <2>1, RequestType
  <2>3. request' = [request EXCEPT ![q] =
                       [step |-> "minted", at |-> request[q].at, token |-> Minted(config, t, now),
                        expiry |-> now + config.lifetime]]
    BY <1>7, <2>2 DEF Mint
  <2>4. /\ request'[q].token = Minted(config, t, now) /\ request'[q].at = request[q].at
        /\ request'[q].expiry = now + config.lifetime
    BY <1>2, <2>3 DEF TypeOK
  <2>5. TokenOf(request'[q].token, config, request'[q].expiry)
    BY <1>2, <2>4, MintedIsTokenOf
  <2>6. MintedByItsProcess'
    BY <1>1, <1>4, <2>2, <2>4, <2>5
  <2>7. DeliveredAsMinted'
    BY <1>1, <2>1 DEF TokensInv, DeliveredAsMinted, TokenOf
  <2> QED
    BY <2>6, <2>7
<1>8. CASE Respond(q)
  <2>1. request[q] # Idle /\ request[q].step = "minted"
    BY <1>8 DEF Respond, Idle
  <2>2. PICK config, expiry, until :
           /\ config = process[request[q].at].config /\ expiry = request[q].expiry
           /\ until = now + ExpiresIn(expiry, now) * Second
    OBVIOUS
  <2>3. expiry \in Nat /\ TokenOf(request[q].token, config, expiry)
    BY <1>2, <2>1, <2>2, RequestType DEF TokensInv, MintedByItsProcess, Request
  <2>4. until <= expiry \/ until <= now
    BY <1>2, <2>2, <2>3, AnnouncedWithin
  <2>5. tokens' = tokens \cup {[token |-> request[q].token, config |-> config,
                                expiry |-> expiry, until |-> until]}
    BY <1>8, <2>2 DEF Respond
  <2>6. request'[q].step # "minted"
    BY <1>2, <1>8 DEF Respond, TypeOK, Idle
  <2>7. ASSUME NEW k \in tokens'
        PROVE  TokenOf(k.token, k.config, k.expiry) /\ (k.until <= k.expiry \/ k.until <= now')
    <3>1. CASE k \in tokens
      BY <1>1, <3>1 DEF TokensInv, DeliveredAsMinted
    <3>2. CASE k = [token |-> request[q].token, config |-> config, expiry |-> expiry, until |-> until]
      <4>1. k.token = request[q].token /\ k.config = config /\ k.expiry = expiry /\ k.until = until
        BY <3>2
      <4> QED
        BY <1>1, <2>3, <2>4, <4>1
    <3> QED
      BY <2>5, <3>1, <3>2
  <2>8. DeliveredAsMinted'
    BY <2>7 DEF DeliveredAsMinted, TokenOf
  <2> QED
    BY <1>4, <2>6, <2>8
<1>9. CASE RespondOtherwise(q)
  <2>1. request'[q].step # "minted" /\ tokens' = tokens
    BY <1>2, <1>9 DEF RespondOtherwise, TypeOK, Idle
  <2> QED
    BY <1>5, <2>1
<1> QED
  BY <1>6, <1>7, <1>8, <1>9 DEF TokenRequest

LEMMA NextTokensInv == TokensInv /\ [Next]_vars => TokensInv'
<1> SUFFICES ASSUME TokensInv, [Next]_vars PROVE MintedByItsProcess' /\ DeliveredAsMinted'
  BY NextTypeOK DEF TokensInv
<1>0. TypeOK /\ TypeOK'
  BY NextTypeOK DEF TokensInv
<1>1. CASE UNCHANGED vars
  BY <1>1 DEF vars, worldVars, TokensInv, MintedByItsProcess, DeliveredAsMinted, TokenOf
<1>2. ASSUME NEW p \in Processes, StartUp(p) \/ Stop(p) \/ Incident(p)
      PROVE  MintedByItsProcess' /\ DeliveredAsMinted'
  BY <1>0, <1>2, StartUpUndisturbed, StopUndisturbed, IncidentUndisturbed, UndisturbedTokens
<1>3. ASSUME NEW r \in Requests, TokenRequest(r)
      PROVE  MintedByItsProcess' /\ DeliveredAsMinted'
  BY <1>0, <1>3, TokenRequestTokens
<1>4. CASE Deploy
  BY <1>4 DEF Deploy, TokensInv, MintedByItsProcess, DeliveredAsMinted, TokenOf
<1>5. CASE Tick
  <2>1. /\ request' = request /\ process' = process /\ tokens' = tokens
        /\ now \in Int /\ now' = now + 1
    BY <1>0, <1>5, ProcessAssumption, SecondAssumption
       DEF ProcessAssumption, SecondAssumption, Tick, TypeOK
  <2>2. ASSUME NEW k \in tokens PROVE k.until <= k.expiry \/ k.until <= now'
    <3>1. k.until \in Int
      BY <1>0 DEF TypeOK, Delivered
    <3> QED
      BY <2>1, <3>1 DEF TokensInv, DeliveredAsMinted
  <2> QED
    BY <2>1, <2>2 DEF TokensInv, MintedByItsProcess, DeliveredAsMinted, TokenOf
<1> QED
  BY <1>1, <1>2, <1>3, <1>4, <1>5 DEF Next

\* An access token is good everywhere its key and public URL are, for as long as
\* its client was told less a second, and never past the lifetime it was given:
\* whatever the lifetime, the second it was minted in, how late the response was
\* written, and however many processes came and went (MintAccessToken,
\* VerifyAccessToken).
THEOREM TokensLive == Spec => []TokensLiveAsAnnounced
<1>1. Init => TokensInv
  BY InitTypeOK DEF Init, Idle, TokensInv, MintedByItsProcess, DeliveredAsMinted
<1>2. TokensInv => TokensLiveAsAnnounced
  <2> SUFFICES ASSUME TokensInv, NEW k \in tokens, NEW p \in Processes, SameIssuer(k, p)
               PROVE  /\ now + Second <= k.until =>
                            VerifyAccessToken(process[p].config, k.token, now)
                      /\ VerifyAccessToken(process[p].config, k.token, now) => now < k.expiry
    BY DEF TokensLiveAsAnnounced
  <2>1. /\ now \in Nat /\ k.until \in Int /\ k.expiry \in Nat /\ Second \in Nat \ {0}
        /\ TokenOf(k.token, k.config, k.expiry)
        /\ k.until <= k.expiry \/ k.until <= now
    BY ProcessAssumption, SecondAssumption
       DEF ProcessAssumption, SecondAssumption, TokensInv, TypeOK, Delivered, DeliveredAsMinted
  <2>2. /\ k.token.exp # 0 /\ k.token.exp * Second \in Nat
        /\ k.token.exp * Second <= k.expiry
        /\ k.expiry < k.token.exp * Second + Second
    BY <2>1, SecondsOf DEF TokenOf
  <2>3. now + Second <= k.until => now < k.token.exp * Second
    BY <2>1, <2>2
  <2>4. now < k.token.exp * Second => now < k.expiry
    BY <2>1, <2>2
  <2>5. /\ k.token.key = process[p].config.signingKey
        /\ k.token.iss = process[p].config.site /\ k.token.aud = process[p].config.site
    BY <2>1 DEF TokenOf, SameIssuer
  <2> QED
    BY <2>2, <2>3, <2>4, <2>5 DEF VerifyAccessToken
<1> QED
  BY <1>1, <1>2, NextTokensInv, PTL DEF Spec

-----------------------------------------------------------------------------
(* A process ends its start-up and its shutdown: every step leaves fewer.  *)

\* A process never looks past the migration after its last.
Fits(p) ==
    /\ process[p].step = "migrating" => process[p].next <= process[p].release + 1
    /\ process[p].step \in {"missing"} \cup InTransaction => process[p].next <= process[p].release

\* The steps from here to the end of a process: four for each migration it has
\* not come to, then the purge, the listener, the service and the drain.
StepsLeft(r) ==
    LET ahead == 4 * (r.release + 1 - r.next)
    IN  CASE r.step = "migrating" -> ahead + 5
          [] r.step = "missing"   -> ahead + 4
          [] r.step = "begun"     -> ahead + 3
          [] r.step = "applied"   -> ahead + 2
          [] r.step = "purging"   -> 4
          [] r.step = "listening" -> 3
          [] r.step = "serving"   -> 2
          [] r.step = "draining"  -> 1
          [] OTHER                -> 0

LEMMA StepsAreLeft ==
    ASSUME TypeOK, NEW p \in Processes, Fits(p)
    PROVE  /\ StepsLeft(process[p]) \in Nat
           /\ process[p].step \notin Ended => StepsLeft(process[p]) > 0
<1>1. CASE process[p].step \in Ended
  BY <1>1 DEF StepsLeft, Ended
<1>2. CASE process[p].step \notin Ended
  <2>1. /\ process[p] \in Process /\ process[p].step \in StartingUp \cup Running
        /\ process[p].release \in Nat /\ process[p].next \in Nat
    BY <1>2, ProcessType DEF Process
  <2>2. process[p].step \in {"missing", "begun", "applied", "migrating"} =>
           4 * (process[p].release + 1 - process[p].next) \in Nat
    BY <2>1 DEF Fits, InTransaction
  <2> QED
    BY <2>1, <2>2 DEF StepsLeft, StartingUp, Running, InTransaction
<1> QED
  BY <1>1, <1>2

\* What a step of the process itself, or of its end, comes to.
Advances(p) ==
    /\ \A q \in Processes \ {p} : process'[q] = process[q]
    /\ Fits(p)'
    /\ StepsLeft(process[p])' < StepsLeft(process[p])
    /\ process[p].cancelled => process'[p].cancelled \/ process'[p].step \in Ended

LEMMA EndAdvances ==
    ASSUME TypeOK, NEW p \in Processes, Fits(p), process[p].step \notin Ended,
           NEW step \in Ended, End(p, step)
    PROVE  Advances(p)
<1>1. process'[p].step = step /\ \A q \in Processes \ {p} : process'[q] = process[q]
  BY DEF End, NoProcess, TypeOK
<1>2. StepsLeft(process'[p]) = 0 /\ Fits(p)'
  BY <1>1 DEF StepsLeft, Ended, Fits, InTransaction
<1> QED
  BY <1>1, <1>2, StepsAreLeft DEF Advances

LEMMA SetAdvances ==
    ASSUME TypeOK, NEW p \in Processes, process[p] \in Process,
           NEW step, NEW next, NEW after, after = [process[p] EXCEPT !.step = step, !.next = next],
           process' = [process EXCEPT ![p] = after],
           step = "migrating" => next <= process[p].release + 1,
           step \in {"missing"} \cup InTransaction => next <= process[p].release,
           StepsLeft(after) < StepsLeft(process[p])
    PROVE  Advances(p)
<1>1. process'[p] = after /\ \A q \in Processes \ {p} : process'[q] = process[q]
  BY DEF TypeOK
<1>2. /\ after.step = step /\ after.next = next /\ after.release = process[p].release
      /\ after.cancelled = process[p].cancelled
  BY DEF Process
<1> QED
  BY <1>1, <1>2 DEF Advances, Fits

LEMMA GotoAdvances ==
    ASSUME TypeOK, NEW p \in Processes, Fits(p), process[p].step \notin Ended,
           NEW step, Goto(p, step),
           <<process[p].step, step>> \in
               {<<"missing", "begun">>, <<"begun", "applied">>, <<"migrating", "purging">>,
                <<"migrating", "missing">>, <<"purging", "listening">>, <<"listening", "serving">>,
                <<"listening", "draining">>, <<"serving", "draining">>},
           step = "missing" => process[p].next <= process[p].release
    PROVE  Advances(p)
<1> DEFINE after == [process[p] EXCEPT !.step = step]
<1>1. /\ process[p] \in Process
      /\ process[p].release \in Nat /\ process[p].next \in Nat
  BY ProcessType DEF Process
<1>2. /\ after = [process[p] EXCEPT !.step = step, !.next = process[p].next]
      /\ after.step = step /\ after.next = process[p].next /\ after.release = process[p].release
  BY <1>1 DEF Process
<1>3. process' = [process EXCEPT ![p] = after]
  BY DEF Goto
<1> HIDE DEF after
<1>4. StepsLeft(after) < StepsLeft(process[p])
  <2> DEFINE ahead == 4 * (process[p].release + 1 - process[p].next)
  <2>1. ahead \in Int /\ (process[p].step = "migrating" => ahead >= 0)
    BY <1>1 DEF Fits
  <2>2. 4 * (after.release + 1 - after.next) = ahead
    BY <1>2
  <2> HIDE DEF ahead
  <2>3. /\ process[p].step = "migrating" => StepsLeft(process[p]) = ahead + 5
        /\ process[p].step = "missing" => StepsLeft(process[p]) = ahead + 4
        /\ process[p].step = "begun" => StepsLeft(process[p]) = ahead + 3
        /\ process[p].step = "purging" => StepsLeft(process[p]) = 4
        /\ process[p].step = "listening" => StepsLeft(process[p]) = 3
        /\ process[p].step = "serving" => StepsLeft(process[p]) = 2
    BY DEF StepsLeft, ahead
  <2>4. /\ step = "missing" => StepsLeft(after) = ahead + 4
        /\ step = "begun" => StepsLeft(after) = ahead + 3
        /\ step = "applied" => StepsLeft(after) = ahead + 2
        /\ step = "purging" => StepsLeft(after) = 4
        /\ step = "listening" => StepsLeft(after) = 3
        /\ step = "serving" => StepsLeft(after) = 2
        /\ step = "draining" => StepsLeft(after) = 1
    BY <1>2, <2>2 DEF StepsLeft
  <2> QED
    BY <2>1, <2>3, <2>4
<1>5. /\ step # "migrating"
      /\ step \in {"missing"} \cup InTransaction => process[p].next <= process[p].release
  BY DEF Fits, InTransaction
<1> QED
  BY <1>1, <1>2, <1>3, <1>4, <1>5, SetAdvances

LEMMA NextMigrationAdvances ==
    ASSUME TypeOK, NEW p \in Processes, Fits(p), process[p].step \in {"migrating", "applied"},
           process[p].next <= process[p].release,
           process' = [process EXCEPT ![p] =
                          [process[p] EXCEPT !.step = "migrating", !.next = process[p].next + 1]]
    PROVE  Advances(p)
<1> DEFINE after == [process[p] EXCEPT !.step = "migrating", !.next = process[p].next + 1]
<1>1. /\ process[p] \in Process
      /\ process[p].release \in Nat /\ process[p].next \in Nat
  BY ProcessType DEF Process, Ended
<1>2. /\ after.step = "migrating" /\ after.next = process[p].next + 1
      /\ after.release = process[p].release
  BY <1>1 DEF Process
<1>3. StepsLeft(after) = 4 * (process[p].release + 1 - (process[p].next + 1)) + 5
  BY <1>2 DEF StepsLeft
<1>4. \/ StepsLeft(process[p]) = 4 * (process[p].release + 1 - process[p].next) + 5
      \/ StepsLeft(process[p]) = 4 * (process[p].release + 1 - process[p].next) + 2
  BY DEF StepsLeft
<1>5. StepsLeft(after) < StepsLeft(process[p])
  BY <1>1, <1>3, <1>4
<1>6. /\ process[p].next + 1 <= process[p].release + 1
      /\ "migrating" \notin {"missing"} \cup InTransaction
  BY <1>1 DEF InTransaction
<1>7. process' = [process EXCEPT ![p] = after]
  OBVIOUS
<1>8. \E step, next : /\ after = [process[p] EXCEPT !.step = step, !.next = next]
                      /\ step = "migrating" /\ next = process[p].next + 1
  OBVIOUS
<1> HIDE DEF after
<1> QED
  BY <1>1, <1>5, <1>6, <1>7, <1>8, SetAdvances

LEMMA OwnStepAdvances ==
    ASSUME TypeOK, NEW p \in Processes, Fits(p), process[p].step \notin Ended,
           StartUp(p) \/ Stop(p)
    PROVE  Advances(p)
<1>0. process[p] \in Process
  BY ProcessType
<1>1. CASE LookUp(p)
  <2>1. process[p].step = "migrating" /\ process[p].next <= process[p].release
    BY <1>1 DEF LookUp, Starting
  <2>2. CASE process[p].next \in recorded
    <3>1. process' = [process EXCEPT ![p].next = @ + 1]
      BY <1>1, <2>2 DEF LookUp
    <3>2. process' = [process EXCEPT ![p] =
             [process[p] EXCEPT !.step = "migrating", !.next = process[p].next + 1]]
      BY <1>0, <2>1, <3>1 DEF Process
    <3> QED
      BY <2>1, <3>2, NextMigrationAdvances
  <2>3. CASE process[p].next \notin recorded
    <3>1. Goto(p, "missing")
      BY <1>1, <2>3 DEF LookUp, Goto
    <3> QED
      BY <2>1, <3>1, GotoAdvances
  <2> QED
    BY <2>2, <2>3
<1>2. CASE CommitMigration(p)
  <2>1. process[p].step = "applied" /\ process[p].next <= process[p].release
    BY <1>2 DEF CommitMigration, Starting, Fits, InTransaction
  <2>2. process' = [process EXCEPT ![p] =
           [process[p] EXCEPT !.step = "migrating", !.next = process[p].next + 1]]
    BY <1>2 DEF CommitMigration
  <2> QED
    BY <2>1, <2>2, NextMigrationAdvances
<1>3. CASE BeginMigration(p) \/ ApplyBody(p) \/ Migrated(p) \/ PurgeAtStart(p) \/ Listen(p)
           \/ BeginShutdown(p)
  <2>1. PICK step : Goto(p, step) /\
           <<process[p].step, step>> \in
               {<<"missing", "begun">>, <<"begun", "applied">>, <<"migrating", "purging">>,
                <<"purging", "listening">>, <<"listening", "serving">>,
                <<"listening", "draining">>, <<"serving", "draining">>}
    BY <1>3 DEF BeginMigration, ApplyBody, Migrated, PurgeAtStart, Listen, BeginShutdown, Starting
  <2>2. step # "missing"
    BY <2>1
  <2> QED
    BY <2>1, <2>2, GotoAdvances
<1>4. CASE Aborts(p) \/ Drained(p) \/ GraceOver(p)
  <2>1. \E step \in Ended : End(p, step)
    BY <1>4 DEF Aborts, Drained, GraceOver, Ended
  <2> QED
    BY <2>1, EndAdvances
<1>5. ~Start(p) /\ ~StartRefused(p)
  BY DEF Start, StartRefused
<1> QED
  BY <1>1, <1>2, <1>3, <1>4, <1>5 DEF StartUp, Stop

\* A process that has not ended stays as it is, is told to stop, or comes closer
\* to its end, and is never made to forget that it was told.
MovesOn(p) ==
    process[p].step \notin Ended =>
        /\ StartUp(p) \/ Stop(p) => StepsLeft(process[p])' < StepsLeft(process[p])
        /\ \/ process'[p] \in {process[p], [process[p] EXCEPT !.cancelled = TRUE]}
           \/ StepsLeft(process[p])' < StepsLeft(process[p])
        /\ process[p].cancelled => process'[p].cancelled \/ process'[p].step \in Ended

LEMMA NextMovesOn ==
    ASSUME TypeOK, TypeOK', \A q \in Processes : Fits(q), [Next]_vars, NEW p \in Processes
    PROVE  Fits(p)' /\ MovesOn(p)
<1>1. ASSUME process'[p] = process[p], process[p].step \in Ended \/ ~(StartUp(p) \/ Stop(p))
      PROVE  Fits(p)' /\ MovesOn(p)
  BY <1>1 DEF Fits, MovesOn
<1>2. CASE Advances(p)
  BY <1>2 DEF Advances, MovesOn
<1>3. CASE process[p].step \in Ended /\ (StartUp(p) \/ Stop(p))
  <2>1. Start(p) \/ StartRefused(p)
    BY <1>3 DEF StartUp, Stop, LookUp, BeginMigration, ApplyBody, CommitMigration, Migrated,
       PurgeAtStart, Listen, Aborts, BeginShutdown, Drained, GraceOver, Starting, Ended,
       StartingUp, InTransaction
  <2>2. CASE Start(p)
    <3>1. /\ process'[p].step = "migrating" /\ process'[p].next = 1
          /\ process'[p].release = deployed.release
      BY <2>2 DEF Start, TypeOK
    <3>2. deployed.release \in Nat
      BY ProcessAssumption DEF ProcessAssumption, TypeOK
    <3> QED
      BY <1>3, <3>1, <3>2 DEF Fits, MovesOn, InTransaction
  <2>3. CASE StartRefused(p)
    <3>1. process'[p].step = "down"
      BY <2>3 DEF StartRefused, End, NoProcess, TypeOK
    <3> QED
      BY <1>3, <3>1 DEF Fits, MovesOn, InTransaction
  <2> QED
    BY <2>1, <2>2, <2>3
<1>4. CASE process[p].step \notin Ended /\ (StartUp(p) \/ Stop(p))
  BY <1>2, <1>4, OwnStepAdvances
<1>5. CASE Incident(p)
  <2>1. process[p].step \notin Ended
    BY <1>5 DEF Incident, Fails, Sigterm, Kill, StartingUp, InTransaction, Ended
  <2>2. CASE Sigterm(p)
    <3>1. process'[p] = [process[p] EXCEPT !.cancelled = TRUE]
      BY <2>2 DEF Sigterm, TypeOK
    <3>2. /\ process'[p].step = process[p].step /\ process'[p].next = process[p].next
          /\ process'[p].release = process[p].release /\ process'[p].cancelled
      BY <2>1, <3>1, ProcessType DEF Process
    <3>3. Fits(p)'
      BY <3>2 DEF Fits
    <3>4. CASE StartUp(p) \/ Stop(p)
      BY <1>4, <2>1, <3>4
    <3>5. CASE ~(StartUp(p) \/ Stop(p))
      BY <3>1, <3>2, <3>3, <3>5 DEF MovesOn
    <3> QED
      BY <3>4, <3>5
  <2>3. CASE Fails(p) \/ Kill(p)
    <3>1. End(p, "down") /\ "down" \in Ended
      BY <2>3 DEF Fails, Kill, Ended
    <3> QED
      BY <1>2, <2>1, <3>1, EndAdvances
  <2> QED
    BY <1>5, <2>2, <2>3 DEF Incident
<1>6. ASSUME NEW q \in Processes \ {p}, StartUp(q) \/ Stop(q) \/ Incident(q)
      PROVE  process'[p] = process[p]
  <2>1. CASE process[q].step \notin Ended /\ (StartUp(q) \/ Stop(q))
    BY <2>1, OwnStepAdvances DEF Advances
  <2>2. CASE process[q].step \in Ended /\ (StartUp(q) \/ Stop(q))
    <3>1. Start(q) \/ StartRefused(q)
      BY <2>2 DEF StartUp, Stop, LookUp, BeginMigration, ApplyBody, CommitMigration, Migrated,
         PurgeAtStart, Listen, Aborts, BeginShutdown, Drained, GraceOver, Starting, Ended,
         StartingUp, InTransaction
    <3> QED
      BY <1>6, <3>1 DEF Start, StartRefused, End, TypeOK
  <2>3. CASE Incident(q)
    BY <1>6, <2>3 DEF Incident, Fails, Sigterm, Kill, End, TypeOK
  <2> QED
    BY <1>6, <2>1, <2>2, <2>3
<1>7. UNCHANGED vars \/ (\E r \in Requests : TokenRequest(r)) \/ Deploy \/ Tick
         => process' = process
  BY DEF vars, worldVars, TokenRequest, Accept, Mint, Respond, RespondOtherwise, Deploy, Tick
<1>8. CASE StartUp(p) \/ Stop(p)
  BY <1>3, <1>4, <1>8
<1>9. CASE ~(StartUp(p) \/ Stop(p)) /\ ~Incident(p)
  <2>1. process'[p] = process[p]
    BY <1>6, <1>7, <1>9 DEF Next
  <2> QED
    BY <1>1, <1>9, <2>1
<1> QED
  BY <1>5, <1>8, <1>9

\* The life of a process is finite whatever the others do: four steps for each
\* migration of its release, then the purge, the listener, the service and the
\* drain.  Only the operator, a failure or a signal takes it out of order, and
\* then to its end.  With the fairness of start-up and shutdown this is why a
\* server comes up and one that is told to stop stops (migrate, run).
THEOREM LivesRunOut ==
    Spec => /\ [](\A p \in Processes : StepsLeft(process[p]) \in Nat)
            /\ [][\A p \in Processes : MovesOn(p)]_vars
<1> DEFINE AllFit == \A p \in Processes : Fits(p)
<1>1. Init => TypeOK /\ AllFit
  BY InitTypeOK DEF Init, NoProcess, Fits, InTransaction
<1>2. TypeOK /\ AllFit /\ [Next]_vars => (TypeOK /\ AllFit)'
  BY NextTypeOK, NextMovesOn
<1>3. TypeOK /\ AllFit => \A p \in Processes : StepsLeft(process[p]) \in Nat
  BY StepsAreLeft
<1>4. TypeOK /\ AllFit /\ TypeOK' /\ [Next]_vars => [\A p \in Processes : MovesOn(p)]_vars
  BY NextMovesOn
<1> QED
  BY <1>1, <1>2, <1>3, <1>4, PTL DEF Spec
=============================================================================
