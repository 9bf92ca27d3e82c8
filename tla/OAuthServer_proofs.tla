------------------------- MODULE OAuthServer_proofs -------------------------
(***************************************************************************)
(* Proofs about OAuthServer: type correctness, the purge, the end of the   *)
(* sessions of an erased tenant, and that one credential at a time carries *)
(* an authorization request, for any clients, secrets, requests, tenants,  *)
(* lifetimes and bounds.                                                   *)
(***************************************************************************)
EXTENDS OAuthServer, FiniteSetTheorems, TLAPS

Stored == {"state", "code", "refresh"}

-----------------------------------------------------------------------------
(* Type correctness.                                                       *)

\* What a handler writes from what it holds is a row: the client of a row or a
\* request is registered, and only a completed login has a tenant and a client.
KnownHolders ==
    /\ \A s \in Secrets : rows[s].kind = "state" =>
          rows[s].client \in clients \cup {None} /\ rows[s].tenant = None
    /\ \A s \in Secrets : rows[s].kind \in {"code", "refresh"} =>
          rows[s].client \in clients /\ rows[s].tenant \in TenantIDs
    /\ \A r \in Requests : request[r].step = "completing" =>
          request[r].client \in clients \cup {None} /\ request[r].tenant = None
    /\ \A r \in Requests : request[r].step \in Steps \ {"completing"} =>
          request[r].client \in clients /\ request[r].tenant \in TenantIDs

TypeInv == TypeOK /\ KnownHolders

LEMMA NoRowIsNoRow ==
    /\ \A kind : NoRow(kind).flow = None /\ NoRow(kind).kind = kind /\ NoRow(kind).tenant = None
    /\ Unused \notin Row /\ Gone \notin Row /\ Unused # Gone
    /\ Idle \notin Request /\ Idle.step = "idle"
  BY OAuthAssumption DEF OAuthAssumption, NoRow, Unused, Gone, Row, Idle, Working, Request, Steps

\* A table answers for a secret exactly when its row is stored.
LEMMA StoredIsRow ==
    ASSUME TypeOK, NEW s \in Secrets
    PROVE  /\ rows[s].kind \in Stored <=> rows[s] \in Row
           /\ rows[s] = Unused <=> rows[s].kind = "unused"
           /\ rows[s] = Gone <=> rows[s].kind = "gone"
           /\ rows[s].kind \in Stored \cup {"unused", "gone"}
  BY DEF TypeOK, Row, NoRow, Unused, Gone, Stored

LEMMA WorkingIsRequest ==
    ASSUME TypeOK, NEW r \in Requests
    PROVE  /\ request[r] # Idle <=> request[r] \in Request
           /\ request[r] # Idle <=> request[r].step \in Steps
           /\ request[r].step \in Steps \cup {"idle"}
  BY NoRowIsNoRow DEF TypeOK, Request, Idle, Working, Steps

LEMMA NewRowIsRow ==
    ASSUME TypeOK, NEW kind \in Stored, NEW flow \in Secrets, NEW client \in Clients \cup {None},
           NEW owner \in TenantIDs \cup {None}, NEW ttl \in Nat
    PROVE  NewRow(kind, flow, client, owner, ttl) \in Row
<1>1. now + ttl \in Nat
  BY OAuthAssumption DEF OAuthAssumption, TypeOK
<1> QED
  BY <1>1 DEF NewRow, Row, Stored

LEMMA InitTypeInv == Init => TypeInv
  BY OAuthAssumption DEF OAuthAssumption, Init, TypeInv, TypeOK, KnownHolders, Unused, NoRow, Idle,
     Working, NoPurge, Steps

\* A secret is drawn for a row of the right type, by a handler that then idles
\* or by one that held nothing.
LEMMA DrawTypeInv ==
    ASSUME TypeInv, NEW s \in Secrets, NEW row \in Row, rows' = [rows EXCEPT ![s] = row],
           row.kind = "state" => row.client \in clients \cup {None} /\ row.tenant = None,
           row.kind \in {"code", "refresh"} => row.client \in clients /\ row.tenant \in TenantIDs,
           \/ UNCHANGED request
           \/ \E r \in Requests : request' = [request EXCEPT ![r] = Idle],
           UNCHANGED <<now, crashes, clients, purge, tenant>>
    PROVE  TypeInv'
<1>1. \A r \in Requests : request'[r] \in {request[r], Idle}
  BY DEF TypeInv, TypeOK
<1>2. request' \in [Requests -> Request \cup {Idle}]
  BY DEF TypeInv, TypeOK
<1>3. \A q \in Secrets : rows'[q] = IF q = s THEN row ELSE rows[q]
  BY DEF TypeInv, TypeOK
<1>4. rows' \in [Secrets -> Row \cup {Unused, Gone}]
  BY DEF TypeInv, TypeOK
<1>5. TypeOK'
  BY <1>2, <1>3, <1>4 DEF TypeInv, TypeOK
<1>6. KnownHolders'
  BY <1>1, <1>3, NoRowIsNoRow DEF TypeInv, KnownHolders, Steps
<1> QED
  BY <1>5, <1>6 DEF TypeInv

\* A row goes, or is revoked, and what it granted is held by a request.
LEMMA TakeTypeInv ==
    ASSUME TypeInv, NEW s \in Secrets, NEW row, rows' = [rows EXCEPT ![s] = row],
           row = Gone \/ (rows[s].kind = "refresh" /\ row = [rows[s] EXCEPT !.revoked = TRUE]),
           \/ UNCHANGED request
           \/ \E r \in Requests, held \in Request :
                 /\ request' = [request EXCEPT ![r] = held]
                 /\ held.step = "completing" =>
                       held.client \in clients \cup {None} /\ held.tenant = None
                 /\ held.step \in Steps \ {"completing"} =>
                       held.client \in clients /\ held.tenant \in TenantIDs,
           UNCHANGED <<now, crashes, clients, purge, tenant>>
    PROVE  TypeInv'
<1>1. row \in Row \cup {Gone}
  BY StoredIsRow DEF TypeInv, Row, Stored
<1>2. \A q \in Secrets : rows'[q] = IF q = s THEN row ELSE rows[q]
  BY DEF TypeInv, TypeOK
<1>3. rows' \in [Secrets -> Row \cup {Unused, Gone}]
  BY <1>1 DEF TypeInv, TypeOK
<1>4. row.kind = "gone"
      \/ (row.kind = rows[s].kind /\ row.client = rows[s].client /\ row.tenant = rows[s].tenant)
  BY StoredIsRow, NoRowIsNoRow DEF TypeInv, Row, Gone, Stored
<1>5. request' \in [Requests -> Request \cup {Idle}]
  BY DEF TypeInv, TypeOK
<1>6. TypeOK'
  BY <1>2, <1>3, <1>4, <1>5 DEF TypeInv, TypeOK
<1>7. KnownHolders'
  BY <1>2, <1>4, WorkingIsRequest DEF TypeInv, TypeOK, KnownHolders
<1> QED
  BY <1>6, <1>7 DEF TypeInv

\* Rows only go, and what else changes keeps its type and holds nothing new.
LEMMA DropTypeInv ==
    ASSUME TypeInv, rows' \in [Secrets -> Row \cup {Unused, Gone}],
           \A s \in Secrets : rows'[s] \in {rows[s], Gone},
           request' \in [Requests -> Request \cup {Idle}],
           \A r \in Requests : request'[r] \in {request[r], Idle},
           now' \in 0..MaxTime, crashes' \in 0..MaxCrashes,
           clients' \in SUBSET Clients, clients \subseteq clients',
           purge' \in [next : {"idle", "code", "state", "refresh"}, cutoff : 0..MaxTime],
           tenant' \in [TenantIDs -> {"absent", "stored", "erased", "overlapped"}]
    PROVE  TypeInv'
<1>1. Gone.kind = "gone" /\ Idle.step = "idle"
  BY NoRowIsNoRow DEF Gone, NoRow
<1>2. \A s \in Secrets : rows'[s].kind \in {"code", "refresh"} => rows'[s].client \in clients'
  BY <1>1 DEF TypeInv, TypeOK
<1>3. TypeOK'
  BY <1>2 DEF TypeOK
<1>4. KnownHolders'
  BY <1>1 DEF TypeInv, KnownHolders, Steps
<1> QED
  BY <1>3, <1>4 DEF TypeInv

LEMMA StartTypeInv ==
    ASSUME TypeInv, NEW s \in Secrets, Start(s)
    PROVE  TypeInv'
<1>0. TypeOK /\ clients \subseteq Clients /\ "state" \in Stored
      /\ LoginStateTTL \in Nat
  BY OAuthAssumption DEF OAuthAssumption, TypeInv, TypeOK, Stored
<1>1. CASE Reconnect(s)
  <2>1. NewRow("state", s, None, None, LoginStateTTL) \in Row
    BY <1>0, NewRowIsRow
  <2> QED
    BY <1>1, <2>1, DrawTypeInv DEF Reconnect, NewRow
<1>2. ASSUME NEW c \in Clients, Authorize(c, s) PROVE TypeInv'
  <2>1. NewRow("state", s, c, None, LoginStateTTL) \in Row
    BY <1>0, NewRowIsRow
  <2> QED
    BY <1>2, <2>1, DrawTypeInv DEF Authorize, NewRow
<1> QED
  BY <1>1, <1>2 DEF Start

LEMMA CallbackTypeInv ==
    ASSUME TypeInv, NEW r \in Requests, Callback(r)
    PROVE  TypeInv'
<1>0. TypeOK /\ {"code", "refresh"} \subseteq Stored /\ AuthCodeTTL \in Nat
  BY OAuthAssumption DEF OAuthAssumption, TypeInv, Stored
<1>1. ASSUME NEW s \in Secrets, CallbackConsume(r, s) PROVE TypeInv'
  <2> DEFINE held == Working("completing", rows[s].flow, rows[s].client, None)
  <2>1. held \in Request /\ held.step = "completing"
        /\ held.client \in clients \cup {None} /\ held.tenant = None
    BY <1>0, <1>1, StoredIsRow DEF CallbackConsume, Consume, TypeInv, KnownHolders, Row, Request,
       Working, Steps, Stored
  <2> HIDE DEF held
  <2>2. request' = [request EXCEPT ![r] = held] \/ UNCHANGED request
    BY <1>1 DEF CallbackConsume, held
  <2> QED
    BY <1>1, <2>1, <2>2, TakeTypeInv DEF CallbackConsume, Consume, Steps
<1>2. ASSUME NEW s \in Secrets, IssueAuthCode(r, s) PROVE TypeInv'
  <2>1. /\ request[r].flow \in Secrets /\ request[r].client \in clients
        /\ request[r].tenant \in TenantIDs
    BY <1>0, <1>2, WorkingIsRequest DEF IssueAuthCode, TypeInv, KnownHolders, Request, Steps
  <2> DEFINE row == NewRow("code", request[r].flow, request[r].client, request[r].tenant, AuthCodeTTL)
  <2>2. row \in Row
    BY <1>0, <2>1, NewRowIsRow DEF TypeOK
  <2>3. row.kind = "code" /\ row.client \in clients /\ row.tenant \in TenantIDs
    BY <2>1 DEF NewRow
  <2> HIDE DEF row
  <2> QED
    BY <1>2, <2>2, <2>3, DrawTypeInv DEF IssueAuthCode, row
<1>3. ASSUME NEW t \in TenantIDs, CallbackComplete(r, t) PROVE TypeInv'
  <2>1. request[r] \in Request /\ request[r].client \in clients \cup {None}
    BY <1>0, <1>3, WorkingIsRequest DEF CallbackComplete, TypeInv, KnownHolders, Steps
  <2> DEFINE held == Working("completed", request[r].flow, request[r].client, t)
  <2>2. held \in Request /\ held.step = "completed" /\ held.client = request[r].client /\ held.tenant = t
    BY <2>1 DEF Working, Request, Steps
  <2> HIDE DEF held
  <2>3. request' = [request EXCEPT ![r] = IF request[r].client = None THEN Idle ELSE held]
    BY <1>3 DEF CallbackComplete, held
  <2>4. TypeOK'
    BY <1>0, <1>3, <2>2, <2>3 DEF CallbackComplete, TypeOK
  <2>5. KnownHolders'
    BY <1>0, <1>3, <2>1, <2>2, <2>3, NoRowIsNoRow
       DEF CallbackComplete, TypeInv, TypeOK, KnownHolders, Steps
  <2> QED
    BY <2>4, <2>5 DEF TypeInv
<1> QED
  BY <1>1, <1>2, <1>3 DEF Callback

LEMMA TokenRequestTypeInv ==
    ASSUME TypeInv, NEW r \in Requests, TokenRequest(r)
    PROVE  TypeInv'
<1>0. TypeOK /\ {"code", "refresh"} \subseteq Stored /\ RefreshTokenTTL \in Nat
  BY OAuthAssumption DEF OAuthAssumption, TypeInv, Stored
<1>1. ASSUME NEW s \in Secrets, NEW c \in Clients, NEW f \in Secrets, RedeemCode(r, s, c, f)
      PROVE  TypeInv'
  <2> DEFINE held == Working("redeemed", f, c, rows[s].tenant)
  <2>1. rows[s].tenant \in TenantIDs /\ rows[s].client \in clients
    BY <1>1 DEF RedeemCode, Consume, TypeInv, KnownHolders
  <2>2. held \in Request /\ held.step = "redeemed" /\ held.client = c /\ held.tenant \in TenantIDs
    BY <2>1 DEF Working, Request, Steps
  <2> HIDE DEF held
  <2>3. (request' = [request EXCEPT ![r] = held] /\ c \in clients) \/ UNCHANGED request
    BY <1>1, <2>1 DEF RedeemCode, held
  <2> QED
    BY <1>1, <2>2, <2>3, TakeTypeInv DEF RedeemCode, Consume
<1>2. ASSUME NEW s \in Secrets, NEW c \in Clients, RotateToken(r, s, c) PROVE TypeInv'
  <2> DEFINE held == Working("rotated", rows[s].flow, c, rows[s].tenant)
  <2>1. /\ rows[s].kind = "refresh"
        /\ rows[s].flow \in Secrets /\ rows[s].tenant \in TenantIDs /\ rows[s].client \in clients
    BY <1>0, <1>2, StoredIsRow DEF RotateToken, Rotate, TypeInv, KnownHolders, Row
  <2>2. held \in Request /\ held.step = "rotated" /\ held.client = c /\ held.tenant \in TenantIDs
    BY <2>1 DEF Working, Request, Steps
  <2> HIDE DEF held
  <2>3. (request' = [request EXCEPT ![r] = held] /\ c \in clients) \/ UNCHANGED request
    BY <1>2, <2>1 DEF RotateToken, held
  <2>4. rows' = [rows EXCEPT ![s] = [rows[s] EXCEPT !.revoked = TRUE]]
    BY <1>2 DEF RotateToken, Rotate
  <2> QED
    BY <1>2, <2>1, <2>2, <2>3, <2>4, TakeTypeInv DEF RotateToken
<1>3. ASSUME NEW s \in Secrets, IssueTokens(r, s) PROVE TypeInv'
  <2>1. /\ request[r].flow \in Secrets /\ request[r].client \in clients
        /\ request[r].tenant \in TenantIDs
    BY <1>0, <1>3, WorkingIsRequest DEF IssueTokens, TypeInv, KnownHolders, Request, Steps
  <2> DEFINE row == NewRow("refresh", request[r].flow, request[r].client, request[r].tenant,
                           RefreshTokenTTL)
  <2>2. row \in Row
    BY <1>0, <2>1, NewRowIsRow DEF TypeOK
  <2>3. row.kind = "refresh" /\ row.client \in clients /\ row.tenant \in TenantIDs
    BY <2>1 DEF NewRow
  <2> HIDE DEF row
  <2> QED
    BY <1>3, <2>2, <2>3, DrawTypeInv DEF IssueTokens, row
<1> QED
  BY <1>1, <1>2, <1>3 DEF TokenRequest

LEMMA PurgeTypeInv ==
    ASSUME TypeInv, Purge
    PROVE  TypeInv'
<1>1. CASE PurgeStart \/ PurgeFails
  <2>1. purge' \in [next : {"idle", "code", "state", "refresh"}, cutoff : 0..MaxTime]
    BY <1>1, OAuthAssumption DEF OAuthAssumption, PurgeStart, PurgeFails, NoPurge, TypeInv, TypeOK
  <2> QED
    BY <1>1, <2>1, DropTypeInv DEF PurgeStart, PurgeFails, TypeInv, TypeOK
<1>2. ASSUME NEW kind, NEW next \in {"idle", "state", "refresh"}, PurgeStatement(kind, next)
      PROVE  TypeInv'
  <2>1. purge' \in [next : {"idle", "code", "state", "refresh"}, cutoff : 0..MaxTime]
    BY <1>2, OAuthAssumption DEF OAuthAssumption, PurgeStatement, NoPurge, TypeInv, TypeOK
  <2>2. /\ rows' \in [Secrets -> Row \cup {Unused, Gone}]
        /\ \A s \in Secrets : rows'[s] \in {rows[s], Gone}
    BY <1>2 DEF PurgeStatement, TypeInv, TypeOK
  <2> QED
    BY <1>2, <2>1, <2>2, DropTypeInv DEF PurgeStatement, TypeInv, TypeOK
<1> QED
  BY <1>1, <1>2 DEF Purge, PurgeCodes, PurgeStates, PurgeRefresh

LEMMA NextTypeInv == TypeInv /\ [Next]_vars => TypeInv'
<1> SUFFICES ASSUME TypeInv, [Next]_vars PROVE TypeInv'
  OBVIOUS
<1>1. CASE UNCHANGED vars
  BY <1>1, DropTypeInv DEF vars, TypeInv, TypeOK
<1>2. ASSUME NEW c \in Clients, Register(c) PROVE TypeInv'
  BY <1>2, DropTypeInv DEF Register, TypeInv, TypeOK
<1>3. ASSUME NEW r \in Requests, RequestFails(r) PROVE TypeInv'
  BY <1>3, DropTypeInv DEF RequestFails, TypeInv, TypeOK
<1>4. ASSUME NEW t \in TenantIDs, DeleteTenant(t) PROVE TypeInv'
  <2>1. /\ rows' \in [Secrets -> Row \cup {Unused, Gone}]
        /\ \A s \in Secrets : rows'[s] \in {rows[s], Gone}
    BY <1>4 DEF DeleteTenant, EndSessions, TypeInv, TypeOK
  <2> QED
    BY <1>4, <2>1, DropTypeInv DEF DeleteTenant, TypeInv, TypeOK
<1>5. CASE Tick
  <2>1. now' \in 0..MaxTime
    BY <1>5, OAuthAssumption DEF OAuthAssumption, Tick, TypeInv, TypeOK
  <2> QED
    BY <1>5, <2>1, DropTypeInv DEF Tick, TypeInv, TypeOK
<1>6. CASE Crash
  <2>1. crashes' \in 0..MaxCrashes
    BY <1>6, OAuthAssumption DEF OAuthAssumption, Crash, TypeInv, TypeOK
  <2> QED
    BY <1>6, <2>1, DropTypeInv DEF Crash, TypeInv, TypeOK
<1> QED
  BY <1>1, <1>2, <1>3, <1>4, <1>5, <1>6, StartTypeInv, CallbackTypeInv, TokenRequestTypeInv,
     PurgeTypeInv DEF Next

LEMMA TypeInvariant == Spec => []TypeInv
  BY InitTypeInv, NextTypeInv, PTL DEF Spec

\* Every reachable state is well typed, and every code and every refresh token
\* is held by a registered client: clients are never removed (RegisterHandler,
\* and no statement of store.go deletes from oauth_clients).
THEOREM TypeCorrect == Spec => []TypeOK
<1>1. TypeInv => TypeOK
  BY DEF TypeInv
<1> QED
  BY <1>1, TypeInvariant, PTL

-----------------------------------------------------------------------------
(* The purge.  Its cutoff was read from a clock that never goes back.       *)

CutoffIsPast == purge.cutoff <= now

LEMMA CutoffInvariant == Spec => []CutoffIsPast
<1>1. Init => CutoffIsPast
  BY DEF Init, CutoffIsPast, NoPurge
<1>2. TypeInv /\ CutoffIsPast /\ [Next]_vars => CutoffIsPast'
  <2> SUFFICES ASSUME TypeInv, CutoffIsPast, [Next]_vars PROVE CutoffIsPast'
    OBVIOUS
  <2>1. /\ now' = now \/ (now' = now + 1 /\ purge' = purge)
        /\ purge' = purge \/ purge'.cutoff \in {now, 0, purge.cutoff}
    <3>1. CASE UNCHANGED vars
      BY <3>1 DEF vars
    <3>2. CASE Purge
      <4>1. purge \in [next : {"idle", "code", "state", "refresh"}, cutoff : 0..MaxTime]
        BY DEF TypeInv, TypeOK
      <4> QED
        BY <3>2, <4>1 DEF Purge, PurgeStart, PurgeFails, PurgeCodes, PurgeStates, PurgeRefresh,
           PurgeStatement, NoPurge
    <3>3. CASE Tick \/ Crash
      BY <3>3 DEF Tick, Crash
    <3>4. ASSUME NEW s \in Secrets, Start(s) PROVE UNCHANGED <<now, purge>>
      BY <3>4 DEF Start, Reconnect, Authorize
    <3>5. ASSUME NEW r \in Requests, Callback(r) \/ TokenRequest(r) \/ RequestFails(r)
          PROVE  UNCHANGED <<now, purge>>
      BY <3>5 DEF Callback, CallbackConsume, CallbackComplete, IssueAuthCode, TokenRequest,
         RedeemCode, RotateToken, IssueTokens, RequestFails
    <3> QED
      BY <3>1, <3>2, <3>3, <3>4, <3>5 DEF Next, Register, DeleteTenant
  <2>2. now \in Nat /\ purge.cutoff \in Nat
    BY OAuthAssumption DEF OAuthAssumption, TypeInv, TypeOK
  <2> QED
    BY <2>1, <2>2 DEF CutoffIsPast
<1> QED
  BY <1>1, <1>2, TypeInvariant, PTL DEF Spec

\* Only the purge itself and a restart move the purge.
LEMMA PurgeMoves ==
    ASSUME [Next]_vars, purge' # purge
    PROVE  PurgeStart \/ PurgeFails \/ Crash \/ PurgeCodes \/ PurgeStates \/ PurgeRefresh
<1>1. ASSUME NEW s \in Secrets, Start(s) PROVE FALSE
  BY <1>1 DEF Start, Reconnect, Authorize
<1>2. ASSUME NEW r \in Requests, Callback(r) \/ TokenRequest(r) \/ RequestFails(r)
      PROVE  FALSE
  BY <1>2 DEF Callback, CallbackConsume, CallbackComplete, IssueAuthCode, TokenRequest,
     RedeemCode, RotateToken, IssueTokens, RequestFails
<1> QED
  BY <1>1, <1>2 DEF Next, Purge, Register, DeleteTenant, Tick, vars

\* A step that moves the purge moves no clock, and its statement deletes only
\* what the clock has overtaken.
LEMMA PurgeStep ==
    ASSUME TypeInv, CutoffIsPast, [Next]_vars, purge' # purge
    PROVE  \A s \in Secrets : Usable(s) => Usable(s)'
<1>1. ASSUME NEW kind, NEW next, PurgeStatement(kind, next), NEW s \in Secrets, Usable(s)
      PROVE  rows'[s] = rows[s] /\ now' = now
  <2>1. rows[s].expires \in Nat /\ now \in Nat /\ purge.cutoff \in Nat
    BY <1>1, StoredIsRow, OAuthAssumption
       DEF OAuthAssumption, TypeInv, TypeOK, Usable, Row, Stored
  <2>2. ~PastCutoff(rows[s])
    BY <1>1, <2>1 DEF Usable, PastCutoff, CutoffIsPast
  <2> QED
    BY <1>1, <2>2 DEF PurgeStatement
<1>2. CASE PurgeStart \/ PurgeFails \/ Crash
  BY <1>2 DEF PurgeStart, PurgeFails, Crash, Usable
<1>3. CASE PurgeCodes \/ PurgeStates \/ PurgeRefresh
  BY <1>1, <1>3, Zenon DEF PurgeCodes, PurgeStates, PurgeRefresh, Usable
<1> QED
  BY <1>2, <1>3, PurgeMoves

\* The purge, at whatever statement and however old its cutoff, leaves every
\* usable row usable (PurgeExpired).
THEOREM PurgeIsSafe == Spec => PurgeTakesOnlyDead
<1>1. TypeInv /\ CutoffIsPast /\ [Next]_vars
        => [purge' # purge => \A s \in Secrets : Usable(s) => Usable(s)']_vars
  BY PurgeStep
<1> QED
  BY <1>1, TypeInvariant, CutoffInvariant, PTL DEF Spec, PurgeTakesOnlyDead

-----------------------------------------------------------------------------
(* Data deletion.                                                          *)

\* While a tenant counts as cleanly erased nobody holds anything of it, not
\* even a row that expired or was revoked: a request that held its id would
\* have made the deletion overlap, and a login that brings it back stores it.
NothingOfErased ==
    \A t \in TenantIDs : tenant[t] = "erased" =>
        /\ \A r \in Requests : request[r].tenant # t
        /\ \A s \in Secrets : rows[s].tenant # t

ErasureInv == TypeInv /\ NothingOfErased

LEMMA InitErasureInv == Init => ErasureInv
  BY InitTypeInv DEF Init, ErasureInv, NothingOfErased

LEMMA NextErasureInv == ErasureInv /\ [Next]_vars => ErasureInv'
<1> SUFFICES ASSUME ErasureInv, [Next]_vars PROVE NothingOfErased'
  BY NextTypeInv DEF ErasureInv
<1>0. /\ TypeInv /\ TypeOK /\ Gone.tenant = None /\ None \notin TenantIDs
      /\ Idle.tenant = None
  BY OAuthAssumption DEF OAuthAssumption, ErasureInv, TypeInv, Gone, NoRow, Idle, Working
<1>1. CASE UNCHANGED vars
  BY <1>1 DEF vars, ErasureInv, NothingOfErased
<1>2. ASSUME NEW c \in Clients, Register(c) PROVE NothingOfErased'
  BY <1>2 DEF Register, ErasureInv, NothingOfErased
<1>3. ASSUME NEW s \in Secrets, Start(s) PROVE NothingOfErased'
  BY <1>0, <1>3 DEF Start, Reconnect, Authorize, NewRow, ErasureInv, NothingOfErased, TypeOK
<1>4. ASSUME NEW r \in Requests, Callback(r) PROVE NothingOfErased'
  <2>1. ASSUME NEW s \in Secrets, CallbackConsume(r, s) PROVE NothingOfErased'
    BY <1>0, <2>1 DEF CallbackConsume, Consume, Working, ErasureInv, NothingOfErased, TypeOK
  <2>2. ASSUME NEW s \in Secrets, IssueAuthCode(r, s) PROVE NothingOfErased'
    BY <1>0, <2>2 DEF IssueAuthCode, NewRow, ErasureInv, NothingOfErased, TypeOK
  <2>3. ASSUME NEW t \in TenantIDs, CallbackComplete(r, t) PROVE NothingOfErased'
    BY <1>0, <2>3 DEF CallbackComplete, Working, ErasureInv, NothingOfErased, TypeOK
  <2> QED
    BY <1>4, <2>1, <2>2, <2>3 DEF Callback
<1>5. ASSUME NEW r \in Requests, TokenRequest(r) PROVE NothingOfErased'
  <2>1. ASSUME NEW s \in Secrets, NEW c \in Clients, NEW f \in Secrets, RedeemCode(r, s, c, f)
        PROVE  NothingOfErased'
    BY <1>0, <2>1 DEF RedeemCode, Consume, Working, ErasureInv, NothingOfErased, TypeOK
  <2>2. ASSUME NEW s \in Secrets, NEW c \in Clients, RotateToken(r, s, c) PROVE NothingOfErased'
    BY <1>0, <2>2, StoredIsRow
       DEF RotateToken, Rotate, Working, ErasureInv, NothingOfErased, TypeOK, Stored, Row
  <2>3. ASSUME NEW s \in Secrets, IssueTokens(r, s) PROVE NothingOfErased'
    BY <1>0, <2>3 DEF IssueTokens, NewRow, ErasureInv, NothingOfErased, TypeOK
  <2> QED
    BY <1>5, <2>1, <2>2, <2>3 DEF TokenRequest
<1>6. ASSUME NEW r \in Requests, RequestFails(r) PROVE NothingOfErased'
  BY <1>0, <1>6 DEF RequestFails, ErasureInv, NothingOfErased, TypeOK
<1>7. ASSUME NEW t \in TenantIDs, DeleteTenant(t) PROVE NothingOfErased'
  <2> SUFFICES ASSUME NEW u \in TenantIDs, tenant'[u] = "erased"
               PROVE  /\ \A r \in Requests : request'[r].tenant # u
                      /\ \A s \in Secrets : rows'[s].tenant # u
    BY DEF NothingOfErased
  <2>1. \A r \in Requests : request'[r].tenant # u
    BY <1>0, <1>7 DEF DeleteTenant, ErasureInv, NothingOfErased, TypeOK
  <2>2. ASSUME NEW s \in Secrets PROVE rows'[s].tenant # u
    <3>1. rows[s].tenant \in TenantIDs => rows[s].kind \in {"code", "refresh"}
      BY <1>0, StoredIsRow DEF TypeInv, KnownHolders, Row, Stored, Unused, Gone, NoRow
    <3> QED
      BY <1>0, <1>7, <3>1 DEF DeleteTenant, EndSessions, ErasureInv, NothingOfErased, TypeOK
  <2> QED
    BY <2>1, <2>2
<1>8. CASE Purge
  BY <1>0, <1>8 DEF Purge, PurgeStart, PurgeFails, PurgeCodes, PurgeStates, PurgeRefresh,
     PurgeStatement, ErasureInv, NothingOfErased
<1>9. CASE Tick \/ Crash
  BY <1>0, <1>9 DEF Tick, Crash, ErasureInv, NothingOfErased
<1> QED
  BY <1>1, <1>2, <1>3, <1>4, <1>5, <1>6, <1>7, <1>8, <1>9 DEF Next

\* After a data deletion that overlapped with nothing of the tenant, no code
\* and no refresh token of it is usable until it logs in again (DeleteTenant).
THEOREM CleanErasureEnds == Spec => []CleanErasureEndsSessions
<1>1. ErasureInv => CleanErasureEndsSessions
  BY StoredIsRow DEF ErasureInv, TypeInv, NothingOfErased, CleanErasureEndsSessions, Usable, Row,
     Stored
<1> QED
  BY <1>1, InitErasureInv, NextErasureInv, PTL DEF Spec

-----------------------------------------------------------------------------
(* One carrier per authorization request.                                  *)

\* The row of a flow's login state is there, or gone, once anything carries
\* the flow; a state carries its own flow; only refresh tokens are revoked.
RowsOfBegunFlows ==
    /\ \A s \in Secrets : rows[s].kind \in Stored => rows[rows[s].flow].kind \in {"state", "gone"}
    /\ \A r \in Requests : request[r] # Idle => rows[request[r].flow].kind \in {"state", "gone"}
    /\ \A s \in Secrets : rows[s].kind = "state" => rows[s].flow = s
    /\ \A s \in Secrets : rows[s].kind \in {"state", "code"} => ~rows[s].revoked

\* Of all the credentials that name a flow and the requests that consumed one,
\* one at most is good for anything.
OneCarrier ==
    /\ \A s, q \in Secrets : Usable(s) /\ Usable(q) /\ rows[s].flow = rows[q].flow => s = q
    /\ \A r, p \in Requests :
          request[r] # Idle /\ request[p] # Idle /\ request[r].flow = request[p].flow => r = p
    /\ \A s \in Secrets, r \in Requests :
          Usable(s) /\ request[r] # Idle => rows[s].flow # request[r].flow

GrantInv == TypeInv /\ RowsOfBegunFlows /\ OneCarrier

\* Every step moves the carriers in one of four ways.  They only leave; a
\* request takes a usable row over; a request issues a row for what it held; a
\* state begins a flow.
RowLeaves(s) ==
    \/ rows'[s] \in {rows[s], Gone}
    \/ rows[s].kind = "refresh" /\ rows'[s] = [rows[s] EXCEPT !.revoked = TRUE]
RequestLeaves(r) ==
    \/ request'[r] = Idle
    \/ /\ request[r] # Idle /\ request'[r].flow = request[r].flow
       /\ RequestPhase(r)' = RequestPhase(r)

Leave ==
    /\ now <= now'
    /\ \A s \in Secrets : RowLeaves(s)
    /\ \A r \in Requests : RequestLeaves(r)

Take(r, s) ==
    /\ now' = now
    /\ Usable(s) /\ ~Usable(s)' /\ RowLeaves(s)
    /\ \A q \in Secrets \ {s} : rows'[q] = rows[q]
    /\ request[r] = Idle /\ request'[r] # Idle /\ request'[r].flow = rows[s].flow
    /\ RequestPhase(r)' = RowPhase(s)
    /\ \A p \in Requests \ {r} : request'[p] = request[p]

Issue(r, s) ==
    /\ now' = now
    /\ request[r] # Idle /\ request'[r] = Idle
    /\ \A p \in Requests \ {r} : request'[p] = request[p]
    /\ rows[s] = Unused /\ Usable(s)' /\ rows'[s].kind \in {"code", "refresh"}
    /\ rows'[s].flow = request[r].flow
    /\ <<RequestPhase(r), RowPhase(s)'>> \in Grant!Line \cup {<<"session", "session">>}
    /\ \A q \in Secrets \ {s} : rows'[q] = rows[q]

BeginFlow(s) ==
    /\ now' = now /\ request' = request
    /\ rows[s] = Unused /\ Usable(s)' /\ rows'[s].kind = "state" /\ rows'[s].flow = s
    /\ \A q \in Secrets \ {s} : rows'[q] = rows[q]

LEMMA NewRowIsUsable ==
    ASSUME TypeInv, NEW s \in Secrets, NEW kind \in Stored, NEW flow, NEW client, NEW owner,
           NEW ttl \in Nat \ {0}, now' = now,
           rows' = [rows EXCEPT ![s] = NewRow(kind, flow, client, owner, ttl)]
    PROVE  /\ Usable(s)' /\ rows'[s].kind = kind /\ rows'[s].flow = flow
           /\ \A q \in Secrets \ {s} : rows'[q] = rows[q]
<1>1. now \in Nat /\ now < now + ttl
  BY OAuthAssumption DEF OAuthAssumption, TypeInv, TypeOK
<1> QED
  BY <1>1 DEF TypeInv, TypeOK, NewRow, Usable, Stored

LEMMA StartShape ==
    ASSUME TypeInv, NEW s \in Secrets, Start(s)
    PROVE  BeginFlow(s)
<1>1. "state" \in Stored /\ LoginStateTTL \in Nat \ {0}
  BY OAuthAssumption DEF OAuthAssumption, Stored
<1>2. CASE Reconnect(s)
  <2>1. /\ Usable(s)' /\ rows'[s].kind = "state" /\ rows'[s].flow = s
        /\ \A q \in Secrets \ {s} : rows'[q] = rows[q]
    BY <1>1, <1>2, NewRowIsUsable DEF Reconnect
  <2> QED
    BY <1>2, <2>1 DEF Reconnect, BeginFlow
<1>3. ASSUME NEW c \in Clients, Authorize(c, s) PROVE BeginFlow(s)
  <2>1. /\ Usable(s)' /\ rows'[s].kind = "state" /\ rows'[s].flow = s
        /\ \A q \in Secrets \ {s} : rows'[q] = rows[q]
    BY <1>1, <1>3, NewRowIsUsable DEF Authorize
  <2> QED
    BY <1>3, <2>1 DEF Authorize, BeginFlow
<1> QED
  BY <1>2, <1>3 DEF Start

\* Consuming a row, valid or not.
LEMMA ConsumeShape ==
    ASSUME TypeInv, RowsOfBegunFlows, NEW s \in Secrets, NEW kind \in {"state", "code"},
           Consume(kind, s), now' = now
    PROVE  /\ now < rows[s].expires <=> Usable(s)
           /\ ~Usable(s)' /\ RowLeaves(s)
           /\ \A q \in Secrets \ {s} : rows'[q] = rows[q]
           /\ \A q \in Secrets : RowLeaves(q)
<1>1. rows'[s] = Gone /\ Gone.kind = "gone"
  BY DEF Consume, TypeInv, TypeOK, Gone, NoRow
<1>2. ~Usable(s)'
  BY <1>1 DEF Usable
<1>3. now < rows[s].expires <=> Usable(s)
  BY DEF Consume, Usable, RowsOfBegunFlows
<1>4. \A q \in Secrets \ {s} : rows'[q] = rows[q]
  BY DEF Consume, TypeInv, TypeOK
<1> QED
  BY <1>1, <1>2, <1>3, <1>4 DEF RowLeaves

LEMMA SameRequestsLeave ==
    ASSUME TypeInv, request' = request
    PROVE  \A r \in Requests : RequestLeaves(r)
  BY DEF RequestLeaves, RequestPhase

LEMMA CallbackShape ==
    ASSUME TypeInv, RowsOfBegunFlows, NEW r \in Requests, Callback(r)
    PROVE  Leave \/ \E s \in Secrets : Take(r, s) \/ Issue(r, s)
<1>0. now \in Nat /\ AuthCodeTTL \in Nat \ {0} /\ "code" \in Stored
  BY OAuthAssumption DEF OAuthAssumption, TypeInv, TypeOK, Stored
<1>1. ASSUME NEW s \in Secrets, CallbackConsume(r, s) PROVE Leave \/ Take(r, s)
  <2> DEFINE held == Working("completing", rows[s].flow, rows[s].client, None)
  <2>1. held # Idle /\ held.flow = rows[s].flow /\ held.step = "completing"
    BY DEF Working, Idle
  <2> HIDE DEF held
  <2>2. request[r] = Idle /\ Consume("state", s) /\ now' = now /\ RowPhase(s) = "login"
    BY <1>1 DEF CallbackConsume, Consume, RowPhase
  <2>3. CASE now < rows[s].expires
    <3>1. request' = [request EXCEPT ![r] = held]
      BY <1>1, <2>3 DEF CallbackConsume, held
    <3>2. /\ request'[r] = held
          /\ \A p \in Requests \ {r} : request'[p] = request[p]
      BY <3>1 DEF TypeInv, TypeOK
    <3>3. RequestPhase(r)' = "login"
      BY <2>1, <3>2 DEF RequestPhase
    <3> QED
      BY <2>1, <2>2, <2>3, <3>2, <3>3, ConsumeShape DEF Take
  <2>4. CASE ~(now < rows[s].expires)
    <3>1. request' = request
      BY <1>1, <2>4 DEF CallbackConsume
    <3> QED
      BY <1>0, <2>2, <3>1, ConsumeShape, SameRequestsLeave DEF Leave
  <2> QED
    BY <2>3, <2>4
<1>2. ASSUME NEW s \in Secrets, IssueAuthCode(r, s) PROVE Issue(r, s)
  <2>1. /\ Usable(s)' /\ rows'[s].kind = "code" /\ rows'[s].flow = request[r].flow
        /\ \A q \in Secrets \ {s} : rows'[q] = rows[q]
    BY <1>0, <1>2, NewRowIsUsable DEF IssueAuthCode
  <2>2. RequestPhase(r) = "login" /\ RowPhase(s)' = "code"
    BY <1>2, <2>1 DEF IssueAuthCode, RequestPhase, RowPhase
  <2>3. /\ request[r] # Idle /\ request'[r] = Idle
        /\ \A p \in Requests \ {r} : request'[p] = request[p]
    BY <1>2, NoRowIsNoRow DEF IssueAuthCode, TypeInv, TypeOK
  <2>4. now' = now /\ rows[s] = Unused
    BY <1>2 DEF IssueAuthCode
  <2> QED
    BY <2>1, <2>2, <2>3, <2>4 DEF Issue, Grant!Line
<1>3. ASSUME NEW t \in TenantIDs, CallbackComplete(r, t) PROVE Leave
  <2>1. request[r] # Idle /\ RequestPhase(r) = "login"
    BY <1>3, NoRowIsNoRow DEF CallbackComplete, RequestPhase
  <2> DEFINE held == Working("completed", request[r].flow, request[r].client, t)
  <2>2. held.flow = request[r].flow /\ held.step = "completed"
    BY DEF Working
  <2> HIDE DEF held
  <2>3. /\ request'[r] \in {Idle, held}
        /\ \A p \in Requests \ {r} : request'[p] = request[p]
    BY <1>3 DEF CallbackComplete, TypeInv, TypeOK, held
  <2>4. request'[r] = held => RequestPhase(r)' = "login"
    BY <2>2 DEF RequestPhase
  <2>5. \A p \in Requests : RequestLeaves(p)
    BY <2>1, <2>2, <2>3, <2>4 DEF RequestLeaves, RequestPhase
  <2> QED
    BY <1>0, <1>3, <2>5 DEF CallbackComplete, Leave, RowLeaves
<1> QED
  BY <1>1, <1>2, <1>3 DEF Callback

LEMMA TokenRequestShape ==
    ASSUME TypeInv, RowsOfBegunFlows, NEW r \in Requests, TokenRequest(r)
    PROVE  Leave \/ \E s \in Secrets : Take(r, s) \/ Issue(r, s)
<1>0. now \in Nat /\ RefreshTokenTTL \in Nat \ {0} /\ "refresh" \in Stored
  BY OAuthAssumption DEF OAuthAssumption, TypeInv, TypeOK, Stored
<1>1. ASSUME NEW s \in Secrets, NEW c \in Clients, NEW f \in Secrets, RedeemCode(r, s, c, f)
      PROVE  Leave \/ Take(r, s)
  <2> DEFINE held == Working("redeemed", f, c, rows[s].tenant)
  <2>1. held # Idle /\ held.flow = f /\ held.step = "redeemed"
    BY DEF Working, Idle
  <2> HIDE DEF held
  <2>2. request[r] = Idle /\ Consume("code", s) /\ now' = now /\ RowPhase(s) = "code"
    BY <1>1 DEF RedeemCode, Consume, RowPhase
  <2>3. CASE now < rows[s].expires /\ c = rows[s].client /\ f = rows[s].flow
    <3>1. request' = [request EXCEPT ![r] = held]
      BY <1>1, <2>3 DEF RedeemCode, held
    <3>2. /\ request'[r] = held
          /\ \A p \in Requests \ {r} : request'[p] = request[p]
      BY <3>1 DEF TypeInv, TypeOK
    <3>3. RequestPhase(r)' = "code"
      BY <2>1, <3>2 DEF RequestPhase
    <3> QED
      BY <2>1, <2>2, <2>3, <3>2, <3>3, ConsumeShape DEF Take
  <2>4. CASE ~(now < rows[s].expires /\ c = rows[s].client /\ f = rows[s].flow)
    <3>1. request' = request
      BY <1>1, <2>4 DEF RedeemCode
    <3> QED
      BY <1>0, <2>2, <3>1, ConsumeShape, SameRequestsLeave DEF Leave
  <2> QED
    BY <2>3, <2>4
<1>2. ASSUME NEW s \in Secrets, NEW c \in Clients, RotateToken(r, s, c)
      PROVE  Leave \/ Take(r, s)
  <2> DEFINE held == Working("rotated", rows[s].flow, c, rows[s].tenant)
  <2>1. held # Idle /\ held.flow = rows[s].flow /\ held.step = "rotated"
    BY DEF Working, Idle
  <2> HIDE DEF held
  <2>2. /\ request[r] = Idle /\ now' = now /\ Usable(s) /\ RowPhase(s) = "session"
        /\ rows[s].kind = "refresh"
        /\ rows' = [rows EXCEPT ![s] = [rows[s] EXCEPT !.revoked = TRUE]]
    BY <1>2 DEF RotateToken, Rotate, RowPhase, Usable
  <2>3. /\ rows'[s] = [rows[s] EXCEPT !.revoked = TRUE]
        /\ \A q \in Secrets \ {s} : rows'[q] = rows[q]
    BY <2>2 DEF TypeInv, TypeOK
  <2>4. rows[s] \in Row
    BY <2>2, StoredIsRow DEF TypeInv, Stored
  <2>5. rows'[s].revoked
    BY <2>3, <2>4 DEF Row
  <2>6. ~Usable(s)' /\ \A q \in Secrets : RowLeaves(q)
    BY <2>2, <2>3, <2>5 DEF Usable, RowLeaves
  <2>7. CASE c = rows[s].client
    <3>1. request' = [request EXCEPT ![r] = held]
      BY <1>2, <2>7 DEF RotateToken, held
    <3>2. /\ request'[r] = held
          /\ \A p \in Requests \ {r} : request'[p] = request[p]
      BY <3>1 DEF TypeInv, TypeOK
    <3>3. RequestPhase(r)' = "session"
      BY <2>1, <3>2 DEF RequestPhase
    <3> QED
      BY <2>1, <2>2, <2>3, <2>6, <3>2, <3>3 DEF Take
  <2>8. CASE c # rows[s].client
    <3>1. request' = request
      BY <1>2, <2>8 DEF RotateToken
    <3> QED
      BY <1>0, <2>2, <2>6, <3>1, SameRequestsLeave DEF Leave
  <2> QED
    BY <2>7, <2>8
<1>3. ASSUME NEW s \in Secrets, IssueTokens(r, s) PROVE Issue(r, s)
  <2>1. /\ Usable(s)' /\ rows'[s].kind = "refresh" /\ rows'[s].flow = request[r].flow
        /\ \A q \in Secrets \ {s} : rows'[q] = rows[q]
    BY <1>0, <1>3, NewRowIsUsable DEF IssueTokens
  <2>2. RequestPhase(r) \in {"code", "session"} /\ RowPhase(s)' = "session"
    BY <1>3, <2>1 DEF IssueTokens, RequestPhase, RowPhase
  <2>3. /\ request[r] # Idle /\ request'[r] = Idle
        /\ \A p \in Requests \ {r} : request'[p] = request[p]
    BY <1>3, NoRowIsNoRow DEF IssueTokens, TypeInv, TypeOK
  <2>4. now' = now /\ rows[s] = Unused
    BY <1>3 DEF IssueTokens
  <2> QED
    BY <2>1, <2>2, <2>3, <2>4 DEF Issue, Grant!Line
<1> QED
  BY <1>1, <1>2, <1>3 DEF TokenRequest

LEMMA StepShapes ==
    ASSUME TypeInv, RowsOfBegunFlows, [Next]_vars
    PROVE  \/ Leave
           \/ \E r \in Requests, s \in Secrets : Take(r, s) \/ Issue(r, s)
           \/ \E s \in Secrets : BeginFlow(s)
<1>0. now \in Nat /\ now <= now /\ now <= now + 1
  BY OAuthAssumption DEF OAuthAssumption, TypeInv, TypeOK
<1>1. CASE UNCHANGED vars
  BY <1>0, <1>1, SameRequestsLeave DEF vars, Leave, RowLeaves
<1>2. ASSUME NEW c \in Clients, Register(c) PROVE Leave
  BY <1>0, <1>2, SameRequestsLeave DEF Register, Leave, RowLeaves
<1>3. ASSUME NEW r \in Requests, RequestFails(r) PROVE Leave
  <2>1. \A p \in Requests : request'[p] \in {request[p], Idle}
    BY <1>3 DEF RequestFails, TypeInv, TypeOK
  <2>2. \A p \in Requests : RequestLeaves(p)
    BY <2>1 DEF RequestLeaves, RequestPhase
  <2> QED
    BY <1>0, <1>3, <2>2 DEF RequestFails, Leave, RowLeaves
<1>4. ASSUME NEW t \in TenantIDs, DeleteTenant(t) PROVE Leave
  BY <1>0, <1>4, SameRequestsLeave DEF DeleteTenant, EndSessions, Leave, RowLeaves
<1>5. CASE Purge
  BY <1>0, <1>5, SameRequestsLeave DEF Purge, PurgeStart, PurgeFails, PurgeCodes, PurgeStates,
     PurgeRefresh, PurgeStatement, Leave, RowLeaves
<1>6. CASE Tick
  BY <1>0, <1>6, SameRequestsLeave DEF Tick, Leave, RowLeaves
<1>7. CASE Crash
  BY <1>0, <1>7 DEF Crash, Leave, RowLeaves, RequestLeaves
<1> QED
  BY <1>1, <1>2, <1>3, <1>4, <1>5, <1>6, <1>7, StartShape, CallbackShape, TokenRequestShape
     DEF Next

LEMMA RowStays ==
    ASSUME TypeInv, now \in Nat, now' \in Nat, now <= now', NEW s \in Secrets, RowLeaves(s)
    PROVE  /\ rows'[s].kind \in {rows[s].kind, "gone"}
           /\ rows'[s].kind \in Stored => rows'[s].flow = rows[s].flow /\ rows[s].kind \in Stored
           /\ rows'[s].kind \in {"state", "code"} => rows'[s].revoked = rows[s].revoked
           /\ Usable(s)' => Usable(s) /\ RowPhase(s)' = RowPhase(s)
<1>1. CASE rows'[s] = rows[s]
  <2>1. Usable(s)' => Usable(s)
    <3>1. rows[s].kind \in Stored => rows[s].expires \in Nat
      BY StoredIsRow DEF TypeInv, Row
    <3> QED
      BY <1>1, <3>1 DEF Usable, Stored
  <2> QED
    BY <1>1, <2>1 DEF RowPhase, Usable, Stored
<1>2. CASE rows'[s] = Gone
  BY <1>2, NoRowIsNoRow DEF Gone, Stored, Usable
<1>3. CASE rows[s].kind = "refresh" /\ rows'[s] = [rows[s] EXCEPT !.revoked = TRUE]
  <2>1. rows[s] \in Row
    BY <1>3, StoredIsRow DEF TypeInv, Stored
  <2>2. /\ rows'[s].kind = "refresh" /\ rows'[s].flow = rows[s].flow /\ rows'[s].revoked
    BY <1>3, <2>1 DEF Row
  <2> QED
    BY <1>3, <2>2 DEF Usable, Stored
<1> QED
  BY <1>1, <1>2, <1>3 DEF RowLeaves

LEMMA InitGrantInv == Init => GrantInv
<1> SUFFICES ASSUME Init PROVE RowsOfBegunFlows /\ OneCarrier
  BY InitTypeInv DEF GrantInv
<1>1. \A s \in Secrets : rows[s].kind = "unused" /\ ~Usable(s)
  BY NoRowIsNoRow DEF Init, Unused, NoRow, Usable
<1>2. \A r \in Requests : request[r] = Idle
  BY DEF Init
<1> QED
  BY <1>1, <1>2 DEF RowsOfBegunFlows, OneCarrier, Stored

LEMMA ClockIsNat ==
    ASSUME TypeInv, TypeInv'
    PROVE  now \in Nat /\ now' \in Nat
  BY OAuthAssumption DEF OAuthAssumption, TypeInv, TypeOK

LEMMA LeaveGrantInv ==
    ASSUME GrantInv, TypeInv', Leave
    PROVE  RowsOfBegunFlows' /\ OneCarrier'
<1>0. now \in Nat /\ now' \in Nat /\ TypeInv /\ RowsOfBegunFlows /\ OneCarrier
  BY ClockIsNat DEF GrantInv
<1>1. \A s \in Secrets :
         /\ rows'[s].kind \in {rows[s].kind, "gone"}
         /\ rows'[s].kind \in Stored => rows'[s].flow = rows[s].flow /\ rows[s].kind \in Stored
         /\ rows'[s].kind \in {"state", "code"} => rows'[s].revoked = rows[s].revoked
         /\ Usable(s)' => Usable(s) /\ rows'[s].flow = rows[s].flow
  BY <1>0, RowStays DEF Leave, Usable, Stored
<1>2. \A r \in Requests : request'[r] # Idle =>
         request[r] # Idle /\ request'[r].flow = request[r].flow
  BY DEF Leave, RequestLeaves
<1>3. /\ \A s \in Secrets : rows[s].kind \in Stored => rows[s].flow \in Secrets
      /\ \A r \in Requests : request[r] # Idle => request[r].flow \in Secrets
  BY <1>0, StoredIsRow, WorkingIsRequest DEF TypeInv, Row, Request
<1>4. RowsOfBegunFlows'
  <2>1. \A f \in Secrets : rows[f].kind \in {"state", "gone"} => rows'[f].kind \in {"state", "gone"}
    BY <1>1
  <2> QED
    BY <1>0, <1>1, <1>2, <1>3, <2>1 DEF RowsOfBegunFlows, Stored
<1>5. OneCarrier'
  BY <1>0, <1>1, <1>2 DEF OneCarrier
<1> QED
  BY <1>4, <1>5

LEMMA OtherRows ==
    ASSUME NEW q \in Secrets, rows'[q] = rows[q], now' = now
    PROVE  (Usable(q)' <=> Usable(q)) /\ RowPhase(q)' = RowPhase(q)
  BY DEF Usable, RowPhase

LEMMA TakeGrantInv ==
    ASSUME GrantInv, TypeInv', NEW r \in Requests, NEW s \in Secrets, Take(r, s)
    PROVE  RowsOfBegunFlows' /\ OneCarrier'
<1>0. now \in Nat /\ now' \in Nat /\ TypeInv /\ RowsOfBegunFlows /\ OneCarrier
  BY ClockIsNat DEF GrantInv
<1>1. /\ rows'[s].kind \in {rows[s].kind, "gone"}
      /\ rows'[s].kind \in Stored => rows'[s].flow = rows[s].flow /\ rows[s].kind \in Stored
      /\ rows'[s].kind \in {"state", "code"} => rows'[s].revoked = rows[s].revoked
  BY <1>0, RowStays DEF Take
<1>2. /\ Usable(s) /\ ~Usable(s)' /\ rows[s].kind \in Stored
      /\ \A q \in Secrets \ {s} : rows'[q] = rows[q] /\ (Usable(q)' <=> Usable(q))
  BY OtherRows DEF Take, Usable, Stored
<1>3. /\ request[r] = Idle /\ request'[r] # Idle /\ request'[r].flow = rows[s].flow
      /\ \A p \in Requests \ {r} : request'[p] = request[p]
  BY DEF Take
<1>4. /\ \A q \in Secrets : rows[q].kind \in Stored => rows[q].flow \in Secrets
      /\ \A p \in Requests : request[p] # Idle => request[p].flow \in Secrets
  BY <1>0, StoredIsRow, WorkingIsRequest DEF TypeInv, Row, Request
<1>5. RowsOfBegunFlows'
  <2>1. \A f \in Secrets : rows[f].kind \in {"state", "gone"} => rows'[f].kind \in {"state", "gone"}
    BY <1>1, <1>2
  <2> QED
    BY <1>0, <1>1, <1>2, <1>3, <1>4, <2>1 DEF RowsOfBegunFlows, Stored
<1>6. OneCarrier'
  BY <1>0, <1>2, <1>3 DEF OneCarrier
<1> QED
  BY <1>5, <1>6

LEMMA IssueGrantInv ==
    ASSUME GrantInv, TypeInv', NEW r \in Requests, NEW s \in Secrets, Issue(r, s)
    PROVE  RowsOfBegunFlows' /\ OneCarrier'
<1>0. TypeInv /\ RowsOfBegunFlows /\ OneCarrier /\ rows[s].kind = "unused" /\ ~Usable(s)
  BY NoRowIsNoRow DEF GrantInv, Issue, Unused, Usable
<1>1. /\ Usable(s)' /\ rows'[s].kind \in {"code", "refresh"} /\ ~rows'[s].revoked
      /\ rows'[s].flow = request[r].flow
  BY DEF Issue, Usable
<1>2. \A q \in Secrets \ {s} : rows'[q] = rows[q] /\ (Usable(q)' <=> Usable(q))
  BY OtherRows DEF Issue
<1>3. /\ request[r] # Idle /\ request'[r] = Idle
      /\ \A p \in Requests \ {r} : request'[p] = request[p]
  BY DEF Issue
<1>4. /\ \A q \in Secrets : rows[q].kind \in Stored => rows[q].flow \in Secrets
      /\ \A p \in Requests : request[p] # Idle => request[p].flow \in Secrets
  BY <1>0, StoredIsRow, WorkingIsRequest DEF TypeInv, Row, Request
<1>5. RowsOfBegunFlows'
  <2>1. \A f \in Secrets : rows[f].kind \in {"state", "gone"} => rows'[f].kind \in {"state", "gone"}
    BY <1>0, <1>2
  <2> QED
    BY <1>0, <1>1, <1>2, <1>3, <1>4, <2>1 DEF RowsOfBegunFlows, Stored
<1>6. OneCarrier'
  BY <1>0, <1>1, <1>2, <1>3 DEF OneCarrier
<1> QED
  BY <1>5, <1>6

LEMMA BeginGrantInv ==
    ASSUME GrantInv, TypeInv', NEW s \in Secrets, BeginFlow(s)
    PROVE  RowsOfBegunFlows' /\ OneCarrier'
<1>0. TypeInv /\ RowsOfBegunFlows /\ OneCarrier /\ rows[s].kind = "unused" /\ ~Usable(s)
  BY NoRowIsNoRow DEF GrantInv, BeginFlow, Unused, Usable
<1>1. /\ Usable(s)' /\ rows'[s].kind = "state" /\ ~rows'[s].revoked /\ rows'[s].flow = s
      /\ request' = request
  BY DEF BeginFlow, Usable
<1>2. \A q \in Secrets \ {s} : rows'[q] = rows[q] /\ (Usable(q)' <=> Usable(q))
  BY OtherRows DEF BeginFlow
<1>3. /\ \A q \in Secrets : rows[q].kind \in Stored => rows[q].flow \in Secrets \ {s}
      /\ \A q \in Secrets : Usable(q) => rows[q].kind \in Stored
      /\ \A p \in Requests : request[p] # Idle => request[p].flow \in Secrets \ {s}
  BY <1>0, StoredIsRow, WorkingIsRequest DEF TypeInv, Row, Request, RowsOfBegunFlows, Usable, Stored
<1>4. RowsOfBegunFlows'
  <2>1. \A f \in Secrets : rows[f].kind \in {"state", "gone"} => rows'[f].kind \in {"state", "gone"}
    BY <1>0, <1>2
  <2> QED
    BY <1>0, <1>1, <1>2, <1>3, <2>1 DEF RowsOfBegunFlows, Stored
<1>5. OneCarrier'
  BY <1>0, <1>1, <1>2, <1>3 DEF OneCarrier
<1> QED
  BY <1>4, <1>5

LEMMA NextGrantInv == GrantInv /\ [Next]_vars => GrantInv'
<1> SUFFICES ASSUME GrantInv, [Next]_vars PROVE GrantInv'
  OBVIOUS
<1>1. TypeInv'
  BY NextTypeInv DEF GrantInv
<1> QED
  BY <1>1, StepShapes, LeaveGrantInv, TakeGrantInv, IssueGrantInv, BeginGrantInv DEF GrantInv

-----------------------------------------------------------------------------
(* Refinement.  With one carrier at most, a flow is in the phase of its    *)
(* carrier, or of its own row when nothing carries it.                     *)

Uncarried(f) ==
    /\ \A s \in Secrets : Usable(s) => rows[s].flow # f
    /\ \A r \in Requests : request[r] # Idle => request[r].flow # f

Phases == \A f \in Secrets :
    /\ \A s \in Secrets : Usable(s) /\ rows[s].flow = f => PhaseOf(f) = RowPhase(s)
    /\ \A r \in Requests : request[r] # Idle /\ request[r].flow = f => PhaseOf(f) = RequestPhase(r)
    /\ Uncarried(f) => PhaseOf(f) = IF rows[f].kind \in {"unused", "code", "refresh"}
                                    THEN "none" ELSE "over"

LEMMA PhasesHold == GrantInv => Phases
<1> SUFFICES ASSUME GrantInv, NEW f \in Secrets
             PROVE  /\ \A s \in Secrets : Usable(s) /\ rows[s].flow = f => PhaseOf(f) = RowPhase(s)
                    /\ \A r \in Requests :
                          request[r] # Idle /\ request[r].flow = f => PhaseOf(f) = RequestPhase(r)
                    /\ Uncarried(f) => PhaseOf(f) = IF rows[f].kind \in {"unused", "code", "refresh"}
                                                    THEN "none" ELSE "over"
  BY DEF Phases
<1>0. /\ Cardinality({}) = 0
      /\ \A x : Cardinality({x}) = 1
  BY FS_EmptySet, FS_Singleton
<1>1. RequestsOf(f) = {r \in Requests : request[r] # Idle /\ request[r].flow = f}
  BY OAuthAssumption DEF OAuthAssumption, RequestsOf, Idle, Working
<1>2. ASSUME NEW s \in Secrets, Usable(s), rows[s].flow = f PROVE PhaseOf(f) = RowPhase(s)
  <2>1. RowsOf(f) = {s}
    BY <1>2 DEF RowsOf, GrantInv, OneCarrier
  <2>2. RequestsOf(f) = {}
    BY <1>1, <1>2 DEF GrantInv, OneCarrier
  <2>3. {RowPhase(q) : q \in RowsOf(f)} \cup {RequestPhase(r) : r \in RequestsOf(f)} = {RowPhase(s)}
    BY <2>1, <2>2
  <2>4. Cardinality(RowsOf(f)) = 1 /\ Cardinality(RequestsOf(f)) = 0
    BY <1>0, <2>1, <2>2
  <2>5. Cardinality(RowsOf(f)) + Cardinality(RequestsOf(f)) = 1
    BY <2>4
  <2> QED
    BY <2>3, <2>5 DEF PhaseOf
<1>3. ASSUME NEW r \in Requests, request[r] # Idle, request[r].flow = f
      PROVE  PhaseOf(f) = RequestPhase(r)
  <2>1. RowsOf(f) = {}
    BY <1>3 DEF RowsOf, GrantInv, OneCarrier
  <2>2. RequestsOf(f) = {r}
    BY <1>1, <1>3 DEF GrantInv, OneCarrier
  <2>3. {RowPhase(q) : q \in RowsOf(f)} \cup {RequestPhase(p) : p \in RequestsOf(f)}
           = {RequestPhase(r)}
    BY <2>1, <2>2
  <2>4. Cardinality(RowsOf(f)) = 0 /\ Cardinality(RequestsOf(f)) = 1
    BY <1>0, <2>1, <2>2
  <2>5. Cardinality(RowsOf(f)) + Cardinality(RequestsOf(f)) = 1
    BY <2>4
  <2> QED
    BY <2>3, <2>5 DEF PhaseOf
<1>4. ASSUME Uncarried(f)
      PROVE  PhaseOf(f) = IF rows[f].kind \in {"unused", "code", "refresh"} THEN "none" ELSE "over"
  <2>1. RowsOf(f) = {} /\ RequestsOf(f) = {}
    BY <1>1, <1>4 DEF RowsOf, Uncarried
  <2>2. Cardinality(RowsOf(f)) + Cardinality(RequestsOf(f)) = 0
    BY <1>0, <2>1
  <2> QED
    BY <2>2 DEF PhaseOf
<1> QED
  BY <1>2, <1>3, <1>4

LEMMA PhasesHoldNext == GrantInv' => Phases'
  BY PhasesHold, PTL

\* What the registry of grants reads off the state, flow by flow.
GrantBar == [f \in Secrets |-> PhaseOf(f)]

LEMMA EndsOrStays ==
    ASSUME \A f \in Secrets : PhaseOf(f)' \in {PhaseOf(f), "over"}
    PROVE  Grant!GrantNext
<1>1. /\ \A f \in Secrets : GrantBar'[f] \in {GrantBar[f], "over"}
      /\ GrantBar' = [f \in Secrets |-> GrantBar'[f]]
  BY DEF GrantBar
<1> QED
  BY <1>1 DEF Grant!GrantNext, Grant!End, GrantBar

LEMMA LeaveRefines ==
    ASSUME GrantInv, GrantInv', Leave, NEW f \in Secrets
    PROVE  PhaseOf(f)' \in {PhaseOf(f), "over"}
<1>0. Phases /\ Phases' /\ TypeInv /\ TypeInv'
  BY PhasesHold, PhasesHoldNext DEF GrantInv
<1>1. now \in Nat /\ now' \in Nat
  BY <1>0, ClockIsNat
<1>2. \A s \in Secrets :
         /\ rows'[s].kind \in {rows[s].kind, "gone"}
         /\ Usable(s)' => Usable(s) /\ RowPhase(s)' = RowPhase(s) /\ rows'[s].flow = rows[s].flow
  BY <1>0, <1>1, RowStays DEF Leave, Usable, Stored
<1>3. \A r \in Requests : request'[r] # Idle =>
         /\ request[r] # Idle /\ request'[r].flow = request[r].flow
         /\ RequestPhase(r)' = RequestPhase(r)
  BY DEF Leave, RequestLeaves
<1>4. ASSUME NEW s \in Secrets, Usable(s)', rows'[s].flow = f PROVE PhaseOf(f)' = PhaseOf(f)
  BY <1>0, <1>2, <1>4 DEF Phases
<1>5. ASSUME NEW r \in Requests, request'[r] # Idle, request'[r].flow = f
      PROVE  PhaseOf(f)' = PhaseOf(f)
  BY <1>0, <1>3, <1>5 DEF Phases
<1>6. ASSUME Uncarried(f)' PROVE PhaseOf(f)' \in {PhaseOf(f), "over"}
  <2>1. PhaseOf(f)' = IF rows'[f].kind \in {"unused", "code", "refresh"} THEN "none" ELSE "over"
    BY <1>0, <1>6 DEF Phases
  <2>2. CASE rows[f].kind \in {"state", "gone"}
    BY <1>2, <2>1, <2>2
  <2>3. CASE rows[f].kind \notin {"state", "gone"}
    <3>1. Uncarried(f)
      BY <2>3 DEF GrantInv, RowsOfBegunFlows, Uncarried, Usable, Stored
    <3>2. rows[f].kind \in {"unused", "code", "refresh"}
      BY <1>0, <2>3, StoredIsRow DEF TypeInv, Stored
    <3>3. PhaseOf(f) = "none"
      BY <1>0, <3>1, <3>2 DEF Phases
    <3> QED
      BY <2>1, <3>3
  <2> QED
    BY <2>2, <2>3
<1> QED
  BY <1>4, <1>5, <1>6 DEF Uncarried

LEMMA TakeRefines ==
    ASSUME GrantInv, GrantInv', NEW r \in Requests, NEW s \in Secrets, Take(r, s),
           NEW f \in Secrets
    PROVE  PhaseOf(f)' \in {PhaseOf(f), "over"}
<1>0. Phases /\ Phases' /\ TypeInv /\ TypeInv' /\ now \in Nat /\ now' \in Nat
  BY PhasesHold, PhasesHoldNext, ClockIsNat DEF GrantInv
<1>1. /\ Usable(s) /\ ~Usable(s)' /\ rows'[s].kind \in {rows[s].kind, "gone"}
      /\ \A q \in Secrets \ {s} : /\ rows'[q] = rows[q]
                                  /\ (Usable(q)' <=> Usable(q)) /\ RowPhase(q)' = RowPhase(q)
  BY <1>0, RowStays, OtherRows DEF Take
<1>2. /\ request[r] = Idle /\ request'[r] # Idle /\ request'[r].flow = rows[s].flow
      /\ RequestPhase(r)' = RowPhase(s)
      /\ \A p \in Requests \ {r} : request'[p] = request[p] /\ RequestPhase(p)' = RequestPhase(p)
  BY DEF Take, RequestPhase
<1>3. CASE f = rows[s].flow
  BY <1>0, <1>1, <1>2, <1>3 DEF Phases
<1>4. CASE f # rows[s].flow /\ \E q \in Secrets : Usable(q) /\ rows[q].flow = f
  BY <1>0, <1>1, <1>4 DEF Phases
<1>5. CASE f # rows[s].flow /\ \E p \in Requests : request[p] # Idle /\ request[p].flow = f
  BY <1>0, <1>2, <1>5 DEF Phases
<1>6. CASE f # rows[s].flow /\ Uncarried(f)
  <2>1. Uncarried(f)'
    BY <1>1, <1>2, <1>6 DEF Uncarried
  <2>2. rows'[f].kind \in {rows[f].kind, "gone"}
    BY <1>1
  <2> QED
    BY <1>0, <1>6, <2>1, <2>2 DEF Phases
<1> QED
  BY <1>3, <1>4, <1>5, <1>6 DEF Uncarried

LEMMA IssueRefines ==
    ASSUME GrantInv, GrantInv', NEW r \in Requests, NEW s \in Secrets, Issue(r, s)
    PROVE  Grant!GrantNext \/ GrantBar' = GrantBar
<1>0. Phases /\ Phases' /\ TypeInv /\ TypeInv'
  BY PhasesHold, PhasesHoldNext DEF GrantInv
<1> PICK flow \in Secrets : flow = request[r].flow
  BY <1>0, WorkingIsRequest DEF Issue, TypeInv, Request
<1>1. /\ Usable(s)' /\ ~Usable(s) /\ rows'[s].flow = flow
      /\ rows[s].kind = "unused" /\ rows'[s].kind \in {"code", "refresh"}
      /\ \A q \in Secrets \ {s} : /\ rows'[q] = rows[q]
                                  /\ (Usable(q)' <=> Usable(q)) /\ RowPhase(q)' = RowPhase(q)
  BY NoRowIsNoRow, OtherRows DEF Issue, Unused, Usable
<1>2. /\ request[r] # Idle /\ request'[r] = Idle
      /\ <<RequestPhase(r), RowPhase(s)'>> \in Grant!Line \cup {<<"session", "session">>}
      /\ \A p \in Requests \ {r} : request'[p] = request[p] /\ RequestPhase(p)' = RequestPhase(p)
  BY DEF Issue, RequestPhase
<1>3. PhaseOf(flow) = RequestPhase(r) /\ PhaseOf(flow)' = RowPhase(s)'
  BY <1>0, <1>1, <1>2 DEF Phases
<1>4. ASSUME NEW f \in Secrets, f # flow PROVE PhaseOf(f)' = PhaseOf(f)
  <2>1. CASE \E q \in Secrets : Usable(q) /\ rows[q].flow = f
    BY <1>0, <1>1, <2>1 DEF Phases
  <2>2. CASE \E p \in Requests : request[p] # Idle /\ request[p].flow = f
    BY <1>0, <1>2, <1>4, <2>2 DEF Phases
  <2>3. CASE Uncarried(f)
    <3>1. Uncarried(f)'
      BY <1>1, <1>2, <1>4, <2>3 DEF Uncarried
    <3>2. rows[f].kind \in {"unused", "code", "refresh"}
             <=> rows'[f].kind \in {"unused", "code", "refresh"}
      BY <1>1
    <3> QED
      BY <1>0, <2>3, <3>1, <3>2 DEF Phases
  <2> QED
    BY <2>1, <2>2, <2>3 DEF Uncarried
<1>5. /\ GrantBar[flow] = RequestPhase(r)
      /\ GrantBar' = [GrantBar EXCEPT ![flow] = RowPhase(s)']
  BY <1>2, <1>3, <1>4 DEF GrantBar
<1>6. CASE <<RequestPhase(r), RowPhase(s)'>> = <<"session", "session">>
  BY <1>5, <1>6, <1>2 DEF GrantBar
<1>7. CASE <<RequestPhase(r), RowPhase(s)'>> \in Grant!Line
  <2>1. RowPhase(s)' \in {"code", "session"}
    BY <1>7 DEF Grant!Line
  <2>2. Grant!Advance(flow)
    BY <1>5, <1>7, <2>1 DEF Grant!Advance, GrantBar
  <2> QED
    BY <1>2, <2>2 DEF Grant!GrantNext
<1> QED
  BY <1>2, <1>6, <1>7

LEMMA BeginRefines ==
    ASSUME GrantInv, GrantInv', NEW s \in Secrets, BeginFlow(s)
    PROVE  Grant!GrantNext
<1>0. Phases /\ Phases' /\ TypeInv /\ TypeInv' /\ RowsOfBegunFlows
  BY PhasesHold, PhasesHoldNext DEF GrantInv
<1>1. /\ Usable(s)' /\ ~Usable(s) /\ rows'[s].flow = s
      /\ rows[s].kind = "unused" /\ rows'[s].kind = "state"
      /\ \A q \in Secrets \ {s} : /\ rows'[q] = rows[q]
                                  /\ (Usable(q)' <=> Usable(q)) /\ RowPhase(q)' = RowPhase(q)
  BY NoRowIsNoRow, OtherRows DEF BeginFlow, Unused, Usable
<1>2. request' = request /\ \A p \in Requests : RequestPhase(p)' = RequestPhase(p)
  BY DEF BeginFlow, RequestPhase
<1>3. Uncarried(s)
  BY <1>0, <1>1 DEF RowsOfBegunFlows, Uncarried, Usable, Stored
<1>4. PhaseOf(s) = "none" /\ PhaseOf(s)' = "login"
  <2>1. RowPhase(s)' = "login"
    BY <1>1 DEF RowPhase
  <2> QED
    BY <1>0, <1>1, <1>3, <2>1 DEF Phases
<1>5. ASSUME NEW f \in Secrets, f # s PROVE PhaseOf(f)' = PhaseOf(f)
  <2>1. CASE \E q \in Secrets : Usable(q) /\ rows[q].flow = f
    BY <1>0, <1>1, <2>1 DEF Phases
  <2>2. CASE \E p \in Requests : request[p] # Idle /\ request[p].flow = f
    BY <1>0, <1>2, <2>2 DEF Phases
  <2>3. CASE Uncarried(f)
    <3>1. Uncarried(f)'
      BY <1>1, <1>2, <1>5, <2>3 DEF Uncarried
    <3> QED
      BY <1>0, <1>1, <1>5, <2>3, <3>1 DEF Phases
  <2> QED
    BY <2>1, <2>2, <2>3 DEF Uncarried
<1>6. GrantBar[s] = "none" /\ GrantBar' = [GrantBar EXCEPT ![s] = "login"]
  BY <1>4, <1>5 DEF GrantBar
<1>7. Grant!Begin(s)
  BY <1>6 DEF Grant!Begin, GrantBar
<1> QED
  BY <1>7 DEF Grant!GrantNext

LEMMA GrantStep ==
    ASSUME GrantInv, GrantInv', [Next]_vars
    PROVE  Grant!GrantNext \/ GrantBar' = GrantBar
<1>1. CASE Leave
  BY <1>1, LeaveRefines, EndsOrStays
<1>2. ASSUME NEW r \in Requests, NEW s \in Secrets, Take(r, s) PROVE Grant!GrantNext
  BY <1>2, TakeRefines, EndsOrStays
<1> QED
  BY <1>1, <1>2, StepShapes, IssueRefines, BeginRefines DEF GrantInv

LEMMA GrantStart ==
    ASSUME Init
    PROVE  Grant!GrantInit
<1>1. GrantInv /\ Phases
  BY InitGrantInv, PhasesHold
<1>2. \A s \in Secrets : rows[s].kind = "unused" /\ ~Usable(s)
  BY NoRowIsNoRow DEF Init, Unused, NoRow, Usable
<1>3. \A f \in Secrets : Uncarried(f)
  BY <1>2 DEF Init, Uncarried
<1>4. \A f \in Secrets : PhaseOf(f) = "none"
  BY <1>1, <1>2, <1>3 DEF Phases
<1> QED
  BY <1>4 DEF Grant!GrantInit

\* An authorization request is carried by one login state, code, refresh token
\* or request at a time, moves forward only and never comes back, whatever is
\* replayed, raced, lost or restarted (ConsumeLoginState, ConsumeAuthCode,
\* RotateRefreshToken).
THEOREM Refinement == Spec => ImplementsGrant
<1>1. GrantInv /\ GrantInv' /\ [Next]_vars
        => [Grant!GrantNext]_[f \in Secrets |-> PhaseOf(f)]
  BY GrantStep DEF GrantBar
<1> QED
  BY <1>1, InitGrantInv, NextGrantInv, GrantStart, PTL
     DEF Spec, ImplementsGrant, Grant!GrantSpec
\* Read off the state: a request for authorization has one usable credential at
\* most, and none while an HTTP request holds what it consumed, so that neither
\* a replay nor a race ever yields two sessions (ConsumeLoginState,
\* ConsumeAuthCode, RotateRefreshToken).
THEOREM OneCredential == Spec => []OneCarrier
<1>1. GrantInv => OneCarrier
  BY DEF GrantInv
<1> QED
  BY <1>1, InitGrantInv, NextGrantInv, PTL DEF Spec

\* Read off the steps: a flow that is over stays over, whatever of it is still
\* presented, and one with a session never has a code again.
OneWay(f) ==
    /\ PhaseOf(f) = "over" => PhaseOf(f)' = "over"
    /\ PhaseOf(f) = "session" => PhaseOf(f)' \in {"session", "over"}
    /\ PhaseOf(f) = "code" => PhaseOf(f)' \in {"code", "session", "over"}

LEMMA StepsAreOneWay ==
    ASSUME Grant!GrantNext \/ GrantBar' = GrantBar, NEW f \in Secrets
    PROVE  OneWay(f)
<1>0. GrantBar[f] = PhaseOf(f) /\ GrantBar'[f] = PhaseOf(f)'
  BY DEF GrantBar
<1>1. CASE GrantBar' = GrantBar
  BY <1>0, <1>1 DEF OneWay
<1>2. CASE Grant!End
  <2>1. GrantBar'[f] \in {GrantBar[f], "over"}
    BY <1>2 DEF Grant!End, GrantBar
  <2> QED
    BY <1>0, <2>1 DEF OneWay
<1>3. ASSUME NEW g \in Secrets, Grant!Begin(g) PROVE OneWay(f)
  <2>1. GrantBar[g] = "none" /\ GrantBar' = [GrantBar EXCEPT ![g] = "login"]
    BY <1>3 DEF Grant!Begin, GrantBar
  <2>2. GrantBar'[f] = IF f = g THEN "login" ELSE GrantBar[f]
    BY <2>1 DEF GrantBar
  <2> QED
    BY <1>0, <2>1, <2>2 DEF OneWay
<1>4. ASSUME NEW g \in Secrets, Grant!Advance(g) PROVE OneWay(f)
  <2>1. PICK stage \in {"code", "session"} :
           <<GrantBar[g], stage>> \in Grant!Line /\ GrantBar' = [GrantBar EXCEPT ![g] = stage]
    BY <1>4 DEF Grant!Advance, GrantBar
  <2>2. GrantBar[g] \in {"login", "code"} /\ (GrantBar[g] = "code" => stage = "session")
    BY <2>1 DEF Grant!Line
  <2>3. GrantBar'[f] = IF f = g THEN stage ELSE GrantBar[f]
    BY <2>1 DEF GrantBar
  <2> QED
    BY <1>0, <2>2, <2>3 DEF OneWay
<1> QED
  BY <1>1, <1>2, <1>3, <1>4 DEF Grant!GrantNext

\* What is over never comes back: a code or a refresh token that was consumed,
\* revoked, expired or erased gives nobody anything again, however often it is
\* presented and whatever else happens meanwhile (issueTokens, RotateRefreshToken).
THEOREM NothingComesBack == Spec => [][\A f \in Secrets : OneWay(f)]_vars
<1>1. GrantInv /\ GrantInv' /\ [Next]_vars => [\A f \in Secrets : OneWay(f)]_vars
  BY GrantStep, StepsAreOneWay
<1> QED
  BY <1>1, InitGrantInv, NextGrantInv, PTL DEF Spec

-----------------------------------------------------------------------------
(* What a purge leaves.  Its three statements are no transaction.          *)

\* The tables a purge under way is done with.
Purged ==
    CASE purge.next = "state"   -> {"code"}
      [] purge.next = "refresh" -> {"code", "state"}
      [] OTHER                  -> {}

Cleared == \A s \in Secrets : rows[s].kind \in Purged => purge.cutoff < rows[s].expires

LEMMA PurgedIsStored == Purged \subseteq {"code", "state"}
  BY DEF Purged

\* A statement takes every row of its table that the cutoff has reached.
LEMMA StatementClears ==
    ASSUME TypeInv, NEW kind \in Stored, NEW next, PurgeStatement(kind, next), NEW s \in Secrets
    PROVE  /\ rows'[s] \in {rows[s], Gone} /\ Gone.kind = "gone"
           /\ rows'[s].kind = kind => purge.cutoff < rows'[s].expires
<1>1. rows'[s] \in {rows[s], Gone} /\ Gone.kind = "gone"
  BY DEF PurgeStatement, Gone, NoRow
<1>2. ASSUME rows'[s].kind = kind PROVE purge.cutoff < rows'[s].expires
  <2>1. rows'[s] = rows[s] /\ rows[s].kind = kind
    BY <1>1, <1>2 DEF Stored
  <2>2. ~PastCutoff(rows[s])
    <3>1. PastCutoff(rows[s]) => rows'[s] = Gone
      BY <2>1 DEF PurgeStatement
    <3> QED
      BY <1>1, <1>2, <3>1 DEF Stored
  <2>3. rows[s].expires \in Nat /\ purge.cutoff \in Nat
    BY <2>1, StoredIsRow DEF TypeInv, TypeOK, Row
  <2> QED
    BY <2>1, <2>2, <2>3 DEF PastCutoff
<1> QED
  BY <1>1, <1>2

\* Whoever writes a row while the purge is under way writes one that outlives
\* its cutoff, and nobody shortens the life of another.
LEMMA OthersKeepCleared ==
    ASSUME GrantInv, CutoffIsPast, Cleared, [Next]_vars, purge' = purge
    PROVE  Cleared'
<1> SUFFICES ASSUME NEW s \in Secrets, rows'[s].kind \in Purged
             PROVE  purge.cutoff < rows'[s].expires
  BY DEF Cleared, Purged
<1>0. rows'[s].kind \in Stored /\ rows'[s].kind # "refresh" /\ rows'[s].kind # "gone"
  BY PurgedIsStored DEF Stored
<1>1. CASE RowLeaves(s)
  <2>1. rows'[s] = rows[s]
    <3>1. Gone.kind = "gone"
      BY DEF Gone, NoRow
    <3>2. ASSUME rows[s].kind = "refresh", rows'[s] = [rows[s] EXCEPT !.revoked = TRUE]
          PROVE  FALSE
      <4>1. rows[s] \in Row
        BY <3>2, StoredIsRow DEF GrantInv, TypeInv, Stored
      <4> QED
        BY <1>0, <3>2, <4>1 DEF Row
    <3> QED
      BY <1>0, <1>1, <3>1, <3>2 DEF RowLeaves
  <2> QED
    BY <2>1 DEF Cleared
<1>2. CASE rows'[s] = rows[s]
  BY <1>2 DEF Cleared
<1>3. ASSUME now' = now, Usable(s)' PROVE purge.cutoff < rows'[s].expires
  <2>1. now < rows'[s].expires /\ purge.cutoff <= now
    BY <1>3 DEF Usable, CutoffIsPast
  <2>2. rows'[s].expires \in Nat
    <3>1. TypeInv'
      BY NextTypeInv DEF GrantInv
    <3>2. rows'[s] \in Row
      BY <1>0, <3>1 DEF TypeInv, TypeOK, Row, Unused, Gone, NoRow, Stored
    <3> QED
      BY <3>2 DEF Row
  <2>3. now \in Nat /\ purge.cutoff \in Nat
    BY OAuthAssumption DEF OAuthAssumption, GrantInv, TypeInv, TypeOK
  <2> QED
    BY <2>1, <2>2, <2>3
<1>4. CASE Leave
  BY <1>1, <1>4 DEF Leave
<1>5. ASSUME NEW r \in Requests, NEW q \in Secrets, Take(r, q) \/ Issue(r, q)
      PROVE  purge.cutoff < rows'[s].expires
  <2>1. CASE s # q
    BY <1>2, <1>5, <2>1 DEF Take, Issue
  <2>2. CASE s = q
    BY <1>1, <1>3, <1>5, <2>2 DEF Take, Issue
  <2> QED
    BY <2>1, <2>2
<1>6. ASSUME NEW q \in Secrets, BeginFlow(q) PROVE purge.cutoff < rows'[s].expires
  BY <1>2, <1>3, <1>6 DEF BeginFlow
<1> QED
  BY <1>4, <1>5, <1>6, StepShapes DEF GrantInv

LEMMA NextCleared ==
    ASSUME GrantInv, CutoffIsPast, Cleared, [Next]_vars
    PROVE  Cleared'
<1>0. TypeInv
  BY DEF GrantInv
<1>1. CASE purge' = purge
  BY <1>1, OthersKeepCleared
<1>2. CASE PurgeStart \/ PurgeFails \/ Crash \/ PurgeRefresh
  BY <1>2 DEF PurgeStart, PurgeFails, Crash, PurgeRefresh, PurgeStatement, NoPurge, Cleared,
     Purged
<1>3. CASE PurgeCodes
  <2>1. Purged' = {"code"} /\ purge'.cutoff = purge.cutoff
    BY <1>0, <1>3 DEF PurgeCodes, PurgeStatement, Purged, TypeInv, TypeOK
  <2>2. \A s \in Secrets : rows'[s].kind = "code" => purge.cutoff < rows'[s].expires
    BY <1>0, <1>3, StatementClears DEF PurgeCodes, Stored
  <2> QED
    BY <2>1, <2>2 DEF Cleared
<1>4. CASE PurgeStates
  <2>1. /\ Purged = {"code"} /\ Purged' = {"code", "state"} /\ purge'.cutoff = purge.cutoff
    BY <1>0, <1>4 DEF PurgeStates, PurgeStatement, Purged, TypeInv, TypeOK
  <2>2. \A s \in Secrets :
          /\ rows'[s] \in {rows[s], Gone} /\ Gone.kind = "gone"
          /\ rows'[s].kind = "state" => purge.cutoff < rows'[s].expires
    BY <1>0, <1>4, StatementClears DEF PurgeStates, Stored
  <2> QED
    BY <2>1, <2>2 DEF Cleared
<1> QED
  BY <1>1, <1>2, <1>3, <1>4, PurgeMoves

\* A purge that comes to its end leaves no row that had expired when it read
\* the clock.  It may take long, requests write, consume and revoke rows between
\* its statements, and yet what it has passed needs no second look
\* (PurgeExpired: one cutoff for all three statements).
NothingExpiredLeft ==
    PurgeRefresh => \A s \in Secrets :
        rows'[s].kind \in Stored => purge.cutoff < rows'[s].expires

THEOREM PurgeIsComplete == Spec => [][NothingExpiredLeft]_vars
<1>1. GrantInv /\ CutoffIsPast /\ Cleared => NothingExpiredLeft
  <2> SUFFICES ASSUME GrantInv, Cleared, PurgeRefresh, NEW s \in Secrets, rows'[s].kind \in Stored
               PROVE  purge.cutoff < rows'[s].expires
    BY DEF NothingExpiredLeft
  <2>1. /\ rows'[s] \in {rows[s], Gone} /\ Gone.kind = "gone"
        /\ rows'[s].kind = "refresh" => purge.cutoff < rows'[s].expires
    BY StatementClears DEF PurgeRefresh, GrantInv, Stored
  <2>2. Purged = {"code", "state"}
    BY DEF PurgeRefresh, PurgeStatement, Purged
  <2> QED
    BY <2>1, <2>2 DEF Cleared, Stored
<1>2. Init => Cleared
  BY DEF Init, NoPurge, Cleared, Purged
<1>3. GrantInv /\ CutoffIsPast /\ Cleared /\ [Next]_vars => Cleared'
  BY NextCleared
<1> QED
  BY <1>1, <1>2, <1>3, InitGrantInv, NextGrantInv, CutoffInvariant, PTL DEF Spec
=============================================================================
