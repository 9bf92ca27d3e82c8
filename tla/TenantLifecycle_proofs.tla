----------------------- MODULE TenantLifecycle_proofs -----------------------
(***************************************************************************)
(* Proofs about TenantLifecycle: type correctness, the isolation of        *)
(* tenants, what a clean erasure and a settled login leave, that the       *)
(* tables implement TenantRegistry and that an account keeps its id, for   *)
(* any number of accounts, ids, requests and any bounds.                   *)
(***************************************************************************)
EXTENDS TenantLifecycle, TLAPS

-----------------------------------------------------------------------------
(* Type correctness.                                                       *)

LEMMA NoRowIsNoRow == NoRow \notin Row /\ NoRow.user \notin MetaUsers
  BY LifecycleAssumption DEF LifecycleAssumption, Row, NoRow

LEMMA ExpiryType ==
    ASSUME TypeOK, NEW lifetime \in Lifetimes
    PROVE  ExpiryFrom(lifetime) \in Nat
  BY LifecycleAssumption DEF LifecycleAssumption, ExpiryFrom, TypeOK

LEMMA LoginRowType ==
    ASSUME TypeOK, NEW u \in MetaUsers, granted[u], NEW lifetime \in Lifetimes
    PROVE  LoginRow(u, lifetime) \in Row
<1>1. grant[u] \in 1..MaxGrant /\ now \in Nat
  BY LifecycleAssumption DEF LifecycleAssumption, TypeOK
<1> QED
  BY <1>1, ExpiryType DEF LoginRow, Row, Token

LEMMA RenewedType ==
    ASSUME TypeOK, NEW row \in Row, NEW lifetime \in Lifetimes
    PROVE  Renewed(row, lifetime) \in Row
<1>1. now \in Nat
  BY LifecycleAssumption DEF LifecycleAssumption, TypeOK
<1> QED
  BY <1>1, ExpiryType DEF Row, Renewed

LEMMA UpsertType ==
    ASSUME TypeOK, NEW id \in TenantIDs, NEW row \in Row \cup {NoRow}, UpsertTenant(id, row)
    PROVE  /\ tenants' \in [TenantIDs -> Row \cup {NoRow}]
           /\ pages' \in [TenantIDs -> SUBSET Pages]
  BY DEF UpsertTenant, TypeOK

LEMMA ReplaceType ==
    ASSUME TypeOK, NEW id \in TenantIDs, NEW S \in SUBSET Pages, ReplacePages(id, S)
    PROVE  /\ tenants' \in [TenantIDs -> Row \cup {NoRow}]
           /\ pages' \in [TenantIDs -> SUBSET Pages]
  BY DEF ReplacePages, TypeOK

LEMMA InitTypeOK == Init => TypeOK
  BY LifecycleAssumption DEF LifecycleAssumption, Init, TypeOK

LEMMA NextTypeOK == TypeOK /\ [Next]_vars => TypeOK'
<1> SUFFICES ASSUME TypeOK, [Next]_vars PROVE TypeOK'
  OBVIOUS
<1>1. CASE UNCHANGED vars
  BY <1>1 DEF vars, metaVars, dbVars, sweepVars, history, TypeOK
<1>2. ASSUME NEW u \in MetaUsers, Meta(u) PROVE TypeOK'
  <2>1. CASE Consent(u)
    <3>1. grant[u] + 1 \in 1..MaxGrant
      BY <2>1, LifecycleAssumption DEF LifecycleAssumption, Consent, TypeOK
    <3>2. grant' \in [MetaUsers -> 0..MaxGrant] /\ granted' \in [MetaUsers -> BOOLEAN]
      BY <2>1, <3>1 DEF Consent, TypeOK
    <3>3. \A v \in MetaUsers : granted'[v] => grant'[v] # 0
      BY <2>1, <3>1 DEF Consent, TypeOK
    <3> QED
      BY <2>1, <3>2, <3>3 DEF Consent, dbVars, sweepVars, history, TypeOK
  <2>2. CASE RemoveApp(u)
    BY <2>2 DEF RemoveApp, dbVars, sweepVars, history, TypeOK
  <2> QED
    BY <1>2, <2>1, <2>2 DEF Meta
<1>3. ASSUME NEW l \in Logins, Login(l) PROVE TypeOK'
  <2>1. ASSUME NEW u \in MetaUsers, LoginExchange(l, u) PROVE TypeOK'
    <3>1. PICK lifetime \in Lifetimes :
            login' = [login EXCEPT ![l] = Working("lookup", None, LoginRow(u, lifetime), {})]
      BY <2>1 DEF LoginExchange
    <3>2. Working("lookup", None, LoginRow(u, lifetime), {}) \in LoginWork
      BY <2>1, LoginRowType DEF LoginExchange, Working, Work, LoginWork
    <3> QED
      BY <2>1, <3>1, <3>2 DEF LoginExchange, metaVars, dbVars, sweepVars, TypeOK
  <2>2. CASE LoginLookup(l)
    <3>1. PICK id \in TenantIDs :
            login' = [login EXCEPT ![l] = Working("upsert", id, login[l].row, {})]
      BY <2>2 DEF LoginLookup
    <3>2. Working("upsert", id, login[l].row, {}) \in LoginWork
      BY <2>2 DEF LoginLookup, Idle, Working, Work, LoginWork, TypeOK
    <3> QED
      BY <2>2, <3>1, <3>2 DEF LoginLookup, metaVars, dbVars, sweepVars, history, TypeOK
  <2>3. CASE LoginUpsert(l)
    <3>1. login[l].id \in TenantIDs /\ login[l].row \in Row
      BY <2>3 DEF LoginUpsert, Idle, Working, Work, LoginWork, TypeOK
    <3>2. login[l].row.user \in MetaUsers /\ login[l].row.token.grant \in 0..MaxGrant
      BY <3>1, LifecycleAssumption DEF LifecycleAssumption, Row, Token
    <3>3. settled' \in [MetaUsers -> 0..MaxGrant]
      BY <2>3, <3>2 DEF LoginUpsert, TypeOK
    <3>4. Working("accounts", login[l].id, login[l].row, {}) \in LoginWork
      BY <3>1 DEF Working, Work, LoginWork
    <3> QED
      BY <2>3, <3>1, <3>3, <3>4, UpsertType DEF LoginUpsert, metaVars, sweepVars, TypeOK
  <2>4. CASE LoginAccounts(l)
    <3>1. login[l].id \in TenantIDs /\ login[l].row \in Row
      BY <2>4 DEF LoginAccounts, Idle, Working, Work, LoginWork, TypeOK
    <3>2. Accounts(login[l].row) \subseteq SUBSET Pages
      BY <3>1, LifecycleAssumption DEF LifecycleAssumption, Accounts, Row, Token
    <3>3. PICK S \in SUBSET Pages :
            login' = [login EXCEPT ![l] = Working("replace", login[l].id, login[l].row, S)]
      BY <2>4, <3>2 DEF LoginAccounts
    <3>4. Working("replace", login[l].id, login[l].row, S) \in LoginWork
      BY <3>1 DEF Working, Work, LoginWork
    <3> QED
      BY <2>4, <3>3, <3>4 DEF LoginAccounts, metaVars, dbVars, sweepVars, history, TypeOK
  <2>5. CASE LoginReplacePages(l)
    <3>1. login[l].id \in TenantIDs /\ login[l].row \in Row /\ login[l].fetched \in SUBSET Pages
      BY <2>5 DEF LoginReplacePages, Idle, Working, Work, LoginWork, TypeOK
    <3>2. Working("done", login[l].id, login[l].row, {}) \in LoginWork
      BY <3>1 DEF Working, Work, LoginWork
    <3> QED
      BY <2>5, <3>1, <3>2, ReplaceType DEF LoginReplacePages, metaVars, sweepVars, history, TypeOK
  <2>6. CASE LoginReturn(l) \/ LoginFails(l)
    BY <2>6 DEF LoginReturn, LoginFails, metaVars, dbVars, sweepVars, history, TypeOK
  <2> QED
    BY <1>3, <2>1, <2>2, <2>3, <2>4, <2>5, <2>6 DEF Login
<1>4. CASE Sweep
  <2>1. CASE SweepList
    BY <2>1 DEF SweepList, metaVars, dbVars, history, TypeOK
  <2>2. ASSUME NEW id \in TenantIDs, SweepExchange(id) PROVE TypeOK'
    <3>1. due[id] \in Row
      BY <2>2 DEF SweepExchange, NextDue, TypeOK
    <3> QED
      BY <2>2, <3>1, RenewedType DEF SweepExchange, metaVars, dbVars, history, TypeOK
  <2>3. ASSUME NEW id \in TenantIDs, SweepUpsert(id) PROVE TypeOK'
    <3>1. due[id] \in Row \cup {NoRow}
      BY DEF TypeOK
    <3> QED
      BY <2>3, <3>1, UpsertType DEF SweepUpsert, metaVars, history, TypeOK
  <2>4. ASSUME NEW id \in TenantIDs, SweepRefused(id) \/ SweepFails(id) PROVE TypeOK'
    BY <2>4 DEF SweepRefused, SweepFails, metaVars, dbVars, history, TypeOK
  <2>5. CASE SweepReport
    BY <2>5 DEF SweepReport, metaVars, dbVars, history, TypeOK
  <2> QED
    BY <1>4, <2>1, <2>2, <2>3, <2>4, <2>5 DEF Sweep
<1>5. ASSUME NEW d \in Deletions, Deletion(d) PROVE TypeOK'
  <2>1. ASSUME NEW u \in MetaUsers, DeletionUnknown(d, u) PROVE TypeOK'
    BY <2>1 DEF DeletionUnknown, Verdict, metaVars, dbVars, sweepVars, TypeOK
  <2>2. ASSUME NEW u \in MetaUsers, DeletionLookup(d, u) PROVE TypeOK'
    BY <2>2 DEF DeletionLookup, ByMetaUser, metaVars, dbVars, sweepVars, history, TypeOK
  <2>3. CASE DeletionCommit(d)
    BY <2>3 DEF DeletionCommit, DeleteTenant, Verdict, metaVars, sweepVars, TypeOK
  <2>4. CASE DeletionFails(d)
    BY <2>4 DEF DeletionFails, metaVars, dbVars, sweepVars, history, TypeOK
  <2> QED
    BY <1>5, <2>1, <2>2, <2>3, <2>4 DEF Deletion
<1>6. ASSUME NEW s \in Syncs, Sync(s) PROVE TypeOK'
  <2>1. ASSUME NEW id \in TenantIDs, SyncLoad(s, id) PROVE TypeOK'
    <3>1. Working("accounts", id, tenants[id], {}) \in SyncWork
      BY <2>1 DEF SyncLoad, Working, Work, SyncWork, TypeOK
    <3> QED
      BY <2>1, <3>1 DEF SyncLoad, metaVars, dbVars, sweepVars, history, TypeOK
  <2>2. CASE SyncAccounts(s)
    <3>1. sync[s].id \in TenantIDs /\ sync[s].row \in Row
      BY <2>2 DEF SyncAccounts, Idle, Working, Work, SyncWork, TypeOK
    <3>2. Accounts(sync[s].row) \subseteq SUBSET Pages
      BY <3>1, LifecycleAssumption DEF LifecycleAssumption, Accounts, Row, Token
    <3>3. PICK S \in SUBSET Pages :
            sync' = [sync EXCEPT ![s] = Working("replace", sync[s].id, sync[s].row, S)]
      BY <2>2, <3>2 DEF SyncAccounts
    <3>4. Working("replace", sync[s].id, sync[s].row, S) \in SyncWork
      BY <3>1 DEF Working, Work, SyncWork
    <3> QED
      BY <2>2, <3>3, <3>4 DEF SyncAccounts, metaVars, dbVars, sweepVars, history, TypeOK
  <2>3. CASE SyncReplacePages(s)
    <3>1. sync[s].id \in TenantIDs /\ sync[s].fetched \in SUBSET Pages
      BY <2>3 DEF SyncReplacePages, Idle, Working, Work, SyncWork, TypeOK
    <3> QED
      BY <2>3, <3>1, ReplaceType DEF SyncReplacePages, metaVars, sweepVars, history, TypeOK
  <2>4. CASE SyncFails(s)
    BY <2>4 DEF SyncFails, metaVars, dbVars, sweepVars, history, TypeOK
  <2> QED
    BY <1>6, <2>1, <2>2, <2>3, <2>4 DEF Sync
<1>7. CASE Tick
  BY <1>7, LifecycleAssumption DEF LifecycleAssumption, Tick, metaVars, dbVars, sweepVars,
     history, TypeOK
<1>8. CASE Crash
  BY <1>8, LifecycleAssumption DEF LifecycleAssumption, Crash, metaVars, dbVars, history, TypeOK
<1> QED
  BY <1>1, <1>2, <1>3, <1>4, <1>5, <1>6, <1>7, <1>8 DEF Next

\* Every variable keeps its type.
THEOREM TypeCorrect == Spec => []TypeOK
  BY InitTypeOK, NextTypeOK, PTL DEF Spec

-----------------------------------------------------------------------------
(* Isolation.  TenantIsolation is not inductive: a request in flight holds *)
(* a row, an id and pages it will write later, so what it holds must be    *)
(* sound too, and the id it will write to must not have become another     *)
(* account's in the meantime.                                              *)

Sound(row) == row.user \in Allowed /\ row.token.user = row.user

\* Everything that refers to tenant id on behalf of account u.
Owns(id, u) ==
    \/ tenants[id].user = u
    \/ due[id].user = u
    \/ \E l \in Logins : login[l].id = id /\ login[l].row.user = u
    \/ \E s \in Syncs : sync[s].id = id /\ sync[s].row.user = u

SoundTenants == \A id \in TenantIDs : tenants[id] # NoRow =>
    Sound(tenants[id]) /\ pages[id] \subseteq Manageable[tenants[id].user]
SoundSweep  == \A id \in TenantIDs : due[id] # NoRow => Sound(due[id])
Renewing    == renewing # None => due[renewing] # NoRow
SoundLogins == \A l \in Logins : login[l] # Idle =>
    Sound(login[l].row) /\ login[l].fetched \subseteq Manageable[login[l].row.user]
SoundSyncs  == \A s \in Syncs : sync[s] # Idle =>
    Sound(sync[s].row) /\ sync[s].fetched \subseteq Manageable[sync[s].row.user]
OneOwner == \A id \in TenantIDs : \A u, v \in MetaUsers : Owns(id, u) /\ Owns(id, v) => u = v
OneRow   == \A i, j \in TenantIDs : tenants[i] # NoRow /\ tenants[i].user = tenants[j].user => i = j

\* The inductive invariant.
IsolationInv ==
    /\ TypeOK
    /\ SoundTenants
    /\ SoundSweep
    /\ Renewing
    /\ SoundLogins
    /\ SoundSyncs
    /\ OneOwner
    /\ OneRow
    /\ NoOrphanPages

LEMMA InitIsolation == Init => IsolationInv
<1> SUFFICES ASSUME Init PROVE IsolationInv
  OBVIOUS
<1>1. TypeOK
  BY InitTypeOK
<1>2. \A id \in TenantIDs, u \in MetaUsers : ~Owns(id, u)
  <2>1. Idle.id \notin TenantIDs
    BY LifecycleAssumption DEF LifecycleAssumption, Idle, Working
  <2> QED
    BY <2>1, NoRowIsNoRow DEF Init, Owns
<1> QED
  BY <1>1, <1>2 DEF Init, IsolationInv, SoundTenants, SoundSweep, Renewing,
     SoundLogins, SoundSyncs, OneOwner, OneRow, NoOrphanPages

\* A request or a sweep at work holds a row and, past the lookup, an id.
LEMMA LoginHoldsRow ==
    ASSUME TypeOK, NEW l \in Logins, login[l].step # "idle"
    PROVE  /\ login[l] # Idle
           /\ login[l].row \in Row
           /\ login[l].step # "lookup" => login[l].id \in TenantIDs
  BY DEF TypeOK, LoginWork, Work, Idle, Working

LEMMA SyncHoldsRow ==
    ASSUME TypeOK, NEW s \in Syncs, sync[s].step # "idle"
    PROVE  sync[s] # Idle /\ sync[s].row \in Row /\ sync[s].id \in TenantIDs
  BY DEF TypeOK, SyncWork, Work, Idle, Working

\* Writing a sound row under an id its account owns keeps the tables sound.
LEMMA UpsertKeepsTables ==
    ASSUME IsolationInv, NEW id \in TenantIDs, NEW row \in Row, Sound(row),
           Owns(id, row.user), UpsertTenant(id, row)
    PROVE  /\ SoundTenants' /\ OneRow' /\ NoOrphanPages'
           /\ \A i \in TenantIDs, u \in MetaUsers : tenants'[i].user = u => Owns(i, u)
<1> DEFINE known  == ByMetaUser(row.user)
           target == IF known = {} THEN {id} ELSE known
<1>1. tenants' = [i \in TenantIDs |-> IF i \in target THEN row ELSE tenants[i]] /\ pages' = pages
  BY DEF UpsertTenant
<1>2. target \subseteq TenantIDs /\ row # NoRow /\ row.user \in MetaUsers
  <2>1. target \subseteq TenantIDs
    BY DEF ByMetaUser
  <2>2. row.user \in MetaUsers
    BY DEF Row
  <2> QED
    BY <2>1, <2>2, NoRowIsNoRow
<1>3. \A i \in target : tenants[i].user = row.user \/ (tenants[i] = NoRow /\ i = id)
  BY DEF UpsertTenant, ByMetaUser
<1>4. \A i, j \in target : i = j
  <2>1. \A i \in known : tenants[i] # NoRow
    BY <1>2, NoRowIsNoRow DEF ByMetaUser
  <2> QED
    BY <2>1 DEF ByMetaUser, IsolationInv, OneRow
<1>5. \A j \in TenantIDs : tenants[j].user = row.user => j \in target
  BY DEF ByMetaUser
<1>6. SoundTenants'
  BY <1>1, <1>2, <1>3 DEF IsolationInv, SoundTenants, NoOrphanPages, Sound
<1>7. OneRow'
  BY <1>1, <1>2, <1>4, <1>5 DEF IsolationInv, OneRow
<1>8. NoOrphanPages'
  BY <1>1, <1>2 DEF IsolationInv, NoOrphanPages
<1>9. \A i \in TenantIDs, u \in MetaUsers : tenants'[i].user = u => Owns(i, u)
  BY <1>1, <1>2, <1>3 DEF Owns
<1> QED
  BY <1>6, <1>7, <1>8, <1>9

\* Replacing pages by ones the owner of the id may administer keeps them sound.
LEMMA ReplaceKeepsTables ==
    ASSUME IsolationInv, NEW id \in TenantIDs, NEW u \in MetaUsers, Owns(id, u),
           NEW S \in SUBSET Manageable[u], ReplacePages(id, S)
    PROVE  SoundTenants' /\ OneRow' /\ NoOrphanPages'
<1>1. tenants[id] # NoRow => tenants[id].user = u
  <2> SUFFICES ASSUME tenants[id] # NoRow PROVE tenants[id].user = u
    OBVIOUS
  <2>1. tenants[id].user \in MetaUsers
    BY DEF IsolationInv, TypeOK, Row
  <2> QED
    BY <2>1 DEF IsolationInv, OneOwner, Owns
<1> QED
  BY <1>1 DEF ReplacePages, IsolationInv, TypeOK, SoundTenants, OneRow, NoOrphanPages

\* Steps that add no reference keep every id to one account.
LEMMA NoNewOwner ==
    ASSUME OneOwner, \A id \in TenantIDs, u \in MetaUsers : Owns(id, u)' => Owns(id, u)
    PROVE  OneOwner'
  BY DEF OneOwner
LEMMA TablesKept ==
    ASSUME IsolationInv, UNCHANGED dbVars
    PROVE  SoundTenants' /\ OneRow' /\ NoOrphanPages'
  BY DEF dbVars, IsolationInv, SoundTenants, OneRow, NoOrphanPages

LEMMA LoginIsolation ==
    ASSUME IsolationInv, TypeOK', NEW l \in Logins, Login(l)
    PROVE  IsolationInv'
<1> DEFINE w == login[l]
<1>0. UNCHANGED sweepVars /\ UNCHANGED sync => SoundSweep' /\ Renewing' /\ SoundSyncs'
  BY DEF IsolationInv, sweepVars, SoundSweep, Renewing, SoundSyncs
<1>1. ASSUME NEW u \in MetaUsers, LoginExchange(l, u) PROVE IsolationInv'
  <2>1. PICK lifetime \in Lifetimes :
          login' = [login EXCEPT ![l] = Working("lookup", None, LoginRow(u, lifetime), {})]
    BY <1>1 DEF LoginExchange
  <2>2. Sound(LoginRow(u, lifetime)) /\ LoginRow(u, lifetime).user = u
    BY <1>1 DEF LoginExchange, Sound, LoginRow
  <2>3. SoundLogins'
    BY <2>1, <2>2 DEF IsolationInv, TypeOK, SoundLogins, Working
  <2>4. OneOwner'
    <3>1. login'[l].id \notin TenantIDs
      BY <2>1, LifecycleAssumption DEF LifecycleAssumption, Working, IsolationInv, TypeOK
    <3>2. \A id \in TenantIDs, v \in MetaUsers : Owns(id, v)' => Owns(id, v)
      BY <1>1, <2>1, <3>1 DEF LoginExchange, Owns, dbVars, sweepVars, IsolationInv, TypeOK
    <3> QED
      BY <3>2, NoNewOwner DEF IsolationInv
  <2> QED
    BY <1>0, <1>1, <2>3, <2>4, TablesKept DEF LoginExchange, IsolationInv
<1>2. CASE LoginLookup(l)
  <2>1. PICK id \in TenantIDs :
          /\ IF ByMetaUser(w.row.user) = {} THEN Fresh(id) ELSE id \in ByMetaUser(w.row.user)
          /\ login' = [login EXCEPT ![l] = Working("upsert", id, w.row, {})]
    BY <1>2 DEF LoginLookup
  <2>2. w # Idle
    BY <1>2, LoginHoldsRow DEF LoginLookup, IsolationInv
  <2>3. SoundLogins'
    BY <2>1, <2>2 DEF IsolationInv, TypeOK, SoundLogins, Working
  <2>4. \A i \in TenantIDs, v \in MetaUsers :
          Owns(i, v)' => Owns(i, v) \/ (i = id /\ v = w.row.user)
    BY <1>2, <2>1 DEF LoginLookup, Owns, dbVars, sweepVars, Working, IsolationInv, TypeOK
  <2>5. OneOwner'
    <3>1. CASE Fresh(id)
      <4>1. \A v \in MetaUsers : ~Owns(id, v)
        BY <3>1, NoRowIsNoRow DEF Fresh, Owns
      <4> QED
        BY <2>4, <4>1 DEF IsolationInv, OneOwner
    <3>2. CASE id \in ByMetaUser(w.row.user)
      <4>1. Owns(id, w.row.user)
        BY <3>2 DEF ByMetaUser, Owns
      <4> QED
        BY <2>4, <4>1, NoNewOwner DEF IsolationInv
    <3> QED
      BY <2>1, <3>1, <3>2
  <2> QED
    BY <1>0, <1>2, <2>3, <2>5, TablesKept DEF LoginLookup, IsolationInv
<1>3. CASE LoginUpsert(l)
  <2>1. w # Idle /\ w.row \in Row /\ w.id \in TenantIDs
    BY <1>3, LoginHoldsRow DEF LoginUpsert, IsolationInv
  <2>2. login' = [login EXCEPT ![l] = Working("accounts", w.id, w.row, {})]
    BY <1>3 DEF LoginUpsert
  <2>3. Sound(w.row) /\ Owns(w.id, w.row.user)
    BY <2>1 DEF IsolationInv, SoundLogins, Owns
  <2>4. /\ SoundTenants' /\ OneRow' /\ NoOrphanPages'
        /\ \A i \in TenantIDs, u \in MetaUsers : tenants'[i].user = u => Owns(i, u)
    BY <1>3, <2>1, <2>3, UpsertKeepsTables DEF LoginUpsert
  <2>5. SoundLogins'
    BY <2>1, <2>2 DEF IsolationInv, TypeOK, SoundLogins, Working
  <2>6. \A i \in TenantIDs, v \in MetaUsers : Owns(i, v)' => Owns(i, v)
    <3> SUFFICES ASSUME NEW i \in TenantIDs, NEW v \in MetaUsers, Owns(i, v)' PROVE Owns(i, v)
      OBVIOUS
    <3>1. CASE tenants'[i].user = v
      BY <2>4, <3>1
    <3>2. CASE ~(tenants'[i].user = v)
      BY <1>3, <2>2, <3>2 DEF LoginUpsert, Owns, sweepVars, Working, IsolationInv, TypeOK
    <3> QED
      BY <3>1, <3>2
  <2> QED
    BY <1>0, <1>3, <2>4, <2>5, <2>6, NoNewOwner DEF LoginUpsert, IsolationInv
<1>4. CASE LoginAccounts(l)
  <2>1. w # Idle /\ w.row \in Row
    BY <1>4, LoginHoldsRow DEF LoginAccounts, IsolationInv
  <2>2. PICK S \in SUBSET Manageable[w.row.user] :
          login' = [login EXCEPT ![l] = Working("replace", w.id, w.row, S)]
    BY <1>4, <2>1 DEF LoginAccounts, Accounts, IsolationInv, SoundLogins, Sound
  <2>3. SoundLogins'
    BY <2>1, <2>2 DEF IsolationInv, TypeOK, SoundLogins, Working
  <2>4. \A i \in TenantIDs, v \in MetaUsers : Owns(i, v)' => Owns(i, v)
    BY <1>4, <2>2 DEF LoginAccounts, Owns, dbVars, sweepVars, Working, IsolationInv, TypeOK
  <2> QED
    BY <1>0, <1>4, <2>3, <2>4, NoNewOwner, TablesKept DEF LoginAccounts, IsolationInv
<1>5. CASE LoginReplacePages(l)
  <2>1. w # Idle /\ w.row \in Row /\ w.id \in TenantIDs
    BY <1>5, LoginHoldsRow DEF LoginReplacePages, IsolationInv
  <2>2. w.row.user \in MetaUsers
    BY <2>1 DEF Row
  <2>3. w.fetched \in SUBSET Manageable[w.row.user] /\ Owns(w.id, w.row.user)
    BY <2>1 DEF IsolationInv, SoundLogins, Owns
  <2>4. SoundTenants' /\ OneRow' /\ NoOrphanPages'
    BY <1>5, <2>1, <2>2, <2>3, ReplaceKeepsTables DEF LoginReplacePages
  <2>5. login' = [login EXCEPT ![l] = Working("done", w.id, w.row, {})]
    BY <1>5 DEF LoginReplacePages
  <2>6. SoundLogins'
    BY <2>1, <2>5 DEF IsolationInv, TypeOK, SoundLogins, Working
  <2>7. \A i \in TenantIDs, v \in MetaUsers : Owns(i, v)' => Owns(i, v)
    BY <1>5, <2>5 DEF LoginReplacePages, ReplacePages, Owns, sweepVars, Working, IsolationInv, TypeOK
  <2> QED
    BY <1>0, <1>5, <2>4, <2>6, <2>7, NoNewOwner DEF LoginReplacePages, IsolationInv
<1>6. CASE LoginReturn(l) \/ LoginFails(l)
  <2>1. login' = [login EXCEPT ![l] = Idle] /\ UNCHANGED <<dbVars, sweepVars, sync>>
    BY <1>6 DEF LoginReturn, LoginFails
  <2>2. SoundLogins'
    BY <2>1 DEF IsolationInv, TypeOK, SoundLogins
  <2>3. Idle.id \notin TenantIDs
    BY LifecycleAssumption DEF LifecycleAssumption, Idle, Working
  <2>4. \A i \in TenantIDs, v \in MetaUsers : Owns(i, v)' => Owns(i, v)
    BY <2>1, <2>3 DEF Owns, dbVars, sweepVars, IsolationInv, TypeOK
  <2> QED
    BY <1>0, <2>1, <2>2, <2>4, NoNewOwner, TablesKept DEF IsolationInv
<1> QED
  BY <1>1, <1>2, <1>3, <1>4, <1>5, <1>6 DEF Login

LEMMA SweepIsolation ==
    ASSUME IsolationInv, TypeOK', Sweep
    PROVE  IsolationInv'
<1>0. UNCHANGED login /\ UNCHANGED sync => SoundLogins' /\ SoundSyncs'
  BY DEF IsolationInv, SoundLogins, SoundSyncs
<1>1. CASE SweepList
  <2>1. \A i \in TenantIDs : due'[i] # NoRow => due'[i] = tenants[i]
    BY <1>1 DEF SweepList
  <2>2. SoundSweep'
    BY <2>1 DEF IsolationInv, SoundSweep, SoundTenants
  <2>3. Renewing'
    BY <1>1, LifecycleAssumption DEF LifecycleAssumption, SweepList, IsolationInv, Renewing, TypeOK
  <2>4. \A i \in TenantIDs, v \in MetaUsers : Owns(i, v)' => Owns(i, v)
    BY <1>1, <2>1, NoRowIsNoRow DEF SweepList, Owns, dbVars
  <2> QED
    BY <1>0, <1>1, <2>2, <2>3, <2>4, NoNewOwner, TablesKept DEF SweepList, IsolationInv
<1>2. ASSUME NEW id \in TenantIDs, SweepExchange(id) PROVE IsolationInv'
  <2>1. PICK lifetime \in Lifetimes : due' = [due EXCEPT ![id] = Renewed(due[id], lifetime)]
    BY <1>2 DEF SweepExchange
  <2>2. due[id] \in Row /\ Renewed(due[id], lifetime) \in Row
    BY <1>2, RenewedType DEF SweepExchange, NextDue, IsolationInv, TypeOK
  <2>3. SoundSweep'
    BY <2>1, <2>2, NoRowIsNoRow DEF IsolationInv, TypeOK, SoundSweep, Sound, Renewed
  <2>4. Renewing'
    BY <1>2, <2>1, <2>2, NoRowIsNoRow DEF SweepExchange, IsolationInv, TypeOK, Renewing
  <2>5. \A i \in TenantIDs, v \in MetaUsers : Owns(i, v)' => Owns(i, v)
    BY <1>2, <2>1 DEF SweepExchange, Owns, Renewed, dbVars, IsolationInv, TypeOK
  <2> QED
    BY <1>0, <1>2, <2>3, <2>4, <2>5, NoNewOwner, TablesKept DEF SweepExchange, IsolationInv
<1>3. ASSUME NEW id \in TenantIDs, SweepUpsert(id) PROVE IsolationInv'
  <2>1. due[id] \in Row /\ due[id] # NoRow
    BY <1>3, LifecycleAssumption DEF LifecycleAssumption, SweepUpsert, IsolationInv, Renewing, TypeOK
  <2>2. Sound(due[id]) /\ Owns(id, due[id].user)
    BY <2>1 DEF IsolationInv, SoundSweep, Owns
  <2>3. /\ SoundTenants' /\ OneRow' /\ NoOrphanPages'
        /\ \A i \in TenantIDs, u \in MetaUsers : tenants'[i].user = u => Owns(i, u)
    BY <1>3, <2>1, <2>2, UpsertKeepsTables DEF SweepUpsert
  <2>4. SoundSweep' /\ Renewing'
    BY <1>3 DEF SweepUpsert, IsolationInv, TypeOK, SoundSweep, Renewing
  <2>5. \A i \in TenantIDs, v \in MetaUsers : Owns(i, v)' => Owns(i, v)
    <3> SUFFICES ASSUME NEW i \in TenantIDs, NEW v \in MetaUsers, Owns(i, v)' PROVE Owns(i, v)
      OBVIOUS
    <3>1. CASE tenants'[i].user = v
      BY <2>3, <3>1
    <3>2. CASE ~(tenants'[i].user = v)
      BY <1>3, <3>2, NoRowIsNoRow DEF SweepUpsert, Owns, IsolationInv, TypeOK
    <3> QED
      BY <3>1, <3>2
  <2> QED
    BY <1>0, <1>3, <2>3, <2>4, <2>5, NoNewOwner DEF SweepUpsert, IsolationInv
<1>4. ASSUME NEW id \in TenantIDs, SweepRefused(id) \/ SweepFails(id) PROVE IsolationInv'
  <2>1. /\ due' = [due EXCEPT ![id] = NoRow]
        /\ renewing' = None
        /\ UNCHANGED <<dbVars, login, sync>>
    BY <1>4 DEF SweepRefused, SweepFails, NextDue
  <2>2. SoundSweep' /\ Renewing'
    BY <2>1 DEF IsolationInv, TypeOK, SoundSweep, Renewing
  <2>3. \A i \in TenantIDs, v \in MetaUsers : Owns(i, v)' => Owns(i, v)
    BY <2>1, NoRowIsNoRow DEF Owns, dbVars, IsolationInv, TypeOK
  <2> QED
    BY <1>0, <2>1, <2>2, <2>3, NoNewOwner, TablesKept DEF IsolationInv
<1>5. CASE SweepReport
  <2>1. UNCHANGED <<dbVars, login, due, renewing, sync>>
    BY <1>5 DEF SweepReport
  <2>2. SoundSweep' /\ Renewing' /\ OneOwner'
    BY <2>1 DEF IsolationInv, SoundSweep, Renewing, OneOwner, Owns, dbVars
  <2> QED
    BY <1>0, <2>1, <2>2, TablesKept DEF IsolationInv
<1> QED
  BY <1>1, <1>2, <1>3, <1>4, <1>5 DEF Sweep

LEMMA DeletionIsolation ==
    ASSUME IsolationInv, TypeOK', NEW d \in Deletions, Deletion(d)
    PROVE  IsolationInv'
<1>1. UNCHANGED <<login, sweepVars, sync>>
  BY DEF Deletion, DeletionUnknown, DeletionLookup, DeletionCommit, DeletionFails
<1>2. SoundSweep' /\ Renewing' /\ SoundLogins' /\ SoundSyncs'
  BY <1>1 DEF sweepVars, IsolationInv, SoundSweep, Renewing, SoundLogins, SoundSyncs
<1>3. CASE UNCHANGED dbVars
  <2>1. OneOwner'
    BY <1>1, <1>3 DEF dbVars, sweepVars, IsolationInv, OneOwner, Owns
  <2> QED
    BY <1>2, <1>3, <2>1, TablesKept DEF IsolationInv
<1>4. CASE DeleteTenant(deletion[d].id)
  <2>1. SoundTenants' /\ OneRow' /\ NoOrphanPages'
    <3>1. \A i \in TenantIDs : /\ tenants'[i] \in {tenants[i], NoRow}
                               /\ pages'[i] \in {pages[i], {}}
                               /\ pages'[i] # {} => tenants'[i] = tenants[i]
      BY <1>4 DEF DeleteTenant, IsolationInv, TypeOK
    <3>2. \A i \in TenantIDs : tenants'[i] # NoRow => tenants'[i].user # NoRow.user
      BY <3>1, NoRowIsNoRow DEF IsolationInv, TypeOK, Row
    <3> QED
      BY <3>1, <3>2 DEF IsolationInv, SoundTenants, OneRow, NoOrphanPages
  <2>2. \A i \in TenantIDs, v \in MetaUsers : Owns(i, v)' => Owns(i, v)
    BY <1>1, <1>4, NoRowIsNoRow DEF DeleteTenant, Owns, sweepVars, IsolationInv, TypeOK
  <2> QED
    BY <1>2, <2>1, <2>2, NoNewOwner DEF IsolationInv
<1> QED
  BY <1>3, <1>4 DEF Deletion, DeletionUnknown, DeletionLookup, DeletionCommit, DeletionFails

LEMMA SyncIsolation ==
    ASSUME IsolationInv, TypeOK', NEW s \in Syncs, Sync(s)
    PROVE  IsolationInv'
<1> DEFINE w == sync[s]
<1>0. UNCHANGED sweepVars /\ UNCHANGED login => SoundSweep' /\ Renewing' /\ SoundLogins'
  BY DEF IsolationInv, sweepVars, SoundSweep, Renewing, SoundLogins
<1>1. ASSUME NEW id \in TenantIDs, SyncLoad(s, id) PROVE IsolationInv'
  <2>1. sync' = [sync EXCEPT ![s] = Working("accounts", id, tenants[id], {})]
    BY <1>1 DEF SyncLoad
  <2>2. SoundSyncs'
    BY <1>1, <2>1 DEF SyncLoad, IsolationInv, TypeOK, SoundTenants, SoundSyncs, Working
  <2>3. \A i \in TenantIDs, v \in MetaUsers : Owns(i, v)' => Owns(i, v)
    BY <1>1, <2>1 DEF SyncLoad, Owns, dbVars, sweepVars, Working, IsolationInv, TypeOK
  <2> QED
    BY <1>0, <1>1, <2>2, <2>3, NoNewOwner, TablesKept DEF SyncLoad, IsolationInv
<1>2. CASE SyncAccounts(s)
  <2>1. w # Idle
    BY <1>2, SyncHoldsRow DEF SyncAccounts, IsolationInv
  <2>2. PICK S \in SUBSET Manageable[w.row.user] :
          sync' = [sync EXCEPT ![s] = Working("replace", w.id, w.row, S)]
    BY <1>2, <2>1 DEF SyncAccounts, Accounts, IsolationInv, SoundSyncs, Sound
  <2>3. SoundSyncs'
    BY <2>1, <2>2 DEF IsolationInv, TypeOK, SoundSyncs, Working
  <2>4. \A i \in TenantIDs, v \in MetaUsers : Owns(i, v)' => Owns(i, v)
    BY <1>2, <2>2 DEF SyncAccounts, Owns, dbVars, sweepVars, Working, IsolationInv, TypeOK
  <2> QED
    BY <1>0, <1>2, <2>3, <2>4, NoNewOwner, TablesKept DEF SyncAccounts, IsolationInv
<1>3. ASSUME sync' = [sync EXCEPT ![s] = Idle]
      PROVE  /\ SoundSyncs'
             /\ \A i \in TenantIDs, v \in MetaUsers :
                  Owns(i, v)' => Owns(i, v) \/ tenants'[i] # tenants[i]
                                 \/ due'[i] # due[i] \/ login' # login
  <2>1. Idle.id \notin TenantIDs
    BY LifecycleAssumption DEF LifecycleAssumption, Idle, Working
  <2> QED
    BY <1>3, <2>1 DEF SoundSyncs, Owns, IsolationInv, TypeOK
<1>4. CASE SyncReplacePages(s)
  <2>1. w # Idle /\ w.row \in Row /\ w.id \in TenantIDs
    BY <1>4, SyncHoldsRow DEF SyncReplacePages, IsolationInv
  <2>2. w.row.user \in MetaUsers
    BY <2>1 DEF Row
  <2>3. w.fetched \in SUBSET Manageable[w.row.user] /\ Owns(w.id, w.row.user)
    BY <2>1 DEF IsolationInv, SoundSyncs, Owns
  <2>4. SoundTenants' /\ OneRow' /\ NoOrphanPages'
    BY <1>4, <2>1, <2>2, <2>3, ReplaceKeepsTables DEF SyncReplacePages
  <2>5. \A i \in TenantIDs, v \in MetaUsers : Owns(i, v)' => Owns(i, v)
    BY <1>3, <1>4 DEF SyncReplacePages, ReplacePages, sweepVars
  <2> QED
    BY <1>0, <1>3, <1>4, <2>4, <2>5, NoNewOwner DEF SyncReplacePages, IsolationInv
<1>5. CASE SyncFails(s)
  <2>1. \A i \in TenantIDs, v \in MetaUsers : Owns(i, v)' => Owns(i, v)
    BY <1>3, <1>5 DEF SyncFails, dbVars, sweepVars
  <2> QED
    BY <1>0, <1>3, <1>5, <2>1, NoNewOwner, TablesKept DEF SyncFails, IsolationInv
<1> QED
  BY <1>1, <1>2, <1>4, <1>5 DEF Sync

LEMMA NextIsolation == IsolationInv /\ [Next]_vars => IsolationInv'
<1> SUFFICES ASSUME IsolationInv, [Next]_vars PROVE IsolationInv'
  OBVIOUS
<1>1. TypeOK'
  BY NextTypeOK DEF IsolationInv
<1>2. ASSUME UNCHANGED <<dbVars, login, sweepVars, sync>> PROVE IsolationInv'
  <2>1. OneOwner'
    BY <1>2 DEF dbVars, sweepVars, IsolationInv, OneOwner, Owns
  <2>2. SoundSweep' /\ Renewing' /\ SoundLogins' /\ SoundSyncs'
    BY <1>2 DEF sweepVars, IsolationInv, SoundSweep, Renewing, SoundLogins, SoundSyncs
  <2> QED
    BY <1>1, <1>2, <2>1, <2>2, TablesKept DEF IsolationInv
<1>3. CASE UNCHANGED vars
  BY <1>2, <1>3 DEF vars
<1>4. ASSUME NEW u \in MetaUsers, Meta(u) PROVE IsolationInv'
  BY <1>2, <1>4 DEF Meta, Consent, RemoveApp
<1>5. CASE Tick
  BY <1>2, <1>5 DEF Tick
<1>6. CASE Crash
  <2>1. Idle.id \notin TenantIDs
    BY LifecycleAssumption DEF LifecycleAssumption, Idle, Working
  <2>2. SoundSweep' /\ Renewing' /\ SoundLogins' /\ SoundSyncs'
    BY <1>6 DEF Crash, SoundSweep, Renewing, SoundLogins, SoundSyncs
  <2>3. \A i \in TenantIDs, v \in MetaUsers : Owns(i, v)' => Owns(i, v)
    BY <1>6, <2>1, NoRowIsNoRow DEF Crash, Owns, dbVars
  <2> QED
    BY <1>1, <1>6, <2>2, <2>3, NoNewOwner, TablesKept DEF Crash, IsolationInv
<1> QED
  BY <1>1, <1>3, <1>4, <1>5, <1>6, LoginIsolation, SweepIsolation, DeletionIsolation,
     SyncIsolation DEF Next

\* Whatever runs concurrently, a tenant carries its own account's token and
\* pages only, and that account is an allowed one.
THEOREM Isolation == Spec => []TenantIsolation
<1>1. IsolationInv => TenantIsolation
  BY DEF IsolationInv, SoundTenants, Sound, TenantIsolation
<1> QED
  BY <1>1, InitIsolation, NextIsolation, PTL DEF Spec

\* No page outlives its tenant or is stored after it is gone.
THEOREM NoOrphans == Spec => []NoOrphanPages
<1>1. IsolationInv => NoOrphanPages
  BY DEF IsolationInv
<1> QED
  BY <1>1, InitIsolation, NextIsolation, PTL DEF Spec

-----------------------------------------------------------------------------
(* Erasure.  An account erased cleanly has no tenant because, until it     *)
(* logs in again, nothing at work holds a row of it either.                *)

LEMMA RowUsers ==
    ASSUME TypeOK, NEW id \in TenantIDs
    PROVE  /\ tenants[id] \in Row \/ tenants[id] = NoRow
           /\ due[id] \in Row \/ due[id] = NoRow
           /\ tenants[id].user \in MetaUsers => tenants[id] \in Row
           /\ due[id].user \in MetaUsers => due[id] \in Row
  BY NoRowIsNoRow DEF TypeOK

\* Gone(u): neither the tables nor anything at work can bring u back.
Gone(u) ==
    /\ \A id \in TenantIDs : tenants[id].user # u /\ due[id].user # u
    /\ \A l \in Logins : ~LoginHolds(l, u)

ErasureInv ==
    /\ IsolationInv
    /\ \A u \in MetaUsers : erased[u] = "clean" => Gone(u)

LEMMA InitErasure == Init => ErasureInv
<1>1. Init => \A u \in MetaUsers : erased[u] # "clean"
  BY DEF Init
<1> QED
  BY <1>1, InitIsolation DEF ErasureInv

\* An upsert adds no account but the one whose row it writes.
LEMMA UpsertAddsOwner ==
    ASSUME NEW id \in TenantIDs, NEW row, UpsertTenant(id, row), NEW u, u # row.user,
           NEW i \in TenantIDs, tenants[i].user # u
    PROVE  tenants'[i].user # u
  BY DEF UpsertTenant

LEMMA LoginErasure ==
    ASSUME ErasureInv, TypeOK', NEW l \in Logins, Login(l),
           NEW u \in MetaUsers, erased'[u] = "clean"
    PROVE  Gone(u)'
<1>1. ASSUME NEW v \in MetaUsers, LoginExchange(l, v) PROVE Gone(u)'
  <2>1. u # v /\ erased[u] = "clean"
    BY <1>1 DEF LoginExchange, ErasureInv, IsolationInv, TypeOK
  <2>2. login'[l].row.user = v /\ \A k \in Logins \ {l} : login'[k] = login[k]
    BY <1>1 DEF LoginExchange, Working, LoginRow, ErasureInv, IsolationInv, TypeOK
  <2> QED
    BY <1>1, <2>1, <2>2 DEF LoginExchange, ErasureInv, Gone, LoginHolds, dbVars, sweepVars
<1>2. CASE ~\E v \in MetaUsers : LoginExchange(l, v)
  <2>1. erased' = erased /\ UNCHANGED sweepVars
    BY <1>2 DEF Login, LoginLookup, LoginUpsert, LoginAccounts, LoginReplacePages, LoginReturn,
       LoginFails, history
  <2>2. Gone(u)
    BY <2>1 DEF ErasureInv
  <2>3. \A k \in Logins : LoginHolds(k, u)' => LoginHolds(k, u)
    BY <1>2 DEF Login, LoginLookup, LoginUpsert, LoginAccounts, LoginReplacePages, LoginReturn,
       LoginFails, LoginHolds, Working, Idle, ErasureInv, IsolationInv, TypeOK
  <2>4. \A id \in TenantIDs : tenants'[id].user # u
    <3>1. CASE LoginUpsert(l)
      <4>1. login[l].id \in TenantIDs /\ u # login[l].row.user
        BY <2>2, <3>1, LoginHoldsRow DEF LoginUpsert, Gone, LoginHolds, ErasureInv, IsolationInv
      <4> QED
        BY <2>2, <3>1, <4>1, UpsertAddsOwner DEF LoginUpsert, Gone
    <3>2. CASE ~LoginUpsert(l)
      BY <1>2, <2>2, <3>2 DEF Login, LoginLookup, LoginAccounts, LoginReplacePages, ReplacePages,
         LoginReturn, LoginFails, dbVars, Gone
    <3> QED
      BY <3>1, <3>2
  <2> QED
    BY <2>1, <2>2, <2>3, <2>4 DEF Gone, sweepVars
<1> QED
  BY <1>1, <1>2

LEMMA SweepErasure ==
    ASSUME ErasureInv, Sweep, NEW u \in MetaUsers, erased'[u] = "clean"
    PROVE  Gone(u)'
<1>1. Gone(u) /\ login' = login
  BY DEF Sweep, SweepList, SweepExchange, SweepUpsert, SweepRefused, SweepFails, SweepReport,
     history, ErasureInv
<1>2. \A k \in Logins : ~LoginHolds(k, u)'
  BY <1>1 DEF Gone, LoginHolds
<1>3. CASE SweepList
  BY <1>1, <1>2, <1>3, NoRowIsNoRow DEF SweepList, Gone, dbVars
<1>4. ASSUME NEW id \in TenantIDs, SweepExchange(id) PROVE Gone(u)'
  BY <1>1, <1>2, <1>4 DEF SweepExchange, Renewed, Gone, dbVars, ErasureInv, IsolationInv, TypeOK
<1>5. ASSUME NEW id \in TenantIDs, SweepUpsert(id) PROVE Gone(u)'
  <2>1. \A i \in TenantIDs : tenants'[i].user # u
    BY <1>1, <1>5, UpsertAddsOwner DEF SweepUpsert, Gone
  <2> QED
    BY <1>1, <1>2, <1>5, <2>1, NoRowIsNoRow DEF SweepUpsert, Gone, ErasureInv, IsolationInv, TypeOK
<1>6. ASSUME NEW id \in TenantIDs, SweepRefused(id) \/ SweepFails(id) PROVE Gone(u)'
  BY <1>1, <1>2, <1>6, NoRowIsNoRow DEF SweepRefused, SweepFails, Gone, dbVars, ErasureInv,
     IsolationInv, TypeOK
<1>7. CASE SweepReport
  BY <1>1, <1>2, <1>7 DEF SweepReport, Gone, dbVars
<1> QED
  BY <1>3, <1>4, <1>5, <1>6, <1>7 DEF Sweep

LEMMA DeletionErasure ==
    ASSUME ErasureInv, NEW d \in Deletions, Deletion(d), NEW u \in MetaUsers, erased'[u] = "clean"
    PROVE  Gone(u)'
<1>1. UNCHANGED <<login, sweepVars>>
  BY DEF Deletion, DeletionUnknown, DeletionLookup, DeletionCommit, DeletionFails
<1>2. ASSUME NEW id \in TenantIDs \cup {None}, Verdict(u, id) = "clean"
      PROVE  /\ \A l \in Logins : ~LoginHolds(l, u)
             /\ \A i \in TenantIDs : due[i].user # u /\ (tenants[i].user = u => i = id)
  BY <1>2 DEF Verdict, SweepHolds, ByMetaUser
<1>3. ASSUME NEW v \in MetaUsers, DeletionUnknown(d, v) PROVE Gone(u)'
  <2>1. CASE v = u
    <3>1. Verdict(u, None) = "clean"
      BY <1>3, <2>1 DEF DeletionUnknown, ErasureInv, IsolationInv, TypeOK
    <3> QED
      BY <1>1, <1>2, <1>3, <2>1, <3>1 DEF DeletionUnknown, Gone, LoginHolds, ByMetaUser, dbVars,
         sweepVars
  <2>2. CASE v # u
    BY <1>1, <1>3, <2>2 DEF DeletionUnknown, Gone, LoginHolds, dbVars, sweepVars, ErasureInv,
       IsolationInv, TypeOK
  <2> QED
    BY <2>1, <2>2
<1>4. ASSUME NEW v \in MetaUsers, DeletionLookup(d, v) PROVE Gone(u)'
  BY <1>1, <1>4 DEF DeletionLookup, Gone, LoginHolds, dbVars, sweepVars, history, ErasureInv
<1>5. CASE DeletionCommit(d)
  <2>1. deletion[d].user \in MetaUsers /\ deletion[d].id \in TenantIDs \cup {None}
    BY <1>5 DEF DeletionCommit, ErasureInv, IsolationInv, TypeOK
  <2>2. \A i \in TenantIDs : /\ tenants'[i].user # tenants[i].user => tenants'[i].user = None
                             /\ i = deletion[d].id => tenants'[i].user = None
    BY <1>5 DEF DeletionCommit, DeleteTenant, NoRow, ErasureInv, IsolationInv, TypeOK
  <2>3. u # None
    BY LifecycleAssumption DEF LifecycleAssumption
  <2>4. CASE deletion[d].user = u
    <3>1. Verdict(u, deletion[d].id) = "clean"
      BY <1>5, <2>4 DEF DeletionCommit, ErasureInv, IsolationInv, TypeOK
    <3> QED
      BY <1>1, <1>2, <2>1, <2>2, <2>3, <3>1 DEF Gone, LoginHolds, sweepVars
  <2>5. CASE deletion[d].user # u
    <3>1. Gone(u)
      BY <1>5, <2>1, <2>5 DEF DeletionCommit, ErasureInv, IsolationInv, TypeOK
    <3> QED
      BY <1>1, <2>2, <2>3, <3>1 DEF Gone, LoginHolds, sweepVars
  <2> QED
    BY <2>4, <2>5
<1>6. CASE DeletionFails(d)
  BY <1>1, <1>6 DEF DeletionFails, Gone, LoginHolds, dbVars, sweepVars, history, ErasureInv
<1> QED
  BY <1>3, <1>4, <1>5, <1>6 DEF Deletion

LEMMA NextErasure == ErasureInv /\ [Next]_vars => ErasureInv'
<1> SUFFICES ASSUME ErasureInv, [Next]_vars PROVE ErasureInv'
  OBVIOUS
<1>1. IsolationInv' /\ TypeOK'
  BY NextIsolation DEF ErasureInv, IsolationInv
<1> SUFFICES ASSUME NEW u \in MetaUsers, erased'[u] = "clean" PROVE Gone(u)'
  BY <1>1 DEF ErasureInv
<1>2. ASSUME UNCHANGED <<dbVars, login, sweepVars, erased>> PROVE Gone(u)'
  BY <1>2 DEF dbVars, sweepVars, ErasureInv, Gone, LoginHolds
<1>3. CASE UNCHANGED vars
  BY <1>2, <1>3 DEF vars, history
<1>4. ASSUME NEW v \in MetaUsers, Meta(v) PROVE Gone(u)'
  BY <1>2, <1>4 DEF Meta, Consent, RemoveApp, history
<1>5. ASSUME NEW s \in Syncs, Sync(s) PROVE Gone(u)'
  BY <1>5 DEF Sync, SyncLoad, SyncAccounts, SyncReplacePages, SyncFails, ReplacePages, dbVars,
     sweepVars, history, ErasureInv, Gone, LoginHolds
<1>6. CASE Tick
  BY <1>2, <1>6 DEF Tick, history
<1>7. CASE Crash
  BY <1>7, NoRowIsNoRow DEF Crash, dbVars, history, ErasureInv, Gone, LoginHolds, Idle, Working
<1> QED
  BY <1>1, <1>3, <1>4, <1>5, <1>6, <1>7, LoginErasure, SweepErasure, DeletionErasure DEF Next

\* Once a deletion that overlapped with no login and no sweep of the account
\* is acknowledged, the account has no tenant until it logs in again.
THEOREM CleanErasure == Spec => []CleanErasureIsFinal
<1>1. ErasureInv => CleanErasureIsFinal
  BY DEF ErasureInv, Gone, CleanErasureIsFinal, ByMetaUser
<1> QED
  BY <1>1, InitErasure, NextErasure, PTL DEF Spec

-----------------------------------------------------------------------------
(* Settled logins.  The stored token cannot fall behind a settled login    *)
(* because no row about to be written is behind it, and none is ahead of   *)
(* what Meta granted.  A row the sweep only listed may be behind: to be    *)
(* written it is exchanged first, and Meta exchanges none but the latest.  *)

\* row is at least as recent as the latest settled login of its account.
Recent(row) == row.token.grant >= settled[row.user]

HoldsRow(l) == login[l].step \in {"lookup", "upsert"}

SettledInv ==
    /\ IsolationInv
    /\ \A u \in MetaUsers : settled[u] <= grant[u]
    /\ \A id \in TenantIDs : tenants[id] # NoRow => Recent(tenants[id])
    /\ \A id \in TenantIDs : renewing = id => Recent(due[id])
    /\ \A l \in Logins : HoldsRow(l) =>
         Recent(login[l].row) /\ login[l].row.token.grant <= grant[login[l].row.user]

LEMMA InitSettled == Init => SettledInv
  BY InitIsolation, LifecycleAssumption DEF LifecycleAssumption, Init, SettledInv, HoldsRow, Idle,
     Working

LEMMA RowGrants ==
    ASSUME NEW row \in Row
    PROVE  row.user \in MetaUsers /\ row.token.grant \in Nat
  BY LifecycleAssumption DEF LifecycleAssumption, Row, Token

LEMMA HeldRow ==
    ASSUME TypeOK, NEW l \in Logins, HoldsRow(l)
    PROVE  login[l].row \in Row
  BY LoginHoldsRow DEF HoldsRow

LEMMA GrantsAreNat ==
    ASSUME TypeOK
    PROVE  \A u \in MetaUsers : grant[u] \in Nat /\ settled[u] \in Nat
  BY LifecycleAssumption DEF LifecycleAssumption, TypeOK

LEMMA LoginSettled ==
    ASSUME SettledInv, IsolationInv', NEW l \in Logins, Login(l)
    PROVE  SettledInv'
<1> DEFINE w == login[l]
<1>0. TypeOK
  BY DEF SettledInv, IsolationInv
<1>1. UNCHANGED <<metaVars, sweepVars>>
  BY DEF Login, LoginExchange, LoginLookup, LoginUpsert, LoginAccounts, LoginReplacePages,
     LoginReturn, LoginFails
<1>2. ASSUME NEW v \in MetaUsers, LoginExchange(l, v) PROVE SettledInv'
  <2>1. PICK lifetime \in Lifetimes :
          login' = [login EXCEPT ![l] = Working("lookup", None, LoginRow(v, lifetime), {})]
    BY <1>2 DEF LoginExchange
  <2>2. login'[l].row.user = v /\ login'[l].row.token.grant = grant[v]
    BY <1>0, <2>1 DEF Working, LoginRow, TypeOK
  <2>3. grant[v] >= settled[v] /\ grant[v] <= grant[v]
    BY <1>0, GrantsAreNat DEF SettledInv
  <2>4. \A k \in Logins \ {l} : login'[k] = login[k]
    BY <1>0, <2>1 DEF TypeOK
  <2>5. UNCHANGED <<grant, settled, tenants, due, renewing>>
    BY <1>2 DEF LoginExchange, metaVars, dbVars, sweepVars
  <2> QED
    BY <2>2, <2>3, <2>4, <2>5 DEF SettledInv, Recent, HoldsRow
<1>3. CASE LoginLookup(l)
  <2>1. /\ login'[l].row = w.row
        /\ \A k \in Logins \ {l} : login'[k] = login[k]
    BY <1>0, <1>3 DEF LoginLookup, Working, TypeOK
  <2>2. UNCHANGED <<grant, settled, tenants, due, renewing>> /\ HoldsRow(l)
    BY <1>3 DEF LoginLookup, HoldsRow, metaVars, dbVars, sweepVars, history
  <2> QED
    BY <2>1, <2>2 DEF SettledInv, Recent, HoldsRow
<1>4. CASE LoginUpsert(l)
  <2>1. w.row \in Row /\ w.id \in TenantIDs /\ HoldsRow(l)
    BY <1>0, <1>4, LoginHoldsRow DEF LoginUpsert, HoldsRow
  <2> DEFINE u == w.row.user
             g == w.row.token.grant
  <2>2. u \in MetaUsers /\ g \in Nat /\ g <= grant[u] /\ g >= settled[u]
    BY <2>1, RowGrants DEF SettledInv, Recent
  <2>3. /\ ~HoldsRow(l)'
        /\ \A k \in Logins \ {l} : login'[k] = login[k]
        /\ UNCHANGED <<grant, due, renewing>>
    BY <1>0, <1>4 DEF LoginUpsert, HoldsRow, Working, TypeOK, metaVars, sweepVars
  <2>4. \A i \in TenantIDs :
          \/ tenants'[i] = w.row
          \/ tenants'[i] = tenants[i] /\ tenants[i].user # u
    BY <1>4 DEF LoginUpsert, UpsertTenant, ByMetaUser
  <2>5. /\ \A v \in MetaUsers : v # u => settled'[v] = settled[v]
        /\ settled'[u] \in {g, settled[u]}
    BY <1>0, <1>4, <2>2 DEF LoginUpsert, TypeOK
  <2>6. settled'[u] = settled[u] \/
          /\ \A i \in TenantIDs : renewing = i => due[i].user # u
          /\ \A k \in Logins \ {l} : ~LoginHolds(k, u)
    BY <1>0, <1>4, <2>2 DEF LoginUpsert, SweepWrites, TypeOK
  <2>7. \A v \in MetaUsers : settled'[v] <= grant'[v]
    BY <2>2, <2>3, <2>5 DEF SettledInv
  <2>8. \A i \in TenantIDs : tenants'[i] # NoRow => Recent(tenants[i])' 
    <3> SUFFICES ASSUME NEW i \in TenantIDs, tenants'[i] # NoRow
                 PROVE  tenants'[i].token.grant >= settled'[tenants'[i].user]
      BY DEF Recent
    <3>1. CASE tenants'[i] = w.row
      BY <1>0, <2>2, <2>5, <3>1, GrantsAreNat
    <3>2. CASE tenants'[i] = tenants[i] /\ tenants[i].user # u
      <4>1. tenants[i].user \in MetaUsers
        BY <1>0, <3>2, RowUsers, RowGrants
      <4> QED
        BY <2>5, <3>2, <4>1 DEF SettledInv, Recent
    <3> QED
      BY <2>4, <3>1, <3>2
  <2>9. \A i \in TenantIDs : (renewing = i)' => Recent(due[i])'
    <3> SUFFICES ASSUME NEW i \in TenantIDs, renewing = i
                 PROVE  due[i].token.grant >= settled'[due[i].user]
      BY <2>3 DEF Recent
    <3>1. due[i].user \in MetaUsers
      BY <1>0, RowUsers, RowGrants, LifecycleAssumption DEF LifecycleAssumption, SettledInv,
         IsolationInv, Renewing
    <3> QED
      BY <2>5, <2>6, <3>1 DEF SettledInv, Recent
  <2>10. \A k \in Logins : HoldsRow(k)' =>
           Recent(login[k].row)' /\ (login[k].row.token.grant <= grant[login[k].row.user])'
    <3> SUFFICES ASSUME NEW k \in Logins, HoldsRow(k), k # l
                 PROVE  /\ login[k].row.token.grant >= settled'[login[k].row.user]
                        /\ login[k].row.token.grant <= grant[login[k].row.user]
      BY <2>3 DEF Recent, HoldsRow
    <3>1. login[k].row.user \in MetaUsers
      BY <1>0, HeldRow, RowGrants
    <3> QED
      BY <2>5, <2>6, <3>1 DEF SettledInv, Recent, HoldsRow, LoginHolds
  <2> QED
    BY <2>7, <2>8, <2>9, <2>10 DEF SettledInv
<1>5. CASE LoginAccounts(l) \/ LoginReplacePages(l) \/ LoginReturn(l) \/ LoginFails(l)
  <2>1. ~HoldsRow(l)' /\ \A k \in Logins \ {l} : login'[k] = login[k]
    BY <1>0, <1>5 DEF LoginAccounts, LoginReplacePages, LoginReturn, LoginFails, HoldsRow, Working,
       Idle, TypeOK
  <2>2. UNCHANGED <<grant, settled, tenants, due, renewing>>
    BY <1>5 DEF LoginAccounts, LoginReplacePages, ReplacePages, LoginReturn, LoginFails, metaVars,
       dbVars, sweepVars, history
  <2> QED
    BY <2>1, <2>2 DEF SettledInv, Recent, HoldsRow
<1> QED
  BY <1>2, <1>3, <1>4, <1>5 DEF Login

LEMMA SweepSettled ==
    ASSUME SettledInv, IsolationInv', Sweep
    PROVE  SettledInv'
<1>0. TypeOK
  BY DEF SettledInv, IsolationInv
<1>1. UNCHANGED <<grant, login, settled>>
  BY DEF Sweep, SweepList, SweepExchange, SweepUpsert, SweepRefused, SweepFails, SweepReport,
     metaVars, history
<1>2. ASSUME \A i \in TenantIDs : tenants'[i] # NoRow => Recent(tenants'[i]),
             \A i \in TenantIDs : renewing' = i => Recent(due'[i])
      PROVE  SettledInv'
  BY <1>1, <1>2 DEF SettledInv, Recent, HoldsRow
<1>3. CASE SweepList
  BY <1>2, <1>3 DEF SweepList, dbVars, SettledInv
<1>4. ASSUME NEW id \in TenantIDs, SweepExchange(id) PROVE SettledInv'
  <2>1. due[id] # NoRow /\ grant[due[id].token.user] = due[id].token.grant
    BY <1>4 DEF SweepExchange, NextDue, Works
  <2>2. due[id].user \in MetaUsers /\ due[id].token.user = due[id].user
    BY <1>0, <2>1, RowUsers, RowGrants DEF SettledInv, IsolationInv, SoundSweep, Sound
  <2>3. Recent(due[id])
    BY <1>0, <2>1, <2>2, GrantsAreNat DEF SettledInv, Recent
  <2>4. /\ due'[id].token = due[id].token /\ due'[id].user = due[id].user
        /\ renewing' = id /\ UNCHANGED dbVars
    BY <1>0, <1>4 DEF SweepExchange, Renewed, TypeOK
  <2> QED
    BY <1>1, <1>2, <2>3, <2>4 DEF Recent, dbVars, SettledInv
<1>5. ASSUME NEW id \in TenantIDs, SweepUpsert(id) PROVE SettledInv'
  <2>1. Recent(due[id])
    BY <1>5 DEF SweepUpsert, SettledInv
  <2>2. \A i \in TenantIDs : tenants'[i] \in {due[id], tenants[i]}
    BY <1>5 DEF SweepUpsert, UpsertTenant
  <2>3. renewing' = None
    BY <1>5 DEF SweepUpsert
  <2> QED
    BY <1>1, <1>2, <2>1, <2>2, <2>3, LifecycleAssumption DEF LifecycleAssumption, Recent, SettledInv
<1>6. ASSUME NEW id \in TenantIDs, SweepRefused(id) \/ SweepFails(id) PROVE SettledInv'
  <2>1. UNCHANGED dbVars /\ renewing' = None
    BY <1>6 DEF SweepRefused, SweepFails, NextDue
  <2> QED
    BY <1>1, <1>2, <2>1, LifecycleAssumption DEF LifecycleAssumption, Recent, SettledInv, dbVars
<1>7. CASE SweepReport
  BY <1>2, <1>7 DEF SweepReport, SettledInv, dbVars
<1> QED
  BY <1>3, <1>4, <1>5, <1>6, <1>7 DEF Sweep

LEMMA NextSettled == SettledInv /\ [Next]_vars => SettledInv'
<1> SUFFICES ASSUME SettledInv, [Next]_vars PROVE SettledInv'
  OBVIOUS
<1>0. TypeOK /\ IsolationInv'
  BY NextIsolation DEF SettledInv, IsolationInv
<1>1. ASSUME UNCHANGED <<grant, tenants, login, due, renewing, settled>> PROVE SettledInv'
  BY <1>0, <1>1 DEF SettledInv, Recent, HoldsRow
<1>2. CASE UNCHANGED vars
  BY <1>1, <1>2 DEF vars, metaVars, dbVars, sweepVars, history
<1>3. ASSUME NEW v \in MetaUsers, Meta(v) PROVE SettledInv'
  <2>1. UNCHANGED <<tenants, login, due, renewing, settled>>
    BY <1>3 DEF Meta, Consent, RemoveApp, dbVars, sweepVars, history
  <2>2. \A u \in MetaUsers : grant[u] <= grant'[u] /\ grant'[u] \in Nat
    BY <1>0, <1>3, GrantsAreNat DEF Meta, Consent, RemoveApp, TypeOK
  <2>3. \A u \in MetaUsers : settled[u] <= grant'[u]
    BY <1>0, <2>2, GrantsAreNat DEF SettledInv
  <2>4. \A l \in Logins : HoldsRow(l) => login[l].row.token.grant <= grant'[login[l].row.user]
    BY <1>0, <2>2, GrantsAreNat, HeldRow, RowGrants DEF SettledInv
  <2> QED
    BY <1>0, <2>1, <2>3, <2>4 DEF SettledInv, Recent, HoldsRow
<1>4. ASSUME NEW d \in Deletions, Deletion(d) PROVE SettledInv'
  <2>1. UNCHANGED <<grant, login, due, renewing, settled>>
    BY <1>4 DEF Deletion, DeletionUnknown, DeletionLookup, DeletionCommit, DeletionFails, metaVars,
       sweepVars, history
  <2>2. \A i \in TenantIDs : tenants'[i] \in {tenants[i], NoRow}
    BY <1>0, <1>4 DEF Deletion, DeletionUnknown, DeletionLookup, DeletionCommit, DeletionFails,
       DeleteTenant, dbVars, TypeOK
  <2> QED
    BY <1>0, <2>1, <2>2 DEF SettledInv, Recent, HoldsRow
<1>5. ASSUME NEW s \in Syncs, Sync(s) PROVE SettledInv'
  BY <1>1, <1>5 DEF Sync, SyncLoad, SyncAccounts, SyncReplacePages, SyncFails, ReplacePages,
     metaVars, dbVars, sweepVars, history
<1>6. CASE Tick
  BY <1>1, <1>6 DEF Tick, metaVars, dbVars, sweepVars, history
<1>7. CASE Crash
  BY <1>0, <1>7, LifecycleAssumption
     DEF LifecycleAssumption, Crash, metaVars, dbVars, history, SettledInv, Recent, HoldsRow, Idle,
         Working
<1> QED
  BY <1>0, <1>2, <1>3, <1>4, <1>5, <1>6, <1>7, LoginSettled, SweepSettled DEF Next

\* The token a login stored, while no other login of the account and no sweep
\* past its exchange was about to write, is only ever replaced by one of the same
\* or a later authorization, whatever older rows the sweep has listed.
THEOREM SettledLogin == Spec => []SettledLoginHolds
<1>1. SettledInv => SettledLoginHolds
  BY DEF SettledInv, Recent, SettledLoginHolds
<1> QED
  BY <1>1, InitSettled, NextSettled, PTL DEF Spec

-----------------------------------------------------------------------------
(* Refinement.  Under IsolationInv the registry's two variables read off   *)
(* the only row of each account.                                           *)

Mapping == \A u \in MetaUsers :
    /\ \A id \in TenantIDs : tenants[id].user = u => TenantOf[u] = id /\ PagesOf[u] = pages[id]
    /\ (\A id \in TenantIDs : tenants[id].user # u) => TenantOf[u] = None /\ PagesOf[u] = {}

LEMMA MappingHolds == IsolationInv => Mapping
<1> SUFFICES ASSUME IsolationInv, NEW u \in MetaUsers
             PROVE  /\ \A id \in TenantIDs :
                         tenants[id].user = u => TenantOf[u] = id /\ PagesOf[u] = pages[id]
                    /\ (\A id \in TenantIDs : tenants[id].user # u)
                         => TenantOf[u] = None /\ PagesOf[u] = {}
  BY DEF Mapping
<1>1. ASSUME NEW id \in TenantIDs, tenants[id].user = u
      PROVE  TenantOf[u] = id /\ PagesOf[u] = pages[id]
  <2>1. ByMetaUser(u) = {id}
    BY <1>1, NoRowIsNoRow DEF ByMetaUser, IsolationInv, OneRow
  <2> QED
    BY <2>1 DEF TenantOf, PagesOf
<1>2. ASSUME \A id \in TenantIDs : tenants[id].user # u
      PROVE  TenantOf[u] = None /\ PagesOf[u] = {}
  <2>1. ByMetaUser(u) = {}
    BY <1>2 DEF ByMetaUser
  <2> QED
    BY <2>1 DEF TenantOf, PagesOf
<1> QED
  BY <1>1, <1>2

LEMMA MappingHoldsNext == IsolationInv' => Mapping'
  BY MappingHolds, PTL

LEMMA RegistryFunctions ==
    /\ TenantOf = [u \in MetaUsers |-> TenantOf[u]]
    /\ PagesOf = [u \in MetaUsers |-> PagesOf[u]]
    /\ TenantOf' = [u \in MetaUsers |-> TenantOf'[u]]
    /\ PagesOf' = [u \in MetaUsers |-> PagesOf'[u]]
  BY DEF TenantOf, PagesOf

\* Writing the account of every row anew changes nothing the registry shows.
LEMMA Stutters ==
    ASSUME Mapping, Mapping', UNCHANGED pages,
           \A id \in TenantIDs : tenants'[id].user = tenants[id].user
    PROVE  UNCHANGED Registry!registryVars
<1>1. ASSUME NEW u \in MetaUsers
      PROVE  TenantOf'[u] = TenantOf[u] /\ PagesOf'[u] = PagesOf[u]
  <2>1. CASE \E id \in TenantIDs : tenants[id].user = u
    BY <2>1 DEF Mapping
  <2>2. CASE \A id \in TenantIDs : tenants[id].user # u
    <3>1. \A id \in TenantIDs : tenants'[id].user # u
      BY <2>2
    <3> QED
      BY <2>2, <3>1 DEF Mapping
  <2> QED
    BY <2>1, <2>2
<1>2. TenantOf' = TenantOf /\ PagesOf' = PagesOf
  BY <1>1, RegistryFunctions
<1> QED
  BY <1>2 DEF Registry!registryVars

LEMMA UpsertRefines ==
    ASSUME IsolationInv, IsolationInv', NEW id \in TenantIDs, NEW row \in Row,
           UpsertTenant(id, row)
    PROVE  Registry!RegistryNext \/ UNCHANGED Registry!registryVars
<1> DEFINE u == row.user
<1>0. Mapping /\ Mapping' /\ u \in MetaUsers
  BY MappingHolds, MappingHoldsNext DEF Row
<1>1. CASE ByMetaUser(u) # {}
  <2>1. pages' = pages /\ \A i \in TenantIDs : tenants'[i].user = tenants[i].user
    BY <1>1 DEF UpsertTenant, ByMetaUser
  <2> QED
    BY <1>0, <2>1, Stutters
<1>2. CASE ByMetaUser(u) = {}
  <2>1. /\ tenants[id] = NoRow /\ tenants'[id] = row /\ pages' = pages /\ pages[id] = {}
        /\ \A i \in TenantIDs : i # id => tenants'[i] = tenants[i]
    BY <1>2 DEF UpsertTenant, IsolationInv, NoOrphanPages
  <2>2. \A i \in TenantIDs : tenants[i].user # u
    BY <1>2 DEF ByMetaUser
  <2>3. TenantOf[u] = None /\ PagesOf[u] = {} /\ TenantOf'[u] = id /\ PagesOf'[u] = {}
    BY <1>0, <2>1, <2>2 DEF Mapping
  <2>4. \A v \in MetaUsers : v # u =>
          /\ TenantOf'[v] = TenantOf[v] /\ PagesOf'[v] = PagesOf[v] /\ TenantOf[v] # id
    <3> SUFFICES ASSUME NEW v \in MetaUsers, v # u
                 PROVE  /\ TenantOf'[v] = TenantOf[v] /\ PagesOf'[v] = PagesOf[v]
                        /\ TenantOf[v] # id
      OBVIOUS
    <3>1. CASE \E j \in TenantIDs : tenants[j].user = v
      <4>1. PICK j \in TenantIDs : tenants[j].user = v
        BY <3>1
      <4>2. j # id /\ tenants'[j].user = v
        BY <2>1, <4>1, NoRowIsNoRow
      <4> QED
        BY <1>0, <2>1, <4>1, <4>2 DEF Mapping
    <3>2. CASE \A j \in TenantIDs : tenants[j].user # v
      <4>1. \A j \in TenantIDs : tenants'[j].user # v
        BY <2>1, <3>2
      <4> QED
        BY <1>0, <3>2, <4>1, LifecycleAssumption DEF LifecycleAssumption, Mapping
    <3> QED
      BY <3>1, <3>2
  <2>5. \A v \in MetaUsers : TenantOf[v] # id
    BY <2>3, <2>4, LifecycleAssumption DEF LifecycleAssumption
  <2>6. TenantOf' = [TenantOf EXCEPT ![u] = id] /\ PagesOf' = PagesOf
    BY <1>0, <2>3, <2>4, RegistryFunctions
  <2>7. Registry!Enrol(u, id)
    BY <2>3, <2>5, <2>6 DEF Registry!Enrol
  <2> QED
    BY <1>0, <2>7 DEF Registry!RegistryNext
<1> QED
  BY <1>1, <1>2

LEMMA ReplaceRefines ==
    ASSUME IsolationInv, IsolationInv', NEW id \in TenantIDs, NEW u \in MetaUsers, Owns(id, u),
           NEW S \in SUBSET Manageable[u], ReplacePages(id, S)
    PROVE  Registry!RegistryNext \/ UNCHANGED Registry!registryVars
<1>0. Mapping /\ Mapping'
  BY MappingHolds, MappingHoldsNext
<1>1. CASE tenants[id] = NoRow
  <2>1. pages' = pages /\ tenants' = tenants
    BY <1>1 DEF ReplacePages, IsolationInv, TypeOK, NoOrphanPages
  <2> QED
    BY <1>0, <2>1, Stutters
<1>2. CASE tenants[id] # NoRow
  <2>1. tenants[id].user = u
    <3>1. tenants[id].user \in MetaUsers
      BY <1>2, RowUsers, RowGrants DEF IsolationInv
    <3> QED
      BY <3>1 DEF IsolationInv, OneOwner, Owns
  <2>2. /\ tenants' = tenants /\ pages'[id] = S
        /\ \A j \in TenantIDs : j # id => pages'[j] = pages[j]
    BY DEF ReplacePages, IsolationInv, TypeOK
  <2>3. TenantOf[u] = id /\ TenantOf'[u] = id /\ PagesOf'[u] = S
    BY <1>0, <2>1, <2>2 DEF Mapping
  <2>4. \A v \in MetaUsers : v # u => TenantOf'[v] = TenantOf[v] /\ PagesOf'[v] = PagesOf[v]
    <3> SUFFICES ASSUME NEW v \in MetaUsers, v # u
                 PROVE  TenantOf'[v] = TenantOf[v] /\ PagesOf'[v] = PagesOf[v]
      OBVIOUS
    <3>1. CASE \E j \in TenantIDs : tenants[j].user = v
      BY <1>0, <2>1, <2>2, <3>1 DEF Mapping
    <3>2. CASE \A j \in TenantIDs : tenants[j].user # v
      BY <1>0, <2>2, <3>2 DEF Mapping
    <3> QED
      BY <3>1, <3>2
  <2>5. TenantOf' = TenantOf /\ PagesOf' = [PagesOf EXCEPT ![u] = S]
    BY <2>3, <2>4, RegistryFunctions
  <2>6. Registry!FilePages(u, S)
    BY <2>3, <2>5, LifecycleAssumption DEF LifecycleAssumption, Registry!FilePages
  <2> QED
    BY <2>6 DEF Registry!RegistryNext
<1> QED
  BY <1>1, <1>2

LEMMA DeleteRefines ==
    ASSUME IsolationInv, IsolationInv', NEW id \in TenantIDs \cup {None}, DeleteTenant(id)
    PROVE  Registry!RegistryNext \/ UNCHANGED Registry!registryVars
<1>0. Mapping /\ Mapping'
  BY MappingHolds, MappingHoldsNext
<1>1. CASE id = None \/ tenants[id] = NoRow
  <2>1. \A j \in TenantIDs : tenants'[j] = tenants[j]
    BY <1>1, LifecycleAssumption DEF LifecycleAssumption, DeleteTenant, IsolationInv, TypeOK
  <2>2. pages' = pages
    BY <1>1, LifecycleAssumption DEF LifecycleAssumption, DeleteTenant, IsolationInv, TypeOK,
       NoOrphanPages
  <2> QED
    BY <1>0, <2>1, <2>2, Stutters
<1>2. CASE id \in TenantIDs /\ tenants[id] # NoRow
  <2> DEFINE u == tenants[id].user
  <2>1. u \in MetaUsers /\ TenantOf[u] = id
    BY <1>0, <1>2, RowUsers, RowGrants DEF IsolationInv, Mapping
  <2>2. /\ tenants'[id] = NoRow
        /\ \A j \in TenantIDs : j # id => tenants'[j] = tenants[j] /\ pages'[j] = pages[j]
    BY <1>2 DEF DeleteTenant, IsolationInv, TypeOK
  <2>3. \A j \in TenantIDs : tenants'[j].user # u
    <3>1. \A j \in TenantIDs : j # id => tenants[j].user # u
      BY <1>2 DEF IsolationInv, OneRow
    <3> QED
      BY <2>1, <2>2, <3>1, NoRowIsNoRow
  <2>4. TenantOf'[u] = None /\ PagesOf'[u] = {}
    BY <1>0, <2>1, <2>3 DEF Mapping
  <2>5. \A v \in MetaUsers : v # u => TenantOf'[v] = TenantOf[v] /\ PagesOf'[v] = PagesOf[v]
    <3> SUFFICES ASSUME NEW v \in MetaUsers, v # u
                 PROVE  TenantOf'[v] = TenantOf[v] /\ PagesOf'[v] = PagesOf[v]
      OBVIOUS
    <3>1. CASE \E j \in TenantIDs : tenants[j].user = v
      BY <1>0, <2>2, <3>1 DEF Mapping
    <3>2. CASE \A j \in TenantIDs : tenants[j].user # v
      <4>1. \A j \in TenantIDs : tenants'[j].user # v
        BY <2>2, <3>2, NoRowIsNoRow
      <4> QED
        BY <1>0, <3>2, <4>1 DEF Mapping
    <3> QED
      BY <3>1, <3>2
  <2>6. TenantOf' = [TenantOf EXCEPT ![u] = None] /\ PagesOf' = [PagesOf EXCEPT ![u] = {}]
    BY <2>1, <2>4, <2>5, RegistryFunctions
  <2>7. Registry!Erase(u)
    BY <1>2, <2>1, <2>6, LifecycleAssumption DEF LifecycleAssumption, Registry!Erase
  <2> QED
    BY <2>1, <2>7 DEF Registry!RegistryNext
<1> QED
  BY <1>1, <1>2

\* The five handlers that write the tables: every other step leaves them alone.
LEMMA StepWrites ==
    ASSUME [Next]_vars
    PROVE  \/ UNCHANGED dbVars
           \/ \E l \in Logins : LoginUpsert(l) \/ LoginReplacePages(l)
           \/ \E s \in Syncs : SyncReplacePages(s)
           \/ \E id \in TenantIDs : SweepUpsert(id)
           \/ \E d \in Deletions : DeletionCommit(d)
<1>1. CASE UNCHANGED vars
  BY <1>1 DEF vars
<1>2. ASSUME NEW u \in MetaUsers, Meta(u) PROVE UNCHANGED dbVars
  BY <1>2 DEF Meta, Consent, RemoveApp
<1>3. ASSUME NEW l \in Logins, Login(l)
      PROVE  UNCHANGED dbVars \/ LoginUpsert(l) \/ LoginReplacePages(l)
  BY <1>3 DEF Login, LoginExchange, LoginLookup, LoginAccounts, LoginReturn, LoginFails
<1>4. CASE Sweep
  BY <1>4 DEF Sweep, SweepList, SweepExchange, SweepRefused, SweepFails, SweepReport
<1>5. ASSUME NEW d \in Deletions, Deletion(d) PROVE UNCHANGED dbVars \/ DeletionCommit(d)
  BY <1>5 DEF Deletion, DeletionUnknown, DeletionLookup, DeletionFails
<1>6. ASSUME NEW s \in Syncs, Sync(s) PROVE UNCHANGED dbVars \/ SyncReplacePages(s)
  BY <1>6 DEF Sync, SyncLoad, SyncAccounts, SyncFails
<1>7. CASE Tick \/ Crash
  BY <1>7 DEF Tick, Crash
<1> QED
  BY <1>1, <1>2, <1>3, <1>4, <1>5, <1>6, <1>7 DEF Next

LEMMA StepRefines ==
    IsolationInv /\ IsolationInv' /\ [Next]_vars => [Registry!RegistryNext]_Registry!registryVars
<1> SUFFICES ASSUME IsolationInv, IsolationInv', [Next]_vars
             PROVE  Registry!RegistryNext \/ UNCHANGED Registry!registryVars
  OBVIOUS
<1>0. TypeOK
  BY DEF IsolationInv
<1>1. ASSUME UNCHANGED dbVars PROVE UNCHANGED Registry!registryVars
  BY <1>1, MappingHolds, MappingHoldsNext, Stutters DEF dbVars
<1>2. ASSUME NEW l \in Logins, LoginUpsert(l)
      PROVE  Registry!RegistryNext \/ UNCHANGED Registry!registryVars
  BY <1>0, <1>2, LoginHoldsRow, UpsertRefines DEF LoginUpsert
<1>3. ASSUME NEW l \in Logins, LoginReplacePages(l)
      PROVE  Registry!RegistryNext \/ UNCHANGED Registry!registryVars
  <2>1. login[l] # Idle /\ login[l].row \in Row /\ login[l].id \in TenantIDs
    BY <1>0, <1>3, LoginHoldsRow DEF LoginReplacePages
  <2>2. /\ login[l].row.user \in MetaUsers
        /\ Owns(login[l].id, login[l].row.user)
        /\ login[l].fetched \in SUBSET Manageable[login[l].row.user]
    BY <2>1, RowGrants DEF Owns, IsolationInv, SoundLogins
  <2> QED
    BY <1>3, <2>1, <2>2, ReplaceRefines DEF LoginReplacePages
<1>4. ASSUME NEW s \in Syncs, SyncReplacePages(s)
      PROVE  Registry!RegistryNext \/ UNCHANGED Registry!registryVars
  <2>1. sync[s] # Idle /\ sync[s].row \in Row /\ sync[s].id \in TenantIDs
    BY <1>0, <1>4, SyncHoldsRow DEF SyncReplacePages
  <2>2. /\ sync[s].row.user \in MetaUsers
        /\ Owns(sync[s].id, sync[s].row.user)
        /\ sync[s].fetched \in SUBSET Manageable[sync[s].row.user]
    BY <2>1, RowGrants DEF Owns, IsolationInv, SoundSyncs
  <2> QED
    BY <1>4, <2>1, <2>2, ReplaceRefines DEF SyncReplacePages
<1>5. ASSUME NEW id \in TenantIDs, SweepUpsert(id)
      PROVE  Registry!RegistryNext \/ UNCHANGED Registry!registryVars
  <2>1. due[id] \in Row
    BY <1>0, <1>5, RowUsers, LifecycleAssumption DEF LifecycleAssumption, SweepUpsert,
       IsolationInv, Renewing
  <2> QED
    BY <1>5, <2>1, UpsertRefines DEF SweepUpsert
<1>6. ASSUME NEW d \in Deletions, DeletionCommit(d)
      PROVE  Registry!RegistryNext \/ UNCHANGED Registry!registryVars
  <2>1. deletion[d].id \in TenantIDs \cup {None}
    BY <1>0 DEF TypeOK
  <2> QED
    BY <1>6, <2>1, DeleteRefines DEF DeletionCommit
<1> QED
  BY <1>1, <1>2, <1>3, <1>4, <1>5, <1>6, StepWrites

LEMMA InitRefines == Init => Registry!RegistryInit
<1> SUFFICES ASSUME Init PROVE Registry!RegistryInit
  OBVIOUS
<1>1. \A u \in MetaUsers : ByMetaUser(u) = {}
  BY NoRowIsNoRow DEF Init, ByMetaUser
<1>2. TenantOf = [u \in MetaUsers |-> None] /\ PagesOf = [u \in MetaUsers |-> {}]
  BY <1>1 DEF TenantOf, PagesOf
<1> QED
  BY <1>2 DEF Registry!RegistryInit

\* The tables implement the registry: an account keeps its one id, and its
\* pages are replaced as a whole, until both are erased in one step.
THEOREM Refinement == Spec => ImplementsRegistry
  BY InitIsolation, NextIsolation, InitRefines, StepRefines, PTL
     DEF Spec, ImplementsRegistry, Registry!RegistrySpec

-----------------------------------------------------------------------------
(* What the rest of the server builds on: the tenant id stands for the     *)
(* account.                                                                *)

\* The row of an account stays where it is, whatever is written into it, until
\* a deletion of that very id takes it, with its pages and every other trace
\* of the account in the tables.
KeepsId(id) == tenants[id] # NoRow =>
    \/ tenants'[id].user = tenants[id].user
    \/ /\ \E d \in Deletions : deletion[d].id = id /\ DeletionCommit(d)
       /\ pages'[id] = {}
       /\ \A j \in TenantIDs : tenants'[j].user # tenants[id].user

LEMMA UpsertKeepsId ==
    ASSUME TypeOK, NEW i \in TenantIDs, NEW row \in Row, UpsertTenant(i, row),
           NEW id \in TenantIDs, tenants[id] # NoRow
    PROVE  tenants'[id].user = tenants[id].user
<1>1. CASE ByMetaUser(row.user) # {}
  BY <1>1 DEF UpsertTenant, ByMetaUser
<1>2. CASE ByMetaUser(row.user) = {}
  BY <1>2 DEF UpsertTenant
<1> QED
  BY <1>1, <1>2

LEMMA DeletionKeepsOthers ==
    ASSUME IsolationInv, NEW d \in Deletions, DeletionCommit(d), NEW id \in TenantIDs,
           tenants[id] # NoRow
    PROVE  KeepsId(id)
<1>1. DeleteTenant(deletion[d].id) /\ tenants \in [TenantIDs -> Row \cup {NoRow}]
  BY DEF DeletionCommit, IsolationInv, TypeOK
<1>2. CASE deletion[d].id # id
  <2>1. tenants'[id] = tenants[id]
    BY <1>1, <1>2, LifecycleAssumption DEF LifecycleAssumption, DeleteTenant
  <2> QED
    BY <2>1 DEF KeepsId
<1>3. CASE deletion[d].id = id
  <2>1. /\ tenants'[id] = NoRow /\ pages'[id] = {}
        /\ \A j \in TenantIDs : j # id => tenants'[j] = tenants[j]
    BY <1>1, <1>3 DEF DeleteTenant, IsolationInv, TypeOK
  <2>2. \A j \in TenantIDs : tenants'[j].user # tenants[id].user
    <3>1. tenants[id].user \in MetaUsers
      BY RowUsers, RowGrants DEF IsolationInv
    <3>2. \A j \in TenantIDs : j # id => tenants[j].user # tenants[id].user
      BY DEF IsolationInv, OneRow
    <3> QED
      BY <2>1, <3>1, <3>2, NoRowIsNoRow
  <2> QED
    BY <1>3, <2>1, <2>2 DEF KeepsId
<1> QED
  BY <1>2, <1>3

LEMMA StepKeepsId ==
    ASSUME IsolationInv, [Next]_vars, NEW id \in TenantIDs
    PROVE  KeepsId(id)
<1> SUFFICES ASSUME tenants[id] # NoRow PROVE KeepsId(id)
  BY DEF KeepsId
<1>0. TypeOK
  BY DEF IsolationInv
<1>1. CASE UNCHANGED dbVars
  BY <1>1 DEF dbVars, KeepsId
<1>2. ASSUME NEW l \in Logins, LoginUpsert(l) PROVE KeepsId(id)
  BY <1>0, <1>2, LoginHoldsRow, UpsertKeepsId DEF LoginUpsert, KeepsId
<1>3. ASSUME NEW l \in Logins, LoginReplacePages(l) PROVE KeepsId(id)
  BY <1>3 DEF LoginReplacePages, ReplacePages, KeepsId
<1>4. ASSUME NEW s \in Syncs, SyncReplacePages(s) PROVE KeepsId(id)
  BY <1>4 DEF SyncReplacePages, ReplacePages, KeepsId
<1>5. ASSUME NEW i \in TenantIDs, SweepUpsert(i) PROVE KeepsId(id)
  <2>1. due[i] \in Row
    BY <1>0, <1>5, RowUsers, LifecycleAssumption DEF LifecycleAssumption, SweepUpsert,
       IsolationInv, Renewing
  <2> QED
    BY <1>0, <1>5, <2>1, UpsertKeepsId DEF SweepUpsert, KeepsId
<1> QED
  BY <1>1, <1>2, <1>3, <1>4, <1>5, DeletionKeepsOthers, StepWrites

\* An account is known under one tenant id, and no login, sweep or sync moves it
\* to another or hands its id to somebody else: only a deletion of that id takes
\* it away (UpsertTenant's ON CONFLICT(meta_user_id), the DELETE of DeleteTenant).
\* What the OAuth server and the tools store is the id alone.
THEOREM IdsAreKept == Spec => []OneRow /\ [][\A id \in TenantIDs : KeepsId(id)]_vars
<1>1. IsolationInv => OneRow
  BY DEF IsolationInv
<1>2. IsolationInv /\ [Next]_vars => [\A id \in TenantIDs : KeepsId(id)]_vars
  BY StepKeepsId
<1> QED
  BY <1>1, <1>2, InitIsolation, NextIsolation, PTL DEF Spec

-----------------------------------------------------------------------------
(* The sweep works through its list.                                       *)

\* The tenants a sweep has still to handle.
Listed == {id \in TenantIDs : due[id] # NoRow}

\* Everything but tenant id stays as it is in the sweep's hands.
OnlyMoves(id) == \A i \in TenantIDs \ {id} : due'[i] = due[i] /\ outcome'[i] = outcome[i]

\* Meta answered for a listed tenant, whose row is now to be written, ...
Exchanged(id) ==
    /\ renewing = None /\ renewing' = id
    /\ Listed' = Listed /\ outcome'[id] = outcome[id] /\ OnlyMoves(id)

\* ... or a listed tenant has its verdict and leaves the list.
Handled(id) ==
    /\ renewing \in {None, id} /\ renewing' = None
    /\ Listed' = Listed \ {id} /\ outcome'[id] # "none" /\ OnlyMoves(id)

SweepGoesOn == Listed # {} =>
    \/ UNCHANGED sweepVars
    \/ \E id \in Listed : Exchanged(id) \/ Handled(id)
    \/ Crash

LEMMA ListedSteps ==
    ASSUME IsolationInv, Sweep, Listed # {}
    PROVE  \E id \in Listed : Exchanged(id) \/ Handled(id)
<1>0. /\ due \in [TenantIDs -> Row \cup {NoRow}]
      /\ outcome \in [TenantIDs -> {"none", "renewed", "refused", "failed"}]
      /\ TypeOK
  BY DEF IsolationInv, TypeOK
<1>1. ~SweepList /\ ~SweepReport
  BY DEF SweepList, SweepReport, Listed
<1>2. ASSUME NEW id \in TenantIDs, SweepExchange(id) PROVE id \in Listed /\ Exchanged(id)
  <2>1. id \in Listed /\ due[id] \in Row
    BY <1>0, <1>2 DEF SweepExchange, NextDue, Listed
  <2>2. PICK lifetime \in Lifetimes : due' = [due EXCEPT ![id] = Renewed(due[id], lifetime)]
    BY <1>2 DEF SweepExchange
  <2>3. Renewed(due[id], lifetime) # NoRow
    BY <1>0, <2>1, RenewedType, NoRowIsNoRow
  <2>4. due'[id] # NoRow /\ \A i \in TenantIDs \ {id} : due'[i] = due[i]
    BY <1>0, <2>2, <2>3
  <2>5. Listed' = Listed
    BY <2>1, <2>4 DEF Listed
  <2> QED
    BY <1>2, <2>1, <2>4, <2>5 DEF SweepExchange, NextDue, Exchanged, OnlyMoves
<1>3. ASSUME NEW id \in TenantIDs, id \in Listed, renewing \in {None, id}, renewing' = None,
             due' = [due EXCEPT ![id] = NoRow],
             NEW verdict \in {"renewed", "refused", "failed"},
             outcome' = [outcome EXCEPT ![id] = verdict]
      PROVE  Handled(id)
  <2>1. /\ due'[id] = NoRow /\ outcome'[id] = verdict
        /\ \A i \in TenantIDs \ {id} : due'[i] = due[i] /\ outcome'[i] = outcome[i]
    BY <1>0, <1>3
  <2>2. Listed' = Listed \ {id}
    BY <1>3, <2>1 DEF Listed
  <2> QED
    BY <1>3, <2>1, <2>2 DEF Handled, OnlyMoves
<1>4. ASSUME NEW id \in TenantIDs, SweepUpsert(id) \/ SweepRefused(id) \/ SweepFails(id)
      PROVE  id \in Listed /\ Handled(id)
  <2>1. id \in Listed /\ renewing \in {None, id}
    <3>1. CASE NextDue(id)
      BY <1>4, <3>1 DEF NextDue, Listed
    <3>2. CASE renewing = id
      BY <3>2, LifecycleAssumption DEF LifecycleAssumption, IsolationInv, Renewing, Listed
    <3> QED
      BY <1>4, <3>1, <3>2 DEF SweepUpsert, SweepRefused, SweepFails
  <2>2. /\ renewing' = None /\ due' = [due EXCEPT ![id] = NoRow]
        /\ \E verdict \in {"renewed", "refused", "failed"} :
              outcome' = [outcome EXCEPT ![id] = verdict]
    BY <1>4 DEF SweepUpsert, SweepRefused, SweepFails, NextDue
  <2> QED
    BY <1>3, <2>1, <2>2
<1> QED
  BY <1>1, <1>2, <1>4 DEF Sweep

\* A sweep that has listed its tenants takes them up one at a time, gives each
\* one verdict in two steps at most, and neither forgets one nor takes another
\* up: a tenant that fails or is refused does not end it, no login or deletion
\* changes its list, and only a restart drops it (RefreshExpiringTokens, the loop
\* over due).  With the fairness of the sweep this is why it comes to its end.
THEOREM SweepsRunOut == Spec => [][SweepGoesOn]_vars
<1>1. IsolationInv /\ [Next]_vars => [SweepGoesOn]_vars
  <2> SUFFICES ASSUME IsolationInv, Next, Listed # {}
               PROVE  SweepGoesOn
    BY DEF SweepGoesOn
  <2>1. CASE Sweep
    BY <2>1, ListedSteps DEF SweepGoesOn
  <2>2. CASE ~Sweep /\ ~Crash
    <3>1. ASSUME NEW u \in MetaUsers, Meta(u) PROVE UNCHANGED sweepVars
      BY <3>1 DEF Meta, Consent, RemoveApp
    <3>2. ASSUME NEW l \in Logins, Login(l) PROVE UNCHANGED sweepVars
      BY <3>2 DEF Login, LoginExchange, LoginLookup, LoginUpsert, LoginAccounts,
         LoginReplacePages, LoginReturn, LoginFails
    <3>3. ASSUME NEW d \in Deletions, Deletion(d) PROVE UNCHANGED sweepVars
      BY <3>3 DEF Deletion, DeletionUnknown, DeletionLookup, DeletionCommit, DeletionFails
    <3>4. ASSUME NEW s \in Syncs, Sync(s) PROVE UNCHANGED sweepVars
      BY <3>4 DEF Sync, SyncLoad, SyncAccounts, SyncReplacePages, SyncFails
    <3>5. ASSUME Tick PROVE UNCHANGED sweepVars
      BY <3>5 DEF Tick
    <3> QED
      BY <2>2, <3>1, <3>2, <3>3, <3>4, <3>5 DEF Next, SweepGoesOn
  <2>3. CASE Crash
    BY <2>3 DEF SweepGoesOn
  <2> QED
    BY <2>1, <2>2, <2>3
<1> QED
  BY <1>1, InitIsolation, NextIsolation, PTL DEF Spec
=============================================================================
