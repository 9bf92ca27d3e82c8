--------------------------- MODULE TenantRegistry ---------------------------
(***************************************************************************)
(* What the tenant tables promise to the rest of the server: a Facebook    *)
(* account is known under at most one tenant id, keeps that id until its   *)
(* data is erased, and the pages filed under it are pages that very        *)
(* account may administer.  The OAuth server and the MCP tools rely on     *)
(* nothing else.  TenantLifecycle implements this specification.           *)
(***************************************************************************)
CONSTANTS
    MetaUsers,      \* Facebook accounts
    TenantIDs,      \* tenant ids (uuids)
    Manageable,     \* Manageable[u]: the pages account u may ever administer
    None            \* no tenant

VARIABLES
    tenantOf,       \* tenantOf[u]: the tenant id of u, or None
    pagesOf         \* pagesOf[u]: the pages filed under that tenant

registryVars == <<tenantOf, pagesOf>>

RegistryInit ==
    /\ tenantOf = [u \in MetaUsers |-> None]
    /\ pagesOf  = [u \in MetaUsers |-> {}]

\* A first login, or a late write that brings an erased account back.
Enrol(u, id) ==
    /\ tenantOf[u] = None
    /\ \A v \in MetaUsers : tenantOf[v] # id
    /\ tenantOf' = [tenantOf EXCEPT ![u] = id]
    /\ UNCHANGED pagesOf

\* The page list of a known account is replaced as a whole.
FilePages(u, S) ==
    /\ tenantOf[u] # None
    /\ S \subseteq Manageable[u]
    /\ pagesOf' = [pagesOf EXCEPT ![u] = S]
    /\ UNCHANGED tenantOf

\* A data deletion takes the id and the pages in one step.
Erase(u) ==
    /\ tenantOf[u] # None
    /\ tenantOf' = [tenantOf EXCEPT ![u] = None]
    /\ pagesOf'  = [pagesOf EXCEPT ![u] = {}]

RegistryNext ==
    \E u \in MetaUsers :
        \/ \E id \in TenantIDs : Enrol(u, id)
        \/ \E S \in SUBSET Manageable[u] : FilePages(u, S)
        \/ Erase(u)

RegistrySpec == RegistryInit /\ [][RegistryNext]_registryVars
=============================================================================
