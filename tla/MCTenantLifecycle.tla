-------------------------- MODULE MCTenantLifecycle --------------------------
(***************************************************************************)
(* Instances of TenantLifecycle for TLC.                                   *)
(***************************************************************************)
EXTENDS TenantLifecycle, TLC

CONSTANTS alice, bob, carol, p1, p2

\* carol, who may administer both Pages, is not on the list of allowed accounts.
OnePageEach == (alice :> {p1}) @@ (bob :> {p2}) @@ (carol :> {p1, p2})
NoPages     == (alice :> {}) @@ (bob :> {})
AlicePage   == (alice :> {p1})

\* Tenant ids are interchangeable, and so are two accounts with a Page each.
SwapAccounts == (alice :> bob) @@ (bob :> alice) @@ (p1 :> p2) @@ (p2 :> p1)
SameAccounts == (alice :> alice) @@ (bob :> bob) @@ (p1 :> p1) @@ (p2 :> p2)
Symmetric    == {f @@ g : f \in Permutations(TenantIDs), g \in {SwapAccounts, SameAccounts}}
IdsAndLogins == {f @@ g : f \in Permutations(TenantIDs), g \in Permutations(Logins)}
=============================================================================
