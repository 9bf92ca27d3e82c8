-------------------------- MODULE MCServerProcess --------------------------
(***************************************************************************)
(* ServerProcess on a small instance: two slots over one database, two     *)
(* releases, and what an operator may set, right or wrong.                 *)
(***************************************************************************)
EXTENDS ServerProcess, TLC

CONSTANTS site, newSite, oldKey, newKey

\* One setting, the others mandatory and sound, or absent.
Absent == [form |-> "absent", id |-> None, size |-> 0]
Plain  == [name \in Settings |-> IF name \in Mandatory THEN Sound(None, KeySize) ELSE Absent]
Base   == [Plain EXCEPT !["PUBLIC_URL"] = Sound(site, 0), !["JWT_SIGNING_KEY"] = Sound(oldKey, KeySize)]

\* The key is changed for a longer one, and tokens live for half a second; the
\* server moves to another URL; the cipher key is too long.
Rotated == [Base EXCEPT !["JWT_SIGNING_KEY"] = Sound(newKey, KeySize + 1),
                        !["ACCESS_TOKEN_TTL"] = Sound(None, 1)]
Moved   == [Base EXCEPT !["PUBLIC_URL"] = Sound(newSite, 0)]
LongKey == [Base EXCEPT !["TOKEN_CIPHER_KEY"] = Sound(None, KeySize + 1)]

\* Upgrades and rollbacks, with a new key, a new URL or neither, and one that
\* cannot start.
UpAndDown ==
    {[release |-> 1, environment |-> Base], [release |-> 2, environment |-> Base],
     [release |-> 2, environment |-> Rotated], [release |-> 2, environment |-> Moved],
     [release |-> 2, environment |-> LongKey]}
=============================================================================
