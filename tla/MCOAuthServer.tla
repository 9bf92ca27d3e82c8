---------------------------- MODULE MCOAuthServer ----------------------------
(***************************************************************************)
(* Instances of OAuthServer for TLC.  Secrets, and concurrent requests,    *)
(* are interchangeable.                                                    *)
(***************************************************************************)
EXTENDS OAuthServer, TLC

Symmetric == {f @@ g : f \in Permutations(Secrets), g \in Permutations(Requests)}
=============================================================================
