------------------------------ MODULE GrantFlow ------------------------------
(***************************************************************************)
(* What the authorization server promises about one authorization request: *)
(* it is carried by one credential at a time, first a login state, then an *)
(* authorization code, then a chain of refresh tokens, and it moves along  *)
(* that line only.  Whatever is presented twice, lost or late, it is never *)
(* duplicated, never goes back and, once over, never comes back.           *)
(* OAuthServer implements this specification.                              *)
(***************************************************************************)
CONSTANT Flows      \* authorization requests

VARIABLE phase      \* phase[f]: what carries f at present, "none" before it began

Line == {<<"login", "code">>, <<"code", "session">>}

GrantInit == phase = [f \in Flows |-> "none"]

Begin(f) == phase[f] = "none" /\ phase' = [phase EXCEPT ![f] = "login"]

Advance(f) == \E stage \in {"code", "session"} :
    /\ <<phase[f], stage>> \in Line
    /\ phase' = [phase EXCEPT ![f] = stage]

\* Expiry, erasure, refusal, failure or a restart; it may hit several at once.
End ==
    /\ \A f \in Flows : phase'[f] \in {phase[f], "over"}
    /\ phase' = [f \in Flows |-> phase'[f]]

GrantNext == End \/ \E f \in Flows : Begin(f) \/ Advance(f)

GrantSpec == GrantInit /\ [][GrantNext]_phase
=============================================================================
