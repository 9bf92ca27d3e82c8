---------------------------- MODULE ConfirmedWrite ----------------------------
(***************************************************************************)
(* What a write tool promises about one call: it changes nothing at Meta   *)
(* unless the user confirmed, it changes one thing at most, and its answer *)
(* can be relied upon: done means done and refused means nothing happened. *)
(* Publishing implements this specification.                               *)
(***************************************************************************)
EXTENDS Naturals

CONSTANTS Calls     \* tool calls

VARIABLES
    confirmed,      \* confirmed[c]: the call carries confirm=true
    effects,        \* effects[c]: what users of Meta can see of it
    answer          \* answer[c]: "none" before the call, "pending" during it

writeVars == <<confirmed, effects, answer>>

WriteInit ==
    /\ confirmed = [c \in Calls |-> FALSE]
    /\ effects = [c \in Calls |-> 0]
    /\ answer = [c \in Calls |-> "none"]

Ask(c, ok) ==
    /\ answer[c] = "none"
    /\ confirmed' = [confirmed EXCEPT ![c] = ok]
    /\ \E a \in {"refused", IF ok THEN "pending" ELSE "preview"} :
        answer' = [answer EXCEPT ![c] = a]
    /\ UNCHANGED effects

\* The one change; nobody may ever hear of it.
Write(c) ==
    /\ answer[c] = "pending" /\ effects[c] = 0
    /\ effects' = [effects EXCEPT ![c] = 1]
    /\ \E a \in {"pending", "done", "failed"} : answer' = [answer EXCEPT ![c] = a]
    /\ UNCHANGED confirmed

Answer(c) ==
    /\ answer[c] = "pending"
    /\ \E a \in {"failed", IF effects[c] = 0 THEN "refused" ELSE "done"} :
        answer' = [answer EXCEPT ![c] = a]
    /\ UNCHANGED <<confirmed, effects>>

WriteNext == \E c \in Calls : Write(c) \/ Answer(c) \/ \E ok \in BOOLEAN : Ask(c, ok)

WriteSpec == WriteInit /\ [][WriteNext]_writeVars
=============================================================================
