---------------------------- MODULE AccessTokens ----------------------------
(***************************************************************************)
(* The access tokens of the MCP endpoint, JWTs that are signed and never   *)
(* stored: any process that runs with the same signing key and public URL  *)
(* accepts them, until they expire.  The clock runs in ticks, Second of    *)
(* them to a second; "exp" is in whole seconds.  A signature is the key it *)
(* was made with; a token that is malformed or of another algorithm is     *)
(* refused and left out.                                                   *)
(***************************************************************************)
EXTENDS Integers

CONSTANT Second         \* ticks in a second

ASSUME SecondAssumption == Second \in Nat \ {0}

\* Mutant: rounded up.
MintedUp(config, tenantID, now) ==
    [key |-> config.signingKey, iss |-> config.site, aud |-> config.site, sub |-> tenantID,
     exp |-> (now + config.lifetime + Second - 1) \div Second]

\* MintAccessToken: the expiry is rounded down to the second it falls in.
Minted(config, tenantID, now) ==
    [key |-> config.signingKey, iss |-> config.site, aud |-> config.site, sub |-> tenantID,
     exp |-> (now + config.lifetime) \div Second]

\* "expires_in" of the response, counted from when the response is written and
\* truncated to whole seconds.
ExpiresIn(expiry, now) ==
    IF now <= expiry THEN (expiry - now) \div Second ELSE -((now - expiry) \div Second)

\* VerifyAccessToken: the signature, the issuer and audience, the expiry.
VerifyAccessToken(config, token, now) ==
    /\ token.key = config.signingKey
    /\ token.iss = config.site /\ token.aud = config.site
    /\ token.exp # 0 /\ now < token.exp * Second
=============================================================================
