--------------------------- MODULE Configuration ---------------------------
(***************************************************************************)
(* config.Load: from the environment of the process to the configuration   *)
(* it runs with, or a refusal to start.  A setting is abstracted to its    *)
(* form (absent, which blank is too; garbled, which does not parse; sound, *)
(* which does), the identity of its value and its size: bytes of a key     *)
(* once decoded, a duration, a port.  Settings that are taken as they are  *)
(* (LISTEN_ADDR, DB_PATH, META_SCOPES, ..) are left out.                   *)
(***************************************************************************)
EXTENDS Integers

CONSTANTS
    KeySize,            \* cipherKeyLen, minSigningKeyLen
    MaxPort,            \* the last TCP port
    DefaultAccessTokenTTL

ASSUME ConfigurationAssumption ==
    /\ KeySize \in Nat \ {0} /\ MaxPort \in Nat \ {0}
    /\ DefaultAccessTokenTTL \in Nat \ {0}

Mandatory == {"PUBLIC_URL", "META_APP_ID", "META_APP_SECRET", "TOKEN_CIPHER_KEY", "JWT_SIGNING_KEY"}
Durations == {"ACCESS_TOKEN_TTL", "REFRESH_TOKEN_TTL"}
Settings  == Mandatory \cup Durations \cup {"LOOPBACK_RELAY_PORT", "LOG_FORMAT", "META_GRAPH_VERSION"}

Sound(id, size) == [form |-> "sound", id |-> id, size |-> size]

\* Mutant: the sizes are not looked at.
AcceptedAnySize(name, setting) ==
    IF setting.form = "absent" THEN name \notin Mandatory ELSE setting.form = "sound"

\* parsePublicURL, decodeKey, parseDuration and the checks of Load: what each
\* setting must be.  The cipher key has one size, the signing key a least one.
Accepted(name, setting) ==
    IF setting.form = "absent" THEN name \notin Mandatory
    ELSE /\ setting.form = "sound"
         /\ name = "TOKEN_CIPHER_KEY"    => setting.size = KeySize
         /\ name = "JWT_SIGNING_KEY"     => setting.size >= KeySize
         /\ name = "LOOPBACK_RELAY_PORT" => setting.size \in 1..MaxPort
         /\ name \in Durations           => setting.size > 0

Loads(environment) == \A name \in Settings : Accepted(name, environment[name])

\* The part of Config the running process is told apart by.
ConfigOf(environment) ==
    [site       |-> environment["PUBLIC_URL"].id,
     signingKey |-> environment["JWT_SIGNING_KEY"].id,
     cipherSize |-> environment["TOKEN_CIPHER_KEY"].size,
     lifetime   |-> IF environment["ACCESS_TOKEN_TTL"].form = "absent"
                    THEN DefaultAccessTokenTTL
                    ELSE environment["ACCESS_TOKEN_TTL"].size]
=============================================================================
