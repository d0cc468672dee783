---------------------------- MODULE Configuration ----------------------------
(***************************************************************************)
(* How config.go puts a configuration together from the command line, the  *)
(* environment and a file, what configValidate asks of it, and the keys    *)
(* sessions/configuration.go makes of it for the cookie store.             *)
(*                                                                         *)
(* A value is a text; of a secret only its size and its identity count.  A *)
(* name is a setting and the separator of its words: flags are declared as *)
(* "cookie-domain", viper and Config know "cookie_domain" (in any case).   *)
(***************************************************************************)
EXTENDS Naturals, Sequences

CONSTANTS
    Texts,   \* the values settings may have, "" and the defaults included
    Size     \* Size[t]: the length of t in bytes

Settings ==
    {"IS_PRODUCTION", "LOG_LEVEL", "OIDC_ISSUER", "OIDC_CLIENT_ID", "OIDC_CLIENT_SECRET",
     "OIDC_REDIRECT_URL", "OIDC_POST_LOGIN_REDIRECT_URL", "OIDC_POST_LOGOUT_REDIRECT_URL",
     "LISTEN_ADDR", "COOKIE_DOMAIN", "COOKIE_NAME", "SESSION_AUTH_SECRET",
     "SESSION_ENC_SECRET", "SESSION_OLD_AUTH_SECRET", "SESSION_OLD_ENC_SECRET",
     "SESSION_DB_KEY", "SESSION_OLD_DB_KEY", "PROXY_CONFIG", "DB_TYPE", "DB_HOST",
     "DB_NAME", "DB_USERNAME", "DB_PASSWORD"}

\* The defaults that are not empty.
Default(p) ==
    CASE p = "IS_PRODUCTION" -> "false"
      [] p = "LOG_LEVEL" -> "info"
      [] p = "LISTEN_ADDR" -> ":9080"
      [] p = "COOKIE_DOMAIN" -> "localhost"
      [] p = "COOKIE_NAME" -> "session"
      [] p = "SESSION_AUTH_SECRET" -> "default secret"
      [] p = "DB_TYPE" -> "sqlite"
      [] OTHER -> ""

ASSUME ConfigurationAssumption ==
    /\ Size \in [Texts -> Nat]
    /\ "" \in Texts
    /\ {Default(p) : p \in Settings} \subseteq Texts
    /\ \A t \in Texts : Size[t] = 0 <=> t = ""
    /\ Size["default secret"] = 32

-----------------------------------------------------------------------------
(* LoadConfig.                                                             *)

Name == [setting : Settings, sep : {"_", "-"}]
Key(p) == [setting |-> p, sep |-> "_"]
FlagName(p) == [setting |-> p, sep |-> "-"]

\* What one deployment gives: each layer is a function on the names it mentions.
IsLayer(f) == DOMAIN f \subseteq Name /\ \A n \in DOMAIN f : f[n] \in Texts
Empty == [n \in {} |-> ""]

\* pflag.Parse ends the program on a flag nobody declared.
FlagsKnown(flags) == DOMAIN flags \subseteq {FlagName(p) : p \in Settings}

\* Viper's order: a flag that was given, the environment (where an empty value
\* is no value), the file, the default.
Lookup(l, n) ==
    IF n \in DOMAIN l.flags THEN l.flags[n]
    ELSE IF n \in DOMAIN l.env /\ l.env[n] # "" THEN l.env[n]
    ELSE IF n \in DOMAIN l.file THEN l.file[n]
    ELSE Default(n.setting)

\* viper.Unmarshal asks for the keys of Config.
Unmarshal(l) == [p \in Settings |-> Lookup(l, Key(p))]

-----------------------------------------------------------------------------
(* configValidate; the first rule that is broken gives the error.          *)

Mandatory ==
    {"OIDC_ISSUER", "OIDC_CLIENT_ID", "OIDC_CLIENT_SECRET", "OIDC_REDIRECT_URL",
     "OIDC_POST_LOGIN_REDIRECT_URL", "OIDC_POST_LOGOUT_REDIRECT_URL", "LISTEN_ADDR",
     "COOKIE_DOMAIN", "COOKIE_NAME", "SESSION_AUTH_SECRET"}

\* The settings a database of this type cannot do without.
DBMandatory(type) ==
    IF type = "sqlite" THEN {"DB_NAME"}
    ELSE {"DB_HOST", "DB_NAME", "DB_USERNAME", "DB_PASSWORD"}

\* Mutant of EncSizes: the sizes that appendSlice tests for.
EncSizesOfStore == {0, 16, 24, 32, 64}

\* The sizes of an encryption secret that configValidate lets pass.
EncSizes == {0, 16, 24, 32}

configValidate(c) ==
    /\ \A p \in Mandatory : c[p] # ""
    /\ c["IS_PRODUCTION"] = "true" =>
         \A p \in {"COOKIE_DOMAIN", "SESSION_AUTH_SECRET"} : c[p] # Default(p)
    /\ Size[c["SESSION_AUTH_SECRET"]] \in {32, 64}
    /\ Size[c["SESSION_ENC_SECRET"]] \in EncSizes
    /\ Size[c["SESSION_OLD_AUTH_SECRET"]] \in {0, 32, 64}
    /\ Size[c["SESSION_OLD_ENC_SECRET"]] \in EncSizes
    /\ Size[c["SESSION_DB_KEY"]] \in {0, 32}
    /\ Size[c["SESSION_OLD_DB_KEY"]] \in {0, 32}
    /\ c["DB_TYPE"] \in {"sqlite", "postgresql"}
    /\ \A p \in DBMandatory(c["DB_TYPE"]) : c[p] # ""

\* LoadConfig returns a configuration (IS_PRODUCTION must parse as a bool).
LoadConfig(l) ==
    /\ FlagsKnown(l.flags)
    /\ Unmarshal(l)["IS_PRODUCTION"] \in {"true", "false"}
    /\ configValidate(Unmarshal(l))

-----------------------------------------------------------------------------
(* The keys of the cookie store (sessions/configuration.go).               *)

NewKeyPair(c) == [auth |-> c["SESSION_AUTH_SECRET"], enc |-> c["SESSION_ENC_SECRET"]]
OldKeyPair(c) == [auth |-> c["SESSION_OLD_AUTH_SECRET"], enc |-> c["SESSION_OLD_ENC_SECRET"]]

KeyPairs == [auth : Texts, enc : Texts]

\* The slice with one more pair, or an error for a key of another size.
appendSlice(slice, kp) ==
    IF Size[kp.auth] \in {32, 64} /\ Size[kp.enc] \in {0, 16, 32, 64}
    THEN [err |-> FALSE, pairs |-> Append(slice, kp)]
    ELSE [err |-> TRUE, pairs |-> <<>>]

\* Mutant of keyPairsAsSlice: the old pair is never looked at.
keyPairsNewOnly(c) == appendSlice(<<>>, NewKeyPair(c))

\* The old pair is appended to an empty slice: if there is one, it is alone.
keyPairsAsSlice(c) ==
    IF NewKeyPair(c).auth = "" THEN [err |-> FALSE, pairs |-> <<>>]
    ELSE IF appendSlice(<<>>, NewKeyPair(c)).err \/ OldKeyPair(c).auth = ""
    THEN appendSlice(<<>>, NewKeyPair(c))
    ELSE appendSlice(<<>>, OldKeyPair(c))

\* securecookie (external): EncodeMulti uses the first pair it can work with,
\* and AES wants a key of 16, 24 or 32 bytes; DecodeMulti tries every pair.
Usable(kp) == Size[kp.enc] \in {0, 16, 24, 32}
Encodes(pairs) == \E i \in DOMAIN pairs : Usable(pairs[i])
Encoder(pairs) ==
    pairs[CHOOSE i \in DOMAIN pairs :
            Usable(pairs[i]) /\ \A j \in 1 .. i - 1 : ~Usable(pairs[j])]
Decodes(pairs, kp) == \E i \in DOMAIN pairs : pairs[i] = kp

=============================================================================
