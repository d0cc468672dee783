---------------------------- MODULE MCKeyRotation ----------------------------
(* Small instances of KeyRotation.                                         *)
EXTENDS KeyRotation, TLC

MCTexts == {"", "false", "true", "info", ":9080", "localhost", "session", "sqlite", "postgresql",
            "x", "default secret", "auth1", "auth2", "auth3", "enc16", "enc64", "db1", "db2", "db3"}

MCSize == [t \in MCTexts |->
             CASE t = "" -> 0
               [] t \in {"default secret", "auth1", "auth2", "auth3", "db1", "db2", "db3"} -> 32
               [] t = "enc16" -> 16
               [] t = "enc64" -> 64
               [] OTHER -> 8]

\* The settings every deployment has, and the secrets of one.
Base == [n \in {Key(p) : p \in (Mandatory \cup {"DB_NAME"}) \ {"LISTEN_ADDR", "COOKIE_NAME"}} |-> "x"]

Secrets == {Key(p) : p \in {"SESSION_AUTH_SECRET", "SESSION_ENC_SECRET",
    "SESSION_OLD_AUTH_SECRET", "SESSION_OLD_ENC_SECRET", "SESSION_DB_KEY", "SESSION_OLD_DB_KEY"}}

Deploy(auth, enc, oldAuth, oldEnc, db, oldDB) ==
    [flags |-> Empty,
     env   |-> [n \in Secrets |->
                  CASE n = Key("SESSION_AUTH_SECRET") -> auth
                    [] n = Key("SESSION_ENC_SECRET") -> enc
                    [] n = Key("SESSION_OLD_AUTH_SECRET") -> oldAuth
                    [] n = Key("SESSION_OLD_ENC_SECRET") -> oldEnc
                    [] n = Key("SESSION_DB_KEY") -> db
                    [] n = Key("SESSION_OLD_DB_KEY") -> oldDB],
     file  |-> [n \in DOMAIN Base \ Secrets |-> Base[n]]]

\* Two rotations of every key, the old keys dropped, encryption of the rows
\* turned off, and a key of a size that does not work.
Rotations ==
    {Deploy("auth1", "", "", "", "db1", ""),
     Deploy("auth2", "enc16", "auth1", "", "db2", "db1"),
     Deploy("auth3", "", "auth2", "enc16", "db3", "db2"),
     Deploy("auth2", "enc16", "", "", "db2", ""),
     Deploy("auth1", "", "", "", "", ""),
     Deploy("auth1", "enc64", "", "", "db1", "")}

=============================================================================
