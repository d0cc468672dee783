---------------------------- MODULE MCServerLife -----------------------------
(* Small instances of ServerLife.                                          *)
EXTENDS ServerLife

MCTexts == {"", "false", "true", "maybe", "info", "loud", ":9080", "localhost", "example.org",
            "session", "sqlite", "postgresql", "other", "x", "proxy.yaml", "default secret",
            "auth14", "auth32", "enc16", "enc24", "enc64", "db16", "db32"}

MCSize == [t \in MCTexts |->
             CASE t = "" -> 0
               [] t \in {"default secret", "auth32", "db32"} -> 32
               [] t = "auth14" -> 14
               [] t \in {"enc16", "db16"} -> 16
               [] t = "enc24" -> 24
               [] t = "enc64" -> 64
               [] OTHER -> 8]

\* The file of a deployment that works.
Base ==
    [flags |-> Empty,
     env   |-> Empty,
     file  |-> [n \in {Key(p) : p \in {"DB_NAME", "DB_HOST", "DB_USERNAME", "DB_PASSWORD",
                    "OIDC_ISSUER", "OIDC_CLIENT_ID", "OIDC_CLIENT_SECRET", "OIDC_REDIRECT_URL",
                    "OIDC_POST_LOGIN_REDIRECT_URL", "OIDC_POST_LOGOUT_REDIRECT_URL"}} |-> "x"]]

EnvEdit(p, t) == [layer |-> "env", name |-> Key(p), value |-> t]

\* One value, at least, for every rule a configuration can break.
AllEdits ==
    {EnvEdit("IS_PRODUCTION", "true"), EnvEdit("IS_PRODUCTION", "maybe"),
     EnvEdit("LOG_LEVEL", "loud"), EnvEdit("COOKIE_DOMAIN", "example.org"),
     EnvEdit("SESSION_AUTH_SECRET", "auth14"), EnvEdit("SESSION_AUTH_SECRET", "auth32"),
     EnvEdit("SESSION_ENC_SECRET", "enc24"), EnvEdit("SESSION_OLD_AUTH_SECRET", "auth32"),
     EnvEdit("SESSION_OLD_ENC_SECRET", "enc64"), EnvEdit("SESSION_DB_KEY", "db16"),
     EnvEdit("DB_TYPE", "postgresql"), EnvEdit("PROXY_CONFIG", "proxy.yaml"),
     [layer |-> "file", name |-> Key("OIDC_ISSUER"), value |-> ""],
     [layer |-> "file", name |-> Key("DB_HOST"), value |-> ""],
     [layer |-> "flags", name |-> FlagName("COOKIE_DOMAIN"), value |-> "example.org"],
     [layer |-> "flags", name |-> Key("COOKIE_DOMAIN"), value |-> "example.org"]}

=============================================================================
