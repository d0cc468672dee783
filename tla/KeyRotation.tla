----------------------------- MODULE KeyRotation -----------------------------
(***************************************************************************)
(* The keys over several lives of the process: cookies stay in browsers and*)
(* rows in the database while the process is stopped and started again with*)
(* other secrets.  A cookie can be read with the key pair it was encoded   *)
(* with, the tokens of a row with the key they were encrypted with.        *)
(*                                                                         *)
(* What a request does to tokens and time is modelled in TokenHandler; here*)
(* a request is one step and time is what is left of it: a cookie or a     *)
(* token has so many ticks to live.  A request that changes neither cookies*)
(* nor rows, as it fails or its token is still good, is no step.           *)
(***************************************************************************)
EXTENDS Configuration, Integers

CONSTANTS
    Browsers,
    SessionIDs,
    Deployments,     \* the configurations the operator may start the process with
    LoginTimeout,    \* ticks a login cookie lives (5 minutes in main.go)
    SessionTimeout,  \* ticks a session cookie lives (30 minutes)
    TokenLife,       \* ticks an access token lives
    MaxLives,        \* bound: how often the process is started
    None

ASSUME RotationAssumption ==
    /\ \A l \in Deployments : /\ IsLayer(l.flags) /\ IsLayer(l.env) /\ IsLayer(l.file)
                              /\ Unmarshal(l)["SESSION_OLD_DB_KEY"] # "" =>
                                   Unmarshal(l)["SESSION_DB_KEY"] # ""
    /\ LoginTimeout \in Nat \ {0}
    /\ SessionTimeout \in Nat \ {0}
    /\ TokenLife \in Nat
    /\ MaxLives \in Nat

VARIABLES
    up,       \* is a process running?
    conf,     \* the configuration of the process that runs or ran last
    prev,     \* that of the process before it (None: there was none)
    life,     \* how many processes were started
    cookie,   \* cookie[b]: the session cookie of browser b
    rows      \* the sessions table

rotVars == <<up, conf, prev, life, cookie, rows>>

Cookies == [pair : KeyPairs, state : BOOLEAN, id : SessionIDs \cup {None},
            left : Nat,           \* 0: no Max-Age, it stays until the browser is closed
            life : Nat]           \* history: the process that wrote it
Rows == [key : Texts,             \* "" for tokens in clear text
         left : Nat \cup {-1},    \* -1: expired
         life : Nat]              \* history: the process that wrote them

\* Every variable has its type.
TypeOK ==
    /\ up \in BOOLEAN
    /\ conf \in [Settings -> Texts] \cup {None}
    /\ prev \in [Settings -> Texts] \cup {None}
    /\ life \in 0 .. MaxLives
    /\ cookie \in [Browsers -> Cookies \cup {None}]
    /\ rows \in [SessionIDs -> Rows \cup {None}]

Init ==
    /\ up = FALSE
    /\ conf = None
    /\ prev = None
    /\ life = 0
    /\ cookie = [b \in Browsers |-> None]
    /\ rows = [id \in SessionIDs |-> None]

-----------------------------------------------------------------------------
(* The process.                                                            *)

pairs == keyPairsAsSlice(conf).pairs

\* main: LoadConfig and NewManager accept the deployment.
Starts(l) == LoadConfig(l) /\ ~keyPairsAsSlice(Unmarshal(l)).err

Start(l) ==
    /\ ~up
    /\ life < MaxLives
    /\ Starts(l)
    /\ up' = TRUE
    /\ conf' = Unmarshal(l)
    /\ prev' = conf
    /\ life' = life + 1
    /\ UNCHANGED <<cookie, rows>>

\* The process is stopped, or crashes; neither touches cookies or rows.
Stop ==
    /\ up
    /\ life < MaxLives
    /\ up' = FALSE
    /\ UNCHANGED <<conf, prev, life, cookie, rows>>

-----------------------------------------------------------------------------
(* The tokens of a row (database.go).                                      *)

\* NewXChaCha20Cipher (external) encrypts with the current key, decrypts with
\* either and is nil if there is none.
cipherKeys == {conf["SESSION_DB_KEY"], conf["SESSION_OLD_DB_KEY"]} \ {""}

\* A row as encryptArgs leaves it.
encryptArgs == [key |-> conf["SESSION_DB_KEY"], left |-> TokenLife, life |-> life]

\* What Get makes of the tokens: no key, no decryption.
decryptArgs(row) ==
    IF cipherKeys = {} THEN IF row.key = "" THEN "token" ELSE "ciphertext"
    ELSE IF row.key \in cipherKeys THEN "token" ELSE "error"

-----------------------------------------------------------------------------
(* Cookies.                                                                *)

Undecodable(b) == cookie[b] # None /\ ~Decodes(pairs, cookie[b].pair)

\* GetSession: "cookie" is ErrCannotGetCookie, "invalid" ErrSessionInvalid,
\* "notfound" ErrSessionNotFound; "state" is a login cookie, without data.
GetSession(b) ==
    IF cookie[b] = None THEN "invalid"
    ELSE IF Undecodable(b) THEN "cookie"
    ELSE IF cookie[b].state THEN "state"
    ELSE IF rows[cookie[b].id] = None THEN "notfound"
    ELSE decryptArgs(rows[cookie[b].id])

\* Mutant of Written: session cookies without Max-Age.
WrittenForGood(state, id) ==
    [pair |-> Encoder(pairs), state |-> state, id |-> id, life |-> life,
     left |-> IF state THEN LoginTimeout ELSE 0]

\* A cookie as saveState or saveSession writes it.
Written(state, id) ==
    [pair |-> Encoder(pairs), state |-> state, id |-> id, life |-> life,
     left |-> IF state THEN LoginTimeout ELSE SessionTimeout]

\* LoginHandlerOidc: an undecodable cookie is a 500 and stays where it is; any
\* other is written again with a state, its session id kept.
Login(b) ==
    /\ up
    /\ ~Undecodable(b)
    /\ Encodes(pairs)
    /\ cookie' = [cookie EXCEPT ![b] =
                    Written(TRUE, IF cookie[b] = None THEN None ELSE cookie[b].id)]
    /\ UNCHANGED <<up, conf, prev, life, rows>>

\* CallbackHandlerOidc, the provider willing: a row is added, the cookie is
\* written with its id (a uuid that neither a row nor a cookie has).
Callback(b) ==
    /\ up
    /\ GetSession(b) = "state"
    /\ Encodes(pairs)
    /\ \E id \in SessionIDs :
          /\ rows[id] = None
          /\ \A x \in Browsers : cookie[x] = None \/ cookie[x].id # id
          /\ rows' = [rows EXCEPT ![id] = encryptArgs]
          /\ cookie' = [cookie EXCEPT ![b] = Written(FALSE, id)]
    /\ UNCHANGED <<up, conf, prev, life>>

\* Mutant of Renewed: only the expiration is updated.
RenewedInPlace(row) == [row EXCEPT !.left = TokenLife, !.life = life]

\* The row after Update: the tokens encrypted anew.
Renewed(row) == encryptArgs

\* AuthenticationMiddleware with a session it could load and whose token has
\* expired: the provider renews it, if what it is sent is the refresh token and
\* not its ciphertext.
Proxied(b) ==
    LET id == cookie[b].id IN
    /\ up
    /\ GetSession(b) = "token"
    /\ rows[id].left = -1
    /\ Encodes(pairs)
    /\ rows' = [rows EXCEPT ![id] = Renewed(rows[id])]
    /\ cookie' = [cookie EXCEPT ![b] = Written(FALSE, id)]
    /\ UNCHANGED <<up, conf, prev, life>>

\* Mutant of Logout: the tokens are blanked, the row stays.
LogoutBlanks(b) ==
    /\ up
    /\ GetSession(b) \in {"token", "ciphertext", "state"}
    /\ cookie[b].id # None
    /\ rows' = IF rows[cookie[b].id] = None THEN rows
               ELSE [rows EXCEPT ![cookie[b].id].key = None]
    /\ cookie' = [cookie EXCEPT ![b] = None]
    /\ UNCHANGED <<up, conf, prev, life>>

\* LogoutHandlerOidc: the session that was loaded, or the one a login cookie
\* still names, is deleted together with the cookie.
Logout(b) ==
    /\ up
    /\ GetSession(b) \in {"token", "ciphertext", "state"}
    /\ cookie[b].id # None
    /\ rows' = [rows EXCEPT ![cookie[b].id] = None]
    /\ cookie' = [cookie EXCEPT ![b] = None]
    /\ UNCHANGED <<up, conf, prev, life>>

\* Mutant of Purge: the cleaner loads a row before it deletes it.
PurgeReadable ==
    /\ up
    /\ \E id \in SessionIDs : rows[id] # None /\ rows[id].left = -1
    /\ rows' = [id \in SessionIDs |->
                  IF rows[id] # None /\ rows[id].left = -1 /\ decryptArgs(rows[id]) # "error"
                  THEN None ELSE rows[id]]
    /\ UNCHANGED <<up, conf, prev, life, cookie>>

\* Purge goes by the expiration, which is in clear text.
Purge ==
    /\ up
    /\ \E id \in SessionIDs : rows[id] # None /\ rows[id].left = -1
    /\ rows' = [id \in SessionIDs |->
                  IF rows[id] # None /\ rows[id].left = -1 THEN None ELSE rows[id]]
    /\ UNCHANGED <<up, conf, prev, life, cookie>>

Aged(c) == IF c = None \/ c.left = 1 THEN None
           ELSE IF c.left = 0 THEN c ELSE [c EXCEPT !.left = @ - 1]

\* Time passes; browsers drop the cookies whose Max-Age is over.
Tick ==
    /\ cookie' = [b \in Browsers |-> Aged(cookie[b])]
    /\ rows' = [id \in SessionIDs |->
                  IF rows[id] = None \/ rows[id].left = -1 THEN rows[id]
                  ELSE [rows[id] EXCEPT !.left = @ - 1]]
    /\ UNCHANGED <<up, conf, prev, life>>

-----------------------------------------------------------------------------

Next ==
    \/ \E l \in Deployments : Start(l)
    \/ Stop
    \/ \E b \in Browsers : Login(b)
    \/ \E b \in Browsers : Callback(b)
    \/ \E b \in Browsers : Proxied(b)
    \/ \E b \in Browsers : Logout(b)
    \/ Purge
    \/ Tick

Spec == Init /\ [][Next]_rotVars

\* Time passes, the cleaner runs, and the operator starts the process again.
FairSpec ==
    /\ Spec
    /\ WF_rotVars(Tick)
    /\ WF_rotVars(Purge)
    /\ WF_rotVars(\E l \in Deployments : Start(l))

-----------------------------------------------------------------------------
(* Properties.                                                             *)

\* A process that passed the two checks of its keys, configValidate's and
\* appendSlice's, which do not agree, can write cookies.
RunningCanEncode == up => Encodes(pairs)

\* The operator replaces a key as README.md tells: what was the current key
\* becomes the old one, or nothing changes but the old key.
Rotates(p, c, new, old) == c[new] = p[new] \/ c[old] = p[new]

\* Rows outlive the rotation of the database key: what the process before wrote
\* or renewed, this one can read.
RowsSurviveRotation ==
    \A id \in SessionIDs :
        /\ up
        /\ prev # None
        /\ prev["SESSION_DB_KEY"] # ""
        /\ Rotates(prev, conf, "SESSION_DB_KEY", "SESSION_OLD_DB_KEY")
        /\ rows[id] # None
        /\ rows[id].life >= life - 1
        => decryptArgs(rows[id]) = "token"

\* The pair of keys of a cookie is rotated likewise.
RotatesPair(p, c) == NewKeyPair(p) \in {NewKeyPair(c), OldKeyPair(c)}

\* The first rotation keeps every cookie: the pair that was the only one, and
\* is the old one now, goes on being accepted.
FirstRotationKeepsCookies ==
    \A b \in Browsers :
        /\ up
        /\ prev # None
        /\ OldKeyPair(prev).auth = ""
        /\ OldKeyPair(conf) = NewKeyPair(prev)
        /\ cookie[b] # None
        /\ cookie[b].life >= life - 1
        => ~Undecodable(b)

\* A browser whose cookie the new keys cannot read is answered 500 by every
\* handler, /login included, but not for ever: the cookie dies.
BrowsersRecover == \A b \in Browsers : up /\ Undecodable(b) ~> up /\ ~Undecodable(b)

\* Rows that no key can read any more do not stay for ever.
UnreadableRowsGo ==
    \A id \in SessionIDs :
        up /\ rows[id] # None /\ decryptArgs(rows[id]) = "error"
            ~> rows[id] = None \/ decryptArgs(rows[id]) # "error"

-----------------------------------------------------------------------------
(* What the repository says and the code does not do.                      *)

\* README.md:78: "the old authentication key for the session cookie, used for
\* the secret rotation": a cookie written by the process before is accepted by
\* one whose old pair is what the current pair was.
RotationKeepsCookies ==
    \A b \in Browsers :
        /\ up
        /\ prev # None
        /\ RotatesPair(prev, conf)
        /\ cookie[b] # None
        /\ cookie[b].life >= life - 1
        => ~Undecodable(b)

=============================================================================
