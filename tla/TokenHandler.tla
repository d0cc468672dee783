---------------------------- MODULE TokenHandler ----------------------------
(***************************************************************************)
(* The token handler between browsers, an OpenID provider and the sessions *)
(* table: the handlers of package sessions as the goroutines net/http runs *)
(* them in, one program counter per request, one step per database         *)
(* statement or call to the provider.                                      *)
(*                                                                         *)
(* A request carries the cookie the browser had when it was sent (ck); the *)
(* answer carries the cookie to set (set) and reaches the browser later, in*)
(* any order, or never.  The session cookie holds two values, the session  *)
(* id and the OAuth state of a login under way.                            *)
(***************************************************************************)
EXTENDS SessionTable

CONSTANTS
    Browsers,        \* cookie jars
    Requests,        \* request slots: how many requests are in flight at once
    Rotate,          \* the provider revokes a refresh token once it is used
    Faults,          \* what may go wrong, a subset of FaultKinds
    TokenTTL,        \* lifetime of an access token, in ticks
    LoginTimeout,    \* Max-Age of the cookie set by /login, in ticks
    SessionTimeout,  \* Max-Age of the session cookie, in ticks
    MaxTime,         \* bound: the clock stops here
    MaxGen           \* bound: the provider renews a login's tokens this often
                     \* (its own limit on the age of a single sign-on session)

FaultKinds ==
    {"cookie",    \* a cookie cannot be decoded or encoded
     "db",        \* a statement fails
     "idp",       \* the provider refuses a code or refresh token at will
     "lost",      \* its answer is lost after it has acted
     "idtoken",   \* the ID token is missing or cannot be verified
     "subject",   \* a renewed ID token names another subject
     "backend",   \* the service behind the middleware fails
     "net",       \* the answer to the browser is lost
     "query",     \* a callback's query lacks its state or has another one
     "crash"}     \* the process dies and restarts

ASSUME HandlerAssumption ==
    /\ None \notin Browsers
    /\ Rotate \in BOOLEAN
    /\ Faults \subseteq FaultKinds
    /\ TokenTTL \in Nat
    /\ LoginTimeout \in Nat \ {0}
    /\ SessionTimeout \in Nat \ {0}
    /\ MaxTime \in Nat
    /\ MaxGen \in Nat

VARIABLES
    jar,       \* jar[b]: the session cookie of browser b, or None
    req,       \* req[r]: the request in slot r and its handler's locals
    logins,    \* logins[l]: how far login l got, in which browser, who it is
    latest,    \* latest[l]: the newest generation of tokens of login l
    origin     \* origin[id]: the login session id was created by, None if the
               \* uuid was never drawn (history: it outlives the row)

vars == <<rows, now, jar, req, logins, latest, origin>>

-----------------------------------------------------------------------------
(* The state.                                                              *)

\* session.Values of the cookie: the "session_id" and "state" entries.
Values == [id : SessionIDs \cup {None}, st : Logins \cup {None}]
NoValues == [id |-> None, st |-> None]

Cookie == [id : SessionIDs \cup {None}, st : Logins \cup {None}, exp : Int]
SetCookie == [id : SessionIDs \cup {None}, st : Logins \cup {None}, age : Int]

\* What the token endpoint answers: the tokens, the subject in the ID token and
\* the expiry of the access token.
Answer == [sub : Subjects, tok : Token, exp : Int]

Kinds == {"none", "login", "callback", "logout", "api"}
PCs == {"idle", "start", "exchange", "save", "delete",
        "check", "refresh", "update", "exec", "forward", "reply"}
Codes == {"none", "ok", "redirect", "unauthorized", "error"}

Request == [pc    : PCs,
            kind  : Kinds,
            br    : Browsers \cup {None},
            ck    : Values,                  \* session.Values, as sent
            arg   : Logins \cup {None},      \* the login whose state /login
                                             \* draws, or whose "code" this is
            state : Logins \cup {None},      \* "state" in a callback's query
            data  : SessionData,             \* session.data
            token : Answer \cup {None},      \* token, until newData has used it
            set   : SetCookie \cup {None},   \* the Set-Cookie header
            code  : Codes]                   \* the class of the status code

NoRequest == [pc |-> "idle", kind |-> "none", br |-> None, ck |-> NoValues,
              arg |-> None, state |-> None, data |-> NoData, token |-> None,
              set |-> None, code |-> "none"]

\* A login: the state is drawn by /login, the browser is redirected to the
\* provider, a user authenticates, the code is spent at the token endpoint.
\* The browser whose callback spent it (by) and the state in that callback's
\* query (via) are kept as history.
LoginStages == {"unused", "drawn", "redirected", "authenticated", "spent"}
Login == [stage : LoginStages,
          br    : Browsers \cup {None},
          sub   : Subjects \cup {None},
          by    : Browsers \cup {None},
          via   : Logins \cup {None}]

NoLogin == [stage |-> "unused", br |-> None, sub |-> None,
            by |-> None, via |-> None]

ASSUME SentinelAssumption ==
    /\ None \notin Cookie
    /\ None \notin SetCookie
    /\ None \notin Answer

\* Every variable has its type.
TypeOK ==
    /\ rows \in [SessionIDs -> Row \cup {None}]
    /\ now \in Nat
    /\ jar \in [Browsers -> Cookie \cup {None}]
    /\ req \in [Requests -> Request]
    /\ logins \in [Logins -> Login]
    /\ latest \in [Logins -> Nat]
    /\ origin \in [SessionIDs -> Logins \cup {None}]

Init ==
    /\ rows = [id \in SessionIDs |-> None]
    /\ now = 0
    /\ jar = [b \in Browsers |-> None]
    /\ req = [r \in Requests |-> NoRequest]
    /\ logins = [l \in Logins |-> NoLogin]
    /\ latest = [l \in Logins |-> 0]
    /\ origin = [id \in SessionIDs |-> None]

-----------------------------------------------------------------------------
(* Steps of a handler.                                                     *)

At(r, kind, pc) == req[r].kind = kind /\ req[r].pc = pc

\* The handler goes on at pc.
Goto(r, pc) == req' = [req EXCEPT ![r].pc = pc]

\* The handler returns, with a status and perhaps a Set-Cookie header.
Respond(r, code, set) ==
    req' = [req EXCEPT ![r] = [@ EXCEPT !.pc = "reply", !.code = code,
                               !.set = set, !.data = NoData, !.token = None]]

\* sessions.Session.Save puts the cookie in the answer; it fails if the cookie
\* cannot be encoded, and the answer is a 500 without it.
SaveCookie(r, code, set) ==
    \/ Respond(r, code, set)
    \/ "cookie" \in Faults /\ Respond(r, "error", None)

\* Mutant of dataFromDB: a cookie without a session id has an empty session, as
\* one with a state has.
dataFromDBOrEmpty(ck) ==
    IF ck.id = None THEN [err |-> "none", data |-> NoData]
    ELSE IF ~Exists(ck.id) THEN [err |-> "ErrSessionNotFound", data |-> NoData]
    ELSE [err |-> "none", data |-> Get(ck.id)]

\* Session.dataFromDB: the row of the cookie's session id.
dataFromDB(ck) ==
    IF ck.id = None THEN [err |-> "ErrSessionInvalid", data |-> NoData]
    ELSE IF ~Exists(ck.id) THEN [err |-> "ErrSessionNotFound", data |-> NoData]
    ELSE [err |-> "none", data |-> Get(ck.id)]

\* Manager.GetSession: a cookie with a state is answered without the database.
GetSession(ck) ==
    IF ck.st # None THEN [err |-> "none", data |-> NoData] ELSE dataFromDB(ck)

\* Session.newData: the subject of the verified ID token, the tokens, and the
\* expiry of the access token.
newData(t) == [sub |-> t.sub, tok |-> t.tok, exp |-> t.exp]

\* Session.saveState and Session.saveSession: the cookie to set.
saveState(ck, l) == [id |-> ck.id, st |-> l, age |-> LoginTimeout]
saveSession(id) == [id |-> id, st |-> None, age |-> SessionTimeout]

\* The state in the query of a callback with the code of login l: the provider
\* redirects with that login's own, but Query().Get("state") takes whatever is
\* there and is "" when nothing is.
QueryState(l) ==
    {l} \cup (IF "query" \in Faults
              THEN {None} \cup {s \in Logins : logins[s].stage # "unused"}
              ELSE {})

\* The browser sends a request with the cookie it has now.  A callback comes
\* from the provider's redirect with the code of an authenticated login, and
\* may be repeated or opened in another browser.  The state a /login will draw
\* is fixed here; it is one nobody has drawn.
Send(r, b, kind, l, s) ==
    /\ req[r].pc = "idle"
    /\ kind \in {"login", "callback"} <=> l # None
    /\ s \in IF kind = "callback" THEN QueryState(l) ELSE {None}
    /\ kind = "login" => /\ logins[l].stage = "unused"
                         /\ \A q \in Requests : req[q].arg # l
    /\ kind = "callback" => logins[l].stage \in {"authenticated", "spent"}
    /\ req' = [req EXCEPT ![r] =
                 [NoRequest EXCEPT
                    !.pc = "start", !.kind = kind, !.br = b,
                    !.arg = l, !.state = s,
                    !.ck = IF jar[b] = None THEN NoValues
                           ELSE [id |-> jar[b].id, st |-> jar[b].st]]]
    /\ UNCHANGED <<rows, now, jar, logins, latest, origin>>

\* LoginHandlerOidc: NewSession decodes the cookie the browser already has, so
\* a session id in it stays beside the new state.
LoginHandlerOidc(r) ==
    /\ At(r, "login", "start")
    /\ LET l == req[r].arg IN
         /\ logins' = [logins EXCEPT ![l] = [@ EXCEPT !.stage = "drawn",
                                                      !.br = req[r].br]]
         /\ Respond(r, "redirect", saveState(req[r].ck, l))
    /\ UNCHANGED <<rows, now, jar, latest, origin>>

\* Mutant of StateMatches: a callback is taken whatever the cookie's state is.
AnyStateMatches(r) == TRUE

\* The comparison of the two states in CallbackHandlerOidc.  A cookie without a
\* state (getState is "") matches a query without one.
StateMatches(r) == req[r].ck.st = req[r].state

\* CallbackHandlerOidc up to the exchange.
CallbackHandlerOidc(r) ==
    /\ At(r, "callback", "start")
    /\ IF GetSession(req[r].ck).err # "none" THEN Respond(r, "error", None)
       ELSE IF ~StateMatches(r) THEN Respond(r, "unauthorized", None)
       ELSE Goto(r, "exchange")
    /\ UNCHANGED <<rows, now, jar, logins, latest, origin>>

\* The first tokens of login l.
FirstTokens(l) == [sub |-> logins[l].sub, tok |-> [fam |-> l, gen |-> 0],
                   exp |-> now + TokenTTL]

\* The provider uses up the code of login l for the callback r.
Spend(r, l) ==
    logins' = [logins EXCEPT ![l] = [@ EXCEPT !.stage = "spent", !.by = req[r].br,
                                              !.via = req[r].state]]

\* config.Exchange succeeds: the code of the login is used up.
ExchangeGranted(r) ==
    LET l == req[r].arg IN
    /\ At(r, "callback", "exchange")
    /\ logins[l].stage = "authenticated"
    /\ Spend(r, l)
    /\ req' = [req EXCEPT ![r] = [@ EXCEPT !.pc = "save", !.token = FirstTokens(l)]]
    /\ UNCHANGED <<rows, now, jar, latest, origin>>

\* config.Exchange fails: the code was used before, or the provider refuses.
ExchangeRefused(r) ==
    /\ At(r, "callback", "exchange")
    /\ "idp" \in Faults \/ logins[req[r].arg].stage = "spent"
    /\ Respond(r, "unauthorized", None)
    /\ UNCHANGED <<rows, now, jar, logins, latest, origin>>

\* The provider has used up the code, but its answer never arrives.
ExchangeLost(r) ==
    LET l == req[r].arg IN
    /\ "lost" \in Faults
    /\ At(r, "callback", "exchange")
    /\ logins[l].stage = "authenticated"
    /\ Spend(r, l)
    /\ Respond(r, "unauthorized", None)
    /\ UNCHANGED <<rows, now, jar, latest, origin>>

\* Session.Save: newData, Add under a new uuid, saveSession.
Save(r) ==
    /\ At(r, "callback", "save")
    /\ \E id \in SessionIDs :
         /\ origin[id] = None
         /\ origin' = [origin EXCEPT ![id] = req[r].arg]
         /\ Add(id, newData(req[r].token))
         /\ SaveCookie(r, "redirect", saveSession(id))
    /\ UNCHANGED <<now, jar, logins, latest>>

\* LogoutHandlerOidc up to the DELETE.
LogoutHandlerOidc(r) ==
    /\ At(r, "logout", "start")
    /\ IF GetSession(req[r].ck).err # "none" \/ req[r].ck.id = None
       THEN Respond(r, "error", None)
       ELSE Goto(r, "delete")
    /\ UNCHANGED <<rows, now, jar, logins, latest, origin>>

\* Session.Delete: the row goes, and the cookie with a negative Max-Age.
LogoutDelete(r) ==
    LET ck == req[r].ck IN
    /\ At(r, "logout", "delete")
    /\ Delete(ck.id)
    /\ SaveCookie(r, "redirect", [id |-> ck.id, st |-> ck.st, age |-> -1])
    /\ UNCHANGED <<now, jar, logins, latest, origin>>

\* AuthenticationMiddleware: GetSession.  Both errors are compared unwrapped
\* and answered with 401.
AuthenticationMiddleware(r) ==
    LET s == GetSession(req[r].ck) IN
    /\ At(r, "api", "start")
    /\ IF s.err # "none" THEN Respond(r, "unauthorized", None)
       ELSE req' = [req EXCEPT ![r] = [@ EXCEPT !.pc = "check", !.data = s.data]]
    /\ UNCHANGED <<rows, now, jar, logins, latest, origin>>

\* AuthenticationMiddleware: does the access token need renewing?
CheckExpiry(r) ==
    /\ At(r, "api", "check")
    /\ Goto(r, IF IsExpired(req[r].data) THEN "refresh" ELSE "forward")
    /\ UNCHANGED <<rows, now, jar, logins, latest, origin>>

\* Would TokenSource.Token() return tokens for refresh token t?  It fails on an
\* empty one; otherwise the provider decides.
Renewable(t) ==
    /\ t # None
    /\ latest[t.fam] < MaxGen
    /\ Rotate => t.gen = latest[t.fam]

\* The next tokens of family l, for subject s.
NextTokens(l, s) == [sub |-> s, tok |-> [fam |-> l, gen |-> latest[l] + 1],
                     exp |-> now + TokenTTL]

\* TokenSource.Token() renews the tokens.
RefreshGranted(r) ==
    LET l == req[r].data.tok.fam IN
    /\ At(r, "api", "refresh")
    /\ Renewable(req[r].data.tok)
    /\ latest' = [latest EXCEPT ![l] = @ + 1]
    /\ \E s \in Subjects :
         /\ "subject" \in Faults \/ s = logins[l].sub
         /\ req' = [req EXCEPT ![r] = [@ EXCEPT !.pc = "update",
                                                !.token = NextTokens(l, s)]]
    /\ UNCHANGED <<rows, now, jar, logins, origin>>

\* Mutant of RefreshRefused: the refused refresh is tried again, forever.
RefreshRetried(r) ==
    /\ At(r, "api", "refresh")
    /\ ~Renewable(req[r].data.tok)
    /\ Goto(r, "refresh")
    /\ UNCHANGED <<rows, now, jar, logins, latest, origin>>

\* TokenSource.Token() fails.
RefreshRefused(r) ==
    /\ At(r, "api", "refresh")
    /\ "idp" \in Faults \/ ~Renewable(req[r].data.tok)
    /\ Respond(r, "unauthorized", None)
    /\ UNCHANGED <<rows, now, jar, logins, latest, origin>>

\* The provider has renewed the tokens, but its answer never arrives.
RefreshLost(r) ==
    /\ "lost" \in Faults
    /\ At(r, "api", "refresh")
    /\ Renewable(req[r].data.tok)
    /\ latest' = [latest EXCEPT ![req[r].data.tok.fam] = @ + 1]
    /\ Respond(r, "unauthorized", None)
    /\ UNCHANGED <<rows, now, jar, logins, origin>>

\* Mutant of UpdateGet: the renewed data have no ExpiresAt.
UpdateGetNoExpiry(r) ==
    LET d == [newData(req[r].token) EXCEPT !.exp = ZeroTime] IN
    /\ At(r, "api", "update")
    /\ IF UpdateCheck(req[r].ck.id, d)
       THEN req' = [req EXCEPT ![r] = [@ EXCEPT !.pc = "exec", !.data = d,
                                                !.token = None]]
       ELSE Respond(r, "error", None)
    /\ UNCHANGED <<rows, now, jar, logins, latest, origin>>

\* Session.Update up to the UPDATE: newData replaces session.data, and
\* SessionImpl.Update reads the row and compares the subjects.
UpdateGet(r) ==
    LET d == newData(req[r].token) IN
    /\ At(r, "api", "update")
    /\ IF UpdateCheck(req[r].ck.id, d)
       THEN req' = [req EXCEPT ![r] = [@ EXCEPT !.pc = "exec", !.data = d,
                                                !.token = None]]
       ELSE Respond(r, "error", None)
    /\ UNCHANGED <<rows, now, jar, logins, latest, origin>>

\* Session.Update from the UPDATE: the row, if it is still there, and the
\* cookie, which is set in any case, unless it cannot be encoded.
UpdateWrite(r) ==
    /\ At(r, "api", "exec")
    /\ UpdateExec(req[r].ck.id, req[r].data)
    /\ \/ req' = [req EXCEPT ![r] = [@ EXCEPT !.pc = "forward",
                                              !.set = saveSession(req[r].ck.id)]]
       \/ "cookie" \in Faults /\ Respond(r, "error", None)
    /\ UNCHANGED <<now, jar, logins, latest, origin>>

\* next.ServeHTTP: /userinfo or the reverse proxy calls a service with the
\* access token.  Headers set before, Set-Cookie included, go out either way.
Forward(r) ==
    /\ At(r, "api", "forward")
    /\ Respond(r, "ok", req[r].set)
    /\ UNCHANGED <<rows, now, jar, logins, latest, origin>>

BackendError(r) ==
    /\ "backend" \in Faults
    /\ At(r, "api", "forward")
    /\ Respond(r, "error", req[r].set)
    /\ UNCHANGED <<rows, now, jar, logins, latest, origin>>

\* The cookie cannot be decoded: NewSession and GetSession fail, and every
\* handler answers 500 (the middleware compares the wrapped error with ==).  So
\* does a /login whose new cookie cannot be encoded.
CookieUnusable(r) ==
    /\ "cookie" \in Faults
    /\ req[r].pc = "start"
    /\ req[r].ck # NoValues \/ req[r].kind = "login"
    /\ Respond(r, "error", None)
    /\ UNCHANGED <<rows, now, jar, logins, latest, origin>>

\* Does the next step of r's handler run a statement?
UsesTable(r) ==
    \/ /\ req[r].pc = "start"
       /\ req[r].kind # "login"
       /\ req[r].ck.st = None
       /\ req[r].ck.id # None
    \/ req[r].pc \in {"save", "delete", "update", "exec"}

\* The statement fails: 500 from every handler.
DBError(r) ==
    /\ "db" \in Faults
    /\ UsesTable(r)
    /\ Respond(r, "error", None)
    /\ UNCHANGED <<rows, now, jar, logins, latest, origin>>

\* GetIdToken fails in newData: the tokens are dropped, the answer is a 500.
IDTokenInvalid(r) ==
    /\ "idtoken" \in Faults
    /\ req[r].pc \in {"save", "update"}
    /\ Respond(r, "error", None)
    /\ UNCHANGED <<rows, now, jar, logins, latest, origin>>

-----------------------------------------------------------------------------
(* The world around the handlers.                                          *)

\* The browser receives the answer, stores or drops the cookie, and follows
\* the redirect of a login to the provider.
Deliver(r) ==
    LET q == req[r] IN
    /\ q.pc = "reply"
    /\ jar' = IF q.set = None THEN jar
              ELSE [jar EXCEPT ![q.br] =
                      IF q.set.age <= 0 THEN None
                      ELSE [id |-> q.set.id, st |-> q.set.st, exp |-> now + q.set.age]]
    /\ logins' = IF q.kind = "login" /\ q.code = "redirect"
                 THEN [logins EXCEPT ![q.arg].stage = "redirected"]
                 ELSE logins
    /\ req' = [req EXCEPT ![r] = NoRequest]
    /\ UNCHANGED <<rows, now, latest, origin>>

\* The answer is lost on its way to the browser.
LoseResponse(r) ==
    /\ "net" \in Faults
    /\ req[r].pc = "reply"
    /\ req' = [req EXCEPT ![r] = NoRequest]
    /\ UNCHANGED <<rows, now, jar, logins, latest, origin>>

\* A user authenticates at the provider, which redirects to /callback.
Authenticate(l, s) ==
    /\ logins[l].stage = "redirected"
    /\ logins' = [logins EXCEPT ![l] = [@ EXCEPT !.stage = "authenticated", !.sub = s]]
    /\ UNCHANGED <<rows, now, jar, req, latest, origin>>

\* One tick of expiredSessionsCleaner that finds something to delete.
Purge ==
    /\ \E id \in SessionIDs : Purgeable(id)
    /\ PurgeRows
    /\ UNCHANGED <<now, jar, req, logins, latest, origin>>

\* The process dies with every request in flight and is started again; the
\* table, the browsers and the provider keep what they have.
Crash ==
    /\ "crash" \in Faults
    /\ req' = [r \in Requests |-> NoRequest]
    /\ UNCHANGED <<rows, now, jar, logins, latest, origin>>

\* Time passes; browsers drop the cookies whose Max-Age is over.
Tick ==
    /\ now < MaxTime
    /\ now' = now + 1
    /\ jar' = [b \in Browsers |->
                 IF jar[b] # None /\ jar[b].exp <= now + 1 THEN None ELSE jar[b]]
    /\ UNCHANGED <<rows, req, logins, latest, origin>>

-----------------------------------------------------------------------------

\* Every step the goroutine of request r can take.
HandlerStep(r) ==
    \/ LoginHandlerOidc(r)
    \/ CallbackHandlerOidc(r)
    \/ ExchangeGranted(r)
    \/ ExchangeRefused(r)
    \/ ExchangeLost(r)
    \/ Save(r)
    \/ LogoutHandlerOidc(r)
    \/ LogoutDelete(r)
    \/ AuthenticationMiddleware(r)
    \/ CheckExpiry(r)
    \/ RefreshGranted(r)
    \/ RefreshRefused(r)
    \/ RefreshLost(r)
    \/ UpdateGet(r)
    \/ UpdateWrite(r)
    \/ Forward(r)
    \/ BackendError(r)
    \/ CookieUnusable(r)
    \/ DBError(r)
    \/ IDTokenInvalid(r)

Next ==
    \/ \E r \in Requests, b \in Browsers, kind \in Kinds \ {"none"},
          l, s \in Logins \cup {None} : Send(r, b, kind, l, s)
    \/ \E r \in Requests : HandlerStep(r)
    \/ \E r \in Requests : Deliver(r)
    \/ \E r \in Requests : LoseResponse(r)
    \/ \E l \in Logins, s \in Subjects : Authenticate(l, s)
    \/ Purge
    \/ Crash
    \/ Tick

Spec == Init /\ [][Next]_vars

\* A goroutine that can go on does: the provider and the table answer in the
\* end.  The cleaner's ticker never stops while the process runs.
FairSpec ==
    /\ Spec
    /\ \A r \in Requests : WF_vars(HandlerStep(r))
    /\ WF_vars(Purge)

-----------------------------------------------------------------------------
(* Whose session is it?                                                    *)

\* A request that reaches the backend carries tokens, and those of the user who
\* authenticated in the login they come from: through a cookie, a row and
\* perhaps a renewal whose two statements other requests may have come between,
\* and whose answer may name somebody else.
ForwardsOnlyOwnUser ==
    \A r \in Requests : req[r].pc = "forward" =>
        LET d == req[r].data IN
        /\ d.tok # None
        /\ d.sub = logins[d.tok.fam].sub

\* A request that reaches the backend carries tokens of a login that ended in
\* the browser the request came from: its callback was that browser's own, and
\* the state in it, when it had one, was drawn for that browser.  However
\* requests, answers and cookies of two browsers interleave, no session id
\* wanders from one to the other.
ForwardsOnlyOwnLogin ==
    \A r \in Requests : req[r].pc = "forward" =>
        LET l == logins[req[r].data.tok.fam] IN
        /\ l.by = req[r].br
        /\ l.via # None => logins[l.via].br = req[r].br

\* The comparison of states in CallbackHandlerOidc lets a callback without a
\* state pass beside a cookie without one, whichever browser the code's login
\* was started in.  What keeps this from a browser that has never logged in is
\* GetSession, which then wants a row of the browser's own: a browser in which
\* any code was ever spent has spent one with a state drawn for itself.
OwnLoginFirst ==
    \A l \in Logins : logins[l].stage = "spent" =>
        \E m \in Logins :
            /\ logins[m].by = logins[l].by
            /\ logins[m].via # None
            /\ logins[logins[m].via].br = logins[l].by

\* Why they hold.  A session id is only ever found in the cookies of the browser
\* its login ended in, and a state in those of the browser it was drawn for;
Belongs(ck, b) ==
    /\ ck.id # None => origin[ck.id] # None /\ logins[origin[ck.id]].by = b
    /\ ck.st # None => logins[ck.st].br = b

CookiesInv == \A b \in Browsers : jar[b] # None => Belongs(jar[b], b)

\* a login has a browser once its state is drawn, a user once it is
\* authenticated, and ends in one browser, with a state of that browser or none;
LoginsInv ==
    \A l \in Logins :
        /\ logins[l].stage = "unused" <=> logins[l].br = None
        /\ logins[l].stage \in {"authenticated", "spent"} => logins[l].sub # None
        /\ logins[l].stage = "spent" <=> logins[l].by # None
        /\ logins[l].via # None => /\ logins[l].by # None
                                   /\ logins[logins[l].via].br = logins[l].by

\* a session, and its row while there is one, is that of one spent login;
RowsInv ==
    \A id \in SessionIDs :
        /\ origin[id] # None => logins[origin[id]].stage = "spent"
        /\ rows[id] # None => /\ origin[id] # None
                              /\ rows[id].tok.fam = origin[id]
                              /\ rows[id].sub = logins[origin[id]].sub

\* a state is drawn by one /login, which no one has used before;
LoginRequest(r) ==
    req[r].kind = "login" =>
        /\ req[r].pc \in {"start", "reply"}
        /\ req[r].arg # None
        /\ logins[req[r].arg].stage =
               IF req[r].code = "redirect" THEN "drawn" ELSE "unused"
        /\ req[r].code = "redirect" => req[r].pc = "reply"
        /\ \A q \in Requests :
               req[q].kind = "login" /\ req[q].arg = req[r].arg => q = r

\* a callback past the comparison has the cookie's state, or none and a session,
\* and the tokens it is about to save are its login's, spent by itself;
CallbackRequest(r) ==
    req[r].kind = "callback" =>
        LET l == req[r].arg IN
        /\ req[r].pc \in {"start", "exchange", "save", "reply"}
        /\ l # None
        /\ logins[l].stage \in {"authenticated", "spent"}
        /\ req[r].pc \in {"exchange", "save"} =>
               /\ req[r].ck.st = req[r].state
               /\ req[r].ck.st = None => req[r].ck.id # None
        /\ req[r].pc = "save" => /\ logins[l].stage = "spent"
                                 /\ logins[l].by = req[r].br
                                 /\ req[r].token # None
                                 /\ req[r].token.tok.fam = l
                                 /\ req[r].token.sub = logins[l].sub

\* a logout past GetSession has an id;
LogoutRequest(r) ==
    req[r].kind = "logout" =>
        /\ req[r].pc \in {"start", "delete", "reply"}
        /\ req[r].pc = "delete" => req[r].ck.id # None

\* and the middleware works on data of the cookie's session: without data (the
\* cookie has a state) the zero time is expired and there is nothing to renew.
ApiPCs == {"check", "refresh", "update", "exec", "forward"}

ApiRequest(r) ==
    req[r].kind = "api" =>
        LET d == req[r].data
            t == req[r].token
            id == req[r].ck.id
        IN
        /\ req[r].pc \in {"start", "reply"} \cup ApiPCs
        /\ d = NoData => req[r].pc \notin {"update", "exec", "forward"}
        /\ req[r].pc \in ApiPCs /\ d # NoData =>
               /\ id # None
               /\ d.tok # None
               /\ d.tok.fam = origin[id]
               /\ d.sub = logins[origin[id]].sub
        /\ req[r].pc = "update" => t # None /\ t.tok.fam = origin[id]

RequestInv(r) ==
    /\ req[r].pc # "idle" => req[r].br # None /\ Belongs(req[r].ck, req[r].br)
    /\ req[r].set # None => Belongs(req[r].set, req[r].br)
    /\ req[r].set # None => req[r].pc \in {"forward", "reply"}
    /\ req[r].kind = "none" => req[r].pc = "idle"
    /\ req[r].pc = "idle" => req[r] = NoRequest
    /\ LoginRequest(r)
    /\ CallbackRequest(r)
    /\ LogoutRequest(r)
    /\ ApiRequest(r)

\* The inductive invariant: whatever a cookie, a row or a request's locals hold
\* belongs to one login, its user and the browser it ended in, and a browser's
\* first login was its own.
OwnershipInv ==
    /\ CookiesInv
    /\ LoginsInv
    /\ OwnLoginFirst
    /\ RowsInv
    /\ \A r \in Requests : RequestInv(r)

-----------------------------------------------------------------------------
(* What a session is: the abstract promise.                                *)

\* Is r inside a session: past GetSession, with data?
Inside(r) == req[r].kind = "api" /\ req[r].pc \in ApiPCs /\ req[r].data # NoData

phaseBar == [id \in SessionIDs |-> IF origin[id] = None THEN "unborn"
                                   ELSE IF Exists(id) THEN "live" ELSE "ended"]
userBar == [id \in SessionIDs |-> IF origin[id] = None THEN None
                                  ELSE IF Exists(id) THEN rows[id].sub
                                  ELSE logins[origin[id]].sub]
holderBar == [r \in Requests |-> IF Inside(r) THEN req[r].ck.id ELSE None]
servingBar == [r \in Requests |-> IF Inside(r) /\ req[r].pc = "forward"
                                  THEN req[r].data.sub ELSE None]

Lifecycle == INSTANCE SessionLifecycle
             WITH phase <- phaseBar, user <- userBar,
                  holder <- holderBar, serving <- servingBar

\* The handlers implement SessionLifecycle: no interleaving of renewals,
\* logouts, purges and crashes brings a session back, gives it to another user,
\* lets a request into it after its end, or serves one as somebody else.
KeepsLifecycle == Lifecycle!Spec

\* A row only leaves the table by a logout of its session or when its access
\* token has expired by the middleware's own test: the purge, which compares
\* whole seconds, never takes a token the middleware would still have used.
RemovesOnlyExpired ==
    [][\A id \in SessionIDs :
         Exists(id) /\ rows'[id] = None =>
            \/ IsExpired(Get(id))
            \/ \E r \in Requests : At(r, "logout", "delete") /\ req[r].ck.id = id]_vars

-----------------------------------------------------------------------------
(* Renewal.                                                                *)

\* With a provider that rotates refresh tokens, and as long as no answer of its
\* own, no statement and no process is lost: the newest refresh token of a live
\* session, the only one the provider still takes, is in its row or in the hands
\* of a request that is about to write it there, however many renew at once.
NewestTokenKept ==
    \A id \in SessionIDs : Exists(id) =>
        LET l == origin[id] IN
        \/ rows[id].tok.gen = latest[l]
        \/ \E r \in Requests :
             /\ req[r].ck.id = id
             /\ \/ req[r].pc = "update" /\ req[r].token.tok.gen = latest[l]
                \/ req[r].pc = "exec" /\ req[r].data.tok.gen = latest[l]

\* With such a provider no UPDATE puts back an older token or expiry time, even
\* when the request that runs it was delayed.
NoStaleUpdate ==
    [][\A id \in SessionIDs : Exists(id) /\ rows'[id] # None =>
         /\ rows'[id].tok.gen >= rows[id].tok.gen
         /\ rows'[id].expiresAt >= rows[id].expiresAt]_vars

\* With a provider that does not rotate, and nothing failing but the way back to
\* the browser: a request whose cookie names a session that is still there when
\* it is answered, and has no login under way, is served, expired access token
\* or not, and whatever other requests renewed meanwhile.
LiveSessionServed ==
    \A r \in Requests :
        LET ck == req[r].ck IN
        /\ At(r, "api", "reply")
        /\ ck.id # None
        /\ ck.st = None
        /\ Exists(ck.id)
        /\ latest[origin[ck.id]] < MaxGen
        => req[r].code = "ok"

-----------------------------------------------------------------------------
(* Progress.                                                               *)

\* Every handler returns.
EveryRequestAnswered ==
    \A r \in Requests :
        req[r].pc \notin {"idle", "reply"} ~> req[r].pc \in {"idle", "reply"}

-----------------------------------------------------------------------------
(* What the repository says and the code does not do.                      *)

\* middleware.go:37 "The access token is expired (but not the user session), so
\* we can renew the access token using the refresh token we saved in the
\* database": the cleaner does not remove a session that a browser still has
\* the cookie of and that could be renewed.
PurgeSparesUserSessions ==
    [][\A id \in SessionIDs, b \in Browsers :
         Purge /\ Exists(id) /\ rows'[id] = None /\ Renewable(rows[id].tok) =>
            ~(jar[b] # None /\ jar[b].id = id /\ jar[b].st = None)]_vars

\* manager.go:126 "If the session already exists, and contains a state, we are
\* in the login callback, the actual session still doesn't exist, so we don't
\* load the data from the DB": a request whose cookie has a state has no
\* session in the table.
StateMeansNoSession ==
    \A r \in Requests :
        req[r].ck.st # None /\ req[r].ck.id # None => ~Exists(req[r].ck.id)

=============================================================================
