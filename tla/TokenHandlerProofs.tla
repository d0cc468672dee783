------------------------- MODULE TokenHandlerProofs -------------------------
(* Theorems about TokenHandler, for every value of its constants.           *)
EXTENDS TokenHandler, TLAPS

USE TableAssumption, HandlerAssumption, SentinelAssumption

-----------------------------------------------------------------------------
(* Types.                                                                  *)

\* The row written for SessionData that came from the token endpoint is a row
\* the table's CHECK constraints accept.
LEMMA StoredType ==
    ASSUME NEW d \in Answer
    PROVE  Stored(d) \in Row
  BY DEF Stored, Row, Answer, Unix

\* What Get makes of a row is SessionData.
LEMMA LoadedType ==
    ASSUME NEW row \in Row
    PROVE  Loaded(row) \in SessionData
  BY DEF Loaded, Row, SessionData, FromUnix

\* newData neither adds to an answer of the token endpoint nor drops anything.
LEMMA NewDataOf ==
    ASSUME NEW t \in Answer
    PROVE  newData(t) = t
  BY DEF newData, Answer

\* An answer of the token endpoint, newData applied, is SessionData.
LEMMA AnswerIsData == Answer \subseteq SessionData
  BY DEF Answer, SessionData

\* SessionData{} is SessionData.
LEMMA NoDataType == NoData \in SessionData
  BY DEF NoData, SessionData, ZeroTime

-----------------------------------------------------------------------------
(* The inductive invariant, request by request.                            *)

Inv == TypeOK /\ OwnershipInv

\* The program starts in a state of the inductive invariant: no cookies, no
\* rows, no requests.
THEOREM InitInv == Init => Inv
  <1> SUFFICES ASSUME Init PROVE Inv
    OBVIOUS
  <1>1. TypeOK
    BY NoDataType DEF Init, TypeOK, Row, Login, LoginStages, NoLogin, Request, NoRequest,
       Values, NoValues, PCs, Kinds, Codes
  <1>2. OwnershipInv
    BY DEF Init, OwnershipInv, CookiesInv, RequestInv, LoginsInv, OwnLoginFirst, RowsInv,
       NoLogin, Belongs, LoginRequest, CallbackRequest, LogoutRequest, ApiRequest, NoRequest
  <1> QED BY <1>1, <1>2 DEF Inv

\* The invariant, seen from one request.
LEMMA RequestFacts ==
    ASSUME Inv, NEW r \in Requests
    PROVE  /\ req[r] \in Request
           /\ RequestInv(r)
           /\ \A q \in Requests : RequestInv(q)
  BY DEF Inv, TypeOK, OwnershipInv, CookiesInv, RequestInv

\* A request that does not move, in a step that leaves the logins and the origin
\* of the sessions alone.
LEMMA SameRequest ==
    ASSUME Inv, NEW q \in Requests, req'[q] = req[q], UNCHANGED <<logins, origin>>,
           \A p \in Requests \ {q} :
               req'[p].kind = "login" =>
                   \/ req[p].kind = "login" /\ req'[p].arg = req[p].arg
                   \/ LoginRequest(p)'
    PROVE  RequestInv(q)'
  <1>1. RequestInv(q)
    BY RequestFacts
  <1>2. /\ req[q].pc # "idle" => req[q].br # None /\ Belongs(req[q].ck, req[q].br)'
        /\ req[q].set # None => Belongs(req[q].set, req[q].br)'
    BY <1>1 DEF RequestInv, Belongs
  <1>3. LoginRequest(q)'
    BY <1>1 DEF RequestInv, LoginRequest
  <1>4. CallbackRequest(q)' /\ LogoutRequest(q)'
    BY <1>1 DEF RequestInv, CallbackRequest, LogoutRequest
  <1>5. ApiRequest(q)'
    BY <1>1 DEF RequestInv, ApiRequest
  <1> QED BY <1>1, <1>2, <1>3, <1>4, <1>5 DEF RequestInv

\* An answered request is a request.
LEMMA RespondType ==
    ASSUME Inv, NEW r \in Requests, NEW code \in Codes,
           NEW set \in SetCookie \cup {None},
           Respond(r, code, set)
    PROVE  req' \in [Requests -> Request]
  <1>1. req \in [Requests -> Request]
    BY DEF Inv, TypeOK
  <1>2. [req[r] EXCEPT !.pc = "reply", !.code = code, !.set = set,
                       !.data = NoData, !.token = None] \in Request
    <2>1. req[r] \in Request
      BY <1>1
    <2> QED BY <2>1, NoDataType DEF Request, PCs
  <1> QED BY <1>1, <1>2 DEF Respond

\* An answer keeps the invariant: its cookie, if any, belongs to the browser
\* that asked, and it is not that of a /login, which changes the logins too.
LEMMA RespondInv ==
    ASSUME Inv, NEW r \in Requests, NEW code \in Codes,
           NEW set \in SetCookie \cup {None},
           req[r].pc \notin {"idle", "reply"},
           set # None => Belongs(set, req[r].br),
           req[r].kind = "login" => code = "error",
           Respond(r, code, set),
           UNCHANGED <<rows, now, jar, logins, origin>>,
           latest' \in [Logins -> Nat]
    PROVE  Inv'
  <1>1. TypeOK'
    BY RespondType DEF Inv, TypeOK
  <1>2. LoginsInv' /\ OwnLoginFirst' /\ RowsInv'
    BY DEF Inv, OwnershipInv, LoginsInv, OwnLoginFirst, RowsInv
  <1>3. CookiesInv'
    BY DEF Inv, OwnershipInv, CookiesInv, Belongs
  <1>4. ASSUME NEW q \in Requests PROVE RequestInv(q)'
    <2> DEFINE x == [req[r] EXCEPT !.pc = "reply", !.code = code, !.set = set,
                                   !.data = NoData, !.token = None]
    <2>1. /\ x.kind = req[r].kind /\ x.pc = "reply" /\ x.br = req[r].br
          /\ x.arg = req[r].arg /\ x.ck = req[r].ck /\ x.set = set /\ x.code = code
      BY RequestFacts DEF Request
    <2>2. req' = [req EXCEPT ![r] = x]
      BY DEF Respond
    <2> HIDE DEF x
    <2>3. req'[r] = x /\ \A p \in Requests : p # r => req'[p] = req[p]
      BY <2>2 DEF Inv, TypeOK
    <2>4. CASE q = r
      <3>1. RequestInv(r)
        BY RequestFacts
      <3>2. LoginRequest(r)'
        BY <2>1, <2>3, <3>1 DEF RequestInv, LoginRequest
      <3>3. CallbackRequest(r)' /\ LogoutRequest(r)' /\ ApiRequest(r)'
        BY <2>1, <2>3, <3>1 DEF RequestInv, CallbackRequest, LogoutRequest, ApiRequest, ApiPCs
      <3>4. Belongs(req[r].ck, req[r].br) /\ req[r].br # None /\ req[r].kind # "none"
        BY <3>1 DEF RequestInv
      <3>5. Belongs(req[r].ck, req[r].br)'
        BY <2>1, <2>3, <3>4 DEF Belongs
      <3>6. set # None => Belongs(req[r].set, req[r].br)'
        BY <2>1, <2>3 DEF Belongs
      <3> QED BY <2>1, <2>3, <2>4, <3>2, <3>3, <3>4, <3>5, <3>6 DEF RequestInv
    <2>5. CASE q # r
      BY <2>1, <2>3, <2>5, SameRequest
    <2> QED BY <2>4, <2>5
  <1> QED BY <1>1, <1>2, <1>3, <1>4 DEF Inv, OwnershipInv

\* A step that only moves request r on, to x.
LEMMA OneRequest ==
    ASSUME Inv, NEW r \in Requests, NEW x \in Request,
           req' = [req EXCEPT ![r] = x],
           UNCHANGED <<rows, now, jar, logins, origin>>,
           latest' \in [Logins -> Nat],
           RequestInv(r)'
    PROVE  Inv'
  <1>1. TypeOK'
    BY DEF Inv, TypeOK
  <1>2. LoginsInv' /\ OwnLoginFirst' /\ RowsInv'
    BY DEF Inv, OwnershipInv, LoginsInv, OwnLoginFirst, RowsInv
  <1>3. CookiesInv'
    BY DEF Inv, OwnershipInv, CookiesInv, Belongs
  <1>4. ASSUME NEW q \in Requests, q # r PROVE RequestInv(q)'
    <2>1. req'[q] = req[q] /\ \A p \in Requests : p # r => req'[p] = req[p]
      BY <1>4 DEF Inv, TypeOK
    <2>2. LoginRequest(r)'
      BY DEF RequestInv
    <2> QED BY <2>1, <2>2, SameRequest
  <1> QED BY <1>1, <1>2, <1>3, <1>4 DEF Inv, OwnershipInv

\* Where newData is called there is an answer to call it with.
LEMMA TokenInHand ==
    ASSUME Inv, NEW r \in Requests, At(r, "callback", "save") \/ At(r, "api", "update")
    PROVE  req[r].token \in Answer /\ newData(req[r].token) = req[r].token
  <1>1. req[r] \in Request /\ RequestInv(r)
    BY RequestFacts
  <1>2. req[r].token \in Answer
    BY <1>1 DEF At, RequestInv, CallbackRequest, ApiRequest, Request
  <1> QED BY <1>2, NewDataOf

\* A new request carries a cookie of its own browser.
LEMMA SendInv ==
    ASSUME Inv, NEW r \in Requests, NEW b \in Browsers, NEW kind \in Kinds \ {"none"},
           NEW l \in Logins \cup {None}, NEW s \in Logins \cup {None},
           Send(r, b, kind, l, s)
    PROVE  Inv'
  <1> DEFINE ck == IF jar[b] = None THEN NoValues
                   ELSE [id |-> jar[b].id, st |-> jar[b].st]
  <1> DEFINE x == [NoRequest EXCEPT !.pc = "start", !.kind = kind, !.br = b,
                                    !.arg = l, !.state = s, !.ck = ck]
  <1>1. ck \in Values /\ Belongs(ck, b)
    BY DEF Inv, TypeOK, OwnershipInv, CookiesInv, Belongs, Cookie, Values, NoValues
  <1>2. x \in Request
    BY <1>1, NoDataType DEF Request, NoRequest, PCs, Kinds, Codes
  <1>3. req' = [req EXCEPT ![r] = x] /\ UNCHANGED <<rows, now, jar, logins, latest, origin>>
    BY DEF Send
  <1>4. req'[r] = x
    BY <1>3 DEF Inv, TypeOK
  <1>5. RequestInv(r)'
    <2>1. /\ x.pc = "start" /\ x.kind = kind /\ x.br = b /\ x.arg = l /\ x.ck = ck
          /\ x.set = None /\ x.code = "none"
      BY DEF NoRequest
    <2>2. LoginRequest(r)'
      <3>1. \A q \in Requests : q # r => req'[q] = req[q]
        BY <1>3 DEF Inv, TypeOK
      <3>2. kind = "login" => /\ l # None
                              /\ logins[l].stage = "unused"
                              /\ \A q \in Requests : req[q].arg # l
        BY DEF Send
      <3> HIDE DEF x
      <3>3. ASSUME kind = "login", NEW q \in Requests, req'[q].arg = l PROVE q = r
        BY <3>1, <3>2, <3>3
      <3> QED BY <1>3, <1>4, <2>1, <3>2, <3>3 DEF LoginRequest
    <2>3. CallbackRequest(r)'
      BY <1>3, <1>4, <2>1 DEF Send, CallbackRequest, Kinds
    <2>4. LogoutRequest(r)' /\ ApiRequest(r)'
      BY <1>3, <1>4, <2>1 DEF LogoutRequest, ApiRequest, ApiPCs
    <2>5. Belongs(req[r].ck, req[r].br)'
      BY <1>1, <1>3, <1>4, <2>1 DEF Belongs
    <2> HIDE DEF x
    <2> QED BY <1>3, <1>4, <2>1, <2>2, <2>3, <2>4, <2>5 DEF RequestInv
  <1>6. latest' \in [Logins -> Nat]
    BY <1>3 DEF Inv, TypeOK
  <1> HIDE DEF x
  <1> QED BY <1>2, <1>3, <1>5, <1>6, OneRequest

\* A callback goes on to the exchange with the cookie's state, or without one
\* beside a session of its browser.
LEMMA CallbackInv ==
    ASSUME Inv, NEW r \in Requests, CallbackHandlerOidc(r)
    PROVE  Inv'
  <1> USE DEF At
  <1>1. CASE Respond(r, "error", None) \/ Respond(r, "unauthorized", None)
    BY <1>1, RespondInv DEF CallbackHandlerOidc, Codes, Inv, TypeOK
  <1>2. CASE GetSession(req[r].ck).err = "none" /\ StateMatches(r) /\ Goto(r, "exchange")
    <2> DEFINE x == [req[r] EXCEPT !.pc = "exchange"]
    <2>0. Goto(r, "exchange")
      BY <1>2
    <2>1. x \in Request /\ req' = [req EXCEPT ![r] = x] /\ req'[r] = x
      BY <2>0, RequestFacts DEF Goto, Inv, TypeOK, Request, PCs
    <2>2. /\ UNCHANGED <<rows, now, jar, logins, latest, origin>>
          /\ At(r, "callback", "start")
          /\ req[r].ck.st = req[r].state
          /\ req[r].ck.st = None => req[r].ck.id # None
      <3>1. req[r].ck.st = None => req[r].ck.id # None
        BY <1>2 DEF GetSession, dataFromDB
      <3> QED BY <1>2, <3>1 DEF CallbackHandlerOidc, StateMatches
    <2>3. RequestInv(r)'
      <3>1. /\ x.kind = "callback" /\ x.pc = "exchange" /\ x.br = req[r].br
            /\ x.arg = req[r].arg /\ x.ck = req[r].ck /\ x.set = req[r].set
            /\ x.state = req[r].state
        BY <2>2, RequestFacts DEF Request
      <3>2. /\ req[r].br # None /\ Belongs(req[r].ck, req[r].br) /\ req[r].set = None
            /\ req[r].arg # None
            /\ logins[req[r].arg].stage \in {"authenticated", "spent"}
        BY <2>2, RequestFacts DEF RequestInv, CallbackRequest
      <3> HIDE DEF x
      <3> QED BY <2>1, <2>2, <3>1, <3>2 DEF RequestInv, Belongs, LoginRequest, CallbackRequest,
           LogoutRequest, ApiRequest, ApiPCs
    <2>4. latest' \in [Logins -> Nat]
      BY <2>2 DEF Inv, TypeOK
    <2> HIDE DEF x
    <2> QED BY <2>1, <2>2, <2>3, <2>4, OneRequest
  <1> QED BY <1>1, <1>2 DEF CallbackHandlerOidc

\* A logout goes on to the DELETE with a session id only.
LEMMA LogoutInv ==
    ASSUME Inv, NEW r \in Requests, LogoutHandlerOidc(r)
    PROVE  Inv'
  <1> USE DEF At
  <1>1. CASE Respond(r, "error", None)
    BY <1>1, RespondInv DEF LogoutHandlerOidc, Codes, Inv, TypeOK
  <1>2. CASE req[r].ck.id # None /\ Goto(r, "delete")
    <2> DEFINE x == [req[r] EXCEPT !.pc = "delete"]
    <2>1. x \in Request /\ req' = [req EXCEPT ![r] = x] /\ req'[r] = x
      BY <1>2, RequestFacts DEF Goto, Inv, TypeOK, Request, PCs
    <2>2. UNCHANGED <<rows, now, jar, logins, latest, origin>> /\ At(r, "logout", "start")
      BY DEF LogoutHandlerOidc
    <2>3. RequestInv(r)'
      <3>1. /\ x.kind = "logout" /\ x.pc = "delete" /\ x.br = req[r].br
            /\ x.ck = req[r].ck /\ x.set = req[r].set
        BY <2>2, RequestFacts DEF Request
      <3>2. req[r].br # None /\ Belongs(req[r].ck, req[r].br) /\ req[r].set = None
        BY <2>2, RequestFacts DEF RequestInv
      <3> HIDE DEF x
      <3> QED BY <1>2, <2>1, <2>2, <3>1, <3>2 DEF RequestInv, Belongs, LoginRequest,
           CallbackRequest, LogoutRequest, ApiRequest, ApiPCs
    <2>4. latest' \in [Logins -> Nat]
      BY <2>2 DEF Inv, TypeOK
    <2> HIDE DEF x
    <2> QED BY <2>1, <2>2, <2>3, <2>4, OneRequest
  <1> QED BY <1>1, <1>2 DEF LogoutHandlerOidc

\* What GetSession finds belongs to the session of the cookie.
LEMMA GetSessionData ==
    ASSUME Inv, NEW r \in Requests, GetSession(req[r].ck).err = "none"
    PROVE  LET d == GetSession(req[r].ck).data
               id == req[r].ck.id
           IN  /\ d \in SessionData
               /\ d # NoData => /\ id \in SessionIDs
                                /\ req[r].ck.st = None
                                /\ Exists(id)
                                /\ d.tok # None
                                /\ d.tok.fam = origin[id]
                                /\ d.sub = logins[origin[id]].sub
  <1>1. CASE req[r].ck.st # None
    BY <1>1, NoDataType DEF GetSession
  <1>2. CASE req[r].ck.st = None
    <2> DEFINE id == req[r].ck.id
    <2>1. req[r].ck \in Values
      BY RequestFacts DEF Request
    <2>2. id \in SessionIDs /\ rows[id] \in Row
      BY <1>2, <2>1 DEF GetSession, dataFromDB, Exists, Values, Inv, TypeOK
    <2>3. GetSession(req[r].ck).data = Loaded(rows[id]) /\ Exists(id)
      BY <1>2, <2>2 DEF GetSession, dataFromDB, Get, Exists
    <2>4. Loaded(rows[id]) \in SessionData
      BY <2>2, LoadedType
    <2>5. /\ rows[id].tok \in Token
          /\ rows[id].tok.fam = origin[id]
          /\ rows[id].sub = logins[origin[id]].sub
      BY <2>2 DEF Row, Inv, OwnershipInv, RowsInv
    <2> QED BY <1>2, <2>2, <2>3, <2>4, <2>5 DEF Loaded
  <1> QED BY <1>1, <1>2

\* The middleware loads data of the cookie's session, or none.
LEMMA MiddlewareInv ==
    ASSUME Inv, NEW r \in Requests, AuthenticationMiddleware(r)
    PROVE  Inv'
  <1> USE DEF At
  <1> DEFINE s == GetSession(req[r].ck)
  <1>1. CASE s.err # "none"
    <2>1. Respond(r, "unauthorized", None)
      BY <1>1 DEF AuthenticationMiddleware
    <2> QED BY <2>1, RespondInv DEF AuthenticationMiddleware, Codes, Inv, TypeOK
  <1>2. CASE s.err = "none"
    <2> DEFINE x == [req[r] EXCEPT !.pc = "check", !.data = s.data]
    <2>1. s.data \in SessionData
      BY <1>2, GetSessionData
    <2>2. req' = [req EXCEPT ![r] = x]
      BY <1>2 DEF AuthenticationMiddleware
    <2>3. UNCHANGED <<rows, now, jar, logins, latest, origin>> /\ At(r, "api", "start")
      BY DEF AuthenticationMiddleware
    <2>4. s.data # NoData => /\ req[r].ck.id \in SessionIDs
                             /\ s.data.tok # None
                             /\ s.data.tok.fam = origin[req[r].ck.id]
                             /\ s.data.sub = logins[origin[req[r].ck.id]].sub
      BY <1>2, GetSessionData
    <2> HIDE DEF s
    <2>5. x \in Request /\ req'[r] = x
      <3>1. req[r] \in Request
        BY RequestFacts
      <3>2. x \in Request
        BY <2>1, <3>1 DEF Request, PCs
      <3> QED BY <2>2, <3>2 DEF Inv, TypeOK
    <2>6. RequestInv(r)'
      <3>1. /\ x.kind = "api" /\ x.pc = "check" /\ x.br = req[r].br
            /\ x.data = s.data /\ x.ck = req[r].ck /\ x.set = req[r].set
        BY <2>3, RequestFacts DEF Request
      <3>2. /\ req[r].br # None /\ Belongs(req[r].ck, req[r].br) /\ req[r].set = None
        BY <2>3, RequestFacts DEF RequestInv
      <3> HIDE DEF x
      <3> QED BY <2>3, <2>4, <2>5, <3>1, <3>2 DEF RequestInv, Belongs, LoginRequest, CallbackRequest,
           LogoutRequest, ApiRequest, ApiPCs
    <2>7. latest' \in [Logins -> Nat]
      BY <2>3 DEF Inv, TypeOK
    <2> HIDE DEF x
    <2> QED BY <2>2, <2>3, <2>5, <2>6, <2>7, OneRequest
  <1> QED BY <1>1, <1>2

\* Without data the middleware never goes straight to the backend.
LEMMA CheckExpiryInv ==
    ASSUME Inv, NEW r \in Requests, CheckExpiry(r)
    PROVE  Inv'
  <1> USE DEF At
  <1> DEFINE pc == IF IsExpired(req[r].data) THEN "refresh" ELSE "forward"
  <1> DEFINE x == [req[r] EXCEPT !.pc = pc]
  <1>0. req[r] \in Request /\ RequestInv(r)
    BY RequestFacts
  <1>1. x \in Request /\ req' = [req EXCEPT ![r] = x] /\ req'[r] = x
    <2>1. x \in Request
      BY <1>0 DEF Request, PCs
    <2>2. req' = [req EXCEPT ![r] = x]
      BY DEF CheckExpiry, Goto
    <2> HIDE DEF x
    <2> QED BY <2>1, <2>2 DEF Inv, TypeOK
  <1>2. UNCHANGED <<rows, now, jar, logins, latest, origin>> /\ At(r, "api", "check")
    BY DEF CheckExpiry
  <1>3. req[r].data = NoData => pc = "refresh"
    BY DEF IsExpired, NoData, ZeroTime, Inv, TypeOK
  <1>4. pc \in {"refresh", "forward"}
    OBVIOUS
  <1> HIDE DEF pc
  <1>5. RequestInv(r)'
    <2>1. /\ x.kind = "api" /\ x.pc = pc /\ x.br = req[r].br /\ x.ck = req[r].ck
          /\ x.set = req[r].set /\ x.data = req[r].data
      BY <1>0, <1>2 DEF Request
    <2>2. /\ req[r].br # None /\ Belongs(req[r].ck, req[r].br) /\ req[r].set = None
          /\ ApiRequest(r)
      BY <1>0, <1>2 DEF RequestInv
    <2> HIDE DEF x
    <2>3. ApiRequest(r)'
      BY <1>1, <1>2, <1>3, <1>4, <2>1, <2>2 DEF ApiRequest, ApiPCs
    <2> QED BY <1>1, <1>2, <1>4, <2>1, <2>2, <2>3 DEF RequestInv, Belongs, LoginRequest,
          CallbackRequest, LogoutRequest
  <1>6. latest' \in [Logins -> Nat]
    BY <1>2 DEF Inv, TypeOK
  <1> HIDE DEF x
  <1> QED BY <1>1, <1>2, <1>5, <1>6, OneRequest

\* Steps that end the handler without touching anything else.
LEMMA FailureInv ==
    ASSUME Inv, NEW r \in Requests,
           \/ ExchangeRefused(r) \/ RefreshRefused(r) \/ CookieUnusable(r)
           \/ DBError(r) \/ IDTokenInvalid(r)
    PROVE  Inv'
  <1>1. latest \in [Logins -> Nat]
    BY DEF Inv, TypeOK
  <1>2. CASE ExchangeRefused(r)
    BY <1>1, <1>2, RespondInv DEF ExchangeRefused, At, Codes
  <1>3. CASE RefreshRefused(r)
    BY <1>1, <1>3, RespondInv DEF RefreshRefused, At, Codes
  <1>4. CASE CookieUnusable(r)
    BY <1>1, <1>4, RespondInv DEF CookieUnusable, Codes
  <1>5. CASE DBError(r)
    BY <1>1, <1>5, RespondInv DEF DBError, UsesTable, Codes
  <1>6. CASE IDTokenInvalid(r)
    BY <1>1, <1>6, RespondInv DEF IDTokenInvalid, Codes
  <1> QED BY <1>2, <1>3, <1>4, <1>5, <1>6

\* The backend's answer takes the renewed cookie along.
LEMMA ForwardInv ==
    ASSUME Inv, NEW r \in Requests, Forward(r) \/ BackendError(r)
    PROVE  Inv'
  <1>1. latest \in [Logins -> Nat]
    BY DEF Inv, TypeOK
  <1>2. /\ req[r].set \in SetCookie \cup {None}
        /\ req[r].set # None => Belongs(req[r].set, req[r].br)
    BY RequestFacts DEF Request, RequestInv
  <1> QED BY <1>1, <1>2, RespondInv DEF Forward, BackendError, At, Codes

\* A refresh token that is sent to the provider is one of the cookie's session.
LEMMA RefreshFacts ==
    ASSUME Inv, NEW r \in Requests, At(r, "api", "refresh"), req[r].data.tok # None
    PROVE  LET l == req[r].data.tok.fam
               id == req[r].ck.id
           IN  /\ req[r] \in Request /\ req[r].data \in SessionData
               /\ req[r].data # NoData /\ l \in Logins /\ l = origin[id] /\ id # None
               /\ req[r].data.sub = logins[origin[id]].sub
  <1>1. req[r] \in Request /\ req[r].data \in SessionData /\ RequestInv(r)
    BY RequestFacts DEF Request
  <1>2. req[r].data # NoData
    BY DEF NoData
  <1>3. req[r].data.tok.fam \in Logins
    BY <1>1 DEF SessionData, Token
  <1> QED BY <1>1, <1>2, <1>3 DEF At, RequestInv, ApiRequest, ApiPCs

\* A lost renewal leaves the session as it was.
LEMMA RefreshLostInv ==
    ASSUME Inv, NEW r \in Requests, RefreshLost(r)
    PROVE  Inv'
  <1>1. latest' \in [Logins -> Nat]
    <2>1. req[r].data.tok.fam \in Logins
      BY RefreshFacts DEF RefreshLost, Renewable
    <2> QED BY <2>1 DEF RefreshLost, Inv, TypeOK
  <1> QED BY <1>1, RespondInv DEF RefreshLost, At, Codes

\* Renewed tokens are of the family the session was created with.
LEMMA RefreshGrantedInv ==
    ASSUME Inv, NEW r \in Requests, RefreshGranted(r)
    PROVE  Inv'
  <1> DEFINE l == req[r].data.tok.fam
             id == req[r].ck.id
  <1>1. PICK s \in Subjects :
          req' = [req EXCEPT ![r] = [@ EXCEPT !.pc = "update", !.token = NextTokens(l, s)]]
    BY DEF RefreshGranted
  <1>2. /\ At(r, "api", "refresh")
        /\ req[r].data.tok # None
        /\ UNCHANGED <<rows, now, jar, logins, origin>>
    BY DEF RefreshGranted, Renewable
  <1>3. /\ req[r] \in Request /\ req[r].data \in SessionData
        /\ req[r].data # NoData /\ l \in Logins /\ l = origin[id] /\ id # None
        /\ req[r].data.sub = logins[origin[id]].sub
    BY <1>2, RefreshFacts
  <1>4. NextTokens(l, s) \in Answer /\ NextTokens(l, s).tok.fam = l
    BY <1>3 DEF NextTokens, Answer, Token, Inv, TypeOK
  <1> DEFINE t == NextTokens(l, s)
             x == [req[r] EXCEPT !.pc = "update", !.token = t]
  <1> HIDE DEF t
  <1>5. req' = [req EXCEPT ![r] = x]
    BY <1>1 DEF t
  <1>6. /\ x.kind = "api" /\ x.pc = "update" /\ x.br = req[r].br /\ x.set = req[r].set
        /\ x.data = req[r].data /\ x.ck = req[r].ck /\ x.token = t
    BY <1>2, <1>3 DEF At, Request
  <1>7. x \in Request
    BY <1>3, <1>4 DEF Request, PCs, t
  <1>8. latest' \in [Logins -> Nat]
    BY <1>3 DEF RefreshGranted, Inv, TypeOK
  <1>9. RequestInv(r)'
    <2>1. /\ req[r].br # None /\ Belongs(req[r].ck, req[r].br) /\ req[r].set = None
      BY <1>2, RequestFacts DEF At, RequestInv
    <2>2. t # None /\ t.tok.fam = origin[id]
      BY <1>3, <1>4 DEF t
    <2>3. req'[r] = x
      BY <1>5 DEF Inv, TypeOK
    <2>4. req[r].data.tok.fam = origin[id] /\ req[r].data.tok # None
      BY <1>2, <1>3
    <2> HIDE DEF x, l
    <2> QED BY <1>2, <1>3, <1>6, <2>1, <2>2, <2>3, <2>4 DEF RequestInv, Belongs, LoginRequest, CallbackRequest,
       LogoutRequest, ApiRequest, ApiPCs
  <1> HIDE DEF x
  <1> QED BY <1>2, <1>5, <1>7, <1>8, <1>9, OneRequest

\* The subject comparison of Update keeps another user's ID token out.
LEMMA UpdateGetInv ==
    ASSUME Inv, NEW r \in Requests, UpdateGet(r)
    PROVE  Inv'
  <1> DEFINE t == req[r].token
             id == req[r].ck.id
  <1>1. /\ At(r, "api", "update")
        /\ UNCHANGED <<rows, now, jar, logins, latest, origin>>
        /\ latest \in [Logins -> Nat]
    BY DEF UpdateGet, Inv, TypeOK
  <1>2. CASE ~UpdateCheck(id, t)
    <2>1. Respond(r, "error", None)
      BY <1>1, <1>2, TokenInHand DEF UpdateGet
    <2> QED BY <1>1, <2>1, RespondInv DEF At, Codes
  <1>3. CASE UpdateCheck(id, t)
    <2>1. /\ req[r] \in Request /\ RequestInv(r)
          /\ t \in Answer /\ t.tok.fam = origin[id] /\ t.tok # None /\ t # NoData
          /\ id \in SessionIDs
      <3>1. req[r] \in Request /\ RequestInv(r)
        BY RequestFacts
      <3>2. t # None /\ t.tok.fam = origin[id] /\ id # None
        BY <1>1, <3>1 DEF At, RequestInv, ApiRequest, ApiPCs
      <3>3. t \in Answer /\ id \in SessionIDs
        BY <3>1, <3>2 DEF Request, Values
      <3>4. t.tok # None /\ t # NoData
        BY <3>3 DEF Answer, NoData
      <3> QED BY <3>1, <3>2, <3>3, <3>4
    <2>2. rows[id] # None /\ t.sub = rows[id].sub
      BY <1>3 DEF UpdateCheck, Exists, Get, Loaded
    <2>3. t.sub = logins[origin[id]].sub
      BY <2>1, <2>2 DEF Inv, OwnershipInv, RowsInv
    <2> HIDE DEF t
    <2> DEFINE x == [req[r] EXCEPT !.pc = "exec", !.data = t, !.token = None]
    <2>4. req' = [req EXCEPT ![r] = x]
      BY <1>1, <1>3, TokenInHand DEF UpdateGet, t
    <2>5. x \in Request
      BY <2>1, AnswerIsData DEF Request, PCs
    <2>6. RequestInv(r)'
      <3>1. /\ x.kind = "api" /\ x.pc = "exec" /\ x.br = req[r].br /\ x.set = req[r].set
            /\ x.data = t /\ x.ck = req[r].ck
        BY <1>1, <2>1 DEF At, Request
      <3>2. /\ req[r].br # None /\ Belongs(req[r].ck, req[r].br) /\ req[r].set = None
            /\ id # None
        BY <1>1, <2>1 DEF At, RequestInv
      <3>3. req'[r] = x
        BY <2>4 DEF Inv, TypeOK
      <3> HIDE DEF x
      <3> QED BY <1>1, <2>1, <2>3, <3>1, <3>2, <3>3 DEF RequestInv, Belongs, LoginRequest,
             CallbackRequest, LogoutRequest, ApiRequest, ApiPCs
    <2> HIDE DEF x
    <2> QED BY <1>1, <2>4, <2>5, <2>6, OneRequest
  <1> QED BY <1>2, <1>3

-----------------------------------------------------------------------------
(* Steps that move the logins on.                                          *)

\* How a step may change the logins: a state keeps its browser, a user once
\* authenticated stays, a spent code stays spent, by the browser that spent it.
LoginsAdvance ==
    /\ logins' \in [Logins -> Login]
    /\ LoginsInv'
    /\ OwnLoginFirst'
    /\ \A m \in Logins :
         /\ logins[m].stage # "unused" => logins'[m].br = logins[m].br
         /\ logins[m].stage \in {"authenticated", "spent"} =>
               /\ logins'[m].sub = logins[m].sub
               /\ logins'[m].stage \in {"authenticated", "spent"}
         /\ logins[m].stage = "spent" => /\ logins'[m].stage = "spent"
                                         /\ logins'[m].by = logins[m].by

\* Nobody's first login changes while no code is spent.
LEMMA LoginsKept ==
    ASSUME Inv, logins' \in [Logins -> Login],
           \A m \in Logins :
             /\ logins'[m].by = logins[m].by
             /\ logins'[m].via = logins[m].via
             /\ logins'[m].stage = "spent" <=> logins[m].stage = "spent"
             /\ logins[m].br # None => logins'[m].br = logins[m].br
             /\ logins'[m].stage = "unused" <=> logins'[m].br = None
             /\ logins'[m].stage \in {"authenticated", "spent"} => logins'[m].sub # None
    PROVE  LoginsInv' /\ OwnLoginFirst'
  <1>1. \A m \in Logins : logins[m].via \in Logins \cup {None}
    BY DEF Inv, TypeOK, Login
  <1>2. \A m \in Logins : logins[m].via # None =>
            /\ logins[m].by # None
            /\ logins[logins[m].via].br = logins[m].by
    BY DEF Inv, OwnershipInv, LoginsInv
  <1>3. \A m \in Logins : logins[m].via # None =>
            logins'[logins'[m].via].br = logins'[m].by
    BY <1>1, <1>2
  <1>4. LoginsInv'
    BY <1>2, <1>3 DEF Inv, OwnershipInv, LoginsInv
  <1>5. OwnLoginFirst'
    BY <1>3 DEF Inv, OwnershipInv, OwnLoginFirst
  <1> QED BY <1>4, <1>5

\* A cookie keeps belonging to its browser when the logins move on.
LEMMA BelongsAdvance ==
    ASSUME Inv, LoginsAdvance, UNCHANGED origin,
           NEW b \in Browsers, NEW ck,
           ck.id \in SessionIDs \cup {None}, ck.st \in Logins \cup {None},
           Belongs(ck, b)
    PROVE  /\ ck.id # None => origin'[ck.id] # None /\ logins'[origin'[ck.id]].by = b
           /\ ck.st # None => logins'[ck.st].br = b
  <1>1. ASSUME ck.id # None
        PROVE  origin[ck.id] # None /\ logins'[origin[ck.id]].by = b
    BY <1>1 DEF Belongs, LoginsAdvance, Inv, TypeOK, OwnershipInv, RowsInv
  <1>2. ASSUME ck.st # None
        PROVE  logins'[ck.st].br = b
    BY <1>2 DEF Belongs, LoginsAdvance, Inv, TypeOK, OwnershipInv, LoginsInv
  <1> QED BY <1>1, <1>2

\* Rows and cookie jars keep their owners when the logins move on.
LEMMA AdvanceGlobals ==
    ASSUME Inv, LoginsAdvance, UNCHANGED <<rows, jar, origin>>
    PROVE  /\ RowsInv'
           /\ CookiesInv'
  <1>1. RowsInv'
    BY DEF LoginsAdvance, Inv, TypeOK, OwnershipInv, RowsInv
  <1>2. ASSUME NEW b \in Browsers, jar[b] # None
        PROVE  Belongs(jar[b], b)'
    <2>1. jar[b] \in Cookie /\ Belongs(jar[b], b)
      BY <1>2 DEF Inv, TypeOK, OwnershipInv, CookiesInv
    <2>2. jar[b].id \in SessionIDs \cup {None} /\ jar[b].st \in Logins \cup {None}
      BY <2>1 DEF Cookie
    <2>3. /\ jar[b].id # None => origin'[jar[b].id] # None /\ logins'[origin'[jar[b].id]].by = b
          /\ jar[b].st # None => logins'[jar[b].st].br = b
      BY <2>1, <2>2, BelongsAdvance
    <2> QED BY <2>3 DEF Belongs
  <1> QED BY <1>1, <1>2 DEF CookiesInv

\* So do the requests that take no part in the step.
LEMMA AdvanceOther ==
    ASSUME Inv, LoginsAdvance, UNCHANGED origin,
           NEW q \in Requests, req'[q] = req[q],
           req[q].kind = "login" => logins'[req[q].arg] = logins[req[q].arg],
           \A p \in Requests : req'[p].kind = "login" =>
               req[p].kind = "login" /\ req'[p].arg = req[p].arg
    PROVE  RequestInv(q)'
  <1>1. req[q] \in Request /\ RequestInv(q)
    BY RequestFacts
  <1>2. req[q].pc # "idle" => req[q].br # None /\ Belongs(req[q].ck, req[q].br)'
    <2> HAVE req[q].pc # "idle"
    <2>1. req[q].br \in Browsers /\ Belongs(req[q].ck, req[q].br)
      BY <1>1 DEF RequestInv, Request
    <2>2. req[q].ck.id \in SessionIDs \cup {None} /\ req[q].ck.st \in Logins \cup {None}
      BY <1>1 DEF Request, Values
    <2> QED BY <2>1, <2>2, BelongsAdvance DEF Belongs
  <1>3. req[q].set # None => Belongs(req[q].set, req[q].br)'
    <2> HAVE req[q].set # None
    <2>1. req[q].br \in Browsers /\ Belongs(req[q].set, req[q].br)
      BY <1>1 DEF RequestInv, Request
    <2>2. req[q].set.id \in SessionIDs \cup {None} /\ req[q].set.st \in Logins \cup {None}
      BY <1>1 DEF Request, SetCookie
    <2> QED BY <2>1, <2>2, BelongsAdvance DEF Belongs
  <1>4. LoginRequest(q)'
    BY <1>1 DEF RequestInv, LoginRequest
  <1>5. CallbackRequest(q)'
    <2>1. req[q].arg \in Logins \cup {None}
      BY <1>1 DEF Request
    <2> QED BY <1>1, <2>1 DEF RequestInv, CallbackRequest, LoginsAdvance
  <1>6. LogoutRequest(q)'
    BY <1>1 DEF RequestInv, LogoutRequest
  <1>7. ApiRequest(q)'
    <2>1. req[q].kind = "api" /\ req[q].pc \in ApiPCs /\ req[q].data # NoData =>
             logins'[origin[req[q].ck.id]].sub = logins[origin[req[q].ck.id]].sub
      <3> DEFINE id == req[q].ck.id
      <3>1. req[q].kind = "api" /\ req[q].pc \in ApiPCs /\ req[q].data # NoData =>
               id \in SessionIDs /\ origin[id] \in Logins
        BY <1>1 DEF RequestInv, ApiRequest, ApiPCs, Belongs, Request, Values, Inv, TypeOK
      <3>2. id \in SessionIDs /\ origin[id] \in Logins => logins[origin[id]].stage = "spent"
        BY DEF Inv, OwnershipInv, RowsInv
      <3> QED BY <3>1, <3>2 DEF LoginsAdvance
    <2> QED BY <1>1, <2>1 DEF RequestInv, ApiRequest
  <1> QED BY <1>1, <1>2, <1>3, <1>4, <1>5, <1>6, <1>7 DEF RequestInv

\* A step that moves the logins on and request r to x.
LEMMA AdvanceInv ==
    ASSUME Inv, LoginsAdvance, NEW r \in Requests, NEW x \in Request,
           req' = [req EXCEPT ![r] = x],
           UNCHANGED <<rows, now, jar, latest, origin>>,
           x.kind = "login" => req[r].kind = "login" /\ x.arg = req[r].arg,
           \A q \in Requests : q # r /\ req[q].kind = "login" =>
               logins'[req[q].arg] = logins[req[q].arg],
           RequestInv(r)'
    PROVE  Inv'
  <1>1. TypeOK'
    BY DEF LoginsAdvance, Inv, TypeOK
  <1>2. \A q \in Requests : req'[q] = IF q = r THEN x ELSE req[q]
    BY DEF Inv, TypeOK
  <1>3. ASSUME NEW q \in Requests PROVE RequestInv(q)'
    <2>1. CASE q = r
      BY <2>1
    <2>2. CASE q # r
      BY <1>2, <2>2, AdvanceOther
    <2> QED BY <2>1, <2>2
  <1>4. LoginsInv' /\ OwnLoginFirst'
    BY DEF LoginsAdvance
  <1> QED BY <1>1, <1>3, <1>4, AdvanceGlobals DEF Inv, OwnershipInv

\* /login draws a fresh state for the browser that asked.
LEMMA LoginHandlerInv ==
    ASSUME Inv, NEW r \in Requests, LoginHandlerOidc(r)
    PROVE  Inv'
  <1> DEFINE l == req[r].arg
             b == req[r].br
             set == saveState(req[r].ck, l)
             x == [req[r] EXCEPT !.pc = "reply", !.code = "redirect", !.set = set,
                                 !.data = NoData, !.token = None]
  <1>1. /\ At(r, "login", "start")
        /\ logins' = [logins EXCEPT ![l] = [@ EXCEPT !.stage = "drawn", !.br = b]]
        /\ req' = [req EXCEPT ![r] = x]
        /\ UNCHANGED <<rows, now, jar, latest, origin>>
    BY DEF LoginHandlerOidc, Respond
  <1>2. req[r] \in Request /\ RequestInv(r)
    BY RequestFacts
  <1>3. /\ l \in Logins /\ b \in Browsers /\ logins[l].stage = "unused"
        /\ req[r].ck \in Values /\ Belongs(req[r].ck, b)
    BY <1>1, <1>2 DEF At, RequestInv, LoginRequest, Request
  <1>4. /\ set \in SetCookie /\ set.id = req[r].ck.id /\ set.st = l
    BY <1>3 DEF saveState, SetCookie, Values
  <1>5. LoginsAdvance
    <2>1. [logins[l] EXCEPT !.stage = "drawn", !.br = b] \in Login
      <3>1. logins[l] \in Login /\ b \in Browsers \cup {None}
        BY <1>3 DEF Inv, TypeOK
      <3> HIDE DEF b, l
      <3> QED BY <3>1 DEF Login, LoginStages
    <2>2. logins' \in [Logins -> Login]
      BY <1>1, <2>1 DEF Inv, TypeOK
    <2>3. /\ logins'[l].stage = "drawn" /\ logins'[l].br = b
          /\ logins'[l].by = logins[l].by /\ logins'[l].via = logins[l].via
          /\ \A m \in Logins : m # l => logins'[m] = logins[m]
      BY <1>1, <1>3 DEF Inv, TypeOK, Login
    <2>5. \A m \in Logins :
            /\ logins[m].stage = "unused" <=> logins[m].br = None
            /\ logins[m].stage \in {"authenticated", "spent"} => logins[m].sub # None
      BY DEF Inv, OwnershipInv, LoginsInv
    <2>6. b # None
      BY <1>3, HandlerAssumption
    <2>4. LoginsInv' /\ OwnLoginFirst'
      <3> HIDE DEF l, b
      <3> QED BY <1>3, <2>2, <2>3, <2>5, <2>6, LoginsKept
    <2> QED BY <1>3, <2>2, <2>3, <2>4 DEF LoginsAdvance
  <1>6. logins'[l].stage = "drawn" /\ logins'[l].br = b
    BY <1>1, <1>3 DEF Inv, TypeOK, Login
  <1> HIDE DEF set
  <1>7. x \in Request
    BY <1>2, <1>4, NoDataType DEF Request, PCs, Codes
  <1>8. /\ x.kind = "login" /\ x.pc = "reply" /\ x.code = "redirect" /\ x.arg = l
        /\ x.br = b /\ x.ck = req[r].ck /\ x.set = set
    BY <1>1, <1>2 DEF At, Request
  <1>9. \A q \in Requests : q # r /\ req[q].kind = "login" =>
            req[q].arg # l /\ req[q].arg \in Logins
    BY <1>1, RequestFacts DEF At, RequestInv, LoginRequest, Request
  <1>10. \A q \in Requests : q # r /\ req[q].kind = "login" =>
            logins'[req[q].arg] = logins[req[q].arg]
    BY <1>1, <1>9 DEF Inv, TypeOK
  <1> HIDE DEF x
  <1>11. RequestInv(r)'
    <2>1. \A q \in Requests : req'[q] = IF q = r THEN x ELSE req[q]
      BY <1>1 DEF Inv, TypeOK
    <2>2. LoginRequest(r)'
      BY <1>1, <1>3, <1>6, <1>8, <1>9, <2>1 DEF LoginRequest
    <2>3. req[r].ck.id \in SessionIDs \cup {None} /\ req[r].ck.st \in Logins \cup {None}
      BY <1>3 DEF Values
    <2>4. /\ req[r].ck.id # None => origin'[req[r].ck.id] # None
                                 /\ logins'[origin'[req[r].ck.id]].by = b
          /\ req[r].ck.st # None => logins'[req[r].ck.st].br = b
      BY <1>1, <1>3, <1>5, <2>3, BelongsAdvance
    <2> QED BY <1>3, <1>4, <1>6, <1>8, <2>1, <2>2, <2>4 DEF RequestInv, Belongs,
           CallbackRequest, LogoutRequest, ApiRequest
  <1> QED BY <1>1, <1>5, <1>7, <1>8, <1>10, <1>11, AdvanceInv DEF At

\* The provider uses up the code of a login: the callback has a state of its
\* browser, or none beside a session that was there before.
LEMMA SpendAdvance ==
    ASSUME Inv, NEW r \in Requests, At(r, "callback", "exchange"),
           logins[req[r].arg].stage = "authenticated", Spend(r, req[r].arg)
    PROVE  /\ LoginsAdvance
           /\ logins'[req[r].arg].stage = "spent"
           /\ logins'[req[r].arg].by = req[r].br
           /\ logins'[req[r].arg].sub = logins[req[r].arg].sub
           /\ \A q \in Requests : req[q].kind = "login" =>
                  logins'[req[q].arg] = logins[req[q].arg]
  <1> DEFINE l == req[r].arg
             b == req[r].br
             s == req[r].state
  <1>0. req[r] \in Request /\ RequestInv(r)
    BY RequestFacts
  <1>1. /\ l \in Logins /\ b \in Browsers /\ s \in Logins \cup {None}
        /\ req[r].ck \in Values /\ Belongs(req[r].ck, b)
        /\ req[r].ck.st = s /\ (s = None => req[r].ck.id # None)
    BY <1>0 DEF At, RequestInv, CallbackRequest, Request
  <1>2. b # None
    BY <1>1, HandlerAssumption
  <1>3. logins' = [logins EXCEPT ![l] = [@ EXCEPT !.stage = "spent", !.by = b, !.via = s]]
    BY DEF Spend
  <1>4. logins[l].stage = "authenticated"
    OBVIOUS
  <1> HIDE DEF l, b, s
  <1>5. logins' \in [Logins -> Login]
    <2>1. logins[l] \in Login
      BY <1>1 DEF Inv, TypeOK
    <2>2. [logins[l] EXCEPT !.stage = "spent", !.by = b, !.via = s] \in Login
      BY <1>1, <2>1 DEF Login, LoginStages
    <2> QED BY <1>3, <2>2 DEF Inv, TypeOK
  <1>6. /\ logins'[l].stage = "spent" /\ logins'[l].by = b /\ logins'[l].via = s
        /\ logins'[l].br = logins[l].br /\ logins'[l].sub = logins[l].sub
        /\ \A m \in Logins : m # l => logins'[m] = logins[m]
    BY <1>1, <1>3 DEF Inv, TypeOK, Login
  <1>7. \A m \in Logins :
          /\ logins[m].via \in Logins \cup {None}
          /\ logins[m].stage = "unused" <=> logins[m].br = None
          /\ logins[m].stage \in {"authenticated", "spent"} => logins[m].sub # None
          /\ logins[m].stage = "spent" <=> logins[m].by # None
          /\ logins[m].via # None => /\ logins[m].by # None
                                     /\ logins[logins[m].via].br = logins[m].by
    BY DEF Inv, TypeOK, Login, OwnershipInv, LoginsInv
  <1>8. \A m \in Logins : logins'[m].br = logins[m].br
    BY <1>6
  <1>9. s # None => s \in Logins /\ logins'[s].br = b
    BY <1>1, <1>8 DEF Belongs
  <1>10. LoginsInv'
    BY <1>2, <1>4, <1>6, <1>7, <1>8, <1>9 DEF LoginsInv
  <1>11. ASSUME NEW k \in Logins, logins[k].stage = "spent"
         PROVE  \E m \in Logins : /\ logins'[m].by = logins[k].by
                                  /\ logins'[m].via # None
                                  /\ logins'[logins'[m].via].br = logins[k].by
    <2>1. PICK m \in Logins : /\ logins[m].by = logins[k].by
                              /\ logins[m].via # None
                              /\ logins[logins[m].via].br = logins[k].by
      BY <1>11 DEF Inv, OwnershipInv, OwnLoginFirst
    <2>2. m # l
      BY <1>4, <1>7, <1>11, <2>1
    <2> QED BY <1>6, <1>7, <1>8, <2>1, <2>2
  <1>12. \E m \in Logins : /\ logins'[m].by = b
                           /\ logins'[m].via # None
                           /\ logins'[logins'[m].via].br = b
    <2>1. CASE s # None
      BY <1>1, <1>6, <1>9, <2>1
    <2>2. CASE s = None
      <3>1. PICK id \in SessionIDs : id = req[r].ck.id
        BY <1>1, <2>2 DEF Values
      <3>2. origin[id] \in Logins /\ logins[origin[id]].by = b
        BY <1>1, <2>2, <3>1 DEF Belongs, Inv, TypeOK
      <3>3. logins[origin[id]].stage = "spent"
        BY <3>2 DEF Inv, OwnershipInv, RowsInv
      <3> QED BY <1>11, <3>2, <3>3
    <2> QED BY <2>1, <2>2
  <1>13. OwnLoginFirst'
    <2> SUFFICES ASSUME NEW k \in Logins, logins'[k].stage = "spent"
                 PROVE  \E m \in Logins :
                           /\ logins'[m].by = logins'[k].by
                           /\ logins'[m].via # None
                           /\ logins'[logins'[m].via].br = logins'[k].by
      BY DEF OwnLoginFirst
    <2>1. CASE k = l
      BY <1>6, <1>12, <2>1
    <2>2. CASE k # l
      BY <1>6, <1>11, <2>2
    <2> QED BY <2>1, <2>2
  <1>14. ASSUME NEW q \in Requests, req[q].kind = "login"
         PROVE  logins'[req[q].arg] = logins[req[q].arg]
    <2>1. req[q].arg \in Logins
      BY <1>14, RequestFacts DEF RequestInv, LoginRequest, Request
    <2>2. req[q].arg # l
      BY <1>4, <1>14, RequestFacts DEF RequestInv, LoginRequest
    <2> QED BY <1>6, <2>1, <2>2
  <1>15. LoginsAdvance
    BY <1>4, <1>5, <1>6, <1>10, <1>13 DEF LoginsAdvance
  <1> QED BY <1>6, <1>14, <1>15 DEF l, b

\* The tokens a callback receives are of the user of its login.
LEMMA ExchangeGrantedInv ==
    ASSUME Inv, NEW r \in Requests, ExchangeGranted(r)
    PROVE  Inv'
  <1> DEFINE l == req[r].arg
             t == FirstTokens(l)
             x == [req[r] EXCEPT !.pc = "save", !.token = t]
  <1>1. /\ At(r, "callback", "exchange") /\ logins[l].stage = "authenticated"
        /\ Spend(r, l)
        /\ req' = [req EXCEPT ![r] = x]
        /\ UNCHANGED <<rows, now, jar, latest, origin>>
    BY DEF ExchangeGranted
  <1>2. req[r] \in Request /\ RequestInv(r)
    BY RequestFacts
  <1>3. /\ l \in Logins /\ req[r].br \in Browsers
        /\ req[r].set = None
        /\ req[r].ck \in Values /\ Belongs(req[r].ck, req[r].br)
        /\ req[r].ck.st = req[r].state
        /\ req[r].ck.st = None => req[r].ck.id # None
    BY <1>1, <1>2 DEF At, RequestInv, CallbackRequest, Request
  <1>4. t \in Answer /\ t.tok.fam = l /\ t.sub = logins[l].sub /\ t # None
    <2>1. logins[l].sub \in Subjects
      BY <1>1, <1>3 DEF Inv, TypeOK, Login, OwnershipInv, LoginsInv
    <2> QED BY <1>3, <2>1 DEF FirstTokens, Answer, Token, Inv, TypeOK
  <1>5. /\ LoginsAdvance
        /\ logins'[l].stage = "spent" /\ logins'[l].by = req[r].br
        /\ logins'[l].sub = logins[l].sub
        /\ \A q \in Requests : req[q].kind = "login" =>
               logins'[req[q].arg] = logins[req[q].arg]
    BY <1>1, SpendAdvance
  <1> HIDE DEF t
  <1>6. x \in Request
    BY <1>2, <1>4 DEF Request, PCs
  <1>7. /\ x.kind = "callback" /\ x.pc = "save" /\ x.arg = l /\ x.token = t
        /\ x.state = req[r].state
        /\ x.br = req[r].br /\ x.ck = req[r].ck /\ x.set = None
    BY <1>1, <1>2, <1>3 DEF At, Request
  <1> HIDE DEF x
  <1>8. RequestInv(r)'
    <2>1. req'[r] = x
      BY <1>1 DEF Inv, TypeOK
    <2>2. CallbackRequest(r)'
      BY <1>3, <1>4, <1>5, <1>7, <2>1 DEF CallbackRequest
    <2>3. req[r].ck.id \in SessionIDs \cup {None} /\ req[r].ck.st \in Logins \cup {None}
      BY <1>3 DEF Values
    <2>4. /\ req[r].ck.id # None => origin'[req[r].ck.id] # None
                                 /\ logins'[origin'[req[r].ck.id]].by = req[r].br
          /\ req[r].ck.st # None => logins'[req[r].ck.st].br = req[r].br
      BY <1>1, <1>3, <1>5, <2>3, BelongsAdvance
    <2> QED BY <1>3, <1>7, <2>1, <2>2, <2>4 DEF RequestInv, Belongs, LoginRequest,
           LogoutRequest, ApiRequest
  <1> QED BY <1>1, <1>5, <1>6, <1>7, <1>8, AdvanceInv

\* A code that is spent in vain ties nothing to anybody.
LEMMA ExchangeLostInv ==
    ASSUME Inv, NEW r \in Requests, ExchangeLost(r)
    PROVE  Inv'
  <1> DEFINE l == req[r].arg
             x == [req[r] EXCEPT !.pc = "reply", !.code = "unauthorized", !.set = None,
                                 !.data = NoData, !.token = None]
  <1>1. /\ At(r, "callback", "exchange") /\ logins[l].stage = "authenticated"
        /\ Spend(r, l)
        /\ req' = [req EXCEPT ![r] = x]
        /\ UNCHANGED <<rows, now, jar, latest, origin>>
    BY DEF ExchangeLost, Respond
  <1>2. req[r] \in Request /\ RequestInv(r)
    BY RequestFacts
  <1>3. /\ l \in Logins /\ req[r].br \in Browsers
        /\ req[r].ck \in Values /\ Belongs(req[r].ck, req[r].br)
    BY <1>1, <1>2 DEF At, RequestInv, CallbackRequest, Request
  <1>4. /\ LoginsAdvance /\ logins'[l].stage = "spent"
        /\ \A q \in Requests : req[q].kind = "login" =>
               logins'[req[q].arg] = logins[req[q].arg]
    BY <1>1, SpendAdvance
  <1>5. x \in Request
    BY <1>2, NoDataType DEF Request, PCs, Codes
  <1>6. /\ x.kind = "callback" /\ x.pc = "reply" /\ x.arg = l
        /\ x.br = req[r].br /\ x.ck = req[r].ck /\ x.set = None
    BY <1>1, <1>2 DEF At, Request
  <1> HIDE DEF x
  <1>7. RequestInv(r)'
    <2>1. req'[r] = x
      BY <1>1 DEF Inv, TypeOK
    <2>2. CallbackRequest(r)'
      BY <1>3, <1>4, <1>6, <2>1 DEF CallbackRequest
    <2>3. req[r].ck.id \in SessionIDs \cup {None} /\ req[r].ck.st \in Logins \cup {None}
      BY <1>3 DEF Values
    <2>4. /\ req[r].ck.id # None => origin'[req[r].ck.id] # None
                                 /\ logins'[origin'[req[r].ck.id]].by = req[r].br
          /\ req[r].ck.st # None => logins'[req[r].ck.st].br = req[r].br
      BY <1>1, <1>3, <1>4, <2>3, BelongsAdvance
    <2> QED BY <1>3, <1>6, <2>1, <2>2, <2>4 DEF RequestInv, Belongs, LoginRequest,
           LogoutRequest, ApiRequest
  <1> QED BY <1>1, <1>4, <1>5, <1>6, <1>7, AdvanceInv

\* A user authenticates in a login no session refers to yet.
LEMMA AuthenticateInv ==
    ASSUME Inv, NEW l \in Logins, NEW s \in Subjects, Authenticate(l, s)
    PROVE  Inv'
  <1>1. /\ logins[l].stage = "redirected"
        /\ logins' = [logins EXCEPT ![l] = [@ EXCEPT !.stage = "authenticated", !.sub = s]]
        /\ UNCHANGED <<rows, now, jar, req, latest, origin>>
    BY DEF Authenticate
  <1>2. [logins[l] EXCEPT !.stage = "authenticated", !.sub = s] \in Login
    <2>1. logins[l] \in Login /\ s \in Subjects \cup {None}
      BY DEF Inv, TypeOK
    <2> QED BY <2>1 DEF Login, LoginStages
  <1>3. logins' \in [Logins -> Login]
    BY <1>1, <1>2 DEF Inv, TypeOK
  <1>4. /\ logins'[l].stage = "authenticated" /\ logins'[l].sub = s
        /\ logins'[l].br = logins[l].br
        /\ logins'[l].by = logins[l].by /\ logins'[l].via = logins[l].via
        /\ \A m \in Logins : m # l => logins'[m] = logins[m]
    BY <1>1 DEF Inv, TypeOK, Login
  <1>5. LoginsInv' /\ OwnLoginFirst'
    <2>1. \A m \in Logins :
            /\ logins[m].stage = "unused" <=> logins[m].br = None
            /\ logins[m].stage \in {"authenticated", "spent"} => logins[m].sub # None
      BY DEF Inv, OwnershipInv, LoginsInv
    <2>2. s # None
      BY TableAssumption
    <2> QED BY <1>1, <1>3, <1>4, <2>1, <2>2, LoginsKept
  <1>6. LoginsAdvance
    BY <1>1, <1>3, <1>4, <1>5 DEF LoginsAdvance
  <1>7. ASSUME NEW q \in Requests PROVE RequestInv(q)'
    <2>1. req[q].kind = "login" => logins'[req[q].arg] = logins[req[q].arg]
      BY <1>1, <1>4, RequestFacts DEF RequestInv, LoginRequest, Request
    <2> QED BY <1>1, <1>6, <2>1, AdvanceOther
  <1>8. TypeOK'
    BY <1>1, <1>3 DEF Inv, TypeOK
  <1> QED BY <1>1, <1>5, <1>6, <1>7, <1>8, AdvanceGlobals
        DEF Inv, OwnershipInv

-----------------------------------------------------------------------------
(* The answer, the clock, and the end of the process.                      *)

\* A slot that is free satisfies the invariant.
LEMMA IdleInv ==
    ASSUME NEW r \in Requests, req'[r] = NoRequest
    PROVE  RequestInv(r)'
  BY DEF RequestInv, NoRequest, Belongs, LoginRequest, CallbackRequest, LogoutRequest,
     ApiRequest

\* A free slot has the type of a request.
LEMMA NoRequestType == NoRequest \in Request
  BY NoDataType DEF NoRequest, Request, Values, NoValues, PCs, Kinds, Codes

\* The answer puts a cookie of this browser into its jar.
LEMMA DeliverInv ==
    ASSUME Inv, NEW r \in Requests, Deliver(r)
    PROVE  Inv'
  <1> DEFINE q == req[r]
  <1>1. /\ q.pc = "reply" /\ req' = [req EXCEPT ![r] = NoRequest]
        /\ UNCHANGED <<rows, now, latest, origin>>
    BY DEF Deliver
  <1>2. q \in Request /\ RequestInv(r)
    BY RequestFacts
  <1>3. /\ q.br \in Browsers
        /\ q.set # None => q.set \in SetCookie /\ Belongs(q.set, q.br)
    BY <1>1, <1>2 DEF RequestInv, Request
  <1>4. \A p \in Requests : req'[p] = IF p = r THEN NoRequest ELSE req[p]
    BY <1>1 DEF Inv, TypeOK
  <1>5. /\ LoginsAdvance
        /\ \A p \in Requests : p # r /\ req[p].kind = "login" =>
               logins'[req[p].arg] = logins[req[p].arg]
    <2>1. CASE q.kind = "login" /\ q.code = "redirect"
      <3>1. q.arg \in Logins /\ logins[q.arg].stage = "drawn"
        BY <1>2, <2>1 DEF RequestInv, LoginRequest, Request
      <3>2. logins' = [logins EXCEPT ![q.arg].stage = "redirected"]
        BY <2>1 DEF Deliver
      <3>3. logins' \in [Logins -> Login]
        BY <3>1, <3>2 DEF Inv, TypeOK, Login, LoginStages
      <3>4. /\ logins'[q.arg].stage = "redirected"
            /\ logins'[q.arg].br = logins[q.arg].br
            /\ logins'[q.arg].by = logins[q.arg].by
            /\ logins'[q.arg].via = logins[q.arg].via
            /\ \A m \in Logins : m # q.arg => logins'[m] = logins[m]
        BY <3>1, <3>2 DEF Inv, TypeOK, Login
      <3>5. LoginsInv' /\ OwnLoginFirst'
        <4>1. \A m \in Logins :
                /\ logins[m].stage = "unused" <=> logins[m].br = None
                /\ logins[m].stage \in {"authenticated", "spent"} => logins[m].sub # None
          BY DEF Inv, OwnershipInv, LoginsInv
        <4> QED BY <3>1, <3>3, <3>4, <4>1, LoginsKept
      <3>6. LoginsAdvance
        BY <3>1, <3>3, <3>4, <3>5 DEF LoginsAdvance
      <3>7. \A p \in Requests : p # r /\ req[p].kind = "login" =>
               req[p].arg \in Logins /\ req[p].arg # q.arg
        BY <2>1, RequestFacts DEF RequestInv, LoginRequest, Request
      <3> QED BY <3>4, <3>6, <3>7
    <2>2. CASE ~(q.kind = "login" /\ q.code = "redirect")
      <3>1. logins' = logins
        BY <2>2 DEF Deliver
      <3> QED BY <3>1 DEF LoginsAdvance, Inv, TypeOK, OwnershipInv, LoginsInv, OwnLoginFirst
    <2> QED BY <2>1, <2>2
  <1>6. ASSUME NEW p \in Requests PROVE RequestInv(p)'
    <2>1. CASE p = r
      BY <1>4, <2>1, IdleInv
    <2>2. CASE p # r
      <3>1. \A o \in Requests : req'[o].kind = "login" =>
               req[o].kind = "login" /\ req'[o].arg = req[o].arg
        BY <1>4 DEF NoRequest
      <3> QED BY <1>1, <1>4, <1>5, <2>2, <3>1, AdvanceOther
    <2> QED BY <2>1, <2>2
  <1> DEFINE c == [id |-> q.set.id, st |-> q.set.st, exp |-> now + q.set.age]
  <1>7. /\ jar' \in [Browsers -> Cookie \cup {None}]
        /\ \A b \in Browsers : \/ jar'[b] = jar[b]
                               \/ jar'[b] = None
                               \/ b = q.br /\ q.set # None /\ jar'[b] = c
    <2>1. CASE q.set = None
      BY <2>1 DEF Deliver, Inv, TypeOK
    <2>2. CASE q.set # None /\ q.set.age <= 0
      BY <1>3, <2>2 DEF Deliver, Inv, TypeOK
    <2>3. CASE q.set # None /\ ~(q.set.age <= 0)
      <3>1. c \in Cookie
        BY <1>3, <2>3 DEF Cookie, SetCookie, Inv, TypeOK
      <3>2. jar' = [jar EXCEPT ![q.br] = c]
        BY <2>3 DEF Deliver
      <3> HIDE DEF c
      <3> QED BY <1>3, <2>3, <3>1, <3>2 DEF Inv, TypeOK
    <2> QED BY <2>1, <2>2, <2>3
  <1>8. ASSUME NEW b \in Browsers, jar'[b] # None PROVE Belongs(jar[b], b)'
    <2>1. CASE jar'[b] = jar[b]
      <3>1. jar[b] \in Cookie /\ Belongs(jar[b], b)
        BY <1>8, <2>1 DEF Inv, TypeOK, OwnershipInv, CookiesInv
      <3>2. jar[b].id \in SessionIDs \cup {None} /\ jar[b].st \in Logins \cup {None}
        BY <3>1 DEF Cookie
      <3>3. /\ jar[b].id # None => origin'[jar[b].id] # None
                                /\ logins'[origin'[jar[b].id]].by = b
            /\ jar[b].st # None => logins'[jar[b].st].br = b
        BY <1>1, <1>5, <3>1, <3>2, BelongsAdvance
      <3> QED BY <2>1, <3>3 DEF Belongs
    <2>2. CASE b = q.br /\ q.set # None /\ jar'[b] = c
      <3>1. q.set.id \in SessionIDs \cup {None} /\ q.set.st \in Logins \cup {None}
        BY <1>3, <2>2 DEF SetCookie
      <3>2. /\ q.set.id # None => origin'[q.set.id] # None
                               /\ logins'[origin'[q.set.id]].by = q.br
            /\ q.set.st # None => logins'[q.set.st].br = q.br
        BY <1>1, <1>3, <1>5, <2>2, <3>1, BelongsAdvance
      <3>3. jar'[b].id = q.set.id /\ jar'[b].st = q.set.st
        BY <2>2
      <3> QED BY <2>2, <3>2, <3>3 DEF Belongs
    <2> QED BY <1>7, <1>8, <2>1, <2>2
  <1>9. TypeOK'
    BY <1>1, <1>5, <1>7, NoRequestType DEF LoginsAdvance, Inv, TypeOK
  <1>10. LoginsInv' /\ OwnLoginFirst' /\ RowsInv'
    <2>1. LoginsInv' /\ OwnLoginFirst'
      BY <1>5 DEF LoginsAdvance
    <2>2. RowsInv'
      BY <1>1, <1>5 DEF LoginsAdvance, Inv, TypeOK, OwnershipInv, RowsInv
    <2> QED BY <2>1, <2>2
  <1> QED BY <1>6, <1>8, <1>9, <1>10 DEF Inv, OwnershipInv, CookiesInv

\* A lost answer changes nothing but the slot.
LEMMA LoseResponseInv ==
    ASSUME Inv, NEW r \in Requests, LoseResponse(r)
    PROVE  Inv'
  <1>1. /\ req' = [req EXCEPT ![r] = NoRequest]
        /\ UNCHANGED <<rows, now, jar, logins, latest, origin>>
    BY DEF LoseResponse
  <1>2. req'[r] = NoRequest /\ latest' \in [Logins -> Nat]
    BY <1>1 DEF Inv, TypeOK
  <1> QED BY <1>1, <1>2, IdleInv, NoRequestType, OneRequest

\* A crash forgets the requests and keeps the rest.
LEMMA CrashInv ==
    ASSUME Inv, Crash
    PROVE  Inv'
  <1>1. /\ req' = [r \in Requests |-> NoRequest]
        /\ UNCHANGED <<rows, now, jar, logins, latest, origin>>
    BY DEF Crash
  <1>2. ASSUME NEW q \in Requests PROVE RequestInv(q)'
    BY <1>1, IdleInv
  <1>3. TypeOK'
    BY <1>1, NoRequestType DEF Inv, TypeOK
  <1>4. LoginsInv' /\ OwnLoginFirst' /\ RowsInv'
    BY <1>1 DEF Inv, OwnershipInv, LoginsInv, OwnLoginFirst, RowsInv
  <1>5. CookiesInv'
    BY <1>1 DEF Inv, OwnershipInv, CookiesInv, Belongs
  <1> QED BY <1>2, <1>3, <1>4, <1>5 DEF Inv, OwnershipInv

\* Time only takes cookies away.
LEMMA TickInv ==
    ASSUME Inv, Tick
    PROVE  Inv'
  <1>1. now' = now + 1 /\ UNCHANGED <<rows, req, logins, latest, origin>>
    BY DEF Tick
  <1>2. \A b \in Browsers : jar'[b] = jar[b] \/ jar'[b] = None
    BY DEF Tick
  <1>3. TypeOK'
    <2>1. jar' \in [Browsers -> Cookie \cup {None}]
      BY DEF Tick, Inv, TypeOK
    <2> QED BY <1>1, <2>1 DEF Inv, TypeOK
  <1>4. LoginsInv' /\ OwnLoginFirst' /\ RowsInv'
    BY <1>1 DEF Inv, OwnershipInv, LoginsInv, OwnLoginFirst, RowsInv
  <1>5. CookiesInv'
    BY <1>1, <1>2 DEF Inv, OwnershipInv, CookiesInv, Belongs
  <1>6. ASSUME NEW q \in Requests PROVE RequestInv(q)'
    BY <1>1, SameRequest
  <1> QED BY <1>3, <1>4, <1>5, <1>6 DEF Inv, OwnershipInv

-----------------------------------------------------------------------------
(* Steps that write to the table.                                          *)

\* A step that writes to the table and moves request r on, to x.
LEMMA TableRequest ==
    ASSUME Inv, NEW r \in Requests, NEW x \in Request,
           req' = [req EXCEPT ![r] = x],
           UNCHANGED <<now, jar, logins, latest, origin>>,
           rows' \in [SessionIDs -> Row \cup {None}], RowsInv',
           RequestInv(r)'
    PROVE  Inv'
  <1>1. TypeOK'
    BY DEF Inv, TypeOK
  <1>2. LoginsInv' /\ OwnLoginFirst'
    BY DEF Inv, OwnershipInv, LoginsInv, OwnLoginFirst
  <1>3. CookiesInv'
    BY DEF Inv, OwnershipInv, CookiesInv, Belongs
  <1>4. ASSUME NEW q \in Requests, q # r PROVE RequestInv(q)'
    <2>1. req'[q] = req[q] /\ \A p \in Requests : p # r => req'[p] = req[p]
      BY <1>4 DEF Inv, TypeOK
    <2>2. LoginRequest(r)'
      BY DEF RequestInv
    <2> QED BY <2>1, <2>2, SameRequest
  <1> QED BY <1>1, <1>2, <1>3, <1>4 DEF Inv, OwnershipInv

\* The purge only takes rows away.
LEMMA PurgeInv ==
    ASSUME Inv, Purge
    PROVE  Inv'
  <1>1. UNCHANGED <<now, jar, req, logins, latest, origin>>
    BY DEF Purge
  <1>2. \A id \in SessionIDs : rows'[id] = rows[id] \/ rows'[id] = None
    BY DEF Purge, PurgeRows
  <1>3. TypeOK'
    <2>1. rows' \in [SessionIDs -> Row \cup {None}]
      BY DEF Purge, PurgeRows, Inv, TypeOK
    <2> QED BY <1>1, <2>1 DEF Inv, TypeOK
  <1>4. LoginsInv' /\ OwnLoginFirst' /\ RowsInv'
    BY <1>1, <1>2 DEF Inv, OwnershipInv, LoginsInv, OwnLoginFirst, RowsInv
  <1>5. CookiesInv'
    BY <1>1 DEF Inv, OwnershipInv, CookiesInv, Belongs
  <1>6. ASSUME NEW q \in Requests PROVE RequestInv(q)'
    BY <1>1, SameRequest
  <1> QED BY <1>3, <1>4, <1>5, <1>6 DEF Inv, OwnershipInv

\* A logout takes one row away.
LEMMA LogoutDeleteInv ==
    ASSUME Inv, NEW r \in Requests, LogoutDelete(r)
    PROVE  Inv'
  <1> DEFINE ck == req[r].ck
             gone == [id |-> ck.id, st |-> ck.st, age |-> -1]
  <1>0. PICK code \in {"redirect", "error"}, set \in {gone, None} : Respond(r, code, set)
    BY DEF LogoutDelete, SaveCookie
  <1> DEFINE x == [req[r] EXCEPT !.pc = "reply", !.code = code, !.set = set,
                                 !.data = NoData, !.token = None]
  <1>1. /\ At(r, "logout", "delete") /\ req' = [req EXCEPT ![r] = x]
        /\ rows' = [rows EXCEPT ![ck.id] = None]
        /\ UNCHANGED <<now, jar, logins, latest, origin>>
    BY <1>0 DEF LogoutDelete, Respond, Delete
  <1>2. req[r] \in Request /\ RequestInv(r)
    BY RequestFacts
  <1>3. /\ ck \in Values /\ set \in SetCookie \cup {None}
        /\ set # None => set.id = ck.id /\ set.st = ck.st
        /\ req[r].br # None /\ Belongs(ck, req[r].br)
    BY <1>1, <1>2 DEF At, RequestInv, Request, Values, SetCookie
  <1>4. rows' \in [SessionIDs -> Row \cup {None}] /\ RowsInv'
    BY <1>1 DEF Inv, TypeOK, OwnershipInv, RowsInv
  <1> HIDE DEF gone
  <1>5. x \in Request
    BY <1>2, <1>3, NoDataType DEF Request, PCs, Codes
  <1>6. /\ x.kind = "logout" /\ x.pc = "reply" /\ x.br = req[r].br /\ x.ck = ck
        /\ x.set = set
    BY <1>1, <1>2 DEF At, Request
  <1>7. req'[r] = x
    BY <1>1 DEF Inv, TypeOK
  <1> HIDE DEF x
  <1>8. RequestInv(r)'
    BY <1>1, <1>3, <1>6, <1>7 DEF RequestInv, Belongs, LoginRequest, CallbackRequest,
       LogoutRequest, ApiRequest, ApiPCs
  <1> QED BY <1>1, <1>4, <1>5, <1>8, TableRequest

\* The UPDATE of a renewal writes data of the row's own login and user, or
\* nothing when the row has gone.
LEMMA UpdateWriteInv ==
    ASSUME Inv, NEW r \in Requests, UpdateWrite(r)
    PROVE  Inv'
  <1> DEFINE id == req[r].ck.id
             d == req[r].data
             set == saveSession(id)
             x == [req[r] EXCEPT !.pc = "forward", !.set = set]
             y == [req[r] EXCEPT !.pc = "reply", !.code = "error", !.set = None,
                                 !.data = NoData, !.token = None]
  <1>1. /\ At(r, "api", "exec") /\ UpdateExec(id, d)
        /\ req' = [req EXCEPT ![r] = x] \/ req' = [req EXCEPT ![r] = y]
        /\ UNCHANGED <<now, jar, logins, latest, origin>>
    BY DEF UpdateWrite, Respond
  <1>2. req[r] \in Request /\ RequestInv(r)
    BY RequestFacts
  <1>3. /\ id \in SessionIDs /\ d \in SessionData /\ d # NoData
        /\ d.tok # None /\ d.tok.fam = origin[id] /\ d.sub = logins[origin[id]].sub
        /\ req[r].br # None /\ Belongs(req[r].ck, req[r].br)
    BY <1>1, <1>2 DEF At, RequestInv, ApiRequest, ApiPCs, Request, Values
  <1>4. origin[id] \in Logins /\ logins[origin[id]].sub \in Subjects
    <2>1. origin[id] \in Logins
      BY <1>3 DEF Belongs, Inv, TypeOK
    <2> QED BY <1>3, <2>1 DEF Inv, TypeOK, Login, OwnershipInv, RowsInv, LoginsInv
  <1>5. Stored(d) \in Row /\ Stored(d).tok.fam = origin[id]
        /\ Stored(d).sub = logins[origin[id]].sub
    <2>1. d \in Answer
      BY <1>3, <1>4 DEF Answer, SessionData
    <2> QED BY <1>3, <2>1, StoredType DEF Stored
  <1> DEFINE w == Stored(d)
  <1>6. rows' = IF rows[id] # None THEN [rows EXCEPT ![id] = w] ELSE rows
    BY <1>1 DEF UpdateExec, Exists
  <1> HIDE DEF w
  <1>7. rows' \in [SessionIDs -> Row \cup {None}] /\ RowsInv'
    BY <1>1, <1>3, <1>4, <1>5, <1>6 DEF Inv, TypeOK, OwnershipInv, RowsInv, w
  <1>8. set \in SetCookie /\ set.id = id /\ set.st = None
    BY <1>3 DEF saveSession, SetCookie
  <1> HIDE DEF set
  <1>9. x \in Request /\ y \in Request
    <2>1. x \in Request
      BY <1>2, <1>8 DEF Request, PCs
    <2>2. y \in Request
      BY <1>2, NoDataType DEF Request, PCs, Codes
    <2> QED BY <2>1, <2>2
  <1>10. /\ x.kind = "api" /\ x.pc = "forward" /\ x.br = req[r].br /\ x.ck = req[r].ck
         /\ x.set = set /\ x.data = d
         /\ y.kind = "api" /\ y.pc = "reply" /\ y.br = req[r].br /\ y.ck = req[r].ck
         /\ y.set = None /\ y.data = NoData
    BY <1>1, <1>2 DEF At, Request
  <1>11. req'[r] = x \/ req'[r] = y
    BY <1>1 DEF Inv, TypeOK
  <1> HIDE DEF x, y, d
  <1>12. RequestInv(r)'
    BY <1>1, <1>3, <1>8, <1>10, <1>11 DEF RequestInv, Belongs, LoginRequest, CallbackRequest,
       LogoutRequest, ApiRequest, ApiPCs
  <1> QED BY <1>1, <1>7, <1>9, <1>12, TableRequest

\* A new row, under a new id, is that of the callback's login.
LEMMA SaveInv ==
    ASSUME Inv, NEW r \in Requests, Save(r)
    PROVE  Inv'
  <1> DEFINE l == req[r].arg
             t == req[r].token
  <1>1. PICK id \in SessionIDs :
          /\ origin[id] = None
          /\ origin' = [origin EXCEPT ![id] = l]
          /\ Add(id, t)
          /\ SaveCookie(r, "redirect", saveSession(id))
    BY TokenInHand DEF Save
  <1>0. PICK code \in {"redirect", "error"}, set \in {saveSession(id), None} :
          Respond(r, code, set)
    BY <1>1 DEF SaveCookie
  <1> DEFINE w == Stored(t)
  <1>2. At(r, "callback", "save") /\ UNCHANGED <<now, jar, logins, latest>>
    BY DEF Save
  <1>3. req[r] \in Request /\ RequestInv(r)
    BY RequestFacts
  <1>4. /\ l \in Logins /\ logins[l].stage = "spent" /\ logins[l].by = req[r].br
        /\ t \in Answer /\ t.tok.fam = l /\ t.sub = logins[l].sub
        /\ req[r].br \in Browsers /\ Belongs(req[r].ck, req[r].br)
    BY <1>2, <1>3 DEF At, RequestInv, CallbackRequest, Request
  <1>5. w \in Row /\ w.tok.fam = l /\ w.sub = logins[l].sub
    BY <1>4, StoredType DEF Stored
  <1>6. rows' = [rows EXCEPT ![id] = w]
    BY <1>1 DEF Add
  <1>7. /\ set \in SetCookie \cup {None}
        /\ set # None => set.id = id /\ set.st = None
    BY DEF saveSession, SetCookie
  <1> HIDE DEF w
  <1>8. TypeOK'
    <2>1. req' \in [Requests -> Request]
      BY <1>0, <1>7, RespondType DEF Codes
    <2>2. rows' \in [SessionIDs -> Row \cup {None}]
      BY <1>5, <1>6 DEF Inv, TypeOK
    <2>3. origin' \in [SessionIDs -> Logins \cup {None}]
      BY <1>1, <1>4 DEF Inv, TypeOK
    <2> QED BY <1>2, <2>1, <2>2, <2>3 DEF Inv, TypeOK
  <1>9. /\ origin'[id] = l /\ rows'[id] = w
        /\ \A i \in SessionIDs : i # id => origin'[i] = origin[i] /\ rows'[i] = rows[i]
    BY <1>1, <1>6 DEF Inv, TypeOK
  <1>10. LoginsInv' /\ OwnLoginFirst' /\ RowsInv'
    <2>1. LoginsInv' /\ OwnLoginFirst'
      BY <1>2 DEF Inv, OwnershipInv, LoginsInv, OwnLoginFirst
    <2>2. RowsInv'
      BY <1>2, <1>4, <1>5, <1>9 DEF Inv, OwnershipInv, RowsInv
    <2> QED BY <2>1, <2>2
  <1>11. \A i \in SessionIDs : origin[i] # None => origin'[i] = origin[i]
    BY <1>1, <1>9
  <1>12. CookiesInv'
    BY <1>2, <1>11 DEF Inv, TypeOK, OwnershipInv, CookiesInv, Belongs, Cookie
  <1> DEFINE x == [req[r] EXCEPT !.pc = "reply", !.code = code, !.set = set,
                                 !.data = NoData, !.token = None]
  <1>13. req' = [req EXCEPT ![r] = x]
    BY <1>0 DEF Respond
  <1>14. /\ x.kind = "callback" /\ x.pc = "reply" /\ x.br = req[r].br /\ x.ck = req[r].ck
         /\ x.set = set /\ x.arg = l
    BY <1>2, <1>3 DEF At, Request
  <1> HIDE DEF x
  <1>15. \A q \in Requests : req'[q] = IF q = r THEN x ELSE req[q]
    BY <1>13 DEF Inv, TypeOK
  <1>16. ASSUME NEW q \in Requests PROVE RequestInv(q)'
    <2>1. CASE q = r
      <3>1. req[r].ck.id \in SessionIDs \cup {None}
        BY <1>3 DEF Request, Values
      <3>2. /\ req[r].ck.id # None => origin'[req[r].ck.id] # None
                                   /\ logins[origin'[req[r].ck.id]].by = req[r].br
            /\ req[r].ck.st # None => logins[req[r].ck.st].br = req[r].br
        BY <1>4, <1>11, <3>1 DEF Belongs
      <3> QED BY <1>2, <1>4, <1>7, <1>9, <1>14, <1>15, <2>1, <3>2
            DEF RequestInv, Belongs, LoginRequest, CallbackRequest, LogoutRequest, ApiRequest
    <2>2. CASE q # r
      <3>1. req[q] \in Request /\ RequestInv(q) /\ req'[q] = req[q]
        BY <1>15, <2>2, RequestFacts
      <3>2. /\ req[q].ck.id \in SessionIDs \cup {None}
            /\ req[q].set # None => req[q].set.id \in SessionIDs \cup {None}
        BY <3>1 DEF Request, Values, SetCookie
      <3>3. /\ req[q].pc # "idle" => req[q].br # None /\ Belongs(req[q].ck, req[q].br)'
            /\ req[q].set # None => Belongs(req[q].set, req[q].br)'
        BY <1>2, <1>11, <3>1, <3>2 DEF RequestInv, Belongs
      <3>4. LoginRequest(q)'
        BY <1>2, <1>14, <1>15, <3>1 DEF RequestInv, LoginRequest
      <3>5. CallbackRequest(q)' /\ LogoutRequest(q)'
        BY <1>2, <3>1 DEF RequestInv, CallbackRequest, LogoutRequest
      <3>6. ApiRequest(q)'
        BY <1>2, <1>11, <3>1, <3>2 DEF RequestInv, ApiRequest, ApiPCs, Belongs
      <3> QED BY <3>1, <3>3, <3>4, <3>5, <3>6 DEF RequestInv
    <2> QED BY <2>1, <2>2
  <1> QED BY <1>8, <1>10, <1>12, <1>16 DEF Inv, OwnershipInv

-----------------------------------------------------------------------------

\* Every step keeps the inductive invariant.
THEOREM NextInv == Inv /\ [Next]_vars => Inv'
  <1> SUFFICES ASSUME Inv, [Next]_vars PROVE Inv'
    OBVIOUS
  <1>1. CASE UNCHANGED vars
    <2>1. UNCHANGED <<rows, now, jar, req, logins, latest, origin>>
      BY <1>1 DEF vars
    <2>2. TypeOK' /\ CookiesInv' /\ LoginsInv' /\ OwnLoginFirst' /\ RowsInv'
      BY <2>1 DEF Inv, TypeOK, OwnershipInv, CookiesInv, LoginsInv, OwnLoginFirst, RowsInv,
         Belongs
    <2>3. \A q \in Requests : RequestInv(q)'
      BY <2>1, SameRequest
    <2> QED BY <2>2, <2>3 DEF Inv, OwnershipInv
  <1>2. ASSUME NEW r \in Requests, HandlerStep(r) PROVE Inv'
    BY <1>2, LoginHandlerInv, CallbackInv, ExchangeGrantedInv, ExchangeLostInv, SaveInv,
       LogoutInv, LogoutDeleteInv, MiddlewareInv, CheckExpiryInv, RefreshGrantedInv,
       RefreshLostInv, UpdateGetInv, UpdateWriteInv, ForwardInv, FailureInv
       DEF HandlerStep
  <1>3. ASSUME NEW r \in Requests, NEW b \in Browsers, NEW kind \in Kinds \ {"none"},
               NEW l \in Logins \cup {None}, NEW s \in Logins \cup {None},
           Send(r, b, kind, l, s)
        PROVE  Inv'
    BY <1>3, SendInv
  <1>4. ASSUME NEW r \in Requests, Deliver(r) \/ LoseResponse(r) PROVE Inv'
    BY <1>4, DeliverInv, LoseResponseInv
  <1>5. ASSUME NEW l \in Logins, NEW s \in Subjects, Authenticate(l, s) PROVE Inv'
    BY <1>5, AuthenticateInv
  <1> QED BY <1>1, <1>2, <1>3, <1>4, <1>5, PurgeInv, CrashInv, TickInv DEF Next

\* Every variable keeps its type in every behaviour of the handlers.
THEOREM TypeCorrect == Spec => []TypeOK
  <1>1. Inv => TypeOK
    BY DEF Inv
  <1> QED BY <1>1, InitInv, NextInv, PTL DEF Spec

\* Cookies, rows, tokens and data in hand always belong together.
THEOREM Ownership == Spec => []OwnershipInv
  <1>1. Inv => OwnershipInv
    BY DEF Inv
  <1> QED BY <1>1, InitInv, NextInv, PTL DEF Spec

\* A request that is being forwarded works on the data of a session of its own
\* browser.
LEMMA ForwardedData ==
    ASSUME Inv, NEW r \in Requests, req[r].pc = "forward"
    PROVE  /\ req[r].data.tok # None
           /\ req[r].data.tok.fam \in Logins
           /\ logins[req[r].data.tok.fam].by = req[r].br
           /\ req[r].data.sub = logins[req[r].data.tok.fam].sub
  <1>1. req[r] \in Request /\ RequestInv(r)
    BY RequestFacts
  <1>2. req[r].kind = "api"
    BY <1>1 DEF RequestInv, LoginRequest, CallbackRequest, LogoutRequest, Request, Kinds
  <1>3. /\ req[r].data.tok # None
        /\ req[r].ck.id # None
        /\ req[r].data.tok.fam = origin[req[r].ck.id]
        /\ req[r].data.sub = logins[origin[req[r].ck.id]].sub
    BY <1>1, <1>2 DEF RequestInv, ApiRequest, ApiPCs
  <1>4. origin[req[r].ck.id] # None /\ logins[origin[req[r].ck.id]].by = req[r].br
    BY <1>1, <1>3 DEF RequestInv, Belongs
  <1>5. origin[req[r].ck.id] \in Logins
    BY <1>1, <1>3, <1>4 DEF Request, Values, Inv, TypeOK
  <1> QED BY <1>3, <1>4, <1>5

\* A request is forwarded to the backend only with tokens, and as the user who
\* authenticated in the login they come from.
THEOREM OnlyOwnUser == Spec => []ForwardsOnlyOwnUser
  <1>1. Inv => ForwardsOnlyOwnUser
    BY ForwardedData DEF ForwardsOnlyOwnUser
  <1> QED BY <1>1, InitInv, NextInv, PTL DEF Spec

\* It is forwarded only with tokens of a login that ended in its own browser,
\* with a state drawn for that browser or with none.
THEOREM OnlyOwnLogin == Spec => []ForwardsOnlyOwnLogin
  <1>1. Inv => ForwardsOnlyOwnLogin
    <2> SUFFICES ASSUME Inv, NEW r \in Requests, req[r].pc = "forward",
                        NEW l \in Logins, l = req[r].data.tok.fam
                 PROVE  /\ logins[l].by = req[r].br
                        /\ logins[l].via # None => logins[logins[l].via].br = req[r].br
      BY ForwardedData DEF ForwardsOnlyOwnLogin
    <2>1. logins[l].by = req[r].br
      BY ForwardedData
    <2> QED BY <2>1 DEF Inv, OwnershipInv, LoginsInv
  <1> QED BY <1>1, InitInv, NextInv, PTL DEF Spec

\* A browser that a code was spent for has spent one with a state of its own:
\* without a state it takes a session to get a session.
THEOREM FirstIsOwn == Spec => []OwnLoginFirst
  <1>1. Inv => OwnLoginFirst
    BY DEF Inv, OwnershipInv
  <1> QED BY <1>1, InitInv, NextInv, PTL DEF Spec

-----------------------------------------------------------------------------
(* What leaves the table.                                                  *)

\* Whole seconds before now are before now.
LEMMA EarlierSecond ==
    ASSUME NEW e \in Int, NEW n \in Nat, NEW s \in Nat \ {0}, e < n \div s
    PROVE  e * s < n
  <1>1. n \div s \in Int /\ n % s \in 0..(s - 1) /\ n = s * (n \div s) + (n % s)
    OBVIOUS
  <1> DEFINE d == n \div s
  <1>2. d \in Int /\ e + 1 <= d /\ s * d <= n
    BY <1>1
  <1> HIDE DEF d
  <1>3. s * (e + 1) <= s * d
    BY <1>2
  <1>4. s * (e + 1) = e * s + s
    OBVIOUS
  <1> QED BY <1>2, <1>3, <1>4

\* A row the purge takes is one whose token the middleware calls expired.
LEMMA PurgeableIsExpired ==
    ASSUME TypeOK, NEW id \in SessionIDs, Purgeable(id)
    PROVE  IsExpired(Get(id))
  <1>1. rows[id] \in Row /\ rows[id].expiresAt < now \div Second
    BY DEF Purgeable, Exists, Unix, TypeOK
  <1>2. rows[id].expiresAt \in Int /\ now \in Nat
    BY <1>1 DEF Row, TypeOK
  <1>3. rows[id].expiresAt * Second < now
    BY <1>1, <1>2, EarlierSecond
  <1> QED BY <1>2, <1>3 DEF IsExpired, Get, Loaded, FromUnix

\* What Save writes.
LEMMA SaveWrites ==
    ASSUME Inv, NEW r \in Requests, Save(r)
    PROVE  /\ \E id \in SessionIDs :
                /\ origin[id] = None
                /\ origin' = [origin EXCEPT ![id] = req[r].arg]
                /\ rows' = [rows EXCEPT ![id] = Stored(req[r].token)]
                /\ \E code, set : Respond(r, code, set)
           /\ Stored(req[r].token) \in Row
           /\ Stored(req[r].token).sub = logins[req[r].arg].sub
           /\ req[r].arg \in Logins
           /\ UNCHANGED <<now, jar, logins, latest>>
           /\ req[r].kind = "callback"
  <1>1. req[r] \in Request /\ RequestInv(r) /\ At(r, "callback", "save")
    BY RequestFacts DEF Save
  <1>2. /\ req[r].token \in Answer /\ req[r].token.sub = logins[req[r].arg].sub
        /\ req[r].arg \in Logins
    BY <1>1 DEF At, RequestInv, CallbackRequest, Request
  <1>3. newData(req[r].token) = req[r].token
    BY <1>1, TokenInHand
  <1> QED BY <1>1, <1>2, <1>3, StoredType DEF Save, SaveCookie, Add, Stored, At

\* What the UPDATE of a renewal writes.
LEMMA UpdateWrites ==
    ASSUME Inv, NEW r \in Requests, UpdateWrite(r)
    PROVE  LET id == req[r].ck.id
               w == Stored(req[r].data)
           IN  /\ id \in SessionIDs
               /\ rows' = IF rows[id] # None THEN [rows EXCEPT ![id] = w] ELSE rows
               /\ w \in Row
               /\ origin[id] # None
               /\ req[r].data # NoData
               /\ req[r].data.sub = logins[origin[id]].sub
  <1> DEFINE id == req[r].ck.id
             d == req[r].data
  <1>1. req[r] \in Request /\ RequestInv(r) /\ At(r, "api", "exec")
    BY RequestFacts DEF UpdateWrite
  <1>2. /\ id \in SessionIDs /\ d \in SessionData /\ d # NoData /\ origin[id] # None
        /\ d.tok # None /\ d.sub = logins[origin[id]].sub
    BY <1>1 DEF At, RequestInv, ApiRequest, ApiPCs, Request, Values, Belongs
  <1>3. logins[origin[id]].sub \in Subjects
    BY <1>2 DEF Inv, TypeOK, Login, OwnershipInv, RowsInv, LoginsInv
  <1>4. d \in Answer
    BY <1>2, <1>3 DEF Answer, SessionData
  <1> QED BY <1>2, <1>4, StoredType DEF UpdateWrite, UpdateExec, Exists

\* Only a logout and the purge remove rows.
LEMMA RowsStay ==
    ASSUME Inv, [Next]_vars, ~Purge, NEW id \in SessionIDs, rows[id] # None,
           \A r \in Requests : LogoutDelete(r) => req[r].ck.id # id
    PROVE  rows'[id] # None
  <1>1. ASSUME NEW r \in Requests, Save(r) PROVE rows'[id] # None
    BY <1>1, SaveWrites DEF Inv, TypeOK
  <1>2. ASSUME NEW r \in Requests, UpdateWrite(r) PROVE rows'[id] # None
    <2> DEFINE w == Stored(req[r].data)
               i == req[r].ck.id
    <2>1. /\ rows' = IF rows[i] # None THEN [rows EXCEPT ![i] = w] ELSE rows
          /\ w \in Row
      BY <1>2, UpdateWrites
    <2> HIDE DEF w
    <2> QED BY <2>1 DEF Inv, TypeOK
  <1>3. ASSUME NEW r \in Requests, LogoutDelete(r) PROVE rows'[id] # None
    BY <1>3 DEF LogoutDelete, Delete, Inv, TypeOK
  <1>4. CASE rows' = rows
    BY <1>4
  <1>5. ASSUME NEW r \in Requests, HandlerStep(r) PROVE rows'[id] # None
    <2>1. \/ Save(r) \/ UpdateWrite(r) \/ LogoutDelete(r) \/ rows' = rows
      BY <1>5 DEF HandlerStep, LoginHandlerOidc, CallbackHandlerOidc, ExchangeGranted,
         ExchangeRefused, ExchangeLost, LogoutHandlerOidc, AuthenticationMiddleware,
         CheckExpiry, RefreshGranted, RefreshRefused, RefreshLost, UpdateGet, Forward,
         BackendError, CookieUnusable, DBError, IDTokenInvalid
    <2> QED BY <1>1, <1>2, <1>3, <1>4, <2>1
  <1>6. CASE UNCHANGED vars
    BY <1>6 DEF vars
  <1> QED BY <1>4, <1>5, <1>6 DEF Next, Send, Deliver, LoseResponse, Authenticate, Crash,
        Tick

\* A session only leaves the table by its logout, or when the middleware would
\* have found its access token expired.
THEOREM OnlyExpiredRemoved == Spec => RemovesOnlyExpired
  <1>1. Inv /\ [Next]_vars =>
          [\A id \in SessionIDs :
             Exists(id) /\ rows'[id] = None =>
                \/ IsExpired(Get(id))
                \/ \E r \in Requests : At(r, "logout", "delete") /\ req[r].ck.id = id]_vars
    <2> SUFFICES ASSUME Inv, [Next]_vars, NEW id \in SessionIDs, Exists(id), rows'[id] = None
                 PROVE  \/ IsExpired(Get(id))
                        \/ \E r \in Requests : At(r, "logout", "delete") /\ req[r].ck.id = id
      OBVIOUS
    <2>1. CASE Purge
      <3>1. Purgeable(id)
        BY <2>1 DEF Purge, PurgeRows, Exists
      <3> QED BY <3>1, PurgeableIsExpired DEF Inv
    <2>2. CASE ~Purge
      <3>1. PICK r \in Requests : LogoutDelete(r) /\ req[r].ck.id = id
        BY <2>2, RowsStay DEF Exists
      <3> QED BY <3>1 DEF LogoutDelete
    <2> QED BY <2>1, <2>2
  <1> QED BY <1>1, InitInv, NextInv, PTL DEF Spec, RemovesOnlyExpired

-----------------------------------------------------------------------------
(* TokenHandler implements SessionLifecycle.                               *)

\* A live session's row names the user of its login, so that the mapping's
\* user can be read off the login alone.
LEMMA UserOfLogin ==
    ASSUME Inv, Inv'
    PROVE  /\ \A id \in SessionIDs : userBar[id] =
                  IF origin[id] = None THEN None ELSE logins[origin[id]].sub
           /\ \A id \in SessionIDs : userBar'[id] =
                  IF origin'[id] = None THEN None ELSE logins'[origin'[id]].sub
  BY DEF userBar, Exists, Inv, OwnershipInv, RowsInv

\* Nobody's name changes once the code is spent.
LEMMA UsersStay ==
    ASSUME Inv, [Next]_vars, NEW l \in Logins, logins[l].stage = "spent"
    PROVE  logins'[l].sub = logins[l].sub
  <1>1. logins \in [Logins -> Login]
    BY DEF Inv, TypeOK
  <1>2. ASSUME NEW r \in Requests, HandlerStep(r) PROVE logins'[l].sub = logins[l].sub
    <2>1. CASE LoginHandlerOidc(r)
      BY <1>1, <2>1 DEF LoginHandlerOidc, Login
    <2>2. CASE ExchangeGranted(r)
      BY <1>1, <2>2 DEF ExchangeGranted, Spend, Login
    <2>3. CASE ExchangeLost(r)
      BY <1>1, <2>3 DEF ExchangeLost, Spend, Login
    <2>4. \/ LoginHandlerOidc(r) \/ ExchangeGranted(r) \/ ExchangeLost(r) \/ logins' = logins
      BY <1>2 DEF HandlerStep, CallbackHandlerOidc, ExchangeRefused, Save,
         LogoutHandlerOidc, LogoutDelete, AuthenticationMiddleware, CheckExpiry,
         RefreshGranted, RefreshRefused, RefreshLost, UpdateGet, UpdateWrite, Forward,
         BackendError, CookieUnusable, DBError, IDTokenInvalid
    <2> QED BY <2>1, <2>2, <2>3, <2>4
  <1>3. ASSUME NEW r \in Requests, Deliver(r) PROVE logins'[l].sub = logins[l].sub
    BY <1>1, <1>3 DEF Deliver, Login
  <1>4. ASSUME NEW m \in Logins, NEW s \in Subjects, Authenticate(m, s)
        PROVE  logins'[l].sub = logins[l].sub
    BY <1>1, <1>4 DEF Authenticate
  <1>5. CASE UNCHANGED logins
    BY <1>5
  <1> QED BY <1>2, <1>3, <1>4, <1>5 DEF Next, vars, Send, LoseResponse, Purge, Crash, Tick

\* Steps that neither add nor remove a row change no session.
LEMMA SameSessions ==
    ASSUME Inv, Inv', [Next]_vars, UNCHANGED origin,
           \A id \in SessionIDs : rows'[id] # None <=> rows[id] # None
    PROVE  UNCHANGED <<phaseBar, userBar>>
  <1>1. phaseBar' = phaseBar
    BY DEF phaseBar, Exists
  <1>2. \A id \in SessionIDs : userBar'[id] = userBar[id]
    <2>1. \A id \in SessionIDs : origin[id] # None =>
             logins'[origin[id]].sub = logins[origin[id]].sub
      BY UsersStay DEF Inv, TypeOK, OwnershipInv, RowsInv
    <2> QED BY <2>1, UserOfLogin
  <1>3. userBar' = userBar
    BY <1>2 DEF userBar
  <1> QED BY <1>1, <1>3

\* A step after which the requests of R are in no session, and the others are
\* where they were.
LEMMA LeaveStep ==
    ASSUME UNCHANGED <<phaseBar, userBar>>, NEW R \in SUBSET Requests,
           \A q \in R : ~Inside(q)',
           \A q \in Requests \ R : /\ Inside(q)' <=> Inside(q)
                                   /\ Inside(q) =>
                                        /\ req'[q].ck = req[q].ck
                                        /\ req'[q].pc = "forward" <=> req[q].pc = "forward"
                                        /\ req[q].pc = "forward" =>
                                              req'[q].data = req[q].data
    PROVE  Lifecycle!Next
  <1>1. holderBar' = [q \in Requests |-> IF q \in R THEN None ELSE holderBar[q]]
    BY DEF holderBar
  <1>2. servingBar' = [q \in Requests |-> IF q \in R THEN None ELSE servingBar[q]]
    BY DEF servingBar
  <1>3. Lifecycle!Leave(R)
    BY <1>1, <1>2 DEF Lifecycle!Leave
  <1> QED BY <1>3 DEF Lifecycle!Next

\* The same, for a step of one request that ends outside of any session.
LEMMA LeaveOne ==
    ASSUME Inv, Inv', [Next]_vars, NEW r \in Requests,
           UNCHANGED origin, \A id \in SessionIDs : rows'[id] # None <=> rows[id] # None,
           ~Inside(r)',
           \A q \in Requests : q # r => req'[q] = req[q]
    PROVE  Lifecycle!Next
  <1>1. UNCHANGED <<phaseBar, userBar>>
    BY SameSessions
  <1>2. \A q \in Requests \ {r} : Inside(q)' <=> Inside(q)
    BY DEF Inside
  <1> DEFINE R == {r}
  <1>3. R \in SUBSET Requests /\ \A q \in R : ~Inside(q)'
    OBVIOUS
  <1>4. \A q \in Requests \ R : req'[q] = req[q] /\ (Inside(q)' <=> Inside(q))
    BY <1>2
  <1> HIDE DEF R
  <1> QED BY <1>1, <1>3, <1>4, LeaveStep

\* A handler that answers, from wherever it was, has left.
LEMMA RespondLeaves ==
    ASSUME Inv, Inv', [Next]_vars, NEW r \in Requests, NEW code, NEW set,
           Respond(r, code, set), UNCHANGED origin,
           \A id \in SessionIDs : rows'[id] # None <=> rows[id] # None
    PROVE  Lifecycle!Next
  <1>1. req \in [Requests -> Request]
    BY DEF Inv, TypeOK
  <1>2. req'[r].pc = "reply" /\ \A q \in Requests : q # r => req'[q] = req[q]
    BY <1>1 DEF Respond, Request
  <1>3. ~Inside(r)'
    BY <1>2 DEF Inside, ApiPCs
  <1> QED BY <1>2, <1>3, LeaveOne

\* Serving a request: it is in a session, and goes on to the backend as the
\* user of that session.
LEMMA ServeStep ==
    ASSUME Inv, Inv', [Next]_vars, NEW r \in Requests,
           UNCHANGED origin, \A id \in SessionIDs : rows'[id] # None <=> rows[id] # None,
           Inside(r), Inside(r)', req[r].pc # "forward", req'[r].pc = "forward",
           req'[r].ck = req[r].ck, req[r].ck.id \in SessionIDs,
           origin[req[r].ck.id] # None,
           req'[r].data.sub = logins[origin[req[r].ck.id]].sub,
           \A q \in Requests : q # r => req'[q] = req[q]
    PROVE  Lifecycle!Next
  <1> DEFINE id == req[r].ck.id
  <1>1. UNCHANGED <<phaseBar, userBar>>
    BY SameSessions
  <1>2. \A q \in Requests \ {r} : Inside(q)' <=> Inside(q)
    BY DEF Inside
  <1>3. holderBar' = holderBar
    BY <1>2 DEF holderBar
  <1>4. holderBar[r] = id /\ holderBar[r] # None /\ servingBar[r] = None
    BY DEF holderBar, servingBar
  <1>5. userBar[id] = req'[r].data.sub
    BY UserOfLogin
  <1>6. servingBar' = [servingBar EXCEPT ![r] = userBar[holderBar[r]]]
    BY <1>2, <1>4, <1>5 DEF servingBar
  <1>7. Lifecycle!Serve(r)
    BY <1>1, <1>3, <1>4, <1>6 DEF Lifecycle!Serve
  <1> QED BY <1>7 DEF Lifecycle!Next

\* GetSession in the middleware enters a live session, or none.
LEMMA LifecycleEnter ==
    ASSUME Inv, Inv', [Next]_vars, NEW r \in Requests, AuthenticationMiddleware(r)
    PROVE  Lifecycle!Next
  <1> DEFINE s == GetSession(req[r].ck)
             id == req[r].ck.id
  <1>1. At(r, "api", "start") /\ UNCHANGED <<rows, origin>>
    BY DEF AuthenticationMiddleware
  <1>2. CASE s.err # "none"
    <2>1. Respond(r, "unauthorized", None)
      BY <1>2 DEF AuthenticationMiddleware
    <2> QED BY <1>1, <2>1, RespondLeaves
  <1>3. CASE s.err = "none"
    <2>1. req' = [req EXCEPT ![r] = [@ EXCEPT !.pc = "check", !.data = s.data]]
      BY <1>3 DEF AuthenticationMiddleware
    <2>2. s.data # NoData => id \in SessionIDs /\ Exists(id)
      BY <1>3, GetSessionData
    <2> HIDE DEF s
    <2>3. /\ req'[r].kind = "api" /\ req'[r].pc = "check" /\ req'[r].data = s.data
          /\ req'[r].ck = req[r].ck
          /\ \A q \in Requests : q # r => req'[q] = req[q]
      BY <1>1, <2>1 DEF At, Inv, TypeOK, Request
    <2>4. CASE s.data = NoData
      <3>1. ~Inside(r)'
        BY <2>3, <2>4 DEF Inside
      <3> QED BY <1>1, <2>3, <3>1, LeaveOne
    <2>5. CASE s.data # NoData
      <3>1. UNCHANGED <<phaseBar, userBar>>
        BY <1>1, SameSessions
      <3>2. ~Inside(r) /\ Inside(r)' /\ \A q \in Requests \ {r} : Inside(q)' <=> Inside(q)
        BY <1>1, <2>3, <2>5 DEF At, Inside, ApiPCs
      <3>3. holderBar[r] = None /\ holderBar' = [holderBar EXCEPT ![r] = id]
        BY <2>3, <3>2 DEF holderBar
      <3>4. servingBar' = servingBar
        BY <2>3, <3>2 DEF servingBar
      <3>5. phaseBar[id] = "live"
        BY <2>2, <2>5 DEF phaseBar, Exists, Inv, OwnershipInv, RowsInv
      <3>6. Lifecycle!Enter(r, id)
        BY <3>1, <3>3, <3>4, <3>5 DEF Lifecycle!Enter
      <3> QED BY <2>2, <2>5, <3>6 DEF Lifecycle!Next
    <2> QED BY <2>4, <2>5
  <1> QED BY <1>2, <1>3

\* Facts about a request inside a session.
LEMMA InsideFacts ==
    ASSUME Inv, NEW r \in Requests, Inside(r)
    PROVE  /\ req[r] \in Request
           /\ req[r].ck.id \in SessionIDs
           /\ origin[req[r].ck.id] # None
           /\ req[r].data.sub = logins[origin[req[r].ck.id]].sub
  <1>1. req[r] \in Request /\ RequestInv(r)
    BY RequestFacts
  <1> QED BY <1>1 DEF Inside, RequestInv, ApiRequest, ApiPCs, Belongs, Request, Values

\* A step of a request that changes nothing SessionLifecycle can see.
LEMMA QuietStep ==
    ASSUME Inv, Inv', [Next]_vars, NEW r \in Requests, UNCHANGED <<rows, origin>>,
           Inside(r)' <=> Inside(r), req'[r].ck = req[r].ck,
           req[r].pc # "forward", req'[r].pc # "forward",
           \A q \in Requests : q # r => req'[q] = req[q]
    PROVE  Lifecycle!Next
  <1>1. UNCHANGED <<phaseBar, userBar>>
    BY SameSessions
  <1>2. \A q \in Requests \ {r} : Inside(q)' <=> Inside(q)
    BY DEF Inside
  <1> DEFINE R == {}
  <1>3. R \in SUBSET Requests /\ \A q \in R : ~Inside(q)'
    OBVIOUS
  <1>4. \A q \in Requests \ R : /\ Inside(q)' <=> Inside(q)
                                /\ req'[q].ck = req[q].ck
                                /\ req'[q].pc = "forward" <=> req[q].pc = "forward"
                                /\ req[q].pc = "forward" => req'[q].data = req[q].data
    BY <1>2
  <1> HIDE DEF R
  <1> QED BY <1>1, <1>3, <1>4, LeaveStep

\* An access token that has not expired: the request is served.
LEMMA LifecycleCheck ==
    ASSUME Inv, Inv', [Next]_vars, NEW r \in Requests, CheckExpiry(r)
    PROVE  Lifecycle!Next
  <1>1. At(r, "api", "check") /\ UNCHANGED <<rows, origin>>
    BY DEF CheckExpiry
  <1>2. /\ req'[r].kind = "api" /\ req'[r].data = req[r].data /\ req'[r].ck = req[r].ck
        /\ req'[r].pc = IF IsExpired(req[r].data) THEN "refresh" ELSE "forward"
        /\ \A q \in Requests : q # r => req'[q] = req[q]
    BY DEF CheckExpiry, Goto, At, Inv, TypeOK, Request
  <1>3. Inside(r)' <=> Inside(r)
    BY <1>1, <1>2 DEF Inside, At, ApiPCs
  <1>4. CASE IsExpired(req[r].data)
    BY <1>1, <1>2, <1>3, <1>4, QuietStep DEF At
  <1>5. CASE ~IsExpired(req[r].data)
    <2>1. req[r].data # NoData
      BY <1>5 DEF IsExpired, NoData, ZeroTime, Inv, TypeOK
    <2>2. Inside(r)
      BY <1>1, <2>1 DEF Inside, At, ApiPCs
    <2> QED BY <1>1, <1>2, <1>3, <1>5, <2>2, InsideFacts, ServeStep DEF At
  <1> QED BY <1>4, <1>5

\* A renewal is invisible,
LEMMA LifecycleRefresh ==
    ASSUME Inv, Inv', [Next]_vars, NEW r \in Requests, RefreshGranted(r)
    PROVE  Lifecycle!Next
  <1>1. At(r, "api", "refresh") /\ UNCHANGED <<rows, origin>>
    BY DEF RefreshGranted
  <1>2. PICK t : req' = [req EXCEPT ![r] = [@ EXCEPT !.pc = "update", !.token = t]]
    BY DEF RefreshGranted
  <1>3. /\ req'[r].kind = "api" /\ req'[r].data = req[r].data /\ req'[r].ck = req[r].ck
        /\ req'[r].pc = "update"
        /\ \A q \in Requests : q # r => req'[q] = req[q]
    BY <1>1, <1>2 DEF At, Inv, TypeOK, Request
  <1>4. Inside(r)' <=> Inside(r)
    BY <1>1, <1>3 DEF Inside, At, ApiPCs
  <1> QED BY <1>1, <1>3, <1>4, QuietStep DEF At

\* and so is the SELECT of Update, unless it sends the request away.
LEMMA LifecycleUpdateGet ==
    ASSUME Inv, Inv', [Next]_vars, NEW r \in Requests, UpdateGet(r)
    PROVE  Lifecycle!Next
  <1> DEFINE t == req[r].token
  <1>1. At(r, "api", "update") /\ UNCHANGED <<rows, origin>>
    BY DEF UpdateGet
  <1>2. CASE Respond(r, "error", None)
    BY <1>1, <1>2, RespondLeaves
  <1>3. CASE req' = [req EXCEPT ![r] = [@ EXCEPT !.pc = "exec", !.data = t, !.token = None]]
    <2>1. req[r] \in Request /\ RequestInv(r)
      BY RequestFacts
    <2>2. Inside(r)
      BY <1>1, <2>1 DEF Inside, At, ApiPCs, RequestInv, ApiRequest
    <2>3. t \in Answer
      BY <1>1, <2>1 DEF At, RequestInv, ApiRequest, Request
    <2>4. t # NoData
      BY <2>3 DEF Answer, NoData
    <2>5. /\ req'[r].kind = "api" /\ req'[r].data = t /\ req'[r].ck = req[r].ck
          /\ req'[r].pc = "exec"
          /\ \A q \in Requests : q # r => req'[q] = req[q]
      BY <1>1, <1>3 DEF At, Inv, TypeOK, Request
    <2>6. Inside(r)'
      BY <2>4, <2>5 DEF Inside, ApiPCs
    <2> QED BY <1>1, <2>2, <2>5, <2>6, QuietStep DEF At
  <1> QED BY <1>1, <1>2, <1>3, TokenInHand DEF UpdateGet

\* After the UPDATE the request is served, even if its session has ended.
LEMMA LifecycleUpdateWrite ==
    ASSUME Inv, Inv', [Next]_vars, NEW r \in Requests, UpdateWrite(r)
    PROVE  Lifecycle!Next
  <1> DEFINE id == req[r].ck.id
             w == Stored(req[r].data)
  <1>1. At(r, "api", "exec") /\ UNCHANGED origin
    BY DEF UpdateWrite
  <1>2. /\ id \in SessionIDs /\ w \in Row /\ origin[id] # None /\ req[r].data # NoData
        /\ rows' = IF rows[id] # None THEN [rows EXCEPT ![id] = w] ELSE rows
        /\ req[r].data.sub = logins[origin[id]].sub
    BY UpdateWrites
  <1> HIDE DEF w
  <1>3. \A i \in SessionIDs : rows'[i] # None <=> rows[i] # None
    BY <1>2 DEF Inv, TypeOK
  <1>4. CASE ~Respond(r, "error", None)
    <2>1. /\ req'[r].kind = "api" /\ req'[r].data = req[r].data /\ req'[r].ck = req[r].ck
          /\ req'[r].pc = "forward"
          /\ \A q \in Requests : q # r => req'[q] = req[q]
      <3>1. req' = [req EXCEPT ![r] = [@ EXCEPT !.pc = "forward",
                                                !.set = saveSession(req[r].ck.id)]]
        BY <1>4 DEF UpdateWrite
      <3> QED BY <1>1, <3>1 DEF At, Inv, TypeOK, Request
    <2>2. Inside(r) /\ Inside(r)'
      BY <1>1, <1>2, <2>1 DEF Inside, At, ApiPCs
    <2> QED BY <1>1, <1>2, <1>3, <2>1, <2>2, ServeStep DEF At
  <1>5. CASE Respond(r, "error", None)
    BY <1>1, <1>3, <1>5, RespondLeaves
  <1> QED BY <1>4, <1>5

\* Session.Save begins a session.
LEMMA LifecycleBegin ==
    ASSUME Inv, Inv', [Next]_vars, NEW r \in Requests, Save(r)
    PROVE  Lifecycle!Next
  <1> DEFINE w == Stored(req[r].token)
             l == req[r].arg
             u == logins[l].sub
  <1>1. PICK id \in SessionIDs :
           /\ origin[id] = None
           /\ origin' = [origin EXCEPT ![id] = l]
           /\ rows' = [rows EXCEPT ![id] = w]
           /\ \E code, set : Respond(r, code, set)
    BY SaveWrites
  <1>2. /\ w \in Row /\ w.sub = u /\ l \in Logins /\ UNCHANGED logins
        /\ req[r].kind = "callback"
    BY SaveWrites
  <1>3. u \in Subjects
    BY <1>2 DEF Row
  <1> HIDE DEF w
  <1>4. /\ origin'[id] = l /\ rows'[id] = w
        /\ \A i \in SessionIDs : i # id => origin'[i] = origin[i] /\ rows'[i] = rows[i]
    BY <1>1 DEF Inv, TypeOK
  <1>5. rows[id] = None
    BY <1>1 DEF Inv, OwnershipInv, RowsInv
  <1>6. phaseBar[id] = "unborn" /\ phaseBar' = [phaseBar EXCEPT ![id] = "live"]
    BY <1>1, <1>2, <1>4 DEF phaseBar, Exists
  <1>7. userBar' = [userBar EXCEPT ![id] = u]
    <2>1. \A i \in SessionIDs : userBar'[i] = IF i = id THEN u ELSE userBar[i]
      BY <1>1, <1>2, <1>4, UserOfLogin DEF Inv, TypeOK
    <2> QED BY <2>1 DEF userBar
  <1>8. /\ req'[r].kind = "callback"
        /\ \A q \in Requests : q # r => req'[q] = req[q]
    BY <1>1, <1>2 DEF Respond, Inv, TypeOK, Request
  <1>9. ~Inside(r) /\ ~Inside(r)' /\ \A q \in Requests \ {r} : Inside(q)' <=> Inside(q)
    BY <1>2, <1>8 DEF Inside
  <1>10. holderBar' = holderBar
    BY <1>8, <1>9 DEF holderBar
  <1>11. servingBar' = servingBar
    BY <1>8, <1>9 DEF servingBar
  <1>12. Lifecycle!Begin(id, u)
    BY <1>6, <1>7, <1>10, <1>11 DEF Lifecycle!Begin
  <1> QED BY <1>3, <1>12 DEF Lifecycle!Next

\* Rows go, and nothing else happens that SessionLifecycle can see.
LEMMA EndStep ==
    ASSUME Inv, Inv', [Next]_vars, UNCHANGED <<origin, holderBar, servingBar>>,
           \A id \in SessionIDs : rows'[id] = rows[id] \/ rows'[id] = None
    PROVE  Lifecycle!Next
  <1> DEFINE S == {id \in SessionIDs : rows[id] # None /\ rows'[id] = None}
  <1>1. \A id \in SessionIDs : rows[id] # None => origin[id] # None
    BY DEF Inv, OwnershipInv, RowsInv
  <1>2. \A id \in S : phaseBar[id] = "live"
    BY <1>1 DEF phaseBar, Exists
  <1>3. phaseBar' = [id \in SessionIDs |-> IF id \in S THEN "ended" ELSE phaseBar[id]]
    BY <1>1 DEF phaseBar, Exists
  <1>4. userBar' = userBar
    <2>1. \A id \in SessionIDs : origin[id] # None =>
             logins'[origin[id]].sub = logins[origin[id]].sub
      BY UsersStay DEF Inv, TypeOK, OwnershipInv, RowsInv
    <2>2. \A id \in SessionIDs : userBar'[id] = userBar[id]
      BY <2>1, UserOfLogin
    <2> QED BY <2>2 DEF userBar
  <1>5. S \in SUBSET SessionIDs
    OBVIOUS
  <1> HIDE DEF S
  <1>6. Lifecycle!End(S)
    BY <1>2, <1>3, <1>4 DEF Lifecycle!End
  <1> QED BY <1>5, <1>6 DEF Lifecycle!Next

\* The purge ends sessions.
LEMMA LifecyclePurge ==
    ASSUME Inv, Inv', [Next]_vars, Purge
    PROVE  Lifecycle!Next
  <1>1. UNCHANGED <<req, origin>>
    BY DEF Purge
  <1>2. UNCHANGED <<holderBar, servingBar>>
    BY <1>1 DEF holderBar, servingBar, Inside
  <1>3. \A id \in SessionIDs : rows'[id] = rows[id] \/ rows'[id] = None
    BY DEF Purge, PurgeRows
  <1> QED BY <1>1, <1>2, <1>3, EndStep

\* A logout ends its session, if it has not ended before.
LEMMA LifecycleLogout ==
    ASSUME Inv, Inv', [Next]_vars, NEW r \in Requests, LogoutDelete(r)
    PROVE  Lifecycle!Next
  <1>1. At(r, "logout", "delete") /\ UNCHANGED origin
    BY DEF LogoutDelete
  <1>2. \A id \in SessionIDs : rows'[id] = rows[id] \/ rows'[id] = None
    BY DEF LogoutDelete, Delete, Inv, TypeOK
  <1>3. req'[r].kind = "logout" /\ \A q \in Requests : q # r => req'[q] = req[q]
    <2>1. \E code, set : Respond(r, code, set)
      BY DEF LogoutDelete, SaveCookie
    <2> QED BY <1>1, <2>1 DEF Respond, At, Inv, TypeOK, Request
  <1>4. ~Inside(r) /\ ~Inside(r)' /\ \A q \in Requests \ {r} : Inside(q)' <=> Inside(q)
    BY <1>1, <1>3 DEF Inside, At
  <1>5. UNCHANGED <<holderBar, servingBar>>
    BY <1>3, <1>4 DEF holderBar, servingBar
  <1> QED BY <1>1, <1>2, <1>5, EndStep

\* A crash sends every request away.
LEMMA LifecycleCrash ==
    ASSUME Inv, Inv', [Next]_vars, Crash
    PROVE  Lifecycle!Next
  <1>1. UNCHANGED <<rows, origin>> /\ \A r \in Requests : req'[r] = NoRequest
    BY DEF Crash
  <1>2. UNCHANGED <<phaseBar, userBar>>
    BY <1>1, SameSessions
  <1>3. \A q \in Requests : ~Inside(q)'
    BY <1>1 DEF Inside, NoRequest
  <1> QED BY <1>2, <1>3, LeaveStep

\* Steps of the world that leave the requests and the table alone.
LEMMA LifecycleWorld ==
    ASSUME Inv, Inv', [Next]_vars, UNCHANGED <<rows, req, origin>>
    PROVE  UNCHANGED Lifecycle!lifecycle
  <1>1. UNCHANGED <<phaseBar, userBar>>
    BY SameSessions
  <1>2. UNCHANGED <<holderBar, servingBar>>
    BY DEF holderBar, servingBar, Inside
  <1> QED BY <1>1, <1>2 DEF Lifecycle!lifecycle

\* The remaining steps of a handler end outside of any session.
LEMMA LifecycleOthers ==
    ASSUME Inv, Inv', [Next]_vars, NEW r \in Requests,
           \/ LoginHandlerOidc(r) \/ CallbackHandlerOidc(r) \/ ExchangeGranted(r)
           \/ ExchangeRefused(r) \/ ExchangeLost(r) \/ LogoutHandlerOidc(r)
           \/ RefreshRefused(r) \/ RefreshLost(r) \/ Forward(r) \/ BackendError(r)
           \/ CookieUnusable(r) \/ DBError(r) \/ IDTokenInvalid(r)
    PROVE  Lifecycle!Next
  <1>1. UNCHANGED <<rows, origin>>
    BY DEF LoginHandlerOidc, CallbackHandlerOidc, ExchangeGranted, ExchangeRefused,
       ExchangeLost, LogoutHandlerOidc, RefreshRefused, RefreshLost, Forward,
       BackendError, CookieUnusable, DBError, IDTokenInvalid
  <1>2. \/ \E code, set : Respond(r, code, set)
        \/ At(r, "callback", "start") /\ Goto(r, "exchange")
        \/ At(r, "logout", "start") /\ Goto(r, "delete")
        \/ ExchangeGranted(r)
    BY DEF LoginHandlerOidc, CallbackHandlerOidc, ExchangeRefused,
       ExchangeLost, LogoutHandlerOidc, RefreshRefused, RefreshLost, Forward,
       BackendError, CookieUnusable, DBError, IDTokenInvalid
  <1>3. CASE \E code, set : Respond(r, code, set)
    BY <1>1, <1>3, RespondLeaves
  <1>4. CASE \/ At(r, "callback", "start") /\ Goto(r, "exchange")
             \/ At(r, "logout", "start") /\ Goto(r, "delete")
    <2>1. /\ req'[r].kind # "api"
          /\ \A q \in Requests : q # r => req'[q] = req[q]
      BY <1>4 DEF Goto, At, Inv, TypeOK, Request
    <2>2. ~Inside(r)'
      BY <2>1 DEF Inside
    <2> QED BY <1>1, <2>1, <2>2, LeaveOne
  <1>5. CASE ExchangeGranted(r)
    <2>1. /\ req'[r].kind # "api"
          /\ \A q \in Requests : q # r => req'[q] = req[q]
      BY <1>5 DEF ExchangeGranted, At, Inv, TypeOK, Request
    <2>2. ~Inside(r)'
      BY <2>1 DEF Inside
    <2> QED BY <1>1, <2>1, <2>2, LeaveOne
  <1> QED BY <1>2, <1>3, <1>4, <1>5

\* A request is sent, or its answer delivered or lost: it is in no session.
LEMMA LifecycleEnds ==
    ASSUME Inv, Inv', [Next]_vars, NEW r \in Requests,
           \/ \E b \in Browsers, kind \in Kinds \ {"none"}, l, s \in Logins \cup {None} :
                 Send(r, b, kind, l, s)
           \/ Deliver(r)
           \/ LoseResponse(r)
    PROVE  Lifecycle!Next
  <1>1. UNCHANGED <<rows, origin>>
    BY DEF Send, Deliver, LoseResponse
  <1>2. req'[r].pc \in {"idle", "start"} /\ \A q \in Requests : q # r => req'[q] = req[q]
    <2>1. req \in [Requests -> Request]
      BY DEF Inv, TypeOK
    <2>2. CASE Deliver(r) \/ LoseResponse(r)
      BY <2>1, <2>2 DEF Deliver, LoseResponse, NoRequest
    <2>3. ASSUME NEW b \in Browsers, NEW kind, NEW l, NEW s, Send(r, b, kind, l, s)
          PROVE  /\ req'[r].pc = "start"
                 /\ \A q \in Requests : q # r => req'[q] = req[q]
      BY <2>1, <2>3 DEF Send, NoRequest
    <2> QED BY <2>2, <2>3
  <1>3. ~Inside(r)'
    BY <1>2 DEF Inside, ApiPCs
  <1> QED BY <1>1, <1>2, <1>3, LeaveOne

\* Sessions begin once and end once, belong to one user, are only entered while
\* live, and requests are served as their session's user: what SessionLifecycle
\* promises, whatever is interleaved and whatever fails.
THEOREM ImplementsLifecycle == Spec => KeepsLifecycle
  <1>1. Init => Lifecycle!Init
    BY DEF Init, Lifecycle!Init, phaseBar, userBar, holderBar, servingBar, Inside, NoRequest
  <1>2. Inv /\ Inv' /\ [Next]_vars => [Lifecycle!Next]_(Lifecycle!lifecycle)
    <2> SUFFICES ASSUME Inv, Inv', [Next]_vars
                 PROVE  Lifecycle!Next \/ UNCHANGED Lifecycle!lifecycle
      OBVIOUS
    <2>1. ASSUME NEW r \in Requests, HandlerStep(r) PROVE Lifecycle!Next
      BY <2>1, LifecycleEnter, LifecycleCheck, LifecycleRefresh, LifecycleUpdateGet,
         LifecycleUpdateWrite, LifecycleBegin, LifecycleLogout, LifecycleOthers
         DEF HandlerStep
    <2>2. CASE \/ \E r \in Requests, b \in Browsers, kind \in Kinds \ {"none"},
                     l, s \in Logins \cup {None} : Send(r, b, kind, l, s)
               \/ \E r \in Requests : Deliver(r)
               \/ \E r \in Requests : LoseResponse(r)
      BY <2>2, LifecycleEnds
    <2>3. CASE Purge \/ Crash
      BY <2>3, LifecyclePurge, LifecycleCrash
    <2>4. CASE UNCHANGED <<rows, req, origin>>
      BY <2>4, LifecycleWorld
    <2> QED BY <2>1, <2>2, <2>3, <2>4 DEF Next, vars, Authenticate, Tick
  <1> QED BY <1>1, <1>2, InitInv, NextInv, PTL DEF Spec, KeepsLifecycle, Lifecycle!Spec

=============================================================================
