-------------------------- MODULE KeyRotationProofs --------------------------
(* Theorems about KeyRotation, for every set of deployments, any number of    *)
(* browsers, sessions and lives of the process, and any timeouts.             *)
EXTENDS KeyRotation, TLAPS

\* What the timeouts and the bound on the lives are.
LEMMA Times ==
    /\ LoginTimeout \in Nat \ {0} /\ SessionTimeout \in Nat \ {0}
    /\ TokenLife \in Nat /\ MaxLives \in Nat
  BY RotationAssumption

-----------------------------------------------------------------------------
(* The configuration of a process that started.                            *)

\* What the checks of main leave of the configurations one may write.
Accepted ==
    {c \in [Settings -> Texts] :
        /\ configValidate(c)
        /\ ~keyPairsAsSlice(c).err
        /\ c["SESSION_OLD_DB_KEY"] # "" => c["SESSION_DB_KEY"] # ""}

\* The pair of keys of such a process: the old one, if there is one.
OnlyPair(c) == IF OldKeyPair(c).auth = "" THEN NewKeyPair(c) ELSE OldKeyPair(c)

\* Unmarshal gives every setting a text: a flag's, the environment's, the file's
\* or the default.
LEMMA UnmarshalType ==
    ASSUME NEW l \in Deployments
    PROVE  /\ Unmarshal(l) \in [Settings -> Texts]
           /\ Unmarshal(l)["SESSION_OLD_DB_KEY"] # "" => Unmarshal(l)["SESSION_DB_KEY"] # ""
  <1>1. /\ IsLayer(l.flags) /\ IsLayer(l.env) /\ IsLayer(l.file)
        /\ Unmarshal(l)["SESSION_OLD_DB_KEY"] # "" => Unmarshal(l)["SESSION_DB_KEY"] # ""
    BY RotationAssumption
  <1>2. \A p \in Settings : Key(p).setting = p /\ Default(p) \in Texts
    BY ConfigurationAssumption DEF Key
  <1>3. ASSUME NEW p \in Settings PROVE Lookup(l, Key(p)) \in Texts
    BY <1>1, <1>2 DEF Lookup, IsLayer
  <1>4. Unmarshal(l) \in [Settings -> Texts]
    BY <1>3 DEF Unmarshal
  <1> QED BY <1>1, <1>4

\* A deployment that main accepts gives an accepted configuration.
LEMMA StartsAccepted ==
    ASSUME NEW l \in Deployments, Starts(l)
    PROVE  Unmarshal(l) \in Accepted
  BY UnmarshalType DEF Starts, LoadConfig, Accepted

\* The settings the keys come from are settings.
LEMMA KeySettings ==
    ASSUME NEW c \in [Settings -> Texts]
    PROVE  /\ c["SESSION_DB_KEY"] \in Texts /\ c["SESSION_OLD_DB_KEY"] \in Texts
           /\ NewKeyPair(c) \in KeyPairs /\ OldKeyPair(c) \in KeyPairs
           /\ NewKeyPair(c).auth = c["SESSION_AUTH_SECRET"]
           /\ NewKeyPair(c).enc = c["SESSION_ENC_SECRET"]
           /\ OldKeyPair(c).auth = c["SESSION_OLD_AUTH_SECRET"]
           /\ OldKeyPair(c).enc = c["SESSION_OLD_ENC_SECRET"]
  BY DEF Settings, NewKeyPair, OldKeyPair, KeyPairs

\* keyPairsAsSlice returns one pair, and one that securecookie can work with:
\* the sizes that configValidate lets pass and appendSlice does are fewer.
LEMMA OnePair ==
    ASSUME NEW c \in Accepted
    PROVE  /\ keyPairsAsSlice(c).pairs = <<OnlyPair(c)>>
           /\ OnlyPair(c) \in KeyPairs
           /\ Usable(OnlyPair(c))
           /\ NewKeyPair(c).auth # ""
  <1>1. /\ c \in [Settings -> Texts] /\ configValidate(c) /\ ~keyPairsAsSlice(c).err
    BY DEF Accepted
  <1>2. NewKeyPair(c).auth # ""
    BY <1>1, KeySettings DEF configValidate, Mandatory
  <1>3. OnlyPair(c) \in KeyPairs
    BY <1>1, KeySettings DEF OnlyPair
  <1>4. Usable(NewKeyPair(c)) /\ Usable(OldKeyPair(c))
    BY <1>1, KeySettings DEF configValidate, EncSizes, Usable
  <1>5. ASSUME NEW kp
        PROVE  \/ appendSlice(<<>>, kp) = [err |-> FALSE, pairs |-> <<kp>>]
               \/ appendSlice(<<>>, kp) = [err |-> TRUE, pairs |-> <<>>]
    BY DEF appendSlice
  <1>6. keyPairsAsSlice(c).pairs = <<OnlyPair(c)>>
    <2>1. \A kp : ~appendSlice(<<>>, kp).err => appendSlice(<<>>, kp).pairs = <<kp>>
      BY <1>5
    <2>2. CASE appendSlice(<<>>, NewKeyPair(c)).err
      BY <1>1, <1>2, <2>2 DEF keyPairsAsSlice
    <2>3. CASE ~appendSlice(<<>>, NewKeyPair(c)).err /\ OldKeyPair(c).auth = ""
      BY <1>1, <1>2, <2>1, <2>3 DEF keyPairsAsSlice, OnlyPair
    <2>4. CASE ~appendSlice(<<>>, NewKeyPair(c)).err /\ OldKeyPair(c).auth # ""
      <3>1. keyPairsAsSlice(c) = appendSlice(<<>>, OldKeyPair(c))
        BY <1>2, <2>4 DEF keyPairsAsSlice
      <3> QED BY <1>1, <2>1, <2>4, <3>1 DEF OnlyPair
    <2> QED BY <2>2, <2>3, <2>4
  <1> QED BY <1>2, <1>3, <1>4, <1>6 DEF OnlyPair

\* With one usable pair, that is the one cookies are encoded and decoded with.
LEMMA EncoderOfOne ==
    ASSUME NEW kp, Usable(kp)
    PROVE  /\ Encodes(<<kp>>)
           /\ Encoder(<<kp>>) = kp
           /\ \A x : Decodes(<<kp>>, x) <=> x = kp
  <1>1. DOMAIN <<kp>> = {1} /\ <<kp>>[1] = kp
    OBVIOUS
  <1>2. Encodes(<<kp>>) /\ \A x : Decodes(<<kp>>, x) <=> x = kp
    BY <1>1 DEF Encodes, Decodes
  <1>3. Encoder(<<kp>>) = kp
    <2> DEFINE P(i) == Usable(<<kp>>[i]) /\ \A j \in 1 .. i - 1 : ~Usable(<<kp>>[j])
    <2>1. P(1)
      BY <1>1
    <2>2. (CHOOSE i \in DOMAIN <<kp>> : P(i)) = 1
      BY <1>1, <2>1
    <2> QED BY <1>1, <2>2 DEF Encoder
  <1> QED BY <1>2, <1>3

-----------------------------------------------------------------------------
(* The inductive invariant.                                                *)

\* Who was started and with what;
ProcessInv ==
    /\ up => life > 0
    /\ IF life > 0 THEN conf \in Accepted ELSE conf = None
    /\ IF life > 1 THEN prev \in Accepted ELSE prev = None

\* rows know the key of the process that wrote them, if it is this one or the one
\* before;
RowInv(row) ==
    /\ row.life \in 1 .. life
    /\ row.life = life => row.key = conf["SESSION_DB_KEY"]
    /\ row.life = life - 1 => row.key = prev["SESSION_DB_KEY"]

\* and so do cookies; one without a state names a session.
CookieInv(c) ==
    /\ c.life \in 1 .. life
    /\ c.life = life => c.pair = OnlyPair(conf)
    /\ c.life = life - 1 => c.pair = OnlyPair(prev)
    /\ ~c.state => c.id \in SessionIDs

RowsInv == \A id \in SessionIDs : rows[id] # None => RowInv(rows[id])
CookiesInv == \A b \in Browsers : cookie[b] # None => CookieInv(cookie[b])

Inv == TypeOK /\ ProcessInv /\ RowsInv /\ CookiesInv

\* What a running process encodes cookies with, and what it can decode.
LEMMA RunningPair ==
    ASSUME Inv, up
    PROVE  /\ conf \in Accepted /\ OnlyPair(conf) \in KeyPairs
           /\ Encodes(pairs) /\ Encoder(pairs) = OnlyPair(conf)
           /\ \A x : Decodes(pairs, x) <=> x = OnlyPair(conf)
  <1>1. conf \in Accepted
    BY DEF Inv, ProcessInv
  <1>2. /\ pairs = <<OnlyPair(conf)>> /\ OnlyPair(conf) \in KeyPairs
        /\ Usable(OnlyPair(conf))
    BY <1>1, OnePair DEF pairs
  <1>3. /\ Encodes(<<OnlyPair(conf)>>) /\ Encoder(<<OnlyPair(conf)>>) = OnlyPair(conf)
        /\ \A x : Decodes(<<OnlyPair(conf)>>, x) <=> x = OnlyPair(conf)
    BY <1>2, EncoderOfOne
  <1> QED BY <1>1, <1>2, <1>3

\* Nothing was started and there is nothing yet.
LEMMA InitInv == Init => Inv
  <1> SUFFICES ASSUME Init PROVE Inv
    OBVIOUS
  <1>1. TypeOK
    <2>1. up \in BOOLEAN
      BY DEF Init
    <2> QED BY <2>1, Times DEF Init, TypeOK
  <1>2. ProcessInv
    BY DEF Init, ProcessInv
  <1>3. RowsInv /\ CookiesInv
    BY DEF Init, RowsInv, CookiesInv
  <1> QED BY <1>1, <1>2, <1>3 DEF Inv

\* A cookie that a running process writes.
LEMMA WrittenInv ==
    ASSUME Inv, up, NEW state \in BOOLEAN, NEW id \in SessionIDs \cup {None},
           state \/ id \in SessionIDs
    PROVE  Written(state, id) \in Cookies /\ CookieInv(Written(state, id))
  <1>1. life \in Nat /\ life > 0
    BY Times DEF Inv, TypeOK, ProcessInv
  <1> DEFINE w == Written(state, id)
  <1>2. /\ w \in Cookies /\ w.pair = OnlyPair(conf) /\ w.life = life
        /\ w.state = state /\ w.id = id
    BY <1>1, RunningPair, Times DEF Written, Cookies
  <1> HIDE DEF w
  <1>3. CookieInv(w)
    BY <1>1, <1>2 DEF CookieInv
  <1> QED BY <1>2, <1>3 DEF w

\* A row that a running process writes.
LEMMA EncryptedInv ==
    ASSUME Inv, up
    PROVE  encryptArgs \in Rows /\ RowInv(encryptArgs)
  <1>1. life \in Nat /\ life > 0
    BY Times DEF Inv, TypeOK, ProcessInv
  <1>2. encryptArgs \in Rows
    BY <1>1, RunningPair, KeySettings, Times DEF encryptArgs, Rows, Accepted
  <1>3. RowInv(encryptArgs)
    BY <1>1 DEF encryptArgs, RowInv
  <1> QED BY <1>2, <1>3

\* A request leaves the process alone, and writes good cookies and rows if any.
LEMMA RequestInv ==
    ASSUME Inv, UNCHANGED <<up, conf, prev, life>>,
           cookie' \in [Browsers -> Cookies \cup {None}],
           rows' \in [SessionIDs -> Rows \cup {None}],
           \A b \in Browsers : cookie'[b] \in {None, cookie[b]} \/ CookieInv(cookie'[b]),
           \A id \in SessionIDs : rows'[id] \in {None, rows[id]} \/ RowInv(rows'[id])
    PROVE  Inv'
  <1>1. TypeOK' /\ ProcessInv'
    BY DEF Inv, TypeOK, ProcessInv, Accepted
  <1>2. \A c : CookieInv(c)' <=> CookieInv(c)
    BY DEF CookieInv
  <1>3. \A row : RowInv(row)' <=> RowInv(row)
    BY DEF RowInv
  <1> QED BY <1>1, <1>2, <1>3 DEF Inv, RowsInv, CookiesInv, CookieInv, RowInv

-----------------------------------------------------------------------------
(* The steps.                                                              *)

\* A process starts: what was this one's is the one before's now.
LEMMA StartInv ==
    ASSUME Inv, NEW l \in Deployments, Start(l)
    PROVE  Inv'
  <1>1. /\ ~up /\ life < MaxLives /\ Starts(l)
        /\ up' = TRUE /\ conf' = Unmarshal(l) /\ prev' = conf /\ life' = life + 1
        /\ UNCHANGED <<cookie, rows>>
    BY DEF Start
  <1>2. life \in Nat /\ life' \in 0 .. MaxLives
    BY <1>1, Times DEF Inv, TypeOK
  <1>3. conf' \in Accepted
    BY <1>1, StartsAccepted
  <1>4. TypeOK'
    BY <1>1, <1>2, <1>3 DEF Inv, TypeOK, Accepted
  <1>5. ProcessInv'
    <2>1. IF life' > 1 THEN prev' \in Accepted ELSE prev' = None
      BY <1>1, <1>2 DEF Inv, ProcessInv
    <2> QED BY <1>1, <1>2, <1>3, <2>1 DEF ProcessInv
  <1>6. RowsInv'
    <2>1. SUFFICES ASSUME NEW id \in SessionIDs, rows[id] # None PROVE RowInv(rows[id])'
      BY <1>1 DEF RowsInv
    <2>2. RowInv(rows[id])
      BY <2>1 DEF Inv, RowsInv
    <2> QED BY <1>1, <1>2, <2>2 DEF RowInv
  <1>7. CookiesInv'
    <2>1. SUFFICES ASSUME NEW b \in Browsers, cookie[b] # None PROVE CookieInv(cookie[b])'
      BY <1>1 DEF CookiesInv
    <2>2. CookieInv(cookie[b])
      BY <2>1 DEF Inv, CookiesInv
    <2>3. OnlyPair(prev)' = OnlyPair(conf)
      BY <1>1 DEF OnlyPair, OldKeyPair, NewKeyPair
    <2>4. cookie[b].life \in 1 .. life /\ life' = life + 1 /\ cookie' = cookie
      BY <1>1, <2>2 DEF CookieInv
    <2> QED BY <1>2, <2>2, <2>3, <2>4 DEF CookieInv
  <1> QED BY <1>4, <1>5, <1>6, <1>7 DEF Inv

\* The process ends, or nothing happens: cookies and rows stay.
LEMMA StopInv ==
    ASSUME Inv, Stop \/ UNCHANGED rotVars
    PROVE  Inv'
  <1>1. UNCHANGED <<conf, prev, life, cookie, rows>> /\ (up' = FALSE \/ up' = up)
    BY DEF Stop, rotVars
  <1>2. TypeOK' /\ ProcessInv'
    <2>1. CASE up' = FALSE
      BY <1>1, <2>1 DEF Inv, TypeOK, ProcessInv
    <2>2. CASE up' = up
      BY <1>1, <2>2 DEF Inv, TypeOK, ProcessInv
    <2> QED BY <1>1, <2>1, <2>2
  <1> QED BY <1>1, <1>2 DEF Inv, RowsInv, RowInv, CookiesInv, CookieInv, OnlyPair, OldKeyPair, NewKeyPair

\* A login cookie replaces the cookie of browser b.
LEMMA LoginInv ==
    ASSUME Inv, NEW b \in Browsers, Login(b)
    PROVE  Inv'
  <1> DEFINE w == Written(TRUE, IF cookie[b] = None THEN None ELSE cookie[b].id)
  <1>1. up /\ cookie' = [cookie EXCEPT ![b] = w] /\ UNCHANGED <<up, conf, prev, life, rows>>
    BY DEF Login
  <1>2. (IF cookie[b] = None THEN None ELSE cookie[b].id) \in SessionIDs \cup {None}
    BY DEF Inv, TypeOK, Cookies
  <1>3. w \in Cookies /\ CookieInv(w)
    BY <1>1, <1>2, WrittenInv
  <1> HIDE DEF w
  <1>4. /\ cookie' \in [Browsers -> Cookies \cup {None}]
        /\ \A x \in Browsers : cookie'[x] = cookie[x] \/ cookie'[x] = w
    BY <1>1, <1>3 DEF Inv, TypeOK
  <1> QED BY <1>1, <1>3, <1>4, RequestInv DEF Inv, TypeOK

\* A session is added, and the cookie names it.
LEMMA CallbackInv ==
    ASSUME Inv, NEW b \in Browsers, Callback(b)
    PROVE  Inv'
  <1>1. PICK id \in SessionIDs :
          /\ rows' = [rows EXCEPT ![id] = encryptArgs]
          /\ cookie' = [cookie EXCEPT ![b] = Written(FALSE, id)]
    BY DEF Callback
  <1>2. up /\ UNCHANGED <<up, conf, prev, life>>
    BY DEF Callback
  <1>3. Written(FALSE, id) \in Cookies /\ CookieInv(Written(FALSE, id))
    BY <1>2, WrittenInv
  <1>4. encryptArgs \in Rows /\ RowInv(encryptArgs)
    BY <1>2, EncryptedInv
  <1>5. /\ cookie' \in [Browsers -> Cookies \cup {None}]
        /\ \A x \in Browsers : cookie'[x] = cookie[x] \/ cookie'[x] = Written(FALSE, id)
    BY <1>1, <1>3 DEF Inv, TypeOK
  <1>6. /\ rows' \in [SessionIDs -> Rows \cup {None}]
        /\ \A x \in SessionIDs : rows'[x] = rows[x] \/ rows'[x] = encryptArgs
    BY <1>1, <1>4 DEF Inv, TypeOK
  <1> QED BY <1>2, <1>3, <1>4, <1>5, <1>6, RequestInv DEF Inv, TypeOK

\* A browser whose session was loaded has a cookie that names it.
LEMMA LoadedCookie ==
    ASSUME Inv, NEW b \in Browsers, GetSession(b) \in {"token", "ciphertext"}
    PROVE  /\ cookie[b] # None /\ cookie[b] \in Cookies /\ ~cookie[b].state
           /\ cookie[b].id \in SessionIDs /\ rows[cookie[b].id] \in Rows
           /\ GetSession(b) = decryptArgs(rows[cookie[b].id])
  <1>1. /\ cookie[b] # None /\ ~cookie[b].state /\ rows[cookie[b].id] # None
        /\ GetSession(b) = decryptArgs(rows[cookie[b].id])
    BY DEF GetSession
  <1>2. cookie[b] \in Cookies /\ cookie[b].id \in SessionIDs
    BY <1>1 DEF Inv, TypeOK, CookiesInv, CookieInv
  <1> QED BY <1>1, <1>2 DEF Inv, TypeOK

\* A request finds its token expired, and the session is renewed.
LEMMA ProxiedInv ==
    ASSUME Inv, NEW b \in Browsers, Proxied(b)
    PROVE  Inv'
  <1> DEFINE id == cookie[b].id
  <1>1. /\ up /\ GetSession(b) = "token"
        /\ rows' = [rows EXCEPT ![id] = encryptArgs]
        /\ cookie' = [cookie EXCEPT ![b] = Written(FALSE, id)]
        /\ UNCHANGED <<up, conf, prev, life>>
    BY DEF Proxied, Renewed
  <1>2. id \in SessionIDs
    BY <1>1, LoadedCookie
  <1>3. Written(FALSE, id) \in Cookies /\ CookieInv(Written(FALSE, id))
    BY <1>1, <1>2, WrittenInv
  <1>4. encryptArgs \in Rows /\ RowInv(encryptArgs)
    BY <1>1, EncryptedInv
  <1>5. /\ cookie' \in [Browsers -> Cookies \cup {None}]
        /\ \A x \in Browsers : cookie'[x] = cookie[x] \/ cookie'[x] = Written(FALSE, id)
    BY <1>1, <1>3 DEF Inv, TypeOK
  <1>6. /\ rows' \in [SessionIDs -> Rows \cup {None}]
        /\ \A x \in SessionIDs : rows'[x] = rows[x] \/ rows'[x] = encryptArgs
    BY <1>1, <1>4 DEF Inv, TypeOK
  <1> HIDE DEF id
  <1> QED BY <1>1, <1>3, <1>4, <1>5, <1>6, RequestInv

\* Rows and cookies go, or have less time left.
LEMMA LogoutPurgeTickInv ==
    ASSUME Inv, (\E b \in Browsers : Logout(b)) \/ Purge \/ Tick
    PROVE  Inv'
  <1>1. CASE \E b \in Browsers : Logout(b)
    BY <1>1, RequestInv DEF Logout, Inv, TypeOK
  <1>2. CASE Purge
    BY <1>2, RequestInv DEF Purge, Inv, TypeOK
  <1>3. CASE Tick
    <2>1. /\ cookie' = [b \in Browsers |-> Aged(cookie[b])]
          /\ rows' = [id \in SessionIDs |->
                       IF rows[id] = None \/ rows[id].left = -1 THEN rows[id]
                       ELSE [rows[id] EXCEPT !.left = @ - 1]]
          /\ UNCHANGED <<up, conf, prev, life>>
      BY <1>3 DEF Tick
    <2>2. ASSUME NEW b \in Browsers
          PROVE  /\ cookie'[b] \in Cookies \cup {None}
                 /\ cookie'[b] \in {None, cookie[b]} \/ CookieInv(cookie'[b])
      <3>1. CASE cookie[b] = None \/ cookie[b].left \in {0, 1}
        BY <2>1, <3>1 DEF Aged, Inv, TypeOK
      <3>2. CASE cookie[b] # None /\ cookie[b].left \notin {0, 1}
        <4> DEFINE c == cookie[b]  w == [c EXCEPT !.left = c.left - 1]
        <4>1. c \in Cookies /\ CookieInv(c)
          BY <3>2 DEF Inv, TypeOK, CookiesInv
        <4>2. /\ w \in Cookies /\ w.pair = c.pair /\ w.life = c.life
              /\ w.state = c.state /\ w.id = c.id
          BY <3>2, <4>1 DEF Cookies
        <4>3. cookie'[b] = w
          BY <2>1, <3>2 DEF Aged
        <4> HIDE DEF c, w
        <4>4. CookieInv(w)
          BY <4>1, <4>2 DEF CookieInv
        <4> QED BY <4>2, <4>3, <4>4
      <3> QED BY <3>1, <3>2
    <2>3. ASSUME NEW id \in SessionIDs
          PROVE  /\ rows'[id] \in Rows \cup {None}
                 /\ rows'[id] \in {None, rows[id]} \/ RowInv(rows'[id])
      <3>1. CASE rows[id] = None \/ rows[id].left = -1
        BY <2>1, <3>1 DEF Inv, TypeOK
      <3>2. CASE rows[id] # None /\ rows[id].left # -1
        <4> DEFINE r == rows[id]  w == [r EXCEPT !.left = r.left - 1]
        <4>1. r \in Rows /\ RowInv(r)
          BY <3>2 DEF Inv, TypeOK, RowsInv
        <4>2. w \in Rows /\ w.key = r.key /\ w.life = r.life
          BY <3>2, <4>1 DEF Rows
        <4>3. rows'[id] = w
          BY <2>1, <3>2
        <4> HIDE DEF r, w
        <4>4. RowInv(w)
          BY <4>1, <4>2 DEF RowInv
        <4> QED BY <4>2, <4>3, <4>4
      <3> QED BY <3>1, <3>2
    <2>4. /\ cookie' \in [Browsers -> Cookies \cup {None}]
          /\ rows' \in [SessionIDs -> Rows \cup {None}]
      BY <2>1, <2>2, <2>3
    <2> QED BY <2>1, <2>2, <2>3, <2>4, RequestInv DEF Inv, TypeOK
  <1> QED BY <1>1, <1>2, <1>3

\* Every step keeps the invariant.
LEMMA NextInv == Inv /\ [Next]_rotVars => Inv'
  BY StartInv, StopInv, LoginInv, CallbackInv, ProxiedInv, LogoutPurgeTickInv DEF Next

-----------------------------------------------------------------------------
(* The theorems.                                                           *)

\* The invariant holds in every reachable state: what this process and the one
\* before wrote is known by their keys.
THEOREM KeysInvariant == Spec => []Inv
  BY InitInv, NextInv, PTL DEF Spec

\* Every variable of the rotation has its type in every reachable state.
THEOREM TypeCorrect == Spec => []TypeOK
  <1>1. Inv => TypeOK
    BY DEF Inv
  <1> QED BY <1>1, KeysInvariant, PTL

\* Whatever a deployment says, a process that main lets start can write cookies,
\* although configValidate and appendSlice ask for different sizes of keys.
THEOREM CanEncode == Spec => []RunningCanEncode
  <1>1. Inv => RunningCanEncode
    BY RunningPair DEF RunningCanEncode
  <1> QED BY <1>1, KeysInvariant, PTL

\* A process that runs after another was accepted, as that one was.
LEMMA Second ==
    ASSUME Inv, prev # None
    PROVE  life \in Nat /\ life > 1 /\ conf \in Accepted /\ prev \in Accepted
  <1>1. life \in Nat
    BY Times DEF Inv, TypeOK
  <1>2. life > 1 /\ prev \in Accepted
    BY DEF Inv, ProcessInv
  <1>3. conf \in Accepted
    BY <1>1, <1>2 DEF Inv, ProcessInv
  <1> QED BY <1>1, <1>2, <1>3

\* Rows of this process and the one before can be read, if the operator keeps
\* the key or makes it the old one: the process before had a key, so this one
\* has, and either key is among those it decrypts with.
THEOREM RowsSurvive == Spec => []RowsSurviveRotation
  <1>1. Inv => RowsSurviveRotation
    <2>1. SUFFICES ASSUME Inv, NEW id \in SessionIDs, up, prev # None,
                          prev["SESSION_DB_KEY"] # "",
                          Rotates(prev, conf, "SESSION_DB_KEY", "SESSION_OLD_DB_KEY"),
                          rows[id] # None, rows[id].life >= life - 1
                   PROVE  decryptArgs(rows[id]) = "token"
      BY DEF RowsSurviveRotation
    <2>2. life \in Nat /\ life > 1 /\ conf \in Accepted /\ prev \in Accepted
      BY <2>1, Second
    <2>3. conf["SESSION_DB_KEY"] # ""
      BY <2>1, <2>2 DEF Accepted, Rotates
    <2>4. rows[id].key \in {conf["SESSION_DB_KEY"], prev["SESSION_DB_KEY"]}
      <3>1. RowInv(rows[id])
        BY <2>1 DEF Inv, RowsInv
      <3>2. rows[id].life \in {life, life - 1}
        <4>1. rows[id].life \in 1 .. life /\ rows[id].life >= life - 1 /\ life \in Nat
          BY <2>1, <2>2, <3>1 DEF RowInv
        <4> QED BY <4>1
      <3> QED BY <3>1, <3>2 DEF RowInv
    <2>5. rows[id].key \in cipherKeys
      BY <2>1, <2>3, <2>4 DEF cipherKeys, Rotates
    <2> QED BY <2>5 DEF decryptArgs
  <1> QED BY <1>1, KeysInvariant, PTL

\* The first rotation of the cookie keys keeps the cookies: the pair that was the
\* only one is the old one now, and so again the only one.
THEOREM FirstRotation == Spec => []FirstRotationKeepsCookies
  <1>1. Inv => FirstRotationKeepsCookies
    <2>1. SUFFICES ASSUME Inv, NEW b \in Browsers, up, prev # None,
                          OldKeyPair(prev).auth = "",
                          OldKeyPair(conf) = NewKeyPair(prev),
                          cookie[b] # None, cookie[b].life >= life - 1
                   PROVE  ~Undecodable(b)
      BY DEF FirstRotationKeepsCookies
    <2>2. life \in Nat /\ life > 1 /\ conf \in Accepted /\ prev \in Accepted
      BY <2>1, Second
    <2>3. NewKeyPair(prev).auth # ""
      BY <2>2, OnePair
    <2>4. OnlyPair(prev) = OnlyPair(conf)
      BY <2>1, <2>3 DEF OnlyPair
    <2>5. cookie[b].pair = OnlyPair(conf)
      <3>1. CookieInv(cookie[b])
        BY <2>1 DEF Inv, CookiesInv
      <3>2. cookie[b].life \in {life, life - 1}
        <4>1. cookie[b].life \in 1 .. life /\ cookie[b].life >= life - 1 /\ life \in Nat
          BY <2>1, <2>2, <3>1 DEF CookieInv
        <4> QED BY <4>1
      <3> QED BY <2>4, <3>1, <3>2 DEF CookieInv
    <2> QED BY <2>1, <2>5, RunningPair DEF Undecodable
  <1> QED BY <1>1, KeysInvariant, PTL

=============================================================================
