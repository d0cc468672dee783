--------------------------- MODULE RenewalProofs ---------------------------
(* Theorems about renewals in TokenHandler: with a provider that rotates      *)
(* refresh tokens and with one that does not.                                 *)
EXTENDS TokenHandlerProofs

-----------------------------------------------------------------------------
(* What a request has in its hands.                                        *)

NoHand == [does |-> "none", id |-> None, d |-> NoData]

\* A handler's part in renewals, from its locals q: it has read a row, it holds
\* tokens that it is about to write, or the first ones of a session to be.
Hand(q) ==
    IF q.kind = "api" /\ q.pc \in {"check", "refresh"} /\ q.data # NoData
    THEN [does |-> "reads", id |-> q.ck.id, d |-> q.data]
    ELSE IF q.kind = "api" /\ q.pc = "update"
    THEN [does |-> "renews", id |-> q.ck.id, d |-> q.token]
    ELSE IF q.kind = "api" /\ q.pc = "exec"
    THEN [does |-> "renews", id |-> q.ck.id, d |-> q.data]
    ELSE IF q.kind = "callback" /\ q.pc = "save"
    THEN [does |-> "saves", id |-> None, d |-> q.token]
    ELSE NoHand

hand == [r \in Requests |-> Hand(req[r])]

-----------------------------------------------------------------------------
(* The inductive invariant.                                                *)

\* The code of a login is spent by one callback, and makes one session;
FamiliesInv ==
    /\ \A i, j \in SessionIDs : origin[i] # None /\ origin[i] = origin[j] => i = j
    /\ \A l \in Logins : (\A id \in SessionIDs : origin[id] # l) => latest[l] = 0
    /\ \A r \in Requests : hand[r].does = "saves" =>
         /\ \A id \in SessionIDs : origin[id] # hand[r].d.tok.fam
         /\ \A q \in Requests :
              hand[q].does = "saves" /\ hand[q].d.tok.fam = hand[r].d.tok.fam => q = r

\* no token is newer than the provider's newest, or lives longer than a token;
NewestInv ==
    /\ \A id \in SessionIDs : rows[id] # None =>
         /\ rows[id].tok.gen <= latest[origin[id]]
         /\ rows[id].expiresAt <= Unix(now + TokenTTL)
    /\ \A r \in Requests : hand[r].does # "none" =>
         hand[r].d.tok.gen <= latest[hand[r].d.tok.fam]
    /\ \A r \in Requests : hand[r].does \in {"renews", "saves"} =>
         hand[r].d.exp <= now + TokenTTL

\* and with a provider that rotates, whoever renews a session has its newest
\* tokens, and nobody else has, nor the row.
Newest(r) ==
    LET i == hand[r].id
        t == hand[r].d
    IN
    /\ t.tok.gen = latest[origin[i]]
    /\ rows[i] # None => rows[i].tok.gen < t.tok.gen /\ rows[i].expiresAt <= Unix(t.exp)
    /\ \A q \in Requests : q # r /\ hand[q].id = i =>
         hand[q].does = "reads" /\ hand[q].d.tok.gen < t.tok.gen

RotationInv ==
    Rotate => \A r \in Requests : hand[r].does = "renews" => Newest(r)

RenewalInv == FamiliesInv /\ NewestInv /\ RotationInv

\* What fails when renewed tokens do not reach the table.
Losses == {"lost", "db", "idtoken", "subject", "crash"}
Lossy == Faults \cap Losses # {}

\* Renewed tokens are those of the session's user, if the provider makes no
\* mistake;
SubjectsInv ==
    "subject" \in Faults \/
        \A r \in Requests : hand[r].does = "renews" =>
            hand[r].d.sub = logins[origin[hand[r].id]].sub

\* and if nothing is lost either, somebody renews a session whose row does not
\* have the newest.
KeptInv ==
    Rotate /\ ~Lossy =>
        \A id \in SessionIDs : rows[id] # None /\ rows[id].tok.gen # latest[origin[id]] =>
            \E r \in Requests : hand[r].does = "renews" /\ hand[r].id = id

-----------------------------------------------------------------------------
(* Types.                                                                  *)

HandTyped(r) ==
    LET h == hand[r] IN
    /\ h.does \in {"none", "reads", "renews", "saves"}
    /\ h.does = "none" => h = NoHand
    /\ h.does # "none" => /\ h.d.tok.fam \in Logins /\ h.d.tok.gen \in Nat /\ h.d.exp \in Int
                          /\ h.d.tok # None
    /\ h.does \in {"reads", "renews"} => h.id \in SessionIDs /\ h.d.tok.fam = origin[h.id]
    /\ h.does = "saves" => h.id = None /\ logins[h.d.tok.fam].stage = "spent"

Typed ==
    /\ now \in Nat /\ latest \in [Logins -> Nat]
    /\ rows \in [SessionIDs -> Row \cup {None}]
    /\ origin \in [SessionIDs -> Logins \cup {None}]
    /\ \A id \in SessionIDs : origin[id] # None => logins[origin[id]].stage = "spent"
    /\ \A id \in SessionIDs : rows[id] # None =>
         /\ origin[id] \in Logins /\ rows[id].tok.fam = origin[id]
         /\ rows[id].tok.gen \in Nat /\ rows[id].expiresAt \in Int
    /\ \A r \in Requests : HandTyped(r)

\* The hand of each kind of handler.
LEMMA HandIs ==
    ASSUME NEW q
    PROVE  /\ /\ q.kind = "api" /\ q.pc \in {"check", "refresh"} /\ q.data # NoData
              => Hand(q) = [does |-> "reads", id |-> q.ck.id, d |-> q.data]
           /\ /\ q.kind = "api" /\ q.pc = "update"
              => Hand(q) = [does |-> "renews", id |-> q.ck.id, d |-> q.token]
           /\ /\ q.kind = "api" /\ q.pc = "exec"
              => Hand(q) = [does |-> "renews", id |-> q.ck.id, d |-> q.data]
           /\ /\ q.kind = "callback" /\ q.pc = "save"
              => Hand(q) = [does |-> "saves", id |-> None, d |-> q.token]
           /\ /\ q.kind = "api" => \/ q.pc \notin {"check", "refresh", "update", "exec"}
                                   \/ q.pc \in {"check", "refresh"} /\ q.data = NoData
              /\ q.kind = "callback" => q.pc # "save"
              => Hand(q) = NoHand
  BY DEF Hand

\* What a request has in its hands is of its session, or of its login.
LEMMA HandsTyped ==
    ASSUME Inv
    PROVE  Typed
  <1>1. /\ now \in Nat /\ latest \in [Logins -> Nat]
        /\ rows \in [SessionIDs -> Row \cup {None}]
        /\ origin \in [SessionIDs -> Logins \cup {None}]
        /\ \A id \in SessionIDs : origin[id] # None => logins[origin[id]].stage = "spent"
    BY DEF Inv, TypeOK, OwnershipInv, RowsInv
  <1>2. ASSUME NEW id \in SessionIDs, rows[id] # None
        PROVE  /\ origin[id] \in Logins /\ rows[id].tok.fam = origin[id]
               /\ rows[id].tok.gen \in Nat /\ rows[id].expiresAt \in Int
    BY <1>1, <1>2 DEF Inv, OwnershipInv, RowsInv, Row, Token
  <1>3. ASSUME NEW r \in Requests PROVE HandTyped(r)
    <2> DEFINE q == req[r]
    <2>1. q \in Request /\ RequestInv(r) /\ hand[r] = Hand(q)
      BY RequestFacts DEF hand
    <2>2. /\ q.data \in SessionData /\ q.ck.id \in SessionIDs \cup {None}
          /\ q.token \in Answer \cup {None} /\ q.arg \in Logins \cup {None}
      BY <2>1 DEF Request, Values
    <2>3. CASE q.kind = "api" /\ q.pc \in {"check", "refresh", "exec"} /\ q.data # NoData
      <3>1. hand[r].does \in {"reads", "renews"} /\ hand[r].id = q.ck.id /\ hand[r].d = q.data
        BY <2>1, <2>3, HandIs
      <3>2. q.ck.id # None /\ q.data.tok # None /\ q.data.tok.fam = origin[q.ck.id]
        BY <2>1, <2>3 DEF RequestInv, ApiRequest, ApiPCs
      <3>3. q.data.tok \in Token /\ q.data.exp \in Int
        BY <2>2, <3>2 DEF SessionData
      <3> QED BY <2>2, <3>1, <3>2, <3>3 DEF HandTyped, Token
    <2>4. CASE q.kind = "api" /\ q.pc = "update"
      <3>1. hand[r].does = "renews" /\ hand[r].id = q.ck.id /\ hand[r].d = q.token
        BY <2>1, <2>4, HandIs
      <3>2. q.ck.id # None /\ q.token # None /\ q.token.tok.fam = origin[q.ck.id]
        BY <2>1, <2>4 DEF RequestInv, ApiRequest, ApiPCs
      <3>3. q.token.tok \in Token /\ q.token.tok # None /\ q.token.exp \in Int
        BY <2>2, <3>2, TableAssumption DEF Answer
      <3> QED BY <2>2, <3>1, <3>2, <3>3 DEF HandTyped, Token
    <2>5. CASE q.kind = "callback" /\ q.pc = "save"
      <3>1. hand[r].does = "saves" /\ hand[r].id = None /\ hand[r].d = q.token
        BY <2>1, <2>5, HandIs
      <3>2. /\ q.token # None /\ q.token.tok.fam = q.arg /\ q.arg # None
            /\ logins[q.arg].stage = "spent"
        BY <2>1, <2>5 DEF RequestInv, CallbackRequest
      <3>3. q.token.tok \in Token /\ q.token.tok # None /\ q.token.exp \in Int
        BY <2>2, <3>2, TableAssumption DEF Answer
      <3> QED BY <2>2, <3>1, <3>2, <3>3 DEF HandTyped, Token
    <2>6. CASE /\ q.kind = "api" => \/ q.pc \notin {"check", "refresh", "update", "exec"}
                                    \/ q.pc \in {"check", "refresh"} /\ q.data = NoData
               /\ q.kind = "callback" => q.pc # "save"
      <3>1. hand[r] = NoHand
        BY <2>1, <2>6, HandIs
      <3> QED BY <3>1 DEF HandTyped, NoHand
    <2>7. q.kind = "api" /\ q.pc = "exec" => q.data # NoData
      BY <2>1 DEF RequestInv, ApiRequest
    <2> QED BY <2>3, <2>4, <2>5, <2>6, <2>7
  <1> QED BY <1>1, <1>2, <1>3 DEF Typed

-----------------------------------------------------------------------------
(* The shapes that the steps of TokenHandler have for renewals.            *)

\* The other requests keep what they have.
Others(r) == \A q \in Requests \ {r} : hand'[q] = hand[q]

\* Time passes, rows are removed, requests let go of what they have: of renewed
\* tokens only if the row has gone or something fails.
Quiet ==
    /\ now' >= now /\ latest' = latest /\ origin' = origin
    /\ \A id \in SessionIDs : rows'[id] = rows[id] \/ rows'[id] = None
    /\ \A r \in Requests :
         \/ hand'[r] = hand[r]
         \/ /\ hand'[r].does = "none"
            /\ hand[r].does = "renews" => rows'[hand[r].id] = None \/ Lossy

\* Request r reads the row of a session.
ReadStep(r) ==
    /\ UNCHANGED <<rows, now, latest, origin>> /\ Others(r)
    /\ hand[r].does = "none"
    /\ hand'[r].does = "reads" /\ rows[hand'[r].id] # None
    /\ hand'[r].d.tok = rows[hand'[r].id].tok

\* The provider renews the tokens that r has read, and r has them, or has not.
GrantStep(r) ==
    /\ UNCHANGED <<rows, now, origin>> /\ Others(r)
    /\ hand[r].does = "reads"
    /\ Rotate => hand[r].d.tok.gen = latest[origin[hand[r].id]]
    /\ latest' = [latest EXCEPT ![origin[hand[r].id]] = @ + 1]
    /\ \/ hand'[r].does = "none" /\ Lossy
       \/ /\ hand'[r].does = "renews" /\ hand'[r].id = hand[r].id
          /\ hand'[r].d.tok.gen = latest[origin[hand[r].id]] + 1
          /\ hand'[r].d.exp = now + TokenTTL
          /\ "subject" \in Faults \/ hand'[r].d.sub = logins[origin[hand[r].id]].sub

\* Request r writes the tokens that it has renewed.
WriteStep(r) ==
    /\ UNCHANGED <<now, latest, origin>> /\ Others(r)
    /\ hand[r].does = "renews" /\ hand'[r].does = "none"
    /\ \A id \in SessionIDs :
         rows'[id] = IF id = hand[r].id /\ rows[id] # None THEN Stored(hand[r].d) ELSE rows[id]

\* Request r is given the first tokens of its login.
ExchangeStep(r) ==
    /\ UNCHANGED <<rows, now, latest, origin>> /\ Others(r)
    /\ hand[r].does = "none"
    /\ hand'[r].does = "saves" /\ hand'[r].d.exp = now + TokenTTL
    /\ hand'[r].d.tok.gen = 0
    /\ logins[hand'[r].d.tok.fam].stage # "spent"

\* Request r adds the row of a new session.
SaveStep(r) ==
    /\ UNCHANGED <<now, latest>> /\ Others(r)
    /\ hand[r].does = "saves" /\ hand'[r].does = "none"
    /\ \E i \in SessionIDs :
         /\ origin[i] = None
         /\ origin' = [origin EXCEPT ![i] = hand[r].d.tok.fam]
         /\ rows' = [rows EXCEPT ![i] = Stored(hand[r].d)]

\* A token lives on from now.
LEMMA Later ==
    ASSUME NEW a \in Nat, NEW b \in Nat, NEW c \in Nat, a <= b
    PROVE  /\ a + c \in Int /\ b + c \in Int /\ a + c <= b + c
           /\ \A x \in Int : x <= a + c => x <= b + c
  OBVIOUS

\* A later time is not in an earlier second.
LEMMA UnixMonotone ==
    ASSUME NEW a \in Int, NEW b \in Int, a <= b
    PROVE  Unix(a) <= Unix(b) /\ Unix(a) \in Int /\ Unix(b) \in Int
  <1>0. Second \in Nat \ {0}
    BY TableAssumption
  <1> DEFINE s == Second  d == a \div s  e == b \div s
  <1>1. s \in Nat \ {0}
    BY <1>0
  <1> HIDE DEF s
  <1>2. d \in Int /\ a % s \in 0..(s - 1) /\ a = s * d + (a % s)
    BY <1>1
  <1>3. e \in Int /\ b % s \in 0..(s - 1) /\ b = s * e + (b % s)
    BY <1>1
  <1>4. s * d <= a /\ b < s * e + s
    BY <1>1, <1>2, <1>3
  <1>5. d <= e
    <2>1. SUFFICES ASSUME e + 1 <= d PROVE FALSE
      BY <1>2, <1>3
    <2> HIDE DEF d, e
    <2>2. s * (e + 1) <= s * d
      BY <1>1, <1>2, <1>3, <2>1
    <2>3. s * (e + 1) = s * e + s
      BY <1>1, <1>3
    <2>4. s * e \in Int /\ s * d \in Int
      BY <1>1, <1>2, <1>3
    <2> QED BY <1>1, <1>4, <2>2, <2>3, <2>4
  <1> QED BY <1>2, <1>3, <1>5 DEF Unix, s

\* What a row has of the data written to it.
LEMMA StoredIs ==
    ASSUME NEW d
    PROVE  Stored(d).tok = d.tok /\ Stored(d).expiresAt = Unix(d.exp)
  BY DEF Stored

-----------------------------------------------------------------------------
(* They keep the invariant.                                                *)

\* A step that renews nothing: what is known of tokens grows no older.
LEMMA QuietRenewal ==
    ASSUME Typed, Typed', RenewalInv, Quiet
    PROVE  RenewalInv'
  <1>1. FamiliesInv'
    BY DEF RenewalInv, FamiliesInv, Quiet
  <1>2. Unix(now + TokenTTL) <= Unix(now' + TokenTTL) /\ Unix(now + TokenTTL) \in Int
        /\ Unix(now' + TokenTTL) \in Int /\ now + TokenTTL <= now' + TokenTTL
    <2>1. TokenTTL \in Nat
      BY HandlerAssumption
    <2>2. now \in Nat /\ now' \in Nat /\ now <= now'
      BY DEF Typed, Quiet
    <2>3. now + TokenTTL \in Int /\ now' + TokenTTL \in Int /\ now + TokenTTL <= now' + TokenTTL
      BY <2>1, <2>2, Later
    <2> QED BY <2>3, UnixMonotone
  <1>3. NewestInv'
    <2>1. ASSUME NEW id \in SessionIDs, rows'[id] # None
          PROVE  rows'[id].tok.gen <= latest'[origin'[id]] /\ rows'[id].expiresAt <= Unix(now' + TokenTTL)
      <3>1. rows'[id] = rows[id] /\ rows[id] # None
        BY <2>1 DEF Quiet
      <3>2. rows[id].expiresAt \in Int
        BY <3>1 DEF Typed
      <3>3. rows[id].tok.gen <= latest[origin[id]] /\ rows[id].expiresAt <= Unix(now + TokenTTL)
        BY <3>1 DEF RenewalInv, NewestInv
      <3> QED BY <1>2, <3>1, <3>2, <3>3 DEF Quiet
    <2>2. ASSUME NEW r \in Requests, hand'[r].does # "none"
          PROVE  /\ hand'[r].d.tok.gen <= latest'[hand'[r].d.tok.fam]
                 /\ hand'[r].does \in {"renews", "saves"} => hand'[r].d.exp <= now' + TokenTTL
      <3>1. hand'[r] = hand[r]
        BY <2>2 DEF Quiet
      <3>2. hand[r].d.exp \in Int /\ now \in Nat /\ now' \in Nat /\ now <= now'
        BY <2>2, <3>1 DEF Typed, HandTyped, Quiet
      <3>3. TokenTTL \in Nat
        BY HandlerAssumption
      <3>4. /\ hand[r].d.tok.gen <= latest[hand[r].d.tok.fam]
            /\ hand[r].does \in {"renews", "saves"} => hand[r].d.exp <= now + TokenTTL
        BY <2>2, <3>1 DEF RenewalInv, NewestInv
      <3>5. hand[r].does \in {"renews", "saves"} => hand[r].d.exp <= now' + TokenTTL
        BY <3>2, <3>3, <3>4, Later
      <3> QED BY <3>1, <3>4, <3>5 DEF Quiet
    <2> QED BY <2>1, <2>2 DEF NewestInv
  <1>4. RotationInv'
    <2>1. SUFFICES ASSUME Rotate, NEW r \in Requests, hand'[r].does = "renews" PROVE Newest(r)'
      BY DEF RotationInv
    <2>2. hand'[r] = hand[r]
      BY <2>1 DEF Quiet
    <2>3. Newest(r)
      BY <2>1, <2>2 DEF RenewalInv, RotationInv
    <2>4. hand[r].id \in SessionIDs
      BY <2>1, <2>2 DEF Typed, HandTyped
    <2>5. ASSUME NEW q \in Requests, q # r, hand'[q].id = hand[r].id
          PROVE  hand'[q] = hand[q]
      <3>1. hand'[q].does # "none"
        BY <2>4, <2>5, TableAssumption DEF Typed, HandTyped, NoHand
      <3> QED BY <3>1 DEF Quiet
    <2> QED BY <2>2, <2>3, <2>4, <2>5 DEF Newest, Quiet
  <1> QED BY <1>1, <1>3, <1>4 DEF RenewalInv

\* A row that is read while another request renews the session is not the newest.
LEMMA ReadRenewal ==
    ASSUME Typed, Typed', RenewalInv, NEW r \in Requests, ReadStep(r)
    PROVE  RenewalInv'
  <1> DEFINE i == hand'[r].id
  <1>1. /\ rows' = rows /\ now' = now /\ latest' = latest /\ origin' = origin
        /\ \A q \in Requests : q # r => hand'[q] = hand[q]
        /\ hand[r].does = "none" /\ hand'[r].does = "reads"
        /\ rows[i] # None /\ hand'[r].d.tok = rows[i].tok
    BY DEF ReadStep, Others
  <1>2. i \in SessionIDs /\ hand'[r].d.tok.fam = origin[i]
    BY <1>1 DEF Typed, HandTyped
  <1> HIDE DEF i
  <1>3. FamiliesInv'
    BY <1>1 DEF RenewalInv, FamiliesInv
  <1>4. NewestInv'
    BY <1>1, <1>2 DEF RenewalInv, NewestInv
  <1>5. RotationInv'
    <2>1. SUFFICES ASSUME Rotate, NEW x \in Requests, hand'[x].does = "renews" PROVE Newest(x)'
      BY DEF RotationInv
    <2>2. x # r /\ hand'[x] = hand[x]
      BY <1>1, <2>1
    <2>3. Newest(x)
      BY <2>1, <2>2 DEF RenewalInv, RotationInv
    <2>4. ASSUME NEW q \in Requests, q # x, hand'[q].id = hand[x].id
          PROVE  hand'[q].does = "reads" /\ hand'[q].d.tok.gen < hand[x].d.tok.gen
      <3>1. CASE q = r
        <4>1. i = hand[x].id
          BY <2>4, <3>1 DEF i
        <4> QED BY <1>1, <2>3, <3>1, <4>1 DEF Newest
      <3>2. CASE q # r
        BY <1>1, <2>3, <2>4, <3>2 DEF Newest
      <3> QED BY <3>1, <3>2
    <2> QED BY <1>1, <2>2, <2>3, <2>4 DEF Newest
  <1> QED BY <1>3, <1>4, <1>5 DEF RenewalInv

\* The provider renews once for each refresh token: nobody else was renewing
\* this session, and now everybody else's tokens are older.
LEMMA GrantRenewal ==
    ASSUME Typed, Typed', RenewalInv, NEW r \in Requests, GrantStep(r)
    PROVE  RenewalInv'
  <1> DEFINE i == hand[r].id
             l == origin[i]
  <1>1. /\ rows' = rows /\ now' = now /\ origin' = origin
        /\ latest' = [latest EXCEPT ![l] = latest[l] + 1]
        /\ \A q \in Requests : q # r => hand'[q] = hand[q]
        /\ hand[r].does = "reads" /\ (Rotate => hand[r].d.tok.gen = latest[l])
    BY DEF GrantStep, Others
  <1>2. \/ hand'[r].does = "none"
        \/ /\ hand'[r].does = "renews" /\ hand'[r].id = i
           /\ hand'[r].d.tok.gen = latest[l] + 1 /\ hand'[r].d.exp = now + TokenTTL
    BY DEF GrantStep
  <1>3. i \in SessionIDs /\ l \in Logins /\ latest[l] \in Nat /\ l # None
    <2>1. i \in SessionIDs /\ l \in Logins
      BY <1>1 DEF Typed, HandTyped
    <2> QED BY <2>1, TableAssumption DEF Typed
  <1>4. hand'[r].does = "renews" => hand'[r].d.tok.fam = l
    BY <1>1, <1>2 DEF Typed, HandTyped
  <1>5. \A q \in Requests : hand[q].does \in {"none", "saves"} => hand[q].id \notin SessionIDs
    BY TableAssumption DEF Typed, HandTyped, NoHand
  <1>6. hand'[r].does = "none" => hand'[r].id \notin SessionIDs
    BY TableAssumption DEF Typed, HandTyped, NoHand
  <1>7. /\ latest'[l] = latest[l] + 1
        /\ \A m \in Logins : m # l => latest'[m] = latest[m]
        /\ \A m \in Logins : latest[m] \in Nat /\ latest'[m] \in Nat /\ latest[m] <= latest'[m]
    BY <1>1, <1>3 DEF Typed
  <1>8. \A q \in Requests : hand[q].does # "none" => hand[q].d.tok.fam \in Logins /\ hand[q].d.tok.gen \in Nat
    BY DEF Typed, HandTyped
  <1>9. \A q \in Requests : hand[q].does \in {"reads", "renews"} => hand[q].d.tok.fam = origin[hand[q].id]
    BY DEF Typed, HandTyped
  <1> HIDE DEF i, l
  <1>10. origin[i] = l
    BY DEF l
  <1>11. FamiliesInv'
    <2>1. ASSUME NEW m \in Logins, \A id \in SessionIDs : origin[id] # m PROVE latest'[m] = 0
      BY <1>3, <1>7, <1>10, <2>1 DEF RenewalInv, FamiliesInv
    <2>2. \A q \in Requests : hand'[q].does = "saves" => q # r /\ hand'[q] = hand[q]
      BY <1>1, <1>2
    <2> QED BY <1>1, <2>1, <2>2 DEF RenewalInv, FamiliesInv
  <1>12. NewestInv'
    <2>1. ASSUME NEW id \in SessionIDs, rows'[id] # None
          PROVE  rows'[id].tok.gen <= latest'[origin'[id]] /\ rows'[id].expiresAt <= Unix(now' + TokenTTL)
      <3>1. rows[id] # None /\ origin[id] \in Logins /\ rows[id].tok.gen \in Nat
        BY <1>1, <2>1 DEF Typed
      <3>2. rows[id].tok.gen <= latest[origin[id]] /\ rows[id].expiresAt <= Unix(now + TokenTTL)
        BY <3>1 DEF RenewalInv, NewestInv
      <3>3. rows[id].tok.gen <= latest'[origin[id]]
        BY <1>7, <3>1, <3>2
      <3> QED BY <1>1, <3>2, <3>3
    <2>2. ASSUME NEW q \in Requests, hand'[q].does # "none"
          PROVE  /\ hand'[q].d.tok.gen <= latest'[hand'[q].d.tok.fam]
                 /\ hand'[q].does \in {"renews", "saves"} => hand'[q].d.exp <= now' + TokenTTL
      <3>1. CASE q = r
        <4>1. hand'[r].d.exp = now + TokenTTL /\ now + TokenTTL \in Int
          BY <1>2, <2>2, <3>1, HandlerAssumption DEF Typed
        <4>2. hand'[r].d.exp <= now' + TokenTTL
          BY <1>1, <4>1
        <4>3. hand'[r].d.tok.gen <= latest'[hand'[r].d.tok.fam]
          BY <1>2, <1>3, <1>4, <1>7, <2>2, <3>1
        <4> QED BY <3>1, <4>2, <4>3
      <3>2. CASE q # r
        <4>1. hand'[q] = hand[q]
          BY <1>1, <3>2
        <4>2. /\ hand[q].d.tok.gen <= latest[hand[q].d.tok.fam]
              /\ hand[q].does \in {"renews", "saves"} => hand[q].d.exp <= now + TokenTTL
          BY <2>2, <4>1 DEF RenewalInv, NewestInv
        <4>3. hand[q].d.tok.gen <= latest'[hand[q].d.tok.fam]
          BY <1>7, <1>8, <2>2, <4>1, <4>2
        <4> QED BY <1>1, <4>1, <4>2, <4>3
      <3> QED BY <3>1, <3>2
    <2> QED BY <2>1, <2>2 DEF NewestInv
  <1>13. RotationInv'
    <2>1. SUFFICES ASSUME Rotate, NEW x \in Requests, hand'[x].does = "renews" PROVE Newest(x)'
      BY DEF RotationInv
    <2>2. hand[r].d.tok.gen = latest[l] /\ hand[r].id = i
      BY <1>1, <2>1 DEF i
    \* Nobody else renews this session: r could not have the newest tokens.
    <2>3. ASSUME NEW q \in Requests, q # r, hand[q].does = "renews" PROVE hand[q].id # i
      <3>1. SUFFICES ASSUME hand[q].id = i PROVE FALSE
        OBVIOUS
      <3>2. Newest(q)
        BY <2>1, <2>3 DEF RenewalInv, RotationInv
      <3>3. hand[r].d.tok.gen < hand[q].d.tok.gen /\ hand[q].d.tok.gen = latest[l]
        BY <1>10, <2>2, <2>3, <3>1, <3>2 DEF Newest
      <3> QED BY <1>3, <2>2, <3>3
    <2>4. CASE x = r
      <3>1. /\ hand'[r].id = i /\ hand'[r].d.tok.gen = latest[l] + 1
            /\ hand'[r].d.exp = now + TokenTTL
        BY <1>2, <2>1, <2>4
      <3>2. ASSUME rows[i] # None
            PROVE  rows[i].tok.gen < latest[l] + 1 /\ rows[i].expiresAt <= Unix(now + TokenTTL)
        <4>1. rows[i].tok.gen <= latest[l] /\ rows[i].expiresAt <= Unix(now + TokenTTL)
          BY <1>3, <1>10, <3>2 DEF RenewalInv, NewestInv
        <4>2. rows[i].tok.gen \in Nat
          BY <1>3, <3>2 DEF Typed
        <4> QED BY <1>3, <4>1, <4>2
      <3>3. ASSUME NEW q \in Requests, q # r, hand'[q].id = i
            PROVE  hand'[q].does = "reads" /\ hand'[q].d.tok.gen < latest[l] + 1
        <4>1. hand'[q] = hand[q] /\ hand[q].id = i
          BY <1>1, <3>3
        <4>2. hand[q].does = "reads"
          BY <1>3, <1>5, <2>3, <3>3, <4>1 DEF Typed, HandTyped
        <4>3. hand[q].d.tok.gen <= latest[l] /\ hand[q].d.tok.gen \in Nat
          BY <1>8, <1>9, <1>10, <4>1, <4>2 DEF RenewalInv, NewestInv
        <4> QED BY <1>3, <4>1, <4>2, <4>3
      <3>4. latest'[origin'[i]] = latest[l] + 1
        BY <1>1, <1>7, <1>10
      <3> QED BY <1>1, <2>4, <3>1, <3>2, <3>3, <3>4 DEF Newest
    <2>5. CASE x # r
      <3>1. hand'[x] = hand[x] /\ hand[x].does = "renews"
        BY <1>1, <2>1, <2>5
      <3>2. Newest(x) /\ hand[x].id # i
        BY <2>1, <2>3, <2>5, <3>1 DEF RenewalInv, RotationInv
      <3>3. hand[x].id \in SessionIDs /\ origin[hand[x].id] \in Logins
        BY <3>1 DEF Typed, HandTyped
      <3>4. origin[hand[x].id] # l
        BY <1>3, <1>10, <3>2, <3>3 DEF RenewalInv, FamiliesInv
      <3>5. latest'[origin'[hand[x].id]] = latest[origin[hand[x].id]]
        BY <1>1, <1>7, <3>3, <3>4
      <3>6. ASSUME NEW q \in Requests, q # x, hand'[q].id = hand[x].id PROVE hand'[q] = hand[q]
        BY <1>1, <1>2, <1>6, <3>2, <3>3, <3>6
      <3> QED BY <1>1, <3>1, <3>2, <3>5, <3>6 DEF Newest
    <2> QED BY <2>4, <2>5
  <1> QED BY <1>11, <1>12, <1>13 DEF RenewalInv

\* The tokens that are written are the newest, and nobody else renews.
LEMMA WriteRenewal ==
    ASSUME Typed, Typed', RenewalInv, NEW r \in Requests, WriteStep(r)
    PROVE  RenewalInv'
  <1> DEFINE i == hand[r].id
             t == hand[r].d
  <1>1. /\ now' = now /\ latest' = latest /\ origin' = origin
        /\ \A q \in Requests : q # r => hand'[q] = hand[q]
        /\ hand[r].does = "renews" /\ hand'[r].does = "none"
        /\ \A id \in SessionIDs :
             rows'[id] = IF id = i /\ rows[id] # None THEN Stored(t) ELSE rows[id]
    BY DEF WriteStep, Others
  <1>2. /\ i \in SessionIDs /\ t.tok.fam = origin[i] /\ t.exp \in Int
        /\ t.tok.gen <= latest[origin[i]] /\ t.exp <= now + TokenTTL
    BY <1>1 DEF Typed, HandTyped, RenewalInv, NewestInv
  <1>3. Unix(t.exp) <= Unix(now + TokenTTL)
    <2>1. now + TokenTTL \in Int
      BY HandlerAssumption DEF Typed
    <2> QED BY <1>2, <2>1, UnixMonotone
  <1>4. Stored(t).tok = t.tok /\ Stored(t).expiresAt = Unix(t.exp)
    BY StoredIs
  <1>5. \A id \in SessionIDs : id # i => rows'[id] = rows[id]
    BY <1>1
  <1>6. rows[i] # None => rows'[i].tok = t.tok /\ rows'[i].expiresAt = Unix(t.exp)
    BY <1>1, <1>2, <1>4
  <1>7. rows[i] = None => rows'[i] = None
    BY <1>1, <1>2
  <1> HIDE DEF i, t
  <1>8. FamiliesInv'
    BY <1>1 DEF RenewalInv, FamiliesInv
  <1>9. NewestInv'
    <2>1. ASSUME NEW id \in SessionIDs, rows'[id] # None
          PROVE  rows'[id].tok.gen <= latest[origin[id]] /\ rows'[id].expiresAt <= Unix(now + TokenTTL)
      <3>1. CASE id = i
        BY <1>2, <1>3, <1>6, <1>7, <2>1, <3>1
      <3>2. CASE id # i
        BY <1>5, <2>1, <3>2 DEF RenewalInv, NewestInv
      <3> QED BY <3>1, <3>2
    <2>2. \A q \in Requests : hand'[q].does # "none" => hand'[q] = hand[q]
      BY <1>1
    <2> QED BY <1>1, <2>1, <2>2 DEF RenewalInv, NewestInv
  <1>10. RotationInv'
    <2>1. SUFFICES ASSUME Rotate, NEW x \in Requests, hand'[x].does = "renews" PROVE Newest(x)'
      BY DEF RotationInv
    <2>2. x # r /\ hand'[x] = hand[x]
      BY <1>1, <2>1
    <2>3. Newest(x) /\ Newest(r)
      BY <1>1, <2>1, <2>2 DEF RenewalInv, RotationInv
    <2>4. hand[x].id # i /\ hand[x].id \in SessionIDs
      BY <2>1, <2>2, <2>3 DEF Newest, i, Typed, HandTyped
    <2>5. ASSUME NEW q \in Requests, q # x, hand'[q].id = hand[x].id PROVE hand'[q] = hand[q]
      <3>1. hand'[q].does # "none"
        BY <2>4, <2>5, TableAssumption DEF Typed, HandTyped, NoHand
      <3> QED BY <1>1, <3>1
    <2> QED BY <1>1, <1>5, <2>2, <2>3, <2>4, <2>5 DEF Newest
  <1> QED BY <1>8, <1>9, <1>10 DEF RenewalInv

\* A code is spent once, so no other callback has tokens of the login.
LEMMA ExchangeRenewal ==
    ASSUME Typed, Typed', RenewalInv, NEW r \in Requests, ExchangeStep(r)
    PROVE  RenewalInv'
  <1> DEFINE l == hand'[r].d.tok.fam
  <1>1. /\ rows' = rows /\ now' = now /\ latest' = latest /\ origin' = origin
        /\ \A q \in Requests : q # r => hand'[q] = hand[q]
        /\ hand[r].does = "none" /\ hand'[r].does = "saves"
        /\ hand'[r].d.exp = now + TokenTTL /\ hand'[r].d.tok.gen = 0
        /\ logins[l].stage # "spent"
    BY DEF ExchangeStep, Others
  <1>2. l \in Logins /\ l # None
    BY <1>1, TableAssumption DEF Typed, HandTyped
  <1>3. \A id \in SessionIDs : origin[id] # l
    BY <1>1, <1>2 DEF Typed
  <1>4. \A q \in Requests : hand[q].does = "saves" => hand[q].d.tok.fam # l
    BY <1>1 DEF Typed, HandTyped
  <1>5. hand'[r].id \notin SessionIDs
    BY <1>1, TableAssumption DEF Typed, HandTyped
  <1>6. now + TokenTTL \in Int /\ latest[l] \in Nat
    BY <1>2, HandlerAssumption DEF Typed
  <1>7. hand'[r].d.tok.fam = l
    OBVIOUS
  <1> HIDE DEF l
  <1>8. FamiliesInv'
    <2>1. ASSUME NEW x \in Requests, hand'[x].does = "saves"
          PROVE  /\ \A id \in SessionIDs : origin'[id] # hand'[x].d.tok.fam
                 /\ \A q \in Requests :
                      hand'[q].does = "saves" /\ hand'[q].d.tok.fam = hand'[x].d.tok.fam => q = x
      <3>1. CASE x = r
        BY <1>1, <1>3, <1>4, <1>7, <3>1
      <3>2. CASE x # r
        <4>1. hand'[x] = hand[x]
          BY <1>1, <3>2
        <4> QED BY <1>1, <1>4, <1>7, <2>1, <3>2, <4>1 DEF RenewalInv, FamiliesInv
      <3> QED BY <3>1, <3>2
    <2> QED BY <1>1, <2>1 DEF RenewalInv, FamiliesInv
  <1>9. NewestInv'
    <2>1. ASSUME NEW q \in Requests, hand'[q].does # "none"
          PROVE  /\ hand'[q].d.tok.gen <= latest'[hand'[q].d.tok.fam]
                 /\ hand'[q].does \in {"renews", "saves"} => hand'[q].d.exp <= now' + TokenTTL
      <3>1. CASE q = r
        BY <1>1, <1>6, <1>7, <3>1
      <3>2. CASE q # r
        <4>1. hand'[q] = hand[q]
          BY <1>1, <3>2
        <4> QED BY <1>1, <2>1, <4>1 DEF RenewalInv, NewestInv
      <3> QED BY <3>1, <3>2
    <2> QED BY <1>1, <2>1 DEF RenewalInv, NewestInv
  <1>10. RotationInv'
    <2>1. SUFFICES ASSUME Rotate, NEW x \in Requests, hand'[x].does = "renews" PROVE Newest(x)'
      BY DEF RotationInv
    <2>2. x # r /\ hand'[x] = hand[x]
      BY <1>1, <2>1
    <2>3. Newest(x)
      BY <2>1, <2>2 DEF RenewalInv, RotationInv
    <2>4. hand[x].id \in SessionIDs
      BY <2>1, <2>2 DEF Typed, HandTyped
    <2>5. ASSUME NEW q \in Requests, q # x, hand'[q].id = hand[x].id PROVE hand'[q] = hand[q]
      BY <1>1, <1>5, <2>4, <2>5
    <2> QED BY <1>1, <2>2, <2>3, <2>5 DEF Newest
  <1> QED BY <1>8, <1>9, <1>10 DEF RenewalInv

\* A login gets one session, with its first tokens.
LEMMA SaveRenewal ==
    ASSUME Typed, Typed', RenewalInv, NEW r \in Requests, SaveStep(r)
    PROVE  RenewalInv'
  <1> DEFINE t == hand[r].d
             l == t.tok.fam
             w == Stored(t)
  <1>1. PICK i \in SessionIDs :
          /\ origin[i] = None /\ origin' = [origin EXCEPT ![i] = l] /\ rows' = [rows EXCEPT ![i] = w]
    BY DEF SaveStep
  <1>2. /\ now' = now /\ latest' = latest
        /\ \A q \in Requests : q # r => hand'[q] = hand[q]
        /\ hand[r].does = "saves" /\ hand'[r].does = "none"
    BY DEF SaveStep, Others
  <1>3. l \in Logins /\ l # None /\ t.exp \in Int /\ t.tok.gen \in Nat
    BY <1>2, TableAssumption DEF Typed, HandTyped
  <1>4. t.tok.gen <= latest[l] /\ t.exp <= now + TokenTTL
    BY <1>2 DEF RenewalInv, NewestInv
  <1>5. \A id \in SessionIDs : origin[id] # l
    BY <1>2 DEF RenewalInv, FamiliesInv
  <1>6. w.tok = t.tok /\ w.expiresAt = Unix(t.exp)
    BY StoredIs
  <1>7. w.tok.gen <= latest[l] /\ w.expiresAt <= Unix(now + TokenTTL)
    <2>1. now + TokenTTL \in Int
      BY HandlerAssumption DEF Typed
    <2> QED BY <1>3, <1>4, <1>6, <2>1, UnixMonotone
  <1>8. \A q \in Requests : hand[q].does = "saves" /\ hand[q].d.tok.fam = l => q = r
    BY <1>2 DEF RenewalInv, FamiliesInv
  <1> HIDE DEF w, l, t
  <1>9. /\ origin'[i] = l /\ rows'[i] = w
        /\ \A id \in SessionIDs : id # i => origin'[id] = origin[id] /\ rows'[id] = rows[id]
    BY <1>1 DEF Typed
  <1>10. FamiliesInv'
    <2>1. ASSUME NEW j \in SessionIDs, NEW k \in SessionIDs, origin'[j] # None, origin'[j] = origin'[k]
          PROVE  j = k
      <3>1. CASE j = i \/ k = i
        BY <1>5, <1>9, <2>1, <3>1
      <3>2. CASE j # i /\ k # i
        BY <1>9, <2>1, <3>2 DEF RenewalInv, FamiliesInv
      <3> QED BY <3>1, <3>2
    <2>2. ASSUME NEW m \in Logins, \A id \in SessionIDs : origin'[id] # m PROVE latest'[m] = 0
      <3>1. \A id \in SessionIDs : origin[id] # m
        BY <1>1, <1>9, <2>2, TableAssumption
      <3> QED BY <1>2, <3>1 DEF RenewalInv, FamiliesInv
    <2>3. ASSUME NEW x \in Requests, hand'[x].does = "saves"
          PROVE  /\ \A id \in SessionIDs : origin'[id] # hand'[x].d.tok.fam
                 /\ \A q \in Requests :
                      hand'[q].does = "saves" /\ hand'[q].d.tok.fam = hand'[x].d.tok.fam => q = x
      <3>1. x # r /\ hand'[x] = hand[x]
        BY <1>2, <2>3
      <3>2. hand[x].d.tok.fam # l
        BY <1>8, <2>3, <3>1
      <3>3. \A id \in SessionIDs : origin[id] # hand[x].d.tok.fam
        BY <2>3, <3>1 DEF RenewalInv, FamiliesInv
      <3>4. \A id \in SessionIDs : origin'[id] # hand[x].d.tok.fam
        BY <1>9, <3>2, <3>3
      <3> QED BY <1>2, <2>3, <3>1, <3>4 DEF RenewalInv, FamiliesInv
    <2> QED BY <2>1, <2>2, <2>3 DEF FamiliesInv
  <1>11. NewestInv'
    <2>1. ASSUME NEW id \in SessionIDs, rows'[id] # None
          PROVE  rows'[id].tok.gen <= latest'[origin'[id]] /\ rows'[id].expiresAt <= Unix(now' + TokenTTL)
      <3>1. CASE id = i
        BY <1>2, <1>7, <1>9, <3>1
      <3>2. CASE id # i
        BY <1>2, <1>9, <2>1, <3>2 DEF RenewalInv, NewestInv
      <3> QED BY <3>1, <3>2
    <2>2. \A q \in Requests : hand'[q].does # "none" => hand'[q] = hand[q]
      BY <1>2
    <2> QED BY <1>2, <2>1, <2>2 DEF RenewalInv, NewestInv
  <1>12. RotationInv'
    <2>1. SUFFICES ASSUME Rotate, NEW x \in Requests, hand'[x].does = "renews" PROVE Newest(x)'
      BY DEF RotationInv
    <2>2. x # r /\ hand'[x] = hand[x]
      BY <1>2, <2>1
    <2>3. Newest(x)
      BY <2>1, <2>2 DEF RenewalInv, RotationInv
    <2>4. hand[x].id \in SessionIDs /\ origin[hand[x].id] \in Logins
      BY <2>1, <2>2 DEF Typed, HandTyped
    <2>5. hand[x].id # i
      BY <1>1, <2>4, TableAssumption
    <2>6. ASSUME NEW q \in Requests, q # x, hand'[q].id = hand[x].id PROVE hand'[q] = hand[q]
      <3>1. hand'[q].does # "none"
        BY <2>4, <2>6, TableAssumption DEF Typed, HandTyped, NoHand
      <3> QED BY <1>2, <3>1
    <2> QED BY <1>2, <1>9, <2>2, <2>3, <2>4, <2>5, <2>6 DEF Newest
  <1> QED BY <1>10, <1>11, <1>12 DEF RenewalInv

-----------------------------------------------------------------------------
(* What renewed tokens reach the table, and whose they are.                *)

\* Every step has one of these shapes.
Shaped ==
    \/ Quiet
    \/ \E r \in Requests : \/ ReadStep(r) \/ GrantStep(r) \/ WriteStep(r)
                           \/ ExchangeStep(r) \/ SaveStep(r)

\* Nobody's name changes once the code of the login is spent.
UsersKept ==
    \A l \in Logins : logins[l].stage = "spent" => logins'[l].sub = logins[l].sub

\* So every shape keeps the invariant.
LEMMA StepRenewal ==
    ASSUME Typed, Typed', RenewalInv, Shaped
    PROVE  RenewalInv'
  BY QuietRenewal, ReadRenewal, GrantRenewal, WriteRenewal, ExchangeRenewal, SaveRenewal
     DEF Shaped

\* Only the provider gives renewed tokens, and a session in hand keeps its
\* login.
LEMMA RenewsFrom ==
    ASSUME Typed, Shaped, NEW q \in Requests, hand'[q].does = "renews"
    PROVE  \/ GrantStep(q)
           \/ hand'[q] = hand[q] /\ origin'[hand[q].id] = origin[hand[q].id]
  <1>1. CASE Quiet
    BY <1>1 DEF Quiet
  <1>2. ASSUME NEW r \in Requests, \/ ReadStep(r) \/ WriteStep(r) \/ ExchangeStep(r)
        PROVE  hand'[q] = hand[q] /\ origin' = origin
    BY <1>2 DEF ReadStep, WriteStep, ExchangeStep, Others
  <1>3. ASSUME NEW r \in Requests, GrantStep(r), q # r
        PROVE  hand'[q] = hand[q] /\ origin' = origin
    BY <1>3 DEF GrantStep, Others
  <1>4. ASSUME NEW r \in Requests, SaveStep(r)
        PROVE  hand'[q] = hand[q] /\ origin'[hand[q].id] = origin[hand[q].id]
    <2>1. hand'[q] = hand[q]
      BY <1>4 DEF SaveStep, Others
    <2>2. hand[q].id \in SessionIDs /\ origin[hand[q].id] \in Logins
      BY <2>1 DEF Typed, HandTyped
    <2>3. PICK i \in SessionIDs :
            origin[i] = None /\ origin' = [origin EXCEPT ![i] = hand[r].d.tok.fam]
      BY <1>4 DEF SaveStep
    <2> QED BY <2>1, <2>2, <2>3, TableAssumption DEF Typed
  <1> QED BY <1>1, <1>2, <1>3, <1>4 DEF Shaped

\* A subject in hand stays that of the session's login, which is spent.
LEMMA StepSubjects ==
    ASSUME Typed, Typed', SubjectsInv, UsersKept, Shaped
    PROVE  SubjectsInv'
  <1>1. SUFFICES ASSUME "subject" \notin Faults, NEW q \in Requests, hand'[q].does = "renews"
                 PROVE  hand'[q].d.sub = logins'[origin'[hand'[q].id]].sub
    BY DEF SubjectsInv
  <1>2. CASE GrantStep(q)
    <2> DEFINE l == origin[hand[q].id]
    <2>1. /\ hand'[q].id = hand[q].id /\ origin' = origin /\ hand'[q].d.sub = logins[l].sub
          /\ hand[q].does = "reads"
      BY <1>1, <1>2 DEF GrantStep
    <2>2. hand[q].id \in SessionIDs /\ l \in Logins
      BY <2>1 DEF Typed, HandTyped
    <2>3. logins[l].stage = "spent"
      BY <2>2, TableAssumption DEF Typed
    <2>4. logins'[l].sub = logins[l].sub
      BY <2>2, <2>3 DEF UsersKept
    <2> QED BY <2>1, <2>4
  <1>3. CASE hand'[q] = hand[q] /\ origin'[hand[q].id] = origin[hand[q].id]
    <2> DEFINE l == origin[hand[q].id]
    <2>1. hand[q].id \in SessionIDs /\ l \in Logins
      BY <1>1, <1>3 DEF Typed, HandTyped
    <2>2. logins[l].stage = "spent"
      BY <2>1, TableAssumption DEF Typed
    <2>3. logins'[l].sub = logins[l].sub
      BY <2>1, <2>2 DEF UsersKept
    <2>4. hand[q].d.sub = logins[l].sub
      BY <1>1, <1>3 DEF SubjectsInv
    <2> QED BY <1>3, <2>3, <2>4
  <1> QED BY <1>1, <1>2, <1>3, RenewsFrom

\* The newest tokens are let go only when they are in the table, or the row has
\* gone.
LEMMA StepKept ==
    ASSUME Typed, Typed', RenewalInv, KeptInv, Shaped
    PROVE  KeptInv'
  <1>1. SUFFICES ASSUME Rotate, ~Lossy, NEW id \in SessionIDs, rows'[id] # None,
                        rows'[id].tok.gen # latest'[origin'[id]]
                 PROVE  \E q \in Requests : hand'[q].does = "renews" /\ hand'[q].id = id
    BY DEF KeptInv, Lossy
  <1>2. rows[id] # None /\ rows[id].tok.gen # latest[origin[id]] =>
          \E q \in Requests : hand[q].does = "renews" /\ hand[q].id = id
    BY <1>1 DEF KeptInv
  <1>3. CASE Quiet
    <2>1. rows'[id] = rows[id] /\ latest' = latest /\ origin' = origin
      BY <1>1, <1>3 DEF Quiet
    <2>2. PICK q \in Requests : hand[q].does = "renews" /\ hand[q].id = id
      BY <1>1, <1>2, <2>1
    <2>3. hand'[q] = hand[q]
      BY <1>1, <1>3, <2>2 DEF Quiet
    <2> QED BY <2>2, <2>3
  <1>4. ASSUME NEW r \in Requests, ReadStep(r) \/ ExchangeStep(r)
        PROVE  \E q \in Requests : hand'[q].does = "renews" /\ hand'[q].id = id
    <2>1. /\ rows' = rows /\ latest' = latest /\ origin' = origin /\ hand[r].does = "none"
          /\ \A q \in Requests : q # r => hand'[q] = hand[q]
      BY <1>4 DEF ReadStep, ExchangeStep, Others
    <2> QED BY <1>1, <1>2, <2>1
  <1>5. ASSUME NEW r \in Requests, GrantStep(r)
        PROVE  \E q \in Requests : hand'[q].does = "renews" /\ hand'[q].id = id
    <2> DEFINE i == hand[r].id
    <2>1. /\ rows' = rows /\ origin' = origin /\ hand[r].does = "reads"
          /\ \A q \in Requests : q # r => hand'[q] = hand[q]
          /\ latest' = [latest EXCEPT ![origin[i]] = @ + 1]
          /\ hand'[r].does = "renews" /\ hand'[r].id = i
      BY <1>1, <1>5 DEF GrantStep, Others
    <2>2. i \in SessionIDs /\ origin[i] \in Logins /\ origin[id] \in Logins
      BY <1>1, <2>1 DEF Typed, HandTyped
    <2>3. CASE id = i
      BY <2>1, <2>3
    <2>4. CASE id # i
      <3>1. origin[id] # origin[i]
        BY <2>2, <2>4, TableAssumption DEF RenewalInv, FamiliesInv
      <3>2. latest'[origin[id]] = latest[origin[id]]
        BY <2>1, <2>2, <3>1 DEF Typed
      <3>3. PICK q \in Requests : hand[q].does = "renews" /\ hand[q].id = id
        BY <1>1, <1>2, <2>1, <3>2
      <3> QED BY <2>1, <3>3
    <2> QED BY <2>3, <2>4
  <1>6. ASSUME NEW r \in Requests, WriteStep(r)
        PROVE  \E q \in Requests : hand'[q].does = "renews" /\ hand'[q].id = id
    <2> DEFINE i == hand[r].id
    <2>1. /\ latest' = latest /\ origin' = origin /\ hand[r].does = "renews"
          /\ \A q \in Requests : q # r => hand'[q] = hand[q]
          /\ rows'[id] = IF id = i /\ rows[id] # None THEN Stored(hand[r].d) ELSE rows[id]
      BY <1>6 DEF WriteStep, Others
    <2>2. CASE id = i
      <3>1. rows'[id] = Stored(hand[r].d)
        BY <1>1, <2>1, <2>2
      <3>2. rows'[id].tok = hand[r].d.tok
        BY <3>1, StoredIs
      <3>3. hand[r].d.tok.gen = latest[origin[id]]
        BY <1>1, <2>1, <2>2 DEF RenewalInv, RotationInv, Newest
      <3> QED BY <1>1, <2>1, <3>2, <3>3
    <2>3. CASE id # i
      <3>1. PICK q \in Requests : hand[q].does = "renews" /\ hand[q].id = id
        BY <1>1, <1>2, <2>1, <2>3
      <3> QED BY <2>1, <2>3, <3>1
    <2> QED BY <2>2, <2>3
  <1>7. ASSUME NEW r \in Requests, SaveStep(r)
        PROVE  \E q \in Requests : hand'[q].does = "renews" /\ hand'[q].id = id
    <2> DEFINE t == hand[r].d
               l == t.tok.fam
    <2>1. PICK i \in SessionIDs :
            /\ origin[i] = None
            /\ origin' = [origin EXCEPT ![i] = l] /\ rows' = [rows EXCEPT ![i] = Stored(t)]
      BY <1>7 DEF SaveStep
    <2>2. /\ latest' = latest /\ hand[r].does = "saves"
          /\ \A q \in Requests : q # r => hand'[q] = hand[q]
      BY <1>7 DEF SaveStep, Others
    <2>3. l \in Logins /\ t.tok.gen \in Nat /\ t.tok.gen <= latest[l]
      BY <2>2 DEF Typed, HandTyped, RenewalInv, NewestInv
    <2>4. latest[l] = 0
      BY <2>2, <2>3 DEF RenewalInv, FamiliesInv
    <2>5. Stored(t).tok = t.tok
      BY StoredIs
    <2> HIDE DEF l
    <2>6. CASE id = i
      <3>1. rows'[id] = Stored(t) /\ origin'[id] = l
        BY <2>1, <2>6 DEF Typed
      <3>2. t.tok.gen = 0
        BY <2>3, <2>4
      <3> QED BY <1>1, <2>2, <2>4, <2>5, <3>1, <3>2
    <2>7. CASE id # i
      <3>1. rows'[id] = rows[id] /\ origin'[id] = origin[id]
        BY <2>1, <2>7 DEF Typed
      <3>2. PICK q \in Requests : hand[q].does = "renews" /\ hand[q].id = id
        BY <1>1, <1>2, <2>2, <3>1
      <3> QED BY <2>2, <3>2
    <2> QED BY <2>6, <2>7
  <1> QED BY <1>3, <1>4, <1>5, <1>6, <1>7 DEF Shaped

-----------------------------------------------------------------------------
(* The steps of TokenHandler have these shapes.                            *)

\* A step of request r moves no other hand.
LEMMA OneHand ==
    ASSUME Inv, NEW r \in Requests, NEW x, req' = [req EXCEPT ![r] = x]
    PROVE  hand'[r] = Hand(x) /\ hand[r] = Hand(req[r]) /\ Others(r)
  <1>1. req'[r] = x /\ \A q \in Requests : q # r => req'[q] = req[q]
    BY DEF Inv, TypeOK
  <1> QED BY <1>1 DEF hand, Others

\* A request that is answered has nothing more in its hands.
LEMMA RespondHand ==
    ASSUME Inv, NEW r \in Requests, NEW code, NEW set, Respond(r, code, set)
    PROVE  hand'[r] = NoHand /\ hand[r] = Hand(req[r]) /\ Others(r)
  <1> DEFINE x == [req[r] EXCEPT !.pc = "reply", !.code = code, !.set = set,
                                 !.data = NoData, !.token = None]
  <1>1. x.pc = "reply"
    BY RequestFacts DEF Request
  <1>2. req' = [req EXCEPT ![r] = x]
    BY DEF Respond
  <1> HIDE DEF x
  <1>3. Hand(x) = NoHand
    BY <1>1 DEF Hand
  <1> QED BY <1>2, <1>3, OneHand

\* Letting go is quiet, if it is not of renewed tokens whose row is there.
LEMMA LetGo ==
    ASSUME Typed, NEW r \in Requests, Others(r), hand'[r] = hand[r] \/ hand'[r] = NoHand,
           hand[r].does = "renews" => hand'[r] = hand[r] \/ rows'[hand[r].id] = None \/ Lossy,
           UNCHANGED <<now, latest, origin>>,
           \A id \in SessionIDs : rows'[id] = rows[id] \/ rows'[id] = None
    PROVE  Quiet
  <1>1. now' >= now
    BY DEF Typed
  <1>2. NoHand.does = "none"
    BY DEF NoHand
  <1> QED BY <1>1, <1>2 DEF Quiet, Others

\* Answering is quiet.
LEMMA RespondQuiet ==
    ASSUME Inv, Typed, NEW r \in Requests, NEW code, NEW set, Respond(r, code, set),
           hand[r].does = "renews" => rows'[hand[r].id] = None \/ Lossy,
           UNCHANGED <<now, latest, origin>>,
           \A id \in SessionIDs : rows'[id] = rows[id] \/ rows'[id] = None
    PROVE  Quiet
  BY RespondHand, LetGo

\* Only a middleware that has called the provider has renewed tokens.
LEMMA WhoRenews ==
    ASSUME NEW r \in Requests
    PROVE  /\ hand[r].does = "renews" => req[r].kind = "api" /\ req[r].pc \in {"update", "exec"}
           /\ req[r].pc \notin {"save", "check", "refresh", "update", "exec"} => hand[r] = NoHand
  <1>1. hand[r] = Hand(req[r])
    BY DEF hand
  <1> QED BY <1>1 DEF Hand, NoHand

\* Handlers that fail, or answer without a renewal.
LEMMA FailuresQuiet ==
    ASSUME Inv, Typed, NEW r \in Requests,
           \/ ExchangeRefused(r) \/ ExchangeLost(r) \/ RefreshRefused(r)
           \/ CookieUnusable(r) \/ DBError(r) \/ IDTokenInvalid(r)
           \/ LoginHandlerOidc(r) \/ Forward(r) \/ BackendError(r)
    PROVE  Quiet
  <1>1. UNCHANGED <<rows, now, latest, origin>> /\ \E code, set : Respond(r, code, set)
    BY DEF ExchangeRefused, ExchangeLost, RefreshRefused, CookieUnusable, DBError,
       IDTokenInvalid, LoginHandlerOidc, Forward, BackendError
  <1>2. ASSUME hand[r].does = "renews" PROVE Lossy
    <2>1. req[r].kind = "api" /\ req[r].pc \in {"update", "exec"}
      BY <1>2, WhoRenews
    <2>2. DBError(r) \/ IDTokenInvalid(r)
      BY <2>1 DEF ExchangeRefused, ExchangeLost, RefreshRefused, CookieUnusable, DBError,
         IDTokenInvalid, LoginHandlerOidc, Forward, BackendError, At
    <2>3. "db" \in Faults \/ "idtoken" \in Faults
      BY <2>2 DEF DBError, IDTokenInvalid
    <2> QED BY <2>3 DEF Lossy, Losses
  <1> QED BY <1>1, <1>2, RespondQuiet

\* A callback or logout that goes on has nothing in its hands yet.
LEMMA GoingOnQuiet ==
    ASSUME Inv, Typed, NEW r \in Requests, CallbackHandlerOidc(r) \/ LogoutHandlerOidc(r)
    PROVE  Quiet
  <1>1. UNCHANGED <<rows, now, latest, origin>> /\ req[r].pc = "start" /\ req[r].kind # "api"
    BY DEF CallbackHandlerOidc, LogoutHandlerOidc, At
  <1>2. hand[r] = NoHand /\ hand[r].does # "renews"
    BY <1>1, WhoRenews DEF NoHand
  <1>3. CASE \E code, set : Respond(r, code, set)
    BY <1>1, <1>2, <1>3, RespondQuiet
  <1>4. CASE Goto(r, "exchange") \/ Goto(r, "delete")
    <2>1. PICK pc \in {"exchange", "delete"} : Goto(r, pc)
      BY <1>4
    <2> DEFINE x == [req[r] EXCEPT !.pc = pc]
    <2>2. x.pc = pc /\ req' = [req EXCEPT ![r] = x]
      BY <2>1, RequestFacts DEF Goto, Request
    <2> HIDE DEF x
    <2>3. Hand(x) = NoHand
      BY <2>1, <2>2 DEF Hand
    <2> QED BY <1>1, <1>2, <2>2, <2>3, OneHand, LetGo
  <1> QED BY <1>3, <1>4 DEF CallbackHandlerOidc, LogoutHandlerOidc

\* A logout removes its row.
LEMMA LogoutQuiet ==
    ASSUME Inv, Typed, NEW r \in Requests, LogoutDelete(r)
    PROVE  Quiet
  <1>1. /\ UNCHANGED <<now, latest, origin>> /\ req[r].kind = "logout"
        /\ rows' = [rows EXCEPT ![req[r].ck.id] = None]
        /\ \E code, set : Respond(r, code, set)
    BY DEF LogoutDelete, Delete, SaveCookie, At
  <1>2. hand[r].does # "renews"
    BY <1>1, WhoRenews
  <1>3. \A id \in SessionIDs : rows'[id] = rows[id] \/ rows'[id] = None
    BY <1>1 DEF Typed
  <1> QED BY <1>1, <1>2, <1>3, RespondQuiet

\* The middleware reads the row of the cookie's session, or nothing.
LEMMA MiddlewareShape ==
    ASSUME Inv, Typed, NEW r \in Requests, AuthenticationMiddleware(r)
    PROVE  Shaped
  <1> DEFINE s == GetSession(req[r].ck)
             id == req[r].ck.id
  <1>1. UNCHANGED <<rows, now, latest, origin>> /\ req[r].pc = "start" /\ req[r].kind = "api"
    BY DEF AuthenticationMiddleware, At
  <1>2. hand[r] = NoHand /\ hand[r].does = "none"
    BY <1>1, WhoRenews DEF NoHand
  <1>3. CASE s.err # "none"
    <2>1. Respond(r, "unauthorized", None)
      BY <1>3 DEF AuthenticationMiddleware
    <2> QED BY <1>1, <1>2, <2>1, RespondQuiet DEF Shaped
  <1>4. CASE s.err = "none"
    <2> DEFINE x == [req[r] EXCEPT !.pc = "check", !.data = s.data]
    <2>1. req' = [req EXCEPT ![r] = x]
      BY <1>4 DEF AuthenticationMiddleware
    <2>2. x.pc = "check" /\ x.kind = "api" /\ x.data = s.data /\ x.ck = req[r].ck
      BY <1>1, RequestFacts DEF Request
    <2> HIDE DEF x
    <2>3. hand'[r] = Hand(x) /\ Others(r)
      BY <2>1, OneHand
    <2>4. CASE s.data = NoData
      <3>1. Hand(x) = NoHand
        BY <2>2, <2>4, HandIs
      <3> QED BY <1>1, <1>2, <2>3, <3>1, LetGo DEF Shaped
    <2>5. CASE s.data # NoData
      <3>1. Hand(x) = [does |-> "reads", id |-> id, d |-> s.data]
        BY <2>2, <2>5, HandIs
      <3>2. id \in SessionIDs /\ req[r].ck.st = None /\ Exists(id)
        BY <1>4, <2>5, GetSessionData
      <3>3. s.data = Loaded(rows[id])
        BY <3>2, TableAssumption DEF GetSession, dataFromDB, Get
      <3>4. s.data.tok = rows[id].tok
        BY <3>3 DEF Loaded
      <3> HIDE DEF s
      <3>5. ReadStep(r)
        BY <1>1, <1>2, <2>3, <3>1, <3>2, <3>4 DEF ReadStep, Exists
      <3> QED BY <3>5 DEF Shaped
    <2> QED BY <2>4, <2>5
  <1> QED BY <1>3, <1>4

\* Looking at the clock changes nothing, or the row that was read is used.
LEMMA CheckQuiet ==
    ASSUME Inv, Typed, NEW r \in Requests, CheckExpiry(r)
    PROVE  Quiet
  <1>1. UNCHANGED <<rows, now, latest, origin>> /\ req[r].kind = "api" /\ req[r].pc = "check"
    BY DEF CheckExpiry, At
  <1>2. PICK pc \in {"refresh", "forward"} : Goto(r, pc)
    BY DEF CheckExpiry
  <1> DEFINE x == [req[r] EXCEPT !.pc = pc]
  <1>3. /\ x.pc = pc /\ x.kind = "api" /\ x.data = req[r].data /\ x.ck = req[r].ck
        /\ req' = [req EXCEPT ![r] = x]
    BY <1>1, <1>2, RequestFacts DEF Goto, Request
  <1> HIDE DEF x
  <1>4. hand'[r] = Hand(x) /\ hand[r] = Hand(req[r]) /\ Others(r)
    BY <1>3, OneHand
  <1>5. Hand(x) = Hand(req[r]) \/ Hand(x) = NoHand
    BY <1>1, <1>3 DEF Hand
  <1>6. hand[r].does # "renews"
    BY <1>1, WhoRenews
  <1> QED BY <1>1, <1>4, <1>5, <1>6, LetGo

\* The provider renews the tokens that the middleware has read.
LEMMA RefreshShape ==
    ASSUME Inv, Typed, NEW r \in Requests, RefreshGranted(r) \/ RefreshLost(r)
    PROVE  GrantStep(r)
  <1> DEFINE l == req[r].data.tok.fam
             id == req[r].ck.id
  <1>1. /\ UNCHANGED <<rows, now, origin>> /\ At(r, "api", "refresh")
        /\ req[r].data.tok # None
        /\ Rotate => req[r].data.tok.gen = latest[l]
        /\ latest' = [latest EXCEPT ![l] = @ + 1]
    BY DEF RefreshGranted, RefreshLost, Renewable
  <1>2. req[r].data # NoData /\ l \in Logins /\ l = origin[id] /\ req[r] \in Request
    BY <1>1, RefreshFacts
  <1>3. hand[r] = [does |-> "reads", id |-> id, d |-> req[r].data]
    BY <1>1, <1>2, HandIs DEF At, hand
  <1>4. /\ hand[r].does = "reads" /\ origin[hand[r].id] = l /\ hand[r].id = id
        /\ Rotate => hand[r].d.tok.gen = latest[origin[hand[r].id]]
    BY <1>1, <1>2, <1>3
  <1>5. CASE RefreshLost(r)
    <2>1. "lost" \in Faults /\ Respond(r, "unauthorized", None)
      BY <1>5 DEF RefreshLost
    <2>2. Lossy
      BY <2>1 DEF Lossy, Losses
    <2>3. hand'[r].does = "none" /\ Others(r)
      BY <2>1, RespondHand DEF NoHand
    <2> QED BY <1>1, <1>4, <2>2, <2>3 DEF GrantStep
  <1>6. CASE RefreshGranted(r)
    <2>1. PICK s \in Subjects :
            /\ "subject" \in Faults \/ s = logins[l].sub
            /\ req' = [req EXCEPT ![r] = [@ EXCEPT !.pc = "update", !.token = NextTokens(l, s)]]
      BY <1>6 DEF RefreshGranted
    <2> DEFINE t == NextTokens(l, s)
               x == [req[r] EXCEPT !.pc = "update", !.token = t]
    <2>2. t.tok.gen = latest[l] + 1 /\ t.exp = now + TokenTTL /\ t.sub = s
      BY DEF NextTokens
    <2>3. req' = [req EXCEPT ![r] = x]
      BY <2>1
    <2> HIDE DEF t
    <2>4. x.pc = "update" /\ x.kind = "api" /\ x.token = t /\ x.ck = req[r].ck
      BY <1>1, <1>2 DEF At, Request
    <2> HIDE DEF x
    <2>5. Hand(x) = [does |-> "renews", id |-> id, d |-> t]
      BY <2>4, HandIs
    <2>6. hand'[r] = Hand(x) /\ Others(r)
      BY <2>3, OneHand
    <2>7. /\ hand'[r].does = "renews" /\ hand'[r].id = id /\ hand'[r].d = t
      BY <2>5, <2>6
    <2>8. "subject" \in Faults \/ t.sub = logins[l].sub
      BY <2>1, <2>2
    <2> HIDE DEF l, id
    <2> QED BY <1>1, <1>4, <2>2, <2>6, <2>7, <2>8 DEF GrantStep
  <1> QED BY <1>5, <1>6

\* Update goes on with the renewed tokens, unless the row has gone or the
\* provider has given somebody else's.
LEMMA UpdateGetQuiet ==
    ASSUME Inv, Typed, SubjectsInv, NEW r \in Requests, UpdateGet(r)
    PROVE  Quiet
  <1> DEFINE t == req[r].token
             id == req[r].ck.id
  <1>1. UNCHANGED <<rows, now, latest, origin>> /\ At(r, "api", "update")
    BY DEF UpdateGet
  <1>2. newData(t) = t
    BY <1>1, TokenInHand
  <1>3. hand[r] = [does |-> "renews", id |-> id, d |-> t]
    BY <1>1, HandIs DEF At, hand
  <1>4. id \in SessionIDs
    BY <1>3 DEF Typed, HandTyped
  <1>5. CASE UpdateCheck(id, t)
    <2> DEFINE x == [req[r] EXCEPT !.pc = "exec", !.data = t, !.token = None]
    <2>1. req' = [req EXCEPT ![r] = x]
      BY <1>2, <1>5 DEF UpdateGet
    <2>2. x.pc = "exec" /\ x.kind = "api" /\ x.data = t /\ x.ck = req[r].ck
      BY <1>1, RequestFacts DEF At, Request
    <2> HIDE DEF x
    <2>3. Hand(x) = [does |-> "renews", id |-> id, d |-> t]
      BY <2>2, HandIs
    <2>4. hand'[r] = hand[r] /\ Others(r)
      BY <1>3, <2>1, <2>3, OneHand
    <2> QED BY <1>1, <2>4, LetGo
  <1>6. CASE ~UpdateCheck(id, t)
    <2>1. Respond(r, "error", None)
      BY <1>2, <1>6 DEF UpdateGet
    <2>2. ASSUME rows[id] # None PROVE Lossy
      <3>1. t.sub # rows[id].sub
        BY <1>6, <2>2 DEF UpdateCheck, Exists, Get, Loaded
      <3>2. rows[id].sub = logins[origin[id]].sub
        BY <1>4, <2>2 DEF Inv, OwnershipInv, RowsInv
      <3>3. "subject" \in Faults
        BY <1>3, <3>1, <3>2 DEF SubjectsInv
      <3> QED BY <3>3 DEF Lossy, Losses
    <2>3. hand[r].id = id
      BY <1>3
    <2>4. rows'[hand[r].id] = None \/ Lossy
      BY <1>1, <2>2, <2>3
    <2> QED BY <1>1, <2>1, <2>4, RespondQuiet
  <1> QED BY <1>5, <1>6

\* The UPDATE writes them.
LEMMA UpdateWriteShape ==
    ASSUME Inv, Typed, NEW r \in Requests, UpdateWrite(r)
    PROVE  WriteStep(r)
  <1> DEFINE d == req[r].data
             id == req[r].ck.id
             w == Stored(d)
  <1>1. UNCHANGED <<now, latest, origin>> /\ At(r, "api", "exec")
    BY DEF UpdateWrite
  <1>2. hand[r] = [does |-> "renews", id |-> id, d |-> d]
    BY <1>1, HandIs DEF At, hand
  <1>3. /\ rows' = IF rows[id] # None THEN [rows EXCEPT ![id] = w] ELSE rows
        /\ id \in SessionIDs
    BY UpdateWrites
  <1>4. hand'[r].does = "none" /\ Others(r)
    <2>1. CASE \E code, set : Respond(r, code, set)
      BY <2>1, RespondHand DEF NoHand
    <2>2. CASE req' = [req EXCEPT ![r] = [@ EXCEPT !.pc = "forward", !.set = saveSession(id)]]
      <3> DEFINE x == [req[r] EXCEPT !.pc = "forward", !.set = saveSession(id)]
      <3>1. req' = [req EXCEPT ![r] = x] /\ x.pc = "forward"
        BY <2>2, RequestFacts DEF Request
      <3> HIDE DEF x
      <3>2. Hand(x) = NoHand
        BY <3>1 DEF Hand
      <3>3. hand'[r] = Hand(x) /\ Others(r)
        BY <3>1, OneHand
      <3>4. NoHand.does = "none"
        BY DEF NoHand
      <3> QED BY <3>2, <3>3, <3>4
    <2> QED BY <2>1, <2>2 DEF UpdateWrite
  <1>5. hand[r].does = "renews" /\ hand[r].id = id /\ hand[r].d = d
    BY <1>2
  <1> HIDE DEF d, id
  <1>6. \A i \in SessionIDs : rows'[i] = IF i = id /\ rows[i] # None THEN w ELSE rows[i]
    <2> HIDE DEF w
    <2> QED BY <1>3 DEF Typed
  <1> QED BY <1>1, <1>4, <1>5, <1>6 DEF WriteStep

\* The exchange gives a callback the first tokens of its login.
LEMMA ExchangeShape ==
    ASSUME Inv, Typed, NEW r \in Requests, ExchangeGranted(r)
    PROVE  ExchangeStep(r)
  <1> DEFINE l == req[r].arg
             t == FirstTokens(l)
             x == [req[r] EXCEPT !.pc = "save", !.token = t]
  <1>1. /\ UNCHANGED <<rows, now, latest, origin>> /\ At(r, "callback", "exchange")
        /\ logins[l].stage = "authenticated"
        /\ req' = [req EXCEPT ![r] = x]
    BY DEF ExchangeGranted
  <1>2. t.tok.fam = l /\ t.tok.gen = 0 /\ t.exp = now + TokenTTL
    BY DEF FirstTokens
  <1> HIDE DEF t
  <1>3. x.pc = "save" /\ x.kind = "callback" /\ x.token = t
    BY <1>1, RequestFacts DEF At, Request
  <1> HIDE DEF x
  <1>4. Hand(x) = [does |-> "saves", id |-> None, d |-> t]
    BY <1>3, HandIs
  <1>5. hand'[r].does = "saves" /\ hand'[r].d = t /\ Others(r)
    <2>1. hand'[r] = Hand(x) /\ Others(r)
      BY <1>1, OneHand
    <2> QED BY <1>4, <2>1
  <1>6. hand[r].does = "none"
    BY <1>1, WhoRenews DEF At, NoHand
  <1> QED BY <1>1, <1>2, <1>5, <1>6 DEF ExchangeStep

\* Save adds the row of a session that was never there.
LEMMA SaveShape ==
    ASSUME Inv, Typed, NEW r \in Requests, Save(r)
    PROVE  SaveStep(r)
  <1>1. PICK i \in SessionIDs :
          /\ origin[i] = None
          /\ origin' = [origin EXCEPT ![i] = req[r].arg]
          /\ rows' = [rows EXCEPT ![i] = Stored(req[r].token)]
          /\ \E code, set : Respond(r, code, set)
    BY SaveWrites
  <1>2. UNCHANGED <<now, latest>> /\ At(r, "callback", "save")
    BY DEF Save
  <1>3. hand[r] = [does |-> "saves", id |-> None, d |-> req[r].token]
    BY <1>2, HandIs DEF At, hand
  <1>4. hand'[r].does = "none" /\ Others(r)
    BY <1>1, RespondHand DEF NoHand
  <1>5. req[r].token.tok.fam = req[r].arg
    BY <1>2, RequestFacts DEF At, RequestInv, CallbackRequest
  <1>6. hand[r].does = "saves" /\ hand[r].d = req[r].token
    BY <1>3
  <1> QED BY <1>1, <1>2, <1>4, <1>5, <1>6 DEF SaveStep

\* Requests come and go with empty hands, and the world does not touch them.
LEMMA WorldQuiet ==
    ASSUME Inv, Typed,
           \/ UNCHANGED vars
           \/ \E r \in Requests, b \in Browsers, kind \in Kinds \ {"none"},
                l, s \in Logins \cup {None} : Send(r, b, kind, l, s)
           \/ \E r \in Requests : Deliver(r)
           \/ \E r \in Requests : LoseResponse(r)
           \/ \E l \in Logins, s \in Subjects : Authenticate(l, s)
           \/ Purge \/ Crash \/ Tick
    PROVE  Quiet
  <1>0. now \in Nat /\ now >= now /\ now + 1 >= now
    BY DEF Typed
  <1>1. CASE UNCHANGED vars
    BY <1>0, <1>1 DEF vars, Quiet, hand
  <1>2. ASSUME NEW r \in Requests, NEW b \in Browsers, NEW kind \in Kinds \ {"none"},
               NEW l \in Logins \cup {None},
               NEW s \in Logins \cup {None}, Send(r, b, kind, l, s)
        PROVE  Quiet
    <2> DEFINE ck == IF jar[b] = None THEN NoValues ELSE [id |-> jar[b].id, st |-> jar[b].st]
               x == [NoRequest EXCEPT !.pc = "start", !.kind = kind, !.br = b,
                      !.arg = l, !.state = s, !.ck = ck]
    <2>1. /\ req' = [req EXCEPT ![r] = x] /\ req[r].pc = "idle"
          /\ UNCHANGED <<rows, now, latest, origin>>
      BY <1>2 DEF Send
    <2>2. x.pc = "start"
      BY DEF NoRequest
    <2> HIDE DEF x
    <2>3. Hand(x) = NoHand
      BY <2>2 DEF Hand
    <2>4. hand[r] = NoHand /\ hand[r].does # "renews"
      BY <2>1, WhoRenews DEF NoHand
    <2> QED BY <2>1, <2>3, <2>4, OneHand, LetGo
  <1>3. ASSUME NEW r \in Requests, Deliver(r) \/ LoseResponse(r) PROVE Quiet
    <2>1. /\ req' = [req EXCEPT ![r] = NoRequest] /\ req[r].pc = "reply"
          /\ UNCHANGED <<rows, now, latest, origin>>
      BY <1>3 DEF Deliver, LoseResponse
    <2>2. Hand(NoRequest) = NoHand
      BY DEF Hand, NoRequest
    <2>3. hand[r] = NoHand /\ hand[r].does # "renews"
      BY <2>1, WhoRenews DEF NoHand
    <2> QED BY <2>1, <2>2, <2>3, OneHand, LetGo
  <1>4. ASSUME NEW l \in Logins, NEW s \in Subjects, Authenticate(l, s) PROVE Quiet
    BY <1>0, <1>4 DEF Authenticate, Quiet, hand
  <1>5. CASE Purge
    <2>1. /\ UNCHANGED <<now, req, latest, origin>>
          /\ \A id \in SessionIDs : rows'[id] = rows[id] \/ rows'[id] = None
      BY <1>5 DEF Purge, PurgeRows
    <2> QED BY <1>0, <2>1 DEF Quiet, hand
  <1>6. CASE Crash
    <2>1. UNCHANGED <<rows, now, latest, origin>> /\ Lossy
      BY <1>6 DEF Crash, Lossy, Losses
    <2>2. ASSUME NEW r \in Requests PROVE hand'[r].does = "none"
      BY <1>6 DEF Crash, hand, Hand, NoRequest, NoHand
    <2> QED BY <1>0, <2>1, <2>2 DEF Quiet
  <1>7. CASE Tick
    BY <1>0, <1>7 DEF Tick, Quiet, hand
  <1> QED BY <1>1, <1>2, <1>3, <1>4, <1>5, <1>6, <1>7

\* Every step has one of the shapes.
LEMMA StepShape ==
    ASSUME Inv, SubjectsInv, [Next]_vars
    PROVE  Shaped
  <1>1. Typed
    BY HandsTyped
  <1>2. ASSUME NEW r \in Requests, HandlerStep(r) PROVE Shaped
    <2>1. CASE RefreshGranted(r) \/ RefreshLost(r)
      BY <1>1, <2>1, RefreshShape DEF Shaped
    <2>2. CASE UpdateWrite(r)
      BY <1>1, <2>2, UpdateWriteShape DEF Shaped
    <2>3. CASE ExchangeGranted(r)
      BY <1>1, <2>3, ExchangeShape DEF Shaped
    <2>4. CASE Save(r)
      BY <1>1, <2>4, SaveShape DEF Shaped
    <2>5. CASE AuthenticationMiddleware(r)
      BY <1>1, <2>5, MiddlewareShape
    <2>6. CASE \/ UpdateGet(r) \/ CheckExpiry(r) \/ LogoutDelete(r)
               \/ CallbackHandlerOidc(r) \/ LogoutHandlerOidc(r)
      BY <1>1, <2>6, UpdateGetQuiet, CheckQuiet, LogoutQuiet, GoingOnQuiet DEF Shaped
    <2>7. CASE \/ ExchangeRefused(r) \/ ExchangeLost(r) \/ RefreshRefused(r)
               \/ CookieUnusable(r) \/ DBError(r) \/ IDTokenInvalid(r)
               \/ LoginHandlerOidc(r) \/ Forward(r) \/ BackendError(r)
      BY <1>1, <2>7, FailuresQuiet DEF Shaped
    <2> QED BY <1>2, <2>1, <2>2, <2>3, <2>4, <2>5, <2>6, <2>7 DEF HandlerStep
  <1>3. CASE \/ UNCHANGED vars
             \/ \E r \in Requests, b \in Browsers, kind \in Kinds \ {"none"},
                  l, s \in Logins \cup {None} : Send(r, b, kind, l, s)
             \/ \E r \in Requests : Deliver(r)
             \/ \E r \in Requests : LoseResponse(r)
             \/ \E l \in Logins, s \in Subjects : Authenticate(l, s)
             \/ Purge \/ Crash \/ Tick
    BY <1>1, <1>3, WorldQuiet DEF Shaped
  <1> QED BY <1>2, <1>3 DEF Next

-----------------------------------------------------------------------------
(* The theorems.                                                           *)

RenewalsInv == Inv /\ RenewalInv /\ SubjectsInv /\ KeptInv

\* Nobody renews anything at the start.
THEOREM InitRenewals == Init => RenewalsInv
  <1> SUFFICES ASSUME Init PROVE RenewalsInv
    OBVIOUS
  <1>1. /\ \A id \in SessionIDs : rows[id] = None /\ origin[id] = None
        /\ \A l \in Logins : latest[l] = 0
    BY DEF Init
  <1>2. ASSUME NEW r \in Requests PROVE hand[r].does = "none"
    BY DEF Init, hand, Hand, NoRequest, NoHand
  <1>3. RenewalInv
    BY <1>1, <1>2 DEF RenewalInv, FamiliesInv, NewestInv, RotationInv
  <1>4. SubjectsInv /\ KeptInv
    BY <1>1, <1>2 DEF SubjectsInv, KeptInv
  <1> QED BY <1>3, <1>4, InitInv DEF RenewalsInv

\* Every step keeps what is known of renewals, whatever fails.
THEOREM NextRenewals == RenewalsInv /\ [Next]_vars => RenewalsInv'
  <1> SUFFICES ASSUME RenewalsInv, [Next]_vars PROVE RenewalsInv'
    OBVIOUS
  <1>1. Inv' /\ Typed
    BY NextInv, HandsTyped DEF RenewalsInv
  <1>2. Typed'
    BY <1>1, HandsTyped, PTL
  <1>3. Shaped
    BY StepShape DEF RenewalsInv
  <1>4. UsersKept
    BY UsersStay DEF UsersKept, RenewalsInv
  <1>5. RenewalInv' /\ SubjectsInv' /\ KeptInv'
    BY <1>1, <1>2, <1>3, <1>4, StepRenewal, StepSubjects, StepKept DEF RenewalsInv
  <1> QED BY <1>1, <1>5 DEF RenewalsInv

\* A code makes one session; no token is newer than the provider's newest or
\* lives longer than one given now; and with a provider that rotates, a request
\* that renews a session is the only one to have its newest tokens, and the row
\* has older ones.  All faults are allowed.
THEOREM Renewals == Spec => []RenewalInv
  <1>1. RenewalsInv => RenewalInv
    BY DEF RenewalsInv
  <1> QED BY <1>1, InitRenewals, NextRenewals, PTL DEF Spec

\* What a request that renews has, and where.
LEMMA RenewerHas ==
    ASSUME NEW r \in Requests, hand[r].does = "renews"
    PROVE  /\ hand[r].id = req[r].ck.id
           /\ \/ req[r].pc = "update" /\ hand[r].d = req[r].token
              \/ req[r].pc = "exec" /\ hand[r].d = req[r].data
  <1>1. hand[r] = Hand(req[r])
    BY DEF hand
  <1> QED BY <1>1 DEF Hand, NoHand

\* With a provider that rotates refresh tokens and answers every call, and with
\* a table and a process that do not fail: the newest refresh token of a live
\* session is in its row, or in the hands of the middleware that is about to
\* write it there.  However many requests renew at once, the session is never
\* left with nothing but refused tokens.
THEOREM NewestKept ==
    ASSUME Rotate, ~Lossy
    PROVE  Spec => []NewestTokenKept
  <1>1. RenewalsInv => NewestTokenKept
    <2> SUFFICES ASSUME RenewalsInv, NEW id \in SessionIDs, rows[id] # None,
                        rows[id].tok.gen # latest[origin[id]]
                 PROVE  \E r \in Requests :
                          /\ req[r].ck.id = id
                          /\ \/ req[r].pc = "update" /\ req[r].token.tok.gen = latest[origin[id]]
                             \/ req[r].pc = "exec" /\ req[r].data.tok.gen = latest[origin[id]]
      BY DEF NewestTokenKept, Exists
    <2>1. PICK r \in Requests : hand[r].does = "renews" /\ hand[r].id = id
      BY DEF RenewalsInv, KeptInv
    <2>2. hand[r].d.tok.gen = latest[origin[id]]
      BY <2>1 DEF RenewalsInv, RenewalInv, RotationInv, Newest
    <2> QED BY <2>1, <2>2, RenewerHas
  <1> QED BY <1>1, InitRenewals, NextRenewals, PTL DEF Spec

\* With a provider that rotates refresh tokens no UPDATE puts back an older
\* token or an earlier expiry, however long the request that runs it was
\* delayed, and whatever fails: nobody else can have renewed in between.
THEOREM NeverStale ==
    ASSUME Rotate
    PROVE  Spec => NoStaleUpdate
  <1>1. RenewalsInv /\ [Next]_vars =>
          [\A id \in SessionIDs : Exists(id) /\ rows'[id] # None =>
             /\ rows'[id].tok.gen >= rows[id].tok.gen
             /\ rows'[id].expiresAt >= rows[id].expiresAt]_vars
    <2> SUFFICES ASSUME RenewalsInv, [Next]_vars, NEW id \in SessionIDs,
                        rows[id] # None, rows'[id] # None
                 PROVE  /\ rows'[id].tok.gen >= rows[id].tok.gen
                        /\ rows'[id].expiresAt >= rows[id].expiresAt
      BY DEF Exists
    <2>1. Shaped /\ Typed
      BY StepShape, HandsTyped DEF RenewalsInv
    <2>2. rows[id].tok.gen \in Nat /\ rows[id].expiresAt \in Int /\ origin[id] \in Logins
      BY <2>1 DEF Typed
    <2>3. ASSUME NEW r \in Requests, SaveStep(r) PROVE rows'[id] = rows[id]
      <3>1. PICK i \in SessionIDs :
              origin[i] = None /\ rows' = [rows EXCEPT ![i] = Stored(hand[r].d)]
        BY <2>3 DEF SaveStep
      <3> QED BY <2>1, <2>2, <3>1, TableAssumption DEF Typed
    <2>4. ASSUME NEW r \in Requests, WriteStep(r), rows'[id] # rows[id]
          PROVE  /\ rows'[id].tok.gen >= rows[id].tok.gen
                 /\ rows'[id].expiresAt >= rows[id].expiresAt
      <3> DEFINE t == hand[r].d
      <3>1. id = hand[r].id /\ rows'[id] = Stored(t) /\ hand[r].does = "renews"
        BY <2>4 DEF WriteStep
      <3>2. rows[id].tok.gen < t.tok.gen /\ rows[id].expiresAt <= Unix(t.exp)
        BY <3>1 DEF RenewalsInv, RenewalInv, RotationInv, Newest
      <3>3. t.tok.gen \in Nat /\ t.exp \in Int
        BY <2>1, <3>1 DEF Typed, HandTyped
      <3>4. Unix(t.exp) \in Int
        BY <3>3, UnixMonotone
      <3>5. rows'[id].tok = t.tok /\ rows'[id].expiresAt = Unix(t.exp)
        BY <3>1, StoredIs
      <3> HIDE DEF t
      <3> QED BY <2>2, <3>2, <3>3, <3>4, <3>5
    <2>5. \/ rows'[id] = rows[id]
          \/ \E r \in Requests : WriteStep(r) \/ SaveStep(r)
      BY <2>1 DEF Shaped, Quiet, ReadStep, GrantStep, ExchangeStep
    <2> QED BY <2>2, <2>3, <2>4, <2>5
  <1> QED BY <1>1, InitRenewals, NextRenewals, PTL DEF Spec, NoStaleUpdate

-----------------------------------------------------------------------------
(* With a provider that does not rotate refresh tokens.                    *)

\* What may fail without a handler that it would concern: answers on their way
\* to the browser, and the process with all of its requests.
Bearable == {"net", "crash"}

\* A middleware whose cookie names a session, and no login under way, has the
\* data of the session, and answers with an error only if the row has gone or
\* the provider will renew the tokens no more.
Served(r) ==
    LET q == req[r]
        id == q.ck.id
    IN  q.kind = "api" /\ id # None /\ q.ck.st = None =>
          /\ q.pc \in ApiPCs => q.data # NoData
          /\ q.pc = "reply" => \/ q.code = "ok"
                               \/ rows[id] = None
                               \/ latest[origin[id]] >= MaxGen

ServedInv == ~Rotate /\ Faults \subseteq Bearable => \A r \in Requests : Served(r)

\* A session that has gone does not come back, and tokens only get newer.
LEMMA GoneStays ==
    ASSUME Typed, Shaped, NEW id \in SessionIDs, origin[id] \in Logins
    PROVE  /\ origin'[id] = origin[id]
           /\ rows[id] = None => rows'[id] = None
           /\ latest[origin[id]] \in Nat /\ latest'[origin[id]] \in Nat
           /\ latest'[origin[id]] >= latest[origin[id]]
  <1>0. latest[origin[id]] \in Nat
    BY DEF Typed
  <1>1. CASE Quiet
    BY <1>0, <1>1 DEF Quiet
  <1>2. ASSUME NEW r \in Requests, ReadStep(r) \/ ExchangeStep(r)
        PROVE  rows' = rows /\ latest' = latest /\ origin' = origin
    BY <1>2 DEF ReadStep, ExchangeStep
  <1>3. ASSUME NEW r \in Requests, GrantStep(r)
        PROVE  /\ rows' = rows /\ origin' = origin
               /\ latest'[origin[id]] \in Nat /\ latest'[origin[id]] >= latest[origin[id]]
    <2> DEFINE l == origin[hand[r].id]
    <2>1. rows' = rows /\ origin' = origin /\ latest' = [latest EXCEPT ![l] = @ + 1]
      BY <1>3 DEF GrantStep
    <2> HIDE DEF l
    <2> QED BY <1>0, <2>1 DEF Typed
  <1>4. ASSUME NEW r \in Requests, WriteStep(r)
        PROVE  latest' = latest /\ origin' = origin /\ (rows[id] = None => rows'[id] = None)
    BY <1>4 DEF WriteStep
  <1>5. ASSUME NEW r \in Requests, SaveStep(r)
        PROVE  latest' = latest /\ origin'[id] = origin[id] /\ rows'[id] = rows[id]
    <2>1. PICK i \in SessionIDs :
            /\ origin[i] = None /\ origin' = [origin EXCEPT ![i] = hand[r].d.tok.fam]
            /\ rows' = [rows EXCEPT ![i] = Stored(hand[r].d)]
      BY <1>5 DEF SaveStep
    <2>2. id # i
      BY <2>1, TableAssumption
    <2> QED BY <1>5, <2>1, <2>2 DEF SaveStep, Typed
  <1> QED BY <1>0, <1>1, <1>2, <1>3, <1>4, <1>5 DEF Shaped

\* A request that does not move stays served.
LEMMA SameServed ==
    ASSUME Inv, Typed, Shaped, NEW q \in Requests, Served(q), req'[q] = req[q]
    PROVE  Served(q)'
  <1> DEFINE id == req[q].ck.id
  <1>1. SUFFICES ASSUME req[q].kind = "api", id # None, req[q].ck.st = None
                 PROVE  /\ req[q].pc \in ApiPCs => req[q].data # NoData
                        /\ req[q].pc = "reply" => \/ req[q].code = "ok"
                                                  \/ rows'[id] = None
                                                  \/ latest'[origin'[id]] >= MaxGen
    BY DEF Served
  <1>2. ASSUME req[q].pc = "reply" PROVE id \in SessionIDs /\ origin[id] \in Logins
    <2>1. req[q] \in Request /\ RequestInv(q)
      BY RequestFacts
    <2> QED BY <1>1, <1>2, <2>1 DEF Request, Values, RequestInv, Belongs, Typed
  <1>3. ASSUME req[q].pc = "reply"
        PROVE \/ req[q].code = "ok" \/ rows'[id] = None \/ latest'[origin'[id]] >= MaxGen
    <2>2. origin'[id] = origin[id] /\ (rows[id] = None => rows'[id] = None)
      BY <1>2, <1>3, GoneStays
    <2>3. \/ req[q].code = "ok" \/ rows[id] = None \/ latest[origin[id]] >= MaxGen
      BY <1>1, <1>3 DEF Served
    <2>4. MaxGen \in Nat /\ latest[origin[id]] \in Nat /\ latest'[origin[id]] \in Nat
          /\ latest'[origin[id]] >= latest[origin[id]]
      BY <1>2, <1>3, GoneStays, HandlerAssumption
    <2> QED BY <2>2, <2>3, <2>4
  <1> QED BY <1>1, <1>3 DEF Served

\* What an answer leaves of the request.
LEMMA RespondIs ==
    ASSUME Inv, NEW r \in Requests, NEW code, NEW set, Respond(r, code, set)
    PROVE  /\ req'[r].kind = req[r].kind /\ req'[r].ck = req[r].ck
           /\ req'[r].pc = "reply" /\ req'[r].code = code
           /\ \A q \in Requests : q # r => req'[q] = req[q]
  <1> DEFINE x == [req[r] EXCEPT !.pc = "reply", !.code = code, !.set = set,
                                 !.data = NoData, !.token = None]
  <1>1. x.kind = req[r].kind /\ x.ck = req[r].ck /\ x.pc = "reply" /\ x.code = code
    BY RequestFacts DEF Request
  <1>2. req' = [req EXCEPT ![r] = x]
    BY DEF Respond
  <1> HIDE DEF x
  <1> QED BY <1>1, <1>2 DEF Inv, TypeOK

\* The middleware finds the session of the cookie if its row is there.
LEMMA MiddlewareServed ==
    ASSUME Inv, NEW r \in Requests, AuthenticationMiddleware(r)
    PROVE  Served(r)' /\ \A q \in Requests : q # r => req'[q] = req[q]
  <1> DEFINE ck == req[r].ck
             s == GetSession(ck)
  <1>1. /\ UNCHANGED <<rows, latest, origin>> /\ req[r].kind = "api"
        /\ req[r] \in Request
    BY RequestFacts DEF AuthenticationMiddleware, At
  <1>2. CASE s.err # "none"
    <2>1. Respond(r, "unauthorized", None)
      BY <1>2 DEF AuthenticationMiddleware
    <2>2. ASSUME ck.id # None, ck.st = None PROVE rows[ck.id] = None
      BY <1>2, <2>2 DEF GetSession, dataFromDB, Exists
    <2>3. /\ req'[r].ck = ck /\ req'[r].pc = "reply"
          /\ \A q \in Requests : q # r => req'[q] = req[q]
      BY <2>1, RespondIs
    <2> HIDE DEF ck
    <2> QED BY <1>1, <2>2, <2>3 DEF Served, ApiPCs
  <1>3. CASE s.err = "none"
    <2> DEFINE x == [req[r] EXCEPT !.pc = "check", !.data = s.data]
    <2>1. req' = [req EXCEPT ![r] = x]
      BY <1>3 DEF AuthenticationMiddleware
    <2>2. x.pc = "check" /\ x.kind = req[r].kind /\ x.data = s.data /\ x.ck = req[r].ck
      BY <1>1 DEF Request
    <2>3. ASSUME ck.id # None, ck.st = None PROVE s.data # NoData
      <3>1. s.data = Loaded(rows[ck.id]) /\ rows[ck.id] # None
        BY <1>3, <2>3 DEF GetSession, dataFromDB, Exists, Get
      <3>2. rows[ck.id] \in Row
        BY <1>1, <2>3, <3>1 DEF Request, Values, Inv, TypeOK
      <3>3. s.data.tok \in Token
        BY <3>1, <3>2 DEF Loaded, Row
      <3> QED BY <3>3, TableAssumption DEF NoData
    <2> HIDE DEF x, s
    <2>4. /\ req'[r].ck = ck /\ req'[r].pc = "check" /\ req'[r].data = s.data
          /\ \A q \in Requests : q # r => req'[q] = req[q]
      BY <2>1, <2>2 DEF Inv, TypeOK
    <2> QED BY <2>3, <2>4 DEF Served, ApiPCs
  <1> QED BY <1>2, <1>3

\* The provider refuses only what it will not renew again.
LEMMA RefusedServed ==
    ASSUME Inv, ~Rotate, Faults \subseteq Bearable, NEW r \in Requests, Served(r),
           RefreshRefused(r)
    PROVE  Served(r)' /\ \A q \in Requests : q # r => req'[q] = req[q]
  <1> DEFINE id == req[r].ck.id
             d == req[r].data
  <1>1. /\ UNCHANGED <<rows, latest, origin>> /\ At(r, "api", "refresh")
        /\ Respond(r, "unauthorized", None)
    BY DEF RefreshRefused
  <1>2. /\ req'[r].kind = "api" /\ req'[r].ck = req[r].ck /\ req'[r].pc = "reply"
        /\ \A q \in Requests : q # r => req'[q] = req[q]
    BY <1>1, RespondIs DEF At
  <1>3. "idp" \notin Faults
    BY DEF Bearable
  <1>4. ~Renewable(d.tok)
    BY <1>3 DEF RefreshRefused
  <1>5. ASSUME id # None, req[r].ck.st = None PROVE latest[origin[id]] >= MaxGen
    <2>1. d # NoData
      BY <1>1, <1>5 DEF Served, At, ApiPCs
    <2>2. d.tok # None /\ d.tok.fam = origin[id]
      BY <1>1, <2>1, RequestFacts DEF At, RequestInv, ApiRequest, ApiPCs
    <2>3. latest[origin[id]] \in Nat
      <3>1. d.tok.fam \in Logins
        BY <1>1, <2>2, RefreshFacts
      <3> QED BY <2>2, <3>1 DEF Inv, TypeOK
    <2>4. ~(latest[origin[id]] < MaxGen)
      BY <1>4, <2>2 DEF Renewable
    <2> HIDE DEF d
    <2> QED BY <2>3, <2>4, HandlerAssumption
  <1> HIDE DEF id
  <1>6. req'[r].ck.id = id
    BY <1>2 DEF id
  <1> QED BY <1>1, <1>2, <1>5, <1>6 DEF Served, ApiPCs

\* Update fails only if the row has gone.
LEMMA UpdateGetServed ==
    ASSUME Inv, SubjectsInv, Faults \subseteq Bearable, NEW r \in Requests, UpdateGet(r)
    PROVE  Served(r)' /\ \A q \in Requests : q # r => req'[q] = req[q]
  <1> DEFINE id == req[r].ck.id
             t == req[r].token
  <1>1. /\ UNCHANGED <<rows, latest, origin>> /\ At(r, "api", "update")
        /\ req[r] \in Request
    BY RequestFacts DEF UpdateGet
  <1>2. newData(t) = t /\ t \in Answer
    BY <1>1, TokenInHand
  <1>3. CASE ~UpdateCheck(id, t)
    <2>1. Respond(r, "error", None)
      BY <1>2, <1>3 DEF UpdateGet
    <2>2. /\ req'[r].kind = "api" /\ req'[r].ck = req[r].ck /\ req'[r].pc = "reply"
          /\ \A q \in Requests : q # r => req'[q] = req[q]
      BY <1>1, <2>1, RespondIs DEF At
    <2>3. "subject" \notin Faults
      BY DEF Bearable
    <2>4. hand[r] = [does |-> "renews", id |-> id, d |-> t]
      BY <1>1, HandIs DEF At, hand
    <2>5. t.sub = logins[origin[id]].sub
      BY <2>3, <2>4 DEF SubjectsInv
    <2>6. ASSUME id # None PROVE rows[id] = None
      <3>1. id \in SessionIDs
        BY <1>1, <2>6 DEF Request, Values
      <3>2. SUFFICES ASSUME rows[id] # None PROVE FALSE
        OBVIOUS
      <3>3. rows[id].sub = logins[origin[id]].sub
        BY <3>1, <3>2 DEF Inv, OwnershipInv, RowsInv
      <3> QED BY <1>3, <2>5, <3>2, <3>3 DEF UpdateCheck, Exists, Get, Loaded
    <2> HIDE DEF id
    <2>7. req'[r].ck.id = id
      BY <2>2 DEF id
    <2> QED BY <1>1, <2>2, <2>6, <2>7 DEF Served, ApiPCs
  <1>4. CASE UpdateCheck(id, t)
    <2> DEFINE x == [req[r] EXCEPT !.pc = "exec", !.data = t, !.token = None]
    <2>1. req' = [req EXCEPT ![r] = x]
      BY <1>2, <1>4 DEF UpdateGet
    <2>2. x.pc = "exec" /\ x.kind = req[r].kind /\ x.data = t /\ x.ck = req[r].ck
      BY <1>1 DEF Request
    <2>3. t # NoData
      BY <1>2, TableAssumption DEF Answer, NoData
    <2> HIDE DEF x
    <2>4. /\ req'[r].pc = "exec" /\ req'[r].data = t
          /\ \A q \in Requests : q # r => req'[q] = req[q]
      BY <2>1, <2>2 DEF Inv, TypeOK
    <2> QED BY <2>3, <2>4 DEF Served, ApiPCs
  <1> QED BY <1>3, <1>4

\* The steps on which a middleware that has data keeps them.
LEMMA OnwardServed ==
    ASSUME Inv, Faults \subseteq Bearable, NEW r \in Requests, Served(r),
           CheckExpiry(r) \/ RefreshGranted(r) \/ UpdateWrite(r)
    PROVE  Served(r)' /\ \A q \in Requests : q # r => req'[q] = req[q]
  <1>1. req[r] \in Request /\ req[r].kind = "api" /\ req[r].pc \in ApiPCs
    BY RequestFacts DEF CheckExpiry, RefreshGranted, UpdateWrite, At, ApiPCs
  <1>2. PICK x : /\ req' = [req EXCEPT ![r] = x] /\ x.kind = req[r].kind /\ x.ck = req[r].ck
                 /\ x.data = req[r].data /\ x.pc # "reply"
    <2>1. CASE CheckExpiry(r)
      <3>1. PICK pc \in {"refresh", "forward"} : Goto(r, pc)
        BY <2>1 DEF CheckExpiry
      <3> WITNESS [req[r] EXCEPT !.pc = pc]
      <3> QED BY <1>1, <3>1 DEF Goto, Request
    <2>2. CASE RefreshGranted(r)
      <3>1. PICK t : req' = [req EXCEPT ![r] = [@ EXCEPT !.pc = "update", !.token = t]]
        BY <2>2 DEF RefreshGranted
      <3> WITNESS [req[r] EXCEPT !.pc = "update", !.token = t]
      <3> QED BY <1>1, <3>1 DEF Request
    <2>3. CASE UpdateWrite(r)
      <3>1. "cookie" \notin Faults
        BY DEF Bearable
      <3>2. PICK set : req' = [req EXCEPT ![r] = [@ EXCEPT !.pc = "forward", !.set = set]]
        BY <2>3, <3>1 DEF UpdateWrite
      <3> WITNESS [req[r] EXCEPT !.pc = "forward", !.set = set]
      <3> QED BY <1>1, <3>2 DEF Request
    <2> QED BY <2>1, <2>2, <2>3
  <1>3. /\ req'[r].kind = "api" /\ req'[r].ck = req[r].ck /\ req'[r].data = req[r].data
        /\ req'[r].pc # "reply"
        /\ \A q \in Requests : q # r => req'[q] = req[q]
    BY <1>1, <1>2 DEF Inv, TypeOK
  <1> QED BY <1>1, <1>3 DEF Served

\* Other handlers do not serve sessions, and nothing else fails.
LEMMA OthersServed ==
    ASSUME Inv, Faults \subseteq Bearable, NEW r \in Requests, HandlerStep(r),
           ~AuthenticationMiddleware(r), ~RefreshRefused(r), ~UpdateGet(r),
           ~CheckExpiry(r), ~RefreshGranted(r), ~UpdateWrite(r)
    PROVE  Served(r)' /\ \A q \in Requests : q # r => req'[q] = req[q]
  <1>1. Faults \cap {"lost", "backend", "cookie", "db", "idtoken"} = {}
    BY DEF Bearable
  <1>2. \/ LoginHandlerOidc(r) \/ CallbackHandlerOidc(r) \/ ExchangeGranted(r)
        \/ ExchangeRefused(r) \/ Save(r) \/ LogoutHandlerOidc(r) \/ LogoutDelete(r)
        \/ Forward(r)
    BY <1>1 DEF HandlerStep, ExchangeLost, RefreshLost, BackendError, CookieUnusable,
       DBError, IDTokenInvalid
  <1>3. CASE Forward(r)
    <2>1. Respond(r, "ok", req[r].set)
      BY <1>3 DEF Forward
    <2>2. /\ req'[r].pc = "reply" /\ req'[r].code = "ok"
          /\ \A q \in Requests : q # r => req'[q] = req[q]
      BY <2>1, RespondIs
    <2> QED BY <2>2 DEF Served, ApiPCs
  <1>4. CASE ~Forward(r)
    <2>1. req[r].kind # "api"
      BY <1>2, <1>4 DEF LoginHandlerOidc, CallbackHandlerOidc, ExchangeGranted,
         ExchangeRefused, Save, LogoutHandlerOidc, LogoutDelete, At
    <2>2. \/ \E code, set : Respond(r, code, set)
          \/ Goto(r, "exchange") \/ Goto(r, "delete")
          \/ ExchangeGranted(r)
      BY <1>2, <1>4 DEF LoginHandlerOidc, CallbackHandlerOidc, ExchangeRefused, Save,
         SaveCookie, LogoutHandlerOidc, LogoutDelete
    <2>3. req'[r].kind = req[r].kind /\ \A q \in Requests : q # r => req'[q] = req[q]
      <3>1. CASE \E code, set : Respond(r, code, set)
        BY <3>1, RespondIs
      <3>2. CASE Goto(r, "exchange") \/ Goto(r, "delete") \/ ExchangeGranted(r)
        <4>0. req[r] \in Request
          BY RequestFacts
        <4>1. PICK x : req' = [req EXCEPT ![r] = x] /\ x.kind = req[r].kind
          <5>1. CASE Goto(r, "exchange") \/ Goto(r, "delete")
            <6>1. PICK pc : Goto(r, pc)
              BY <5>1
            <6> WITNESS [req[r] EXCEPT !.pc = pc]
            <6> QED BY <4>0, <6>1 DEF Goto, Request
          <5>2. CASE ExchangeGranted(r)
            <6>1. PICK t : req' = [req EXCEPT ![r] = [@ EXCEPT !.pc = "save", !.token = t]]
              BY <5>2 DEF ExchangeGranted
            <6> WITNESS [req[r] EXCEPT !.pc = "save", !.token = t]
            <6> QED BY <4>0, <6>1 DEF Request
          <5> QED BY <3>2, <5>1, <5>2
        <4> QED BY <4>1 DEF Inv, TypeOK
      <3> QED BY <2>2, <3>1, <3>2
    <2> QED BY <2>1, <2>3 DEF Served
  <1> QED BY <1>3, <1>4

\* Every step keeps the requests served.
LEMMA StepServed ==
    ASSUME RenewalsInv, ServedInv, [Next]_vars
    PROVE  ServedInv'
  <1>1. SUFFICES ASSUME ~Rotate, Faults \subseteq Bearable PROVE \A q \in Requests : Served(q)'
    BY DEF ServedInv
  <1>2. Inv /\ SubjectsInv /\ Typed /\ Shaped
    BY HandsTyped, StepShape DEF RenewalsInv
  <1>3. \A q \in Requests : Served(q)
    BY <1>1 DEF ServedInv
  <1>4. ASSUME NEW q \in Requests, req'[q] = req[q] PROVE Served(q)'
    BY <1>2, <1>3, <1>4, SameServed
  <1>5. ASSUME NEW r \in Requests, HandlerStep(r)
        PROVE  Served(r)' /\ \A q \in Requests : q # r => req'[q] = req[q]
    <2>1. CASE AuthenticationMiddleware(r)
      BY <1>2, <2>1, MiddlewareServed
    <2>2. CASE RefreshRefused(r)
      BY <1>1, <1>2, <1>3, <2>2, RefusedServed
    <2>3. CASE UpdateGet(r)
      BY <1>1, <1>2, <2>3, UpdateGetServed
    <2>4. CASE CheckExpiry(r) \/ RefreshGranted(r) \/ UpdateWrite(r)
      BY <1>1, <1>2, <1>3, <2>4, OnwardServed
    <2> QED BY <1>1, <1>2, <1>5, <2>1, <2>2, <2>3, <2>4, OthersServed
  <1>6. ASSUME NEW r \in Requests, NEW b \in Browsers, NEW kind \in Kinds \ {"none"},
               NEW l \in Logins \cup {None},
               NEW s \in Logins \cup {None}, Send(r, b, kind, l, s)
        PROVE  Served(r)' /\ \A q \in Requests : q # r => req'[q] = req[q]
    <2> DEFINE ck == IF jar[b] = None THEN NoValues ELSE [id |-> jar[b].id, st |-> jar[b].st]
               x == [NoRequest EXCEPT !.pc = "start", !.kind = kind, !.br = b,
                      !.arg = l, !.state = s, !.ck = ck]
    <2>1. req' = [req EXCEPT ![r] = x]
      BY <1>6 DEF Send
    <2>2. x.pc = "start"
      BY DEF NoRequest
    <2> HIDE DEF x
    <2>3. req'[r].pc = "start" /\ \A q \in Requests : q # r => req'[q] = req[q]
      BY <1>2, <2>1, <2>2 DEF Inv, TypeOK
    <2> QED BY <2>3 DEF Served, ApiPCs
  <1>7. ASSUME NEW r \in Requests, Deliver(r) \/ LoseResponse(r)
        PROVE  Served(r)' /\ \A q \in Requests : q # r => req'[q] = req[q]
    <2>1. req' = [req EXCEPT ![r] = NoRequest]
      BY <1>7 DEF Deliver, LoseResponse
    <2>2. req'[r] = NoRequest /\ \A q \in Requests : q # r => req'[q] = req[q]
      BY <1>2, <2>1 DEF Inv, TypeOK
    <2>3. NoRequest.kind = "none"
      BY DEF NoRequest
    <2> QED BY <2>2, <2>3 DEF Served
  <1>8. CASE Crash
    <2>1. \A q \in Requests : req'[q].kind = "none"
      BY <1>8 DEF Crash, NoRequest
    <2> QED BY <2>1 DEF Served
  <1>9. CASE req' = req
    BY <1>4, <1>9
  <1>10. \/ req' = req \/ Crash
         \/ \E r \in Requests : HandlerStep(r)
         \/ \E r \in Requests, b \in Browsers, kind \in Kinds \ {"none"},
              l, s \in Logins \cup {None} : Send(r, b, kind, l, s)
         \/ \E r \in Requests : Deliver(r) \/ LoseResponse(r)
    BY DEF Next, vars, Authenticate, Purge, Tick
  <1> QED BY <1>4, <1>5, <1>6, <1>7, <1>8, <1>9, <1>10

\* With a provider that does not rotate refresh tokens, and nothing failing but
\* the way to the browser and the process as a whole: a request whose cookie
\* names a session that is still there when it is answered is served, expired
\* access token or not, and whatever other requests renewed meanwhile, as long
\* as the provider renews the tokens at all.
THEOREM LiveServed ==
    ASSUME ~Rotate, Faults \subseteq Bearable
    PROVE  Spec => []LiveSessionServed
  <1>1. Init => ServedInv
    BY DEF Init, ServedInv, Served, NoRequest
  <1>2. RenewalsInv /\ ServedInv => LiveSessionServed
    <2> SUFFICES ASSUME RenewalsInv, ServedInv, NEW r \in Requests,
                        At(r, "api", "reply"), req[r].ck.id # None, req[r].ck.st = None,
                        rows[req[r].ck.id] # None, latest[origin[req[r].ck.id]] < MaxGen
                 PROVE  req[r].code = "ok"
      BY DEF LiveSessionServed, Exists
    <2> DEFINE id == req[r].ck.id
    <2>1. id \in SessionIDs /\ latest[origin[id]] \in Nat
      <3>1. id \in SessionIDs
        BY RequestFacts DEF RenewalsInv, Request, Values
      <3>2. Typed
        BY HandsTyped DEF RenewalsInv
      <3> QED BY <3>1, <3>2 DEF Typed
    <2>2. ~(latest[origin[id]] >= MaxGen)
      BY <2>1, HandlerAssumption
    <2>3. \/ req[r].code = "ok" \/ rows[id] = None \/ latest[origin[id]] >= MaxGen
      BY DEF ServedInv, Served, At
    <2> QED BY <2>2, <2>3
  <1> QED BY <1>1, <1>2, InitRenewals, NextRenewals, StepServed, PTL DEF Spec

=============================================================================
