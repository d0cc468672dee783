------------------------- MODULE RequestLoggerProofs -------------------------
(* Theorems about RequestLogger, for any number of requests, of any kinds and *)
(* interleaved word by word.                                                  *)
EXTENDS RequestLogger, SequenceTheorems, TLAPS

-----------------------------------------------------------------------------
(* Instructions and programs.                                              *)

ErrFields == {"lastErr", "lastErrDescription"}
Words == {1, 2}

\* The instructions of request r: it writes its own values, or none.
Own(r) ==
    [op : {"set", "get"}, field : Fields, word : Words, value : {r, None}]
        \cup [op : {"header"}, code : Codes] \cup [op : {"log"}]

Sets(i, f, w) == i.op = "set" /\ i.field = f /\ i.word = w
Gets(i, f, w) == i.op = "get" /\ i.field = f /\ i.word = w
Fails(i) == i.op = "header" /\ i.code \in {500, 502}

\* In program p every error that is set is cleaned afterwards,
Cleans(p, f, w) == \E j \in DOMAIN p : Sets(p[j], f, w) /\ p[j].value = None
Tidy(p) ==
    \A i \in DOMAIN p, f \in ErrFields, w \in Words :
        Sets(p[i], f, w) /\ p[i].value # None =>
            \E j \in DOMAIN p : j > i /\ Sets(p[j], f, w) /\ p[j].value = None

\* after the entry is written there are only writes,
LogsLast(p) ==
    \A i \in DOMAIN p : p[i].op = "log" => \A j \in DOMAIN p : j > i => p[j].op = "set"

\* and after a status that tells of an error the error is read.
ReadsErrors(p) ==
    \A i \in DOMAIN p : Fails(p[i]) =>
        \A f \in ErrFields, w \in Words : \E j \in DOMAIN p : j > i /\ Gets(p[j], f, w)

\* The word w of f will be v when p gets to i, if it is x now and nobody else
\* runs: the last write before i, if there is one, is of v.
Holds(p, i, f, w, v, x) ==
    /\ \A j \in DOMAIN p : j < i /\ Sets(p[j], f, w) => p[j].value = v
    /\ x = v \/ \E j \in DOMAIN p : j < i /\ Sets(p[j], f, w)

\* What a program in its middle is left with: the index moves by one.
LEMMA TailShift ==
    ASSUME NEW S, NEW p \in Seq(S), p # <<>>
    PROVE  /\ Tail(p) \in Seq(S) /\ Head(p) = p[1] /\ 1 \in DOMAIN p
           /\ DOMAIN p = 1 .. Len(p) /\ Len(p) \in Nat
           /\ DOMAIN Tail(p) = 1 .. Len(p) - 1
           /\ \A i \in DOMAIN Tail(p) : i + 1 \in DOMAIN p /\ Tail(p)[i] = p[i + 1]
           /\ \A i \in DOMAIN p : i > 1 => i - 1 \in DOMAIN Tail(p) /\ p[i] = Tail(p)[i - 1]
  OBVIOUS

\* Where the instructions of two pieces of a program are.
LEMMA ConcatShift ==
    ASSUME NEW S, NEW a \in Seq(S), NEW b \in Seq(S)
    PROVE  /\ a \o b \in Seq(S)
           /\ DOMAIN a = 1 .. Len(a) /\ DOMAIN b = 1 .. Len(b)
           /\ DOMAIN (a \o b) = 1 .. Len(a) + Len(b)
           /\ Len(a) \in Nat /\ Len(b) \in Nat
           /\ \A i \in DOMAIN a : i \in DOMAIN (a \o b) /\ (a \o b)[i] = a[i]
           /\ \A i \in DOMAIN b : Len(a) + i \in DOMAIN (a \o b) /\ (a \o b)[Len(a) + i] = b[i]
           /\ \A i \in DOMAIN (a \o b) :
                \/ i \in DOMAIN a /\ (a \o b)[i] = a[i]
                \/ i > Len(a) /\ i - Len(a) \in DOMAIN b /\ (a \o b)[i] = b[i - Len(a)]
  OBVIOUS

\* Set writes both words, in order.
LEMMA SetIs ==
    ASSUME NEW r, NEW v \in {r, None}, NEW f \in Fields
    PROVE  /\ Set(f, v) \in Seq(Own(r)) /\ Len(Set(f, v)) = 2 /\ DOMAIN Set(f, v) = 1 .. 2
           /\ \A i \in 1 .. 2 : Sets(Set(f, v)[i], f, i) /\ Set(f, v)[i].value = v
  <1>1. \A w \in 1 .. 2 : [op |-> "set", field |-> f, word |-> w, value |-> v] \in Own(r)
    BY DEF Own, Words
  <1>2. Set(f, v) \in Seq(Own(r)) /\ Len(Set(f, v)) = 2 /\ DOMAIN Set(f, v) = 1 .. 2
    BY <1>1 DEF Set
  <1>3. \A i \in 1 .. 2 : Sets(Set(f, v)[i], f, i) /\ Set(f, v)[i].value = v
    BY DEF Set, Sets
  <1> QED BY <1>2, <1>3

\* And Read reads both.
LEMMA ReadIs ==
    ASSUME NEW r, NEW f \in Fields
    PROVE  /\ Read(f) \in Seq(Own(r)) /\ Len(Read(f)) = 2 /\ DOMAIN Read(f) = 1 .. 2
           /\ \A i \in 1 .. 2 : Gets(Read(f)[i], f, i)
  <1>1. \A w \in 1 .. 2 : [op |-> "get", field |-> f, word |-> w, value |-> None] \in Own(r)
    BY DEF Own, Words
  <1>2. Read(f) \in Seq(Own(r)) /\ Len(Read(f)) = 2 /\ DOMAIN Read(f) = 1 .. 2
    BY <1>1 DEF Read
  <1>3. \A i \in 1 .. 2 : Gets(Read(f)[i], f, i)
    BY DEF Read, Gets
  <1> QED BY <1>2, <1>3

\* A status is written at once.
LEMMA HeaderIs ==
    ASSUME NEW r, NEW code \in Codes
    PROVE  /\ Header(code) \in Seq(Own(r)) /\ Len(Header(code)) = 1
           /\ DOMAIN Header(code) = {1}
           /\ Header(code)[1].op = "header" /\ Header(code)[1].code = code
  BY DEF Header, Own

-----------------------------------------------------------------------------
(* The pieces of Middleware.                                               *)

\* Writes of v to the fields of F, every word of them, and nothing else.
Writes(r, s, F, v) ==
    /\ s \in Seq(Own(r))
    /\ \A i \in DOMAIN s : s[i].op = "set" /\ s[i].field \in F /\ s[i].value = v
    /\ \A f \in F, w \in Words : \E i \in DOMAIN s : Sets(s[i], f, w)

\* Reads of the fields of F, every word of them, and nothing else.
Reads(r, s, F) ==
    /\ s \in Seq(Own(r))
    /\ \A i \in DOMAIN s : s[i].op = "get"
    /\ \A f \in F, w \in Words : \E i \in DOMAIN s : Gets(s[i], f, w)

\* FromContext, SetError and Clean are two fields written.
LEMMA TwoSets ==
    ASSUME NEW r, NEW v \in {r, None}, NEW f \in Fields, NEW g \in Fields
    PROVE  Writes(r, Set(f, v) \o Set(g, v), {f, g}, v)
  <1> DEFINE a == Set(f, v)  b == Set(g, v)
  <1>1. /\ a \in Seq(Own(r)) /\ Len(a) = 2 /\ DOMAIN a = 1 .. 2
        /\ \A i \in 1 .. 2 : Sets(a[i], f, i) /\ a[i].value = v
    BY SetIs
  <1>2. /\ b \in Seq(Own(r)) /\ Len(b) = 2 /\ DOMAIN b = 1 .. 2
        /\ \A i \in 1 .. 2 : Sets(b[i], g, i) /\ b[i].value = v
    BY SetIs
  <1> HIDE DEF a, b
  <1> DEFINE s == a \o b
  <1>3. /\ s \in Seq(Own(r))
        /\ \A i \in DOMAIN a : i \in DOMAIN s /\ s[i] = a[i]
        /\ \A i \in DOMAIN b : 2 + i \in DOMAIN s /\ s[2 + i] = b[i]
        /\ \A i \in DOMAIN s : \/ i \in DOMAIN a /\ s[i] = a[i]
                               \/ i - 2 \in DOMAIN b /\ s[i] = b[i - 2]
    <2>1. /\ s \in Seq(Own(r))
          /\ \A i \in DOMAIN a : i \in DOMAIN s /\ s[i] = a[i]
          /\ \A i \in DOMAIN b : Len(a) + i \in DOMAIN s /\ s[Len(a) + i] = b[i]
          /\ \A i \in DOMAIN s : \/ i \in DOMAIN a /\ s[i] = a[i]
                                 \/ i - Len(a) \in DOMAIN b /\ s[i] = b[i - Len(a)]
      <3>1. a \in Seq(Own(r)) /\ b \in Seq(Own(r))
        BY <1>1, <1>2
      <3> QED BY <3>1, ConcatShift
    <2> QED BY <1>1, <2>1
  <1> HIDE DEF s
  <1>4. \A i \in DOMAIN s : s[i].op = "set" /\ s[i].field \in {f, g} /\ s[i].value = v
    BY <1>1, <1>2, <1>3 DEF Sets
  <1>5. \A h \in {f, g}, w \in Words : \E i \in DOMAIN s : Sets(s[i], h, w)
    <2>1. ASSUME NEW w \in Words
          PROVE  /\ w \in DOMAIN s /\ Sets(s[w], f, w)
                 /\ 2 + w \in DOMAIN s /\ Sets(s[2 + w], g, w)
      BY <1>1, <1>2, <1>3 DEF Words
    <2> QED BY <2>1
  <1> QED BY <1>3, <1>4, <1>5 DEF Writes, s, a, b

\* Two pieces that only read make one that does.
LEMMA ReadsConcat ==
    ASSUME NEW r, NEW a, NEW b, NEW F, NEW G, Reads(r, a, F), Reads(r, b, G)
    PROVE  Reads(r, a \o b, F \cup G)
  <1> DEFINE s == a \o b
  <1>1. a \in Seq(Own(r)) /\ b \in Seq(Own(r))
    BY DEF Reads
  <1>2. /\ s \in Seq(Own(r))
        /\ \A i \in DOMAIN a : i \in DOMAIN s /\ s[i] = a[i]
        /\ \A i \in DOMAIN b : Len(a) + i \in DOMAIN s /\ s[Len(a) + i] = b[i]
        /\ \A i \in DOMAIN s : \/ i \in DOMAIN a /\ s[i] = a[i]
                               \/ i - Len(a) \in DOMAIN b /\ s[i] = b[i - Len(a)]
    BY <1>1, ConcatShift
  <1> HIDE DEF s
  <1>3. \A i \in DOMAIN s : s[i].op = "get"
    BY <1>2 DEF Reads
  <1>4. \A f \in F \cup G, w \in Words : \E i \in DOMAIN s : Gets(s[i], f, w)
    <2>1. \A f \in F, w \in Words : \E i \in DOMAIN s : Gets(s[i], f, w)
      BY <1>2 DEF Reads
    <2>2. \A f \in G, w \in Words : \E i \in DOMAIN s : Gets(s[i], f, w)
      BY <1>2 DEF Reads
    <2> QED BY <2>1, <2>2
  <1> QED BY <1>2, <1>3, <1>4 DEF Reads, s

\* The entry reads every word of every field, and is written at the end.
LEMMA LogEntryIs ==
    ASSUME NEW r
    PROVE  /\ LogEntry \in Seq(Own(r))
           /\ \A i \in DOMAIN LogEntry : LogEntry[i].op \in {"get", "log"}
           /\ \A i \in DOMAIN LogEntry : LogEntry[i].op = "log" => i = Len(LogEntry)
           /\ \A f \in Fields, w \in Words : \E i \in DOMAIN LogEntry : Gets(LogEntry[i], f, w)
  <1>1. \A f \in Fields : Reads(r, Read(f), {f})
    <2>1. SUFFICES ASSUME NEW f \in Fields PROVE Reads(r, Read(f), {f})
      OBVIOUS
    <2>2. /\ Read(f) \in Seq(Own(r)) /\ DOMAIN Read(f) = 1 .. 2
          /\ \A i \in 1 .. 2 : Gets(Read(f)[i], f, i)
      BY ReadIs
    <2>3. \A w \in Words : w \in DOMAIN Read(f) /\ Gets(Read(f)[w], f, w)
      BY <2>2 DEF Words
    <2> QED BY <2>2, <2>3 DEF Reads, Gets
  <1> DEFINE a == Read("traceID") \o Read("spanID") \o Read("lastErr") \o Read("lastErrDescription")
             b == <<[op |-> "log"]>>
  <1>2. Reads(r, a, Fields)
    <2>1. Reads(r, Read("traceID") \o Read("spanID"), {"traceID"} \cup {"spanID"})
      BY <1>1, ReadsConcat DEF Fields
    <2>2. Reads(r, Read("traceID") \o Read("spanID") \o Read("lastErr"),
                ({"traceID"} \cup {"spanID"}) \cup {"lastErr"})
      BY <1>1, <2>1, ReadsConcat DEF Fields
    <2>3. Reads(r, a, (({"traceID"} \cup {"spanID"}) \cup {"lastErr"}) \cup {"lastErrDescription"})
      BY <1>1, <2>2, ReadsConcat DEF Fields
    <2>4. Fields = (({"traceID"} \cup {"spanID"}) \cup {"lastErr"}) \cup {"lastErrDescription"}
      BY DEF Fields
    <2> QED BY <2>3, <2>4
  <1>3. b \in Seq(Own(r)) /\ Len(b) = 1 /\ DOMAIN b = {1} /\ b[1].op = "log"
    BY DEF Own
  <1>4. LogEntry = a \o b
    BY DEF LogEntry
  <1> HIDE DEF a, b
  <1>5. a \in Seq(Own(r)) /\ Len(a) \in Nat
    BY <1>2 DEF Reads
  <1> DEFINE s == a \o b
  <1>6. /\ s \in Seq(Own(r)) /\ DOMAIN s = 1 .. Len(a) + Len(b)
        /\ \A i \in DOMAIN a : i \in DOMAIN s /\ s[i] = a[i]
        /\ \A i \in DOMAIN s : \/ i \in DOMAIN a /\ s[i] = a[i]
                               \/ i - Len(a) \in DOMAIN b /\ s[i] = b[i - Len(a)]
    BY <1>3, <1>5, ConcatShift
  <1> HIDE DEF s
  <1>7. /\ Len(s) = Len(a) + 1
        /\ \A i \in DOMAIN s : \/ i \in DOMAIN a /\ s[i] = a[i]
                               \/ i = Len(a) + 1 /\ s[i] = b[1]
    BY <1>3, <1>5, <1>6
  <1>8. \A i \in DOMAIN s : s[i].op \in {"get", "log"} /\ (s[i].op = "log" => i = Len(s))
    BY <1>2, <1>3, <1>7 DEF Reads
  <1>9. \A f \in Fields, w \in Words : \E i \in DOMAIN s : Gets(s[i], f, w)
    BY <1>2, <1>6 DEF Reads
  <1> QED BY <1>4, <1>6, <1>8, <1>9 DEF s

\* What Middleware needs to know of a handler: it neither reads nor writes the
\* entry, and before it tells of an error it has set it, to its own.
Handles(r, h) ==
    /\ h \in Seq(Own(r))
    /\ \A i \in DOMAIN h : h[i].op \in {"set", "header"}
    /\ \A i \in DOMAIN h : Fails(h[i]) =>
         \A f \in ErrFields, w \in Words :
             /\ \E j \in DOMAIN h : j < i /\ Sets(h[j], f, w)
             /\ \A j \in DOMAIN h : Sets(h[j], f, w) => h[j].value = r

\* SetError and the context before it.
LEMMA Pieces ==
    ASSUME NEW r, NEW v \in {r, None}
    PROVE  /\ Writes(r, SetError(v), ErrFields, v)
           /\ Writes(r, FromContext(v), {"traceID", "spanID"}, v)
           /\ Writes(r, Clean, ErrFields, None)
  <1>1. ErrFields = {"lastErrDescription", "lastErr"}
    BY DEF ErrFields
  <1>2. /\ Writes(r, Set("lastErrDescription", v) \o Set("lastErr", v), {"lastErrDescription", "lastErr"}, v)
        /\ Writes(r, Set("traceID", v) \o Set("spanID", v), {"traceID", "spanID"}, v)
        /\ Writes(r, Set("lastErrDescription", None) \o Set("lastErr", None),
                  {"lastErrDescription", "lastErr"}, None)
    BY TwoSets DEF Fields
  <1> QED BY <1>1, <1>2 DEF SetError, FromContext, Clean

\* The answers that tell of an error, of none, or of one that is not set.
LEMMA AnswerHandles ==
    ASSUME NEW r, NEW v \in {r, None}, NEW code \in Codes, code \in {500, 502} => v = r
    PROVE  Handles(r, JsonError(v, code)) /\ Handles(r, SetError(v)) /\ Handles(r, Header(200))
  <1> DEFINE a == SetError(v)  b == Header(code)  s == a \o b
  <1>1. Writes(r, a, ErrFields, v)
    BY Pieces
  <1>2. /\ b \in Seq(Own(r)) /\ DOMAIN b = {1} /\ b[1].op = "header" /\ b[1].code = code
    BY HeaderIs
  <1>3. JsonError(v, code) = s
    BY DEF JsonError
  <1>4. Handles(r, a)
    BY <1>1 DEF Writes, Handles, Fails
  <1>5. Handles(r, Header(200))
    <2>1. /\ Header(200) \in Seq(Own(r)) /\ DOMAIN Header(200) = {1}
          /\ Header(200)[1].op = "header" /\ Header(200)[1].code = 200
      BY HeaderIs DEF Codes
    <2> QED BY <2>1 DEF Handles, Fails
  <1> HIDE DEF a, b
  <1>6. a \in Seq(Own(r)) /\ b \in Seq(Own(r))
    BY <1>1, <1>2 DEF Writes
  <1>7. /\ s \in Seq(Own(r)) /\ Len(a) \in Nat /\ DOMAIN a = 1 .. Len(a)
        /\ \A i \in DOMAIN a : i \in DOMAIN s /\ s[i] = a[i]
        /\ \A i \in DOMAIN s : \/ i \in DOMAIN a /\ s[i] = a[i]
                               \/ i > Len(a) /\ i - Len(a) \in DOMAIN b /\ s[i] = b[i - Len(a)]
    BY <1>6, ConcatShift
  <1> HIDE DEF s
  <1>8. \A i \in DOMAIN s : \/ i \in DOMAIN a /\ s[i] = a[i] /\ s[i].op = "set" /\ s[i].value = v
                            \/ i > Len(a) /\ s[i].op = "header" /\ s[i].code = code
    BY <1>1, <1>2, <1>7 DEF Writes
  <1>9. ASSUME NEW i \in DOMAIN s, Fails(s[i]), NEW f \in ErrFields, NEW w \in Words
        PROVE  /\ \E j \in DOMAIN s : j < i /\ Sets(s[j], f, w)
               /\ \A j \in DOMAIN s : Sets(s[j], f, w) => s[j].value = r
    <2>1. i > Len(a) /\ v = r
      BY <1>8, <1>9 DEF Fails
    <2>2. PICK j \in DOMAIN a : Sets(a[j], f, w)
      BY <1>1 DEF Writes
    <2>3. j \in DOMAIN s /\ j < i /\ Sets(s[j], f, w)
      <3>1. j \in Nat /\ j <= Len(a) /\ i \in Int
        BY <1>7, <2>2
      <3> QED BY <1>7, <2>1, <2>2, <3>1
    <2>4. \A x \in DOMAIN s : Sets(s[x], f, w) => s[x].value = r
      BY <1>8, <2>1 DEF Sets
    <2> QED BY <2>3, <2>4
  <1>10. Handles(r, s)
    BY <1>7, <1>8, <1>9 DEF Handles
  <1> QED BY <1>3, <1>4, <1>5, <1>10 DEF a

\* A handler may write its trace, or a status that tells of no error, before.
LEMMA HandlesAfter ==
    ASSUME NEW r, NEW h, Handles(r, h), NEW a \in Seq(Own(r)),
           \A i \in DOMAIN a : \/ a[i].op = "set" /\ a[i].field \notin ErrFields
                               \/ a[i].op = "header" /\ ~Fails(a[i])
    PROVE  Handles(r, a \o h)
  <1> DEFINE s == a \o h
  <1>1. h \in Seq(Own(r))
    BY DEF Handles
  <1>2. /\ s \in Seq(Own(r)) /\ Len(a) \in Nat
        /\ DOMAIN a = 1 .. Len(a) /\ DOMAIN h = 1 .. Len(h) /\ Len(h) \in Nat
        /\ \A i \in DOMAIN h : Len(a) + i \in DOMAIN s /\ s[Len(a) + i] = h[i]
        /\ \A i \in DOMAIN s : \/ i \in DOMAIN a /\ s[i] = a[i]
                               \/ i > Len(a) /\ i - Len(a) \in DOMAIN h /\ s[i] = h[i - Len(a)]
        /\ DOMAIN s = 1 .. Len(a) + Len(h)
    BY <1>1, ConcatShift
  <1> HIDE DEF s
  <1>3. \A i \in DOMAIN s : s[i].op \in {"set", "header"}
    BY <1>2 DEF Handles
  <1>4. ASSUME NEW i \in DOMAIN s, Fails(s[i]), NEW f \in ErrFields, NEW w \in Words
        PROVE  /\ \E j \in DOMAIN s : j < i /\ Sets(s[j], f, w)
               /\ \A j \in DOMAIN s : Sets(s[j], f, w) => s[j].value = r
    <2>1. i > Len(a) /\ i - Len(a) \in DOMAIN h /\ Fails(h[i - Len(a)])
      BY <1>2, <1>4 DEF Fails
    <2>2. /\ \E j \in DOMAIN h : j < i - Len(a) /\ Sets(h[j], f, w)
          /\ \A j \in DOMAIN h : Sets(h[j], f, w) => h[j].value = r
      BY <2>1 DEF Handles
    <2>3. PICK j \in DOMAIN h : j < i - Len(a) /\ Sets(h[j], f, w)
      BY <2>2
    <2>4. Len(a) + j \in DOMAIN s /\ s[Len(a) + j] = h[j]
      BY <1>2
    <2>5. Len(a) + j < i
      <3>1. j \in Nat /\ i \in Nat /\ Len(a) \in Nat
        BY <1>2
      <3> QED BY <2>3, <3>1
    <2>6. ASSUME NEW x \in DOMAIN s, Sets(s[x], f, w) PROVE s[x].value = r
      BY <1>2, <2>2, <2>6 DEF Sets
    <2> QED BY <2>3, <2>4, <2>5, <2>6
  <1>5. Handles(r, s)
    BY <1>2, <1>3, <1>4 DEF Handles
  <1> QED BY <1>5 DEF s

\* Every handler begins with its own trace, and is one.
LEMMA RoutedIs ==
    ASSUME NEW r, NEW k \in Kinds, k \notin {"mux", "main"}
    PROVE  /\ Handles(r, Handler(r, k))
           /\ \A f \in {"traceID", "spanID"}, w \in Words :
                \E j \in DOMAIN Handler(r, k) : Sets(Handler(r, k)[j], f, w)
           /\ k = "abort" => \A i \in DOMAIN Handler(r, k) : ~Fails(Handler(r, k)[i])
  <1> DEFINE a == FromContext(r)
  <1>1. Writes(r, a, {"traceID", "spanID"}, r) /\ Writes(r, FromContext(None), {"traceID", "spanID"}, None)
    BY Pieces
  <1>2. ASSUME NEW s, NEW v, Writes(r, s, {"traceID", "spanID"}, v)
        PROVE  /\ s \in Seq(Own(r))
               /\ \A i \in DOMAIN s : s[i].op = "set" /\ s[i].field \notin ErrFields
    BY <1>2 DEF Writes, ErrFields
  <1>3. /\ Header(200) \in Seq(Own(r)) /\ DOMAIN Header(200) = {1}
        /\ Header(200)[1].op = "header" /\ ~Fails(Header(200)[1])
    BY HeaderIs DEF Codes, Fails
  <1>4. /\ Handles(r, Header(200)) /\ Handles(r, SetError(r)) /\ Handles(r, JsonError(r, 500))
        /\ Handles(r, JsonError(r, 502)) /\ Handles(r, JsonError(None, 404))
    BY AnswerHandles DEF Codes
  <1>5. \E h : /\ Handler(r, k) = a \o h /\ Handles(r, h)
               /\ k = "abort" => h = Header(200)
    <2>1. \A h : Handles(r, h) => Handles(r, Header(200) \o h)
      BY <1>3, HandlesAfter
    <2>2. \A h : Handles(r, h) => Handles(r, FromContext(None) \o h)
      BY <1>1, <1>2, HandlesAfter
    <2>3. k \in {"served", "failed", "notfound", "late", "closed", "gateway", "abort"}
      BY LoggerAssumption
    <2>4. CASE k \in {"served", "abort"}
      <3>1. Handler(r, k) = a \o Header(200)
        BY <2>4 DEF Handler
      <3> QED BY <1>4, <3>1
    <2>5. CASE k = "failed"
      <3>1. Handler(r, k) = a \o JsonError(r, 500)
        BY <2>5 DEF Handler
      <3> QED BY <1>4, <2>5, <3>1
    <2>6. CASE k = "notfound"
      <3>1. Handler(r, k) = a \o JsonError(None, 404)
        BY <2>6 DEF Handler
      <3> QED BY <1>4, <2>6, <3>1
    <2>7. CASE k = "late"
      <3>1. Handler(r, k) = a \o (Header(200) \o JsonError(r, 500))
        BY <2>7 DEF Handler
      <3> DEFINE h == Header(200) \o JsonError(r, 500)
      <3>2. Handles(r, h)
        BY <1>4, <2>1
      <3>3. Handler(r, k) = a \o h
        BY <3>1
      <3> HIDE DEF h
      <3> QED BY <2>7, <3>2, <3>3
    <2>8. CASE k = "closed"
      <3>1. Handler(r, k) = a \o (Header(200) \o SetError(r))
        BY <2>8 DEF Handler
      <3> DEFINE h == Header(200) \o SetError(r)
      <3>2. Handles(r, h)
        BY <1>4, <2>1
      <3>3. Handler(r, k) = a \o h
        BY <3>1
      <3> HIDE DEF h
      <3> QED BY <2>8, <3>2, <3>3
    <2>9. CASE k = "gateway"
      <3>1. Handler(r, k) = a \o (FromContext(None) \o JsonError(r, 502))
        BY <2>9 DEF Handler
      <3> DEFINE h == FromContext(None) \o JsonError(r, 502)
      <3>2. Handles(r, h)
        BY <1>4, <2>2
      <3>3. Handler(r, k) = a \o h
        BY <3>1
      <3> HIDE DEF h
      <3> QED BY <2>9, <3>2, <3>3
    <2> QED BY <2>3, <2>4, <2>5, <2>6, <2>7, <2>8, <2>9
  <1>6. PICK h : /\ Handler(r, k) = a \o h /\ Handles(r, h)
                 /\ k = "abort" => h = Header(200)
    BY <1>5
  <1>7. a \in Seq(Own(r)) /\ \A i \in DOMAIN a : a[i].op = "set" /\ a[i].field \notin ErrFields
    BY <1>1, <1>2
  <1>8. \A f \in {"traceID", "spanID"}, w \in Words : \E i \in DOMAIN a : Sets(a[i], f, w)
    BY <1>1 DEF Writes
  <1> HIDE DEF a
  <1> DEFINE s == a \o h
  <1>9. Handles(r, s)
    BY <1>6, <1>7, HandlesAfter
  <1>10. h \in Seq(Own(r))
    BY <1>6 DEF Handles
  <1>11. /\ \A i \in DOMAIN a : i \in DOMAIN s /\ s[i] = a[i]
         /\ \A i \in DOMAIN s : \/ i \in DOMAIN a /\ s[i] = a[i]
                                \/ i - Len(a) \in DOMAIN h /\ s[i] = h[i - Len(a)]
    BY <1>7, <1>10, ConcatShift
  <1> HIDE DEF s
  <1>12. k = "abort" => \A i \in DOMAIN s : ~Fails(s[i])
    BY <1>3, <1>6, <1>7, <1>11 DEF Fails
  <1>13. \A f \in {"traceID", "spanID"}, w \in Words : \E j \in DOMAIN s : Sets(s[j], f, w)
    BY <1>8, <1>11
  <1>14. Handler(r, k) = s
    BY <1>6 DEF s
  <1> QED BY <1>9, <1>12, <1>13, <1>14

\* What ServeMux answers itself is a handler, too, which sets no trace.
LEMMA HandlerIs ==
    ASSUME NEW r, NEW k \in Kinds, k # "main"
    PROVE  /\ Handles(r, Handler(r, k))
           /\ k # "mux" => \A f \in {"traceID", "spanID"}, w \in Words :
                \E j \in DOMAIN Handler(r, k) : Sets(Handler(r, k)[j], f, w)
           /\ k = "abort" => \A i \in DOMAIN Handler(r, k) : ~Fails(Handler(r, k)[i])
  <1>1. CASE k # "mux"
    BY <1>1, RoutedIs
  <1>2. CASE k = "mux"
    <2>1. /\ Header(301) \in Seq(Own(r)) /\ DOMAIN Header(301) = {1}
          /\ Header(301)[1].op = "header" /\ ~Fails(Header(301)[1])
      BY HeaderIs DEF Codes, Fails
    <2>2. Handler(r, k) = Header(301)
      BY <1>2 DEF Handler
    <2> QED BY <1>2, <2>1, <2>2 DEF Handles
  <1> QED BY <1>1, <1>2

\* Where the instructions of p are that comes of a handler h, an entry l and
\* what cleans, c.
Joins(p, h, l, c) ==
    /\ \A i \in DOMAIN h : i \in DOMAIN p /\ p[i] = h[i]
    /\ \A i \in DOMAIN l : Len(h) + i \in DOMAIN p /\ p[Len(h) + i] = l[i]
    /\ \A i \in DOMAIN c : Len(h) + Len(l) + i \in DOMAIN p /\ p[Len(h) + Len(l) + i] = c[i]
    /\ \A i \in DOMAIN p :
         \/ i \in DOMAIN h /\ p[i] = h[i]
         \/ /\ i > Len(h) /\ i <= Len(h) + Len(l)
            /\ i - Len(h) \in DOMAIN l /\ p[i] = l[i - Len(h)]
         \/ /\ i > Len(h) + Len(l)
            /\ i - Len(h) - Len(l) \in DOMAIN c /\ p[i] = c[i - Len(h) - Len(l)]

\* They are where one expects them.
LEMMA ThreePieces ==
    ASSUME NEW S, NEW h \in Seq(S), NEW l \in Seq(S), NEW c \in Seq(S)
    PROVE  h \o l \o c \in Seq(S) /\ Joins(h \o l \o c, h, l, c)
  <1> DEFINE a == h \o l  s == a \o c
  <1>1. /\ a \in Seq(S) /\ Len(h) \in Nat /\ Len(l) \in Nat /\ Len(c) \in Nat
        /\ DOMAIN a = 1 .. Len(h) + Len(l) /\ Len(a) = Len(h) + Len(l)
        /\ DOMAIN h = 1 .. Len(h) /\ DOMAIN l = 1 .. Len(l) /\ DOMAIN c = 1 .. Len(c)
        /\ \A i \in DOMAIN h : a[i] = h[i]
        /\ \A i \in DOMAIN l : a[Len(h) + i] = l[i]
    BY ConcatShift
  <1> HIDE DEF a
  <1>2. /\ s \in Seq(S) /\ DOMAIN s = 1 .. Len(a) + Len(c)
        /\ \A i \in DOMAIN a : s[i] = a[i]
        /\ \A i \in DOMAIN c : s[Len(a) + i] = c[i]
    <2>1. a \in Seq(S)
      BY <1>1
    <2> QED BY <2>1, ConcatShift
  <1> HIDE DEF s
  <1>3. \A i \in DOMAIN h : i \in DOMAIN s /\ s[i] = h[i]
    BY <1>1, <1>2
  <1>4. \A i \in DOMAIN l : Len(h) + i \in DOMAIN s /\ s[Len(h) + i] = l[i]
    BY <1>1, <1>2
  <1>5. \A i \in DOMAIN c : Len(h) + Len(l) + i \in DOMAIN s /\ s[Len(h) + Len(l) + i] = c[i]
    BY <1>1, <1>2
  <1>6. ASSUME NEW i \in DOMAIN s
        PROVE  \/ i \in DOMAIN h /\ s[i] = h[i]
               \/ /\ i > Len(h) /\ i <= Len(h) + Len(l)
                  /\ i - Len(h) \in DOMAIN l /\ s[i] = l[i - Len(h)]
               \/ /\ i > Len(h) + Len(l)
                  /\ i - Len(h) - Len(l) \in DOMAIN c /\ s[i] = c[i - Len(h) - Len(l)]
    <2>1. i \in Nat /\ i >= 1 /\ i <= Len(h) + Len(l) + Len(c)
      BY <1>1, <1>2
    <2>2. CASE i <= Len(h)
      BY <1>1, <1>3, <2>1, <2>2
    <2>3. CASE i > Len(h) /\ i <= Len(h) + Len(l)
      <3>1. i - Len(h) \in DOMAIN l /\ Len(h) + (i - Len(h)) = i
        BY <1>1, <2>1, <2>3
      <3> QED BY <1>4, <2>3, <3>1
    <2>4. CASE i > Len(h) + Len(l)
      <3>1. i - Len(h) - Len(l) \in DOMAIN c /\ Len(h) + Len(l) + (i - Len(h) - Len(l)) = i
        BY <1>1, <2>1, <2>4
      <3> QED BY <1>5, <2>4, <3>1
    <2> QED BY <1>1, <2>1, <2>2, <2>3, <2>4
  <1>7. Joins(s, h, l, c)
    BY <1>3, <1>4, <1>5, <1>6 DEF Joins
  <1> QED BY <1>2, <1>7 DEF s, a

\* The whole program of a request: what it will find in the fields it reads, if
\* the error fields are empty when it begins and nobody else runs; t tells whether
\* it sets a trace.
WellFormed(r, p, t) ==
    /\ p \in Seq(Own(r)) /\ p # <<>>
    /\ Tidy(p) /\ LogsLast(p) /\ ReadsErrors(p)
    /\ t => \A i \in DOMAIN p, f \in Fields \ ErrFields, w \in Words :
         Gets(p[i], f, w) => \E j \in DOMAIN p : j < i /\ Sets(p[j], f, w)
    /\ \A i \in DOMAIN p, f \in ErrFields, w \in Words :
         Fails(p[i]) \/ (Gets(p[i], f, w) /\ \E j \in DOMAIN p : j < i /\ Fails(p[j])) =>
             Holds(p, i, f, w, r, None)

\* The program of Middleware is one, whatever the handler.
LEMMA MiddlewareIs ==
    ASSUME NEW r \in Requests, NEW k \in Kinds, k # "main"
    PROVE  WellFormed(r, Middleware(r, k), k # "mux")
  <1> DEFINE h == Handler(r, k)
             l == IF k = "abort" THEN <<>> ELSE LogEntry
             c == Clean
             p == h \o l \o c
  <1>1. Middleware(r, k) = p
    BY DEF Middleware
  <1>2. /\ Handles(r, h)
        /\ k # "mux" =>
             \A f \in {"traceID", "spanID"}, w \in Words : \E j \in DOMAIN h : Sets(h[j], f, w)
        /\ k = "abort" => \A i \in DOMAIN h : ~Fails(h[i])
    BY HandlerIs
  <1>3. /\ l \in Seq(Own(r)) /\ \A i \in DOMAIN l : l[i].op \in {"get", "log"}
        /\ \A i \in DOMAIN l : l[i].op = "log" => i = Len(l)
        /\ k # "abort" => \A f \in Fields, w \in Words : \E i \in DOMAIN l : Gets(l[i], f, w)
    <2>1. CASE k = "abort"
      BY <2>1
    <2>2. CASE k # "abort"
      BY <2>2, LogEntryIs
    <2> QED BY <2>1, <2>2
  <1>4. Writes(r, c, ErrFields, None)
    BY Pieces
  <1>5. h \in Seq(Own(r)) /\ l \in Seq(Own(r)) /\ c \in Seq(Own(r))
    BY <1>2, <1>3, <1>4 DEF Handles, Writes
  <1> HIDE DEF h, l, c
  <1>6. p \in Seq(Own(r)) /\ Joins(p, h, l, c)
    BY <1>5, ThreePieces
  <1> HIDE DEF p
  <1>7. /\ DOMAIN h = 1 .. Len(h) /\ DOMAIN l = 1 .. Len(l) /\ DOMAIN c = 1 .. Len(c)
        /\ DOMAIN p = 1 .. Len(p)
        /\ Len(h) \in Nat /\ Len(l) \in Nat /\ Len(c) \in Nat /\ Len(p) \in Nat
    BY <1>5, <1>6
  \* An instruction is the handler's, or the entry's, or one of those that clean.
  <1>8. \A i \in DOMAIN p :
          \/ i <= Len(h) /\ i \in DOMAIN h /\ p[i] = h[i] /\ p[i].op \in {"set", "header"}
          \/ /\ i > Len(h) /\ i <= Len(h) + Len(l) /\ p[i].op \in {"get", "log"}
             /\ p[i].op = "log" => i = Len(h) + Len(l)
          \/ i > Len(h) + Len(l) /\ p[i].op = "set" /\ p[i].value = None
    <2>1. \A i \in DOMAIN h : h[i].op \in {"set", "header"} /\ i <= Len(h)
      BY <1>2, <1>7 DEF Handles
    <2>2. \A i \in DOMAIN c : c[i].op = "set" /\ c[i].value = None
      BY <1>4 DEF Writes
    <2>3. ASSUME NEW i \in DOMAIN p
          PROVE  \/ i <= Len(h) /\ i \in DOMAIN h /\ p[i] = h[i] /\ p[i].op \in {"set", "header"}
                 \/ /\ i > Len(h) /\ i <= Len(h) + Len(l) /\ p[i].op \in {"get", "log"}
                    /\ p[i].op = "log" => i = Len(h) + Len(l)
                 \/ i > Len(h) + Len(l) /\ p[i].op = "set" /\ p[i].value = None
      <3>1. CASE i \in DOMAIN h /\ p[i] = h[i]
        BY <2>1, <3>1
      <3>2. CASE /\ i > Len(h) /\ i <= Len(h) + Len(l)
                 /\ i - Len(h) \in DOMAIN l /\ p[i] = l[i - Len(h)]
        <4>1. p[i].op \in {"get", "log"} /\ (p[i].op = "log" => i - Len(h) = Len(l))
          BY <1>3, <3>2
        <4>2. i \in Nat
          BY <1>7
        <4> QED BY <1>7, <3>2, <4>1, <4>2
      <3>3. CASE /\ i > Len(h) + Len(l)
                 /\ i - Len(h) - Len(l) \in DOMAIN c /\ p[i] = c[i - Len(h) - Len(l)]
        BY <2>2, <3>3
      <3> QED BY <1>6, <3>1, <3>2, <3>3 DEF Joins
    <2> QED BY <2>3
  <1>9. \A f \in ErrFields, w \in Words :
          \E j \in DOMAIN p : j > Len(h) + Len(l) /\ Sets(p[j], f, w) /\ p[j].value = None
    <2>1. SUFFICES ASSUME NEW f \in ErrFields, NEW w \in Words
                   PROVE  \E j \in DOMAIN p : j > Len(h) + Len(l) /\ Sets(p[j], f, w) /\ p[j].value = None
      OBVIOUS
    <2>2. PICK j \in DOMAIN c : Sets(c[j], f, w) /\ c[j].value = None
      BY <1>4 DEF Writes
    <2>3. Len(h) + Len(l) + j > Len(h) + Len(l)
      BY <1>7
    <2> QED BY <1>6, <2>2, <2>3 DEF Joins
  <1>10. k # "abort" => \A f \in Fields, w \in Words :
           \E j \in DOMAIN p : j > Len(h) /\ Gets(p[j], f, w)
    <2>1. SUFFICES ASSUME k # "abort", NEW f \in Fields, NEW w \in Words
                   PROVE  \E j \in DOMAIN p : j > Len(h) /\ Gets(p[j], f, w)
      OBVIOUS
    <2>2. PICK j \in DOMAIN l : Gets(l[j], f, w)
      BY <1>3, <2>1
    <2>3. Len(h) + j > Len(h)
      BY <1>7
    <2> QED BY <1>6, <2>2, <2>3 DEF Joins
  <1>11. \A i \in DOMAIN p : i \in Nat
    BY <1>7
  <1> HIDE DEF h, l, c, p
  <1>12. Tidy(p)
    <2>1. SUFFICES ASSUME NEW i \in DOMAIN p, NEW f \in ErrFields, NEW w \in Words,
                          Sets(p[i], f, w), p[i].value # None
                   PROVE  \E j \in DOMAIN p : j > i /\ Sets(p[j], f, w) /\ p[j].value = None
      BY DEF Tidy
    <2>2. i <= Len(h) + Len(l)
      BY <1>7, <1>8, <1>11, <2>1
    <2>3. PICK j \in DOMAIN p : j > Len(h) + Len(l) /\ Sets(p[j], f, w) /\ p[j].value = None
      BY <1>9
    <2> QED BY <1>7, <1>11, <2>2, <2>3
  <1>13. LogsLast(p)
    <2>1. SUFFICES ASSUME NEW i \in DOMAIN p, p[i].op = "log", NEW j \in DOMAIN p, j > i
                   PROVE  p[j].op = "set"
      BY DEF LogsLast
    <2>2. i = Len(h) + Len(l)
      BY <1>8, <2>1
    <2> QED BY <1>7, <1>8, <1>11, <2>1, <2>2
  <1>14. \A i \in DOMAIN p : Fails(p[i]) => i <= Len(h) /\ i \in DOMAIN h /\ p[i] = h[i] /\ k # "abort"
    BY <1>2, <1>8 DEF Fails
  <1>15. ReadsErrors(p)
    <2>1. SUFFICES ASSUME NEW i \in DOMAIN p, Fails(p[i]), NEW f \in ErrFields, NEW w \in Words
                   PROVE  \E j \in DOMAIN p : j > i /\ Gets(p[j], f, w)
      BY DEF ReadsErrors
    <2>2. i <= Len(h) /\ k # "abort" /\ f \in Fields
      BY <1>14, <2>1 DEF ErrFields, Fields
    <2>3. PICK j \in DOMAIN p : j > Len(h) /\ Gets(p[j], f, w)
      BY <1>10, <2>2
    <2> QED BY <1>7, <1>11, <2>2, <2>3
  <1>16. ASSUME k # "mux", NEW i \in DOMAIN p, NEW f \in Fields \ ErrFields, NEW w \in Words,
                Gets(p[i], f, w)
         PROVE  \E j \in DOMAIN p : j < i /\ Sets(p[j], f, w)
    <2>1. f \in {"traceID", "spanID"} /\ i > Len(h)
      BY <1>8, <1>16 DEF Fields, ErrFields, Gets
    <2>2. PICK j \in DOMAIN h : Sets(h[j], f, w)
      BY <1>2, <1>16, <2>1
    <2>3. j \in DOMAIN p /\ p[j] = h[j] /\ j < i
      BY <1>6, <1>7, <1>11, <2>1 DEF Joins
    <2> QED BY <2>2, <2>3
  <1>17. ASSUME NEW i \in DOMAIN p, NEW f \in ErrFields, NEW w \in Words,
                NEW n \in DOMAIN p, Fails(p[n]), n = i \/ (n < i /\ Gets(p[i], f, w))
         PROVE  Holds(p, i, f, w, r, None)
    <2>1. n \in DOMAIN h /\ p[n] = h[n] /\ n <= Len(h)
      BY <1>14, <1>17
    <2>2. /\ \E j \in DOMAIN h : j < n /\ Sets(h[j], f, w)
          /\ \A j \in DOMAIN h : Sets(h[j], f, w) => h[j].value = r
      BY <1>2, <1>17, <2>1 DEF Handles
    <2>3. \E j \in DOMAIN p : j < i /\ Sets(p[j], f, w)
      <3>1. PICK j \in DOMAIN h : j < n /\ Sets(h[j], f, w)
        BY <2>2
      <3>2. j \in DOMAIN p /\ p[j] = h[j] /\ j < i
        <4>1. j \in DOMAIN p /\ p[j] = h[j] /\ n <= i
          BY <1>6, <1>7, <1>17 DEF Joins
        <4> QED BY <1>11, <3>1, <4>1
      <3> QED BY <3>1, <3>2
    <2>4. ASSUME NEW j \in DOMAIN p, j < i, Sets(p[j], f, w) PROVE p[j].value = r
      <3>1. i <= Len(h) + Len(l)
        BY <1>7, <1>8, <1>11, <1>17, <2>1 DEF Gets
      <3>2. j <= Len(h) + Len(l)
        BY <1>7, <1>11, <2>4, <3>1
      <3>3. j \in DOMAIN h /\ p[j] = h[j]
        BY <1>7, <1>8, <1>11, <2>4, <3>2 DEF Sets
      <3> QED BY <2>2, <2>4, <3>3
    <2> QED BY <2>3, <2>4 DEF Holds
  <1>18. p # <<>>
    BY <1>7, <1>9 DEF ErrFields, Words
  <1>19. WellFormed(r, p, k # "mux")
    BY <1>6, <1>12, <1>13, <1>15, <1>16, <1>17, <1>18 DEF WellFormed
  <1> QED BY <1>1, <1>19

\* And so is what main's goroutines do, which neither read nor set an error.
LEMMA ProgramIs ==
    ASSUME NEW r \in Requests, NEW k \in Kinds
    PROVE  WellFormed(r, Program(r, k), k # "mux")
  <1>1. CASE k # "main"
    BY <1>1, MiddlewareIs DEF Program
  <1>2. CASE k = "main"
    <2> DEFINE p == FromContext(None)
    <2>1. Writes(r, p, {"traceID", "spanID"}, None)
      BY Pieces
    <2> HIDE DEF p
    <2>2. p \in Seq(Own(r)) /\ \A i \in DOMAIN p : p[i].op = "set" /\ p[i].value = None
      BY <2>1 DEF Writes
    <2>3. p # <<>>
      <3>1. \E i \in DOMAIN p : Sets(p[i], "traceID", 1)
        BY <2>1 DEF Writes, Words
      <3> QED BY <3>1
    <2>4. Tidy(p) /\ LogsLast(p) /\ ReadsErrors(p)
      BY <2>2 DEF Tidy, LogsLast, ReadsErrors, Fails
    <2>5. \A i \in DOMAIN p : ~Fails(p[i]) /\ \A f, w : ~Gets(p[i], f, w)
      BY <2>2 DEF Fails, Gets
    <2>6. WellFormed(r, p, k # "mux")
      BY <2>2, <2>3, <2>4, <2>5 DEF WellFormed
    <2> QED BY <1>2, <2>6 DEF Program, p
  <1> QED BY <1>1, <1>2

-----------------------------------------------------------------------------
(* The inductive invariant.                                                *)

\* What a request that has its program ahead of it will still do.
ProgramsInv ==
    /\ logger \in [Fields -> [Words -> Values]]
    /\ prog \in [Requests -> Seq(Instructions)]
    /\ \A r \in Requests :
         /\ prog[r] \in Seq(Own(r))
         /\ Tidy(prog[r]) /\ LogsLast(prog[r]) /\ ReadsErrors(prog[r])
         /\ ran[r] = "logged" => \A i \in DOMAIN prog[r] : prog[r][i].op = "set"
         /\ ran[r] = "new" =>
              /\ prog[r] = <<>> /\ recorder[r] = 200
              /\ \A f \in Fields, w \in Words : entry[r][f][w] = None

\* Whoever left an error has still to clean it.
ErrorsInv ==
    \A r \in Requests, f \in ErrFields, w \in Words :
        logger[f][w] = r => Cleans(prog[r], f, w)

\* The word w of f will be v's or none's when p gets to i, if it is x now.
Finds(p, i, f, w, v, x) ==
    x \in {v, None} \/ \E j \in DOMAIN p : j < i /\ Sets(p[j], f, w)

\* It tells of an error before it gets to i.
FailsBefore(p, i) == \E j \in DOMAIN p : j < i /\ Fails(p[j])

\* The fields of which a request can say what its entry has: its error and, if it
\* was given to a handler, its trace.
Told(r) == IF handled[r] THEN Fields ELSE ErrFields

\* A request that has been alone so far: what is in its entry, who else runs, and
\* what it will find in the fields that it has still to read.
AloneInv(r) ==
    /\ \A f \in Told(r), w \in Words : entry[r][f][w] \in {r, None}
    /\ prog[r] # <<>> => \A x \in Requests : x # r => prog[x] = <<>>
    /\ \A i \in DOMAIN prog[r], f \in Told(r), w \in Words :
         Gets(prog[r][i], f, w) => Finds(prog[r], i, f, w, r, logger[f][w])
    /\ \A i \in DOMAIN prog[r], f \in ErrFields, w \in Words :
         Fails(prog[r][i]) => Holds(prog[r], i, f, w, r, logger[f][w])
    /\ \A i \in DOMAIN prog[r], f \in ErrFields, w \in Words :
         Gets(prog[r][i], f, w) /\ (Failed(r) \/ FailsBefore(prog[r], i)) =>
             Holds(prog[r], i, f, w, r, logger[f][w])
    /\ Failed(r) => \A f \in ErrFields, w \in Words :
         entry[r][f][w] = r \/ \E i \in DOMAIN prog[r] : Gets(prog[r][i], f, w)

Inv ==
    /\ TypeOK /\ ProgramsInv /\ ErrorsInv
    /\ \A r \in Requests : alone[r] => AloneInv(r)

-----------------------------------------------------------------------------
(* One instruction is done: what remains true of the rest.                 *)

\* What the first instruction of p leaves in the word w of f, if that was x.
After(p, f, w, x) == IF Sets(p[1], f, w) THEN p[1].value ELSE x

\* The shape of a program is that of its rest.
LEMMA RestShape ==
    ASSUME NEW S, NEW p \in Seq(S), p # <<>>, Tidy(p), LogsLast(p), ReadsErrors(p)
    PROVE  Tidy(Tail(p)) /\ LogsLast(Tail(p)) /\ ReadsErrors(Tail(p))
  <1> DEFINE q == Tail(p)
  <1>1. /\ DOMAIN p = 1 .. Len(p) /\ Len(p) \in Nat /\ DOMAIN q = 1 .. Len(p) - 1
        /\ \A i \in DOMAIN q : i + 1 \in DOMAIN p /\ q[i] = p[i + 1]
        /\ \A i \in DOMAIN p : i > 1 => i - 1 \in DOMAIN q /\ p[i] = q[i - 1]
    BY TailShift
  <1> HIDE DEF q
  <1>2. \A i \in DOMAIN q : i \in Nat /\ i + 1 > 1
    BY <1>1
  <1>3. \A i \in DOMAIN q, j \in DOMAIN p : j > i + 1 => j - 1 \in DOMAIN q /\ j - 1 > i /\ p[j] = q[j - 1]
    BY <1>1
  <1>4. Tidy(q)
    <2>1. SUFFICES ASSUME NEW i \in DOMAIN q, NEW f \in ErrFields, NEW w \in Words,
                          Sets(q[i], f, w), q[i].value # None
                   PROVE  \E j \in DOMAIN q : j > i /\ Sets(q[j], f, w) /\ q[j].value = None
      BY DEF Tidy
    <2>2. PICK j \in DOMAIN p : j > i + 1 /\ Sets(p[j], f, w) /\ p[j].value = None
      BY <1>1, <2>1 DEF Tidy
    <2> QED BY <1>3, <2>2
  <1>5. LogsLast(q)
    <2>1. SUFFICES ASSUME NEW i \in DOMAIN q, q[i].op = "log", NEW j \in DOMAIN q, j > i
                   PROVE  q[j].op = "set"
      BY DEF LogsLast
    <2>2. i + 1 \in DOMAIN p /\ j + 1 \in DOMAIN p /\ q[i] = p[i + 1] /\ q[j] = p[j + 1] /\ j + 1 > i + 1
      BY <1>1, <2>1
    <2> QED BY <2>1, <2>2 DEF LogsLast
  <1>6. ReadsErrors(q)
    <2>1. SUFFICES ASSUME NEW i \in DOMAIN q, Fails(q[i]), NEW f \in ErrFields, NEW w \in Words
                   PROVE  \E j \in DOMAIN q : j > i /\ Gets(q[j], f, w)
      BY DEF ReadsErrors
    <2>2. PICK j \in DOMAIN p : j > i + 1 /\ Gets(p[j], f, w)
      BY <1>1, <2>1 DEF ReadsErrors
    <2> QED BY <1>3, <2>2
  <1> QED BY <1>4, <1>5, <1>6 DEF q

\* An error that is there, or that the first instruction leaves, is cleaned by
\* the rest.
LEMMA RestCleans ==
    ASSUME NEW S, NEW p \in Seq(S), p # <<>>, Tidy(p), NEW f \in ErrFields, NEW w \in Words, NEW x,
           After(p, f, w, x) # None, x # None => Cleans(p, f, w)
    PROVE  Cleans(Tail(p), f, w)
  <1> DEFINE q == Tail(p)
  <1>1. /\ DOMAIN p = 1 .. Len(p) /\ Len(p) \in Nat /\ 1 \in DOMAIN p
        /\ \A i \in DOMAIN p : i > 1 => i - 1 \in DOMAIN q /\ p[i] = q[i - 1]
    BY TailShift
  <1> HIDE DEF q
  <1>2. SUFFICES \E j \in DOMAIN p : j > 1 /\ Sets(p[j], f, w) /\ p[j].value = None
    BY <1>1, <1>2 DEF Cleans, q
  <1>3. CASE Sets(p[1], f, w)
    BY <1>1, <1>3 DEF Tidy, After
  <1>4. CASE ~Sets(p[1], f, w)
    <2>1. PICK j \in DOMAIN p : Sets(p[j], f, w) /\ p[j].value = None
      BY <1>4 DEF After, Cleans
    <2>2. j # 1
      BY <1>4, <2>1
    <2> QED BY <1>1, <2>1, <2>2
  <1> QED BY <1>3, <1>4

\* What a later instruction will find is what the rest makes of the word that the
\* first has left.
LEMMA RestHolds ==
    ASSUME NEW S, NEW p \in Seq(S), p # <<>>, NEW i \in DOMAIN Tail(p), NEW f, NEW w, NEW v, NEW x
    PROVE  /\ Holds(p, i + 1, f, w, v, x) => Holds(Tail(p), i, f, w, v, After(p, f, w, x))
           /\ /\ Finds(p, i + 1, f, w, v, x)
              /\ Sets(p[1], f, w) => p[1].value \in {v, None}
              => Finds(Tail(p), i, f, w, v, After(p, f, w, x))
           /\ FailsBefore(p, i + 1) <=> Fails(p[1]) \/ FailsBefore(Tail(p), i)
  <1> DEFINE q == Tail(p)
  <1>1. /\ DOMAIN p = 1 .. Len(p) /\ Len(p) \in Nat /\ 1 \in DOMAIN p
        /\ DOMAIN q = 1 .. Len(p) - 1 /\ i \in DOMAIN q
        /\ \A j \in DOMAIN q : j + 1 \in DOMAIN p /\ q[j] = p[j + 1]
        /\ \A j \in DOMAIN p : j > 1 => j - 1 \in DOMAIN q /\ p[j] = q[j - 1]
    BY TailShift
  <1> HIDE DEF q
  <1>2. i \in Nat /\ i >= 1 /\ \A j \in DOMAIN q : j \in Nat /\ (j < i => j + 1 < i + 1)
    BY <1>1
  <1>3. \A j \in DOMAIN p : j < i + 1 => j = 1 \/ (j - 1 \in DOMAIN q /\ j - 1 < i /\ p[j] = q[j - 1])
    BY <1>1
  <1>4. 1 < i + 1
    BY <1>2
  <1>5. ASSUME Holds(p, i + 1, f, w, v, x) PROVE Holds(q, i, f, w, v, After(p, f, w, x))
    <2>1. ASSUME NEW j \in DOMAIN q, j < i, Sets(q[j], f, w) PROVE q[j].value = v
      <3>1. j + 1 \in DOMAIN p /\ q[j] = p[j + 1] /\ j + 1 < i + 1
        BY <1>1, <1>2, <2>1
      <3> QED BY <1>5, <2>1, <3>1 DEF Holds
    <2>2. CASE Sets(p[1], f, w)
      <3>1. After(p, f, w, x) = v
        BY <1>1, <1>4, <1>5, <2>2 DEF After, Holds
      <3> QED BY <2>1, <3>1 DEF Holds
    <2>3. CASE ~Sets(p[1], f, w)
      <3>1. x = v \/ \E j \in DOMAIN q : j < i /\ Sets(q[j], f, w)
        BY <1>3, <1>5, <2>3 DEF Holds
      <3> QED BY <2>1, <2>3, <3>1 DEF Holds, After
    <2> QED BY <2>2, <2>3
  <1>6. ASSUME Finds(p, i + 1, f, w, v, x), Sets(p[1], f, w) => p[1].value \in {v, None}
        PROVE  Finds(q, i, f, w, v, After(p, f, w, x))
    <2>1. CASE Sets(p[1], f, w)
      BY <1>6, <2>1 DEF After, Finds
    <2>2. CASE ~Sets(p[1], f, w)
      <3>1. x \in {v, None} \/ \E j \in DOMAIN q : j < i /\ Sets(q[j], f, w)
        BY <1>3, <1>6, <2>2 DEF Finds
      <3> QED BY <2>2, <3>1 DEF Finds, After
    <2> QED BY <2>1, <2>2
  <1>7. FailsBefore(p, i + 1) <=> Fails(p[1]) \/ FailsBefore(q, i)
    <2>1. FailsBefore(p, i + 1) => Fails(p[1]) \/ FailsBefore(q, i)
      BY <1>3 DEF FailsBefore
    <2>2. Fails(p[1]) => FailsBefore(p, i + 1)
      BY <1>1, <1>4 DEF FailsBefore
    <2>3. FailsBefore(q, i) => FailsBefore(p, i + 1)
      BY <1>1, <1>2 DEF FailsBefore
    <2> QED BY <2>1, <2>2, <2>3
  <1> QED BY <1>5, <1>6, <1>7 DEF q

-----------------------------------------------------------------------------
(* The steps.                                                              *)

\* What the four kinds of instruction have in common: the first instruction of r
\* is done, and leaves what it leaves in the Logger, the entry and the recorder.
Done(r) ==
    /\ prog[r] # <<>>
    /\ prog' = [prog EXCEPT ![r] = Tail(prog[r])]
    /\ \A f \in Fields, w \in Words : logger'[f][w] = After(prog[r], f, w, logger[f][w])
    /\ \A x \in Requests \ {r} :
         entry'[x] = entry[x] /\ recorder'[x] = recorder[x] /\ ran'[x] = ran[x]
    /\ \A f \in Fields, w \in Words :
         entry'[r][f][w] = IF Gets(prog[r][1], f, w) THEN logger[f][w] ELSE entry[r][f][w]
    /\ recorder'[r] = IF prog[r][1].op = "header" THEN prog[r][1].code ELSE recorder[r]
    /\ ran'[r] # "new" /\ (ran'[r] = "logged" => ran[r] = "logged" \/ prog[r][1].op = "log")
    /\ alone' = alone /\ handled' = handled

\* The types that the steps keep.
Shape ==
    /\ logger \in [Fields -> [Words -> Values]]
    /\ prog \in [Requests -> Seq(Instructions)]
    /\ recorder \in [Requests -> Codes]
    /\ entry \in [Requests -> [Fields -> [Words -> Values]]]
    /\ ran \in [Requests -> {"new", "running", "logged", "cut"}]
    /\ alone \in [Requests -> BOOLEAN]
    /\ handled \in [Requests -> BOOLEAN]

LEMMA ShapeIs ==
    (Inv => Shape) /\ (Shape => TypeOK)
  <1>1. Inv => Shape
    BY DEF Inv, TypeOK, ProgramsInv, Shape, Words
  <1>2. ASSUME Shape PROVE TypeOK
    <2>1. \A r \in Requests : \A i \in DOMAIN prog[r] : prog[r][i] \in Instructions
      BY <1>2 DEF Shape
    <2> QED BY <1>2, <2>1 DEF Shape, TypeOK, Words
  <1> QED BY <1>1, <1>2

\* The first instruction of a request that has one.
LEMMA HeadOwn ==
    ASSUME Inv, NEW r \in Requests, prog[r] # <<>>
    PROVE  /\ Head(prog[r]) = prog[r][1] /\ prog[r][1] \in Own(r)
           /\ ran[r] # "new" /\ Tail(prog[r]) \in Seq(Instructions)
           /\ prog[r] \in Seq(Own(r))
  <1>1. prog[r] \in Seq(Own(r)) /\ ran[r] # "new" /\ prog[r] \in Seq(Instructions)
    BY DEF Inv, ProgramsInv
  <1>2. Head(prog[r]) = prog[r][1] /\ 1 \in DOMAIN prog[r]
    BY <1>1, TailShift
  <1>3. Tail(prog[r]) \in Seq(Instructions)
    BY <1>1, TailShift
  <1>4. prog[r][1] \in Own(r)
    BY <1>1, <1>2
  <1> QED BY <1>1, <1>2, <1>3, <1>4

\* Every step of a request that runs is one of those.
LEMMA StepIsDone ==
    ASSUME Inv, NEW r \in Requests, SetWord(r) \/ GetWord(r) \/ WriteHeader(r) \/ Log(r)
    PROVE  Done(r) /\ Shape'
  <1> DEFINE i == prog[r][1]
  <1>1. prog[r] # <<>> /\ prog' = [prog EXCEPT ![r] = Tail(prog[r])]
    BY DEF SetWord, GetWord, WriteHeader, Log, Does
  <1>2. Head(prog[r]) = i /\ i \in Own(r) /\ ran[r] # "new" /\ Tail(prog[r]) \in Seq(Instructions)
    BY <1>1, HeadOwn
  <1>3. Shape
    BY ShapeIs
  <1>4. alone' = alone /\ handled' = handled
    BY DEF SetWord, GetWord, WriteHeader, Log
  <1>5. prog' \in [Requests -> Seq(Instructions)] /\ alone' \in [Requests -> BOOLEAN]
        /\ handled' \in [Requests -> BOOLEAN]
    BY <1>1, <1>2, <1>3, <1>4 DEF Shape
  <1>6. /\ i.op \in {"set", "get"} => i.field \in Fields /\ i.word \in Words /\ i.value \in Values
        /\ i.op = "header" => i.code \in Codes
    BY <1>2 DEF Own, Values
  <1> HIDE DEF i
  <1>7. CASE SetWord(r)
    <2>1. i.op = "set"
      BY <1>2, <1>7 DEF SetWord, Does
    <2>2. logger' = [logger EXCEPT ![i.field][i.word] = i.value]
      BY <1>2, <1>7 DEF SetWord
    <2>3. recorder' = recorder /\ entry' = entry
      BY <1>7 DEF SetWord
    <2>4. ran' = ran \/ ran' = [ran EXCEPT ![r] = "cut"]
      BY <1>7 DEF SetWord
    <2>5. \A f \in Fields, w \in Words : logger'[f][w] = After(prog[r], f, w, logger[f][w])
      BY <1>3, <1>6, <2>1, <2>2 DEF Shape, After, Sets, i
    <2>6. logger' \in [Fields -> [Words -> Values]]
      BY <1>3, <1>6, <2>1, <2>2 DEF Shape
    <2>7. /\ ran' \in [Requests -> {"new", "running", "logged", "cut"}]
          /\ \A x \in Requests \ {r} : ran'[x] = ran[x]
          /\ ran'[r] # "new" /\ (ran'[r] = "logged" => ran[r] = "logged")
      BY <1>2, <1>3, <2>4 DEF Shape
    <2>8. Done(r)
      BY <1>1, <1>4, <2>1, <2>3, <2>5, <2>7 DEF Done, Gets, i
    <2> QED BY <1>3, <1>5, <2>3, <2>6, <2>7, <2>8 DEF Shape
  <1>8. CASE GetWord(r)
    <2>1. i.op = "get"
      BY <1>2, <1>8 DEF GetWord, Does
    <2>2. entry' = [entry EXCEPT ![r][i.field][i.word] = logger[i.field][i.word]]
      BY <1>2, <1>8 DEF GetWord
    <2>3. recorder' = recorder /\ logger' = logger /\ ran' = ran
      BY <1>8 DEF GetWord
    <2>4. logger[i.field][i.word] \in Values
      BY <1>3, <1>6, <2>1 DEF Shape
    <2>5. entry' \in [Requests -> [Fields -> [Words -> Values]]]
      BY <1>3, <1>6, <2>1, <2>2, <2>4 DEF Shape
    <2>6. \A x \in Requests \ {r} : entry'[x] = entry[x]
      BY <1>3, <2>2 DEF Shape
    <2>7. \A f \in Fields, w \in Words :
            entry'[r][f][w] = IF Gets(i, f, w) THEN logger[f][w] ELSE entry[r][f][w]
      BY <1>3, <1>6, <2>1, <2>2 DEF Shape, Gets
    <2>8. \A f \in Fields, w \in Words : logger'[f][w] = After(prog[r], f, w, logger[f][w])
      BY <2>1, <2>3 DEF After, Sets, i
    <2>9. Done(r)
      BY <1>1, <1>2, <1>4, <2>1, <2>3, <2>6, <2>7, <2>8 DEF Done, i
    <2> QED BY <1>3, <1>5, <2>3, <2>5, <2>9 DEF Shape
  <1>9. CASE WriteHeader(r)
    <2>1. i.op = "header"
      BY <1>2, <1>9 DEF WriteHeader, Does
    <2>2. recorder' = [recorder EXCEPT ![r] = i.code]
      BY <1>2, <1>9 DEF WriteHeader
    <2>3. entry' = entry /\ logger' = logger /\ ran' = ran
      BY <1>9 DEF WriteHeader
    <2>4. recorder' \in [Requests -> Codes]
      BY <1>3, <1>6, <2>1, <2>2 DEF Shape
    <2>5. recorder'[r] = i.code /\ \A x \in Requests \ {r} : recorder'[x] = recorder[x]
      BY <1>3, <2>2 DEF Shape
    <2>6. \A f \in Fields, w \in Words : logger'[f][w] = After(prog[r], f, w, logger[f][w])
      BY <2>1, <2>3 DEF After, Sets, i
    <2>7. Done(r)
      BY <1>1, <1>2, <1>4, <2>1, <2>3, <2>5, <2>6 DEF Done, Gets, i
    <2> QED BY <1>3, <1>5, <2>3, <2>4, <2>7 DEF Shape
  <1>10. CASE Log(r)
    <2>1. i.op = "log"
      BY <1>2, <1>10 DEF Log, Does
    <2>2. ran' = [ran EXCEPT ![r] = "logged"]
      BY <1>10 DEF Log
    <2>3. entry' = entry /\ logger' = logger /\ recorder' = recorder
      BY <1>10 DEF Log
    <2>4. /\ ran' \in [Requests -> {"new", "running", "logged", "cut"}]
          /\ ran'[r] = "logged" /\ \A x \in Requests \ {r} : ran'[x] = ran[x]
      BY <1>3, <2>2 DEF Shape
    <2>5. \A f \in Fields, w \in Words : logger'[f][w] = After(prog[r], f, w, logger[f][w])
      BY <2>1, <2>3 DEF After, Sets, i
    <2>6. Done(r)
      BY <1>1, <1>4, <2>1, <2>3, <2>4, <2>5 DEF Done, Gets, i
    <2> QED BY <1>3, <1>5, <2>3, <2>4, <2>6 DEF Shape
  <1> QED BY <1>7, <1>8, <1>9, <1>10

\* Such a step keeps the shape of the programs,
LEMMA DoneProgramsInv ==
    ASSUME Inv, NEW r \in Requests, Done(r), Shape'
    PROVE  ProgramsInv'
  <1> DEFINE p == prog[r]  q == Tail(p)
  <1>1. /\ p \in Seq(Own(r)) /\ p # <<>> /\ Tidy(p) /\ LogsLast(p) /\ ReadsErrors(p)
        /\ ran[r] = "logged" => \A i \in DOMAIN p : p[i].op = "set"
    BY DEF Inv, ProgramsInv, Done
  <1>2. prog'[r] = q /\ \A x \in Requests \ {r} : prog'[x] = prog[x]
    BY DEF Done, Inv, ProgramsInv
  <1>3. ran'[r] # "new" /\ (ran'[r] = "logged" => ran[r] = "logged" \/ p[1].op = "log")
    BY DEF Done
  <1>4. \A x \in Requests \ {r} : entry'[x] = entry[x] /\ recorder'[x] = recorder[x] /\ ran'[x] = ran[x]
    BY DEF Done
  <1> HIDE DEF p
  <1>5. q \in Seq(Own(r)) /\ Tidy(q) /\ LogsLast(q) /\ ReadsErrors(q)
    BY <1>1, RestShape, TailShift
  <1>6. ran'[r] = "logged" => \A i \in DOMAIN q : q[i].op = "set"
    <2>1. /\ 1 \in DOMAIN p /\ \A i \in DOMAIN q : i + 1 \in DOMAIN p /\ q[i] = p[i + 1]
          /\ \A i \in DOMAIN q : i + 1 > 1
      BY <1>1, TailShift
    <2> HIDE DEF q
    <2>2. p[1].op = "log" => \A j \in DOMAIN p : j > 1 => p[j].op = "set"
      BY <1>1, <2>1 DEF LogsLast
    <2> QED BY <1>1, <1>3, <2>1, <2>2
  <1> HIDE DEF q
  <1>7. logger' \in [Fields -> [Words -> Values]] /\ prog' \in [Requests -> Seq(Instructions)]
    BY DEF Shape
  <1>8. ASSUME NEW x \in Requests
        PROVE  /\ prog'[x] \in Seq(Own(x))
               /\ Tidy(prog'[x]) /\ LogsLast(prog'[x]) /\ ReadsErrors(prog'[x])
               /\ ran'[x] = "logged" => \A i \in DOMAIN prog'[x] : prog'[x][i].op = "set"
               /\ ran'[x] = "new" =>
                    /\ prog'[x] = <<>> /\ recorder'[x] = 200
                    /\ \A f \in Fields, w \in Words : entry'[x][f][w] = None
    <2>1. CASE x = r
      BY <1>2, <1>3, <1>5, <1>6, <2>1
    <2>2. CASE x # r
      BY <1>2, <1>4, <2>2 DEF Inv, ProgramsInv
    <2> QED BY <2>1, <2>2
  <1> QED BY <1>7, <1>8 DEF ProgramsInv

\* and leaves no error that nobody cleans.
LEMMA DoneErrorsInv ==
    ASSUME Inv, NEW r \in Requests, Done(r)
    PROVE  ErrorsInv'
  <1> DEFINE p == prog[r]
  <1>1. SUFFICES ASSUME NEW x \in Requests, NEW f \in ErrFields, NEW w \in Words, logger'[f][w] = x
                 PROVE  Cleans(prog'[x], f, w)
    BY DEF ErrorsInv
  <1>2. /\ p \in Seq(Own(r)) /\ p # <<>> /\ Tidy(p)
        /\ prog'[r] = Tail(p) /\ \A y \in Requests \ {r} : prog'[y] = prog[y]
    BY DEF Inv, ProgramsInv, Done
  <1>3. logger'[f][w] = After(p, f, w, logger[f][w]) /\ f \in Fields
    BY DEF Done, ErrFields, Fields
  <1>4. 1 \in DOMAIN p
    BY <1>2, TailShift
  <1>5. Sets(p[1], f, w) => p[1].value \in {r, None}
    <2>1. p[1] \in Own(r)
      BY <1>2, <1>4
    <2> QED BY <2>1 DEF Own, Sets
  <1>6. x # None
    BY LoggerAssumption
  <1> HIDE DEF p
  <1>7. logger[f][w] = x => Cleans(prog[x], f, w)
    BY DEF Inv, ErrorsInv
  <1>8. CASE x = r
    <2>1. CASE Sets(p[1], f, w)
      <3>1. p[1].value # None
        BY <1>1, <1>3, <1>6, <2>1 DEF After
      <3>2. After(p, f, w, None) # None
        BY <2>1, <3>1 DEF After
      <3>3. Cleans(Tail(p), f, w)
        BY <1>2, <3>2, RestCleans
      <3> QED BY <1>2, <1>8, <3>3
    <2>2. CASE ~Sets(p[1], f, w)
      <3>1. logger[f][w] = r
        BY <1>1, <1>3, <1>8, <2>2 DEF After
      <3>2. Cleans(p, f, w) /\ After(p, f, w, r) # None
        BY <1>6, <1>7, <1>8, <2>2, <3>1 DEF After, p
      <3>3. Cleans(Tail(p), f, w)
        BY <1>2, <3>2, RestCleans
      <3> QED BY <1>2, <1>8, <3>3
    <2> QED BY <2>1, <2>2
  <1>9. CASE x # r
    <2>1. logger[f][w] = x
      BY <1>1, <1>3, <1>5, <1>6, <1>9 DEF After
    <2> QED BY <1>2, <1>7, <1>9, <2>1
  <1> QED BY <1>8, <1>9

\* Whoever is alone but has nothing left to do is not touched by it,
LEMMA DoneOthersAlone ==
    ASSUME Inv, NEW r \in Requests, Done(r), NEW x \in Requests, x # r, alone[x]
    PROVE  AloneInv(x)'
  <1>1. AloneInv(x)
    BY DEF Inv
  <1>2. prog[r] # <<>> /\ prog[x] \in Seq(Own(x))
    BY DEF Done, Inv, ProgramsInv
  <1>3. prog[x] = <<>>
    BY <1>1, <1>2 DEF AloneInv
  <1>4. prog'[x] = <<>>
    BY <1>3 DEF Done, Inv, ProgramsInv
  <1>5. entry'[x] = entry[x] /\ recorder'[x] = recorder[x] /\ Told(x)' = Told(x)
    BY DEF Done, Told
  <1>6. DOMAIN prog'[x] = {}
    BY <1>4
  <1>7. \A f \in Told(x)', w \in Words : entry'[x][f][w] \in {x, None}
    BY <1>1, <1>5 DEF AloneInv
  <1>8. recorder'[x] \in {500, 502} => \A f \in ErrFields, w \in Words : entry'[x][f][w] = x
    <2>1. Failed(x) => \A f \in ErrFields, w \in Words : entry[x][f][w] = x
      BY <1>1, <1>3 DEF AloneInv
    <2> QED BY <1>5, <2>1 DEF Failed
  <1> QED BY <1>4, <1>6, <1>7, <1>8 DEF AloneInv, Failed

\* and whoever was alone finds what it would have found.
LEMMA DoneAlone ==
    ASSUME Inv, NEW r \in Requests, Done(r), alone[r]
    PROVE  AloneInv(r)'
  <1> DEFINE p == prog[r]  q == Tail(p)
  <1>1. p \in Seq(Own(r)) /\ p # <<>> /\ ReadsErrors(p)
    BY DEF Inv, ProgramsInv, Done
  <1>2. prog'[r] = q /\ \A x \in Requests \ {r} : prog'[x] = prog[x]
    BY DEF Done, Inv, ProgramsInv
  <1>3. /\ \A f \in Fields, w \in Words : logger'[f][w] = After(p, f, w, logger[f][w])
        /\ \A f \in Fields, w \in Words :
             entry'[r][f][w] = IF Gets(p[1], f, w) THEN logger[f][w] ELSE entry[r][f][w]
        /\ recorder'[r] = IF p[1].op = "header" THEN p[1].code ELSE recorder[r]
    BY DEF Done
  <1>4. AloneInv(r)
    BY DEF Inv
  <1>5. /\ \A f \in Told(r), w \in Words : entry[r][f][w] \in {r, None}
        /\ \A x \in Requests : x # r => prog[x] = <<>>
        /\ \A i \in DOMAIN p, f \in Told(r), w \in Words :
             Gets(p[i], f, w) => Finds(p, i, f, w, r, logger[f][w])
        /\ \A i \in DOMAIN p, f \in ErrFields, w \in Words :
             Fails(p[i]) => Holds(p, i, f, w, r, logger[f][w])
        /\ \A i \in DOMAIN p, f \in ErrFields, w \in Words :
             Gets(p[i], f, w) /\ (Failed(r) \/ FailsBefore(p, i)) =>
                 Holds(p, i, f, w, r, logger[f][w])
        /\ Failed(r) => \A f \in ErrFields, w \in Words :
             entry[r][f][w] = r \/ \E i \in DOMAIN p : Gets(p[i], f, w)
    BY <1>1, <1>4 DEF AloneInv
  <1> HIDE DEF p
  <1>6. /\ 1 \in DOMAIN p /\ DOMAIN p = 1 .. Len(p) /\ Len(p) \in Nat
        /\ \A i \in DOMAIN q : i + 1 \in DOMAIN p /\ q[i] = p[i + 1]
        /\ \A i \in DOMAIN p : i > 1 => i - 1 \in DOMAIN q /\ p[i] = q[i - 1]
    BY <1>1, TailShift
  <1>7. \A f, w : Sets(p[1], f, w) => p[1].value \in {r, None}
    <2>1. p[1] \in Own(r)
      BY <1>1, <1>6
    <2> QED BY <2>1 DEF Own, Sets
  <1>8. \A i \in DOMAIN q :
        \A f, w, x :
                 /\ Holds(p, i + 1, f, w, r, x) => Holds(q, i, f, w, r, After(p, f, w, x))
                 /\ Finds(p, i + 1, f, w, r, x) => Finds(q, i, f, w, r, After(p, f, w, x))
    BY <1>1, <1>7, RestHolds
  <1>9. \A i \in DOMAIN q : FailsBefore(p, i + 1) <=> Fails(p[1]) \/ FailsBefore(q, i)
    BY <1>1, RestHolds
  <1> HIDE DEF q
  \* Nothing comes before the first instruction.
  <1>10. \A f, w, x : Holds(p, 1, f, w, r, x) => x = r
    BY <1>6 DEF Holds
  <1>11. \A f, w, x : Finds(p, 1, f, w, r, x) => x \in {r, None}
    BY <1>6 DEF Finds
  <1>12. ErrFields \subseteq Fields /\ Told(r) \subseteq Fields /\ Told(r)' = Told(r)
    BY DEF ErrFields, Fields, Told, Done
  <1>13. recorder'[r] \in {500, 502} => Failed(r) \/ Fails(p[1])
    BY <1>3 DEF Failed, Fails
  <1>14. ASSUME NEW f \in Told(r), NEW w \in Words PROVE entry'[r][f][w] \in {r, None}
    BY <1>3, <1>5, <1>6, <1>11, <1>12
  <1>15. \A x \in Requests : x # r => prog'[x] = <<>>
    BY <1>2, <1>5
  <1>16. ASSUME NEW i \in DOMAIN q, NEW f \in Told(r), NEW w \in Words, Gets(q[i], f, w)
         PROVE  Finds(q, i, f, w, r, logger'[f][w])
    <2>1. Finds(p, i + 1, f, w, r, logger[f][w])
      BY <1>5, <1>6, <1>16
    <2> QED BY <1>3, <1>8, <1>12, <2>1
  <1>17. ASSUME NEW i \in DOMAIN q, NEW f \in ErrFields, NEW w \in Words, Fails(q[i])
         PROVE  Holds(q, i, f, w, r, logger'[f][w])
    <2>1. Holds(p, i + 1, f, w, r, logger[f][w])
      BY <1>5, <1>6, <1>17
    <2> QED BY <1>3, <1>8, <1>12, <2>1
  <1>18. ASSUME NEW i \in DOMAIN q, NEW f \in ErrFields, NEW w \in Words, Gets(q[i], f, w),
                recorder'[r] \in {500, 502} \/ FailsBefore(q, i)
         PROVE  Holds(q, i, f, w, r, logger'[f][w])
    <2>1. Failed(r) \/ FailsBefore(p, i + 1)
      BY <1>9, <1>13, <1>18
    <2>2. Holds(p, i + 1, f, w, r, logger[f][w])
      BY <1>5, <1>6, <1>18, <2>1
    <2> QED BY <1>3, <1>8, <1>12, <2>2
  <1>19. ASSUME recorder'[r] \in {500, 502}, NEW f \in ErrFields, NEW w \in Words
         PROVE  entry'[r][f][w] = r \/ \E i \in DOMAIN q : Gets(q[i], f, w)
    <2>1. CASE Fails(p[1])
      <3>1. PICK j \in DOMAIN p : j > 1 /\ Gets(p[j], f, w)
        BY <1>1, <1>6, <2>1 DEF ReadsErrors
      <3> QED BY <1>6, <3>1
    <2>2. CASE Failed(r) /\ ~Fails(p[1])
      <3>1. CASE Gets(p[1], f, w)
        <4>1. logger[f][w] = r
          BY <1>5, <1>6, <1>10, <2>2, <3>1
        <4> QED BY <1>3, <1>12, <3>1, <4>1
      <3>2. CASE ~Gets(p[1], f, w)
        <4>1. entry'[r][f][w] = entry[r][f][w]
          BY <1>3, <1>12, <3>2
        <4>2. entry[r][f][w] = r \/ \E i \in DOMAIN p : Gets(p[i], f, w)
          BY <1>5, <2>2
        <4>3. \A i \in DOMAIN p : Gets(p[i], f, w) => i > 1
          BY <1>6, <3>2
        <4> QED BY <1>6, <4>1, <4>2, <4>3
      <3> QED BY <3>1, <3>2
    <2> QED BY <1>13, <1>19, <2>1, <2>2
  <1> QED BY <1>2, <1>12, <1>14, <1>15, <1>16, <1>17, <1>18, <1>19 DEF AloneInv, Failed

\* A step of a request that runs keeps the invariant.
LEMMA DoneInv ==
    ASSUME Inv, NEW r \in Requests, SetWord(r) \/ GetWord(r) \/ WriteHeader(r) \/ Log(r)
    PROVE  Inv'
  <1>1. Done(r) /\ Shape'
    BY StepIsDone
  <1>2. TypeOK'
    BY <1>1, ShapeIs, PTL
  <1>3. ProgramsInv' /\ ErrorsInv'
    BY <1>1, DoneProgramsInv, DoneErrorsInv
  <1>4. ASSUME NEW x \in Requests, alone'[x] PROVE AloneInv(x)'
    <2>1. alone[x]
      BY <1>1, <1>4 DEF Done
    <2> QED BY <1>1, <2>1, DoneAlone, DoneOthersAlone
  <1> QED BY <1>2, <1>3, <1>4 DEF Inv

\* When nobody runs there is no error in the Logger.
LEMMA NobodyLeavesErrors ==
    ASSUME Inv, Running = {}
    PROVE  \A f \in ErrFields, w \in Words : logger[f][w] = None
  <1>1. SUFFICES ASSUME NEW f \in ErrFields, NEW w \in Words, logger[f][w] # None
                 PROVE  FALSE
    OBVIOUS
  <1>2. logger[f][w] \in Requests
    BY <1>1 DEF Inv, ProgramsInv, ErrFields, Fields, Values
  <1>3. PICK x \in Requests : logger[f][w] = x
    BY <1>2
  <1>4. Cleans(prog[x], f, w)
    BY <1>3 DEF Inv, ErrorsInv
  <1>5. prog[x] = <<>>
    BY DEF Running
  <1> QED BY <1>4, <1>5 DEF Cleans

\* A request that begins keeps the invariant: its program is one of Middleware.
LEMMA BeginInv ==
    ASSUME Inv, NEW r \in Requests, NEW k \in Kinds, Begin(r, k)
    PROVE  Inv'
  <1> DEFINE p == Program(r, k)
  <1>1. WellFormed(r, p, k # "mux")
    BY ProgramIs
  <1> HIDE DEF p
  <1>2. p \in Seq(Own(r)) /\ p # <<>> /\ Tidy(p) /\ LogsLast(p) /\ ReadsErrors(p)
    BY <1>1 DEF WellFormed
  <1>3. Shape
    BY ShapeIs
  <1>4. /\ ran[r] = "new" /\ ran' = [ran EXCEPT ![r] = "running"] /\ prog' = [prog EXCEPT ![r] = p]
        /\ logger' = logger /\ recorder' = recorder /\ entry' = entry
    BY DEF Begin, p
  <1>5. \A x \in Requests : alone'[x] => alone[x] /\ x \notin Running /\ (x = r => Running = {})
    BY DEF Begin
  <1>6. /\ alone' \in [Requests -> BOOLEAN] /\ handled' \in [Requests -> BOOLEAN]
        /\ handled'[r] = (k # "mux") /\ \A x \in Requests \ {r} : handled'[x] = handled[x]
    BY <1>3 DEF Begin, Shape
  <1>7. p \in Seq(Instructions)
    <2>1. Own(r) \subseteq Instructions
      BY DEF Own, Instructions, Values, Words
    <2> QED BY <1>2, <2>1
  <1>8. Shape'
    BY <1>3, <1>4, <1>6, <1>7 DEF Shape
  <1>9. TypeOK'
    BY <1>8, ShapeIs, PTL
  <1>10. prog'[r] = p /\ ran'[r] = "running"
    BY <1>3, <1>4 DEF Shape
  <1>11. \A x \in Requests \ {r} : prog'[x] = prog[x] /\ ran'[x] = ran[x]
    BY <1>3, <1>4 DEF Shape
  <1>12. prog[r] = <<>> /\ recorder[r] = 200 /\ \A f \in Fields, w \in Words : entry[r][f][w] = None
    BY <1>4 DEF Inv, ProgramsInv
  <1>13. ProgramsInv'
    <2>1. ASSUME NEW x \in Requests
          PROVE  /\ prog'[x] \in Seq(Own(x))
                 /\ Tidy(prog'[x]) /\ LogsLast(prog'[x]) /\ ReadsErrors(prog'[x])
                 /\ ran'[x] = "logged" => \A i \in DOMAIN prog'[x] : prog'[x][i].op = "set"
                 /\ ran'[x] = "new" =>
                      /\ prog'[x] = <<>> /\ recorder'[x] = 200
                      /\ \A f \in Fields, w \in Words : entry'[x][f][w] = None
      <3>1. CASE x = r
        BY <1>2, <1>10, <3>1
      <3>2. CASE x # r
        BY <1>4, <1>11, <3>2 DEF Inv, ProgramsInv
      <3> QED BY <3>1, <3>2
    <2> QED BY <1>8, <2>1 DEF ProgramsInv, Shape
  <1>14. ErrorsInv'
    <2>1. SUFFICES ASSUME NEW x \in Requests, NEW f \in ErrFields, NEW w \in Words, logger[f][w] = x
                   PROVE  Cleans(prog'[x], f, w)
      BY <1>4 DEF ErrorsInv
    <2>2. Cleans(prog[x], f, w)
      BY <2>1 DEF Inv, ErrorsInv
    <2>3. x # r
      BY <1>12, <2>2 DEF Cleans
    <2> QED BY <1>11, <2>2, <2>3
  <1>15. ASSUME NEW x \in Requests, x # r, alone'[x] PROVE AloneInv(x)'
    <2>1. AloneInv(x) /\ prog[x] = <<>>
      BY <1>5, <1>15 DEF Inv, Running
    <2>2. prog'[x] = <<>> /\ DOMAIN prog'[x] = {}
      BY <1>11, <1>15, <2>1
    <2>3. \A f \in Told(x)', w \in Words : entry'[x][f][w] \in {x, None}
      <3>1. Told(x)' = Told(x)
        BY <1>6, <1>15 DEF Told
      <3> QED BY <1>4, <2>1, <3>1 DEF AloneInv
    <2>4. recorder'[x] \in {500, 502} => \A f \in ErrFields, w \in Words : entry'[x][f][w] = x
      <3>1. Failed(x) => \A f \in ErrFields, w \in Words : entry[x][f][w] = x
        BY <2>1 DEF AloneInv
      <3> QED BY <1>4, <3>1 DEF Failed
    <2> QED BY <2>2, <2>3, <2>4 DEF AloneInv, Failed
  <1>16. ASSUME alone'[r] PROVE AloneInv(r)'
    <2>1. Running = {}
      BY <1>5, <1>16
    <2>2. \A f \in ErrFields, w \in Words : logger[f][w] = None
      BY <2>1, NobodyLeavesErrors
    <2>3. \A x \in Requests : x # r => prog'[x] = <<>>
      BY <1>11, <2>1 DEF Running
    <2>4. recorder'[r] \notin {500, 502} /\ \A f \in Told(r)', w \in Words : entry'[r][f][w] \in {r, None}
      BY <1>4, <1>12 DEF Told, ErrFields, Fields
    <2>5. ASSUME NEW i \in DOMAIN p, NEW f \in Told(r)', NEW w \in Words, Gets(p[i], f, w)
          PROVE  Finds(p, i, f, w, r, logger'[f][w])
      <3>1. CASE f \in ErrFields
        BY <1>4, <2>2, <3>1 DEF Finds
      <3>2. CASE f \notin ErrFields
        <4>1. k # "mux" /\ f \in Fields
          BY <1>6, <2>5, <3>2 DEF Told
        <4> QED BY <1>1, <2>5, <3>2, <4>1 DEF WellFormed, Finds
      <3> QED BY <3>1, <3>2
    <2>6. ASSUME NEW i \in DOMAIN p, NEW f \in ErrFields, NEW w \in Words,
                 Fails(p[i]) \/ (Gets(p[i], f, w) /\ FailsBefore(p, i))
          PROVE  Holds(p, i, f, w, r, logger'[f][w])
      <3>1. Holds(p, i, f, w, r, None)
        BY <1>1, <2>6 DEF WellFormed, FailsBefore
      <3> QED BY <1>4, <2>2, <3>1
    <2> QED BY <1>10, <2>3, <2>4, <2>5, <2>6 DEF AloneInv, Failed
  <1> QED BY <1>9, <1>13, <1>14, <1>15, <1>16 DEF Inv

\* The invariant holds when the Logger is new.
LEMMA InitInv == Init => Inv
  <1> SUFFICES ASSUME Init PROVE Inv
    OBVIOUS
  <1>1. /\ \A f \in Fields, w \in Words : logger[f][w] = None
        /\ \A r \in Requests : prog[r] = <<>> /\ recorder[r] = 200 /\ ran[r] = "new"
        /\ \A r \in Requests, f \in Fields, w \in Words : entry[r][f][w] = None
    BY DEF Init, NoWords, NewRecorder, Words
  <1>2. Shape
    BY DEF Init, NoWords, NewRecorder, Words, Shape, Values, Codes
  <1>3. TypeOK
    BY <1>2, ShapeIs
  <1>4. ProgramsInv
    <2>1. ASSUME NEW r \in Requests PROVE DOMAIN prog[r] = {} /\ prog[r] \in Seq(Own(r))
      <3>1. \A S : <<>> \in Seq(S)
        OBVIOUS
      <3>2. prog[r] = <<>>
        BY <1>1
      <3>3. prog[r] \in Seq(Own(r))
        BY <3>1, <3>2, Zenon
      <3>4. DOMAIN prog[r] = {}
        BY <3>2
      <3> QED BY <3>3, <3>4
    <2>2. \A r \in Requests : Tidy(prog[r]) /\ LogsLast(prog[r]) /\ ReadsErrors(prog[r])
      BY <2>1 DEF Tidy, LogsLast, ReadsErrors
    <2> QED BY <1>1, <1>2, <2>1, <2>2 DEF ProgramsInv, Shape
  <1>5. ErrorsInv
    BY <1>1, LoggerAssumption DEF ErrorsInv, ErrFields, Fields
  <1>6. ASSUME NEW r \in Requests PROVE AloneInv(r)
    <2>1. DOMAIN prog[r] = {} /\ ~Failed(r)
      BY <1>1 DEF Failed
    <2> QED BY <1>1, <2>1 DEF AloneInv, Told, ErrFields, Fields
  <1> QED BY <1>3, <1>4, <1>5, <1>6 DEF Inv

\* Every step keeps it.
LEMMA NextInv == Inv /\ [Next]_logVars => Inv'
  <1> SUFFICES ASSUME Inv, [Next]_logVars PROVE Inv'
    OBVIOUS
  <1>1. CASE Next
    <2>1. CASE \E r \in Requests, k \in Kinds : Begin(r, k)
      BY <2>1, BeginInv
    <2>2. CASE \E r \in Requests : SetWord(r) \/ GetWord(r) \/ WriteHeader(r) \/ Log(r)
      BY <2>2, DoneInv
    <2> QED BY <1>1, <2>1, <2>2 DEF Next
  <1>2. CASE UNCHANGED logVars
    <2>1. /\ logger' = logger /\ prog' = prog /\ recorder' = recorder /\ entry' = entry
          /\ ran' = ran /\ alone' = alone /\ handled' = handled
      BY <1>2 DEF logVars
    <2>2. TypeOK'
      BY <2>1 DEF Inv, TypeOK
    <2>3. ProgramsInv'
      BY <2>1 DEF Inv, ProgramsInv
    <2>4. ErrorsInv'
      BY <2>1 DEF Inv, ErrorsInv
    <2>5. ASSUME NEW r \in Requests, alone'[r] PROVE AloneInv(r)'
      <3>1. AloneInv(r)
        BY <2>1, <2>5 DEF Inv
      <3> QED BY <2>1, <3>1 DEF AloneInv, Failed, Told
    <2> QED BY <2>2, <2>3, <2>4, <2>5 DEF Inv
  <1> QED BY <1>1, <1>2

-----------------------------------------------------------------------------
(* The theorems.                                                           *)

\* The inductive invariant is one: the programs that Middleware gives to requests
\* keep their shape while they are carried out word by word, whoever left an error
\* has still to clean it, and a request that has run alone finds its own
\* error, and its own trace if it reached a handler.
THEOREM LoggerInvariant == Spec => []Inv
  BY InitInv, NextInv, PTL DEF Spec

\* Every variable of the logger has its type, always.
THEOREM TypeCorrect == Spec => []TypeOK
  <1>1. Inv => TypeOK
    BY DEF Inv
  <1> QED BY <1>1, LoggerInvariant, PTL

\* The error in the Logger is always that of a request that still runs, and so
\* its deferred function has still to clean it: for any number of requests,
\* overlapping in any way, those cut by a panic included.
THEOREM ErrorsCurrent == Spec => []ErrorsAreCurrent
  <1>1. Inv => ErrorsAreCurrent
    <2>1. SUFFICES ASSUME Inv, NEW f \in ErrFields, NEW w \in Words
                   PROVE  logger[f][w] \in Running \cup {None}
      BY DEF ErrorsAreCurrent, ErrFields, Words
    <2>2. logger[f][w] \in Requests \cup {None}
      BY <2>1 DEF Inv, ProgramsInv, ErrFields, Fields, Values
    <2>3. ASSUME NEW r \in Requests, logger[f][w] = r PROVE r \in Running
      <3>1. Cleans(prog[r], f, w)
        BY <2>1, <2>3 DEF Inv, ErrorsInv
      <3>2. prog[r] # <<>>
        BY <3>1 DEF Cleans
      <3> QED BY <3>2 DEF Running
    <2> QED BY <2>2, <2>3
  <1> QED BY <1>1, LoggerInvariant, PTL

\* A request that ran alone is logged with its own error and, if it reached a
\* handler, with no foreign trace, whatever was logged, or cut, before it.
THEOREM AloneRight == Spec => []AloneIsRight
  <1>1. Inv => AloneIsRight
    <2>1. SUFFICES ASSUME Inv, NEW r \in Requests, ran[r] = "logged", alone[r]
                   PROVE  /\ \A f \in Fields, w \in {1, 2} :
                               f \in {"lastErr", "lastErrDescription"} \/ handled[r] =>
                                   entry[r][f][w] \in {r, None}
                          /\ Failed(r) => \A f \in {"lastErr", "lastErrDescription"} :
                                             entry[r][f] = [w \in {1, 2} |-> r]
      BY DEF AloneIsRight
    <2>2. AloneInv(r)
      BY <2>1 DEF Inv
    <2>3. \A f \in Fields, w \in {1, 2} : f \in ErrFields \/ handled[r] => entry[r][f][w] \in {r, None}
      BY <2>2 DEF AloneInv, Words, Told
    <2>4. ASSUME Failed(r), NEW f \in ErrFields PROVE entry[r][f] = [w \in {1, 2} |-> r]
      <3>1. \A i \in DOMAIN prog[r] : prog[r][i].op = "set"
        BY <2>1 DEF Inv, ProgramsInv
      <3>2. \A w \in Words : entry[r][f][w] = r
        BY <2>2, <2>4, <3>1 DEF AloneInv, Gets
      <3>3. entry[r][f] \in [Words -> Values]
        BY <2>1 DEF Inv, TypeOK, Words, ErrFields, Fields
      <3> QED BY <3>2, <3>3 DEF Words
    <2> QED BY <2>3, <2>4 DEF ErrFields
  <1> QED BY <1>1, LoggerInvariant, PTL

=============================================================================
