---------------------------- MODULE RequestLogger ----------------------------
(***************************************************************************)
(* zlogger: one Logger is shared by all requests.  A handler leaves its    *)
(* trace and its error in the fields of the Logger, Middleware puts them   *)
(* into the entry of the request and cleans the error; the trace stays     *)
(* until FromContext is called again, by a handler, by the cleaner of the  *)
(* sessions or by main.  There is no lock.                                 *)
(*                                                                         *)
(* Each request is a straight program of reads and writes, whose order is  *)
(* that of the code.  A field is a Go string or an interface, two words in *)
(* memory: a read while another goroutine writes may get one word of each. *)
(***************************************************************************)
EXTENDS Naturals, Sequences

CONSTANTS
    Requests,    \* each stands for its trace and its error, too
    Kinds,       \* how a request may go: see Handler and Program
    None         \* an empty string, nil

ASSUME LoggerAssumption ==
    /\ None \notin Requests
    /\ Kinds \subseteq {"served", "failed", "notfound", "late", "closed", "gateway", "abort", "mux",
                  "main"}

VARIABLES
    logger,    \* logger[f]: the two words of field f
    prog,      \* prog[r]: what request r has still to do
    recorder,  \* recorder[r]: the status its StatusRecorder has recorded
    entry,     \* entry[r]: the fields as Middleware read them for the entry
    ran,       \* how far r is: "new", "running", "logged", "cut" (no entry)
    alone,     \* alone[r]: nobody else has run while r did
    handled    \* handled[r]: r was given to a handler, which calls FromContext

logVars == <<logger, prog, recorder, entry, ran, alone, handled>>

-----------------------------------------------------------------------------

Fields == {"traceID", "spanID", "lastErr", "lastErrDescription"}
Values == Requests \cup {None}
Codes == {200, 301, 404, 500, 502}

Instructions ==
    [op : {"set", "get"}, field : Fields, word : {1, 2}, value : Values]
        \cup [op : {"header"}, code : Codes] \cup [op : {"log"}]

\* Every variable has its type.
TypeOK ==
    /\ logger \in [Fields -> [{1, 2} -> Values]]
    /\ \A r \in Requests : \A i \in DOMAIN prog[r] : prog[r][i] \in Instructions
    /\ recorder \in [Requests -> Codes]
    /\ entry \in [Requests -> [Fields -> [{1, 2} -> Values]]]
    /\ ran \in [Requests -> {"new", "running", "logged", "cut"}]
    /\ alone \in [Requests -> BOOLEAN]
    /\ handled \in [Requests -> BOOLEAN]

-----------------------------------------------------------------------------
(* The programs.                                                           *)

Set(f, v) ==
    [w \in 1 .. 2 |-> [op |-> "set", field |-> f, word |-> w, value |-> v]]
Read(f) ==
    [w \in 1 .. 2 |-> [op |-> "get", field |-> f, word |-> w, value |-> None]]
Header(code) == <<[op |-> "header", code |-> code]>>

\* FromContext: trace and span of the context, or none.
FromContext(ctx) == Set("traceID", ctx) \o Set("spanID", ctx)

SetError(err) == Set("lastErrDescription", err) \o Set("lastErr", err)

JsonError(err, code) == SetError(err) \o Header(code)

\* What a handler may do: answer; answer with an error, or rootHandler's 404
\* without one; fail in the middle of an answer (userinfo's io.Copy) or after it
\* (its Body.Close); the proxy's ErrorHandler, whose context is main's; a panic
\* while the answer is copied.  A request that ServeMux answers itself, with a
\* redirect to the clean path, reaches no handler.
Handler(r, k) ==
    IF k = "mux" THEN Header(301) ELSE
    FromContext(r) \o
    CASE k = "served"  -> Header(200)
      [] k = "failed"  -> JsonError(r, 500)
      [] k = "notfound" -> JsonError(None, 404)
      [] k = "late"    -> Header(200) \o JsonError(r, 500)
      [] k = "closed"  -> Header(200) \o SetError(r)
      [] k = "gateway" -> FromContext(None) \o JsonError(r, 502)
      [] k = "abort"   -> Header(200)

\* The entry: trace and span, then the error and its description.
LogEntry ==
    Read("traceID") \o Read("spanID") \o Read("lastErr") \o Read("lastErrDescription")
        \o <<[op |-> "log"]>>

\* Mutant of Clean: the error itself is not cleaned.
CleanDescription == Set("lastErrDescription", None)

\* The deferred function of Middleware.
Clean == Set("lastErrDescription", None) \o Set("lastErr", None)

\* Mutant of Middleware: the state is cleaned before the entry is written.
MiddlewareCleansFirst(r, k) ==
    Handler(r, k) \o Clean \o (IF k = "abort" THEN <<>> ELSE LogEntry)

\* A panic passes the entry by, not the deferred function.
Middleware(r, k) ==
    Handler(r, k) \o (IF k = "abort" THEN <<>> ELSE LogEntry) \o Clean

\* The cleaner, when it ends or Purge has failed, and main, when the cleaner has
\* ended, log something, too: with main's context, which has no trace, and
\* without Middleware.
Program(r, k) == IF k = "main" THEN FromContext(None) ELSE Middleware(r, k)

-----------------------------------------------------------------------------
(* Their execution.                                                        *)

NoWords == [w \in {1, 2} |-> None]

\* Mutant of NewRecorder: Status has Go's zero value.
NewRecorderZero == 0

NewRecorder == 200

Init ==
    /\ logger = [f \in Fields |-> NoWords]
    /\ prog = [r \in Requests |-> <<>>]
    /\ recorder = [r \in Requests |-> NewRecorder]
    /\ entry = [r \in Requests |-> [f \in Fields |-> NoWords]]
    /\ ran = [r \in Requests |-> "new"]
    /\ alone = [r \in Requests |-> TRUE]
    /\ handled = [r \in Requests |-> TRUE]

Running == {r \in Requests : prog[r] # <<>>}

\* A request comes in, or one of main's goroutines logs something.
Begin(r, k) ==
    /\ ran[r] = "new"
    /\ ran' = [ran EXCEPT ![r] = "running"]
    /\ prog' = [prog EXCEPT ![r] = Program(r, k)]
    /\ alone' = [x \in Requests |->
                   alone[x] /\ x \notin Running /\ (x = r => Running = {})]
    /\ handled' = [handled EXCEPT ![r] = (k # "mux")]
    /\ UNCHANGED <<logger, recorder, entry>>

Does(r, op) ==
    /\ prog[r] # <<>>
    /\ Head(prog[r]).op = op
    /\ prog' = [prog EXCEPT ![r] = Tail(@)]

\* One word of a field is written; a request that ends without an entry was cut.
SetWord(r) ==
    LET i == Head(prog[r]) IN
    /\ Does(r, "set")
    /\ logger' = [logger EXCEPT ![i.field][i.word] = i.value]
    /\ ran' = IF Len(prog[r]) = 1 /\ ran[r] = "running" THEN [ran EXCEPT ![r] = "cut"] ELSE ran
    /\ UNCHANGED <<recorder, entry, alone, handled>>

GetWord(r) ==
    LET i == Head(prog[r]) IN
    /\ Does(r, "get")
    /\ entry' = [entry EXCEPT ![r][i.field][i.word] = logger[i.field][i.word]]
    /\ UNCHANGED <<logger, recorder, ran, alone, handled>>

\* WriteHeader: the recorder keeps the last status (net/http sends the first).
WriteHeader(r) ==
    /\ Does(r, "header")
    /\ recorder' = [recorder EXCEPT ![r] = Head(prog[r]).code]
    /\ UNCHANGED <<logger, entry, ran, alone, handled>>

\* The entry is written.
Log(r) ==
    /\ Does(r, "log")
    /\ ran' = [ran EXCEPT ![r] = "logged"]
    /\ UNCHANGED <<logger, recorder, entry, alone, handled>>

Next ==
    \/ \E r \in Requests, k \in Kinds : Begin(r, k)
    \/ \E r \in Requests : SetWord(r)
    \/ \E r \in Requests : GetWord(r)
    \/ \E r \in Requests : WriteHeader(r)
    \/ \E r \in Requests : Log(r)

Spec == Init /\ [][Next]_logVars

-----------------------------------------------------------------------------
(* Properties.                                                             *)

\* An error never stays in the Logger longer than its request, however requests
\* overlap and even when a handler panics: no later entry can pick it up.
ErrorsAreCurrent ==
    \A f \in {"lastErr", "lastErrDescription"}, w \in {1, 2} :
        logger[f][w] \in Running \cup {None}

\* The requests that left an error for their entries.
Failed(r) == recorder[r] \in {500, 502}

\* A request that ran alone is logged with its own error, whatever was logged
\* before it; one that reached a handler with no trace but its own, too.
AloneIsRight ==
    \A r \in Requests : ran[r] = "logged" /\ alone[r] =>
        /\ \A f \in Fields, w \in {1, 2} :
             f \in {"lastErr", "lastErrDescription"} \/ handled[r] => entry[r][f][w] \in {r, None}
        /\ Failed(r) => \A f \in {"lastErr", "lastErrDescription"} :
                            entry[r][f] = [w \in {1, 2} |-> r]

=============================================================================
