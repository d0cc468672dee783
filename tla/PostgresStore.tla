---------------------------- MODULE PostgresStore ----------------------------
(***************************************************************************)
(* SessionImpl as postgresql.go implements it: every goroutine uses the one*)
(* pgx.Conn the process has.  A statement is sent on the connection, run by*)
(* the server and answered on the connection; the statements themselves are*)
(* those of SessionTable.                                                  *)
(*                                                                         *)
(* pgx (external) refuses a statement while another one is under way ("conn*)
(* busy"), and closes the connection for good when the context of the      *)
(* statement under way is cancelled, as it does not know what to make of an*)
(* answer nobody waits for.  Its busy flag is tested and set without a     *)
(* lock; the model does both in one step, so that two statements are never *)
(* sent at once.  What the properties say holds as long as no two          *)
(* goroutines pass that test together.                                     *)
(***************************************************************************)
EXTENDS SessionTable, Sequences

CONSTANTS
    Handlers,    \* goroutines that serve requests
    Cleaner,     \* the goroutine of expiredSessionsCleaner
    Inputs,      \* the SessionData handlers may want to store
    Cancellable, \* whose context may be cancelled: a handler's when its browser
                 \* gives up, the cleaner's when the process is told to stop
    MaxTime      \* bound: the clock stops here

ASSUME StoreAssumption ==
    /\ Cleaner \notin Handlers
    /\ Inputs \subseteq SessionData
    /\ Cancellable \subseteq Handlers \cup {Cleaner}
    /\ MaxTime \in Nat

VARIABLES
    status,    \* of the connection: "idle", "busy", "closed"
    wire,      \* statements sent that the server has not run yet
    answers,   \* answers of the server that nobody has read yet
    call,      \* call[c]: the call of SessionImpl that goroutine c is in
    owner,     \* owner[id]: the subject session id was added for, None if the
               \* uuid was never drawn (history: it outlives the row)
    known      \* the session ids that Add has returned, which cookies may hold

pgVars == <<rows, now, status, wire, answers, call, owner, known>>

-----------------------------------------------------------------------------

Callers == Handlers \cup {Cleaner}
Ops == {"none", "Add", "Delete", "Get", "Update", "Purge"}
Stmts == {"none", "insert", "delete", "select", "update", "purge"}

\* What a statement, and with it a call, ends in: "refused" before anything was
\* sent, "broken" while it waited for the answer, or what the server answered.
Errors == {"none", "refused", "broken", "norows", "check", "mismatch"}

Statement == [by : Callers, stmt : Stmts, id : SessionIDs \cup {None}, d : SessionData]
Answer == [stmt : Stmts, err : Errors, data : SessionData]

Calls == [pc     : {"idle", "call", "wait", "done"},
          op     : Ops,
          stmt   : Stmts,                     \* the statement it is at
          id     : SessionIDs \cup {None},
          d      : SessionData,               \* the argument
          err    : Errors,
          data   : SessionData,               \* what Get returns
          wrote  : BOOLEAN]                   \* history: did it change the table?

NoCall == [pc |-> "idle", op |-> "none", stmt |-> "none", id |-> None,
           d |-> NoData, err |-> "none", data |-> NoData, wrote |-> FALSE]

\* Every variable has its type.
TypeOK ==
    /\ rows \in [SessionIDs -> Row \cup {None}]
    /\ now \in Nat
    /\ status \in {"idle", "busy", "closed"}
    /\ wire \in Seq(Statement)
    /\ answers \in Seq(Answer)
    /\ call \in [Callers -> Calls]
    /\ owner \in [SessionIDs -> Subjects \cup {None}]
    /\ known \subseteq SessionIDs

\* NewPostgresqlSessionImpl has connected and created the table.
Init ==
    /\ rows = [id \in SessionIDs |-> None]
    /\ now = 0
    /\ status = "idle"
    /\ wire = <<>>
    /\ answers = <<>>
    /\ call = [c \in Callers |-> NoCall]
    /\ owner = [id \in SessionIDs |-> None]
    /\ known = {}

-----------------------------------------------------------------------------
(* Calls.                                                                  *)

\* The first statement of an operation; Update begins with db.Get.
FirstStmt(op) ==
    CASE op = "Add"    -> "insert"
      [] op = "Delete" -> "delete"
      [] op = "Get"    -> "select"
      [] op = "Update" -> "select"
      [] op = "Purge"  -> "purge"

Begin(c, op, id, d) ==
    /\ call[c].pc = "idle"
    /\ call' = [call EXCEPT ![c] = [NoCall EXCEPT !.pc = "call", !.op = op,
                                    !.stmt = FirstStmt(op), !.id = id, !.d = d]]
    /\ UNCHANGED <<rows, now, status, wire, answers, known>>

\* A handler calls Add: the uuid is drawn before the statement is sent.
CallAdd(c, d) ==
    \E id \in SessionIDs :
        /\ owner[id] = None
        /\ owner' = [owner EXCEPT ![id] = d.sub]
        /\ Begin(c, "Add", id, d)

\* Delete, Get and Update: handlers have the ids that Add has returned.
CallLookup(c, op, id, d) ==
    /\ id \in known
    /\ Begin(c, op, id, d)
    /\ UNCHANGED owner

\* Purge takes the time before it sends the statement.
CallPurge ==
    /\ Begin(Cleaner, "Purge", None, [NoData EXCEPT !.exp = now])
    /\ UNCHANGED owner

-----------------------------------------------------------------------------
(* The connection (pgx).                                                   *)

\* The call returns to the handler.
Finish(c, err, data) ==
    call' = [call EXCEPT ![c] = [@ EXCEPT !.pc = "done", !.err = err, !.data = data]]

\* The connection is busy or closed: the statement is not sent.
Refuse(c) ==
    /\ call[c].pc = "call"
    /\ status # "idle"
    /\ Finish(c, "refused", NoData)
    /\ UNCHANGED <<rows, now, status, wire, answers, owner, known>>

\* Nor is it if the context has been cancelled before.
TooLate(c) ==
    /\ call[c].pc = "call"
    /\ c \in Cancellable
    /\ Finish(c, "refused", NoData)
    /\ UNCHANGED <<rows, now, status, wire, answers, owner, known>>

\* The statement marks the connection busy and is sent.
Send(c) ==
    /\ call[c].pc = "call"
    /\ status = "idle"
    /\ status' = "busy"
    /\ wire' = Append(wire, [by |-> c, stmt |-> call[c].stmt,
                             id |-> call[c].id, d |-> call[c].d])
    /\ call' = [call EXCEPT ![c].pc = "wait"]
    /\ UNCHANGED <<rows, now, answers, owner, known>>

\* Mutant of Valid: no CHECK constraint on the tokens.
ValidSubject(d) == d.sub \in Subjects

\* The CHECK constraints of the table.
Valid(d) == Stored(d) \in Row

\* What the server answers to statement m.
Outcome(m) ==
    [stmt |-> m.stmt,
     err  |-> IF m.stmt = "select" /\ ~Exists(m.id) THEN "norows"
              ELSE IF \/ m.stmt = "insert" /\ ~Valid(m.d)
                      \/ m.stmt = "update" /\ ~Valid(m.d) /\ Exists(m.id) THEN "check"
              ELSE "none",
     data |-> IF m.stmt = "select" /\ Exists(m.id) THEN Get(m.id) ELSE NoData]

\* What it does to the table.
Effect(m) ==
    \/ m.stmt = "insert" /\ Valid(m.d) /\ Add(m.id, m.d)
    \/ m.stmt = "update" /\ Valid(m.d) /\ UpdateExec(m.id, m.d)
    \/ m.stmt \in {"insert", "update"} /\ ~Valid(m.d) /\ UNCHANGED rows
    \/ m.stmt = "select" /\ UNCHANGED rows
    \/ m.stmt = "delete" /\ Delete(m.id)
    \/ /\ m.stmt = "purge"
       /\ rows' = [id \in SessionIDs |->
                     IF Exists(id) /\ rows[id].expiresAt < Unix(m.d.exp)
                     THEN None ELSE rows[id]]

\* The server runs the next statement, even one whose sender has gone.
Execute ==
    /\ wire # <<>>
    /\ Effect(Head(wire))
    /\ wire' = Tail(wire)
    /\ answers' = IF status = "closed" THEN answers
                  ELSE Append(answers, Outcome(Head(wire)))
    /\ call' = IF call[Head(wire).by].pc = "wait" /\ rows' # rows
               THEN [call EXCEPT ![Head(wire).by].wrote = TRUE] ELSE call
    /\ UNCHANGED <<now, status, owner, known>>

\* Mutant of UpdateSelected: the subjects are not compared.
UpdateSelectedAny(c, data) ==
    call' = [call EXCEPT ![c] = [@ EXCEPT !.pc = "call", !.stmt = "update"]]

\* After the SELECT of Update: another subject is ErrSessionsMismatch, the same
\* one lets the UPDATE go ahead.
UpdateSelected(c, data) ==
    IF call[c].d.sub # data.sub THEN Finish(c, "mismatch", NoData)
    ELSE call' = [call EXCEPT ![c] = [@ EXCEPT !.pc = "call", !.stmt = "update"]]

\* A goroutine reads the next answer, whoever asked for it, and the connection
\* is idle again.  An answer to another kind of statement makes no sense to it.
Receive(c) ==
    LET a == Head(answers) IN
    /\ call[c].pc = "wait"
    /\ answers # <<>>
    /\ answers' = Tail(answers)
    /\ status' = "idle"
    /\ IF a.stmt # call[c].stmt THEN Finish(c, "broken", NoData)
       ELSE IF a.err # "none" THEN Finish(c, a.err, NoData)
       ELSE IF call[c].op = "Update" /\ a.stmt = "select" THEN UpdateSelected(c, a.data)
       ELSE Finish(c, "none", a.data)
    /\ UNCHANGED <<rows, now, wire, owner, known>>

\* The connection is closed: what was answered is never read, and what was sent
\* may still be run.
Close ==
    /\ status' = "closed"
    /\ answers' = <<>>

\* The browser gives up, or the process is told to stop, while the statement is
\* under way: pgx closes the connection.
Cancel(c) ==
    /\ call[c].pc = "wait"
    /\ c \in Cancellable
    /\ status # "closed"
    /\ Close
    /\ Finish(c, "broken", NoData)
    /\ UNCHANGED <<rows, now, wire, owner, known>>

\* Mutant of ReadFails: the error says that the connection was closed before.
ReadFailsAsRefused(c) ==
    /\ call[c].pc = "wait"
    /\ status = "closed"
    /\ Finish(c, "refused", NoData)
    /\ UNCHANGED <<rows, now, status, wire, answers, owner, known>>

\* A goroutine waiting on a connection that was closed by another gets an error.
ReadFails(c) ==
    /\ call[c].pc = "wait"
    /\ status = "closed"
    /\ Finish(c, "broken", NoData)
    /\ UNCHANGED <<rows, now, status, wire, answers, owner, known>>

\* CloseConnection, called when the process ends.
CloseConnection ==
    /\ Cleaner \in Cancellable
    /\ status # "closed"
    /\ Close
    /\ UNCHANGED <<rows, now, wire, call, owner, known>>

\* The connection is closed before the server has read the statement.
Drop ==
    /\ status = "closed"
    /\ wire # <<>>
    /\ wire' = <<>>
    /\ UNCHANGED <<rows, now, status, answers, call, owner, known>>

\* The handler, or the cleaner, goes on with what the call returned.
Return(c) ==
    /\ call[c].pc = "done"
    /\ call' = [call EXCEPT ![c] = NoCall]
    /\ known' = IF call[c].op = "Add" /\ call[c].err = "none"
                THEN known \cup {call[c].id} ELSE known
    /\ UNCHANGED <<rows, now, status, wire, answers, owner>>

Tick ==
    /\ now < MaxTime
    /\ now' = now + 1
    /\ UNCHANGED <<rows, status, wire, answers, call, owner, known>>

-----------------------------------------------------------------------------

\* What a goroutine inside a call does without any help.
Step(c) ==
    \/ Refuse(c)
    \/ Send(c)
    \/ Receive(c)
    \/ ReadFails(c)
    \/ Return(c)

Next ==
    \/ \E c \in Handlers, d \in Inputs : CallAdd(c, d)
    \/ \E c \in Handlers, id \in SessionIDs, op \in {"Delete", "Get"} :
          CallLookup(c, op, id, NoData)
    \/ \E c \in Handlers, id \in SessionIDs, d \in Inputs : CallLookup(c, "Update", id, d)
    \/ CallPurge
    \/ \E c \in Callers : Step(c)
    \/ \E c \in Callers : TooLate(c)
    \/ \E c \in Callers : Cancel(c)
    \/ Execute
    \/ CloseConnection
    \/ Drop
    \/ Tick

Spec == Init /\ [][Next]_pgVars

-----------------------------------------------------------------------------
(* What the store promises.                                                *)

\* A call that fails with anything but a connection broken under it has left
\* the table alone: the handler may tell the browser that nothing was done.
FailedCallsLeaveNoTrace ==
    \A c \in Callers :
        call[c].pc = "done" /\ call[c].err \notin {"none", "broken"} => ~call[c].wrote

\* A session stays with the subject it was added for, however the two statements
\* of Update and the calls of others overlap.
SubjectsStay == \A id \in SessionIDs : Exists(id) => rows[id].sub = owner[id]

\* A session whose Add has returned and which was deleted or purged since never
\* comes back, although Update checks in one statement and writes in another and
\* statements may outlive the calls that sent them.
DeletedStaysDeleted ==
    [][\A id \in known : ~Exists(id) => rows'[id] = None]_pgVars

=============================================================================
