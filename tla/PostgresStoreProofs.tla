------------------------- MODULE PostgresStoreProofs -------------------------
(* Theorems about PostgresStore, for every value of its constants: any number *)
(* of handlers, sessions and subjects, any of them cancelled at any time.     *)
EXTENDS PostgresStore, SequenceTheorems, TLAPS

USE TableAssumption, StoreAssumption

-----------------------------------------------------------------------------
(* The inductive invariant.                                                *)

\* The statement goroutine c has asked for.
Asked(c) == [by |-> c, stmt |-> call[c].stmt, id |-> call[c].id, d |-> call[c].d]

\* An Add of data the table will take, from the call to its return.
Adds(c) == call[c].pc # "idle" /\ call[c].op = "Add" /\ Valid(call[c].d)

\* The statements of each operation.
StmtsOf(op) ==
    CASE op = "Add"    -> {"insert"}
      [] op = "Delete" -> {"delete"}
      [] op = "Get"    -> {"select"}
      [] op = "Update" -> {"select", "update"}
      [] op = "Purge"  -> {"purge"}

\* What a call has and has not done, wherever it is;
CallInv(c) ==
    LET k == call[c] IN
    k.pc # "idle" =>
        /\ k.op # "none" /\ k.stmt \in StmtsOf(k.op)
        /\ k.op # "Purge" => k.id \in SessionIDs
        /\ k.op \in {"Delete", "Get", "Update"} => k.id \in known
        /\ k.pc = "call" => ~k.wrote
        /\ k.stmt = "select" => ~k.wrote
        /\ k.stmt = "update" => k.d.sub = owner[k.id]
        /\ k.pc = "done" /\ k.err \notin {"none", "broken"} => ~k.wrote
        /\ k.pc = "done" /\ k.err = "none" /\ k.op = "Add" => Valid(k.d)
        /\ Adds(c) => owner[k.id] = k.d.sub /\ k.id \notin known

\* an id is added once;
AddsInv ==
    \A c, x \in Callers : Adds(c) /\ Adds(x) /\ call[c].id = call[x].id => c = x

\* an answer is that of the goroutine that waits;
AnswersTo(c, a) ==
    /\ a.stmt = call[c].stmt
    /\ a.err \in {"none", "norows", "check"}
    /\ a.err # "none" => ~call[c].wrote
    /\ a.stmt = "select" /\ a.err = "none" => a.data.sub = owner[call[c].id]
    /\ a.stmt = "insert" /\ a.err = "none" => Valid(call[c].d)

\* a statement on its way, whose sender may have gone, writes for the owner, and
\* inserts only what nobody has been told of;
StatementInv(m) ==
    /\ m.stmt # "none"
    /\ m.stmt # "purge" => m.id \in SessionIDs
    /\ m.stmt = "update" => m.d.sub = owner[m.id] /\ m.id \in known
    /\ m.stmt = "insert" /\ Valid(m.d) =>
         /\ owner[m.id] = m.d.sub
         /\ m.id \notin known
         /\ \A c \in Callers : Adds(c) /\ call[c].id = m.id =>
              call[c].pc = "wait" \/ (call[c].pc = "done" /\ call[c].err = "broken")

\* and one goroutine at a time waits, with its own statement or answer under way.
Idle == /\ wire = <<>>
        /\ answers = <<>>
        /\ \A c \in Callers : call[c].pc # "wait"

Busy == \E c \in Callers :
          /\ call[c].pc = "wait"
          /\ \A x \in Callers : call[x].pc = "wait" => x = c
          /\ \/ wire = <<Asked(c)>> /\ answers = <<>> /\ ~call[c].wrote
             \/ wire = <<>> /\ \E a \in Answer : answers = <<a>> /\ AnswersTo(c, a)

Closed == /\ answers = <<>>
          /\ \A c, x \in Callers : call[c].pc = "wait" /\ call[x].pc = "wait" => x = c
          /\ \/ wire = <<>>
             \/ \E m \in Statement :
                  wire = <<m>> /\ (call[m.by].pc = "wait" => m = Asked(m.by))

ConnectionInv ==
    /\ status = "idle" => Idle
    /\ status = "busy" => Busy
    /\ status = "closed" => Closed
    /\ \A m \in Statement : wire = <<m>> => StatementInv(m)

StoreInv ==
    /\ \A c \in Callers : CallInv(c)
    /\ AddsInv
    /\ ConnectionInv
    /\ \A id \in known : owner[id] \in Subjects
    /\ SubjectsStay

Inv == TypeOK /\ StoreInv

-----------------------------------------------------------------------------
(* Types.                                                                  *)

\* SessionData{} is SessionData.
LEMMA NoDataType == NoData \in SessionData
  BY DEF NoData, SessionData, ZeroTime

\* Data that the CHECK constraints accept have a subject, and make a row.
LEMMA ValidData ==
    ASSUME NEW d \in SessionData, Valid(d)
    PROVE  d.sub \in Subjects /\ d.sub # None /\ Stored(d) \in Row /\ Stored(d).sub = d.sub
  BY DEF Valid, Stored, Row

\* What Get makes of a row is SessionData of the row's subject.
LEMMA LoadedType ==
    ASSUME NEW row \in Row
    PROVE  Loaded(row) \in SessionData /\ Loaded(row).sub = row.sub
  BY DEF Loaded, Row, SessionData, FromUnix

\* A connection with one statement, or one answer, on it.
LEMMA Single ==
    ASSUME NEW S, NEW m \in S
    PROVE  /\ <<m>> \in Seq(S) /\ <<m>> # <<>>
           /\ Head(<<m>>) = m /\ Tail(<<m>>) = <<>>
           /\ Append(<<>>, m) = <<m>>
           /\ DOMAIN <<m>> = {1} /\ <<m>>[1] = m
           /\ \A x \in S : <<x>> = <<m>> => x = m
  OBVIOUS

\* A call that has ended is a call.
LEMMA FinishType ==
    ASSUME TypeOK, NEW c \in Callers, NEW err \in Errors, NEW data \in SessionData,
           Finish(c, err, data)
    PROVE  /\ call' \in [Callers -> Calls]
           /\ call'[c] = [call[c] EXCEPT !.pc = "done", !.err = err, !.data = data]
           /\ \A x \in Callers : x # c => call'[x] = call[x]
  <1>1. call \in [Callers -> Calls]
    BY DEF TypeOK
  <1>2. [call[c] EXCEPT !.pc = "done", !.err = err, !.data = data] \in Calls
    <2>1. call[c] \in Calls
      BY <1>1
    <2> QED BY <2>1 DEF Calls
  <1> QED BY <1>1, <1>2 DEF Finish

\* The answer of the server is an answer, and its effect leaves a table; a
\* statement that is answered with an error has no effect.
LEMMA ExecuteType ==
    ASSUME TypeOK, NEW m \in Statement, Effect(m), m.stmt # "none",
           m.stmt # "purge" => m.id \in SessionIDs
    PROVE  /\ Outcome(m) \in Answer
           /\ Outcome(m).err \in {"none", "norows", "check"}
           /\ rows' \in [SessionIDs -> Row \cup {None}]
           /\ m.stmt = "select" \/ Outcome(m).err # "none" => rows' = rows
  <1>1. m.stmt \in Stmts /\ m.d \in SessionData
    BY DEF Statement
  <1>2. rows \in [SessionIDs -> Row \cup {None}]
    BY DEF TypeOK
  <1>3. Outcome(m) \in Answer /\ Outcome(m).err \in {"none", "norows", "check"}
    <2>1. m.stmt = "select" /\ Exists(m.id) => Get(m.id) \in SessionData
      BY <1>2, LoadedType DEF Exists, Get
    <2> QED BY <1>1, <2>1, NoDataType DEF Outcome, Answer, Errors
  <1>4. rows' \in [SessionIDs -> Row \cup {None}]
    <2>1. CASE m.stmt = "insert" /\ Valid(m.d)
      BY <1>1, <1>2, <2>1, ValidData DEF Effect, Add
    <2>2. CASE m.stmt = "update" /\ Valid(m.d)
      BY <1>1, <1>2, <2>2, ValidData DEF Effect, UpdateExec
    <2>3. CASE m.stmt = "delete"
      BY <1>2, <2>3 DEF Effect, Delete
    <2>4. CASE m.stmt = "purge"
      BY <1>2, <2>4 DEF Effect
    <2>5. CASE m.stmt = "select" \/ (m.stmt \in {"insert", "update"} /\ ~Valid(m.d))
      BY <1>2, <2>5 DEF Effect
    <2> QED BY <1>1, <2>1, <2>2, <2>3, <2>4, <2>5 DEF Stmts
  <1>5. m.stmt = "select" \/ Outcome(m).err # "none" => rows' = rows
    <2>1. CASE m.stmt = "select"
      BY <2>1 DEF Effect
    <2>2. CASE m.stmt \in {"insert", "update"} /\ ~Valid(m.d)
      BY <2>2 DEF Effect
    <2>3. CASE m.stmt \in {"delete", "purge"} \/ (Valid(m.d) /\ m.stmt # "select")
      BY <2>3 DEF Outcome
    <2> QED BY <1>1, <2>1, <2>2, <2>3 DEF Stmts
  <1> QED BY <1>3, <1>4, <1>5

-----------------------------------------------------------------------------
(* What a step leaves alone.                                               *)

\* A store that has just been connected is empty and nobody waits.
LEMMA InitInv == Init => Inv
  <1> SUFFICES ASSUME Init PROVE Inv
    OBVIOUS
  <1>1. TypeOK
    BY NoDataType, EmptySeq DEF Init, TypeOK, NoCall, Calls, Ops, Stmts, Errors
  <1>2. \A c \in Callers : call[c].pc = "idle"
    BY DEF Init, NoCall
  <1>3. StoreInv
    BY <1>2, Single DEF Init, StoreInv, CallInv, AddsInv, Adds, ConnectionInv, Idle,
       SubjectsStay, Exists
  <1> QED BY <1>1, <1>3 DEF Inv

\* The subject of a session is fixed when its id is drawn.
OwnersStay == \A id \in SessionIDs : owner[id] # None => owner'[id] = owner[id]

\* The owner of a known session is a subject.
LEMMA KnownOwner ==
    ASSUME Inv, NEW id \in known
    PROVE  id \in SessionIDs /\ owner[id] # None
  BY DEF Inv, TypeOK, StoreInv

\* A goroutine that does nothing while others do.
LEMMA SameCall ==
    ASSUME Inv, NEW c \in Callers, call'[c] = call[c], OwnersStay,
           known \subseteq known', Adds(c) => call[c].id \notin known'
    PROVE  CallInv(c)' /\ (Adds(c)' <=> Adds(c))
  <1>1. CallInv(c) /\ call[c] \in Calls
    BY DEF Inv, StoreInv, TypeOK
  <1>2. Adds(c)' <=> Adds(c)
    BY DEF Adds, Valid
  <1>3. SUFFICES ASSUME call[c].pc # "idle" PROVE CallInv(c)'
    BY <1>2 DEF CallInv
  <1>4. call[c].op \in {"Get", "Update"} => owner'[call[c].id] = owner[call[c].id]
    BY <1>1, <1>3, KnownOwner DEF CallInv, OwnersStay
  <1>5. call[c].stmt = "update" => call[c].op = "Update"
    BY <1>1, <1>3 DEF CallInv, StmtsOf, Calls, Ops
  <1>6. Adds(c) => owner'[call[c].id] = call[c].d.sub
    <2>1. SUFFICES ASSUME Adds(c) PROVE owner'[call[c].id] = call[c].d.sub
      OBVIOUS
    <2>2. call[c].d \in SessionData /\ Valid(call[c].d) /\ call[c].op = "Add"
      BY <1>1, <2>1 DEF Adds, Calls
    <2>3. call[c].id \in SessionIDs /\ owner[call[c].id] = call[c].d.sub
      BY <1>1, <1>3, <2>1, <2>2 DEF CallInv
    <2> QED BY <2>2, <2>3, ValidData DEF OwnersStay
  <1> QED BY <1>1, <1>2, <1>3, <1>4, <1>5, <1>6 DEF CallInv, Valid

\* A statement on its way, while no call of its id ends well.
LEMMA SameStatement ==
    ASSUME Inv, NEW m \in Statement, StatementInv(m), OwnersStay,
           known \subseteq known', m.stmt = "insert" /\ Valid(m.d) => m.id \notin known',
           \A c \in Callers : Adds(c)' =>
               \/ call'[c].id # m.id
               \/ call'[c] = call[c]
               \/ call'[c].pc = "wait"
               \/ call'[c].pc = "done" /\ call'[c].err = "broken"
    PROVE  StatementInv(m)'
  <1>1. m.d \in SessionData
    BY DEF Statement
  <1>2. m.stmt = "update" => owner'[m.id] = owner[m.id]
    BY KnownOwner DEF OwnersStay, StatementInv
  <1>3. m.stmt = "insert" /\ Valid(m.d) => owner'[m.id] = m.d.sub
    BY <1>1, ValidData DEF StatementInv, OwnersStay
  <1>4. \A c \in Callers : call'[c] = call[c] => (Adds(c)' <=> Adds(c))
    BY DEF Adds, Valid
  <1> QED BY <1>2, <1>3, <1>4 DEF StatementInv, Valid

-----------------------------------------------------------------------------
(* The steps.                                                              *)

\* Goroutine c moves on within its call; the table and its owners stay.
LEMMA MoveCall ==
    ASSUME Inv, TypeOK', NEW c \in Callers,
           \A x \in Callers : x # c => call'[x] = call[x],
           UNCHANGED <<rows, owner, known>>,
           Adds(c)' => Adds(c) /\ call'[c].id = call[c].id,
           CallInv(c)', ConnectionInv'
    PROVE  Inv'
  <1>1. OwnersStay
    BY DEF OwnersStay
  <1>2. \A x \in Callers : Adds(x) => call[x].id \notin known
    BY DEF Inv, StoreInv, CallInv, Adds
  <1>3. \A x \in Callers : CallInv(x)' /\ (x # c => (Adds(x)' <=> Adds(x)))
    BY <1>1, <1>2, SameCall
  <1>4. AddsInv'
    BY <1>3 DEF AddsInv, Inv, StoreInv
  <1>5. SubjectsStay' /\ \A id \in known' : owner'[id] \in Subjects
    BY DEF SubjectsStay, Inv, StoreInv, Exists
  <1> QED BY <1>3, <1>4, <1>5 DEF Inv, StoreInv

\* What is on the wire stays as it is while c moves on, unless c's own Add ends
\* with an answer, or a refusal, while its statement is still on the wire.
LEMMA MoveStatement ==
    ASSUME Inv, NEW c \in Callers, UNCHANGED <<rows, owner, known>>,
           \A x \in Callers : x # c => call'[x] = call[x],
           Adds(c)' => \/ call'[c].pc = "wait"
                       \/ call'[c].pc = "done" /\ call'[c].err = "broken",
           NEW m \in Statement, wire = <<m>>
    PROVE  StatementInv(m)'
  <1>1. OwnersStay /\ StatementInv(m)
    BY DEF OwnersStay, Inv, StoreInv, ConnectionInv
  <1>2. m.stmt = "insert" /\ Valid(m.d) => m.id \notin known
    BY <1>1 DEF StatementInv
  <1> QED BY <1>1, <1>2, SameStatement

\* The connection and the goroutine that waits on it, if any, are left alone.
LEMMA SameConnection ==
    ASSUME Inv, UNCHANGED <<status, wire, answers>>, OwnersStay,
           \A x \in Callers : /\ call'[x].pc = "wait" => call[x].pc = "wait"
                              /\ call[x].pc = "wait" => call'[x] = call[x],
           \A m \in Statement : wire = <<m>> => StatementInv(m)'
    PROVE  ConnectionInv'
  <1>1. status = "busy" => Busy'
    <2>1. SUFFICES ASSUME status = "busy" PROVE Busy'
      OBVIOUS
    <2>2. PICK x \in Callers :
            /\ call[x].pc = "wait"
            /\ \A y \in Callers : call[y].pc = "wait" => y = x
            /\ \/ wire = <<Asked(x)>> /\ answers = <<>> /\ ~call[x].wrote
               \/ wire = <<>> /\ \E a \in Answer : answers = <<a>> /\ AnswersTo(x, a)
      BY <2>1 DEF Inv, StoreInv, ConnectionInv, Busy
    <2>3. call'[x] = call[x] /\ Asked(x)' = Asked(x)
      BY <2>2 DEF Asked
    <2>4. call[x].stmt = "select" => owner'[call[x].id] = owner[call[x].id]
      <3>1. CallInv(x) /\ call[x] \in Calls
        BY DEF Inv, StoreInv, TypeOK
      <3>2. call[x].stmt = "select" => call[x].id \in known
        BY <2>2, <3>1 DEF CallInv, StmtsOf, Calls, Ops
      <3> QED BY <3>2, KnownOwner DEF OwnersStay
    <2>5. \A a \in Answer : AnswersTo(x, a) => AnswersTo(x, a)'
      BY <2>3, <2>4 DEF AnswersTo, Valid
    <2> QED BY <2>2, <2>3, <2>5 DEF Busy
  <1>2. status = "idle" => Idle'
    BY DEF Inv, StoreInv, ConnectionInv, Idle
  <1>3. status = "closed" => Closed'
    <2>1. SUFFICES ASSUME status = "closed" PROVE Closed'
      OBVIOUS
    <2>2. Closed
      BY <2>1 DEF Inv, StoreInv, ConnectionInv
    <2>3. \A m \in Statement : call'[m.by].pc = "wait" =>
            call[m.by].pc = "wait" /\ Asked(m.by)' = Asked(m.by)
      BY DEF Statement, Asked
    <2> QED BY <2>2, <2>3 DEF Closed
  <1> QED BY <1>1, <1>2, <1>3 DEF ConnectionInv

\* The statement is not sent: the connection is busy or closed, or the context
\* is cancelled.  The call ends and has done nothing.
LEMMA RefusedInv ==
    ASSUME Inv, NEW c \in Callers, Refuse(c) \/ TooLate(c)
    PROVE  Inv'
  <1>1. /\ call[c].pc = "call"
        /\ Finish(c, "refused", NoData)
        /\ UNCHANGED <<rows, now, status, wire, answers, owner, known>>
    BY DEF Refuse, TooLate
  <1>2. /\ call' \in [Callers -> Calls]
        /\ call'[c] = [call[c] EXCEPT !.pc = "done", !.err = "refused", !.data = NoData]
        /\ \A x \in Callers : x # c => call'[x] = call[x]
    BY <1>1, FinishType, NoDataType DEF Inv, Errors
  <1>3. TypeOK'
    BY <1>1, <1>2 DEF Inv, TypeOK
  <1>4. call[c] \in Calls /\ CallInv(c)
    BY DEF Inv, TypeOK, StoreInv
  <1>5. /\ call'[c].pc = "done" /\ call'[c].err = "refused" /\ call'[c].op = call[c].op
        /\ call'[c].stmt = call[c].stmt /\ call'[c].id = call[c].id
        /\ call'[c].d = call[c].d /\ call'[c].wrote = call[c].wrote
    BY <1>2, <1>4 DEF Calls
  <1>6. Adds(c)' <=> Adds(c)
    BY <1>1, <1>5 DEF Adds, Valid
  <1>7. CallInv(c)'
    BY <1>1, <1>4, <1>5, <1>6 DEF CallInv
  <1>8. ConnectionInv'
    <2>1. OwnersStay
      BY <1>1 DEF OwnersStay
    <2>2. ASSUME NEW m \in Statement, wire = <<m>> PROVE StatementInv(m)'
      <3>1. StatementInv(m)
        BY <2>2 DEF Inv, StoreInv, ConnectionInv
      <3>2. m.stmt = "insert" /\ Valid(m.d) => m.id \notin known' /\ (Adds(c) => call[c].id # m.id)
        BY <1>1, <3>1 DEF StatementInv
      <3>3. CASE m.stmt = "insert" /\ Valid(m.d)
        BY <1>1, <1>2, <1>5, <1>6, <2>1, <3>1, <3>2, <3>3, SameStatement
      <3>4. CASE ~(m.stmt = "insert" /\ Valid(m.d))
        BY <1>1, <3>1, <3>4 DEF StatementInv, Valid
      <3> QED BY <3>3, <3>4
    <2> QED BY <1>1, <1>2, <1>5, <2>1, <2>2, SameConnection
  <1> QED BY <1>1, <1>2, <1>3, <1>5, <1>6, <1>7, <1>8, MoveCall

\* A goroutine enters a call: it has done nothing yet.
LEMMA BeginCall ==
    ASSUME Inv, NEW c \in Callers, NEW op \in Ops \ {"none"},
           NEW id \in SessionIDs \cup {None}, NEW d \in SessionData,
           Begin(c, op, id, d)
    PROVE  /\ call[c].pc = "idle"
           /\ call' \in [Callers -> Calls]
           /\ call'[c].pc = "call" /\ call'[c].op = op /\ call'[c].id = id /\ call'[c].d = d
           /\ call'[c].stmt \in StmtsOf(op) /\ call'[c].stmt # "update" /\ ~call'[c].wrote
           /\ \A x \in Callers : x # c => call'[x] = call[x]
           /\ UNCHANGED <<rows, now, status, wire, answers, known>>
  <1> DEFINE k == [NoCall EXCEPT !.pc = "call", !.op = op, !.stmt = FirstStmt(op),
                                 !.id = id, !.d = d]
  <1>1. FirstStmt(op) \in StmtsOf(op) /\ FirstStmt(op) # "update" /\ FirstStmt(op) \in Stmts
    BY DEF FirstStmt, StmtsOf, Ops, Stmts
  <1>2. k \in Calls /\ k.pc = "call" /\ k.op = op /\ k.id = id /\ k.d = d
        /\ k.stmt = FirstStmt(op) /\ k.wrote = FALSE
    BY <1>1, NoDataType DEF NoCall, Calls, Errors
  <1>3. call \in [Callers -> Calls]
    BY DEF Inv, TypeOK
  <1>4. call' = [call EXCEPT ![c] = k]
    BY DEF Begin
  <1> HIDE DEF k
  <1>5. call' \in [Callers -> Calls] /\ call'[c] = k /\ \A x \in Callers : x # c => call'[x] = call[x]
    BY <1>2, <1>3, <1>4
  <1>6. call[c].pc = "idle" /\ UNCHANGED <<rows, now, status, wire, answers, known>>
    BY DEF Begin
  <1> QED BY <1>1, <1>2, <1>5, <1>6

\* Delete, Get, Update and Purge begin.
LEMMA CallOldInv ==
    ASSUME Inv, NEW c \in Callers, NEW op \in Ops \ {"none", "Add"},
           NEW id \in SessionIDs \cup {None}, NEW d \in SessionData,
           Begin(c, op, id, d), UNCHANGED owner, op # "Purge" => id \in known
    PROVE  Inv'
  <1>1. /\ call[c].pc = "idle"
        /\ call' \in [Callers -> Calls]
        /\ call'[c].pc = "call" /\ call'[c].op = op /\ call'[c].id = id /\ call'[c].d = d
        /\ call'[c].stmt \in StmtsOf(op) /\ call'[c].stmt # "update" /\ ~call'[c].wrote
        /\ \A x \in Callers : x # c => call'[x] = call[x]
        /\ UNCHANGED <<rows, now, status, wire, answers, known>>
    BY BeginCall
  <1>2. TypeOK' /\ OwnersStay
    BY <1>1 DEF Inv, TypeOK, OwnersStay
  <1>3. ~Adds(c)'
    BY <1>1 DEF Adds
  <1>4. CallInv(c)'
    BY <1>1, <1>3, KnownOwner DEF CallInv
  <1>5. ConnectionInv'
    <2>1. ASSUME NEW m \in Statement, wire = <<m>> PROVE StatementInv(m)'
      BY <1>1, <1>3, <2>1, MoveStatement
    <2> QED BY <1>1, <1>2, <2>1, SameConnection
  <1> QED BY <1>1, <1>2, <1>3, <1>4, <1>5, MoveCall

\* Add begins, under an id that nobody has.
LEMMA CallAddInv ==
    ASSUME Inv, NEW c \in Handlers, NEW d \in Inputs, CallAdd(c, d)
    PROVE  Inv'
  <1>1. PICK id \in SessionIDs :
          /\ owner[id] = None
          /\ owner' = [owner EXCEPT ![id] = d.sub]
          /\ Begin(c, "Add", id, d)
    BY DEF CallAdd
  <1>2. c \in Callers /\ d \in SessionData
    BY DEF Callers
  <1>3. /\ call[c].pc = "idle"
        /\ call' \in [Callers -> Calls]
        /\ call'[c].pc = "call" /\ call'[c].op = "Add" /\ call'[c].id = id /\ call'[c].d = d
        /\ call'[c].stmt \in StmtsOf("Add") /\ call'[c].stmt # "update" /\ ~call'[c].wrote
        /\ \A x \in Callers : x # c => call'[x] = call[x]
        /\ UNCHANGED <<rows, now, status, wire, answers, known>>
    BY <1>1, <1>2, BeginCall DEF Ops
  <1>4. /\ owner' \in [SessionIDs -> Subjects \cup {None}]
        /\ owner'[id] = d.sub
        /\ \A x \in SessionIDs : x # id => owner'[x] = owner[x]
        /\ OwnersStay
    BY <1>1, <1>2 DEF Inv, TypeOK, SessionData, OwnersStay
  <1>5. TypeOK'
    BY <1>3, <1>4 DEF Inv, TypeOK
  <1>6. id \notin known
    BY <1>1, KnownOwner
  <1>7. \A x \in Callers : x # c /\ Adds(x)' => Adds(x) /\ call'[x].id # id
    <2>1. SUFFICES ASSUME NEW x \in Callers, x # c, Adds(x)' PROVE Adds(x) /\ call'[x].id # id
      OBVIOUS
    <2>2. call'[x] = call[x] /\ Adds(x)
      BY <1>3, <2>1 DEF Adds, Valid
    <2>3. owner[call[x].id] = call[x].d.sub /\ Valid(call[x].d) /\ call[x].d \in SessionData
      BY <2>2 DEF Inv, StoreInv, CallInv, Adds, TypeOK, Calls
    <2> QED BY <1>1, <2>2, <2>3, ValidData
  <1>8. \A x \in Callers : CallInv(x)'
    <2>1. \A x \in Callers : x # c => CallInv(x)'
      <3>1. \A x \in Callers : Adds(x) => call[x].id \notin known
        BY DEF Inv, StoreInv, CallInv, Adds
      <3> QED BY <1>3, <1>4, <3>1, SameCall
    <2>2. CallInv(c)'
      BY <1>3, <1>4, <1>6 DEF CallInv
    <2> QED BY <2>1, <2>2
  <1>9. AddsInv'
    BY <1>3, <1>7 DEF AddsInv, Inv, StoreInv
  <1>10. SubjectsStay' /\ \A x \in known' : owner'[x] \in Subjects
    <2>1. ASSUME NEW x \in SessionIDs, rows[x] # None PROVE owner[x] # None /\ rows[x].sub = owner[x]
      <3>1. rows[x] \in Row
        BY <2>1 DEF Inv, TypeOK
      <3> QED BY <2>1, <3>1 DEF Inv, StoreInv, SubjectsStay, Exists, Row
    <2>2. SubjectsStay'
      BY <1>3, <1>4, <2>1 DEF SubjectsStay, Exists, OwnersStay
    <2>3. ASSUME NEW x \in known PROVE owner'[x] \in Subjects
      BY <1>3, <1>4, <1>6, <2>3, KnownOwner DEF Inv, StoreInv
    <2> QED BY <1>3, <2>2, <2>3
  <1>11. ConnectionInv'
    <2>1. ASSUME NEW m \in Statement, wire = <<m>> PROVE StatementInv(m)'
      <3>1. StatementInv(m) /\ m.d \in SessionData
        BY <2>1 DEF Inv, StoreInv, ConnectionInv, Statement
      <3>2. m.stmt = "insert" /\ Valid(m.d) => m.id \notin known' /\ m.id # id
        BY <1>1, <1>3, <3>1, ValidData DEF StatementInv
      <3>3. CASE m.stmt = "insert" /\ Valid(m.d)
        BY <1>2, <1>3, <1>4, <3>1, <3>2, <3>3, SameStatement
      <3>4. CASE ~(m.stmt = "insert" /\ Valid(m.d))
        BY <1>3, <1>4, <3>1, <3>4, KnownOwner DEF StatementInv, Valid, OwnersStay
      <3> QED BY <3>3, <3>4
    <2> QED BY <1>2, <1>3, <1>4, <2>1, SameConnection
  <1> QED BY <1>5, <1>8, <1>9, <1>10, <1>11 DEF Inv, StoreInv

\* A statement is sent: the connection was idle, now it has this one.
LEMMA SendInv ==
    ASSUME Inv, NEW c \in Callers, Send(c)
    PROVE  Inv'
  <1>1. /\ call[c].pc = "call" /\ status = "idle" /\ status' = "busy"
        /\ wire' = Append(wire, Asked(c))
        /\ call' = [call EXCEPT ![c].pc = "wait"]
        /\ UNCHANGED <<rows, now, answers, owner, known>>
    BY DEF Send, Asked
  <1>2. call \in [Callers -> Calls] /\ call[c] \in Calls /\ CallInv(c)
    BY DEF Inv, TypeOK, StoreInv
  <1>3. /\ call' \in [Callers -> Calls]
        /\ \A x \in Callers : x # c => call'[x] = call[x]
        /\ call'[c].pc = "wait" /\ call'[c].op = call[c].op
        /\ call'[c].stmt = call[c].stmt /\ call'[c].id = call[c].id
        /\ call'[c].d = call[c].d /\ call'[c].wrote = call[c].wrote
    BY <1>1, <1>2 DEF Calls
  <1>4. Asked(c) \in Statement /\ Asked(c)' = Asked(c)
    BY <1>2, <1>3 DEF Asked, Statement, Calls
  <1>5. wire = <<>> /\ answers = <<>> /\ \A x \in Callers : call[x].pc # "wait"
    BY <1>1 DEF Inv, StoreInv, ConnectionInv, Idle
  <1>6. wire' = <<Asked(c)>> /\ wire' \in Seq(Statement)
    BY <1>1, <1>4, <1>5, Single
  <1>7. TypeOK'
    BY <1>1, <1>3, <1>6 DEF Inv, TypeOK
  <1>8. Adds(c)' <=> Adds(c)
    BY <1>1, <1>3 DEF Adds, Valid
  <1>9. CallInv(c)'
    BY <1>1, <1>2, <1>3, <1>8 DEF CallInv
  <1>10. Busy'
    BY <1>1, <1>2, <1>3, <1>4, <1>5, <1>6 DEF Busy, CallInv
  <1>11. ASSUME NEW m \in Statement, wire' = <<m>> PROVE StatementInv(m)'
    <2>1. m = Asked(c)
      BY <1>4, <1>6, <1>11, Single
    <2>2. /\ m.stmt = call[c].stmt /\ m.id = call[c].id /\ m.d = call[c].d
      BY <2>1 DEF Asked
    <2>3. m.stmt \in StmtsOf(call[c].op) /\ call[c].op \in Ops \ {"none"}
      BY <1>1, <1>2, <2>2 DEF CallInv, Calls
    <2>4. /\ m.stmt # "none"
          /\ m.stmt # "purge" => call[c].op # "Purge"
          /\ m.stmt = "update" => call[c].op = "Update"
          /\ m.stmt = "insert" => call[c].op = "Add"
      BY <2>3 DEF StmtsOf, Ops
    <2>5. m.stmt = "insert" /\ Valid(m.d) => Adds(c)
      BY <1>1, <2>2, <2>4 DEF Adds
    <2>6. \A x \in Callers : Adds(x)' <=> Adds(x)
      BY <1>3, <1>8 DEF Adds, Valid
    <2>7. \A x \in Callers : Adds(c) /\ Adds(x)' /\ call'[x].id = m.id => x = c
      BY <1>3, <2>2, <2>6 DEF Inv, StoreInv, AddsInv
    <2> QED BY <1>1, <1>2, <1>3, <2>2, <2>4, <2>5, <2>7 DEF StatementInv, CallInv, Valid
  <1>12. ConnectionInv'
    BY <1>1, <1>10, <1>11 DEF ConnectionInv
  <1> QED BY <1>1, <1>3, <1>7, <1>8, <1>9, <1>12, MoveCall

\* The goroutine that waits, as the connection is busy, is the one whose
\* statement or answer is under way.
LEMMA Waiting ==
    ASSUME Inv, NEW c \in Callers, call[c].pc = "wait"
    PROVE  /\ status # "idle"
           /\ \A x \in Callers : call[x].pc = "wait" => x = c
           /\ status = "busy" =>
                \/ wire = <<Asked(c)>> /\ answers = <<>> /\ ~call[c].wrote
                \/ wire = <<>> /\ \E a \in Answer : answers = <<a>> /\ AnswersTo(c, a)
  <1>1. status \in {"idle", "busy", "closed"} /\ ConnectionInv
    BY DEF Inv, TypeOK, StoreInv
  <1>2. CASE status = "idle"
    BY <1>1, <1>2 DEF ConnectionInv, Idle
  <1>3. CASE status = "busy"
    BY <1>1, <1>3 DEF ConnectionInv, Busy
  <1>4. CASE status = "closed"
    BY <1>1, <1>4 DEF ConnectionInv, Closed
  <1> QED BY <1>1, <1>2, <1>3, <1>4

\* A goroutine that loses its connection gets an error, and nothing else changes
\* but, perhaps, that the connection is closed.
LEMMA BrokenInv ==
    ASSUME Inv, NEW c \in Callers, Cancel(c) \/ ReadFails(c)
    PROVE  Inv'
  <1>1. /\ call[c].pc = "wait" /\ Finish(c, "broken", NoData)
        /\ UNCHANGED <<rows, now, wire, owner, known>>
        /\ status' = "closed"
        /\ answers' = <<>> \/ (status = "closed" /\ answers' = answers)
    BY DEF Cancel, ReadFails, Close
  <1>2. /\ call' \in [Callers -> Calls]
        /\ call'[c] = [call[c] EXCEPT !.pc = "done", !.err = "broken", !.data = NoData]
        /\ \A x \in Callers : x # c => call'[x] = call[x]
    BY <1>1, FinishType, NoDataType DEF Inv, Errors
  <1>3. call[c] \in Calls /\ CallInv(c)
    BY DEF Inv, TypeOK, StoreInv
  <1>4. /\ call'[c].pc = "done" /\ call'[c].err = "broken" /\ call'[c].op = call[c].op
        /\ call'[c].stmt = call[c].stmt /\ call'[c].id = call[c].id
        /\ call'[c].d = call[c].d /\ call'[c].wrote = call[c].wrote
    BY <1>2, <1>3 DEF Calls
  <1>5. answers' = <<>>
    BY <1>1 DEF Inv, StoreInv, ConnectionInv, Closed
  <1>6. TypeOK'
    BY <1>1, <1>2, <1>5, EmptySeq DEF Inv, TypeOK
  <1>7. Adds(c)' <=> Adds(c)
    BY <1>1, <1>4 DEF Adds, Valid
  <1>8. CallInv(c)'
    BY <1>1, <1>3, <1>4, <1>7 DEF CallInv
  <1>9. Closed'
    <2>1. wire = <<>> \/ \E m \in Statement : wire = <<m>>
      <3>1. Asked(c) \in Statement
        BY <1>3 DEF Asked, Statement, Calls
      <3>2. CASE status = "closed"
        BY <3>2 DEF Inv, StoreInv, ConnectionInv, Closed
      <3>3. CASE status = "busy"
        BY <1>1, <3>1, <3>3, Waiting
      <3> QED BY <1>1, <3>2, <3>3, Waiting DEF Inv, TypeOK
    <2>2. \A x \in Callers : call'[x].pc # "wait"
      BY <1>1, <1>2, <1>4, Waiting
    <2> QED BY <1>1, <1>5, <2>1, <2>2 DEF Closed, Statement
  <1>10. ASSUME NEW m \in Statement, wire = <<m>> PROVE StatementInv(m)'
    BY <1>1, <1>2, <1>4, <1>10, MoveStatement
  <1>11. ConnectionInv'
    BY <1>1, <1>9, <1>10 DEF ConnectionInv
  <1> QED BY <1>1, <1>2, <1>4, <1>6, <1>7, <1>8, <1>11, MoveCall

\* A goroutine reads its answer.
LEMMA ReceiveInv ==
    ASSUME Inv, NEW c \in Callers, Receive(c)
    PROVE  Inv'
  <1>1. call[c].pc = "wait" /\ answers # <<>> /\ answers' = Tail(answers) /\ status' = "idle"
        /\ UNCHANGED <<rows, now, wire, owner, known>>
    BY DEF Receive
  <1>2. status = "busy"
    BY <1>1, Waiting DEF Inv, TypeOK, StoreInv, ConnectionInv, Closed
  <1>3. PICK a \in Answer : answers = <<a>> /\ AnswersTo(c, a) /\ wire = <<>>
    BY <1>1, <1>2, Waiting
  <1>4. Head(answers) = a /\ answers' = <<>>
    BY <1>1, <1>3, Single
  <1>5. call \in [Callers -> Calls] /\ call[c] \in Calls /\ CallInv(c)
        /\ a.err \in Errors /\ a.data \in SessionData /\ a.stmt = call[c].stmt
    BY <1>3 DEF Inv, TypeOK, StoreInv, Answer, AnswersTo
  <1>6. \/ a.err # "none" /\ Finish(c, a.err, NoData)
        \/ a.err = "none" /\ call[c].op = "Update" /\ a.stmt = "select" /\ UpdateSelected(c, a.data)
        \/ a.err = "none" /\ ~(call[c].op = "Update" /\ a.stmt = "select") /\ Finish(c, "none", a.data)
    BY <1>4, <1>5 DEF Receive
  <1>7. /\ call' \in [Callers -> Calls]
        /\ \A x \in Callers : x # c => call'[x] = call[x]
        /\ call'[c].pc \in {"done", "call"}
        /\ CallInv(c)'
        /\ Adds(c)' => Adds(c) /\ call'[c].id = call[c].id
    <2>1. ASSUME NEW err \in Errors, NEW data \in SessionData, Finish(c, err, data),
                 err # "none" => ~call[c].wrote,
                 err = "none" /\ call[c].op = "Add" => Valid(call[c].d)
          PROVE  /\ call' \in [Callers -> Calls]
                 /\ \A x \in Callers : x # c => call'[x] = call[x]
                 /\ call'[c].pc \in {"done", "call"}
                 /\ CallInv(c)'
                 /\ Adds(c)' => Adds(c) /\ call'[c].id = call[c].id
      <3>1. /\ call' \in [Callers -> Calls]
            /\ call'[c] = [call[c] EXCEPT !.pc = "done", !.err = err, !.data = data]
            /\ \A x \in Callers : x # c => call'[x] = call[x]
        BY <2>1, FinishType DEF Inv
      <3>2. /\ call'[c].pc = "done" /\ call'[c].err = err /\ call'[c].data = data
            /\ call'[c].op = call[c].op /\ call'[c].stmt = call[c].stmt
            /\ call'[c].id = call[c].id /\ call'[c].d = call[c].d
            /\ call'[c].wrote = call[c].wrote
        BY <1>5, <3>1 DEF Calls
      <3>3. Adds(c)' <=> Adds(c)
        BY <1>1, <3>2 DEF Adds, Valid
      <3>4. CallInv(c)'
        BY <1>1, <1>5, <2>1, <3>2, <3>3 DEF CallInv, Valid
      <3> QED BY <3>1, <3>2, <3>3, <3>4
    <2>2. CASE a.err # "none" /\ Finish(c, a.err, NoData)
      BY <1>3, <1>5, <2>1, <2>2, NoDataType DEF AnswersTo
    <2>3. CASE /\ a.err = "none" /\ ~(call[c].op = "Update" /\ a.stmt = "select")
               /\ Finish(c, "none", a.data)
      <3>1. call[c].op = "Add" => call[c].stmt = "insert"
        BY <1>1, <1>5 DEF CallInv, StmtsOf
      <3> QED BY <1>3, <1>5, <2>1, <2>3, <3>1 DEF AnswersTo, Errors
    <2>4. CASE /\ a.err = "none" /\ call[c].op = "Update" /\ a.stmt = "select"
               /\ UpdateSelected(c, a.data)
      <3>1. a.data.sub = owner[call[c].id] /\ ~call[c].wrote
        BY <1>1, <1>3, <1>5, <2>4 DEF AnswersTo, CallInv
      <3>2. CASE call[c].d.sub # a.data.sub
        BY <2>1, <2>4, <3>1, <3>2, NoDataType DEF UpdateSelected, Errors
      <3>3. CASE call[c].d.sub = a.data.sub
        <4> DEFINE k == [call[c] EXCEPT !.pc = "call", !.stmt = "update"]
        <4>1. call' = [call EXCEPT ![c] = k]
          BY <2>4, <3>3 DEF UpdateSelected
        <4>2. /\ k \in Calls /\ k.pc = "call" /\ k.stmt = "update" /\ k.op = call[c].op
              /\ k.id = call[c].id /\ k.d = call[c].d /\ k.wrote = call[c].wrote
          BY <1>5 DEF Calls, Stmts
        <4> HIDE DEF k
        <4>3. /\ call' \in [Callers -> Calls] /\ call'[c] = k
              /\ \A x \in Callers : x # c => call'[x] = call[x]
          BY <1>5, <4>1, <4>2
        <4>4. ~Adds(c)'
          BY <2>4, <4>2, <4>3 DEF Adds
        <4>5. CallInv(c)'
          BY <1>1, <1>5, <2>4, <3>1, <3>3, <4>2, <4>3, <4>4 DEF CallInv, StmtsOf
        <4> QED BY <4>2, <4>3, <4>4, <4>5
      <3> QED BY <3>2, <3>3
    <2> QED BY <1>6, <2>2, <2>3, <2>4
  <1>8. TypeOK'
    BY <1>1, <1>4, <1>7, EmptySeq DEF Inv, TypeOK
  <1>9. ConnectionInv'
    <2>1. Idle'
      BY <1>1, <1>3, <1>4, <1>7, Waiting DEF Idle
    <2> QED BY <1>1, <1>3, <2>1, Single DEF ConnectionInv
  <1> QED BY <1>1, <1>7, <1>8, <1>9, MoveCall

\* Only the connection changes, or the clock.
LEMMA SameCalls ==
    ASSUME Inv, TypeOK', UNCHANGED <<rows, call, owner, known>>, ConnectionInv'
    PROVE  Inv'
  <1>1. ASSUME NEW c \in Callers PROVE CallInv(c)' /\ (Adds(c)' <=> Adds(c))
    <2>1. OwnersStay /\ (Adds(c) => call[c].id \notin known)
      BY DEF OwnersStay, Inv, StoreInv, CallInv, Adds
    <2> QED BY <2>1, SameCall
  <1>2. AddsInv'
    BY <1>1 DEF AddsInv, Inv, StoreInv
  <1>3. SubjectsStay' /\ \A id \in known' : owner'[id] \in Subjects
    BY DEF SubjectsStay, Inv, StoreInv, Exists
  <1> QED BY <1>1, <1>2, <1>3 DEF Inv, StoreInv

\* With the calls, what is on the wire stays as it is.
LEMMA SameStatements ==
    ASSUME Inv, UNCHANGED <<call, owner, known>>
    PROVE  \A m \in Statement : wire = <<m>> => StatementInv(m)'
  <1>1. SUFFICES ASSUME NEW m \in Statement, wire = <<m>> PROVE StatementInv(m)'
    OBVIOUS
  <1>2. OwnersStay /\ StatementInv(m)
    BY <1>1 DEF OwnersStay, Inv, StoreInv, ConnectionInv
  <1>3. m.stmt = "insert" /\ Valid(m.d) => m.id \notin known
    BY <1>2 DEF StatementInv
  <1> QED BY <1>2, <1>3, SameStatement

\* The connection is closed under a goroutine that may wait.
LEMMA CloseConnectionInv ==
    ASSUME Inv, CloseConnection
    PROVE  Inv'
  <1>1. /\ status # "closed" /\ status' = "closed" /\ answers' = <<>>
        /\ UNCHANGED <<rows, now, wire, call, owner, known>>
    BY DEF CloseConnection, Close
  <1>2. TypeOK'
    BY <1>1, EmptySeq DEF Inv, TypeOK
  <1>3. Closed'
    <2>1. CASE status = "idle"
      BY <1>1, <2>1 DEF Inv, StoreInv, ConnectionInv, Idle, Closed
    <2>2. CASE status = "busy"
      <3>1. PICK c \in Callers :
              /\ call[c].pc = "wait"
              /\ \A x \in Callers : call[x].pc = "wait" => x = c
              /\ wire = <<Asked(c)>> \/ wire = <<>>
        BY <2>2 DEF Inv, StoreInv, ConnectionInv, Busy
      <3>2. Asked(c) \in Statement /\ Asked(c).by = c /\ Asked(c)' = Asked(c)
        BY <1>1 DEF Asked, Statement, Calls, Inv, TypeOK
      <3> QED BY <1>1, <3>1, <3>2 DEF Closed
    <2> QED BY <1>1, <2>1, <2>2 DEF Inv, TypeOK
  <1>4. ConnectionInv'
    BY <1>1, <1>3, SameStatements DEF ConnectionInv
  <1> QED BY <1>1, <1>2, <1>4, SameCalls

\* What was sent on a connection that is closed now never arrives.
LEMMA DropInv ==
    ASSUME Inv, Drop
    PROVE  Inv'
  <1>1. /\ status = "closed" /\ wire' = <<>>
        /\ UNCHANGED <<rows, now, status, answers, call, owner, known>>
    BY DEF Drop
  <1>2. TypeOK'
    BY <1>1, EmptySeq DEF Inv, TypeOK
  <1>3. ConnectionInv'
    BY <1>1, Single DEF Inv, StoreInv, ConnectionInv, Closed
  <1> QED BY <1>1, <1>2, <1>3, SameCalls

\* Time passes, or nothing happens.
LEMMA TickInv ==
    ASSUME Inv, Tick \/ UNCHANGED pgVars
    PROVE  Inv'
  <1>1. UNCHANGED <<rows, status, wire, answers, call, owner, known>>
    BY DEF Tick, pgVars
  <1>2. TypeOK'
    BY <1>1 DEF Inv, TypeOK, Tick, pgVars
  <1>3. ConnectionInv'
    <2>1. OwnersStay
      BY <1>1 DEF OwnersStay
    <2> QED BY <1>1, <2>1, SameStatements, SameConnection
  <1> QED BY <1>1, <1>2, <1>3, SameCalls

\* A goroutine goes on: the id of an Add that went well becomes known, and no
\* statement that adds it is left on the wire.
LEMMA ReturnInv ==
    ASSUME Inv, NEW c \in Callers, Return(c)
    PROVE  Inv'
  <1>1. /\ call[c].pc = "done" /\ call' = [call EXCEPT ![c] = NoCall]
        /\ UNCHANGED <<rows, now, status, wire, answers, owner>>
    BY DEF Return
  <1>2. /\ call \in [Callers -> Calls] /\ call[c] \in Calls /\ CallInv(c)
        /\ known \subseteq SessionIDs
    BY DEF Inv, TypeOK, StoreInv
  <1>3. NoCall \in Calls /\ NoCall.pc = "idle"
    BY NoDataType DEF NoCall, Calls, Ops, Stmts, Errors
  <1>4. /\ call' \in [Callers -> Calls] /\ call'[c].pc = "idle"
        /\ \A x \in Callers : x # c => call'[x] = call[x]
    BY <1>1, <1>2, <1>3
  <1>5. \/ known' = known
        \/ /\ known' = known \cup {call[c].id}
           /\ Adds(c) /\ call[c].err = "none" /\ call[c].id \in SessionIDs
           /\ owner[call[c].id] \in Subjects
    <2>1. CASE call[c].op = "Add" /\ call[c].err = "none"
      <3>1. Adds(c) /\ call[c].d \in SessionData
        BY <1>1, <1>2, <2>1 DEF CallInv, Adds, Calls
      <3> QED BY <1>1, <1>2, <2>1, <3>1, ValidData DEF Return, CallInv, Adds
    <2>2. CASE ~(call[c].op = "Add" /\ call[c].err = "none")
      BY <2>2 DEF Return
    <2> QED BY <2>1, <2>2
  <1>6. TypeOK'
    BY <1>1, <1>2, <1>4, <1>5 DEF Inv, TypeOK
  <1>7. OwnersStay /\ ~Adds(c)' /\ known \subseteq known'
    BY <1>1, <1>4, <1>5 DEF OwnersStay, Adds
  <1>8. \A x \in Callers : x # c /\ Adds(x) => call[x].id \notin known'
    <2>1. SUFFICES ASSUME NEW x \in Callers, x # c, Adds(x) PROVE call[x].id \notin known'
      OBVIOUS
    <2>2. call[x].id \notin known
      BY <2>1 DEF Inv, StoreInv, CallInv, Adds
    <2>3. Adds(c) => call[x].id # call[c].id
      BY <2>1 DEF Inv, StoreInv, AddsInv
    <2> QED BY <1>5, <2>2, <2>3
  <1>9. \A x \in Callers : CallInv(x)' /\ (Adds(x)' => Adds(x) /\ call'[x] = call[x])
    <2>1. CallInv(c)'
      BY <1>4 DEF CallInv
    <2>2. \A x \in Callers : x # c => CallInv(x)' /\ (Adds(x)' <=> Adds(x))
      BY <1>4, <1>7, <1>8, SameCall
    <2> QED BY <1>4, <1>7, <2>1, <2>2
  <1>10. AddsInv'
    BY <1>9 DEF AddsInv, Inv, StoreInv
  <1>11. SubjectsStay' /\ \A id \in known' : owner'[id] \in Subjects
    BY <1>1, <1>5 DEF SubjectsStay, Inv, StoreInv, Exists
  <1>12. ConnectionInv'
    <2>1. ASSUME NEW m \in Statement, wire = <<m>> PROVE StatementInv(m)'
      <3>1. StatementInv(m)
        BY <2>1 DEF Inv, StoreInv, ConnectionInv
      <3>2. m.stmt = "insert" /\ Valid(m.d) => m.id \notin known'
        BY <1>1, <1>5, <3>1 DEF StatementInv
      <3> QED BY <1>7, <1>9, <3>1, <3>2, SameStatement
    <2> QED BY <1>1, <1>4, <1>7, <2>1, SameConnection
  <1> QED BY <1>6, <1>9, <1>10, <1>11, <1>12 DEF Inv, StoreInv

\* The server runs a statement: what it writes belongs to the owner, and what it
\* answers is for the goroutine that waits.
LEMMA ExecuteInv ==
    ASSUME Inv, Execute
    PROVE  Inv'
  <1>1. PICK m \in Statement :
          /\ wire = <<m>>
          /\ call[m.by].pc = "wait" => m = Asked(m.by) /\ (status = "busy" => ~call[m.by].wrote)
    <2>1. wire # <<>> /\ ConnectionInv /\ status \in {"idle", "busy", "closed"}
      BY DEF Execute, Inv, StoreInv, TypeOK
    <2>2. CASE status = "busy"
      <3>1. PICK c \in Callers :
              call[c].pc = "wait" /\ wire = <<Asked(c)>> /\ ~call[c].wrote
        BY <2>1, <2>2 DEF ConnectionInv, Busy
      <3>2. Asked(c) \in Statement /\ Asked(c).by = c
        BY DEF Asked, Statement, Calls, Inv, TypeOK
      <3> QED BY <3>1, <3>2
    <2>3. CASE status = "closed"
      BY <2>1, <2>3 DEF ConnectionInv, Closed
    <2> QED BY <2>1, <2>2, <2>3 DEF ConnectionInv, Idle
  <1>2. /\ Effect(m) /\ wire' = <<>>
        /\ answers' = IF status = "closed" THEN answers ELSE Append(answers, Outcome(m))
        /\ call' = IF call[m.by].pc = "wait" /\ rows' # rows
                   THEN [call EXCEPT ![m.by].wrote = TRUE] ELSE call
        /\ UNCHANGED <<now, status, owner, known>>
    BY <1>1, Single DEF Execute
  <1>3. StatementInv(m)
    BY <1>1 DEF Inv, StoreInv, ConnectionInv
  <1>4. /\ Outcome(m) \in Answer
        /\ Outcome(m).err \in {"none", "norows", "check"}
        /\ rows' \in [SessionIDs -> Row \cup {None}]
        /\ m.stmt = "select" \/ Outcome(m).err # "none" => rows' = rows
    BY <1>2, <1>3, ExecuteType DEF Inv, StatementInv
  <1>5. /\ call' \in [Callers -> Calls]
        /\ \A x \in Callers :
             /\ call'[x].pc = call[x].pc /\ call'[x].op = call[x].op
             /\ call'[x].stmt = call[x].stmt /\ call'[x].id = call[x].id
             /\ call'[x].d = call[x].d /\ call'[x].err = call[x].err
             /\ call'[x].data = call[x].data
    <2>1. call \in [Callers -> Calls]
      BY DEF Inv, TypeOK
    <2>2. CASE call' = call
      BY <2>1, <2>2
    <2>3. CASE call' = [call EXCEPT ![m.by].wrote = TRUE]
      <3> DEFINE k == [call[m.by] EXCEPT !.wrote = TRUE]
      <3>1. m.by \in Callers /\ call[m.by] \in Calls
        BY <2>1 DEF Statement
      <3>2. /\ k \in Calls /\ k.pc = call[m.by].pc /\ k.op = call[m.by].op
            /\ k.stmt = call[m.by].stmt /\ k.id = call[m.by].id /\ k.d = call[m.by].d
            /\ k.err = call[m.by].err /\ k.data = call[m.by].data
        BY <3>1 DEF Calls
      <3>3. call' = [call EXCEPT ![m.by] = k]
        BY <2>3
      <3> HIDE DEF k
      <3> QED BY <2>1, <3>1, <3>2, <3>3
    <2> QED BY <1>2, <2>2, <2>3
  <1>6. \A x \in Callers : call'[x].wrote =>
          call[x].wrote \/ (x = m.by /\ call[x].pc = "wait" /\ rows' # rows)
    BY <1>2 DEF Inv, TypeOK, Calls
  <1>7. m.by \in Callers /\ m.stmt \in Stmts /\ m.d \in SessionData
    BY DEF Statement
  <1>8. call[m.by].pc = "wait" =>
          m.stmt = call[m.by].stmt /\ m.id = call[m.by].id /\ m.d = call[m.by].d
    BY <1>1 DEF Asked
  <1>9. TypeOK'
    <2>1. answers' \in Seq(Answer)
      BY <1>2, <1>4, AppendProperties DEF Inv, TypeOK
    <2> QED BY <1>2, <1>4, <1>5, <2>1, EmptySeq DEF Inv, TypeOK
  <1>10. \A x \in Callers : (Adds(x)' <=> Adds(x)) /\ (Asked(x)' = Asked(x))
    BY <1>5 DEF Adds, Valid, Asked
  <1>11. ASSUME NEW x \in Callers PROVE CallInv(x)'
    <2>1. CallInv(x) /\ call[x] \in Calls
      BY DEF Inv, StoreInv, TypeOK
    <2>2. call[x].stmt = "select" /\ call'[x].wrote => call[x].wrote
      BY <1>4, <1>6, <1>8
    <2> QED BY <1>2, <1>5, <1>6, <1>10, <2>1, <2>2 DEF CallInv, Valid
  <1>12. AddsInv'
    BY <1>5, <1>10 DEF AddsInv, Inv, StoreInv
  <1>13. ASSUME NEW id \in SessionIDs, rows'[id] # None PROVE rows'[id].sub = owner[id]
    <2>1. rows[id] # None => rows[id].sub = owner[id]
      BY DEF Inv, StoreInv, SubjectsStay, Exists
    <2>2. rows \in [SessionIDs -> Row \cup {None}]
      BY DEF Inv, TypeOK
    <2>3. CASE m.stmt = "insert" /\ Valid(m.d)
      <3>1. rows' = [rows EXCEPT ![m.id] = Stored(m.d)]
        BY <1>2, <2>3 DEF Effect, Add
      <3>2. m.id \in SessionIDs /\ owner[m.id] = m.d.sub /\ Stored(m.d).sub = m.d.sub
        BY <1>3, <1>7, <2>3, ValidData DEF StatementInv
      <3>3. rows'[m.id] = Stored(m.d) /\ (id # m.id => rows'[id] = rows[id])
        BY <2>2, <3>1, <3>2
      <3> QED BY <1>13, <2>1, <3>2, <3>3
    <2>4. CASE m.stmt = "update" /\ Valid(m.d)
      BY <1>2, <1>3, <1>7, <1>13, <2>1, <2>2, <2>4, ValidData
         DEF Effect, UpdateExec, StatementInv, Exists
    <2>5. CASE m.stmt = "delete"
      BY <1>2, <1>13, <2>1, <2>2, <2>5 DEF Effect, Delete
    <2>6. CASE m.stmt = "purge"
      BY <1>2, <1>13, <2>1, <2>2, <2>6 DEF Effect
    <2>7. CASE m.stmt = "select" \/ (m.stmt \in {"insert", "update"} /\ ~Valid(m.d))
      BY <1>2, <1>13, <2>1, <2>7 DEF Effect
    <2> QED BY <1>3, <1>7, <2>3, <2>4, <2>5, <2>6, <2>7 DEF StatementInv, Stmts
  <1>14. SubjectsStay' /\ \A id \in known' : owner'[id] \in Subjects
    BY <1>2, <1>13 DEF SubjectsStay, Exists, Inv, StoreInv
  <1>15. status = "busy" => Busy'
    <2>1. SUFFICES ASSUME status = "busy" PROVE Busy'
      OBVIOUS
    <2>2. PICK c \in Callers :
            /\ call[c].pc = "wait"
            /\ \A x \in Callers : call[x].pc = "wait" => x = c
            /\ wire = <<Asked(c)>> /\ answers = <<>> /\ ~call[c].wrote
      BY <1>1, <2>1, Single DEF Inv, StoreInv, ConnectionInv, Busy
    <2>3. m = Asked(c) /\ m.by = c
      <3>1. Asked(c) \in Statement
        BY DEF Asked, Statement, Calls, Inv, TypeOK
      <3> QED BY <1>1, <2>2, <3>1, Single DEF Asked
    <2>4. PICK a \in Answer : a = Outcome(m)
      BY <1>4
    <2>5. answers' = <<a>>
      BY <1>2, <2>1, <2>2, <2>4, Single
    <2>6. m.stmt = call[c].stmt /\ m.id = call[c].id /\ m.d = call[c].d
      BY <1>8, <2>2, <2>3
    <2>7. a.stmt = m.stmt /\ a.err \in {"none", "norows", "check"}
      BY <1>4, <2>4 DEF Outcome
    <2>8. a.err # "none" => ~call'[c].wrote
      BY <1>4, <1>6, <2>2, <2>4
    <2>9. m.stmt = "select" /\ a.err = "none" => a.data.sub = owner[m.id]
      <3>1. SUFFICES ASSUME m.stmt = "select", a.err = "none" PROVE a.data.sub = owner[m.id]
        OBVIOUS
      <3>2. Exists(m.id) /\ a.data = Get(m.id)
        BY <2>4, <3>1 DEF Outcome
      <3>3. m.id \in SessionIDs /\ rows[m.id] \in Row
        BY <1>3, <3>1, <3>2 DEF StatementInv, Exists, Inv, TypeOK
      <3> QED BY <3>2, <3>3, LoadedType DEF Get, Inv, StoreInv, SubjectsStay
    <2>10. m.stmt = "insert" /\ a.err = "none" => Valid(m.d)
      BY <2>4 DEF Outcome
    <2>11. AnswersTo(c, a)'
      BY <1>2, <1>5, <2>6, <2>7, <2>8, <2>9, <2>10 DEF AnswersTo, Valid
    <2> QED BY <1>2, <1>5, <2>2, <2>5, <2>11 DEF Busy
  <1>16. ConnectionInv'
    <2>1. status # "idle" /\ (status = "closed" => Closed')
      BY <1>1, <1>2, <1>5, Single DEF Inv, StoreInv, ConnectionInv, Idle, Closed
    <2> QED BY <1>2, <1>15, <2>1, Single DEF ConnectionInv
  <1> QED BY <1>9, <1>11, <1>12, <1>14, <1>16 DEF Inv, StoreInv

\* Every step keeps the invariant.
LEMMA NextInv == Inv /\ [Next]_pgVars => Inv'
  <1> SUFFICES ASSUME Inv, [Next]_pgVars PROVE Inv'
    OBVIOUS
  <1>1. ASSUME NEW c \in Handlers, NEW d \in Inputs, CallAdd(c, d) PROVE Inv'
    BY <1>1, CallAddInv
  <1>2. ASSUME NEW c \in Handlers, NEW id \in SessionIDs, NEW d \in SessionData,
               NEW op \in {"Delete", "Get", "Update"}, CallLookup(c, op, id, d)
        PROVE  Inv'
    BY <1>2, CallOldInv DEF CallLookup, Ops, Callers
  <1>3. CASE CallPurge
    <2>1. now \in Nat
      BY DEF Inv, TypeOK
    <2>2. [NoData EXCEPT !.exp = now] \in SessionData
      BY <2>1, NoDataType DEF SessionData
    <2> QED BY <1>3, <2>2, CallOldInv DEF CallPurge, Ops, Callers
  <1>4. ASSUME NEW c \in Callers, Step(c) PROVE Inv'
    BY <1>4, RefusedInv, SendInv, ReceiveInv, BrokenInv, ReturnInv DEF Step
  <1>5. ASSUME NEW c \in Callers, TooLate(c) \/ Cancel(c) PROVE Inv'
    BY <1>5, RefusedInv, BrokenInv
  <1>6. CASE Execute
    BY <1>6, ExecuteInv
  <1>7. CASE CloseConnection
    BY <1>7, CloseConnectionInv
  <1>8. CASE Drop
    BY <1>8, DropInv
  <1>9. CASE Tick \/ UNCHANGED pgVars
    BY <1>9, TickInv
  <1> QED BY <1>1, <1>2, <1>3, <1>4, <1>5, <1>6, <1>7, <1>8, <1>9, NoDataType DEF Next

-----------------------------------------------------------------------------
(* The theorems.                                                           *)

\* The invariant holds in every reachable state.  That one goroutine at a time
\* waits on the connection is pgx's busy flag as the model has it (PostgresStore
\* says what that leaves out), a premise of what follows and not a result.
LEMMA StoreInvariant == Spec => []Inv
  BY InitInv, NextInv, PTL DEF Spec

\* Every variable of the store has its type in every reachable state.
THEOREM TypeCorrect == Spec => []TypeOK
  <1>1. Inv => TypeOK
    BY DEF Inv
  <1> QED BY <1>1, StoreInvariant, PTL

\* A call that fails with its connection intact has left the table alone.
THEOREM FailedLeaveNoTrace == Spec => []FailedCallsLeaveNoTrace
  <1>1. Inv => FailedCallsLeaveNoTrace
    BY DEF Inv, StoreInv, CallInv, FailedCallsLeaveNoTrace
  <1> QED BY <1>1, StoreInvariant, PTL

\* A session stays with the subject it was added for.
THEOREM SubjectsKept == Spec => []SubjectsStay
  <1>1. Inv => SubjectsStay
    BY DEF Inv, StoreInv
  <1> QED BY <1>1, StoreInvariant, PTL

\* A known session that is gone stays gone: no statement that inserts it is on
\* the wire any more, and an UPDATE writes no row that is not there.
THEOREM DeletedForGood == Spec => DeletedStaysDeleted
  <1>1. Inv /\ [Next]_pgVars => [\A id \in known : ~Exists(id) => rows'[id] = None]_pgVars
    <2>1. SUFFICES ASSUME Inv, [Next]_pgVars, NEW id \in known, ~Exists(id)
                   PROVE  rows'[id] = None
      OBVIOUS
    <2>2. rows[id] = None /\ id \in SessionIDs /\ rows \in [SessionIDs -> Row \cup {None}]
      BY <2>1, KnownOwner DEF Exists, Inv, TypeOK
    <2>3. CASE Execute
      <3>1. PICK m \in Statement : wire = <<m>>
        <4>1. \A c \in Callers : Asked(c) \in Statement
          BY <2>1 DEF Asked, Statement, Calls, Inv, TypeOK
        <4> QED BY <2>1, <2>3, <4>1 DEF Execute, Inv, TypeOK, StoreInv, ConnectionInv, Idle, Busy, Closed
      <3>2. Effect(m) /\ StatementInv(m) /\ m.stmt \in Stmts
        BY <2>1, <2>3, <3>1, Single DEF Execute, Inv, StoreInv, ConnectionInv, Statement
      <3>3. CASE m.stmt = "insert" /\ Valid(m.d)
        <4>1. m.id # id
          BY <2>1, <3>2, <3>3 DEF StatementInv
        <4> QED BY <2>2, <3>2, <3>3, <4>1 DEF Effect, Add
      <3>4. CASE m.stmt = "update" /\ Valid(m.d)
        BY <2>2, <3>2, <3>4 DEF Effect, UpdateExec, Exists
      <3>5. CASE m.stmt = "delete"
        BY <2>2, <3>2, <3>5 DEF Effect, Delete
      <3>6. CASE m.stmt = "purge"
        BY <2>2, <3>2, <3>6 DEF Effect
      <3>7. CASE m.stmt = "select" \/ (m.stmt \in {"insert", "update"} /\ ~Valid(m.d))
        BY <2>2, <3>2, <3>7 DEF Effect
      <3> QED BY <3>2, <3>3, <3>4, <3>5, <3>6, <3>7 DEF StatementInv, Stmts
    <2>4. CASE ~Execute
      <3>1. UNCHANGED rows
        BY <2>1, <2>4 DEF Next, CallAdd, CallLookup, CallPurge, Begin, Step, Refuse, Send,
           Receive, ReadFails, Return, TooLate, Cancel, CloseConnection, Drop, Tick, pgVars
      <3> QED BY <2>2, <3>1
    <2> QED BY <2>3, <2>4
  <1> QED BY <1>1, StoreInvariant, PTL DEF Spec, DeletedStaysDeleted

=============================================================================
