---------------------------- MODULE SessionTable ----------------------------
(***************************************************************************)
(* The `sessions` table and the operations package database offers on it:  *)
(* the SessionImpl interface as sqlite.go implements it, without a cipher. *)
(* One SQL statement is one atomic step.  SessionImpl.Update is a SELECT   *)
(* followed by an UPDATE outside any transaction, so it is two operators   *)
(* here (UpdateCheck and UpdateExec) and two steps of the modules that use *)
(* them.                                                                   *)
(*                                                                         *)
(* The clock counts ticks, Second of them to the second: the table keeps   *)
(* expiry times in whole seconds while the code's own clock is finer.      *)
(***************************************************************************)
EXTENDS Integers

CONSTANTS
    SessionIDs,   \* the uuids Add can draw
    Subjects,     \* the subjects ("sub" claims) of the users
    Logins,       \* the logins ever started: each has its own OAuth state
                  \* and, once it succeeds, its own family of tokens
    Second,       \* clock ticks in one second
    None          \* absent: no cookie, no row, an empty string

VARIABLES
    rows,         \* the table: the row of a session id, None if there is none
    now           \* the wall clock, in ticks

-----------------------------------------------------------------------------

\* What the token endpoint hands out for one login is a family of tokens; gen
\* numbers the answers.  One Token stands for the access token, the refresh
\* token and the raw ID token of one answer, which the code moves together.
Token == [fam : Logins, gen : Nat]

\* time.Time's zero value: before every instant of the clock.
ZeroTime == -1

\* SessionData in memory; a SessionData{} has empty strings and the zero time.
SessionData == [sub : Subjects \cup {None}, tok : Token \cup {None}, exp : Int]
NoData == [sub |-> None, tok |-> None, exp |-> ZeroTime]

\* A row: CHECK constraints refuse empty strings, expires_at is in seconds.
Row == [sub : Subjects, tok : Token, expiresAt : Int]

ASSUME TableAssumption ==
    /\ Second \in Nat \ {0}
    /\ None \notin SessionIDs
    /\ None \notin Subjects
    /\ None \notin Logins
    /\ None \notin Token
    /\ None \notin Row

-----------------------------------------------------------------------------

Unix(t) == t \div Second           \* time.Time.Unix
FromUnix(s) == s * Second          \* time.Unix(s, 0)

\* The columns written for d, and what Get makes of a row.
Stored(d) == [sub |-> d.sub, tok |-> d.tok, expiresAt |-> Unix(d.exp)]
Loaded(row) == [sub |-> row.sub, tok |-> row.tok, exp |-> FromUnix(row.expiresAt)]

\* SessionData.IsExpired: time.Now().After(d.ExpiresAt).
IsExpired(d) == now > d.exp

\* INSERT of a new row.  The uuid is one that was never drawn before: the
\* caller chooses it.
Add(id, d) == rows' = [rows EXCEPT ![id] = Stored(d)]

\* SELECT: no row is sql.ErrNoRows.
Exists(id) == rows[id] # None
Get(id) == Loaded(rows[id])

\* Mutant of UpdateCheck: the subjects are not compared.
UpdateCheckNoSubject(id, d) == Exists(id)

\* Mutant of UpdateCheck: the row must be the one the caller renewed, as with
\* optimistic locking.
UpdateCheckUnchanged(id, d) == Exists(id) /\ Get(id).tok.gen + 1 = d.tok.gen

\* First half of Update: the row must exist and have the same subject.
UpdateCheck(id, d) == Exists(id) /\ d.sub = Get(id).sub

\* Mutant of UpdateExec: the row is inserted when it is not there.
UpdateExecUpsert(id, d) == rows' = [rows EXCEPT ![id] = Stored(d)]

\* Mutant of UpdateExec: the refresh token is not among the columns set.
UpdateExecExpiryOnly(id, d) ==
    rows' = IF Exists(id) THEN [rows EXCEPT ![id].expiresAt = Unix(d.exp)] ELSE rows

\* Second half of Update: an UPDATE that matches no row changes nothing and is
\* no error, as the number of affected rows is never looked at.
UpdateExec(id, d) ==
    rows' = IF Exists(id) THEN [rows EXCEPT ![id] = Stored(d)] ELSE rows

\* Mutant of Delete: the row stays, blanked.
DeleteBlanks(id) == rows' = [rows EXCEPT ![id] = Stored(NoData)]

\* DELETE of one row; deleting a row that is not there is no error.
Delete(id) == rows' = [rows EXCEPT ![id] = None]

\* Mutant of Purgeable: rows that expire in this very second go too.
PurgeableNow(id) == Exists(id) /\ rows[id].expiresAt <= Unix(now)

\* DELETE FROM sessions WHERE expires_at < now, compared in seconds.
Purgeable(id) == Exists(id) /\ rows[id].expiresAt < Unix(now)
PurgeRows ==
    rows' = [id \in SessionIDs |-> IF Purgeable(id) THEN None ELSE rows[id]]

=============================================================================
