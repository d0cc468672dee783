-------------------------- MODULE MCPostgresStore --------------------------
(* PostgresStore for TLC: what may be stored, and symmetries.               *)
EXTENDS PostgresStore, TLC

\* Data of any subject that expire at once, complete or without the refresh
\* token a provider need not send.
SomeData ==
    {[sub |-> s, tok |-> t, exp |-> 0] :
        s \in Subjects, t \in {[fam |-> l, gen |-> 0] : l \in Logins} \cup {None}}

Symmetry == Permutations(Handlers) \cup Permutations(SessionIDs) \cup Permutations(Subjects)

=============================================================================
