--------------------------- MODULE MCTokenHandler ---------------------------
(* TokenHandler for TLC: the symmetries of its constants.                   *)
EXTENDS TokenHandler, TLC

\* Browsers, subjects, logins, session ids and request slots are each
\* interchangeable; used by the runs that check no liveness property.
Symmetry == Permutations(Browsers) \cup Permutations(Subjects)
            \cup Permutations(Logins) \cup Permutations(SessionIDs)
            \cup Permutations(Requests)

=============================================================================
