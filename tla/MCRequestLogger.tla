--------------------------- MODULE MCRequestLogger ---------------------------
(* Small instances of RequestLogger.                                       *)
EXTENDS RequestLogger, TLC

Symmetry == Permutations(Requests)

=============================================================================
