------------------------------- MODULE MCAuth -------------------------------
(* Small instances of Auth: the callers besides main are interchangeable. *)
EXTENDS Auth, TLC

CONSTANTS c1, c2, c3, u1, u2, e1, e2

Symmetry == Permutations(Callers \ {Main}) \cup Permutations(Urls) \cup Permutations(Emails)
=============================================================================
