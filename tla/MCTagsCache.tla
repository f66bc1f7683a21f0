---------------------------- MODULE MCTagsCache -----------------------------
(* Small instances of TagsCache: the symmetry of its interchangeable values. *)
EXTENDS TagsCache, TLC

CONSTANTS r1, r2, r3

Symmetry == Permutations(Requests)
=============================================================================
