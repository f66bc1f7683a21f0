---------------------------- MODULE MCShowCache ----------------------------
(* Small instances of ShowCache: requests, inodes and builds are each
   interchangeable.                                                          *)
EXTENDS ShowCache, TLC

CONSTANTS r1, r2, r3, i1, i2, i3, i4, b1, b2

Symmetry == Permutations(Requests) \cup Permutations(Inodes) \cup Permutations(Builds)
=============================================================================
