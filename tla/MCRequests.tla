----------------------------- MODULE MCRequests -----------------------------
(* Small instances of Requests. *)
EXTENDS Requests

CONSTANTS r1, r2, r3
=============================================================================
