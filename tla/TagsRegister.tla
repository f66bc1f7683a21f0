---------------------------- MODULE TagsRegister ----------------------------
(***************************************************************************)
(* What GET /api/tags promises its clients, with no cache, lock, file or   *)
(* process in it: a read register whose answers never go back in time.     *)
(* A client that asks after some client has been given a version of the    *)
(* model list is given that version or a newer one, whatever the proxy     *)
(* does in between, a restart included.  An answer may also be null (an    *)
(* empty list that lost its shape on disk) or an error.                    *)
(***************************************************************************)
EXTENDS Naturals

CONSTANTS Requests, \* the client requests
          Versions, \* the versions of the model list, a set of numbers
          Null      \* an answer that carries no list

VARIABLES phase,    \* phase[r]: "idle", "asked", "answered" or "refused"
          floor,    \* floor[r]: the newest version given out when r asked
          answer,   \* answer[r]: the version r is given, or Null
          newest    \* the newest version given to any client so far

vars == <<phase, floor, answer, newest>>

Init == /\ phase = [r \in Requests |-> "idle"]
        /\ floor = [r \in Requests |-> 0]
        /\ answer = [r \in Requests |-> Null]
        /\ newest = 0

Ask(r) == /\ phase[r] = "idle"
          /\ phase' = [phase EXCEPT ![r] = "asked"]
          /\ floor' = [floor EXCEPT ![r] = newest]
          /\ UNCHANGED <<answer, newest>>

Answer(r, v) == /\ phase[r] = "asked"
                /\ v >= floor[r]
                /\ phase' = [phase EXCEPT ![r] = "answered"]
                /\ answer' = [answer EXCEPT ![r] = v]
                /\ newest' = IF v > newest THEN v ELSE newest
                /\ UNCHANGED floor

AnswerNull(r) == /\ phase[r] = "asked"
                 /\ phase' = [phase EXCEPT ![r] = "answered"]
                 /\ UNCHANGED <<floor, answer, newest>>

Refuse(r) == /\ phase[r] = "asked"
             /\ phase' = [phase EXCEPT ![r] = "refused"]
             /\ UNCHANGED <<floor, answer, newest>>

End(r) == /\ phase[r] \in {"answered", "refused"}
          /\ phase' = [phase EXCEPT ![r] = "idle"]
          /\ floor' = [floor EXCEPT ![r] = 0]
          /\ answer' = [answer EXCEPT ![r] = Null]
          /\ UNCHANGED newest

(* The process stops: every open request is dropped, nothing is forgotten. *)
Drop == /\ phase' = [r \in Requests |-> "idle"]
        /\ floor' = [r \in Requests |-> 0]
        /\ answer' = [r \in Requests |-> Null]
        /\ UNCHANGED newest

Next == \/ \E r \in Requests : \/ Ask(r)
                               \/ \E v \in Versions : Answer(r, v)
                               \/ AnswerNull(r)
                               \/ Refuse(r)
                               \/ End(r)
        \/ Drop

Spec == Init /\ [][Next]_vars
=============================================================================
