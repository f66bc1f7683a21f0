---------------------------- MODULE SlidingWindow ---------------------------
(***************************************************************************)
(* What a rate limit of Rate requests per second with a burst of one       *)
(* second's worth promises, without a bucket: in every window of time no   *)
(* more requests are admitted than the burst plus the rate times the       *)
(* window's length, and a request is refused only when admitting it would  *)
(* break that for some window.                                             *)
(*                                                                         *)
(* since[t] counts the requests admitted at tick t or later; sizes are in  *)
(* fractions of 1/Second of a request, so that one tick earns Rate.        *)
(***************************************************************************)
EXTENDS Integers

CONSTANTS Rate, Second, Cors, MaxTime

VARIABLES now, since, outcome

vars == <<now, since, outcome>>

Burst == Rate * Second

(* n requests admitted since tick t are within the limit. *)
Within(n, t) == Second * n <= Burst + Rate * (now - t)

Init == /\ now = 0
        /\ since = [t \in 0..MaxTime |-> 0]
        /\ outcome = "none"

Tick == /\ now < MaxTime
        /\ now' = now + 1
        /\ UNCHANGED <<since, outcome>>

Admit == /\ \A t \in 0..now : Within(since[t] + 1, t)
         /\ since' = [t \in 0..MaxTime |-> IF t <= now THEN since[t] + 1 ELSE since[t]]
         /\ outcome' = "routed"
         /\ UNCHANGED now

Refuse == /\ \E t \in 0..now : ~Within(since[t] + 1, t)
          /\ outcome' = "limited"
          /\ UNCHANGED <<now, since>>

(* A CORS preflight is answered and not counted. *)
Exempt == /\ Cors
          /\ outcome' = "preflight"
          /\ UNCHANGED <<now, since>>

Next == Tick \/ Admit \/ Refuse \/ Exempt

Spec == Init /\ [][Next]_vars
=============================================================================
