----------------------------- MODULE RateLimiter ----------------------------
(***************************************************************************)
(* ServeHTTP and its token bucket (--rate-limit > 0): every request but a  *)
(* CORS preflight takes a token or is answered 429.  Allow holds mu from   *)
(* reading the clock to its return, so a call of it is one step, whatever  *)
(* the number of goroutines.                                               *)
(*                                                                         *)
(* Data: tokens are counted in units of 1/Second of a token, so that a     *)
(* tick earns Rate of them and a request costs Second; the code's float64  *)
(* seconds are exact here.  How a routed request is served is the matter   *)
(* of the other modules.                                                   *)
(***************************************************************************)
EXTENDS Integers

CONSTANTS
    Rate,      \* --rate-limit, in requests per second
    Second,    \* ticks of the clock in a second
    Cors,      \* TRUE if --cors-origins is not empty
    MaxTime    \* bound of the model

ASSUME RateAssumption == /\ Rate \in Nat \ {0} /\ Second \in Nat \ {0}
                         /\ Cors \in BOOLEAN /\ MaxTime \in Nat

VARIABLES
    now,       \* the clock
    tokens,    \* rateLimiterObj.tokens
    lastTime,  \* rateLimiterObj.lastTime
    outcome,   \* of the last request: "routed", "limited" or "preflight"
    since      \* history: since[t] requests were admitted at tick t or later

bucket == <<tokens, lastTime>>
vars == <<now, bucket, outcome, since>>

Times    == 0..MaxTime
maxBurst == Rate * Second

-----------------------------------------------------------------------------
(* newRateLimiter: the bucket is full. *)
Init == /\ now = 0
        /\ tokens = maxBurst /\ lastTime = 0
        /\ outcome = "none"
        /\ since = [t \in Times |-> 0]

Tick == /\ now < MaxTime
        /\ now' = now + 1
        /\ UNCHANGED <<bucket, outcome, since>>

(* What the bucket holds once the time since lastTime is credited. *)
Refilled_Uncapped == tokens + (now - lastTime) * Rate
Refilled == LET earned == tokens + (now - lastTime) * Rate
            IN  IF earned > maxBurst THEN maxBurst ELSE earned

(* The bucket holds a whole token. *)
Enough_MoreThanOne == Refilled > Second
Enough == Refilled >= Second

(* Allow returns true and the request goes to the mux. *)
Route ==
    /\ Enough
    /\ tokens' = Refilled - Second
    /\ lastTime' = now
    /\ outcome' = "routed"
    /\ since' = [t \in Times |-> IF t <= now THEN since[t] + 1 ELSE since[t]]
    /\ UNCHANGED now

(* Allow returns false: 429.  The time that has passed is credited all the
   same.                                                                     *)
Limit_CreditedAgain ==
    /\ ~Enough
    /\ tokens' = Refilled
    /\ outcome' = "limited"
    /\ UNCHANGED <<now, lastTime, since>>
Limit ==
    /\ ~Enough
    /\ tokens' = Refilled
    /\ lastTime' = now
    /\ outcome' = "limited"
    /\ UNCHANGED <<now, since>>

(* OPTIONS with CORS enabled is answered before the limiter is asked. *)
Preflight ==
    /\ Cors
    /\ outcome' = "preflight"
    /\ UNCHANGED <<now, bucket, since>>

Next == Tick \/ Route \/ Limit \/ Preflight

Spec == Init /\ [][Next]_vars

-----------------------------------------------------------------------------
(* Properties. *)

TypeOK == /\ now \in Times /\ lastTime \in 0..now
          /\ tokens \in 0..maxBurst
          /\ outcome \in {"none", "routed", "limited", "preflight"}
          /\ since \in [Times -> Nat]

(* No window of time, wherever it starts and however refused requests, idle
   stretches and bursts alternate in it, sees more requests admitted than the
   burst plus the rate times its length (Allow 180-196).                     *)
WindowBound == \A t \in 0..now :
    Second * since[t] <= maxBurst + Rate * (now - t)

(* The bucket is exact: it admits a request whenever every window has room for
   one more and refuses it otherwise, so polling while refused, or a pause at
   the cap, loses a client nothing it is entitled to (Allow 180-196).         *)
Window == INSTANCE SlidingWindow
WindowSpec == Window!Spec

-----------------------------------------------------------------------------
(* The inductive invariant behind both: what is left in the bucket is the room
   left in the tightest window.                                              *)

Room(t) == maxBurst + Rate * (lastTime - t) - Second * since[t]

RoomInv == /\ \A t \in 0..lastTime : tokens <= Room(t)
           /\ \E t \in 0..lastTime : tokens = Room(t)
           /\ \A t \in Times : t > lastTime => since[t] = 0

Inv == TypeOK /\ RoomInv
=============================================================================
