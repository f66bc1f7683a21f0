-------------------------- MODULE RateLimiterProofs -------------------------
(* RateLimiter proved for every rate, clock resolution and length of run: the
   bucket never lets a window exceed its bound, and it implements
   SlidingWindow, so that it never refuses more than the bound demands.      *)
EXTENDS RateLimiter, TLAPS

(* Products of the rate are linear in time. *)
LEMMA RateFacts ==
    /\ Rate \in Nat /\ Rate >= 1 /\ Second \in Nat /\ Second >= 1
    /\ maxBurst \in Nat /\ maxBurst >= Second
    /\ \A a, b \in Int : Rate * (a - b) = Rate * a - Rate * b
    /\ \A a, b \in Int : a <= b => Rate * a <= Rate * b
<1>1. /\ Rate \in Nat /\ Rate >= 1 /\ Second \in Nat /\ Second >= 1
  BY RateAssumption
<1>2. \A a, b \in Int : Rate * (a - b) = Rate * a - Rate * b
  BY <1>1
<1>3. \A a, b \in Int : a <= b => Rate * a <= Rate * b
  <2> SUFFICES ASSUME NEW a \in Int, NEW b \in Int, a <= b PROVE Rate * a <= Rate * b
    OBVIOUS
  <2>1. b - a \in Nat
    OBVIOUS
  <2>2. Rate * (b - a) \in Nat
    BY <1>1, <2>1
  <2> QED
    BY <1>1, <1>2, <2>2
<1>4. maxBurst \in Nat /\ maxBurst >= Second
  <2>1. Rate - 1 \in Nat
    BY <1>1
  <2>2. (Rate - 1) * Second \in Nat
    BY <1>1, <2>1
  <2>3. maxBurst = (Rate - 1) * Second + Second
    BY <1>1 DEF maxBurst
  <2> QED
    BY <1>1, <2>2, <2>3
<1> QED
  BY <1>1, <1>2, <1>3, <1>4

(* The credited bucket is the room in the tightest of all windows that end
   now: those that start no later than lastTime have grown by what time has
   earned, those that start later have the whole burst.                      *)
NowRoom(t) == maxBurst + Rate * (now - t) - Second * since[t]

LEMMA RefilledIsRoom ==
    ASSUME Inv
    PROVE  /\ Refilled \in 0..maxBurst
           /\ \A t \in 0..now : Refilled <= NowRoom(t)
           /\ \E t \in 0..now : Refilled = NowRoom(t)
<1> DEFINE earned == tokens + (now - lastTime) * Rate
<1>1. /\ now \in Nat /\ now <= MaxTime /\ MaxTime \in Nat
      /\ lastTime \in Nat /\ lastTime <= now
      /\ tokens \in Nat /\ tokens <= maxBurst
      /\ \A t \in Times : since[t] \in Nat
  BY RateAssumption, RateFacts DEF Inv, TypeOK, Times
<1>2. earned \in Nat /\ earned = tokens + Rate * now - Rate * lastTime
  <2>1. Rate * (now - lastTime) \in Nat
    BY <1>1, RateFacts
  <2>2. (now - lastTime) * Rate = Rate * (now - lastTime)
    BY <1>1, RateFacts
  <2> QED
    BY <1>1, <2>1, <2>2, RateFacts
<1>3. Refilled = IF earned > maxBurst THEN maxBurst ELSE earned
  BY DEF Refilled
<1>4. ASSUME NEW t \in 0..lastTime
      PROVE  /\ NowRoom(t) = Room(t) + Rate * now - Rate * lastTime
             /\ Room(t) \in Int
  <2>1. since[t] \in Nat /\ t \in Nat
    BY <1>1, <1>4 DEF Times
  <2>2. Second * since[t] \in Int /\ Rate * t \in Int /\ Rate * now \in Int /\ Rate * lastTime \in Int
    BY <1>1, <2>1, RateFacts
  <2>3. /\ Rate * (now - t) = Rate * now - Rate * t
        /\ Rate * (lastTime - t) = Rate * lastTime - Rate * t
    BY <1>1, <2>1, RateFacts
  <2> QED
    BY <2>2, <2>3, RateFacts DEF NowRoom, Room
<1>5. ASSUME NEW t \in 0..now, t > lastTime
      PROVE  NowRoom(t) = maxBurst + Rate * (now - t) /\ Rate * (now - t) \in Nat
  <2>1. t \in Times /\ t \in Nat /\ now - t \in Nat
    BY <1>1, <1>5 DEF Times
  <2>2. since[t] = 0
    BY <1>5, <2>1 DEF Inv, RoomInv
  <2>3. Rate * (now - t) \in Nat
    BY <2>1, RateFacts
  <2> QED
    BY <2>2, <2>3, RateFacts DEF NowRoom
<1>6. ASSUME NEW t \in 0..now PROVE Refilled <= NowRoom(t)
  <2>1. CASE t <= lastTime
    <3>1. t \in 0..lastTime
      BY <1>1, <1>6, <2>1
    <3>2. tokens <= Room(t)
      BY <3>1 DEF Inv, RoomInv
    <3>3. earned <= NowRoom(t) /\ NowRoom(t) \in Int
      BY <1>1, <1>2, <1>4, <3>1, <3>2, RateFacts
    <3> QED
      BY <1>2, <1>3, <3>3, RateFacts
  <2>2. CASE t > lastTime
    BY <1>2, <1>3, <1>5, <1>6, <2>2, RateFacts
  <2> QED
    BY <1>1, <1>6, <2>1, <2>2
<1>7. \E t \in 0..now : Refilled = NowRoom(t)
  <2>1. CASE earned > maxBurst
    <3>1. now > lastTime
      BY <1>1, <1>2, <2>1, RateFacts
    <3>2. now \in 0..now
      BY <1>1
    <3>3. NowRoom(now) = maxBurst + Rate * (now - now)
      BY <1>5, <3>1, <3>2
    <3>4. Rate * (now - now) = 0
      BY <1>1, RateFacts
    <3>5. Refilled = NowRoom(now)
      BY <1>3, <2>1, <3>3, <3>4, RateFacts
    <3> QED
      BY <3>2, <3>5
  <2>2. CASE ~(earned > maxBurst)
    <3>1. PICK t \in 0..lastTime : tokens = Room(t)
      BY DEF Inv, RoomInv
    <3>2. NowRoom(t) = earned
      BY <1>1, <1>2, <1>4, <3>1, RateFacts
    <3>3. t \in 0..now
      BY <1>1
    <3> QED
      BY <1>3, <2>2, <3>2, <3>3
  <2> QED
    BY <2>1, <2>2
<1>8. Refilled \in 0..maxBurst
  BY <1>2, <1>3, RateFacts
<1> QED
  BY <1>6, <1>7, <1>8

(* Inv is an invariant of the limiter. *)
THEOREM Invariance == Spec => []Inv
<1>1. Init => Inv
  <2> SUFFICES ASSUME Init PROVE Inv
    OBVIOUS
  <2>1. TypeOK
    BY RateAssumption, RateFacts DEF Init, TypeOK, Times
  <2>2. Room(0) = maxBurst /\ 0 \in 0..lastTime
    <3>1. lastTime = 0 /\ since[0] = 0
      BY RateAssumption DEF Init, Times
    <3>2. Rate * (0 - 0) = 0 /\ Second * 0 = 0
      BY RateFacts
    <3> QED
      BY <3>1, <3>2, RateFacts DEF Room
  <2>3. \A t \in 0..lastTime : t = 0
    BY DEF Init
  <2>4. \A t \in Times : since[t] = 0
    BY DEF Init
  <2>5. tokens = maxBurst /\ maxBurst \in Nat
    BY RateFacts DEF Init
  <2>6. RoomInv
    BY <2>2, <2>3, <2>4, <2>5 DEF RoomInv
  <2> QED
    BY <2>1, <2>6 DEF Inv
<1>2. Inv /\ [Next]_vars => Inv'
  <2> SUFFICES ASSUME Inv, [Next]_vars PROVE Inv'
    OBVIOUS
  <2>1. /\ now \in Nat /\ now <= MaxTime /\ MaxTime \in Nat
        /\ lastTime \in Nat /\ lastTime <= now /\ since \in [Times -> Nat]
    BY RateAssumption DEF Inv, TypeOK, Times
  <2>2. CASE Tick
    BY <2>1, <2>2 DEF Inv, TypeOK, RoomInv, Room, Tick, Times, bucket
  <2>3. CASE Route
    <3>1. TypeOK'
      <4>1. Refilled - Second \in 0..maxBurst
        <5>1. Refilled \in 0..maxBurst
          BY RefilledIsRoom
        <5>2. Refilled >= Second
          BY <2>3 DEF Route, Enough
        <5> QED
          BY <5>1, <5>2, RateFacts
      <4>2. since' \in [Times -> Nat]
        BY <2>1, <2>3 DEF Route, Times
      <4>3. now' = now /\ lastTime' \in 0..now' /\ now' \in Times
        BY <2>1, <2>3 DEF Route, Times
      <4>4. tokens' \in 0..maxBurst /\ outcome' \in {"none", "routed", "limited", "preflight"}
        BY <2>3, <4>1 DEF Route
      <4> QED
        BY <4>2, <4>3, <4>4 DEF TypeOK, maxBurst
    <3>2. /\ lastTime' = now /\ tokens' = Refilled - Second
          /\ Refilled \in Int /\ Second \in Int
      BY <2>3, RefilledIsRoom, RateFacts DEF Route
    <3>3. ASSUME NEW t \in 0..now
          PROVE  Room(t)' = NowRoom(t) - Second /\ NowRoom(t) \in Int
      <4>1. t \in Times /\ since[t] \in Nat /\ since'[t] = since[t] + 1 /\ t \in Nat
        BY <2>1, <2>3, <3>3 DEF Route, Times
      <4>2. Second * (since[t] + 1) = Second * since[t] + Second /\ Second * since[t] \in Int
        BY <4>1, RateFacts
      <4>3. Rate * (now - t) \in Int
        BY <2>1, <4>1, RateFacts
      <4> QED
        BY <2>1, <3>2, <4>1, <4>2, <4>3, RateFacts DEF Room, NowRoom
    <3>4. \A t \in 0..lastTime' : tokens' <= Room(t)'
      BY <3>2, <3>3, RefilledIsRoom
    <3>5. \E t \in 0..lastTime' : tokens' = Room(t)'
      BY <3>2, <3>3, RefilledIsRoom
    <3>6. \A t \in Times : t > lastTime' => since'[t] = 0
      BY <2>1, <2>3 DEF Inv, RoomInv, Route, Times
    <3> QED
      BY <3>1, <3>4, <3>5, <3>6 DEF Inv, RoomInv
  <2>4. CASE Limit
    <3>1. TypeOK'
      <4>1. now' = now /\ lastTime' \in 0..now' /\ now' \in Times /\ since' \in [Times -> Nat]
        BY <2>1, <2>4 DEF Limit, Times
      <4>2. tokens' \in 0..maxBurst /\ outcome' \in {"none", "routed", "limited", "preflight"}
        BY <2>4, RefilledIsRoom DEF Limit
      <4> QED
        BY <4>1, <4>2 DEF TypeOK, maxBurst
    <3>2. lastTime' = now /\ tokens' = Refilled /\ since' = since /\ now' = now
      BY <2>4 DEF Limit
    <3>3. \A t \in 0..now : Room(t)' = NowRoom(t)
      BY <3>2 DEF Room, NowRoom, maxBurst
    <3>4. \A t \in Times : t > lastTime' => since'[t] = 0
      BY <2>1, <3>2 DEF Inv, RoomInv, Times
    <3> QED
      BY <3>1, <3>2, <3>3, <3>4, RefilledIsRoom DEF Inv, RoomInv
  <2>5. CASE Preflight
    BY <2>1, <2>5 DEF Inv, TypeOK, RoomInv, Room, Preflight, bucket
  <2>6. CASE UNCHANGED vars
    BY <2>6 DEF Inv, TypeOK, RoomInv, Room, vars, bucket
  <2> QED
    BY <2>2, <2>3, <2>4, <2>5, <2>6 DEF Next
<1> QED
  BY <1>1, <1>2, PTL DEF Spec

(* Every variable has its type; the bucket is never negative or above the burst. *)
THEOREM TypeCorrect == Spec => []TypeOK
<1>1. Inv => TypeOK
  BY DEF Inv
<1> QED
  BY <1>1, Invariance, PTL

(* No window admits more than the burst plus the rate times its length. *)
THEOREM WindowHolds == Spec => []WindowBound
<1>1. Inv => WindowBound
  <2> SUFFICES ASSUME Inv, NEW t \in 0..now
               PROVE  Second * since[t] <= maxBurst + Rate * (now - t)
    BY DEF WindowBound
  <2>1. Refilled \in Nat /\ Refilled <= NowRoom(t)
    BY RefilledIsRoom, RateFacts
  <2>2. t \in Nat /\ now \in Nat /\ since[t] \in Nat
    BY RateAssumption DEF Inv, TypeOK, Times
  <2>3. Second * since[t] \in Int /\ Rate * (now - t) \in Int
    BY <2>2, RateFacts
  <2> QED
    BY <2>1, <2>3, RateFacts DEF NowRoom
<1> QED
  BY <1>1, Invariance, PTL

(* The bucket implements the limiter that looks at every window. *)
THEOREM Refinement == Spec => WindowSpec
<1>1. Init => Window!Init
  BY DEF Init, Window!Init, Times
<1>2. ASSUME Inv, NEW t \in 0..now
      PROVE  Window!Within(since[t] + 1, t) <=> NowRoom(t) >= Second /\ NowRoom(t) \in Int
  <2>1. t \in Nat /\ now \in Nat /\ since[t] \in Nat
    BY <1>2, RateAssumption DEF Inv, TypeOK, Times
  <2>2. Second * (since[t] + 1) = Second * since[t] + Second
    BY <2>1, RateFacts
  <2>3. Second * since[t] \in Int /\ Rate * (now - t) \in Int
    BY <2>1, RateFacts
  <2> QED
    BY <2>2, <2>3, RateFacts DEF Window!Within, Window!Burst, NowRoom, maxBurst
<1>3. Inv /\ [Next]_vars => [Window!Next]_(Window!vars)
  <2> SUFFICES ASSUME Inv, [Next]_vars PROVE [Window!Next]_(Window!vars)
    OBVIOUS
  <2>1. CASE Tick
    BY <2>1 DEF Tick, Window!Next, Window!Tick
  <2>2. CASE Route
    <3>1. \A t \in 0..now : NowRoom(t) >= Second /\ NowRoom(t) \in Int
      <4> SUFFICES ASSUME NEW t \in 0..now PROVE NowRoom(t) >= Second /\ NowRoom(t) \in Int
        OBVIOUS
      <4>1. t \in Nat /\ now \in Nat /\ since[t] \in Nat
        BY RateAssumption DEF Inv, TypeOK, Times
      <4>2. Second * since[t] \in Int /\ Rate * (now - t) \in Int
        BY <4>1, RateFacts
      <4>3. NowRoom(t) \in Int
        BY <4>2, RateFacts DEF NowRoom
      <4> QED
        BY <2>2, <4>3, RefilledIsRoom, RateFacts DEF Route, Enough
    <3>2. \A t \in 0..now : Window!Within(since[t] + 1, t)
      BY <1>2, <3>1
    <3> QED
      BY <2>2, <3>2 DEF Route, Times, Window!Next, Window!Admit
  <2>3. CASE Limit
    <3>1. PICK t \in 0..now : Refilled = NowRoom(t)
      BY RefilledIsRoom
    <3>2. ~(NowRoom(t) >= Second)
      BY <2>3, <3>1 DEF Limit, Enough
    <3>3. ~Window!Within(since[t] + 1, t)
      BY <1>2, <3>2
    <3> QED
      BY <2>3, <3>3 DEF Limit, Window!Next, Window!Refuse
  <2>4. CASE Preflight
    BY <2>4 DEF Preflight, Window!Next, Window!Exempt
  <2>5. CASE UNCHANGED vars
    BY <2>5 DEF vars, Window!vars
  <2> QED
    BY <2>1, <2>2, <2>3, <2>4, <2>5 DEF Next
<1> QED
  BY <1>1, <1>3, Invariance, PTL DEF Spec, WindowSpec, Window!Spec
=============================================================================
