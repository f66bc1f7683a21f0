--------------------------- MODULE RequestsProofs ---------------------------
(* Requests proved for every set of requests: who holds which lock where, and
   that nobody holds one over a wait that nothing bounds.                    *)
EXTENDS Requests, TLAPS

(* What the process and the clients do keeps the invariant. *)
LEMMA OutsideStep ==
    ASSUME Inv,
           \/ Expire \/ Signal \/ Drained \/ ShutdownTimesOut \/ Boot
           \/ \E r \in Requests : ClientStopsReading(r) \/ ClientLeaves(r)
    PROVE  Inv'
<1> USE RequestsAssumption DEF Inv, TypeOK, LockInv, NoSilence
<1>1. CASE Expire
  BY <1>1 DEF Expire, locks
<1>2. CASE Signal \/ Drained
  BY <1>2 DEF Signal, Drained, locks
<1>3. CASE ShutdownTimesOut
  BY <1>3 DEF ShutdownTimesOut
<1>4. CASE Boot
  BY <1>4 DEF Boot, locks
<1>5. CASE \E r \in Requests : ClientStopsReading(r) \/ ClientLeaves(r)
  BY <1>5 DEF ClientStopsReading, ClientLeaves, locks
<1> QED
  BY <1>1, <1>2, <1>3, <1>4, <1>5

(* The stretch of handleTags before the call for a token. *)
LEMMA TagsStep ==
    ASSUME Inv, NEW r \in Requests,
           \/ \E k \in Kinds : Arrive(r, k)
           \/ CheckMemory(r) \/ LockFetch(r) \/ Recheck(r)
    PROVE  Inv'
<1> USE RequestsAssumption DEF Inv, TypeOK, LockInv, NoSilence
<1>1. ASSUME NEW k \in Kinds, Arrive(r, k) PROVE Inv'
  BY <1>1 DEF Arrive, locks, Kinds
<1>2. CASE CheckMemory(r)
  <2>1. CASE Tell(r, "memory", "answer")
    BY <1>2, <2>1 DEF CheckMemory, Tell, Goto, locks
  <2>2. CASE Goto(r, "memory", "lock") /\ UNCHANGED told
    BY <1>2, <2>2 DEF CheckMemory, Goto, locks
  <2> QED
    BY <1>2, <2>1, <2>2 DEF CheckMemory
<1>3. CASE LockFetch(r)
  BY <1>3 DEF LockFetch, Goto
<1>4. CASE Recheck(r)
  <2>1. CASE fresh' = TRUE /\ Tell(r, "recheck", "answer")
    BY <1>4, <2>1 DEF Recheck, Tell, Goto, locks
  <2>2. CASE Goto(r, "recheck", "token") /\ UNCHANGED <<told, fresh>>
    BY <1>4, <2>2 DEF Recheck, Goto, locks
  <2> QED
    BY <1>4, <2>1, <2>2 DEF Recheck
<1> QED
  BY <1>1, <1>2, <1>3, <1>4

(* EnsureToken, called with or without tagsFetchMu. *)
LEMMA TokenStep ==
    ASSUME Inv, NEW r \in Requests,
           \/ LockAuth(r) \/ HaveToken(r) \/ NeedsLogin(r)
           \/ LoginAnswers(r) \/ LoginFails(r)
    PROVE  Inv'
<1> USE RequestsAssumption DEF Inv, TypeOK, LockInv, NoSilence
<1>1. CASE LockAuth(r)
  BY <1>1 DEF LockAuth, Goto
<1>2. CASE HaveToken(r)
  BY <1>2 DEF HaveToken, Goto, UnlockAuth
<1>3. CASE NeedsLogin(r)
  BY <1>3 DEF NeedsLogin, Goto, locks
<1>4. CASE LoginAnswers(r)
  BY <1>4 DEF LoginAnswers, Goto, UnlockAuth
<1>5. CASE LoginFails(r)
  BY <1>5 DEF LoginFails, Tell, Goto, UnlockAuth
<1> QED
  BY <1>1, <1>2, <1>3, <1>4, <1>5

(* The call to upstream, and the return. *)
LEMMA CallStep ==
    ASSUME Inv, NEW r \in Requests,
           \/ FetchEnds(r) \/ ChatAnswers(r) \/ ChatFails(r) \/ BodyEnds(r) \/ Return(r)
    PROVE  Inv'
<1> USE RequestsAssumption DEF Inv, TypeOK, LockInv, NoSilence
<1>1. CASE FetchEnds(r)
  <2>1. CASE fresh' = TRUE /\ Tell(r, "call", "answer")
    BY <1>1, <2>1 DEF FetchEnds, Tell, Goto, locks
  <2>2. CASE UNCHANGED fresh /\ Tell(r, "call", "error")
    BY <1>1, <2>2 DEF FetchEnds, Tell, Goto, locks
  <2> QED
    BY <1>1, <2>1, <2>2 DEF FetchEnds
<1>2. CASE ChatAnswers(r)
  BY <1>2 DEF ChatAnswers, Goto, locks
<1>3. CASE ChatFails(r)
  BY <1>3 DEF ChatFails, Words, Tell, Goto, locks
<1>4. CASE BodyEnds(r)
  BY <1>4 DEF BodyEnds, Tell, Goto, locks
<1>5. CASE Return(r)
  BY <1>5 DEF Return, Goto
<1> QED
  BY <1>1, <1>2, <1>3, <1>4, <1>5

(* Inv is an invariant: between Lock and Unlock of either mutex there is one
   request, and it is where the code holds that mutex.                       *)
THEOREM Invariance == Spec => []Inv
<1>1. Init => Inv
  BY RequestsAssumption DEF Init, Inv, TypeOK, LockInv, NoSilence, Kinds
<1>2. Inv /\ [Next]_vars => Inv'
  <2> SUFFICES ASSUME Inv, [Next]_vars PROVE Inv'
    OBVIOUS
  <2>1. CASE UNCHANGED vars
    BY <2>1 DEF vars, locks, Inv, TypeOK, LockInv, NoSilence
  <2>2. CASE Next
    BY <2>2, OutsideStep, TagsStep, TokenStep, CallStep
       DEF Next, Local, Timed, Untimed
  <2> QED
    BY <2>1, <2>2
<1> QED
  BY <1>1, <1>2, PTL DEF Spec

(* Whatever upstream or a client keeps waiting, it is not a request that holds
   a lock, but for the reply of handleTags (handleTags 37-38, 46-79; handleChat
   61, 76, 93-97; EnsureToken 123-124).                                      *)
THEOREM NobodyHoldsUp == Spec => []FreeWhileUnbounded
<1>1. Inv => FreeWhileUnbounded
  BY RequestsAssumption DEF Inv, TypeOK, LockInv, FreeWhileUnbounded, Unbounded, Unread
<1> QED
  BY <1>1, Invariance, PTL

(* However many requests queue up for the two locks, none of them waits in a
   circle: who waits for a token holds no token's lock, and the one that has it
   waits for no lock at all.                                                 *)
THEOREM NoDeadlock == Spec => []NoCircularWait
<1>1. Inv => NoCircularWait
  <2> SUFFICES ASSUME Inv, NEW r \in Requests, NEW h \in Requests,
                      WaitsFor(r) = h, h = r \/ WaitsFor(h) \in Requests
               PROVE  /\ h # r /\ pc[r] = "lock" /\ pc[h] = "token"
                      /\ authMu \notin {r, h} /\ WaitsFor(authMu) \notin Requests
    BY DEF NoCircularWait
  <2>1. h # NoRequest /\ NoRequest \notin Requests
    BY RequestsAssumption
  <2>2. \A q \in Requests : authMu = q <=> pc[q] \in {"auth", "login"}
    BY DEF Inv, LockInv
  <2>3. \A q \in Requests : tagsFetchMu = q => pc[q] # "lock"
    BY DEF Inv, LockInv
  <2>4. pc[h] \in {"lock", "token"} /\ pc[r] \in {"lock", "token"}
    BY <2>1 DEF WaitsFor
  <2>5. pc[r] = "lock" /\ tagsFetchMu = h
    BY <2>1, <2>2, <2>4 DEF WaitsFor
  <2>6. h # r /\ pc[h] = "token"
    BY <2>3, <2>4, <2>5
  <2>7. authMu \in Requests /\ pc[authMu] \in {"auth", "login"}
    BY <2>2, <2>6 DEF WaitsFor
  <2> QED
    BY <2>1, <2>5, <2>6, <2>7 DEF WaitsFor
<1> QED
  BY <1>1, Invariance, PTL
=============================================================================
