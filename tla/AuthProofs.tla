----------------------------- MODULE AuthProofs -----------------------------
(* Auth proved for every set of callers, accounts and token lifetimes: its
   inductive invariant, and the four safety properties it implies.           *)
EXTENDS Auth, TLAPS

(* The token an answer to signin carries, with its expiry. *)
LEMMA IssuedToken ==
    ASSUME TypeOK, NEW c \in Callers, SigninAnswers(c)
    PROVE  /\ token' \in Tokens /\ tokenExpiry' \in Nat /\ issued' = tokenExpiry'
           /\ token'.acct = conf /\ token'.born = now
           /\ token'.exp # Opaque => tokenExpiry' = token'.exp
<1>1. PICK exp \in {now + life : life \in Lives} \cup {Opaque} :
          LET t == [acct |-> conf, born |-> now, exp |-> exp]
          IN  token' = t /\ tokenExpiry' = ExpiryOf(t) /\ issued' = ExpiryOf(t)
  BY DEF SigninAnswers
<1>2. exp \in Nat \cup {Opaque} /\ now \in Nat
  BY TimesAssumption DEF TypeOK, Times
<1> QED
  BY <1>1, <1>2, TimesAssumption DEF TypeOK, Tokens, ExpiryOf

(* Every variable keeps its type. *)
LEMMA TypeStep == TypeOK /\ LoginInv /\ UseInv /\ [Next]_vars => TypeOK'
<1> SUFFICES ASSUME TypeOK, LoginInv, UseInv, [Next]_vars PROVE TypeOK'
  OBVIOUS
<1> USE TimesAssumption, CallerAssumption, NilAssumption
<1>1. CASE Tick
  BY <1>1 DEF TypeOK, Tick, Times, memory, history
<1>3. CASE Boot
  BY <1>3 DEF TypeOK, Boot, memory, history
<1>4. CASE Stop \/ ExitAtStart
  <2>1. misread' \in BOOLEAN /\ refused' \in BOOLEAN
    BY <1>4 DEF Stop, ExitAtStart, Gone
  <2>2. session' \in Sessions \cup {NoFile}
    BY <1>4 DEF TypeOK, Stop, ExitAtStart
  <2> QED
    BY <1>4, <2>1, <2>2 DEF TypeOK, Stop, ExitAtStart, Gone
<1>5. CASE Serve
  BY <1>5 DEF TypeOK, Serve, memory, history
<1>6. ASSUME NEW c \in Callers, Call(c) \/ Acquire(c) \/ NeedsLogin(c) PROVE TypeOK'
  BY <1>6 DEF TypeOK, Call, Acquire, NeedsLogin, Goto, memory, history
<1>7. ASSUME NEW c \in Callers, LoadSession(c) PROVE TypeOK'
  BY <1>7 DEF TypeOK, LoadSession, Matches, Sessions, Goto, memory, history
<1>8. ASSUME NEW c \in Callers, ReturnCached(c) PROVE TypeOK'
  BY <1>8 DEF TypeOK, ReturnCached, Return, Goto, Times, memory, history
<1>9. ASSUME NEW c \in Callers, SigninAnswers(c) PROVE TypeOK'
  <2>1. misread' \in BOOLEAN
    BY <1>9 DEF SigninAnswers, TypeOK
  <2> QED
    BY <1>9, <2>1, IssuedToken DEF TypeOK, SigninAnswers, Goto
<1>10. ASSUME NEW c \in Callers, SigninFails(c) PROVE TypeOK'
  <2>1. misread' \in BOOLEAN
    BY <1>10 DEF SigninFails, TypeOK, history
  <2> QED
    BY <1>10, <2>1 DEF TypeOK, SigninFails, Goto, memory, history
<1>11. ASSUME NEW c \in Callers, SaveSession(c) PROVE TypeOK'
  <2>1. token \in Tokens
    BY <1>11 DEF LoginInv, SaveSession, Return, Goto, TypeOK
  <2>2. session' \in Sessions \cup {NoFile}
    BY <1>11, <2>1 DEF TypeOK, SaveSession, SavedSession, Sessions
  <2> QED
    BY <1>11, <2>2 DEF TypeOK, SaveSession, Return, Goto, Times, memory, history
<1>12. ASSUME NEW c \in Callers, Finish(c) PROVE TypeOK'
  <2>1. refused' \in BOOLEAN
    BY <1>12 DEF TypeOK, UseInv, Finish
  <2> QED
    BY <1>12, <2>1 DEF TypeOK, Finish, memory
<1>13. CASE UNCHANGED vars
  BY <1>13 DEF TypeOK, vars, memory, history
<1> QED
  BY <1>1, <1>3, <1>4, <1>5, <1>6, <1>7, <1>8, <1>9, <1>10, <1>11,
     <1>12, <1>13 DEF Next, EnsureToken

(* The mutex is held by the caller inside EnsureToken. *)
LEMMA MutexStep == TypeOK /\ MutexInv /\ [Next]_vars => MutexInv'
<1> SUFFICES ASSUME TypeOK, MutexInv, [Next]_vars PROVE MutexInv'
  OBVIOUS
<1> USE CallerAssumption, NilAssumption DEF Locked
<1>1. CASE Tick \/ UNCHANGED vars
  BY <1>1 DEF MutexInv, Tick, vars, memory, history
<1>2. CASE Boot
  BY <1>2 DEF TypeOK, MutexInv, Boot, memory, history
<1>3. CASE Stop \/ ExitAtStart
  BY <1>3 DEF MutexInv, Stop, ExitAtStart, Gone
<1>4. CASE Serve
  BY <1>4 DEF TypeOK, MutexInv, Serve
<1>5. ASSUME NEW c \in Callers, Call(c) \/ Acquire(c) \/ NeedsLogin(c) PROVE MutexInv'
  BY <1>5 DEF TypeOK, MutexInv, Call, Acquire, NeedsLogin, Goto, memory, history
<1>6. ASSUME NEW c \in Callers, LoadSession(c) PROVE MutexInv'
  BY <1>6 DEF TypeOK, MutexInv, LoadSession, Goto, history
<1>7. ASSUME NEW c \in Callers, ReturnCached(c) \/ SaveSession(c) PROVE MutexInv'
  BY <1>7 DEF TypeOK, MutexInv, ReturnCached, SaveSession, Return, Goto, memory, history
<1>8. ASSUME NEW c \in Callers, SigninAnswers(c) PROVE MutexInv'
  BY <1>8 DEF TypeOK, MutexInv, SigninAnswers, Goto
<1>9. ASSUME NEW c \in Callers, SigninFails(c) PROVE MutexInv'
  BY <1>9 DEF TypeOK, MutexInv, SigninFails, Goto, memory
<1>10. ASSUME NEW c \in Callers, Finish(c) PROVE MutexInv'
  BY <1>10 DEF TypeOK, MutexInv, Finish, memory
<1> QED
  BY <1>1, <1>2, <1>3, <1>4, <1>5, <1>6, <1>7, <1>8, <1>9, <1>10 DEF Next, EnsureToken

-----------------------------------------------------------------------------
(* A token and its expiry are kept together, under its own account. *)
LEMMA KeptStep ==
    TypeOK /\ MutexInv /\ KeptInv /\ LoginInv /\ [Next]_vars => KeptInv'
<1> SUFFICES ASSUME TypeOK, MutexInv, KeptInv, LoginInv, [Next]_vars PROVE KeptInv'
  OBVIOUS
<1> USE NilAssumption
<1>0. /\ now \in Nat
      /\ token # Nil => token.born \in Nat
      /\ session # NoFile => session.token \in Tokens /\ session.token.born \in Nat
  BY DEF TypeOK, Times, Tokens, Sessions
<1>1. CASE Tick
  BY <1>0, <1>1 DEF KeptInv, Tick, memory
<1>2. CASE Serve \/ UNCHANGED vars
  BY <1>2 DEF KeptInv, Serve, vars, memory
<1>3. CASE Boot
  BY <1>3 DEF MutexInv, KeptInv, Boot, memory
<1>4. CASE Stop \/ ExitAtStart
  BY <1>4 DEF KeptInv, Stop, ExitAtStart, Gone
<1>5. ASSUME NEW c \in Callers, \/ Call(c) \/ Acquire(c) \/ NeedsLogin(c)
                                \/ ReturnCached(c) \/ SigninFails(c) \/ Finish(c)
      PROVE KeptInv'
  BY <1>5 DEF KeptInv, Call, Acquire, NeedsLogin, ReturnCached, SigninFails, Finish, memory
<1>6. ASSUME NEW c \in Callers, LoadSession(c) PROVE KeptInv'
  BY <1>6 DEF KeptInv, LoadSession, Matches, memory
<1>7. ASSUME NEW c \in Callers, SigninAnswers(c) PROVE KeptInv'
  <2>1. /\ token'.acct = conf /\ token'.born = now
        /\ token'.exp # Opaque => tokenExpiry' = token'.exp
    BY <1>7, IssuedToken
  <2>2. now' = now /\ conf' = conf /\ session' = session
    BY <1>7 DEF SigninAnswers
  <2> QED
    BY <1>0, <2>1, <2>2 DEF KeptInv
<1>8. ASSUME NEW c \in Callers, SaveSession(c) PROVE KeptInv'
  BY <1>8 DEF KeptInv, LoginInv, SaveSession, SavedSession, Return, Goto, memory
<1> QED
  BY <1>1, <1>2, <1>3, <1>4, <1>5, <1>6, <1>7, <1>8 DEF Next, EnsureToken

(* Nothing replaces the token a process logged in for but another login, and
   nobody else touches it between the check and the end of the login.        *)
LEMMA LoginStep == TypeOK /\ MutexInv /\ LoginInv /\ [Next]_vars => LoginInv'
<1> SUFFICES ASSUME TypeOK, MutexInv, LoginInv, [Next]_vars PROVE LoginInv'
  OBVIOUS
<1> USE TimesAssumption, NilAssumption
<1>0. /\ now \in Nat /\ tokenExpiry \in Nat
      /\ token # Nil => token.born \in Nat
  BY DEF TypeOK, Times, Tokens
<1>1. CASE Tick
  <2>1. ~Outlives(tokenExpiry) => ~Outlives(tokenExpiry)'
    BY <1>0, <1>1 DEF Outlives, Tick, memory
  <2>2. \A c \in Callers : pc[c] = "save" => now' <= token.born + IssueLag
    BY <1>0, <1>1 DEF Tick, LoginInv
  <2> QED
    BY <1>1, <2>1, <2>2 DEF LoginInv, Tick, memory, history, Outlives
<1>2. CASE UNCHANGED vars
  BY <1>2 DEF LoginInv, vars, memory, history, Outlives
<1>3. CASE Boot
  BY <1>3 DEF TypeOK, MutexInv, LoginInv, Boot, memory, history
<1>4. CASE Stop \/ ExitAtStart
  BY <1>4 DEF LoginInv, Stop, ExitAtStart, Gone
<1>5. CASE Serve
  BY <1>5 DEF TypeOK, LoginInv, Serve, memory, history, Outlives
<1>6. ASSUME NEW c \in Callers, Call(c) \/ Acquire(c) PROVE LoginInv'
  BY <1>6 DEF TypeOK, LoginInv, Call, Acquire, Goto, memory, history, Outlives
<1>7. ASSUME NEW c \in Callers, LoadSession(c) PROVE LoginInv'
  <2>1. \A q \in Callers : pc'[q] \notin {"signin", "save"}
    BY <1>7 DEF TypeOK, MutexInv, Locked, LoadSession, Goto
  <2> QED
    BY <1>7, <2>1 DEF LoginInv, LoadSession, memory, history
<1>8. ASSUME NEW c \in Callers, ReturnCached(c) PROVE LoginInv'
  BY <1>8 DEF TypeOK, LoginInv, ReturnCached, Return, Goto, memory, history, Outlives
<1>9. ASSUME NEW c \in Callers, NeedsLogin(c) PROVE LoginInv'
  BY <1>9 DEF TypeOK, LoginInv, NeedsLogin, Goto, memory, history, Outlives
<1>10. ASSUME NEW c \in Callers, SigninAnswers(c) PROVE LoginInv'
  <2>1. \A q \in Callers : q # c => pc'[q] \notin {"signin", "save"}
    BY <1>10 DEF TypeOK, MutexInv, Locked, SigninAnswers, Goto
  <2>2. token' # Nil /\ token'.born = now /\ issued' = tokenExpiry'
    BY <1>10, IssuedToken
  <2>3. pc'[c] = "save" /\ now' = now
    BY <1>10 DEF TypeOK, SigninAnswers, Goto
  <2>4. now' <= token'.born + IssueLag
    BY <1>0, <2>2, <2>3
  <2> QED
    BY <2>1, <2>2, <2>3, <2>4 DEF LoginInv
<1>11. ASSUME NEW c \in Callers, SigninFails(c) PROVE LoginInv'
  BY <1>11 DEF TypeOK, LoginInv, SigninFails, Goto, memory, history, Outlives
<1>12. ASSUME NEW c \in Callers, SaveSession(c) PROVE LoginInv'
  BY <1>12 DEF TypeOK, LoginInv, SaveSession, Return, Goto, memory, history, Outlives
<1>13. ASSUME NEW c \in Callers, Finish(c) PROVE LoginInv'
  BY <1>13 DEF TypeOK, LoginInv, Finish, memory, Outlives
<1> QED
  BY <1>1, <1>2, <1>3, <1>4, <1>5, <1>6, <1>7, <1>8, <1>9, <1>10, <1>11,
     <1>12, <1>13 DEF Next, EnsureToken

-----------------------------------------------------------------------------
(* What a caller is given is its own account's and outlives its request. *)
LEMMA UseStep ==
    TypeOK /\ MutexInv /\ KeptInv /\ LoginInv /\ UseInv /\ [Next]_vars => UseInv'
<1> SUFFICES ASSUME TypeOK, MutexInv, KeptInv, LoginInv, UseInv, [Next]_vars
             PROVE  UseInv'
  OBVIOUS
<1> USE TimesAssumption, LagAssumption, CallerAssumption, NilAssumption
<1>0. /\ now \in Nat /\ tokenExpiry \in Nat
      /\ token # Nil => token.born \in Nat /\ token.exp \in Nat \cup {Opaque}
  BY DEF TypeOK, Times, Tokens
<1>1. CASE Tick
  <2>1. \A c \in Callers : pc[c] = "use" => now < due[c] /\ due[c] \in Nat
    BY <1>1 DEF Tick, TypeOK
  <2>2. now' = now + 1 /\ pc' = pc /\ held' = held /\ due' = due /\ conf' = conf
    BY <1>1 DEF Tick
  <2> QED
    BY <1>0, <2>1, <2>2 DEF UseInv
<1>2. CASE UNCHANGED vars
  BY <1>2 DEF UseInv, vars
<1>3. CASE Boot
  BY <1>3 DEF TypeOK, MutexInv, UseInv, Boot
<1>4. CASE Stop \/ ExitAtStart
  BY <1>4 DEF UseInv, Stop, ExitAtStart, Gone
<1>5. CASE Serve
  BY <1>5 DEF TypeOK, UseInv, Serve
<1>6. ASSUME NEW c \in Callers, \/ Call(c) \/ Acquire(c) \/ LoadSession(c)
                                \/ NeedsLogin(c) \/ SigninAnswers(c) \/ SigninFails(c)
      PROVE UseInv'
  <2>1. PICK label \in {"lock", "load", "check", "signin", "save", "fail"} :
            pc' = [pc EXCEPT ![c] = label]
    BY <1>6 DEF Call, Acquire, LoadSession, NeedsLogin, SigninAnswers, SigninFails, Goto
  <2>2. UNCHANGED <<now, conf, held, due>>
    BY <1>6 DEF Call, Acquire, LoadSession, NeedsLogin, SigninAnswers, SigninFails
  <2> QED
    BY <2>1, <2>2 DEF TypeOK, UseInv
<1>7. ASSUME NEW c \in Callers, ReturnCached(c) \/ SaveSession(c) PROVE UseInv'
  <2>1. token # Nil /\ token.acct = conf
    BY <1>7 DEF ReturnCached, SaveSession, Return, Goto, LoginInv, KeptInv
  <2>2. token.exp # Opaque /\ token.exp - token.born > Grace + IssueLag
            => now + UseLag < token.exp
    <3>1. CASE ReturnCached(c)
      BY <1>0, <2>1, <3>1 DEF ReturnCached, Outlives, KeptInv
    <3>2. CASE SaveSession(c)
      <4>1. now <= token.born + IssueLag
        BY <3>2 DEF SaveSession, Return, Goto, LoginInv
      <4> QED
        BY <1>0, <2>1, <4>1
    <3> QED
      BY <1>7, <3>1, <3>2
  <2>3. /\ pc' = [pc EXCEPT ![c] = "use"] /\ held' = [held EXCEPT ![c] = token]
        /\ due' = [due EXCEPT ![c] = now + UseLag] /\ now' = now /\ conf' = conf
    BY <1>7 DEF ReturnCached, SaveSession, Return, Goto
  <2>4. now <= now + UseLag
    BY <1>0
  <2>5. ASSUME NEW q \in Callers, pc'[q] = "use"
        PROVE  /\ held'[q] # Nil /\ held'[q].acct = conf' /\ now' <= due'[q]
               /\ held'[q].exp # Opaque /\ held'[q].exp - held'[q].born > Grace + IssueLag
                     => due'[q] < held'[q].exp
    <3>1. CASE q = c
      BY <2>1, <2>2, <2>3, <2>4, <3>1 DEF TypeOK
    <3>2. CASE q # c
      BY <2>3, <2>5, <3>2 DEF TypeOK, UseInv
    <3> QED
      BY <3>1, <3>2
  <2> QED
    BY <2>5 DEF UseInv
<1>8. ASSUME NEW c \in Callers, Finish(c) PROVE UseInv'
  BY <1>8 DEF TypeOK, UseInv, Finish
<1> QED
  BY <1>1, <1>2, <1>3, <1>4, <1>5, <1>6, <1>7, <1>8 DEF Next, EnsureToken

(* A usable session file is never bypassed by a login. *)
LEMMA SessionStep ==
    ASSUME TypeOK, MutexInv, LoginInv, SessionInv, SessionReused, [Next]_vars
    PROVE  SessionInv' /\ SessionReused'
<1> USE TimesAssumption, CallerAssumption, NilAssumption
<1>0. /\ now \in Nat /\ tokenExpiry \in Nat
      /\ session # NoFile => session.exp \in Nat
  BY DEF TypeOK, Times, Sessions
<1>1. CASE Tick
  <2>1. session # NoFile /\ Outlives(session.exp)' => Outlives(session.exp)
    BY <1>0, <1>1 DEF Outlives, Tick
  <2> QED
    BY <1>1, <2>1 DEF SessionInv, SessionReused, Matches, Tick, memory, history
<1>2. CASE UNCHANGED vars
  BY <1>2 DEF SessionInv, SessionReused, Matches, Outlives, vars, memory, history
<1>3. CASE Boot
  BY <1>3 DEF TypeOK, MutexInv, SessionInv, SessionReused, Boot, memory, history
<1>4. CASE Stop \/ ExitAtStart
  BY <1>4 DEF SessionInv, SessionReused, Stop, ExitAtStart, Gone
<1>5. CASE Serve
  BY <1>5 DEF TypeOK, SessionInv, SessionReused, Matches, Outlives, Serve, memory, history
<1>6. ASSUME NEW c \in Callers, \/ Call(c) \/ Acquire(c) \/ ReturnCached(c)
                                \/ SigninFails(c) \/ Finish(c)
      PROVE SessionInv' /\ SessionReused'
  <2>1. /\ UNCHANGED <<now, conf, memory, session>> /\ misread' = misread
        /\ \A q \in Callers : pc'[q] \in {"signin", "check"} => pc'[q] = pc[q]
    BY <1>6 DEF TypeOK, Call, Acquire, ReturnCached, SigninFails, Finish, Return, Goto, history
  <2> QED
    BY <2>1 DEF SessionInv, SessionReused, Matches, Outlives, memory
<1>7. ASSUME NEW c \in Callers, LoadSession(c) PROVE SessionInv' /\ SessionReused'
  <2>1. \A q \in Callers : pc'[q] # "signin"
    BY <1>7 DEF TypeOK, MutexInv, Locked, LoadSession, Goto
  <2>2. \A q \in Callers : q # c => pc'[q] # "check"
    BY <1>7 DEF TypeOK, MutexInv, Locked, LoadSession, Goto
  <2>3. /\ session' = session /\ conf' = conf /\ now' = now
        /\ \/ token' = session.token /\ tokenExpiry' = session.exp /\ session.token # Nil
           \/ UNCHANGED memory /\ (token # Nil \/ ~Matches(session))
           \/ misread'
    BY <1>7 DEF LoadSession, Matches, TypeOK, Sessions
  <2>4. misread => misread'
    BY <1>7 DEF LoadSession
  <2> QED
    BY <2>1, <2>2, <2>3, <2>4 DEF SessionInv, SessionReused, Matches, Outlives, memory, history
<1>8. ASSUME NEW c \in Callers, NeedsLogin(c) PROVE SessionInv' /\ SessionReused'
  <2>1. misread \/ ~(Matches(session) /\ Outlives(session.exp))
    BY <1>8 DEF NeedsLogin, Goto, SessionInv
  <2>2. UNCHANGED <<session, conf, now, token, tokenExpiry, misread>>
    BY <1>8 DEF NeedsLogin, memory, history
  <2>3. \A q \in Callers : pc'[q] = "check" => pc[q] = "check"
    BY <1>8 DEF NeedsLogin, Goto, TypeOK
  <2> QED
    BY <2>1, <2>2, <2>3 DEF SessionInv, SessionReused, Matches, Outlives
<1>9. ASSUME NEW c \in Callers, SigninAnswers(c) PROVE SessionInv' /\ SessionReused'
  <2>1. misread \/ ~(Matches(session) /\ Outlives(session.exp))
    BY <1>9 DEF SigninAnswers, Goto, SessionReused
  <2>2. UNCHANGED <<session, conf, now, misread>>
    BY <1>9 DEF SigninAnswers
  <2>3. token' # Nil
    BY <1>9, IssuedToken
  <2> QED
    BY <2>1, <2>2, <2>3 DEF SessionInv, SessionReused, Matches, Outlives
<1>10. ASSUME NEW c \in Callers, SaveSession(c) PROVE SessionInv' /\ SessionReused'
  <2>1. \A q \in Callers : pc'[q] \notin {"check", "signin"}
    BY <1>10 DEF TypeOK, MutexInv, Locked, SaveSession, Return, Goto
  <2>2. \/ session' = session
        \/ session' = NoFile
        \/ session'.exp = tokenExpiry
    BY <1>10 DEF SaveSession, SavedSession
  <2>3. UNCHANGED <<conf, now, token, tokenExpiry, misread>>
    BY <1>10 DEF SaveSession, memory, history
  <2> QED
    BY <2>1, <2>2, <2>3 DEF SessionInv, SessionReused, Matches, Outlives
<1> QED
  BY <1>1, <1>2, <1>3, <1>4, <1>5, <1>6, <1>7, <1>8, <1>9, <1>10 DEF Next, EnsureToken

-----------------------------------------------------------------------------
(* Inv is an invariant of Auth. *)
THEOREM Invariance == Spec => []Inv
<1>1. Init => Inv
  <2> SUFFICES ASSUME Init PROVE Inv
    OBVIOUS
  <2> USE TimesAssumption, NilAssumption
  <2>0. 0 \in Times
    BY DEF Times
  <2>1. misread \in BOOLEAN
    BY DEF Init
  <2>2. TypeOK
    BY <2>0, <2>1 DEF Init, TypeOK
  <2>3. MutexInv /\ KeptInv /\ LoginInv /\ UseInv
    BY DEF Init, MutexInv, Locked, KeptInv, LoginInv, UseInv
  <2>4. SessionInv /\ SessionReused
    BY DEF Init, SessionInv, SessionReused, Matches
  <2> QED
    BY <2>2, <2>3, <2>4 DEF Inv
<1>2. Inv /\ [Next]_vars => Inv'
  <2> SUFFICES ASSUME Inv, [Next]_vars PROVE Inv'
    OBVIOUS
  <2>1. TypeOK' /\ MutexInv' /\ KeptInv' /\ LoginInv' /\ UseInv'
    BY TypeStep, MutexStep, KeptStep, LoginStep, UseStep DEF Inv
  <2>2. SessionInv' /\ SessionReused'
    BY SessionStep DEF Inv
  <2> QED
    BY <2>1, <2>2 DEF Inv
<1> QED
  BY <1>1, <1>2, PTL DEF Spec

(* Every variable has its type in every reachable state. *)
THEOREM TypeCorrect == Spec => []TypeOK
<1>1. Inv => TypeOK
  BY DEF Inv
<1> QED
  BY <1>1, Invariance, PTL

(* Nobody is ever given a token of another upstream or another user. *)
THEOREM AccountKept == Spec => []OwnAccount
<1>1. Inv => OwnAccount
  BY DEF Inv, UseInv, OwnAccount
<1> QED
  BY <1>1, Invariance, PTL

(* A token reaches upstream before it expires. *)
THEOREM GraceSuffices == Spec => []UsableToken
<1>1. Inv => UsableToken
  <2> SUFFICES ASSUME Inv, NEW c \in Callers, pc[c] = "use", held[c].exp # Opaque,
                      held[c].exp - held[c].born > Grace + IssueLag
               PROVE  now < held[c].exp
    BY DEF UsableToken
  <2>1. now <= due[c] /\ due[c] < held[c].exp /\ held[c] # Nil
    BY DEF Inv, UseInv
  <2>2. now \in Nat /\ due[c] \in Nat /\ held[c].exp \in Nat
    BY <2>1 DEF Inv, TypeOK, Times, Tokens
  <2> QED
    BY <2>1, <2>2
<1> QED
  BY <1>1, Invariance, PTL

(* Callers that queue up behind a login share its token. *)
THEOREM LoginsShared == Spec => []OneLoginPerToken
<1>1. Inv => OneLoginPerToken
  BY DEF Inv, LoginInv, OneLoginPerToken
<1> QED
  BY <1>1, Invariance, PTL

(* A restart within the life of a session costs no login, unless the process
   fails to read a file that is there.                                       *)
THEOREM SessionIsReused == Spec => []SessionReused
<1>1. Inv => SessionReused
  BY DEF Inv
<1> QED
  BY <1>1, Invariance, PTL

-----------------------------------------------------------------------------
(* Auth implements TokenStore. *)

(* Where TokenStore sees a caller that has moved on. *)
LEMMA PhaseStep ==
    ASSUME TypeOK, NEW c \in Callers, NEW here, NEW label, Goto(c, here, label)
    PROVE  /\ phase[c] = PhaseAt(here)
           /\ phase' = [phase EXCEPT ![c] = PhaseAt(label)]
<1>1. /\ pc[c] = here /\ pc' = [pc EXCEPT ![c] = label]
      /\ pc'[c] = label /\ \A d \in Callers : d # c => pc'[d] = pc[d]
  BY DEF Goto, TypeOK
<1>2. phase' = [d \in Callers |-> PhaseAt(pc'[d])]
  BY DEF phase
<1>3. phase = [d \in Callers |-> PhaseAt(pc[d])]
  BY DEF phase
<1> QED
  BY <1>1, <1>2, <1>3

(* While one caller is inside EnsureToken no other is between its renewal and
   its answer.                                                               *)
LEMMA OthersSettled ==
    ASSUME TypeOK, MutexInv, NEW c \in Callers, pc[c] \in Locked, pc[c] # "save"
    PROVE  Store!Settled
<1>1. \A d \in Callers : pc[d] # "save"
  BY DEF MutexInv, Locked
<1>2. \A d \in Callers : phase[d] = PhaseAt(pc[d])
  BY DEF phase
<1> QED
  BY <1>1, <1>2 DEF TypeOK, Store!Settled, PhaseAt

(* Each step of Auth is one of TokenStore's, or TokenStore does not see it. *)
LEMMA StoreStep ==
    ASSUME TypeOK, MutexInv, KeptInv, KeptInv', LoginInv, [Next]_vars
    PROVE  Store!Next \/ UNCHANGED Store!vars
<1> USE NilAssumption, CallerAssumption
<1>1. CASE Tick
  <2>1. Store!Tick
    BY <1>1 DEF Tick, Store!Tick, memory, phase
  <2> QED
    BY <2>1 DEF Store!Next
<1>2. CASE UNCHANGED vars
  BY <1>2 DEF vars, memory, phase, Store!vars
<1>3. CASE Boot
  <2>1. /\ token = Nil /\ \A c \in Callers : pc[c] = "idle"
        /\ Goto(Main, "idle", "lock")
    BY <1>3 DEF Boot, MutexInv, Goto
  <2>2. \A c \in Callers : phase[c] = "idle"
    BY <2>1 DEF phase, PhaseAt
  <2>3. Store!Goto(Main, "idle", "asked")
    BY <2>1, PhaseStep DEF TypeOK, PhaseAt, Store!Goto
  <2>4. Store!Launch(Main)
    BY <1>3, <2>1, <2>2, <2>3 DEF Boot, memory, Store!Launch
  <2> QED
    BY <2>4 DEF Store!Next
<1>4. CASE Stop \/ ExitAtStart
  <2>1. phase' = [c \in Callers |-> "idle"]
    BY <1>4 DEF Stop, ExitAtStart, Gone, phase, PhaseAt
  <2>2. Store!Forget
    BY <1>4, <2>1 DEF Stop, ExitAtStart, Gone, Store!Forget
  <2> QED
    BY <2>2 DEF Store!Next
<1>5. CASE Serve
  <2>1. Goto(Main, "use", "idle") /\ held' = [held EXCEPT ![Main] = Nil]
    BY <1>5 DEF Serve, Goto
  <2>2. Store!Goto(Main, "given", "idle")
    BY <2>1, PhaseStep DEF PhaseAt, Store!Goto
  <2>3. Store!Done(Main)
    BY <1>5, <2>1, <2>2 DEF Serve, memory, Store!Done
  <2> QED
    BY <2>3 DEF Store!Next
<1>6. ASSUME NEW c \in Callers, Call(c) PROVE Store!Ask(c)
  BY <1>6, PhaseStep DEF Call, memory, PhaseAt, Store!Goto, Store!Ask
<1>7. ASSUME NEW c \in Callers, Acquire(c) \/ NeedsLogin(c) PROVE UNCHANGED Store!vars
  <2>1. PICK here \in {"lock", "check"}, label \in {"load", "signin"} : Goto(c, here, label)
    BY <1>7 DEF Acquire, NeedsLogin
  <2>2. PhaseAt(label) = PhaseAt(here)
    BY DEF PhaseAt
  <2>3. phase' = [phase EXCEPT ![c] = phase[c]]
    BY <2>1, <2>2, PhaseStep
  <2>4. phase' = phase
    BY <2>3 DEF phase
  <2> QED
    BY <1>7, <2>4 DEF Acquire, NeedsLogin, memory, Store!vars
<1>8. ASSUME NEW c \in Callers, LoadSession(c) PROVE Store!Adopt(c) \/ UNCHANGED Store!vars
  <2>1. Goto(c, "load", "check") /\ UNCHANGED <<now, conf, held>>
    BY <1>8 DEF LoadSession
  <2>2. phase[c] = "asked" /\ phase' = [phase EXCEPT ![c] = phase[c]]
    BY <2>1, PhaseStep DEF PhaseAt
  <2>3. phase' = phase
    BY <2>2 DEF phase
  <2>4. CASE UNCHANGED memory
    BY <2>1, <2>3, <2>4 DEF memory, Store!vars
  <2>5. CASE token = Nil /\ Matches(session) /\ token' = session.token /\ tokenExpiry' = session.exp
    <3>1. Store!Settled
      BY <2>1, OthersSettled DEF Goto, Locked
    <3>2. token' # Nil
      BY <2>5 DEF TypeOK, Matches, Sessions
    <3>3. Store!Take
      BY <2>1, <3>2 DEF KeptInv, Store!Take
    <3> QED
      BY <2>1, <2>2, <2>3, <2>5, <3>1, <3>3 DEF Store!Adopt
  <2> QED
    BY <1>8, <2>4, <2>5 DEF LoadSession
<1>9. ASSUME NEW c \in Callers, SigninAnswers(c) PROVE Store!Renew(c)
  <2>1. Goto(c, "signin", "save") /\ UNCHANGED <<now, conf, held>>
    BY <1>9 DEF SigninAnswers
  <2>2. Store!Goto(c, "asked", "renewed")
    BY <2>1, PhaseStep DEF PhaseAt, Store!Goto
  <2>3. Store!Settled
    BY <2>1, OthersSettled DEF Goto, Locked
  <2>4. ~Store!Good
    BY <2>1 DEF Goto, LoginInv, Outlives, Store!Good
  <2>5. /\ token' \in Tokens /\ token'.acct = conf /\ token'.born = now
        /\ token'.exp # Opaque => tokenExpiry' = token'.exp
    BY <1>9, IssuedToken
  <2>6. now <= now
    BY DEF TypeOK, Times
  <2>7. Store!Take
    BY <2>5, <2>6 DEF Store!Take
  <2> QED
    BY <2>1, <2>2, <2>3, <2>4, <2>5, <2>7 DEF Store!Renew
<1>10. ASSUME NEW c \in Callers, SigninFails(c) PROVE Store!Refuse(c)
  <2>1. Goto(c, "signin", "fail") /\ UNCHANGED <<now, conf, held, memory>>
    BY <1>10 DEF SigninFails
  <2>2. Store!Goto(c, "asked", "refused")
    BY <2>1, PhaseStep DEF PhaseAt, Store!Goto
  <2>3. Store!Settled
    BY <2>1, OthersSettled DEF Goto, Locked
  <2>4. ~Store!Good
    BY <2>1 DEF Goto, LoginInv, Outlives, Store!Good
  <2> QED
    BY <2>1, <2>2, <2>3, <2>4 DEF memory, Store!Refuse
<1>11. ASSUME NEW c \in Callers, ReturnCached(c) PROVE Store!Answer(c)
  <2>1. Goto(c, "check", "use") /\ token # Nil /\ Outlives(tokenExpiry)
    BY <1>11 DEF ReturnCached, Return
  <2>2. Store!Goto(c, "asked", "given")
    BY <2>1, PhaseStep DEF PhaseAt, Store!Goto
  <2>3. Store!Settled
    BY <2>1, OthersSettled DEF Goto, Locked
  <2>4. Store!Good
    BY <2>1 DEF Outlives, Store!Good
  <2> QED
    BY <1>11, <2>2, <2>3, <2>4 DEF ReturnCached, Return, memory, Store!Answer
<1>12. ASSUME NEW c \in Callers, SaveSession(c) PROVE Store!Answer(c)
  <2>1. Goto(c, "save", "use")
    BY <1>12 DEF SaveSession, Return
  <2>2. Store!Goto(c, "renewed", "given")
    BY <2>1, PhaseStep DEF PhaseAt, Store!Goto
  <2>3. now <= token.born + IssueLag
    BY <2>1 DEF Goto, LoginInv
  <2> QED
    BY <1>12, <2>2, <2>3 DEF SaveSession, Return, memory, Store!Answer
<1>13. ASSUME NEW c \in Callers, Finish(c) PROVE Store!Done(c)
  <2>1. PICK here \in {"use", "fail"} : Goto(c, here, "idle")
    BY <1>13 DEF Finish, Goto
  <2>2. Store!Goto(c, "given", "idle") \/ Store!Goto(c, "refused", "idle")
    BY <2>1, PhaseStep DEF PhaseAt, Store!Goto
  <2> QED
    BY <1>13, <2>2 DEF Finish, memory, Store!Done
<1> QED
  BY <1>1, <1>2, <1>3, <1>4, <1>5, <1>6, <1>7, <1>8, <1>9, <1>10, <1>11, <1>12, <1>13
     DEF Next, EnsureToken, Store!Next

(* For every set of callers, accounts and token lives EnsureToken behaves as if
   it took place at one moment on one shared token.                          *)
THEOREM Refinement == Spec => TokenSpec
<1>1. Init => Store!Init
  BY DEF Init, Store!Init, phase, PhaseAt
<1>2. Inv /\ Inv' /\ [Next]_vars => [Store!Next]_(Store!vars)
  BY StoreStep DEF Inv
<1> QED
  BY <1>1, <1>2, Invariance, PTL DEF Spec, TokenSpec, Store!Spec
=============================================================================
