-------------------------------- MODULE Auth --------------------------------
(***************************************************************************)
(* auth.Obj: one Open WebUI JWT per process, shared by every handler, kept *)
(* in memory and in session.bin, renewed by a login when it is about to    *)
(* expire.  EnsureToken holds mu from its first test to its return, the    *)
(* network login included, so callers queue up behind a login.             *)
(*                                                                         *)
(* The first caller of a process is main itself: the process serves only   *)
(* after main's EnsureToken has succeeded and exits when it fails; from    *)
(* then on Main stands for one more handler.  A caller uses the token it   *)
(* was given in one upstream request.                                      *)
(*                                                                         *)
(* Data: an account is a base URL and an e-mail (the password is not part  *)
(* of the session file); a token is the account it was issued for, when it *)
(* was issued, and its exp claim, or Opaque when parseJWTExpiry finds none. *)
(***************************************************************************)
EXTENDS Integers

CONSTANTS
    Callers,     \* goroutines that call EnsureToken, Main included
    Main,        \* the call main makes before it serves
    Urls, Emails,
    Lives,       \* lifetimes Open WebUI may give a token
    Grace,       \* a token with no more than this left is renewed (30 s)
    Fallback,    \* the life assumed of a token without a readable exp (24 h)
    IssueLag,    \* ticks from upstream issuing a token to its return by EnsureToken
    UseLag,      \* ticks from EnsureToken's return to upstream's check of the token
    MaxTime,     \* bound of the model
    Nil, NoCaller, NoFile, Opaque

Times    == 0..MaxTime
Accounts == [url : Urls, email : Emails]
Tokens   == [acct : Accounts, born : Times, exp : Nat \cup {Opaque}]
Sessions == [token : Tokens, exp : Nat, acct : Accounts]

ASSUME TimesAssumption  == /\ Lives \subseteq Nat
                           /\ Grace \in Nat /\ Fallback \in Nat
                           /\ IssueLag \in Nat /\ UseLag \in Nat
                           /\ MaxTime \in Nat
ASSUME LagAssumption    == UseLag <= Grace
ASSUME CallerAssumption == Main \in Callers
ASSUME NilAssumption    == /\ Nil \notin Tokens /\ Nil \notin Nat /\ Opaque \notin Nat
                           /\ NoCaller \notin Callers /\ NoFile \notin Sessions

VARIABLES
    now,          \* the clock
    proc,         \* "down", "starting" (main's EnsureToken) or "serving"
    conf,         \* the account of the process's flags
    token,        \* Obj.token, Nil for the empty string
    tokenExpiry,  \* Obj.tokenExpiry
    mu,           \* the caller that holds Obj.mu, or NoCaller
    session,      \* session.bin, NoFile when absent or torn
    pc,           \* where each caller is
    held,         \* the token each caller was given, or Nil
    due,          \* by when each caller's request has reached upstream
    issued,       \* history: expiry of the last token this process logged in for
    misread,      \* history: this process has failed to read a file that was there
    refused       \* history: upstream has answered 401 to the token in memory

memory == <<token, tokenExpiry>>
history == <<issued, misread, refused>>
vars == <<now, proc, conf, memory, mu, session, pc, held, due, history>>

-----------------------------------------------------------------------------
(* EnsureToken: time.Until(tokenExpiry) > 30s *)
Outlives_AtExpiry(exp) == exp > now
Outlives(exp) == exp - now > Grace

(* login: the expiry kept for a token. *)
ExpiryOf_NoFallback(t) == t.exp
ExpiryOf(t) == IF t.exp = Opaque THEN now + Fallback ELSE t.exp

(* loadSession accepts a file of the account in the flags. *)
Matches_EmailOnly(s) == s # NoFile /\ s.acct.email = conf.email
Matches(s) == s # NoFile /\ s.acct = conf

-----------------------------------------------------------------------------
Init == /\ now = 0
        /\ proc = "down" /\ conf \in Accounts
        /\ token = Nil /\ tokenExpiry = 0 /\ mu = NoCaller
        /\ session = NoFile
        /\ pc = [c \in Callers |-> "idle"]
        /\ held = [c \in Callers |-> Nil]
        /\ due = [c \in Callers |-> 0]
        /\ issued = Nil /\ misread = FALSE /\ refused = FALSE

(* Time passes.  From the issue of a token to its return is bounded by the
   login's 30 s timeout and a file write, from there to upstream by the
   handler, which sends its request next.                                    *)
Tick == /\ now < MaxTime
        /\ \A c \in Callers : /\ pc[c] = "save" => now < token.born + IssueLag
                              /\ pc[c] = "use" => now < due[c]
        /\ now' = now + 1
        /\ UNCHANGED <<proc, conf, memory, mu, session, pc, held, due, history>>

(* auth.New and main's call of EnsureToken, under whatever flags. *)
Boot ==
    /\ proc = "down"
    /\ proc' = "starting"
    /\ conf' \in Accounts
    /\ pc' = [pc EXCEPT ![Main] = "lock"]
    /\ UNCHANGED <<now, memory, mu, session, held, due, history>>

(* All a process forgets when it exits. *)
Gone == /\ proc' = "down"
        /\ token' = Nil /\ tokenExpiry' = 0 /\ mu' = NoCaller
        /\ pc' = [c \in Callers |-> "idle"]
        /\ held' = [c \in Callers |-> Nil]
        /\ due' = [c \in Callers |-> 0]
        /\ issued' = Nil /\ misread' = FALSE /\ refused' = FALSE

(* The process is killed or shut down; a session write that was under way may
   have got half way.                                                        *)
Stop ==
    /\ proc # "down"
    /\ Gone
    /\ \/ UNCHANGED session
       \/ (\E c \in Callers : pc[c] = "save") /\ session' = NoFile
    /\ UNCHANGED <<now, conf>>

(* main: log.Fatalf when its EnsureToken has failed. *)
ExitAtStart ==
    /\ proc = "starting" /\ pc[Main] = "fail"
    /\ Gone
    /\ UNCHANGED <<now, conf, session>>

(* main: EnsureToken has returned a token, start to serve. *)
Serve ==
    /\ proc = "starting" /\ pc[Main] = "use"
    /\ proc' = "serving"
    /\ pc' = [pc EXCEPT ![Main] = "idle"]
    /\ held' = [held EXCEPT ![Main] = Nil]
    /\ UNCHANGED <<now, conf, memory, mu, session, due, history>>

-----------------------------------------------------------------------------
(* EnsureToken. *)

Goto(c, here, there) == pc[c] = here /\ pc' = [pc EXCEPT ![c] = there]

(* Return the token in memory to caller c and release mu. *)
Return(c, here) ==
    /\ Goto(c, here, "use")
    /\ held' = [held EXCEPT ![c] = token]
    /\ due' = [due EXCEPT ![c] = now + UseLag]
    /\ mu' = NoCaller

Call(c) ==
    /\ proc = "serving"
    /\ Goto(c, "idle", "lock")
    /\ UNCHANGED <<now, proc, conf, memory, mu, session, held, due, history>>

Acquire_NoLock(c) ==
    /\ Goto(c, "lock", "load") /\ mu' = c
    /\ UNCHANGED <<now, proc, conf, memory, session, held, due, history>>
Acquire(c) ==
    /\ mu = NoCaller
    /\ Goto(c, "lock", "load") /\ mu' = c
    /\ UNCHANGED <<now, proc, conf, memory, session, held, due, history>>

(* loadSession, only when memory holds no token; its error is dropped: a file
   that is absent, torn or another account's, or a read that fails.          *)
LoadSession_Always(c) ==
    /\ Goto(c, "load", "check")
    /\ \/ /\ Matches(session)
          /\ token' = session.token /\ tokenExpiry' = session.exp
       \/ ~Matches(session) /\ UNCHANGED memory
    /\ UNCHANGED <<now, proc, conf, mu, session, held, due, history>>
LoadSession(c) ==
    /\ Goto(c, "load", "check")
    /\ \/ /\ token = Nil /\ Matches(session)
          /\ token' = session.token /\ tokenExpiry' = session.exp
          /\ UNCHANGED misread
       \/ /\ token # Nil \/ ~Matches(session)
          /\ UNCHANGED <<memory, misread>>
       \/ /\ token = Nil /\ session # NoFile
          /\ misread' = TRUE /\ UNCHANGED memory
    /\ UNCHANGED <<now, proc, conf, mu, session, held, due, issued, refused>>

ReturnCached(c) ==
    /\ token # Nil /\ Outlives(tokenExpiry)
    /\ Return(c, "check")
    /\ UNCHANGED <<now, proc, conf, memory, session, history>>

NeedsLogin(c) ==
    /\ ~(token # Nil /\ Outlives(tokenExpiry))
    /\ Goto(c, "check", "signin")
    /\ UNCHANGED <<now, proc, conf, memory, mu, session, held, due, history>>

(* login succeeds: upstream issues a token now. *)
SigninAnswers(c) ==
    /\ Goto(c, "signin", "save")
    /\ \E exp \in {now + life : life \in Lives} \cup {Opaque} :
          LET t == [acct |-> conf, born |-> now, exp |-> exp]
          IN  token' = t /\ tokenExpiry' = ExpiryOf(t) /\ issued' = ExpiryOf(t)
    /\ refused' = FALSE
    /\ UNCHANGED <<now, proc, conf, mu, session, held, due, misread>>

(* login fails: no connection, a timeout, the client gone (its context is
   cancelled), a status other than 200, a body without a token.              *)
SigninFails(c) ==
    /\ Goto(c, "signin", "fail")
    /\ mu' = NoCaller
    /\ UNCHANGED <<now, proc, conf, memory, session, held, due, history>>

(* saveSession: written, left torn, or not opened; its error is dropped.  The
   token is returned all the same, without another look at its expiry.       *)
SavedSession_StaleExpiry == [token |-> token, exp |-> now + Fallback, acct |-> conf]
SavedSession == [token |-> token, exp |-> tokenExpiry, acct |-> conf]
SaveSession(c) ==
    /\ session' \in {SavedSession, NoFile, session}
    /\ Return(c, "save")
    /\ UNCHANGED <<now, proc, conf, memory, history>>

(* The handler has sent its request with the token, or has answered the error.
   Upstream may have answered 401, to a token it has revoked: that is passed on
   to the client, and the token is neither dropped nor renewed.              *)
Finish(c) ==
    /\ proc = "serving"
    /\ pc[c] \in {"use", "fail"}
    /\ refused' \in IF pc[c] = "use" /\ held[c] = token THEN {refused, TRUE} ELSE {refused}
    /\ pc' = [pc EXCEPT ![c] = "idle"]
    /\ held' = [held EXCEPT ![c] = Nil]
    /\ UNCHANGED <<now, proc, conf, memory, mu, session, due, issued, misread>>

-----------------------------------------------------------------------------
EnsureToken(c) == \/ LoadSession(c) \/ ReturnCached(c) \/ NeedsLogin(c)
                  \/ SigninAnswers(c) \/ SigninFails(c) \/ SaveSession(c)

Next == \/ Tick \/ Boot \/ Stop \/ ExitAtStart \/ Serve
        \/ \E c \in Callers : Call(c) \/ Acquire(c) \/ EnsureToken(c) \/ Finish(c)

Spec == Init /\ [][Next]_vars

-----------------------------------------------------------------------------
(* Properties. *)

TypeOK == /\ now \in Times
          /\ proc \in {"down", "starting", "serving"} /\ conf \in Accounts
          /\ token \in Tokens \cup {Nil} /\ tokenExpiry \in Nat
          /\ mu \in Callers \cup {NoCaller}
          /\ session \in Sessions \cup {NoFile}
          /\ pc \in [Callers -> {"idle", "lock", "load", "check", "signin",
                                 "save", "use", "fail"}]
          /\ held \in [Callers -> Tokens \cup {Nil}]
          /\ due \in [Callers -> Nat]
          /\ issued \in Nat \cup {Nil}
          /\ misread \in BOOLEAN /\ refused \in BOOLEAN

(* A caller carries a token that the configured upstream issued to the
   configured e-mail, although session.bin outlives the flags it was written
   under (loadSession 64-66, saveSession 74-80).                             *)
OwnAccount == \A c \in Callers :
    pc[c] = "use" => held[c] # Nil /\ held[c].acct = conf

(* The 30 s of grace do their work: a request that reaches upstream within
   UseLag of EnsureToken's return carries a token that has not expired, from
   memory, disk or login, unless upstream issues tokens that live hardly
   longer than the grace or have no readable exp (EnsureToken 126-139).      *)
UsableToken == \A c \in Callers :
    pc[c] = "use" /\ held[c].exp # Opaque /\ held[c].exp - held[c].born > Grace + IssueLag
        => now < held[c].exp

(* However many callers find the token run out, they log in once: a process
   that has logged in asks again only when that token has at most the grace
   left (mutex held across login, EnsureToken 123-137).                      *)
OneLoginPerToken == \A c \in Callers :
    pc[c] = "signin" => issued = Nil \/ ~Outlives(issued)

(* A session file that would serve is used: no login while session.bin holds a
   token of this account that outlives the grace, although the file is read
   only when memory is empty, unless this process once failed to read it
   (EnsureToken 126-128).                                                    *)
SessionReused == \A c \in Callers :
    pc[c] = "signin" => misread \/ ~(Matches(session) /\ Outlives(session.exp))

(* Mutex, session file and login together are one token that all callers share:
   every step of EnsureToken is one of TokenStore's or invisible, so that a call
   seems to happen at one moment (EnsureToken 123-139).                      *)
PhaseAt(label) == CASE label \in {"lock", "load", "check", "signin"} -> "asked"
                    [] label = "save" -> "renewed"
                    [] label = "use"  -> "given"
                    [] label = "fail" -> "refused"
                    [] OTHER          -> "idle"
phase == [c \in Callers |-> PhaseAt(pc[c])]

Store == INSTANCE TokenStore WITH account <- conf, current <- token, until <- tokenExpiry
TokenSpec == Store!Spec

-----------------------------------------------------------------------------
(* What the repository says and the code does not do. *)

(* "EnsureToken returns a valid JWT, re-authenticating if needed": it does not
   return a token that upstream has already refused (auth.go:121).           *)
NoRejectedJWT == [][\A c \in Callers :
    pc[c] # "use" /\ pc'[c] = "use" => ~refused']_vars

-----------------------------------------------------------------------------
(* The inductive invariant behind the four safety properties. *)

Locked == {"load", "check", "signin", "save"}

(* mu is held by the caller inside EnsureToken, and a process that is down
   has no callers and no memory.                                             *)
MutexInv == /\ \A c \in Callers : pc[c] \in Locked => mu = c
            /\ proc = "down" => /\ \A c \in Callers : pc[c] = "idle"
                                /\ token = Nil /\ issued = Nil

(* A token is kept with its own account and its own expiry, in memory and on
   disk; one without an exp is kept with the fallback.                       *)
KeptInv == /\ token # Nil => /\ token.acct = conf
                             /\ token.exp # Opaque => tokenExpiry = token.exp
                             /\ token.born <= now
           /\ session # NoFile => /\ session.token.acct = session.acct
                                  /\ session.token.exp # Opaque => session.exp = session.token.exp
                                  /\ session.token.born <= now

(* What login returned is still in memory, and a caller between login and save
   or past the check has made sure that nothing kept would do.               *)
LoginInv == /\ issued # Nil => token # Nil /\ tokenExpiry = issued
            /\ \A c \in Callers :
                  /\ pc[c] = "signin" => token = Nil \/ ~Outlives(tokenExpiry)
                  /\ pc[c] = "save" => token # Nil /\ now <= token.born + IssueLag

(* What a caller carries. *)
UseInv == \A c \in Callers : pc[c] = "use" =>
    /\ held[c] # Nil /\ held[c].acct = conf /\ now <= due[c]
    /\ held[c].exp # Opaque /\ held[c].exp - held[c].born > Grace + IssueLag
          => due[c] < held[c].exp

(* A session of this account that outlives the grace is what memory holds, or
   memory is empty and the next caller has yet to read the file.             *)
SessionInv == misread \/
              /\ Matches(session) /\ Outlives(session.exp) =>
                    token = Nil \/ tokenExpiry = session.exp
              /\ \A c \in Callers : pc[c] = "check" /\ token = Nil => ~Matches(session)

Inv == /\ TypeOK /\ MutexInv /\ KeptInv /\ LoginInv /\ UseInv
       /\ SessionInv /\ SessionReused
=============================================================================
