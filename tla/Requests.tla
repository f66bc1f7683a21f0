------------------------------ MODULE Requests ------------------------------
(***************************************************************************)
(* The life of requests beside each other: GET /api/tags and POST          *)
(* /api/chat, /api/generate, streaming or not, over the two locks they     *)
(* share (tagsFetchMu, and auth.Obj.mu within it), an upstream that may be *)
(* silent for ever at any point, clients that may leave or stop reading,   *)
(* and the graceful shutdown.  What the caches and the stream do inside is *)
(* abstracted here and modelled in TagsCache, Auth and Stream.             *)
(*                                                                         *)
(* Data: whether memory holds a fresh list and a token that will do, and   *)
(* what a client was told.  /api/generate is the same control flow as      *)
(* /api/chat with one more 400.                                            *)
(***************************************************************************)
EXTENDS Naturals

CONSTANTS Requests,    \* the requests open at a time
          NoRequest,
          IdleTimeout  \* TRUE if --stream-idle-timeout > 0

ASSUME RequestsAssumption == NoRequest \notin Requests /\ IdleTimeout \in BOOLEAN

VARIABLES
    phase,        \* the process: "serving", "draining" (Shutdown) or "exited"
    kind,         \* of each request: "tags", "stream" or "whole" (stream: false)
    pc,           \* where its handler is
    client,       \* its client: "here", "deaf" (connected, but reads nothing more)
                  \* or "left" (its context is cancelled)
    told,         \* what its client was told: "nothing", "answer" or "error"
    tagsFetchMu,  \* the holder, or NoRequest
    authMu,       \* the holder, or NoRequest
    fresh,        \* modelsCache is within its lease
    token         \* auth.Obj holds a token that outlives the grace

locks == <<tagsFetchMu, authMu>>
vars == <<phase, kind, pc, client, told, locks, fresh, token>>

Kinds == {"tags", "stream", "whole"}

-----------------------------------------------------------------------------
Init == /\ phase = "serving"
        /\ kind = [r \in Requests |-> "tags"]
        /\ pc = [r \in Requests |-> "idle"]
        /\ client = [r \in Requests |-> "here"]
        /\ told = [r \in Requests |-> "nothing"]
        /\ tagsFetchMu = NoRequest /\ authMu = NoRequest
        /\ fresh \in BOOLEAN /\ token \in BOOLEAN

Goto(r, here, there) == pc[r] = here /\ pc' = [pc EXCEPT ![r] = there]

(* The handler writes its last words; it returns in a later step. *)
Tell(r, here, what) ==
    /\ Goto(r, here, "reply")
    /\ told' = [told EXCEPT ![r] = what]

(* A list's lease or a token's life runs out. *)
Expire == /\ \/ fresh' = FALSE /\ UNCHANGED token
             \/ token' = FALSE /\ UNCHANGED fresh
          /\ UNCHANGED <<phase, kind, pc, client, told, locks>>

ClientStopsReading(r) ==
    /\ pc[r] # "idle" /\ client[r] = "here"
    /\ client' = [client EXCEPT ![r] = "deaf"]
    /\ UNCHANGED <<phase, kind, pc, told, locks, fresh, token>>

ClientLeaves(r) ==
    /\ pc[r] # "idle" /\ client[r] # "left"
    /\ client' = [client EXCEPT ![r] = "left"]
    /\ UNCHANGED <<phase, kind, pc, told, locks, fresh, token>>

-----------------------------------------------------------------------------
(* The process. *)

(* SIGINT or SIGTERM: the listener is closed, open requests go on. *)
Signal == /\ phase = "serving"
          /\ phase' = "draining"
          /\ UNCHANGED <<kind, pc, client, told, locks, fresh, token>>

(* Shutdown returns because no request is open. *)
Drained == /\ phase = "draining" /\ \A r \in Requests : pc[r] = "idle"
           /\ phase' = "exited"
           /\ UNCHANGED <<kind, pc, client, told, locks, fresh, token>>

(* Shutdown returns because --shutdown-timeout is over: main returns and the
   open requests are cut.                                                    *)
ShutdownTimesOut ==
    /\ phase = "draining"
    /\ phase' = "exited"
    /\ pc' = [r \in Requests |-> "idle"]
    /\ tagsFetchMu' = NoRequest /\ authMu' = NoRequest
    /\ UNCHANGED <<kind, client, told, fresh, token>>

(* The operator starts the next process; what it finds on disk may serve. *)
Boot == /\ phase = "exited"
        /\ phase' = "serving"
        /\ fresh' \in BOOLEAN /\ token' \in BOOLEAN
        /\ UNCHANGED <<kind, pc, client, told, locks>>

-----------------------------------------------------------------------------
(* A request arrives.  Chat and generate may be refused with 400. *)
Arrive(r, k) ==
    /\ phase = "serving" /\ pc[r] = "idle"
    /\ kind' = [kind EXCEPT ![r] = k]
    /\ client' = [client EXCEPT ![r] = "here"]
    /\ \/ /\ pc' = [pc EXCEPT ![r] = IF k = "tags" THEN "memory" ELSE "token"]
          /\ told' = [told EXCEPT ![r] = "nothing"]
       \/ /\ k # "tags"
          /\ pc' = [pc EXCEPT ![r] = "reply"]
          /\ told' = [told EXCEPT ![r] = "error"]
    /\ UNCHANGED <<phase, locks, fresh, token>>

(* handleTags before its lock. *)
CheckMemory(r) ==
    /\ \/ fresh  /\ Tell(r, "memory", "answer")
       \/ ~fresh /\ Goto(r, "memory", "lock") /\ UNCHANGED told
    /\ UNCHANGED <<phase, kind, client, locks, fresh, token>>

(* The wait for a lock goes on when the client leaves. *)
LockFetch(r) ==
    /\ tagsFetchMu = NoRequest
    /\ Goto(r, "lock", "recheck")
    /\ tagsFetchMu' = r
    /\ UNCHANGED <<phase, kind, client, told, authMu, fresh, token>>

(* Memory again, then the disk, then upstream, which takes a token. *)
Recheck(r) ==
    /\ \/ fresh' = TRUE /\ Tell(r, "recheck", "answer")
       \/ ~fresh /\ Goto(r, "recheck", "token") /\ UNCHANGED <<told, fresh>>
    /\ UNCHANGED <<phase, kind, client, locks, token>>

LockAuth(r) ==
    /\ authMu = NoRequest
    /\ Goto(r, "token", "auth")
    /\ authMu' = r
    /\ UNCHANGED <<phase, kind, client, told, tagsFetchMu, fresh, token>>

UnlockAuth == authMu' = NoRequest /\ UNCHANGED tagsFetchMu

(* EnsureToken returns the token it has. *)
HaveToken_HoldsLock(r) ==
    /\ token /\ Goto(r, "auth", "call")
    /\ UNCHANGED <<phase, kind, client, told, locks, fresh, token>>
HaveToken(r) ==
    /\ token /\ Goto(r, "auth", "call")
    /\ UnlockAuth
    /\ UNCHANGED <<phase, kind, client, told, fresh, token>>

NeedsLogin(r) ==
    /\ ~token /\ Goto(r, "auth", "login")
    /\ UNCHANGED <<phase, kind, client, told, locks, fresh, token>>

LoginAnswers(r) ==
    /\ Goto(r, "login", "call")
    /\ token' = TRUE
    /\ UnlockAuth
    /\ UNCHANGED <<phase, kind, client, told, fresh>>

(* An error, the 30 s timeout, or the client has left: an error is written. *)
LoginFails_HoldsLock(r) ==
    /\ Tell(r, "login", "error")
    /\ UNCHANGED <<phase, kind, client, locks, fresh, token>>
LoginFails(r) ==
    /\ Tell(r, "login", "error")
    /\ UnlockAuth
    /\ UNCHANGED <<phase, kind, client, fresh, token>>

-----------------------------------------------------------------------------
(* The call to upstream. *)

(* fetchModels comes back: with a list, or with an error, by --timeout at the
   latest, the body included.                                                *)
FetchEnds(r) ==
    /\ kind[r] = "tags"
    /\ \/ fresh' = TRUE /\ Tell(r, "call", "answer")
       \/ UNCHANGED fresh /\ Tell(r, "call", "error")
    /\ UNCHANGED <<phase, kind, client, locks, token>>

(* Upstream's status line arrives: 200, or an error whose body is read first. *)
ChatAnswers(r) ==
    /\ kind[r] # "tags"
    /\ Goto(r, "call", "body") \/ Goto(r, "call", "errorBody")
    /\ UNCHANGED <<phase, kind, client, told, locks, fresh, token>>

(* Do fails: 502, or no word at all if it was the client's departure that
   cancelled the call.                                                       *)
Words_OnAnyError(r) == {"nothing", "error"}
Words(r) == IF client[r] = "left" THEN {"nothing", "error"} ELSE {"error"}

ChatFails(r) ==
    /\ kind[r] # "tags"
    /\ \E what \in Words(r) : Tell(r, "call", what)
    /\ UNCHANGED <<phase, kind, client, locks, fresh, token>>

(* The body ends or breaks.  A streaming answer ends in its final chunk in any
   case; any other is decoded first.  An error body is passed on.            *)
BodyEnds(r) ==
    /\ \/ Tell(r, "body", "answer")
       \/ kind[r] = "whole" /\ Tell(r, "body", "error")
       \/ Tell(r, "errorBody", "error")
    /\ UNCHANGED <<phase, kind, client, locks, fresh, token>>

(* The handler has written its reply and returns; handleTags unlocks by its
   defer.  The server has no write timeout: to a client that reads nothing a
   reply may get out only as far as the connection's buffers hold it.        *)
Return_NotIfAbandoned(r) ==
    /\ Goto(r, "reply", "idle")
    /\ tagsFetchMu' = IF tagsFetchMu = r /\ client[r] = "here" THEN NoRequest ELSE tagsFetchMu
    /\ UNCHANGED <<phase, kind, client, told, authMu, fresh, token>>
Return(r) ==
    /\ Goto(r, "reply", "idle")
    /\ tagsFetchMu' = IF tagsFetchMu = r THEN NoRequest ELSE tagsFetchMu
    /\ UNCHANGED <<phase, kind, client, told, authMu, fresh, token>>

-----------------------------------------------------------------------------
(* What is bound to happen: local steps, replies to clients that read, and calls
   under a timeout.                                                          *)
Local(r) == \/ CheckMemory(r) \/ Recheck(r) \/ HaveToken(r) \/ NeedsLogin(r)
            \/ client[r] # "deaf" /\ Return(r)
Timed(r) == LoginAnswers(r) \/ LoginFails(r) \/ FetchEnds(r)

(* Calls without a timeout: they end when the client leaves, and a stream that
   has begun ends by the idle timer (Stream's Terminates).                   *)
Untimed(r) == ChatAnswers(r) \/ ChatFails(r) \/ BodyEnds(r)
Cancelled(r) == client[r] = "left" /\ (ChatFails(r) \/ BodyEnds(r))
IdlesOut(r) == /\ IdleTimeout /\ kind[r] = "stream" /\ pc[r] = "body" /\ client[r] # "deaf"
               /\ BodyEnds(r)

Next == \/ Expire \/ Signal \/ Drained \/ ShutdownTimesOut \/ Boot
        \/ \E r \in Requests : \/ \E k \in Kinds : Arrive(r, k)
                               \/ ClientStopsReading(r) \/ ClientLeaves(r)
                               \/ LockFetch(r) \/ LockAuth(r)
                               \/ Local(r) \/ Timed(r) \/ Untimed(r) \/ Return(r)

Spec == Init /\ [][Next]_vars

(* Goroutines run; a mutex goes to a waiter that has starved for 1 ms; login
   and model fetch have timeouts; a cancelled context ends a call; Shutdown
   has its timeout.  Upstream and clients owe nothing.                       *)
Fairness == /\ \A r \in Requests : /\ WF_vars(Local(r)) /\ WF_vars(Timed(r))
                                   /\ SF_vars(LockFetch(r)) /\ SF_vars(LockAuth(r))
                                   /\ WF_vars(Cancelled(r)) /\ WF_vars(IdlesOut(r))
            /\ WF_vars(ShutdownTimesOut)
FairSpec == Spec /\ Fairness

-----------------------------------------------------------------------------
(* Properties. *)

TypeOK == /\ phase \in {"serving", "draining", "exited"}
          /\ kind \in [Requests -> Kinds]
          /\ pc \in [Requests -> {"idle", "memory", "lock", "recheck", "token", "auth",
                                  "login", "call", "body", "errorBody", "reply"}]
          /\ client \in [Requests -> {"here", "deaf", "left"}]
          /\ told \in [Requests -> {"nothing", "answer", "error"}]
          /\ tagsFetchMu \in Requests \cup {NoRequest}
          /\ authMu \in Requests \cup {NoRequest}
          /\ fresh \in BOOLEAN /\ token \in BOOLEAN

(* A reply that its client leaves unread. *)
Unread(r) == pc[r] = "reply" /\ client[r] = "deaf"

(* A request that waits for something nothing bounds. *)
Unbounded(r) == \/ kind[r] # "tags" /\ pc[r] \in {"call", "body", "errorBody"}
                \/ Unread(r)

(* A silent upstream or a client that does not read delays nobody but its own
   request, since no lock is held meanwhile, with one exception: handleTags
   writes its reply under tagsFetchMu (handleTags 37-38, 46-79; handleChat 61,
   76, 93-97; EnsureToken 123-124).                                          *)
FreeWhileUnbounded == \A r \in Requests : Unbounded(r) =>
    /\ authMu # r
    /\ tagsFetchMu = r => kind[r] = "tags" /\ pc[r] = "reply"

(* The holder of the lock that a request waits for. *)
WaitsFor(r) == CASE pc[r] = "lock"  -> tagsFetchMu
                 [] pc[r] = "token" -> authMu
                 [] OTHER           -> NoRequest

(* Requests never wait for each other in a circle, nor for a lock of their own,
   which a sync.Mutex would not give them: who holds a lock that somebody waits
   for waits for none itself, or is a tags request that waits for a token under
   tagsFetchMu, and the one that has auth.mu then waits for no lock
   (handleTags 37-38, fetchModels 144, EnsureToken 123-124).                  *)
NoCircularWait == \A r, h \in Requests : WaitsFor(r) = h =>
    /\ h # r
    /\ \/ WaitsFor(h) \notin Requests
       \/ /\ pc[r] = "lock" /\ pc[h] = "token"
          /\ authMu \notin {r, h} /\ WaitsFor(authMu) \notin Requests

(* A client that stays is told something: a handler returns without a word
   only if it was the client's departure that cancelled its call (handleChat
   76-84).  Part of Inv.                                                     *)
NoSilence == \A r \in Requests :
    pc[r] = "reply" /\ told[r] = "nothing" => client[r] = "left"

(* Every call of EnsureToken returns, whatever upstream, the clients and the
   requests before it in the queue do (EnsureToken 123-139).                 *)
TokenReturns == \A r \in Requests :
    pc[r] = "token" ~> pc[r] \in {"call", "reply", "idle"}

(* No client leaves its reply unread for ever. *)
RepliesRead == \A r \in Requests : []<>~Unread(r)

(* A tags request ends, whatever upstream and the requests before it in the
   two queues do, unless the client of one of them never reads its reply
   (handleTags 36-38, 63; EnsureToken 123-137).                              *)
TagsReturn == RepliesRead => \A r \in Requests : pc[r] = "memory" ~> pc[r] = "idle"

(* A request whose client has left ends, wherever it was, under the same
   condition on the others.                                                  *)
AbandonedReturn == RepliesRead => \A r \in Requests :
    pc[r] # "idle" /\ client[r] = "left" ~> pc[r] = "idle"

-----------------------------------------------------------------------------
(* What the repository says and the code does not do. *)

(* "--timeout: Non-streaming request timeout": a non-streaming request that
   has been sent upstream ends (README.md:270, server.go:29).                *)
WholeReturns == RepliesRead => \A r \in Requests :
    pc[r] = "call" /\ kind[r] = "whole" ~> pc[r] = "idle"

-----------------------------------------------------------------------------
(* Who holds which lock where: tagsFetchMu is taken first, and only by
   handleTags.                                                               *)
LockInv == /\ \A r \in Requests : /\ pc[r] \in {"auth", "login"} <=> authMu = r
                                  /\ tagsFetchMu = r => /\ kind[r] = "tags"
                                                        /\ pc[r] \notin {"idle", "memory", "lock"}
           /\ \A r \in Requests : kind[r] = "tags" /\ pc[r] \in {"recheck", "token", "auth",
                                                                 "login", "call"}
                                      => tagsFetchMu = r
           /\ \A r \in Requests : /\ pc[r] \in {"memory", "lock", "recheck"} => kind[r] = "tags"
                                  /\ pc[r] \in {"body", "errorBody"} => kind[r] # "tags"
           /\ phase = "exited" => \A r \in Requests : pc[r] = "idle"

(* The inductive invariant; FreeWhileUnbounded and NoCircularWait follow from it. *)
Inv == TypeOK /\ LockInv /\ NoSilence
=============================================================================
