----------------------------- MODULE TokenStore -----------------------------
(***************************************************************************)
(* What EnsureToken promises its callers, without a mutex, a session file  *)
(* or a queue: there is one current token per process.  Everybody is given *)
(* that one while it outlives the grace, and it is renewed only when it    *)
(* does not; nobody is given anything between a renewal and its answer but *)
(* the caller it was made for, who gets the new token while it is still    *)
(* new; a caller is refused only if no good token was there.  All tokens   *)
(* are the account's under which the process runs, from which a token of   *)
(* an earlier process may be adopted once, before the first renewal.       *)
(***************************************************************************)
EXTENDS Integers

CONSTANTS Callers, Accounts, Grace, IssueLag, Nil, Opaque

VARIABLES
    now,      \* the clock
    account,  \* the account of the process
    current,  \* its token, or Nil
    until,    \* when that is taken to expire
    phase,    \* of each caller: "idle", "asked", "renewed", "given" or "refused"
    held      \* the token each caller was given, or Nil

vars == <<now, account, current, until, phase, held>>

Init == /\ now = 0 /\ account \in Accounts
        /\ current = Nil /\ until = 0
        /\ phase = [c \in Callers |-> "idle"]
        /\ held = [c \in Callers |-> Nil]

Good    == current # Nil /\ until - now > Grace
Settled == \A c \in Callers : phase[c] # "renewed"

Goto(c, here, there) == phase[c] = here /\ phase' = [phase EXCEPT ![c] = there]

(* The next token is one of this account, kept with its own expiry. *)
Take == /\ current' # Nil /\ current'.acct = account /\ current'.born <= now
        /\ current'.exp # Opaque => until' = current'.exp

-----------------------------------------------------------------------------
Tick == /\ now' = now + 1
        /\ UNCHANGED <<account, current, until, phase, held>>

(* The next process, of whatever account, starts with a call of its own. *)
Launch(c) == /\ current = Nil /\ \A d \in Callers : phase[d] = "idle"
             /\ account' \in Accounts
             /\ Goto(c, "idle", "asked")
             /\ UNCHANGED <<now, current, until, held>>

Forget == /\ current' = Nil /\ until' = 0
          /\ phase' = [c \in Callers |-> "idle"]
          /\ held' = [c \in Callers |-> Nil]
          /\ UNCHANGED <<now, account>>

Ask(c) == /\ Goto(c, "idle", "asked")
          /\ UNCHANGED <<now, account, current, until, held>>

Adopt(c) == /\ current = Nil /\ phase[c] = "asked" /\ Settled
            /\ Take
            /\ UNCHANGED <<now, account, phase, held>>

Renew(c) == /\ ~Good /\ Settled
            /\ Goto(c, "asked", "renewed")
            /\ Take /\ current'.born = now
            /\ UNCHANGED <<now, account, held>>

Answer(c) == /\ \/ Goto(c, "asked", "given") /\ Good /\ Settled
                \/ Goto(c, "renewed", "given") /\ now <= current.born + IssueLag
             /\ held' = [held EXCEPT ![c] = current]
             /\ UNCHANGED <<now, account, current, until>>

Refuse(c) == /\ ~Good /\ Settled
             /\ Goto(c, "asked", "refused")
             /\ UNCHANGED <<now, account, current, until, held>>

Done(c) == /\ \/ Goto(c, "given", "idle")
              \/ Goto(c, "refused", "idle")
           /\ held' = [held EXCEPT ![c] = Nil]
           /\ UNCHANGED <<now, account, current, until>>

Next == \/ Tick \/ Forget
        \/ \E c \in Callers : \/ Launch(c) \/ Ask(c) \/ Adopt(c) \/ Renew(c)
                              \/ Answer(c) \/ Refuse(c) \/ Done(c)

Spec == Init /\ [][Next]_vars
=============================================================================
