----------------------------- MODULE TagsCache ------------------------------
(***************************************************************************)
(* GET /api/tags: the model list served from memory (L1), from tags.bin    *)
(* (L2) or from Open WebUI (L3), with tagsFetchMu held across the two slow  *)
(* tiers, and the preload of tags.bin when the process starts.             *)
(*                                                                         *)
(* One action is one stretch of handleTags between two points where        *)
(* another goroutine, the clock, Open WebUI or a crash can get in: the     *)
(* unlocked memory check, the wait for the lock, the recheck, the file     *)
(* read, the upstream call, the store to memory, the file write, the reply. *)
(* A reply is written while tagsFetchMu is still held (deferred unlock).   *)
(*                                                                         *)
(* Data: a model list is the version of the catalog it shows and the time  *)
(* upstream composed it.  Which upstream that was is left out: tags.bin    *)
(* does not say, and a process started with another --openwebui-url takes  *)
(* its list for its own.  Versions count the changes of all catalogs.      *)
(***************************************************************************)
EXTENDS Integers

CONSTANTS
    Requests,    \* concurrent GET /api/tags requests (one goroutine each)
    TTLs,        \* leases a process may be started with (--tags-ttl)
    MaxTTL,      \* an upper bound of TTLs
    EmptyLists,  \* the catalog versions that list no model
    ReadFaults,  \* TRUE if os.ReadFile may fail on a file that is there
    Lag,         \* ticks between upstream composing a list and its last use
    MaxTime, MaxVersion,     \* bounds of the model
    Nil, NoRequest, NoFile

Versions == 0..MaxVersion
Times    == 0..MaxTime
Lists    == [ver : Versions, at : Times]
Files    == [models : Lists, exp : Nat]

ASSUME TTLsAssumption   == /\ MaxTTL \in Nat
                           /\ TTLs \subseteq 1..MaxTTL
ASSUME BoundsAssumption == Lag \in Nat /\ MaxTime \in Nat /\ MaxVersion \in Nat
ASSUME FlagAssumption   == ReadFaults \in BOOLEAN
ASSUME NilAssumption    == /\ Nil \notin Lists /\ Nil \notin Nat
                           /\ NoRequest \notin Requests /\ NoFile \notin Files

VARIABLES
    now,            \* the clock
    catalog,        \* how often a model catalog has changed so far, anywhere
    running,        \* the process is up
    tagsTTL,        \* its lease (--tags-ttl)
    modelsCache,    \* L1: the list, or Nil
    modelsCacheAt,  \* L1: its time stamp
    tagsFetchMu,    \* the request that holds the fetch lock, or NoRequest
    tagsBin,        \* L2: tags.bin, NoFile when absent or torn
    pc,             \* where each request is
    got,            \* the list each request has in hand, or Nil
    newest,         \* history: the newest version a request was given
    floor,          \* history: newest when the request arrived
    lastFetch       \* history: when this process last stored a fetched list

memory  == <<modelsCache, modelsCacheAt>>
process == <<running, tagsTTL>>
history == <<newest, floor, lastFetch>>
vars == <<now, catalog, process, memory, tagsFetchMu, tagsBin, pc, got, history>>

-----------------------------------------------------------------------------
(* The tests and conversions of the handler. *)

(* handleTags: s.modelsCache != nil && time.Since(s.modelsCacheAt) < tagsTTL *)
Fresh == modelsCache # Nil /\ now - modelsCacheAt < tagsTTL

(* A file is used only until its own expiry. *)
Valid_NoExpiry(file) == file # NoFile
Valid(file) == file # NoFile /\ now < file.exp

(* The time stamp given to a list that was read from a file. *)
LoadedAt_Renewed(exp, ttl) == now
LoadedAt(exp, ttl) == exp - ttl

(* gob leaves an empty slice out of the record: it comes back as nil. *)
Decoded(list) == IF list.ver \in EmptyLists THEN Nil ELSE list

(* cache.TagsObj as WriteTags builds it. *)
NewFile(list) == [models |-> list, exp |-> now + tagsTTL]

-----------------------------------------------------------------------------
Init == /\ now = 0 /\ catalog = 0
        /\ running = FALSE /\ tagsTTL \in TTLs
        /\ modelsCache = Nil /\ modelsCacheAt = 0
        /\ tagsFetchMu = NoRequest
        /\ tagsBin = NoFile
        /\ pc = [r \in Requests |-> "idle"]
        /\ got = [r \in Requests |-> Nil]
        /\ newest = 0 /\ floor = [r \in Requests |-> 0] /\ lastFetch = Nil

(* Time passes.  The stretch from upstream composing a list to its write to
   tags.bin is bounded: by httpClientShort's timeout, then local work.      *)
Tick == /\ now < MaxTime
        /\ \A r \in Requests : pc[r] \in {"store", "write"} => now < got[r].at + Lag
        /\ now' = now + 1
        /\ UNCHANGED <<catalog, process, memory, tagsFetchMu, tagsBin, pc, got, history>>

(* A model is added to or removed from some upstream. *)
CatalogChanges ==
    /\ catalog < MaxVersion
    /\ catalog' = catalog + 1
    /\ UNCHANGED <<now, process, memory, tagsFetchMu, tagsBin, pc, got, history>>

(* NewServer, with whatever flags the operator chose this time: tags.bin is
   preloaded unless it has expired or cannot be read.                       *)
Boot ==
    /\ ~running
    /\ running' = TRUE
    /\ tagsTTL' \in TTLs
    /\ \/ /\ Valid(tagsBin)
          /\ modelsCache' = Decoded(tagsBin.models)
          /\ modelsCacheAt' = LoadedAt(tagsBin.exp, tagsTTL')
       \/ /\ ~Valid(tagsBin) \/ ReadFaults
          /\ UNCHANGED memory
    /\ UNCHANGED <<now, catalog, tagsFetchMu, tagsBin, pc, got, history>>

(* The process is killed, or its shutdown timeout runs out: memory, the lock
   and the open requests are gone, and os.WriteFile, which truncates the file
   before it writes, may have got half way.                                 *)
Stop ==
    /\ running
    /\ running' = FALSE
    /\ \/ UNCHANGED tagsBin
       \/ (\E r \in Requests : pc[r] = "write") /\ tagsBin' = NoFile
    /\ modelsCache' = Nil /\ modelsCacheAt' = 0
    /\ tagsFetchMu' = NoRequest
    /\ pc' = [r \in Requests |-> "idle"]
    /\ got' = [r \in Requests |-> Nil]
    /\ floor' = [r \in Requests |-> 0] /\ lastFetch' = Nil
    /\ UNCHANGED <<now, catalog, tagsTTL, newest>>

-----------------------------------------------------------------------------
(* handleTags, step by step. *)

Goto(r, here, there) == pc[r] = here /\ pc' = [pc EXCEPT ![r] = there]

(* The request's list is settled: from here on it is only written out. *)
Settle(r, list) ==
    newest' = IF list # Nil /\ list.ver > newest THEN list.ver ELSE newest

Arrive(r) ==
    /\ running
    /\ Goto(r, "idle", "check")
    /\ floor' = [floor EXCEPT ![r] = newest]
    /\ UNCHANGED <<now, catalog, process, memory, tagsFetchMu, tagsBin, got, newest, lastFetch>>

(* L1 under RLock, before the fetch lock. *)
CheckMemory(r) ==
    /\ \/ /\ Fresh
          /\ Goto(r, "check", "reply")
          /\ got' = [got EXCEPT ![r] = modelsCache]
          /\ Settle(r, modelsCache)
       \/ /\ ~Fresh
          /\ Goto(r, "check", "lock")
          /\ UNCHANGED <<got, newest>>
    /\ UNCHANGED <<now, catalog, process, memory, tagsFetchMu, tagsBin, floor, lastFetch>>

Acquire_NoLock(r) ==
    /\ Goto(r, "lock", "recheck")
    /\ tagsFetchMu' = r
    /\ UNCHANGED <<now, catalog, process, memory, tagsBin, got, history>>
Acquire(r) ==
    /\ tagsFetchMu = NoRequest
    /\ Goto(r, "lock", "recheck")
    /\ tagsFetchMu' = r
    /\ UNCHANGED <<now, catalog, process, memory, tagsBin, got, history>>

(* L1 again: the previous holder may have filled it. *)
Recheck_Skipped(r) ==
    /\ Goto(r, "recheck", "disk")
    /\ UNCHANGED <<now, catalog, process, memory, tagsFetchMu, tagsBin, got, history>>
Recheck(r) ==
    /\ \/ /\ Fresh
          /\ Goto(r, "recheck", "reply")
          /\ got' = [got EXCEPT ![r] = modelsCache]
          /\ Settle(r, modelsCache)
       \/ /\ ~Fresh
          /\ Goto(r, "recheck", "disk")
          /\ UNCHANGED <<got, newest>>
    /\ UNCHANGED <<now, catalog, process, memory, tagsFetchMu, tagsBin, floor, lastFetch>>

(* L2: an unexpired file refills L1 and is the answer. *)
LoadDisk(r) ==
    /\ Valid(tagsBin)
    /\ Goto(r, "disk", "reply")
    /\ modelsCache' = Decoded(tagsBin.models)
    /\ modelsCacheAt' = LoadedAt(tagsBin.exp, tagsTTL)
    /\ got' = [got EXCEPT ![r] = Decoded(tagsBin.models)]
    /\ Settle(r, Decoded(tagsBin.models))
    /\ UNCHANGED <<now, catalog, process, tagsFetchMu, tagsBin, floor, lastFetch>>

MissDisk_Unguarded(r) ==
    /\ Goto(r, "disk", "fetch")
    /\ UNCHANGED <<now, catalog, process, memory, tagsFetchMu, tagsBin, got, history>>
MissDisk(r) ==
    /\ ~Valid(tagsBin) \/ ReadFaults
    /\ Goto(r, "disk", "fetch")
    /\ UNCHANGED <<now, catalog, process, memory, tagsFetchMu, tagsBin, got, history>>

(* L3: fetchModels succeeds; upstream composes its list now. *)
UpstreamAnswers(r) ==
    /\ Goto(r, "fetch", "store")
    /\ got' = [got EXCEPT ![r] = [ver |-> catalog, at |-> now]]
    /\ UNCHANGED <<now, catalog, process, memory, tagsFetchMu, tagsBin, history>>

(* fetchModels fails: no token, a timeout, the client gone, a status other
   than 200, a body that is neither a non-empty wrapper nor an array.       *)
FetchFails(r) ==
    /\ Goto(r, "fetch", "fail")
    /\ UNCHANGED <<now, catalog, process, memory, tagsFetchMu, tagsBin, got, history>>

StoreMemory(r) ==
    /\ Goto(r, "store", "write")
    /\ modelsCache' = got[r]
    /\ modelsCacheAt' = now
    /\ lastFetch' = now
    /\ UNCHANGED <<now, catalog, process, tagsFetchMu, tagsBin, got, newest, floor>>

(* The file is written, or is left torn (NoFile), or was never opened; an
   error is only logged and the list is served all the same.                *)
WriteTags(r) ==
    /\ Goto(r, "write", "reply")
    /\ tagsBin' \in {NewFile(got[r]), NoFile, tagsBin}
    /\ Settle(r, got[r])
    /\ UNCHANGED <<now, catalog, process, memory, tagsFetchMu, got, floor, lastFetch>>

(* The deferred unlock. *)
Unlock_NotOnError(r) ==
    tagsFetchMu' = IF tagsFetchMu = r /\ pc[r] # "fail" THEN NoRequest ELSE tagsFetchMu
Unlock(r) == tagsFetchMu' = IF tagsFetchMu = r THEN NoRequest ELSE tagsFetchMu

(* The reply has been written to the client and the handler returns. *)
Finish(r) ==
    /\ pc[r] \in {"reply", "fail"}
    /\ pc' = [pc EXCEPT ![r] = "idle"]
    /\ got' = [got EXCEPT ![r] = Nil]
    /\ floor' = [floor EXCEPT ![r] = 0]
    /\ Unlock(r)
    /\ UNCHANGED <<now, catalog, process, memory, tagsBin, newest, lastFetch>>

-----------------------------------------------------------------------------
Handler(r) == \/ CheckMemory(r) \/ Recheck(r)
              \/ LoadDisk(r) \/ MissDisk(r)
              \/ UpstreamAnswers(r) \/ FetchFails(r)
              \/ StoreMemory(r) \/ WriteTags(r) \/ Finish(r)

Next == \/ Tick \/ CatalogChanges \/ Boot \/ Stop
        \/ \E r \in Requests : Arrive(r) \/ Acquire(r) \/ Handler(r)

Spec == Init /\ [][Next]_vars

(* A goroutine that can run does run, and every call it waits for returns
   (the upstream call by its timeout).  sync.Mutex hands itself over to a
   waiter that has starved for 1 ms, hence strong fairness of Acquire.
   Clients owe nothing, not even to read their replies, which no write timeout
   ends: Finish need not happen.  Nor do the clock, the catalog, the operator. *)
Replying == {"reply", "fail"}
Fairness == \A r \in Requests : /\ WF_vars(pc[r] \notin Replying /\ Handler(r))
                               /\ SF_vars(Acquire(r))
FairSpec == Spec /\ Fairness

-----------------------------------------------------------------------------
(* Properties. *)

TypeOK == /\ now \in Times /\ catalog \in Versions
          /\ running \in BOOLEAN /\ tagsTTL \in TTLs
          /\ modelsCache \in Lists \cup {Nil} /\ modelsCacheAt \in Int
          /\ tagsFetchMu \in Requests \cup {NoRequest}
          /\ tagsBin \in Files \cup {NoFile}
          /\ pc \in [Requests -> {"idle", "check", "lock", "recheck", "disk",
                                  "fetch", "store", "write", "reply", "fail"}]
          /\ got \in [Requests -> Lists \cup {Nil}]
          /\ newest \in Versions /\ floor \in [Requests -> Versions]
          /\ lastFetch \in Times \cup {Nil}

(* Thundering herd: a process that has stored a fetched list asks upstream
   again only when a whole lease has passed, whatever the number of requests
   that found the memory stale and queued up for the lock (handleTags 36-49). *)
FetchGap == \A r \in Requests :
    pc[r] = "fetch" => lastFetch = Nil \/ now - lastFetch >= tagsTTL

(* Staleness: a list that enters a reply, from memory, disk or upstream, was
   composed less than one lease (plus the Lag of its own fetch) ago, even
   across restarts: reading a file renews no lease.  The lease meant is the
   longest any process was started with, because tags.bin keeps the one it was
   written under (handleTags 27, 42, 52-55, NewServer 68-71).                 *)
ServedInLease == [][\A r \in Requests :
    pc[r] # "reply" /\ pc'[r] = "reply" /\ got'[r] # Nil
        => now - got'[r].at < MaxTTL + Lag]_vars

(* No step back in time: a request is never answered with a list older than
   one that any request had been given when it arrived, although L1 is filled
   before tags.bin and the file may be lost or stay old (handleTags 52-76).  *)
MonotoneReads == \A r \in Requests :
    pc[r] = "reply" /\ got[r] # Nil => got[r].ver >= floor[r]

(* The same as a refinement: handleTags implements the register whose reads
   never go back, with restarts and failed writes hidden from the clients.   *)
PhaseAt(label) == CASE label = "idle" -> "idle"
                    [] label = "reply" -> "answered"
                    [] label = "fail" -> "refused"
                    [] OTHER -> "asked"
phase == [r \in Requests |-> PhaseAt(pc[r])]
answer == [r \in Requests |-> IF pc[r] = "reply" /\ got[r] # Nil
                              THEN got[r].ver ELSE Nil]
Register == INSTANCE TagsRegister WITH Null <- Nil
RegisterSpec == Register!Spec

(* Progress: a request that has arrived is answered or refused unless the
   process stops, also when every fetch fails, provided that a reply written
   under tagsFetchMu does not stay unread for ever (deferred unlock, line 38;
   writeJSON, lines 47, 56, 61, 79).  A client that was answered from memory
   holds no lock: it may be as slow as it likes.                             *)
HeldUnread  == \E h \in Requests : tagsFetchMu = h /\ pc[h] \in Replying
RepliesRead == []<>~HeldUnread
Answered == RepliesRead =>
    \A r \in Requests : pc[r] = "check" ~> pc[r] \in Replying \/ ~running

-----------------------------------------------------------------------------
(* What the repository says and the code does not do. *)

(* "Hit + TTL valid --> Update L1": whoever answers from below L1 leaves a
   list in L1 for the requests waiting behind it (README.md:158).            *)
HolderFillsMemory == \A r \in Requests :
    pc[r] = "reply" /\ tagsFetchMu = r => modelsCache # Nil

-----------------------------------------------------------------------------
(* The inductive invariant behind FetchGap, ServedInLease, MonotoneReads. *)

Critical == {"recheck", "disk", "fetch", "store", "write", "fail"}
Fetching == {"fetch", "store", "write"}

(* Between lock and unlock a request is alone, and a process that is down has
   no request, no lock and no memory.                                        *)
MutexInv == /\ \A r \in Requests : pc[r] \in Critical => tagsFetchMu = r
            /\ ~running => /\ \A r \in Requests : pc[r] = "idle"
                           /\ modelsCache = Nil /\ lastFetch = Nil

(* A request past the recheck has made sure that L1 is stale, and one past
   the file read that tags.bin is; neither can become fresh behind its back.  *)
StaleInv == \A r \in Requests :
    /\ pc[r] \in {"disk", "fetch", "store"} => ~Fresh
    /\ pc[r] \in Fetching => ~Valid(tagsBin) \/ ReadFaults
    /\ pc[r] \in {"store", "write"} => got[r] # Nil
    /\ pc[r] = "write" => modelsCache = got[r]

(* What is kept of a list expires one lease after it was stored, and it is
   stored within Lag of being composed.                                      *)
LeaseInv == /\ modelsCache # Nil =>
                  modelsCacheAt + tagsTTL <= modelsCache.at + Lag + MaxTTL
            /\ tagsBin # NoFile => tagsBin.exp <= tagsBin.models.at + Lag + MaxTTL
            /\ \A r \in Requests : pc[r] \in {"store", "write"} => now <= got[r].at + Lag

(* L1 and an unexpired tags.bin show every version that has been given out,
   and an unexpired tags.bin is not behind L1.                               *)
VersionInv == /\ newest <= catalog
              /\ modelsCache # Nil => newest <= modelsCache.ver /\ modelsCache.ver <= catalog
              /\ Valid(tagsBin) => newest <= tagsBin.models.ver
              /\ Valid(tagsBin) /\ modelsCache # Nil => modelsCache.ver <= tagsBin.models.ver
              /\ tagsBin # NoFile => tagsBin.models.ver <= catalog
              /\ \A r \in Requests : /\ floor[r] <= newest
                                     /\ pc[r] \in {"store", "write"} => /\ newest <= got[r].ver
                                                                        /\ got[r].ver <= catalog

(* The last fetch is what L1 holds until its lease is over. *)
FetchInv == lastFetch # Nil =>
    \/ modelsCache # Nil /\ modelsCacheAt = lastFetch
    \/ now - lastFetch >= tagsTTL

Inv == /\ TypeOK /\ MutexInv /\ StaleInv /\ LeaseInv /\ FetchInv
       /\ ReadFaults \/ (VersionInv /\ MonotoneReads)
=============================================================================
