-------------------------- MODULE TagsCacheProofs ---------------------------
(* TagsCache proved for every set of requests and leases: the
   inductive invariant Inv, the properties it implies, and that TagsCache
   implements TagsRegister.                                                  *)
EXTENDS TagsCache, TLAPS

(* Leases are positive numbers no greater than MaxTTL. *)
LEMMA TTLFacts ==
    ASSUME NEW ttl \in TTLs
    PROVE  ttl \in Nat /\ ttl >= 1 /\ ttl <= MaxTTL /\ MaxTTL \in Nat
BY TTLsAssumption

(* What gob gives back is a list or nil. *)
LEMMA DecodedType ==
    ASSUME NEW list \in Lists
    PROVE  Decoded(list) \in Lists \cup {Nil}
BY DEF Decoded

(* An upstream answer is a list. *)
LEMMA AnswerType ==
    TypeOK => [ver |-> catalog, at |-> now] \in Lists
BY DEF TypeOK, Lists

(* Settling on a list keeps newest a version, never lowers it, and puts it
   at or above the list.                                                     *)
LEMMA SettleFacts ==
    ASSUME TypeOK, NEW r, NEW list \in Lists \cup {Nil}, Settle(r, list)
    PROVE  /\ newest' \in Versions
           /\ newest <= newest'
           /\ newest' = newest \/ (list \in Lists /\ newest' = list.ver)
BY BoundsAssumption DEF TypeOK, Settle, Lists, Versions

(* Every variable keeps its type in every step of the process, its clients,
   the clock, the catalog and the disk.                                      *)
LEMMA TypeStep == TypeOK /\ StaleInv /\ [Next]_vars => TypeOK'
<1> SUFFICES ASSUME TypeOK, StaleInv, [Next]_vars PROVE TypeOK'
  OBVIOUS
<1> USE BoundsAssumption, NilAssumption
<1>1. CASE Tick
  BY <1>1 DEF TypeOK, Tick, Times, process, memory, history
<1>2. CASE CatalogChanges
  BY <1>2 DEF TypeOK, CatalogChanges, Versions, process, memory, history
<1>3. CASE Boot
  <2>1. modelsCache' \in Lists \cup {Nil} /\ modelsCacheAt' \in Int
    <3>1. CASE UNCHANGED memory
      BY <3>1 DEF TypeOK, memory
    <3>2. CASE /\ Valid(tagsBin)
               /\ modelsCache' = Decoded(tagsBin.models)
               /\ modelsCacheAt' = LoadedAt(tagsBin.exp, tagsTTL')
      <4>1. tagsBin.models \in Lists /\ tagsBin.exp \in Nat
        BY <3>2 DEF TypeOK, Valid, Files
      <4>2. tagsTTL' \in Nat
        BY <1>3, TTLFacts DEF Boot
      <4> QED
        BY <3>2, <4>1, <4>2, DecodedType DEF LoadedAt
    <3> QED
      BY <1>3, <3>1, <3>2 DEF Boot
  <2> QED
    BY <1>3, <2>1 DEF TypeOK, Boot, history
<1>4. CASE Stop
  <2>1. 0 \in Versions
    BY DEF Versions
  <2>2. tagsBin' \in Files \cup {NoFile}
    BY <1>4 DEF TypeOK, Stop
  <2>3. running' \in BOOLEAN
    BY <1>4 DEF Stop
  <2> QED
    BY <1>4, <2>1, <2>2, <2>3 DEF TypeOK, Stop
<1>5. ASSUME NEW r \in Requests, Arrive(r) PROVE TypeOK'
  BY <1>5 DEF TypeOK, Arrive, Goto, process, memory
<1>6. ASSUME NEW r \in Requests, Acquire(r) PROVE TypeOK'
  BY <1>6 DEF TypeOK, Acquire, Goto, process, memory, history
<1>7. ASSUME NEW r \in Requests, CheckMemory(r) \/ Recheck(r) PROVE TypeOK'
  <2>1. newest' \in Versions
    BY <1>7, SettleFacts DEF TypeOK, CheckMemory, Recheck
  <2> QED
    BY <1>7, <2>1 DEF TypeOK, CheckMemory, Recheck, Goto, process, memory
<1>8. ASSUME NEW r \in Requests, LoadDisk(r) PROVE TypeOK'
  <2>1. tagsBin.models \in Lists /\ tagsBin.exp \in Nat
    BY <1>8 DEF TypeOK, LoadDisk, Valid, Files
  <2>2. Decoded(tagsBin.models) \in Lists \cup {Nil}
    BY <2>1, DecodedType
  <2>3. newest' \in Versions
    BY <1>8, <2>2, SettleFacts DEF LoadDisk
  <2>4. modelsCacheAt' \in Int
    BY <1>8, <2>1, TTLFacts DEF LoadDisk, LoadedAt, TypeOK
  <2> QED
    BY <1>8, <2>2, <2>3, <2>4 DEF TypeOK, LoadDisk, Goto, process
<1>9. ASSUME NEW r \in Requests, MissDisk(r) \/ FetchFails(r) PROVE TypeOK'
  BY <1>9 DEF TypeOK, MissDisk, FetchFails, Goto, process, memory, history
<1>10. ASSUME NEW r \in Requests, UpstreamAnswers(r) PROVE TypeOK'
  BY <1>10, AnswerType DEF TypeOK, UpstreamAnswers, Goto, process, memory, history
<1>11. ASSUME NEW r \in Requests, StoreMemory(r) PROVE TypeOK'
  BY <1>11 DEF TypeOK, StoreMemory, Goto, process, Times
<1>12. ASSUME NEW r \in Requests, WriteTags(r) PROVE TypeOK'
  <2>1. got[r] \in Lists
    BY <1>12 DEF TypeOK, StaleInv, WriteTags, Goto
  <2>2. NewFile(got[r]) \in Files
    BY <2>1, TTLFacts DEF NewFile, Files, TypeOK, Times
  <2>3. newest' \in Versions
    BY <1>12, <2>1, SettleFacts DEF WriteTags
  <2> QED
    BY <1>12, <2>2, <2>3 DEF TypeOK, WriteTags, Goto, process, memory
<1>13. ASSUME NEW r \in Requests, Finish(r) PROVE TypeOK'
  BY <1>13 DEF TypeOK, Finish, Unlock, process, memory, Versions
<1>14. CASE UNCHANGED vars
  BY <1>14 DEF TypeOK, vars, process, memory, history
<1> QED
  BY <1>1, <1>2, <1>3, <1>4, <1>5, <1>6, <1>7, <1>8, <1>9, <1>10, <1>11,
     <1>12, <1>13, <1>14 DEF Next, Handler

-----------------------------------------------------------------------------
(* The lock is held by whoever is between Acquire and the unlock, and nothing
   of a process outlives it.                                                 *)
LEMMA MutexStep == TypeOK /\ MutexInv /\ [Next]_vars => MutexInv'
<1> SUFFICES ASSUME TypeOK, MutexInv, [Next]_vars PROVE MutexInv'
  OBVIOUS
<1> USE NilAssumption DEF Critical
<1>1. CASE Tick
  BY <1>1 DEF MutexInv, Tick, process, memory, history
<1>2. CASE CatalogChanges
  BY <1>2 DEF MutexInv, CatalogChanges, process, memory, history
<1>3. CASE Boot
  BY <1>3 DEF MutexInv, Boot, history
<1>4. CASE Stop
  BY <1>4 DEF MutexInv, Stop
<1>5. ASSUME NEW r \in Requests, Arrive(r) PROVE MutexInv'
  BY <1>5 DEF TypeOK, MutexInv, Arrive, Goto, process, memory
<1>6. ASSUME NEW r \in Requests, Acquire(r) PROVE MutexInv'
  BY <1>6 DEF TypeOK, MutexInv, Acquire, Goto, process, memory, history
<1>7. ASSUME NEW r \in Requests, CheckMemory(r) \/ Recheck(r) PROVE MutexInv'
  BY <1>7 DEF TypeOK, MutexInv, CheckMemory, Recheck, Goto, process, memory
<1>8. ASSUME NEW r \in Requests, LoadDisk(r) PROVE MutexInv'
  BY <1>8 DEF TypeOK, MutexInv, LoadDisk, Goto, process
<1>9. ASSUME NEW r \in Requests, MissDisk(r) \/ FetchFails(r) PROVE MutexInv'
  BY <1>9 DEF TypeOK, MutexInv, MissDisk, FetchFails, Goto, process, memory, history
<1>10. ASSUME NEW r \in Requests, UpstreamAnswers(r) PROVE MutexInv'
  BY <1>10 DEF TypeOK, MutexInv, UpstreamAnswers, Goto, process, memory, history
<1>11. ASSUME NEW r \in Requests, StoreMemory(r) PROVE MutexInv'
  BY <1>11 DEF TypeOK, MutexInv, StoreMemory, Goto, process
<1>12. ASSUME NEW r \in Requests, WriteTags(r) PROVE MutexInv'
  BY <1>12 DEF TypeOK, MutexInv, WriteTags, Goto, process, memory
<1>13. ASSUME NEW r \in Requests, Finish(r) PROVE MutexInv'
  BY <1>13 DEF TypeOK, MutexInv, Finish, Unlock, process, memory
<1>14. CASE UNCHANGED vars
  BY <1>14 DEF MutexInv, vars, process, memory, history
<1> QED
  BY <1>1, <1>2, <1>3, <1>4, <1>5, <1>6, <1>7, <1>8, <1>9, <1>10, <1>11,
     <1>12, <1>13, <1>14 DEF Next, Handler

-----------------------------------------------------------------------------
(* Time only makes L1 staler and tags.bin more expired. *)
LEMMA TickStales ==
    ASSUME TypeOK, Tick
    PROVE  (~Fresh => ~Fresh') /\ (Valid(tagsBin)' => Valid(tagsBin))
<1>1. now \in Nat /\ now' = now + 1 /\ tagsTTL \in TTLs
  BY DEF TypeOK, Tick, Times
<1>2. tagsTTL \in Nat
  BY <1>1, TTLFacts
<1>3. /\ modelsCache' = modelsCache /\ modelsCacheAt' = modelsCacheAt
      /\ modelsCacheAt \in Int /\ tagsTTL' = tagsTTL /\ tagsBin' = tagsBin
  BY DEF Tick, memory, process, TypeOK
<1>4. tagsBin # NoFile => tagsBin.exp \in Nat
  BY DEF TypeOK, Files
<1> QED
  BY <1>1, <1>2, <1>3, <1>4 DEF Fresh, Valid

(* What the lock holder found stale stays stale until it acts on it. *)
LEMMA StaleStep == TypeOK /\ MutexInv /\ StaleInv /\ [Next]_vars => StaleInv'
<1> SUFFICES ASSUME TypeOK, MutexInv, StaleInv, [Next]_vars PROVE StaleInv'
  OBVIOUS
<1> USE NilAssumption DEF Fetching
<1>1. CASE Tick
  BY <1>1, TickStales DEF StaleInv, Tick, process, memory, history
<1>2. CASE CatalogChanges
  BY <1>2 DEF StaleInv, CatalogChanges, process, memory, history, Fresh, Valid
<1>3. CASE Boot
  BY <1>3 DEF MutexInv, StaleInv, Boot, history
<1>4. CASE Stop
  BY <1>4 DEF StaleInv, Stop
<1>5. ASSUME NEW r \in Requests, Arrive(r) PROVE StaleInv'
  BY <1>5 DEF TypeOK, StaleInv, Arrive, Goto, process, memory, Fresh, Valid
<1>6. ASSUME NEW r \in Requests, Acquire(r) PROVE StaleInv'
  BY <1>6 DEF TypeOK, StaleInv, Acquire, Goto, process, memory, history, Fresh, Valid
<1>7. ASSUME NEW r \in Requests, CheckMemory(r) \/ Recheck(r) PROVE StaleInv'
  BY <1>7 DEF TypeOK, StaleInv, CheckMemory, Recheck, Goto, process, memory, Fresh, Valid
<1>8. ASSUME NEW r \in Requests, LoadDisk(r) PROVE StaleInv'
  <2>1. \A q \in Requests : q # r => pc[q] \notin Critical
    BY <1>8 DEF MutexInv, Critical, LoadDisk, Goto
  <2>2. \A q \in Requests : pc'[q] \notin {"disk", "fetch", "store", "write"}
    BY <1>8, <2>1 DEF TypeOK, LoadDisk, Goto, Critical
  <2> QED
    BY <2>2 DEF StaleInv
<1>9. ASSUME NEW r \in Requests, MissDisk(r) PROVE StaleInv'
  BY <1>9 DEF TypeOK, StaleInv, MissDisk, Goto, process, memory, history, Fresh, Valid
<1>10. ASSUME NEW r \in Requests, FetchFails(r) PROVE StaleInv'
  BY <1>10 DEF TypeOK, StaleInv, FetchFails, Goto, process, memory, history, Fresh, Valid
<1>11. ASSUME NEW r \in Requests, UpstreamAnswers(r) PROVE StaleInv'
  <2>1. got'[r] # Nil
    BY <1>11, AnswerType DEF UpstreamAnswers, TypeOK
  <2> QED
    BY <1>11, <2>1 DEF TypeOK, StaleInv, UpstreamAnswers, Goto, process, memory,
                       history, Fresh, Valid
<1>12. ASSUME NEW r \in Requests, StoreMemory(r) PROVE StaleInv'
  <2>1. \A q \in Requests : q # r => pc[q] \notin Critical
    BY <1>12 DEF MutexInv, Critical, StoreMemory, Goto
  <2>2. \A q \in Requests : q # r => pc'[q] \notin {"disk", "fetch", "store", "write"}
    BY <1>12, <2>1 DEF TypeOK, StoreMemory, Goto, Critical
  <2>3. /\ pc'[r] = "write" /\ got'[r] # Nil /\ modelsCache' = got'[r]
        /\ ~Valid(tagsBin)' \/ ReadFaults
    BY <1>12 DEF TypeOK, StaleInv, StoreMemory, Goto, Valid
  <2> QED
    BY <2>2, <2>3 DEF StaleInv
<1>13. ASSUME NEW r \in Requests, WriteTags(r) PROVE StaleInv'
  <2>1. \A q \in Requests : q # r => pc[q] \notin Critical
    BY <1>13 DEF MutexInv, Critical, WriteTags, Goto
  <2>2. \A q \in Requests : pc'[q] \notin {"disk", "fetch", "store", "write"}
    BY <1>13, <2>1 DEF TypeOK, WriteTags, Goto, Critical
  <2> QED
    BY <2>2 DEF StaleInv
<1>14. ASSUME NEW r \in Requests, Finish(r) PROVE StaleInv'
  BY <1>14 DEF TypeOK, StaleInv, Finish, process, memory, Fresh, Valid
<1>15. CASE UNCHANGED vars
  BY <1>15 DEF StaleInv, vars, process, memory, history, Fresh, Valid
<1> QED
  BY <1>1, <1>2, <1>3, <1>4, <1>5, <1>6, <1>7, <1>8, <1>9, <1>10, <1>11,
     <1>12, <1>13, <1>14, <1>15 DEF Next, Handler

-----------------------------------------------------------------------------
(* No step lengthens the life of a list beyond the lease of its one fetch. *)
LEMMA LeaseStep ==
    TypeOK /\ MutexInv /\ StaleInv /\ LeaseInv /\ [Next]_vars => LeaseInv'
<1> SUFFICES ASSUME TypeOK, MutexInv, StaleInv, LeaseInv, [Next]_vars
             PROVE  LeaseInv'
  OBVIOUS
<1> USE BoundsAssumption, NilAssumption
<1>0. /\ now \in Nat /\ tagsTTL \in TTLs /\ tagsTTL \in Nat /\ tagsTTL <= MaxTTL
      /\ MaxTTL \in Nat /\ Lag \in Nat
      /\ tagsBin # NoFile => /\ tagsBin.exp \in Nat /\ tagsBin.models \in Lists
                             /\ tagsBin.models.at \in Nat
      /\ \A r \in Requests : got[r] # Nil => got[r] \in Lists /\ got[r].at \in Nat
  BY TTLFacts DEF TypeOK, Times, Files, Lists
<1>1. CASE Tick
  <2>1. ASSUME NEW r \in Requests, pc'[r] \in {"store", "write"}
        PROVE  now' <= got'[r].at + Lag
    <3>1. now < got[r].at + Lag /\ got[r] # Nil /\ got' = got /\ now' = now + 1
      BY <1>1, <2>1 DEF Tick, StaleInv
    <3> QED
      BY <1>0, <3>1
  <2> QED
    BY <1>1, <2>1 DEF LeaseInv, Tick, process, memory
<1>2. CASE CatalogChanges
  BY <1>2 DEF LeaseInv, CatalogChanges, process, memory
<1>3. CASE Boot
  <2>1. modelsCache' # Nil =>
            modelsCacheAt' + tagsTTL' <= modelsCache'.at + Lag + MaxTTL
    <3>1. tagsTTL' \in Nat
      BY <1>3, TTLFacts DEF Boot
    <3>2. CASE /\ Valid(tagsBin)
               /\ modelsCache' = Decoded(tagsBin.models)
               /\ modelsCacheAt' = LoadedAt(tagsBin.exp, tagsTTL')
      BY <1>0, <3>1, <3>2 DEF LeaseInv, Valid, Decoded, LoadedAt
    <3>3. CASE UNCHANGED memory
      BY <1>3, <3>3 DEF MutexInv, Boot, memory
    <3> QED
      BY <1>3, <3>2, <3>3 DEF Boot
  <2> QED
    BY <1>3, <2>1 DEF LeaseInv, Boot
<1>4. CASE Stop
  BY <1>4 DEF LeaseInv, Stop
<1>5. ASSUME NEW r \in Requests, Arrive(r) PROVE LeaseInv'
  BY <1>5 DEF TypeOK, LeaseInv, Arrive, Goto, process, memory
<1>6. ASSUME NEW r \in Requests, Acquire(r) PROVE LeaseInv'
  BY <1>6 DEF TypeOK, LeaseInv, Acquire, Goto, process, memory, history
<1>7. ASSUME NEW r \in Requests, CheckMemory(r) \/ Recheck(r) PROVE LeaseInv'
  BY <1>7 DEF TypeOK, LeaseInv, CheckMemory, Recheck, Goto, process, memory
<1>8. ASSUME NEW r \in Requests, LoadDisk(r) PROVE LeaseInv'
  <2>1. modelsCache' # Nil =>
            modelsCacheAt' + tagsTTL' <= modelsCache'.at + Lag + MaxTTL
    BY <1>0, <1>8 DEF LoadDisk, LeaseInv, Valid, Decoded, LoadedAt, process
  <2> QED
    BY <1>8, <2>1 DEF TypeOK, LeaseInv, LoadDisk, Goto, process
<1>9. ASSUME NEW r \in Requests, MissDisk(r) \/ FetchFails(r) PROVE LeaseInv'
  BY <1>9 DEF TypeOK, LeaseInv, MissDisk, FetchFails, Goto, process, memory, history
<1>10. ASSUME NEW r \in Requests, UpstreamAnswers(r) PROVE LeaseInv'
  <2>1. now <= got'[r].at + Lag
    BY <1>0, <1>10 DEF TypeOK, UpstreamAnswers
  <2> QED
    BY <1>10, <2>1 DEF TypeOK, LeaseInv, UpstreamAnswers, Goto, process, memory
<1>11. ASSUME NEW r \in Requests, StoreMemory(r) PROVE LeaseInv'
  <2>1. now <= got[r].at + Lag /\ got[r] # Nil
    BY <1>11 DEF LeaseInv, StaleInv, StoreMemory, Goto
  <2>2. now + tagsTTL <= got[r].at + Lag + MaxTTL
    BY <1>0, <2>1
  <2> QED
    BY <1>11, <2>2 DEF TypeOK, LeaseInv, StoreMemory, Goto, process
<1>12. ASSUME NEW r \in Requests, WriteTags(r) PROVE LeaseInv'
  <2>1. now <= got[r].at + Lag /\ got[r] # Nil
    BY <1>12 DEF LeaseInv, StaleInv, WriteTags, Goto
  <2>2. NewFile(got[r]).exp <= NewFile(got[r]).models.at + Lag + MaxTTL
    BY <1>0, <2>1 DEF NewFile
  <2>3. tagsBin' # NoFile => tagsBin'.exp <= tagsBin'.models.at + Lag + MaxTTL
    BY <1>12, <2>2 DEF WriteTags, LeaseInv
  <2> QED
    BY <1>12, <2>3 DEF TypeOK, LeaseInv, WriteTags, Goto, process, memory
<1>13. ASSUME NEW r \in Requests, Finish(r) PROVE LeaseInv'
  BY <1>13 DEF TypeOK, LeaseInv, Finish, process, memory
<1>14. CASE UNCHANGED vars
  BY <1>14 DEF LeaseInv, vars, process, memory, history
<1> QED
  BY <1>1, <1>2, <1>3, <1>4, <1>5, <1>6, <1>7, <1>8, <1>9, <1>10, <1>11,
     <1>12, <1>13, <1>14 DEF Next, Handler

(* A process forgets its last fetch only when the lease of that fetch is over. *)
LEMMA FetchStep == TypeOK /\ MutexInv /\ StaleInv /\ FetchInv /\ [Next]_vars => FetchInv'
<1> SUFFICES ASSUME TypeOK, MutexInv, StaleInv, FetchInv, [Next]_vars
             PROVE  FetchInv'
  OBVIOUS
<1> USE NilAssumption
<1>0. /\ now \in Nat /\ tagsTTL \in TTLs /\ tagsTTL \in Nat
      /\ lastFetch # Nil => lastFetch \in Nat
  BY TTLFacts DEF TypeOK, Times
<1>1. CASE Tick
  BY <1>0, <1>1 DEF FetchInv, Tick, process, memory, history
<1>2. CASE CatalogChanges
  BY <1>2 DEF FetchInv, CatalogChanges, process, memory, history
<1>3. CASE Boot
  BY <1>3 DEF MutexInv, FetchInv, Boot, history
<1>4. CASE Stop
  BY <1>4 DEF FetchInv, Stop
<1>5. ASSUME NEW r \in Requests,
             \/ Arrive(r) \/ Acquire(r) \/ CheckMemory(r) \/ Recheck(r)
             \/ MissDisk(r) \/ FetchFails(r) \/ UpstreamAnswers(r)
             \/ WriteTags(r) \/ Finish(r)
      PROVE FetchInv'
  BY <1>5 DEF FetchInv, Arrive, Acquire, CheckMemory, Recheck, MissDisk, FetchFails,
              UpstreamAnswers, WriteTags, Finish, process, memory, history
<1>6. ASSUME NEW r \in Requests, LoadDisk(r) PROVE FetchInv'
  <2>1. ~Fresh
    BY <1>6 DEF StaleInv, LoadDisk, Goto
  <2>2. lastFetch # Nil => now - lastFetch >= tagsTTL
    BY <1>0, <2>1 DEF FetchInv, Fresh
  <2> QED
    BY <1>6, <2>2 DEF FetchInv, LoadDisk, process
<1>7. ASSUME NEW r \in Requests, StoreMemory(r) PROVE FetchInv'
  BY <1>7 DEF StaleInv, FetchInv, StoreMemory, Goto
<1>8. CASE UNCHANGED vars
  BY <1>8 DEF FetchInv, vars, process, memory, history
<1> QED
  BY <1>1, <1>2, <1>3, <1>4, <1>5, <1>6, <1>7, <1>8 DEF Next, Handler

-----------------------------------------------------------------------------
(* With a disk that reads back what it holds, L1 and an unexpired tags.bin
   keep up with every version given out.                                     *)
LEMMA VersionStep ==
    ASSUME ~ReadFaults, TypeOK, MutexInv, StaleInv, VersionInv, [Next]_vars
    PROVE  VersionInv'
<1> USE BoundsAssumption, NilAssumption
<1>0. /\ now \in Nat /\ newest \in Nat /\ catalog \in Nat
      /\ modelsCache # Nil => modelsCache \in Lists /\ modelsCache.ver \in Nat
      /\ tagsBin # NoFile => tagsBin.models \in Lists /\ tagsBin.models.ver \in Nat
      /\ \A r \in Requests : /\ got[r] # Nil => got[r] \in Lists /\ got[r].ver \in Nat
                             /\ floor[r] \in Nat
  BY DEF TypeOK, Times, Versions, Files, Lists
<1>1. CASE Tick
  BY <1>1, TickStales DEF VersionInv, Tick, process, memory, history
<1>2. CASE CatalogChanges
  <2>1. catalog' = catalog + 1
    BY <1>2 DEF CatalogChanges
  <2> QED
    BY <1>0, <1>2, <2>1 DEF VersionInv, StaleInv, CatalogChanges, process, memory, history,
                            Valid
<1>3. CASE Boot
  <2>1. modelsCache' # Nil => /\ Valid(tagsBin) /\ modelsCache' = tagsBin.models
    BY <1>3 DEF MutexInv, Boot, memory, Decoded
  <2>2. Valid(tagsBin)' = Valid(tagsBin) /\ tagsBin' = tagsBin
    BY <1>3 DEF Boot, Valid
  <2> QED
    BY <1>0, <1>3, <2>1, <2>2 DEF VersionInv, Boot, history, Valid
<1>4. CASE Stop
  <2>1. Valid(tagsBin)' => Valid(tagsBin) /\ tagsBin' = tagsBin
    BY <1>4 DEF Stop, Valid
  <2>2. tagsBin' # NoFile => tagsBin' = tagsBin
    BY <1>4 DEF Stop
  <2> QED
    BY <1>0, <1>4, <2>1, <2>2 DEF VersionInv, Stop
<1>5. ASSUME NEW r \in Requests, Arrive(r) PROVE VersionInv'
  BY <1>0, <1>5 DEF TypeOK, VersionInv, Arrive, Goto, process, memory, Valid
<1>6. ASSUME NEW r \in Requests, Acquire(r) PROVE VersionInv'
  BY <1>6 DEF TypeOK, VersionInv, Acquire, Goto, process, memory, history, Valid
<1>7. ASSUME NEW r \in Requests, CheckMemory(r) \/ Recheck(r) PROVE VersionInv'
  <2>1. CASE UNCHANGED newest
    BY <1>7, <2>1 DEF TypeOK, VersionInv, CheckMemory, Recheck, Goto, process, memory, Valid
  <2>2. CASE Fresh /\ Settle(r, modelsCache)
    <3>1. modelsCache # Nil /\ newest <= newest' /\ newest' = modelsCache.ver
      BY <1>0, <2>2 DEF Fresh, Settle, VersionInv
    <3>2. \A q \in Requests : pc'[q] \in {"store", "write"} =>
                /\ pc[q] \in {"store", "write"} /\ got'[q] = got[q]
      BY <1>7 DEF TypeOK, CheckMemory, Recheck, Goto
    <3>3. \A q \in Requests : pc[q] \in {"store", "write"} => modelsCache = got[q]
      BY <2>2 DEF StaleInv
    <3> QED
      BY <1>0, <1>7, <3>1, <3>2, <3>3
      DEF VersionInv, CheckMemory, Recheck, process, memory, Valid
  <2> QED
    BY <1>7, <2>1, <2>2 DEF CheckMemory, Recheck
<1>8. ASSUME NEW r \in Requests, LoadDisk(r) PROVE VersionInv'
  <2>1. \A q \in Requests : pc'[q] \notin {"store", "write"}
    BY <1>8 DEF MutexInv, Critical, TypeOK, LoadDisk, Goto
  <2>2. /\ tagsBin.models.ver \in Nat /\ newest <= tagsBin.models.ver
        /\ tagsBin.models.ver <= catalog
    BY <1>0, <1>8 DEF LoadDisk, VersionInv, Valid
  <2>3. /\ newest <= newest' /\ newest' <= tagsBin.models.ver
        /\ modelsCache' # Nil => modelsCache' = tagsBin.models /\ newest' = tagsBin.models.ver
    BY <1>0, <1>8, <2>2 DEF LoadDisk, Settle, Decoded
  <2>4. /\ tagsBin' = tagsBin /\ catalog' = catalog /\ floor' = floor
        /\ newest' \in Nat
    BY <1>0, <1>8, <2>2 DEF LoadDisk, Settle, Decoded
  <2> QED
    BY <1>0, <2>1, <2>2, <2>3, <2>4 DEF VersionInv
<1>9. ASSUME NEW r \in Requests, MissDisk(r) \/ FetchFails(r) PROVE VersionInv'
  BY <1>9 DEF TypeOK, VersionInv, MissDisk, FetchFails, Goto, process, memory, history, Valid
<1>10. ASSUME NEW r \in Requests, UpstreamAnswers(r) PROVE VersionInv'
  <2>1. got'[r].ver = catalog
    BY <1>10 DEF TypeOK, UpstreamAnswers
  <2> QED
    BY <1>0, <1>10, <2>1 DEF TypeOK, VersionInv, UpstreamAnswers, Goto, process, memory,
                             history, Valid
<1>11. ASSUME NEW r \in Requests, StoreMemory(r) PROVE VersionInv'
  <2>1. /\ got[r] # Nil /\ newest <= got[r].ver /\ got[r].ver <= catalog /\ ~Valid(tagsBin)
    BY <1>11 DEF StaleInv, VersionInv, StoreMemory, Goto, Fetching
  <2> QED
    BY <1>11, <2>1 DEF TypeOK, VersionInv, StoreMemory, Goto, process, Valid
<1>12. ASSUME NEW r \in Requests, WriteTags(r) PROVE VersionInv'
  <2>1. \A q \in Requests : pc'[q] \notin {"store", "write"}
    BY <1>12 DEF MutexInv, Critical, TypeOK, WriteTags, Goto
  <2>2. /\ got[r] # Nil /\ modelsCache = got[r] /\ newest <= got[r].ver
        /\ got[r].ver <= catalog /\ ~Valid(tagsBin)
    BY <1>12 DEF StaleInv, VersionInv, WriteTags, Goto, Fetching
  <2>3. newest' = got[r].ver
    BY <1>0, <1>12, <2>2 DEF WriteTags, Settle
  <2>4. tagsBin' # NoFile => tagsBin'.models = got[r] \/ (tagsBin' = tagsBin /\ ~Valid(tagsBin)')
    BY <1>12, <2>2 DEF WriteTags, NewFile, Valid
  <2>5. catalog' = catalog /\ floor' = floor /\ modelsCache' = modelsCache
    BY <1>12 DEF WriteTags, memory
  <2> QED
    BY <1>0, <2>1, <2>2, <2>3, <2>4, <2>5 DEF VersionInv, Valid
<1>13. ASSUME NEW r \in Requests, Finish(r) PROVE VersionInv'
  BY <1>0, <1>13 DEF TypeOK, VersionInv, Finish, process, memory, Valid
<1>14. CASE UNCHANGED vars
  BY <1>14 DEF VersionInv, vars, process, memory, history, Valid
<1> QED
  BY <1>1, <1>2, <1>3, <1>4, <1>5, <1>6, <1>7, <1>8, <1>9, <1>10, <1>11,
     <1>12, <1>13, <1>14 DEF Next, Handler

(* The list a request is given is at or above what was newest on its arrival. *)
LEMMA MonotoneStep ==
    ASSUME ~ReadFaults, TypeOK, StaleInv, VersionInv, MonotoneReads, [Next]_vars
    PROVE  MonotoneReads'
<1> USE BoundsAssumption, NilAssumption
<1>0. /\ newest \in Nat
      /\ modelsCache # Nil => modelsCache.ver \in Nat
      /\ tagsBin # NoFile => tagsBin.models \in Lists /\ tagsBin.models.ver \in Nat
      /\ \A r \in Requests : /\ got[r] # Nil => got[r].ver \in Nat
                             /\ floor[r] \in Nat /\ floor[r] <= newest
  BY DEF TypeOK, Versions, Files, Lists, VersionInv
<1>1. CASE Tick \/ CatalogChanges \/ Boot
  BY <1>1 DEF MonotoneReads, Tick, CatalogChanges, Boot, history
<1>2. CASE Stop
  BY <1>2 DEF MonotoneReads, Stop
<1>3. ASSUME NEW r \in Requests, \/ Arrive(r) \/ Acquire(r) \/ MissDisk(r)
                                 \/ FetchFails(r) \/ UpstreamAnswers(r)
                                 \/ StoreMemory(r) \/ Finish(r)
      PROVE MonotoneReads'
  BY <1>3 DEF TypeOK, MonotoneReads, Arrive, Acquire, MissDisk, FetchFails,
              UpstreamAnswers, StoreMemory, Finish, Goto, history
<1>4. ASSUME NEW r \in Requests, CheckMemory(r) \/ Recheck(r) PROVE MonotoneReads'
  <2>1. Fresh => modelsCache.ver >= floor[r]
    BY <1>0 DEF Fresh, VersionInv
  <2> QED
    BY <1>4, <2>1 DEF TypeOK, MonotoneReads, CheckMemory, Recheck, Goto
<1>5. ASSUME NEW r \in Requests, LoadDisk(r) PROVE MonotoneReads'
  <2>1. got'[r] # Nil => got'[r].ver >= floor[r]
    BY <1>0, <1>5 DEF TypeOK, LoadDisk, Decoded, VersionInv, Valid
  <2> QED
    BY <1>5, <2>1 DEF TypeOK, MonotoneReads, LoadDisk, Goto
<1>6. ASSUME NEW r \in Requests, WriteTags(r) PROVE MonotoneReads'
  <2>1. got[r] # Nil /\ got[r].ver >= floor[r]
    BY <1>0, <1>6 DEF WriteTags, Goto, StaleInv, VersionInv
  <2> QED
    BY <1>6, <2>1 DEF TypeOK, MonotoneReads, WriteTags, Goto
<1>7. CASE UNCHANGED vars
  BY <1>7 DEF MonotoneReads, vars, history
<1> QED
  BY <1>1, <1>2, <1>3, <1>4, <1>5, <1>6, <1>7 DEF Next, Handler

-----------------------------------------------------------------------------
LEMMA InitInv == Init => Inv
<1> SUFFICES ASSUME Init PROVE Inv
  OBVIOUS
<1> USE BoundsAssumption, NilAssumption
<1>1. TypeOK
  <2>1. running \in BOOLEAN
    BY DEF Init
  <2>2. 0 \in Versions /\ 0 \in Times
    BY DEF Versions, Times
  <2> QED
    BY <2>1, <2>2 DEF Init, TypeOK
<1>2. MutexInv /\ StaleInv /\ FetchInv /\ MonotoneReads
  BY DEF Init, MutexInv, Critical, StaleInv, Fetching, FetchInv, MonotoneReads
<1>3. LeaseInv /\ VersionInv
  BY DEF Init, LeaseInv, VersionInv, Valid
<1> QED
  BY <1>1, <1>2, <1>3 DEF Inv

LEMMA StepInv == Inv /\ [Next]_vars => Inv'
<1> SUFFICES ASSUME Inv, [Next]_vars PROVE Inv'
  OBVIOUS
<1>1. TypeOK' /\ MutexInv' /\ StaleInv' /\ LeaseInv' /\ FetchInv'
  BY TypeStep, MutexStep, StaleStep, LeaseStep, FetchStep DEF Inv
<1>2. ReadFaults \/ (VersionInv' /\ MonotoneReads')
  BY VersionStep, MonotoneStep DEF Inv
<1> QED
  BY <1>1, <1>2 DEF Inv

(* Inv is an invariant of TagsCache. *)
THEOREM Invariance == Spec => []Inv
<1> QED
  BY InitInv, StepInv, PTL DEF Spec

(* Every variable has its type in every reachable state. *)
THEOREM TypeCorrect == Spec => []TypeOK
<1>1. Inv => TypeOK
  BY DEF Inv
<1> QED
  BY <1>1, Invariance, PTL

(* However many requests pile up behind the lock, a process fetches at most
   once per lease.                                                           *)
THEOREM OneFetchPerLease == Spec => []FetchGap
<1>1. Inv => FetchGap
  <2> SUFFICES ASSUME Inv, NEW r \in Requests, pc[r] = "fetch", lastFetch # Nil
               PROVE  now - lastFetch >= tagsTTL
    BY DEF FetchGap
  <2>1. ~Fresh
    BY DEF Inv, StaleInv
  <2>2. now \in Nat /\ tagsTTL \in Nat /\ lastFetch \in Nat
    BY TTLFacts DEF Inv, TypeOK, Times
  <2> QED
    BY <2>1, <2>2 DEF Inv, FetchInv, Fresh
<1> QED
  BY <1>1, Invariance, PTL

(* No list is given out a lease plus Lag after upstream composed it, whatever
   the restarts and whatever the lease each process was started with.        *)
THEOREM LeaseHolds == Spec => ServedInLease
<1>1. ASSUME Inv, [Next]_vars, NEW r \in Requests,
             pc[r] # "reply", pc'[r] = "reply", got'[r] # Nil
      PROVE  now - got'[r].at < MaxTTL + Lag
  <2>1. /\ now \in Nat /\ tagsTTL \in Nat /\ tagsTTL >= 1 /\ tagsTTL <= MaxTTL
        /\ MaxTTL \in Nat /\ Lag \in Nat /\ modelsCacheAt \in Int
        /\ modelsCache # Nil => modelsCache.at \in Nat
        /\ tagsBin # NoFile => tagsBin.exp \in Nat /\ tagsBin.models.at \in Nat
        /\ got[r] # Nil => got[r].at \in Nat
    BY <1>1, TTLFacts, BoundsAssumption DEF Inv, TypeOK, Times, Lists, Files
  <2>2. CASE CheckMemory(r) \/ Recheck(r)
    <3>1. Fresh /\ got'[r] = modelsCache
      BY <1>1, <2>2 DEF CheckMemory, Recheck, Goto, Inv, TypeOK
    <3> QED
      BY <1>1, <2>1, <3>1 DEF Inv, LeaseInv, Fresh
  <2>3. CASE LoadDisk(r)
    <3>1. Valid(tagsBin) /\ got'[r] = tagsBin.models
      BY <1>1, <2>3 DEF LoadDisk, Decoded, Inv, TypeOK
    <3> QED
      BY <1>1, <2>1, <3>1 DEF Inv, LeaseInv, Valid
  <2>4. CASE WriteTags(r)
    <3>1. now <= got[r].at + Lag /\ got'[r] = got[r] /\ got[r] # Nil
      BY <1>1, <2>4 DEF Inv, LeaseInv, StaleInv, WriteTags, Goto
    <3> QED
      BY <2>1, <3>1
  <2>5. CheckMemory(r) \/ Recheck(r) \/ LoadDisk(r) \/ WriteTags(r)
    <3>1. CASE Tick \/ CatalogChanges \/ Boot \/ UNCHANGED vars
      BY <1>1, <3>1 DEF Tick, CatalogChanges, Boot, vars
    <3>2. CASE Stop
      BY <1>1, <3>2 DEF Stop
    <3>3. ASSUME NEW q \in Requests, Arrive(q) \/ Acquire(q) \/ Handler(q)
          PROVE  CheckMemory(r) \/ Recheck(r) \/ LoadDisk(r) \/ WriteTags(r)
      <4>1. q = r
        BY <1>1, <3>3 DEF Inv, TypeOK, Arrive, Acquire, Handler, CheckMemory, Recheck,
             LoadDisk, MissDisk, UpstreamAnswers, FetchFails, StoreMemory, WriteTags,
             Finish, Goto
      <4> QED
        BY <1>1, <3>3, <4>1 DEF Inv, TypeOK, Arrive, Acquire, Handler, MissDisk,
             UpstreamAnswers, FetchFails, StoreMemory, Finish, Goto
    <3> QED
      BY <1>1, <3>1, <3>2, <3>3 DEF Next
  <2> QED
    BY <2>2, <2>3, <2>4, <2>5
<1>2. Inv /\ [Next]_vars =>
        [\A r \in Requests : pc[r] # "reply" /\ pc'[r] = "reply" /\ got'[r] # Nil
              => now - got'[r].at < MaxTTL + Lag]_vars
  BY <1>1
<1> QED
  BY <1>2, Invariance, PTL DEF Spec, ServedInLease

(* With a disk that reads back what it holds, no request is answered with a
   list older than one already given out when it arrived, across restarts,
   torn files and failed writes.                                             *)
THEOREM ReadsNeverGoBack == ASSUME ~ReadFaults PROVE Spec => []MonotoneReads
<1>1. Inv => MonotoneReads
  BY DEF Inv
<1> QED
  BY <1>1, Invariance, PTL

-----------------------------------------------------------------------------
(* A step that moves request r to a label, and no other request, moves r's
   phase to that label's phase.                                              *)
LEMMA PhaseStep ==
    ASSUME TypeOK, NEW r \in Requests, NEW label, pc' = [pc EXCEPT ![r] = label]
    PROVE  /\ phase' = [phase EXCEPT ![r] = PhaseAt(label)]
           /\ phase[r] = PhaseAt(pc[r])
BY DEF TypeOK, phase

(* The answer of a request does not change unless it comes or goes. *)
LEMMA AnswerStep ==
    ASSUME TypeOK, NEW r \in Requests, NEW label,
           pc' = [pc EXCEPT ![r] = label], \A q \in Requests : q # r => got'[q] = got[q]
    PROVE  answer' = [answer EXCEPT ![r] = IF label = "reply" /\ got'[r] # Nil
                                           THEN got'[r].ver ELSE Nil]
BY DEF TypeOK, answer

(* A step that leaves a request at work, or only moves it on, is a stutter. *)
LEMMA Stutter ==
    ASSUME TypeOK, NEW r \in Requests, NEW label,
           pc' = [pc EXCEPT ![r] = label], PhaseAt(label) = PhaseAt(pc[r]),
           label # "reply", pc[r] # "reply",
           \A q \in Requests : q # r => got'[q] = got[q],
           UNCHANGED <<newest, floor>>
    PROVE  UNCHANGED Register!vars
<1>1. phase' = phase
  BY DEF TypeOK, phase
<1>2. answer' = answer
  BY DEF TypeOK, answer
<1> QED
  BY <1>1, <1>2 DEF Register!vars

(* A step that settles a request on a list, or on nil, is an answer of the
   register.                                                                 *)
LEMMA SettledAnswer ==
    ASSUME TypeOK, MonotoneReads', NEW r \in Requests,
           PhaseAt(pc[r]) = "asked",
           pc' = [pc EXCEPT ![r] = "reply"],
           \A q \in Requests : q # r => got'[q] = got[q],
           got'[r] \in Lists \cup {Nil}, Settle(r, got'[r]), UNCHANGED floor
    PROVE  (\E v \in Versions : Register!Answer(r, v)) \/ Register!AnswerNull(r)
<1> USE NilAssumption
<1>1. /\ phase' = [phase EXCEPT ![r] = "answered"]
      /\ phase[r] = "asked" /\ pc'[r] = "reply"
  BY PhaseStep DEF PhaseAt, TypeOK
<1>2. CASE got'[r] = Nil
  <2>1. answer' = answer
    BY <1>2 DEF TypeOK, answer, PhaseAt
  <2> QED
    BY <1>1, <1>2, <2>1 DEF Register!AnswerNull, Settle
<1>3. CASE got'[r] # Nil
  <2>1. got'[r].ver \in Versions /\ got'[r].ver >= floor[r]
    BY <1>1, <1>3 DEF Lists, MonotoneReads
  <2>2. answer' = [answer EXCEPT ![r] = got'[r].ver]
    BY <1>3, AnswerStep
  <2>3. newest' = IF got'[r].ver > newest THEN got'[r].ver ELSE newest
    BY <1>3 DEF Settle
  <2>4. Register!Answer(r, got'[r].ver)
    BY <1>1, <2>1, <2>2, <2>3 DEF Register!Answer
  <2> QED
    BY <2>1, <2>4
<1> QED
  BY <1>2, <1>3

(* handleTags, with its three tiers, its lock, its restarts and its failing
   writes, implements the register whose reads never go back.                *)
THEOREM Refinement == ASSUME ~ReadFaults PROVE Spec => RegisterSpec
<1>1. Init => Register!Init
  BY DEF Init, Register!Init, phase, PhaseAt, answer
<1>2. Inv /\ Inv' /\ [Next]_vars => [Register!Next]_(Register!vars)
  <2> SUFFICES ASSUME Inv, Inv', [Next]_vars
               PROVE  Register!Next \/ UNCHANGED Register!vars
    OBVIOUS
  <2> USE NilAssumption
  <2>0. TypeOK /\ MonotoneReads'
    BY DEF Inv
  <2>1. CASE Tick \/ CatalogChanges \/ Boot \/ UNCHANGED vars
    <3>1. UNCHANGED <<pc, got, newest, floor>>
      BY <2>1 DEF Tick, CatalogChanges, Boot, vars, history
    <3> QED
      BY <3>1 DEF Register!vars, phase, answer
  <2>2. CASE Stop
    <3>1. phase' = [r \in Requests |-> "idle"] /\ answer' = [r \in Requests |-> Nil]
      BY <2>2 DEF Stop, phase, PhaseAt, answer
    <3> QED
      BY <2>2, <3>1 DEF Stop, Register!Next, Register!Drop
  <2>3. ASSUME NEW r \in Requests, Arrive(r) PROVE Register!Ask(r)
    <3>1. pc[r] = "idle" /\ pc' = [pc EXCEPT ![r] = "check"] /\ got' = got
      BY <2>3 DEF Arrive, Goto
    <3>2. phase[r] = PhaseAt("idle") /\ phase' = [phase EXCEPT ![r] = PhaseAt("check")]
      BY <2>0, <3>1, PhaseStep
    <3>3. answer' = answer
      BY <2>0, <3>1 DEF TypeOK, answer
    <3> QED
      BY <2>3, <3>2, <3>3 DEF Arrive, Register!Ask, PhaseAt
  <2>4. ASSUME NEW r \in Requests,
               \/ Acquire(r) \/ MissDisk(r) \/ UpstreamAnswers(r) \/ StoreMemory(r)
               \/ (CheckMemory(r) /\ ~Fresh) \/ (Recheck(r) /\ ~Fresh)
        PROVE UNCHANGED Register!vars
    <3>1. PICK label \in {"lock", "recheck", "disk", "fetch", "store", "write"} :
              pc' = [pc EXCEPT ![r] = label]
      BY <2>4 DEF Acquire, MissDisk, UpstreamAnswers, StoreMemory, CheckMemory, Recheck, Goto
    <3>2. /\ pc[r] \in {"check", "lock", "recheck", "disk", "fetch", "store"}
          /\ UNCHANGED <<newest, floor>>
      BY <2>4 DEF Acquire, MissDisk, UpstreamAnswers, StoreMemory, CheckMemory, Recheck,
                  Goto, history
    <3>3. \A q \in Requests : q # r => got'[q] = got[q]
      BY <2>0, <2>4 DEF TypeOK, Acquire, MissDisk, UpstreamAnswers, StoreMemory,
                        CheckMemory, Recheck
    <3>4. PhaseAt(label) = PhaseAt(pc[r])
      BY <3>1, <3>2 DEF PhaseAt
    <3> QED
      BY <2>0, <3>1, <3>2, <3>3, <3>4, Stutter
  <2>5. ASSUME NEW r \in Requests,
               \/ (CheckMemory(r) /\ Fresh) \/ (Recheck(r) /\ Fresh)
               \/ LoadDisk(r) \/ WriteTags(r)
        PROVE (\E v \in Versions : Register!Answer(r, v)) \/ Register!AnswerNull(r)
    <3>1. /\ pc' = [pc EXCEPT ![r] = "reply"]
          /\ pc[r] \in {"check", "recheck", "disk", "write"}
          /\ UNCHANGED floor
      BY <2>5 DEF CheckMemory, Recheck, LoadDisk, WriteTags, Goto
    <3>2. PhaseAt(pc[r]) = "asked"
      BY <3>1 DEF PhaseAt
    <3>3. /\ \A q \in Requests : q # r => got'[q] = got[q]
          /\ Settle(r, got'[r])
      BY <2>0, <2>5 DEF TypeOK, CheckMemory, Recheck, LoadDisk, WriteTags
    <3>4. got'[r] \in Lists \cup {Nil}
      BY DEF Inv, TypeOK
    <3> QED
      BY <2>0, <3>1, <3>2, <3>3, <3>4, SettledAnswer
  <2>6. ASSUME NEW r \in Requests, FetchFails(r) PROVE Register!Refuse(r)
    <3>1. pc[r] = "fetch" /\ pc' = [pc EXCEPT ![r] = "fail"] /\ got' = got
      BY <2>6 DEF FetchFails, Goto
    <3>2. phase[r] = "asked" /\ phase' = [phase EXCEPT ![r] = "refused"]
      BY <2>0, <3>1, PhaseStep DEF PhaseAt
    <3>3. answer' = answer
      BY <2>0, <3>1 DEF TypeOK, answer
    <3> QED
      BY <2>6, <3>2, <3>3 DEF FetchFails, history, Register!Refuse
  <2>7. ASSUME NEW r \in Requests, Finish(r) PROVE Register!End(r)
    <3>1. pc[r] \in {"reply", "fail"} /\ pc' = [pc EXCEPT ![r] = "idle"]
      BY <2>7 DEF Finish
    <3>2. phase[r] \in {"answered", "refused"} /\ phase' = [phase EXCEPT ![r] = "idle"]
      BY <2>0, <3>1, PhaseStep DEF PhaseAt
    <3>3. answer' = [answer EXCEPT ![r] = Nil]
      BY <2>0, <2>7, <3>1, AnswerStep DEF Finish, TypeOK
    <3> QED
      BY <2>7, <3>2, <3>3 DEF Finish, Register!End
  <2> QED
    BY <2>1, <2>2, <2>3, <2>4, <2>5, <2>6, <2>7 DEF Next, Handler, Register!Next
<1> QED
  BY <1>1, <1>2, Invariance, PTL DEF Spec, RegisterSpec, Register!Spec
=============================================================================
