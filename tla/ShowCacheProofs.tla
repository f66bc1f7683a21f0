--------------------------- MODULE ShowCacheProofs ---------------------------
(* ShowCache proved for every set of requests, inodes, builds and leases.  The
   argument: whoever removes the path is on his way to make the file anew, and
   what is not whole has a writer or is known to be cut; a handler that meets
   nobody knows what it reads and where it writes.                           *)
EXTENDS ShowCache, TLAPS

(* A record that is made now is a record. *)
LEMMA MadeRecord ==
    ASSUME TypeOK
    PROVE  [build |-> build, born |-> now, lease |-> showTTL] \in Records
  BY DEF TypeOK, Records

(* Every variable keeps its type. *)
LEMMA TypeStep == TypeOK /\ HandlerInv /\ [Next]_vars => TypeOK'
<1> SUFFICES ASSUME TypeOK, HandlerInv, [Next]_vars PROVE TypeOK'
  OBVIOUS
<1> USE LeaseAssumption DEF Contents
<1>1. CASE Tick
  BY <1>1 DEF TypeOK, Tick, Times, process, disk, history
<1>2. CASE Boot
  BY <1>2 DEF TypeOK, Boot, disk, history
<1>3. CASE Stop
  BY <1>3 DEF TypeOK, Stop
<1>4. CASE UNCHANGED vars
  BY <1>4 DEF TypeOK, vars, process, disk, history
<1>5. ASSUME NEW r \in Requests, Arrive(r) PROVE TypeOK'
  BY <1>5 DEF TypeOK, Arrive, Goto, process, disk
<1>6. ASSUME NEW r \in Requests, OpenFile(r) PROVE TypeOK'
  <2>1. {content[file]} \in SUBSET Contents
    BY <1>6 DEF TypeOK, OpenFile
  <2>2. seen' \in [Requests -> SUBSET Contents]
    BY <1>6, <2>1 DEF TypeOK, OpenFile
  <2> QED
    BY <1>6, <2>2 DEF TypeOK, OpenFile, Goto, process, disk, history
<1>7. ASSUME NEW r \in Requests, NotExist(r) PROVE TypeOK'
  BY <1>7 DEF TypeOK, NotExist, Goto, process, disk, history
<1>8. ASSUME NEW r \in Requests, ReadFails(r) PROVE TypeOK'
  BY <1>8 DEF TypeOK, ReadFails, Goto, Close, EndRead, Parted, process, disk
<1>9. ASSUME NEW r \in Requests, ReadFile(r) PROVE TypeOK'
  <2>1. PICK data \in ReadResults(r) :
            /\ Served(r, data) \/ Expired(r, data) \/ Invalid(r, data)
            /\ got' = [got EXCEPT ![r] = data]
    BY <1>9 DEF ReadFile
  <2>2. data \in Contents
    BY <1>9, <2>1 DEF TypeOK, HandlerInv, ReadFile, ReadResults
  <2>3. pc' \in [Requests -> {"idle", "open", "read", "remove", "build",
                              "create", "write", "reply"}]
    BY <2>1 DEF TypeOK, Served, Expired, Invalid, Goto
  <2> QED
    BY <1>9, <2>1, <2>2, <2>3 DEF TypeOK, ReadFile, Close, EndRead, process, disk, history
<1>10. ASSUME NEW r \in Requests, RemoveInvalid(r) PROVE TypeOK'
  BY <1>10 DEF TypeOK, RemoveInvalid, Goto, Parted, process
<1>11. ASSUME NEW r \in Requests, BuildShowResponse(r) PROVE TypeOK'
  BY <1>11, MadeRecord DEF TypeOK, BuildShowResponse, Goto, process, disk, history
<1>12. ASSUME NEW r \in Requests, NEW i \in Inodes, Create(r, i) PROVE TypeOK'
  BY <1>12 DEF TypeOK, Create, Change, Goto, process
<1>13. ASSUME NEW r \in Requests, CreateFails(r) PROVE TypeOK'
  BY <1>13 DEF TypeOK, CreateFails, Goto, WriteLost, Parted, process, disk
<1>14. ASSUME NEW r \in Requests, WriteFile(r) PROVE TypeOK'
  BY <1>14 DEF TypeOK, WriteFile, Written, Change, Goto, Close, process, history
<1>15. ASSUME NEW r \in Requests, WriteFails(r) PROVE TypeOK'
  <2>1. content' \in [Inodes -> Contents] /\ seen' \in [Requests -> SUBSET Contents]
    BY <1>15 DEF TypeOK, WriteFails, Change
  <2>2. cut' \subseteq Inodes
    BY <1>15 DEF TypeOK, HandlerInv, WriteFails, Goto
  <2> QED
    BY <1>15, <2>1, <2>2 DEF TypeOK, WriteFails, Goto, Close, WriteLost, Parted, process
<1>16. ASSUME NEW r \in Requests, Reply(r) PROVE TypeOK'
  BY <1>16 DEF TypeOK, Reply, Goto, Parted, process, disk
<1> QED
  BY <1>1, <1>2, <1>3, <1>4, <1>5, <1>6, <1>7, <1>8, <1>9, <1>10, <1>11, <1>12,
     <1>13, <1>14, <1>15, <1>16 DEF Next, HandleShow

(* A handler has open what it uses, and carries a record from the time it has
   made or accepted one.                                                     *)
LEMMA HandlerStep == TypeOK /\ HandlerInv /\ [Next]_vars => HandlerInv'
<1> SUFFICES ASSUME TypeOK, HandlerInv, [Next]_vars PROVE HandlerInv'
  OBVIOUS
<1> USE NilAssumption DEF Readable
<1>1. CASE Tick \/ UNCHANGED vars
  BY <1>1 DEF HandlerInv, Tick, vars, process, disk, history
<1>2. CASE Boot
  BY <1>2 DEF TypeOK, HandlerInv, Boot, disk, history
<1>3. CASE Stop
  BY <1>3 DEF HandlerInv, Stop
<1>4. ASSUME NEW r \in Requests, Arrive(r) PROVE HandlerInv'
  BY <1>4 DEF TypeOK, HandlerInv, Arrive, Goto, process, disk
<1>5. ASSUME NEW r \in Requests, OpenFile(r) PROVE HandlerInv'
  BY <1>5 DEF TypeOK, HandlerInv, OpenFile, Goto, process, disk
<1>6. ASSUME NEW r \in Requests, NotExist(r) PROVE HandlerInv'
  BY <1>6 DEF TypeOK, HandlerInv, NotExist, Goto, process, disk, history
<1>7. ASSUME NEW r \in Requests, ReadFails(r) PROVE HandlerInv'
  BY <1>7 DEF TypeOK, HandlerInv, ReadFails, Goto, Close, EndRead, process, disk
<1>8. ASSUME NEW r \in Requests, ReadFile(r) PROVE HandlerInv'
  <2>1. PICK data \in ReadResults(r) :
            /\ Served(r, data) \/ Expired(r, data) \/ Invalid(r, data)
            /\ got' = [got EXCEPT ![r] = data]
    BY <1>8 DEF ReadFile
  <2>2. /\ pc[r] = "read" /\ UNCHANGED <<build, up>>
        /\ fd' = [fd EXCEPT ![r] = NoFile]
    BY <1>8 DEF ReadFile, Close, EndRead, process
  <2>3. /\ pc' = [pc EXCEPT ![r] = pc'[r]]
        /\ pc'[r] \in {"reply", "build", "remove"}
        /\ pc'[r] = "reply" => Readable(data)
    BY <2>1 DEF TypeOK, Served, Expired, Invalid, Goto
  <2> QED
    BY <2>1, <2>2, <2>3 DEF TypeOK, HandlerInv
<1>9. ASSUME NEW r \in Requests, RemoveInvalid(r) PROVE HandlerInv'
  BY <1>9 DEF TypeOK, HandlerInv, RemoveInvalid, Goto, process
<1>10. ASSUME NEW r \in Requests, BuildShowResponse(r) PROVE HandlerInv'
  <2>1. Readable([build |-> build, born |-> now, lease |-> showTTL])
    BY MadeRecord
  <2> QED
    BY <1>10, <2>1 DEF TypeOK, HandlerInv, BuildShowResponse, Goto, process, disk, history
<1>11. ASSUME NEW r \in Requests, NEW i \in Inodes, Create(r, i) PROVE HandlerInv'
  BY <1>11 DEF TypeOK, HandlerInv, Create, Goto, process
<1>12. ASSUME NEW r \in Requests, CreateFails(r) PROVE HandlerInv'
  BY <1>12 DEF TypeOK, HandlerInv, CreateFails, Goto, process, disk
<1>13. ASSUME NEW r \in Requests, WriteFile(r) \/ WriteFails(r) PROVE HandlerInv'
  BY <1>13 DEF TypeOK, HandlerInv, WriteFile, WriteFails, Goto, Close, process
<1>14. ASSUME NEW r \in Requests, Reply(r) PROVE HandlerInv'
  BY <1>14 DEF TypeOK, HandlerInv, Reply, Goto, process, disk
<1> QED
  BY <1>1, <1>2, <1>3, <1>4, <1>5, <1>6, <1>7, <1>8, <1>9, <1>10, <1>11, <1>12,
     <1>13, <1>14 DEF Next, HandleShow

(* Whoever truncates a file writes it, or it is known to be cut. *)
LEMMA WholeStep == TypeOK /\ HandlerInv /\ WholeAtRest /\ [Next]_vars => WholeAtRest'
<1> SUFFICES ASSUME TypeOK, HandlerInv, WholeAtRest, [Next]_vars PROVE WholeAtRest'
  OBVIOUS
<1> USE NilAssumption DEF WholeAtRest, Writing
<1>1. CASE Tick \/ Boot \/ UNCHANGED vars
  BY <1>1 DEF Tick, Boot, vars, disk, history
<1>2. CASE Stop
  <2>1. file' = file /\ cut' = cut \cup {i \in Inodes : Writing(i)}
    BY <1>2 DEF Stop
  <2>2. \A i \in Inodes : Writing(i) \/ content'[i] = content[i]
    BY <1>2 DEF Stop, TypeOK
  <2> QED
    BY <2>1, <2>2 DEF TypeOK
<1>3. ASSUME NEW r \in Requests,
             \/ Arrive(r) \/ OpenFile(r) \/ NotExist(r) \/ ReadFails(r)
             \/ BuildShowResponse(r) \/ CreateFails(r) \/ Reply(r)
      PROVE WholeAtRest'
  <2>1. UNCHANGED <<file, content, cut>>
    BY <1>3 DEF Arrive, OpenFile, NotExist, ReadFails, BuildShowResponse, CreateFails,
                Reply, disk, history
  <2>2. \A q \in Requests : pc[q] = "write" => pc'[q] = "write" /\ fd'[q] = fd[q]
    BY <1>3 DEF TypeOK, Arrive, OpenFile, NotExist, ReadFails, BuildShowResponse,
                CreateFails, Reply, Goto, Close, EndRead
  <2> QED
    BY <2>1, <2>2
<1>4. ASSUME NEW r \in Requests, ReadFile(r) PROVE WholeAtRest'
  BY <1>4 DEF TypeOK, ReadFile, Served, Expired, Invalid, Goto, Close, EndRead, disk, history
<1>5. ASSUME NEW r \in Requests, RemoveInvalid(r) PROVE WholeAtRest'
  BY <1>5 DEF TypeOK, RemoveInvalid, Goto
<1>6. ASSUME NEW r \in Requests, NEW i \in Inodes, Create(r, i) PROVE WholeAtRest'
  BY <1>6 DEF TypeOK, Create, Change, Goto
<1>7. ASSUME NEW r \in Requests, WriteFile(r) PROVE WholeAtRest'
  <2>1. got[r] \in Records /\ fd[r] \in Inodes
    BY <1>7 DEF HandlerInv, Readable, WriteFile, Goto
  <2> QED
    BY <1>7, <2>1 DEF TypeOK, WriteFile, Written, Change, Goto, Close, history
<1>8. ASSUME NEW r \in Requests, WriteFails(r) PROVE WholeAtRest'
  BY <1>8 DEF TypeOK, HandlerInv, WriteFails, Change, Goto, Close
<1> QED
  BY <1>1, <1>2, <1>3, <1>4, <1>5, <1>6, <1>7, <1>8 DEF Next, HandleShow

(* Whoever takes the file away, or finds none, makes one. *)
LEMMA MadeStep == TypeOK /\ HandlerInv /\ MadeInv /\ [Next]_vars => MadeInv'
<1> SUFFICES ASSUME TypeOK, HandlerInv, MadeInv, [Next]_vars, made' PROVE MadeInv'
  BY DEF MadeInv
<1> USE NilAssumption
<1>1. CASE Tick \/ UNCHANGED vars
  <2>1. UNCHANGED <<build, up, file, content, pc, made, cut>>
    BY <1>1 DEF Tick, vars, process, disk, history
  <2> QED
    BY <2>1 DEF MadeInv
<1>2. CASE Boot \/ Stop
  BY <1>2 DEF MadeInv, Boot, Stop, history
<1>3. ASSUME NEW r \in Requests,
             \/ Arrive(r) \/ OpenFile(r) \/ NotExist(r) \/ ReadFails(r)
             \/ BuildShowResponse(r) \/ Reply(r)
      PROVE MadeInv'
  <2>1. UNCHANGED <<build, up, file, content, made, cut>>
    BY <1>3 DEF Arrive, OpenFile, NotExist, ReadFails, BuildShowResponse, Reply,
                process, disk, history
  <2>2. \A q \in Requests : pc[q] \in {"build", "create"} => pc'[q] \in {"build", "create"}
    BY <1>3 DEF TypeOK, Arrive, OpenFile, NotExist, ReadFails, BuildShowResponse,
                Reply, Goto
  <2> QED
    BY <2>1, <2>2 DEF MadeInv
<1>4. ASSUME NEW r \in Requests, ReadFile(r) PROVE MadeInv'
  <2>1. UNCHANGED <<build, up, file, content, made, cut>>
    BY <1>4 DEF ReadFile, process, disk, history
  <2>2. pc[r] = "read" /\ \A q \in Requests \ {r} : pc'[q] = pc[q]
    BY <1>4 DEF TypeOK, ReadFile, Served, Expired, Invalid, Goto
  <2> QED
    BY <2>1, <2>2 DEF MadeInv
<1>5. ASSUME NEW r \in Requests, RemoveInvalid(r) PROVE MadeInv'
  <2>1. /\ UNCHANGED <<build, up, content, made, cut>> /\ file' \in {file, NoFile}
        /\ pc'[r] = "build"
    BY <1>5 DEF TypeOK, RemoveInvalid, Goto, process
  <2>2. NoFile \notin cut
    BY DEF TypeOK
  <2> QED
    BY <2>1, <2>2 DEF MadeInv
<1>6. ASSUME NEW r \in Requests, NEW i \in Inodes, Create(r, i) PROVE MadeInv'
  <2>1. /\ UNCHANGED <<build, up>> /\ file' = i /\ content'[i] = Empty
        /\ i \notin cut' /\ i # NoFile
    BY <1>6 DEF TypeOK, Create, Change, process
  <2>2. up
    BY <1>6 DEF HandlerInv, Create, Goto
  <2> QED
    BY <2>1, <2>2 DEF MadeInv
<1>7. ASSUME NEW r \in Requests, CreateFails(r) \/ WriteFails(r) PROVE MadeInv'
  BY <1>7 DEF CreateFails, WriteFails, WriteLost
<1>8. ASSUME NEW r \in Requests, WriteFile(r) PROVE MadeInv'
  <2>1. UNCHANGED <<build, up, file, made, cut>>
    BY <1>8 DEF WriteFile, process, history
  <2>2. content'[file] = content[file] \/ content'[file] = got[r] \/ file = NoFile
    BY <1>8 DEF TypeOK, WriteFile, Written, Change
  <2>3. got[r].build = build
    BY <1>8 DEF HandlerInv, Readable, WriteFile, Goto
  <2>4. \A q \in Requests : pc[q] \in {"build", "create"} => pc'[q] \in {"build", "create"}
    BY <1>8 DEF TypeOK, WriteFile, Goto
  <2> QED
    BY <2>1, <2>2, <2>3, <2>4 DEF MadeInv
<1> QED
  BY <1>1, <1>2, <1>3, <1>4, <1>5, <1>6, <1>7, <1>8 DEF Next, HandleShow

(* When nobody is about to make a file there is one, and nobody writes it. *)
LEMMA Survives == HandlerInv /\ MadeInv /\ WholeAtRest => FileSurvives
<1> SUFFICES ASSUME HandlerInv, MadeInv, WholeAtRest, made,
                    \A r \in Requests : ~Making(r)
             PROVE  /\ file # NoFile /\ content[file] \in Records
                    /\ content[file].build = build
  BY DEF FileSurvives
<1>1. file # NoFile /\ file \notin cut
  BY DEF MadeInv, Making
<1>2. ~Writing(file)
  BY DEF Writing, Making
<1>3. content[file] \in Records
  BY <1>1, <1>2 DEF WholeAtRest
<1> QED
  BY <1>1, <1>3 DEF MadeInv

(* What the one handler there is does to the file is there when it answers. *)
LEMMA SoloStep ==
    ASSUME TypeOK, HandlerInv, SoloInv, SoloLeavesAnswer, [Next]_vars
    PROVE  SoloInv' /\ SoloLeavesAnswer'
<1> USE NilAssumption
<1>1. CASE Tick \/ UNCHANGED vars
  BY <1>1 DEF SoloInv, SoloLeavesAnswer, Tick, vars, process, disk, history
<1>2. CASE Boot
  BY <1>2 DEF TypeOK, HandlerInv, SoloInv, SoloLeavesAnswer, Boot, disk, history
<1>3. CASE Stop
  BY <1>3 DEF SoloInv, SoloLeavesAnswer, Stop
<1>4. ASSUME NEW r \in Requests, Arrive(r) PROVE SoloInv' /\ SoloLeavesAnswer'
  BY <1>4 DEF TypeOK, SoloInv, SoloLeavesAnswer, Arrive, Goto
<1>5. ASSUME NEW r \in Requests, OpenFile(r) \/ NotExist(r)
      PROVE SoloInv' /\ SoloLeavesAnswer'
  BY <1>5 DEF TypeOK, SoloInv, SoloLeavesAnswer, OpenFile, NotExist, Goto, disk, history
<1>6. ASSUME NEW r \in Requests, ReadFails(r) \/ CreateFails(r) \/ Reply(r) \/ WriteFails(r)
      PROVE SoloInv' /\ SoloLeavesAnswer'
  <2>1. solo = r \/ solo = NoRequest
    BY <1>6 DEF TypeOK, SoloInv, ReadFails, CreateFails, Reply, WriteFails, Goto
  <2>2. solo' = NoRequest
    BY <1>6, <2>1 DEF ReadFails, CreateFails, Reply, WriteFails, WriteLost, Parted
  <2> QED
    BY <2>2 DEF SoloInv, SoloLeavesAnswer
<1>7. ASSUME NEW r \in Requests, ReadFile(r) PROVE SoloInv' /\ SoloLeavesAnswer'
  <2>1. PICK data \in ReadResults(r) :
            /\ Served(r, data) \/ Expired(r, data) \/ Invalid(r, data)
            /\ got' = [got EXCEPT ![r] = data]
    BY <1>7 DEF ReadFile
  <2>2. pc[r] = "read" /\ UNCHANGED <<build, file, content, solo>>
    BY <1>7 DEF ReadFile, process, disk, history
  <2>3. /\ pc' = [pc EXCEPT ![r] = pc'[r]]
        /\ pc'[r] \in {"reply", "build", "remove"}
        /\ pc'[r] = "reply" => data.build = build
    BY <2>1 DEF TypeOK, Served, Expired, Invalid, Goto, Readable
  <2>4. solo = r => file # NoFile /\ content[file] = data
    BY <2>1, <2>2 DEF TypeOK, SoloInv, ReadResults
  <2> QED
    BY <2>1, <2>2, <2>3, <2>4 DEF TypeOK, SoloInv, SoloLeavesAnswer
<1>8. ASSUME NEW r \in Requests, RemoveInvalid(r) PROVE SoloInv' /\ SoloLeavesAnswer'
  <2>1. solo' # NoRequest => solo = r /\ solo' = r
    BY <1>8 DEF TypeOK, SoloInv, RemoveInvalid, Goto, Parted
  <2>2. pc'[r] = "build"
    BY <1>8 DEF TypeOK, RemoveInvalid, Goto
  <2>3. \A q \in Requests \ {r} : pc'[q] = pc[q]
    BY <1>8 DEF TypeOK, RemoveInvalid, Goto
  <2> QED
    BY <2>1, <2>2, <2>3 DEF SoloInv, SoloLeavesAnswer
<1>9. ASSUME NEW r \in Requests, BuildShowResponse(r)
      PROVE SoloInv' /\ SoloLeavesAnswer'
  BY <1>9 DEF TypeOK, SoloInv, SoloLeavesAnswer, BuildShowResponse, Goto, disk, history
<1>10. ASSUME NEW r \in Requests, NEW i \in Inodes, Create(r, i)
       PROVE SoloInv' /\ SoloLeavesAnswer'
  BY <1>10 DEF TypeOK, SoloInv, SoloLeavesAnswer, Create, Goto
<1>11. ASSUME NEW r \in Requests, WriteFile(r) PROVE SoloInv' /\ SoloLeavesAnswer'
  <2>1. got[r].build = build
    BY <1>11 DEF HandlerInv, Readable, WriteFile, Goto
  <2>2. pc' = [pc EXCEPT ![r] = "reply"] /\ UNCHANGED <<build, file, got, solo>>
    BY <1>11 DEF WriteFile, Goto, process, history
  <2>3. fd[r] \in Inodes /\ content'[fd[r]] = got[r]
    BY <1>11 DEF TypeOK, HandlerInv, WriteFile, Written, Change, Goto
  <2>4. solo # NoRequest => solo = r /\ file = fd[r]
    BY <1>11 DEF TypeOK, SoloInv, WriteFile, Goto
  <2> QED
    BY <2>1, <2>2, <2>3, <2>4 DEF TypeOK, SoloInv, SoloLeavesAnswer
<1> QED
  BY <1>1, <1>2, <1>3, <1>4, <1>5, <1>6, <1>7, <1>8, <1>9, <1>10, <1>11
     DEF Next, HandleShow

(* Inv is an invariant of the cache file of /api/show. *)
THEOREM Invariance == Spec => []Inv
<1> DEFINE IInv == /\ TypeOK /\ HandlerInv /\ MadeInv /\ SoloInv
                   /\ WholeAtRest /\ SoloLeavesAnswer
<1>1. Init => IInv
  <2> SUFFICES ASSUME Init PROVE IInv
    OBVIOUS
  <2>1. TypeOK
    <3>1. now \in Times
      BY LeaseAssumption DEF Init, Times
    <3>2. Empty \in Contents
      BY DEF Contents
    <3> QED
      BY <3>1, <3>2 DEF Init, TypeOK
  <2>2. HandlerInv /\ MadeInv /\ SoloInv /\ WholeAtRest /\ SoloLeavesAnswer
    BY NilAssumption DEF Init, HandlerInv, MadeInv, SoloInv, WholeAtRest, SoloLeavesAnswer
  <2> QED
    BY <2>1, <2>2
<1>2. IInv /\ [Next]_vars => IInv'
  BY TypeStep, HandlerStep, MadeStep, WholeStep, SoloStep
<1>3. IInv => Inv
  BY Survives DEF Inv
<1> QED
  BY <1>1, <1>2, <1>3, PTL DEF Spec

(* A file under the path that is no record has a writer or is known to be cut,
   however many handlers share its inode (Write 152).                        *)
THEOREM FileWhole == Spec => []WholeAtRest
<1>1. Inv => WholeAtRest
  BY DEF Inv
<1> QED
  BY <1>1, Invariance, PTL

(* Once this process has begun a file and no write has failed since, there is a
   whole one of this build whenever nobody is about to make one, whatever the
   handlers have removed under each other (removeInvalid 38, handleShow 98-106). *)
THEOREM FileIsThere == Spec => []FileSurvives
<1>1. Inv => FileSurvives
  BY DEF Inv
<1> QED
  BY <1>1, Invariance, PTL

(* A request that meets no other and no fault leaves its answer in the file, in
   a form this build reads, whatever it has found there (handleShow 97-110).  *)
THEOREM SoloHeals == Spec => []SoloLeavesAnswer
<1>1. Inv => SoloLeavesAnswer
  BY DEF Inv
<1> QED
  BY <1>1, Invariance, PTL
=============================================================================
