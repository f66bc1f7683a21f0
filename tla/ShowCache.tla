------------------------------ MODULE ShowCache ------------------------------
(***************************************************************************)
(* POST /api/show over its cache file.  Unlike the model list, the file of  *)
(* a model is used without any lock: requests for one model read, remove,   *)
(* create, truncate and write show_<hash>.bin beside each other, in place.  *)
(* One model is enough, another model has another file.                     *)
(*                                                                          *)
(* The file system: a path names an inode or nothing; a process that has    *)
(* opened an inode keeps it when the path is removed; opening for writing   *)
(* truncates the inode the path names, or makes one.  A read takes time:    *)
(* when the inode has changed meanwhile it returns one of the contents there *)
(* were, or a mixture, which no check of Read accepts.  One write replaces   *)
(* the whole content, as the records of one model all have the same length.  *)
(*                                                                          *)
(* Data: a record is the build whose hash salts its key, when its response  *)
(* was made, and its lease.                                                 *)
(***************************************************************************)
EXTENDS Integers

CONSTANTS Requests,     \* handlers of POST /api/show for the model
          Inodes,
          Builds,       \* values of target.GlobalHash
          Leases,       \* values of --show-ttl
          MaxLease,     \* the longest of them
          MaxTime,      \* bound of the model
          NoRequest, NoFile, Empty, Bad

Times   == 0..MaxTime
Records == [build : Builds, born : Times, lease : Leases]

ASSUME LeaseAssumption == /\ MaxTime \in Nat /\ MaxLease \in Nat
                          /\ Leases \subseteq 1..MaxLease
ASSUME NilAssumption   == /\ NoRequest \notin Requests /\ NoFile \notin Inodes
                          /\ Empty \notin Records /\ Bad \notin Records

VARIABLES
    now,       \* the clock
    up,        \* a process runs
    build,     \* its target.GlobalHash
    showTTL,   \* its --show-ttl
    file,      \* the inode show_<hash>.bin names, or NoFile
    content,   \* of each inode: a record, Empty (truncated) or Bad
    pc,        \* where each handler is
    fd,        \* the inode each handler has open, or NoFile
    seen,      \* the contents its inode has had since a reader opened it
    got,       \* what it has read, or the response it has made
    made,      \* history: this process has begun a file, and no fault since
    solo,      \* history: the handler that has met no other and no fault, or NoRequest
    cut        \* history: inodes a write of which has failed or was cut short

process == <<up, build, showTTL>>
disk == <<file, content>>
history == <<made, solo, cut>>
vars == <<now, process, disk, pc, fd, seen, got, history>>

-----------------------------------------------------------------------------
(* Read returns an object: magic, key, integrity and gob are all in order.  The
   key is salted with the build.                                             *)
Readable_AnyBuild(data) == data \in Records
Readable(data) == data \in Records /\ data.build = build

Writing(i) == \E r \in Requests : pc[r] = "write" /\ fd[r] = i
Open(i)    == \E r \in Requests : fd[r] = i

Init == /\ now = 0 /\ up = FALSE /\ build \in Builds /\ showTTL \in Leases
        /\ file = NoFile
        /\ content = [i \in Inodes |-> Empty]
        /\ pc = [r \in Requests |-> "idle"]
        /\ fd = [r \in Requests |-> NoFile]
        /\ seen = [r \in Requests |-> {}]
        /\ got = [r \in Requests |-> Empty]
        /\ made = FALSE /\ solo = NoRequest /\ cut = {}

Tick == /\ now < MaxTime
        /\ now' = now + 1
        /\ UNCHANGED <<process, disk, pc, fd, seen, got, history>>

(* The process starts, of this build or another, with this lease or another. *)
Boot == /\ ~up /\ up' = TRUE
        /\ build' \in Builds /\ showTTL' \in Leases
        /\ UNCHANGED <<now, disk, pc, fd, seen, got, history>>

(* The process stops; a write under way may have got half way. *)
Stop == /\ up /\ up' = FALSE
        /\ pc' = [r \in Requests |-> "idle"]
        /\ fd' = [r \in Requests |-> NoFile]
        /\ seen' = [r \in Requests |-> {}]
        /\ got' = [r \in Requests |-> Empty]
        /\ \E torn \in SUBSET {i \in Inodes : Writing(i)} :
              content' = [i \in Inodes |-> IF i \in torn THEN Bad ELSE content[i]]
        /\ made' = FALSE /\ solo' = NoRequest
        /\ cut' = cut \cup {i \in Inodes : Writing(i)}
        /\ UNCHANGED <<now, build, showTTL, file>>

-----------------------------------------------------------------------------
(* handleShow. *)

Goto(r, here, there) == pc[r] = here /\ pc' = [pc EXCEPT ![r] = there]

Close(r)   == fd' = [fd EXCEPT ![r] = NoFile]
EndRead(r) == Close(r) /\ seen' = [seen EXCEPT ![r] = {}]

(* The content of an inode changes, before the eyes of those who read it. *)
Reads(r, i) == pc[r] = "read" /\ fd[r] = i
Change(i, data) ==
    /\ content' = [content EXCEPT ![i] = data]
    /\ seen' = [r \in Requests |-> IF Reads(r, i) THEN seen[r] \cup {data} ELSE seen[r]]

Parted(r) == solo' = IF solo = r THEN NoRequest ELSE solo
WriteLost(r) == Parted(r) /\ made' = FALSE

Arrive(r) ==
    /\ up /\ Goto(r, "idle", "open")
    /\ solo' = IF \A q \in Requests : pc[q] = "idle" THEN r ELSE NoRequest
    /\ UNCHANGED <<now, process, disk, fd, seen, got, made, cut>>

(* os.ReadFile opens the file and begins to read. *)
OpenFile(r) ==
    /\ file # NoFile
    /\ Goto(r, "open", "read")
    /\ fd' = [fd EXCEPT ![r] = file]
    /\ seen' = [seen EXCEPT ![r] = {content[file]}]
    /\ UNCHANGED <<now, process, disk, got, history>>

(* There is no file: a miss. *)
NotExist(r) ==
    /\ file = NoFile
    /\ Goto(r, "open", "build")
    /\ UNCHANGED <<now, process, disk, fd, seen, got, history>>

(* os.ReadFile fails in another way: a miss, the file stays. *)
ReadFails(r) ==
    /\ Goto(r, "open", "build") \/ Goto(r, "read", "build")
    /\ EndRead(r) /\ Parted(r)
    /\ UNCHANGED <<now, process, disk, got, made, cut>>

(* What the read returns: the content, or if that has changed one of those there
   were or a mixture of them.                                                *)
ReadResults(r) == IF seen[r] = {content[fd[r]]} THEN seen[r] ELSE seen[r] \cup {Bad}

(* A record within its lease is answered, a record beyond it is a miss, and
   anything else is removed first.                                           *)
Served(r, data) ==
    Readable(data) /\ now < data.born + data.lease /\ Goto(r, "read", "reply")
Expired(r, data) ==
    Readable(data) /\ now >= data.born + data.lease /\ Goto(r, "read", "build")
Invalid(r, data) ==
    ~Readable(data) /\ Goto(r, "read", "remove")

ReadFile(r) ==
    /\ pc[r] = "read"
    /\ \E data \in ReadResults(r) :
          /\ Served(r, data) \/ Expired(r, data) \/ Invalid(r, data)
          /\ got' = [got EXCEPT ![r] = data]
    /\ EndRead(r)
    /\ UNCHANGED <<now, process, disk, history>>

(* removeInvalid: the path goes, whatever it names by now. *)
RemoveInvalid(r) ==
    /\ Goto(r, "remove", "build")
    /\ \/ file' = NoFile /\ UNCHANGED solo
       \/ UNCHANGED file /\ Parted(r)
    /\ UNCHANGED <<now, process, content, fd, seen, got, made, cut>>

(* buildShowResponse, and the record WriteShow makes of it. *)
BuildShowResponse(r) ==
    /\ Goto(r, "build", "create")
    /\ got' = [got EXCEPT ![r] = [build |-> build, born |-> now, lease |-> showTTL]]
    /\ UNCHANGED <<now, process, disk, fd, seen, history>>

(* os.WriteFile opens: the inode there is, or a new one, truncated. *)
Create_UnlessWriting(r, i) ==
    \/ /\ \E q \in Requests : pc[q] = "write"
       /\ Goto(r, "create", "reply")
       /\ UNCHANGED <<now, process, disk, fd, seen, got, history>>
    \/ /\ \A q \in Requests : pc[q] # "write"
       /\ IF file = NoFile THEN ~Open(i) ELSE i = file
       /\ Goto(r, "create", "write")
       /\ file' = i
       /\ fd' = [fd EXCEPT ![r] = i]
       /\ Change(i, Empty)
       /\ made' = TRUE /\ cut' = cut \ {i}
       /\ UNCHANGED <<now, process, got, solo>>
Create(r, i) ==
    /\ IF file = NoFile THEN ~Open(i) ELSE i = file
    /\ Goto(r, "create", "write")
    /\ file' = i
    /\ fd' = [fd EXCEPT ![r] = i]
    /\ Change(i, Empty)
    /\ made' = TRUE /\ cut' = cut \ {i}
    /\ UNCHANGED <<now, process, got, solo>>

CreateFails(r) ==
    /\ Goto(r, "create", "reply")
    /\ WriteLost(r)
    /\ UNCHANGED <<now, process, disk, fd, seen, got, cut>>

(* os.WriteFile writes at offset 0 of the inode it has opened. *)
Written_Appended(r) == IF content[fd[r]] = Empty THEN got[r] ELSE Bad
Written(r) == got[r]
WriteFile(r) ==
    /\ Goto(r, "write", "reply")
    /\ Change(fd[r], Written(r))
    /\ Close(r)
    /\ UNCHANGED <<now, process, file, got, history>>

(* A write that fails has written nothing or a part; the error is logged. *)
WriteFails(r) ==
    /\ Goto(r, "write", "reply")
    /\ UNCHANGED <<content, seen>> \/ Change(fd[r], Bad)
    /\ Close(r) /\ WriteLost(r)
    /\ cut' = cut \cup {fd[r]}
    /\ UNCHANGED <<now, process, file, got>>

(* The response is written to the client. *)
Reply(r) ==
    /\ Goto(r, "reply", "idle")
    /\ got' = [got EXCEPT ![r] = Empty]
    /\ Parted(r)
    /\ UNCHANGED <<now, process, disk, fd, seen, made, cut>>

-----------------------------------------------------------------------------
HandleShow(r) ==
    \/ Arrive(r) \/ OpenFile(r) \/ NotExist(r) \/ ReadFails(r) \/ ReadFile(r)
    \/ RemoveInvalid(r) \/ BuildShowResponse(r)
    \/ \E i \in Inodes : Create(r, i)
    \/ CreateFails(r) \/ WriteFile(r) \/ WriteFails(r) \/ Reply(r)

Next == Tick \/ Boot \/ Stop \/ \E r \in Requests : HandleShow(r)

Spec == Init /\ [][Next]_vars

-----------------------------------------------------------------------------
(* Properties. *)

Contents == Records \cup {Empty, Bad}

TypeOK == /\ now \in Times
          /\ up \in BOOLEAN /\ build \in Builds /\ showTTL \in Leases
          /\ file \in Inodes \cup {NoFile}
          /\ content \in [Inodes -> Contents]
          /\ pc \in [Requests -> {"idle", "open", "read", "remove", "build",
                                  "create", "write", "reply"}]
          /\ fd \in [Requests -> Inodes \cup {NoFile}]
          /\ seen \in [Requests -> SUBSET Contents]
          /\ got \in [Requests -> Contents]
          /\ made \in BOOLEAN
          /\ solo \in Requests \cup {NoRequest}
          /\ cut \subseteq Inodes

(* What is no record under the path is being written, unless a write has failed
   or was cut: writers that share an inode leave it whole (Write 152).       *)
WholeAtRest == file # NoFile /\ content[file] \notin Records =>
    Writing(file) \/ file \in cut

(* The file survives its handlers.  A handler that has read a file half written
   removes the path, which may by then name the whole file of another, or one
   that another has open; what that one writes is lost with it.  Still, once
   this process has begun a file and no write has failed since, there is a whole
   file of this build whenever nobody is about to make one: whoever removed the
   path makes it anew (removeInvalid 38, handleShow 98-106).                  *)
Making(r) == pc[r] \in {"build", "create", "write"}
FileSurvives == made /\ (\A r \in Requests : ~Making(r)) =>
    file # NoFile /\ content[file] \in Records /\ content[file].build = build

(* Whatever others have left behind, a torn file or one of another build among
   it, a request that meets no other and no fault leaves in the file what it
   answers, as this build reads it, so the next one hits (handleShow 97-110).  *)
SoloLeavesAnswer == solo # NoRequest /\ pc[solo] = "reply" =>
    file # NoFile /\ content[file] = got[solo] /\ content[file].build = build

-----------------------------------------------------------------------------
(* The inductive invariant. *)

(* A handler has its file open, and carries the running build's record once it
   has made or accepted one; no process, no handlers.                        *)
HandlerInv == \A r \in Requests :
    /\ fd[r] \in Inodes <=> pc[r] \in {"read", "write"}
    /\ pc[r] \in {"create", "write", "reply"} => Readable(got[r])
    /\ ~up => pc[r] = "idle"

(* A file begun by this process and not failed since is not known to be cut, and
   no record of another build; when it has been removed its maker is at work.   *)
MadeInv == made =>
    /\ up /\ file \notin cut
    /\ file # NoFile /\ content[file] \in Records => content[file].build = build
    /\ file = NoFile => \E r \in Requests : pc[r] \in {"build", "create"}

(* The others of a request that has met nobody are idle, so it knows what is in
   the file it reads, and the file it writes is the one under the path.       *)
SoloInv == solo # NoRequest =>
    /\ \A q \in Requests \ {solo} : pc[q] = "idle"
    /\ pc[solo] # "idle"
    /\ pc[solo] = "read" => /\ file # NoFile /\ fd[solo] = file
                            /\ seen[solo] = {content[file]}
    /\ pc[solo] = "write" => file = fd[solo]

Inv == /\ TypeOK /\ HandlerInv /\ MadeInv /\ SoloInv
       /\ WholeAtRest /\ FileSurvives /\ SoloLeavesAnswer
=============================================================================
