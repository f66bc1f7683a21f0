---------------------------- MODULE StreamProofs ----------------------------
(* Stream proved for every script, channel capacity and idle timeout: its
   types, that the client sees the content in order and all of it unless the
   answer is cut, and that no reader goroutine is left blocked behind a
   handler.                                                                  *)
EXTENDS Stream, TLAPS

(* Closing or breaking the body leaves at most what was sent, and at least
   what was scanned.                                                         *)
LEMMA KillType ==
    ASSUME TypeOK, Kill
    PROVE  /\ script' = script /\ sent' = sent
           /\ avail' \in scanned..sent /\ body' \in {"open", "eof", "dead"}
BY ScriptsAssumption DEF TypeOK, Kill

(* A sequence over the lines scanned so far is one over more of them. *)
LEMMA SeqGrows ==
    ASSUME NEW n \in Nat, NEW S, NEW s \in Seq(S \cup 1..n)
    PROVE  s \in Seq(S \cup 1..(n + 1))
<1>1. \A i \in 1..Len(s) : s[i] \in S \cup 1..(n + 1)
  OBVIOUS
<1> QED
  BY <1>1

(* What a line of the script is. *)
LEMMA ScriptType ==
    ASSUME TypeOK
    PROVE  /\ Len(script) \in Nat /\ sent \in Nat /\ avail \in Nat /\ scanned \in Nat
           /\ \A i \in 1..Len(script) : script[i] \in Kinds
BY ScriptsAssumption DEF TypeOK

(* Every variable keeps its type; the channel never overflows. *)
LEMMA TypeStep == TypeOK /\ EndInv /\ [Next]_vars => TypeOK'
<1> SUFFICES ASSUME TypeOK, EndInv, [Next]_vars PROVE TypeOK'
  OBVIOUS
<1> USE SizesAssumption DEF upstream, rvars, tvars, hvars, cvars, Final, DoneEvent, ErrEvent
<1>0. /\ Len(script) \in Nat /\ sent \in Nat /\ avail \in Nat /\ scanned \in Nat
      /\ sent <= Len(script) /\ avail <= sent /\ scanned <= avail
  BY ScriptType DEF TypeOK
<1>1. CASE UpstreamSends
  BY <1>0, <1>1 DEF TypeOK, UpstreamSends
<1>2. CASE UpstreamEnds
  BY <1>2 DEF TypeOK, UpstreamEnds
<1>3. CASE UpstreamBreaks
  BY <1>0, <1>3, KillType DEF TypeOK, UpstreamBreaks
<1>4. CASE ClientReads
  BY <1>4 DEF TypeOK, ClientReads
<1>5. CASE ClientLeaves
  BY <1>0, <1>5, KillType DEF TypeOK, ClientLeaves
<1>6. CASE Tick
  BY <1>6 DEF TypeOK, Tick
<1>7. CASE TimerFires
  BY <1>7 DEF TypeOK, TimerFires
<1>8. CASE TimerCloses
  <2>1. cut' \in BOOLEAN
    BY <1>8 DEF TypeOK, TimerCloses
  <2> QED
    BY <1>0, <1>8, <2>1, KillType DEF TypeOK, TimerCloses
<1>9. CASE ScanLine
  <2>1. scanned' = scanned + 1 /\ scanned < avail /\ UNCHANGED <<upstream, ch, hvars>>
    BY <1>9 DEF ScanLine
  <2>2. reader' \in {"scan", "send"} /\ event' \in {event, DoneEvent, scanned + 1}
    BY <1>9 DEF ScanLine, Emit, TypeOK
  <2>3. /\ ch \in Seq(Final \cup 1..(scanned + 1))
        /\ written \in Seq({} \cup 1..(scanned + 1))
    BY <1>0, SeqGrows DEF TypeOK
  <2>4. timer' \in {"off", "armed", "fired"} /\ age' \in 0..Idle
    BY <1>9 DEF ScanLine, ResetTimer, TypeOK
  <2>5. UNCHANGED <<silence, unread, client, cut>>
    BY <1>9 DEF ScanLine
  <2> QED
    BY <1>0, <2>1, <2>2, <2>3, <2>4, <2>5 DEF TypeOK
<1>10. CASE ScanFails
  <2>1. cut' \in BOOLEAN
    BY <1>10 DEF TypeOK, ScanFails
  <2> QED
    BY <1>10, <2>1 DEF TypeOK, ScanFails, Emit
<1>11. CASE ScanEnds \/ Leave
  BY <1>11 DEF TypeOK, ScanEnds, Leave
<1>12. CASE SendEvent
  BY <1>0, <1>12 DEF TypeOK, SendEvent
<1>13. CASE Receive
  <2>1. /\ Head(ch) \in Final \cup 1..scanned /\ Len(Tail(ch)) <= Cap
        /\ Tail(ch) \in Seq(Final \cup 1..scanned)
    BY <1>0, <1>13 DEF TypeOK, Receive
  <2>2. finish' \in BOOLEAN
    BY <1>13 DEF TypeOK, Receive
  <2>3. handler' \in {"recv", "write", "final"}
    BY <1>13 DEF Receive, After
  <2> QED
    BY <1>13, <2>1, <2>2, <2>3 DEF TypeOK, Receive
<1>14. CASE Drained
  BY <1>14 DEF TypeOK, Drained
<1>15. CASE WriteChunk
  <2>1. chunk \in 1..scanned
    BY <1>15 DEF TypeOK, EndInv, WriteChunk
  <2> QED
    BY <1>0, <1>15, <2>1 DEF TypeOK, WriteChunk, AfterWrite, CanWrite, Written
<1>16. CASE WriteFinal
  <2>1. unread' \in 0..Socket
    BY <1>16 DEF TypeOK, WriteFinal, CanWrite, Written
  <2> QED
    BY <1>0, <1>16, <2>1, KillType DEF TypeOK, WriteFinal
<1>17. CASE UNCHANGED vars
  BY <1>17 DEF TypeOK, vars
<1> QED
  BY <1>1, <1>2, <1>3, <1>4, <1>5, <1>6, <1>7, <1>8, <1>9, <1>10, <1>11, <1>12,
     <1>13, <1>14, <1>15, <1>16, <1>17 DEF Next, Reader, Timer, Handler, Client, World

-----------------------------------------------------------------------------
(* A line of data is not one of the events that end the stream. *)
LEMMA DataIsNotFinal ==
    ASSUME TypeOK PROVE scanned + 1 \notin Final
BY ScriptType DEF Final, DoneEvent, ErrEvent

(* The steps that leave the way of the lines alone. *)
Aside == World \/ Timer \/ Client \/ UNCHANGED vars
LEMMA AsideStep ==
    ASSUME Aside
    PROVE  UNCHANGED <<script, scanned, reader, event, ch, handler, chunk, finish, written>>
BY DEF Aside, World, UpstreamSends, UpstreamEnds, UpstreamBreaks, Tick, Timer, TimerFires,
       TimerCloses, Client, ClientReads, ClientLeaves, Kill, vars, upstream, rvars, hvars

(* What Receive takes is the first event, and the rest moves up. *)
LEMMA ReceiveStep ==
    ASSUME TypeOK, Receive
    PROVE  /\ handler = "recv" /\ 1 \in 1..Len(ch)
           /\ chunk' = ch[1] /\ handler' = After(ch[1])
           /\ Len(ch') = Len(ch) - 1
           /\ \A n \in 1..Len(ch') : n + 1 \in 1..Len(ch) /\ ch'[n] = ch[n + 1]
           /\ UNCHANGED <<script, scanned, reader, event, written>>
BY DEF Receive, TypeOK, upstream, rvars

(* The reader sends nothing after an event that ends the stream, and the
   handler leaves its loop only upon such an event or the closed channel.    *)
LEMMA EndStep == TypeOK /\ EndInv /\ NoLeak /\ [Next]_vars => EndInv' /\ NoLeak'
<1> SUFFICES ASSUME TypeOK, EndInv, NoLeak, [Next]_vars PROVE EndInv' /\ NoLeak'
  OBVIOUS
<1> USE DEF upstream, rvars, tvars, hvars, cvars
<1>1. CASE Aside
  BY <1>1, AsideStep DEF EndInv, NoLeak
<1>2. CASE ScanLine
  <2>1. reader = "scan" /\ UNCHANGED <<ch, handler, chunk>>
    BY <1>2 DEF ScanLine
  <2> QED
    BY <2>1 DEF EndInv, NoLeak
<1>3. CASE ScanFails \/ ScanEnds \/ Leave
  BY <1>3 DEF EndInv, NoLeak, ScanFails, ScanEnds, Leave, Emit
<1>4. CASE SendEvent
  <2>1. /\ reader = "send" /\ ch' = Append(ch, event) /\ UNCHANGED <<handler, chunk>>
        /\ reader' = IF event \in Final THEN "leave" ELSE "scan"
    BY <1>4 DEF SendEvent
  <2>2. \A n \in 1..Len(ch) : ch[n] \notin Final
    BY <2>1 DEF EndInv
  <2>3. \A n \in 1..Len(ch') : ch'[n] \in Final => event \in Final /\ n = Len(ch')
    BY <2>1, <2>2 DEF TypeOK
  <2> QED
    BY <2>1, <2>3 DEF EndInv, NoLeak
<1>5. CASE Receive
  <2>1. handler' \in {"final", "returned"} => ch[1] \in Final
    BY <1>5, ReceiveStep DEF After
  <2>2. handler' = "write" => chunk' \notin Final
    BY <1>5, ReceiveStep DEF After
  <2>3. ch[1] \in Final => Len(ch) = 1 /\ reader \in {"leave", "gone"}
    BY <1>5, ReceiveStep DEF EndInv
  <2>4. ch[1] \in Final => ch' = <<>>
    <3> DEFINE S == Final \cup 1..scanned
    <3>1. ch \in Seq(S) /\ ch # <<>> /\ ch' = Tail(ch)
      BY <1>5 DEF Receive, TypeOK
    <3> HIDE DEF S
    <3>2. ch' \in Seq(S)
      BY <3>1
    <3>3. ch[1] \in Final => Len(ch') = 0
      BY <1>5, <2>3, ReceiveStep
    <3> QED
      BY <3>2, <3>3
  <2>5. \A n \in 1..Len(ch') : ch'[n] \in Final => n = Len(ch') /\ reader' \in {"leave", "gone"}
    <3>1. Len(ch) \in Nat
      BY DEF TypeOK
    <3>2. \A n \in 1..Len(ch) : ch[n] \in Final => n = Len(ch) /\ reader \in {"leave", "gone"}
      BY DEF EndInv
    <3>3. /\ Len(ch') = Len(ch) - 1 /\ UNCHANGED reader
          /\ \A n \in 1..Len(ch') : n + 1 \in 1..Len(ch) /\ ch'[n] = ch[n + 1]
      BY <1>5, ReceiveStep
    <3> QED
      BY <3>1, <3>2, <3>3
  <2> QED
    BY <1>5, <2>1, <2>2, <2>3, <2>4, <2>5, ReceiveStep DEF EndInv, NoLeak
<1>6. CASE Drained \/ WriteChunk \/ WriteFinal
  BY <1>6 DEF EndInv, NoLeak, Drained, WriteChunk, AfterWrite, WriteFinal
<1> QED
  BY <1>1, <1>2, <1>3, <1>4, <1>5, <1>6 DEF Next, Reader, Handler, Aside

-----------------------------------------------------------------------------
(* The scanner stops at [DONE], at the end of what there is, or at a cut, and
   only the end of the handler closes the body without one.                  *)
LEMMA ScanStep == TypeOK /\ NoLeak /\ ScanInv /\ [Next]_vars => ScanInv'
<1> SUFFICES ASSUME TypeOK, NoLeak, ScanInv, [Next]_vars PROVE ScanInv'
  OBVIOUS
<1> USE DEF upstream, rvars, tvars, hvars, cvars
<1>0. /\ Len(script) \in Nat /\ sent \in Nat /\ avail \in Nat /\ scanned \in Nat
      /\ sent <= Len(script) /\ avail <= sent /\ scanned <= avail
  BY ScriptType DEF TypeOK
<1>1. CASE UpstreamSends
  BY <1>0, <1>1 DEF ScanInv, UpstreamSends
<1>2. CASE UpstreamEnds
  BY <1>2 DEF ScanInv, UpstreamEnds
<1>3. CASE UpstreamBreaks \/ ClientLeaves
  BY <1>3 DEF ScanInv, UpstreamBreaks, ClientLeaves, Kill
<1>4. CASE ClientReads \/ Tick \/ TimerFires \/ Receive \/ Drained \/ UNCHANGED vars
  BY <1>4 DEF ScanInv, ClientReads, Tick, TimerFires, Receive, Drained, After, vars
<1>5. CASE TimerCloses
  <2>1. UNCHANGED <<script, sent, scanned, reader, event, handler>> /\ (cut => cut')
    BY <1>5 DEF TimerCloses, Kill
  <2>2. \/ UNCHANGED <<body, avail>>
        \/ body' = "dead" /\ cut'
    BY <1>5 DEF TimerCloses, Kill
  <2> QED
    BY <2>1, <2>2 DEF ScanInv
<1>6. CASE ScanLine
  <2>1. /\ reader = "scan" /\ scanned' = scanned + 1
        /\ UNCHANGED <<script, sent, avail, body, handler, cut>>
    BY <1>6 DEF ScanLine
  <2>2. \/ script[scanned + 1] # "done" /\ UNCHANGED <<reader, event>>
        \/ script[scanned + 1] = "done" /\ reader' = "send" /\ event' = DoneEvent
        \/ script[scanned + 1] # "done" /\ reader' = "send" /\ event' = scanned + 1
    BY <1>6 DEF ScanLine, Emit
  <2>3. \A d \in 1..scanned' : script[d] = "done" => d = scanned' /\ reader' # "scan"
    BY <1>0, <2>1, <2>2 DEF ScanInv
  <2>4. reader' \notin {"leave", "gone"}
    BY <2>1, <2>2
  <2>5. reader' = "send" /\ event' \in Final => script[scanned'] = "done" /\ scanned' \in 1..scanned'
    BY <1>0, <2>1, <2>2, DataIsNotFinal
  <2>6. reader' = "send" /\ event' \notin Final => event' = scanned' /\ script[event'] # "done"
    BY <2>1, <2>2 DEF Final
  <2>7. IF body' = "dead" THEN cut' \/ handler' = "returned" ELSE avail' = sent'
    BY <2>1 DEF ScanInv
  <2> QED
    BY <2>1, <2>3, <2>4, <2>5, <2>6, <2>7 DEF ScanInv
<1>7. CASE ScanFails
  <2>1. /\ reader = "scan" /\ reader' = "send" /\ event' = ErrEvent /\ ErrEvent \in Final
        /\ UNCHANGED <<script, sent, avail, body, scanned, handler>>
    BY <1>7 DEF ScanFails, Emit, Final
  <2>2. handler # "returned"
    BY <2>1 DEF NoLeak
  <2>3. cut' /\ (cut => cut')
    BY <1>7, <2>2 DEF ScanInv, ScanFails
  <2> QED
    BY <2>1, <2>2, <2>3 DEF ScanInv
<1>8. CASE ScanEnds
  BY <1>8 DEF ScanInv, ScanEnds
<1>9. CASE Leave
  BY <1>9 DEF ScanInv, Leave
<1>10. CASE SendEvent
  BY <1>10 DEF ScanInv, SendEvent
<1>11. CASE WriteChunk
  BY <1>11 DEF ScanInv, WriteChunk, AfterWrite
<1>12. CASE WriteFinal
  BY <1>12 DEF ScanInv, WriteFinal, Kill
<1> QED
  BY <1>1, <1>2, <1>3, <1>4, <1>5, <1>6, <1>7, <1>8, <1>9, <1>10, <1>11, <1>12
     DEF Next, Reader, Timer, Handler, Client, World

-----------------------------------------------------------------------------
(* The timer goes off for good only with the body or with the reader. *)
LEMMA TimerStep == TypeOK /\ TimerInv /\ [Next]_vars => TimerInv'
<1> SUFFICES ASSUME TypeOK, TimerInv, [Next]_vars PROVE TimerInv'
  OBVIOUS
<1> USE DEF TimerInv, upstream, rvars, tvars, hvars, cvars
<1>1. CASE UpstreamSends \/ UpstreamEnds \/ ClientReads \/ Tick
  BY <1>1 DEF UpstreamSends, UpstreamEnds, ClientReads, Tick
<1>2. CASE UpstreamBreaks \/ ClientLeaves \/ TimerCloses \/ WriteFinal
  BY <1>2 DEF UpstreamBreaks, ClientLeaves, TimerCloses, WriteFinal, Kill
<1>3. CASE TimerFires
  BY <1>3 DEF TimerFires
<1>4. CASE ScanLine
  BY <1>4 DEF ScanLine, ResetTimer
<1>5. CASE ScanFails \/ ScanEnds \/ SendEvent
  BY <1>5 DEF ScanFails, ScanEnds, SendEvent, Emit
<1>6. CASE Leave
  BY <1>6 DEF Leave
<1>7. CASE Receive \/ Drained \/ WriteChunk \/ UNCHANGED vars
  BY <1>7 DEF Receive, Drained, WriteChunk, vars
<1> QED
  BY <1>1, <1>2, <1>3, <1>4, <1>5, <1>6, <1>7
     DEF Next, Reader, Timer, Handler, Client, World

-----------------------------------------------------------------------------
(* The elements of a sequence, after an Append too. *)
LEMMA Elements ==
    ASSUME NEW S, NEW s \in Seq(S)
    PROVE  /\ ToSet(s) = {s[n] : n \in 1..Len(s)}
           /\ ToSet(s) \subseteq S
BY DEF ToSet

LEMMA ElementsAppend ==
    ASSUME NEW S, NEW s \in Seq(S), NEW e \in S
    PROVE  ToSet(Append(s, e)) = ToSet(s) \cup {e}
<1>1. Append(s, e) \in Seq(S) /\ Len(Append(s, e)) = Len(s) + 1 /\ Len(s) \in Nat
  OBVIOUS
<1>2. \A n \in 1..Len(s) : Append(s, e)[n] = s[n]
  OBVIOUS
<1>3. Append(s, e)[Len(s) + 1] = e
  OBVIOUS
<1>4. /\ ToSet(s) = {s[n] : n \in 1..Len(s)}
      /\ ToSet(Append(s, e)) = {Append(s, e)[n] : n \in 1..(Len(s) + 1)}
  BY <1>1, Elements
<1>5. \A n \in 1..(Len(s) + 1) : n \in 1..Len(s) \/ n = Len(s) + 1
  BY <1>1
<1>6. 1..Len(s) \subseteq 1..(Len(s) + 1) /\ Len(s) + 1 \in 1..(Len(s) + 1)
  BY <1>1
<1> QED
  BY <1>2, <1>3, <1>4, <1>5, <1>6

(* What has been taken or is in the channel has been scanned. *)
LEMMA Bounds ==
    ASSUME TypeOK, EndInv
    PROVE  /\ Taken \subseteq 1..scanned
           /\ ToSet(ch) = {ch[n] : n \in 1..Len(ch)}
           /\ ToSet(ch) \subseteq Final \cup 1..scanned
           /\ ToSet(written) = {written[n] : n \in 1..Len(written)}
           /\ scanned \in Nat /\ Len(ch) \in Nat /\ Len(written) \in Nat
           /\ DOMAIN written = 1..Len(written)
<1>1. handler = "write" => chunk \in 1..scanned
  BY DEF TypeOK, EndInv
<1> QED
  BY <1>1, Elements, ScriptType DEF TypeOK, Taken

(* An event that a content line has become is taken by the handler's hand. *)
LEMMA ReceiveTakes ==
    ASSUME TypeOK, EndInv, Receive
    PROVE  /\ Taken = ToSet(written)
           /\ Taken' = ToSet(written) \cup (IF ch[1] \notin Final /\ Writes(script[ch[1]])
                                            THEN {ch[1]} ELSE {})
           /\ ToSet(ch') \subseteq ToSet(ch)
           /\ ToSet(ch) = ToSet(ch') \cup {ch[1]}
<1>1. Taken = ToSet(written)
  BY ReceiveStep DEF Taken
<1>2. handler' = "write" <=> ch[1] \notin Final /\ Writes(script[ch[1]])
  BY ReceiveStep DEF After
<1>3. Taken' = ToSet(written) \cup (IF handler' = "write" THEN {chunk'} ELSE {})
  BY ReceiveStep DEF Taken
<1>4. ToSet(ch') = {ch'[n] : n \in 1..Len(ch')}
  <2>1. Tail(ch) \in Seq(Final \cup 1..scanned) /\ ch' = Tail(ch)
    BY DEF Receive, TypeOK
  <2>2. ch' \in Seq(Final \cup 1..scanned)
    BY <2>1
  <2> QED
    BY <2>2 DEF ToSet
<1>5. \A n \in 1..Len(ch) : n = 1 \/ (n - 1 \in 1..Len(ch') /\ ch'[n - 1] = ch[n])
  BY ReceiveStep, Bounds
<1> QED
  BY <1>1, <1>2, <1>3, <1>4, <1>5, ReceiveStep, Bounds

(* Lines keep their order on the way. *)
LEMMA OrderStep ==
    TypeOK /\ EndInv /\ OrderInv /\ [Next]_vars => OrderInv'
<1> SUFFICES ASSUME TypeOK, EndInv, OrderInv, [Next]_vars PROVE OrderInv'
  OBVIOUS
<1> USE DEF upstream, rvars, tvars, hvars, cvars
<1>1. CASE Aside
  BY <1>1, AsideStep DEF OrderInv, Taken
<1>2. CASE ScanLine
  <2>1. UNCHANGED <<script, ch, handler, chunk, written>>
    BY <1>2 DEF ScanLine
  <2>2. event' \notin Final /\ reader' = "send" => event' = scanned + 1
    BY <1>2 DEF ScanLine, Emit, Final
  <2>3. Taken' = Taken /\ ToSet(ch') = ToSet(ch)
    BY <2>1 DEF Taken
  <2>4. \A i \in Taken \cup ToSet(ch) : i < scanned + 1
    BY Bounds DEF Final, DoneEvent, ErrEvent
  <2> QED
    BY <2>1, <2>2, <2>3, <2>4 DEF OrderInv
<1>3. CASE ScanFails \/ ScanEnds \/ Leave \/ Drained \/ WriteFinal
  <2>1. UNCHANGED <<script, ch, written>>
    BY <1>3 DEF ScanFails, ScanEnds, Leave, Drained, WriteFinal, Kill
  <2>2. reader' = "send" /\ event' \notin Final => reader = "send" /\ event' = event
    BY <1>3 DEF ScanFails, ScanEnds, Leave, Drained, WriteFinal, Emit, Final
  <2>3. handler' = "write" <=> handler = "write"
    BY <1>3 DEF ScanFails, ScanEnds, Leave, Drained, WriteFinal
  <2>4. chunk' = chunk
    BY <1>3 DEF ScanFails, ScanEnds, Leave, Drained, WriteFinal
  <2>5. Taken' = Taken /\ ToSet(ch') = ToSet(ch)
    BY <2>1, <2>3, <2>4 DEF Taken
  <2> QED
    BY <2>1, <2>2, <2>3, <2>4, <2>5 DEF OrderInv
<1>4. CASE SendEvent
  <2>1. /\ reader = "send" /\ reader' # "send" /\ ch' = Append(ch, event)
        /\ UNCHANGED <<script, handler, chunk, written>>
    BY <1>4 DEF SendEvent
  <2>2. Taken' = Taken
    BY <2>1 DEF Taken
  <2>3. /\ Len(ch') = Len(ch) + 1 /\ ch'[Len(ch) + 1] = event
        /\ \A n \in 1..Len(ch) : ch'[n] = ch[n]
    BY <2>1 DEF TypeOK
  <2>4. event \notin Final => /\ \A i \in Taken : i < event
                              /\ \A n \in 1..Len(ch) : ch[n] < event
    BY <2>1, Bounds DEF OrderInv
  <2>5. \A m, n \in 1..Len(ch') : m < n /\ ch'[n] \notin Final => ch'[m] < ch'[n]
    BY <2>3, <2>4, Bounds DEF OrderInv
  <2>6. \A i \in Taken, n \in 1..Len(ch') : ch'[n] \notin Final => i < ch'[n]
    BY <2>3, <2>4, Bounds DEF OrderInv
  <2> QED
    BY <2>1, <2>2, <2>5, <2>6 DEF OrderInv
<1>5. CASE Receive
  <2>1. /\ UNCHANGED <<script, scanned, reader, event, written>>
        /\ 1 \in 1..Len(ch) /\ Len(ch') = Len(ch) - 1 /\ chunk' = ch[1]
        /\ \A n \in 1..Len(ch') : n + 1 \in 1..Len(ch) /\ ch'[n] = ch[n + 1]
    BY <1>5, ReceiveStep
  <2>2. /\ Taken = ToSet(written)
        /\ Taken' = ToSet(written) \cup (IF ch[1] \notin Final /\ Writes(script[ch[1]])
                                         THEN {ch[1]} ELSE {})
        /\ ToSet(ch') \subseteq ToSet(ch) /\ ch[1] \in ToSet(ch)
    BY <1>5, ReceiveTakes
  <2>3. handler' = "write" => ch[1] \notin Final
    BY <1>5, ReceiveStep DEF After
  <2>4. \A i \in Taken : ch[1] \notin Final => i < ch[1]
    BY <2>1 DEF OrderInv
  <2>5. \A n \in 1..Len(ch') : ch'[n] \notin Final => ch[1] < ch'[n]
    BY <2>1, Bounds DEF OrderInv
  <2>6. \A m, n \in 1..Len(ch') : m < n /\ ch'[n] \notin Final => ch'[m] < ch'[n]
    BY <2>1, Bounds DEF OrderInv
  <2>7. \A i \in Taken', n \in 1..Len(ch') : ch'[n] \notin Final => i < ch'[n]
    BY <2>1, <2>2, <2>5 DEF OrderInv
  <2>8. \A i \in Taken' : Writes(script[i])
    BY <2>2 DEF OrderInv
  <2>9. reader = "send" /\ event \notin Final => \A i \in Taken' \cup ToSet(ch') : i < event
    BY <2>2 DEF OrderInv
  <2> QED
    BY <2>1, <2>2, <2>3, <2>4, <2>6, <2>7, <2>8, <2>9 DEF OrderInv
<1>6. CASE WriteChunk
  <2>1. /\ handler = "write" /\ handler' = "recv" /\ written' = Append(written, chunk)
        /\ UNCHANGED <<script, reader, event, ch>>
    BY <1>6 DEF WriteChunk, AfterWrite
  <2>2. chunk \in 1..scanned
    BY <2>1 DEF TypeOK, EndInv
  <2>3. ToSet(written') = ToSet(written) \cup {chunk}
    BY <2>1, <2>2, ElementsAppend DEF TypeOK
  <2>4. Taken' = Taken
    BY <2>1, <2>3 DEF Taken
  <2>5. \A m, n \in DOMAIN written' : m < n => written'[m] < written'[n]
    <3>1. /\ DOMAIN written' = 1..(Len(written) + 1) /\ written'[Len(written) + 1] = chunk
          /\ \A n \in 1..Len(written) : written'[n] = written[n]
      BY <2>1, <2>2 DEF TypeOK
    <3>2. \A n \in 1..Len(written) : written[n] < chunk
      BY <2>1, Bounds DEF OrderInv
    <3> QED
      BY <3>1, <3>2, Bounds DEF OrderInv
  <2> QED
    BY <2>1, <2>4, <2>5 DEF OrderInv
<1> QED
  BY <1>1, <1>2, <1>3, <1>4, <1>5, <1>6 DEF Next, Reader, Handler, Aside

-----------------------------------------------------------------------------
(* No line of content is lost on the way, and the handler knows whether it has
   had a finish_reason.                                                      *)
LEMMA FlowStep ==
    TypeOK /\ EndInv /\ FlowInv /\ [Next]_vars => FlowInv'
<1> SUFFICES ASSUME TypeOK, EndInv, FlowInv, [Next]_vars PROVE FlowInv'
  OBVIOUS
<1> USE DEF upstream, rvars, tvars, hvars, cvars
<1>1. CASE Aside
  BY <1>1, AsideStep DEF FlowInv, Taken
<1>2. CASE ScanLine
  <2>1. /\ UNCHANGED <<script, ch, handler, chunk, finish, written>>
        /\ reader = "scan" /\ scanned' = scanned + 1
    BY <1>2 DEF ScanLine
  <2>2. Writes(script[scanned + 1]) => reader' = "send" /\ event' = scanned + 1
    BY <1>2 DEF ScanLine, Emit, Writes
  <2>3. Taken' = Taken /\ ToSet(ch') = ToSet(ch)
    BY <2>1 DEF Taken
  <2>4. \A i \in 1..scanned' : i \in 1..scanned \/ i = scanned + 1
    BY <2>1, Bounds
  <2>5. \A i \in 1..scanned' : Writes(script'[i]) =>
          i \in Taken' \/ i \in ToSet(ch') \/ (reader' = "send" /\ event' = i)
    BY <2>1, <2>2, <2>3, <2>4 DEF FlowInv
  <2> QED
    BY <2>1, <2>3, <2>5 DEF FlowInv
<1>3. CASE ScanFails \/ ScanEnds \/ Leave \/ Drained \/ WriteFinal
  <2>1. UNCHANGED <<script, scanned, ch, chunk, finish, written>>
    BY <1>3 DEF ScanFails, ScanEnds, Leave, Drained, WriteFinal, Kill
  <2>2. reader = "send" => reader' = "send" /\ event' = event
    BY <1>3 DEF ScanFails, ScanEnds, Leave, Drained, WriteFinal
  <2>3. handler' = "write" <=> handler = "write"
    BY <1>3 DEF ScanFails, ScanEnds, Leave, Drained, WriteFinal
  <2>4. Taken' = Taken /\ ToSet(ch') = ToSet(ch)
    BY <2>1, <2>3 DEF Taken
  <2> QED
    BY <2>1, <2>2, <2>4 DEF FlowInv
<1>4. CASE SendEvent
  <2>1. /\ reader = "send" /\ ch' = Append(ch, event)
        /\ UNCHANGED <<script, scanned, event, handler, chunk, finish, written>>
    BY <1>4 DEF SendEvent
  <2>2. Taken' = Taken
    BY <2>1 DEF Taken
  <2>3. ToSet(ch') = ToSet(ch) \cup {event}
    BY <2>1, ElementsAppend DEF TypeOK
  <2> QED
    BY <2>1, <2>2, <2>3 DEF FlowInv
<1>5. CASE Receive
  <2>1. /\ UNCHANGED <<script, scanned, reader, event>>
        /\ \A i \in 1..scanned : i \notin Final
    BY <1>5, ReceiveStep, Bounds DEF Final, DoneEvent, ErrEvent
  <2>2. /\ Taken = ToSet(written)
        /\ Taken' = ToSet(written) \cup (IF ch[1] \notin Final /\ Writes(script[ch[1]])
                                         THEN {ch[1]} ELSE {})
        /\ ToSet(ch) = ToSet(ch') \cup {ch[1]}
    BY <1>5, ReceiveTakes
  <2>3. \A i \in 1..scanned : Writes(script[i]) =>
          i \in Taken' \/ i \in ToSet(ch') \/ (reader = "send" /\ event = i)
    BY <2>1, <2>2 DEF FlowInv
  <2>4. finish' <=> finish \/ (ch[1] \notin Final /\ script[ch[1]] = "finish")
    <3>1. Head(ch) = ch[1]
      BY <1>5 DEF Receive, TypeOK
    <3> QED
      BY <1>5, <3>1, Zenon DEF Receive
  <2>5. finish' <=> \E i \in Taken' : script[i] = "finish"
    BY <2>2, <2>4 DEF FlowInv, Writes
  <2> QED
    BY <2>1, <2>3, <2>5 DEF FlowInv
<1>6. CASE WriteChunk
  <2>1. /\ handler = "write" /\ handler' = "recv" /\ written' = Append(written, chunk)
        /\ UNCHANGED <<script, scanned, reader, event, ch, finish>>
    BY <1>6 DEF WriteChunk, AfterWrite
  <2>2. chunk \in 1..scanned
    BY <2>1 DEF TypeOK, EndInv
  <2>3. ToSet(written') = ToSet(written) \cup {chunk}
    BY <2>1, <2>2, ElementsAppend DEF TypeOK
  <2>4. Taken' = Taken
    BY <2>1, <2>3 DEF Taken
  <2> QED
    BY <2>1, <2>4 DEF FlowInv
<1> QED
  BY <1>1, <1>2, <1>3, <1>4, <1>5, <1>6 DEF Next, Reader, Handler, Aside

-----------------------------------------------------------------------------
(* Inv is an invariant of Stream. *)
THEOREM Invariance == Spec => []Inv
<1>1. Init => Inv
  <2> SUFFICES ASSUME Init PROVE Inv
    OBVIOUS
  <2>1. finish \in BOOLEAN /\ cut \in BOOLEAN
    BY DEF Init
  <2>2. Len(script) \in Nat
    BY ScriptsAssumption DEF Init
  <2>3. TypeOK
    BY <2>1, <2>2, SizesAssumption DEF Init, TypeOK, Armed, Final, DoneEvent, ErrEvent
  <2>4. EndInv /\ NoLeak /\ ScanInv
    BY DEF Init, EndInv, NoLeak, ScanInv
  <2>8. TimerInv
    BY DEF Init, TimerInv, Armed
  <2>5. Taken = {} /\ ToSet(ch) = {} /\ scanned = 0
    BY DEF Init, Taken, ToSet
  <2>6. OrderInv
    BY <2>5 DEF Init, OrderInv
  <2>7. FlowInv
    BY <2>5 DEF Init, FlowInv
  <2> QED
    BY <2>3, <2>4, <2>6, <2>7, <2>8 DEF Inv
<1>2. Inv /\ [Next]_vars => Inv'
  BY TypeStep, EndStep, ScanStep, TimerStep, OrderStep, FlowStep DEF Inv
<1> QED
  BY <1>1, <1>2, PTL DEF Spec

(* Every variable has its type, and the channel its capacity, in every
   reachable state.                                                          *)
THEOREM TypeCorrect == Spec => []TypeOK
<1>1. Inv => TypeOK
  BY DEF Inv
<1> QED
  BY <1>1, Invariance, PTL

(* For every script and every interleaving the client sees a prefix of the
   content, in order: what is not written yet comes behind what is, since the
   handler's hand, the channel and the reader hold later lines only.         *)
THEOREM ContentInOrder == Spec => []InOrder
<1>1. Inv => InOrder
  <2> SUFFICES ASSUME Inv PROVE InOrder
    OBVIOUS
  <2>1. TypeOK /\ EndInv /\ OrderInv /\ FlowInv
    BY DEF Inv
  <2>2. ToSet(written) \subseteq Taken
    BY DEF Taken
  <2>3. ASSUME NEW i \in 1..scanned, NEW j \in ToSet(written), Writes(script[i]), i < j
        PROVE  i \in ToSet(written)
    <3>1. i \in Nat /\ j \in Nat /\ i \notin Final
      BY <2>1, <2>2, Bounds DEF Final, DoneEvent, ErrEvent
    <3>2. ~(handler = "write" /\ chunk = i)
      BY <2>1, <2>3, <3>1 DEF OrderInv
    <3>3. i \notin ToSet(ch)
      BY <2>1, <2>2, <2>3, <3>1, Bounds DEF OrderInv
    <3>4. ~(reader = "send" /\ event = i)
      BY <2>1, <2>2, <2>3, <3>1 DEF OrderInv
    <3> QED
      BY <2>1, <2>3, <3>2, <3>3, <3>4 DEF FlowInv, Taken
  <2> QED
    BY <2>1, <2>2, <2>3 DEF OrderInv, InOrder
<1> QED
  BY <1>1, Invariance, PTL

(* An answer that nobody cut is written to the end: when the handler returns
   nothing is on its way any more, and the reader has stopped at [DONE] or at
   the end of what upstream had to say.                                      *)
THEOREM WholeAnswer == Spec => []Complete
<1>1. Inv => Complete
  <2> SUFFICES ASSUME Inv, handler = "returned", ~cut
               PROVE  /\ \A i \in 1..sent : Writes(script[i]) /\ Counts(i) => i \in ToSet(written)
                      /\ finish <=> \E i \in 1..sent : script[i] = "finish" /\ Counts(i)
    BY DEF Complete
  <2>1. /\ TypeOK /\ EndInv /\ ScanInv /\ FlowInv /\ NoLeak
        /\ sent \in Nat /\ scanned \in Nat /\ scanned <= sent
    BY ScriptType DEF Inv, TypeOK
  <2>2. reader \in {"leave", "gone"} /\ ToSet(ch) = {} /\ Taken = ToSet(written)
    BY <2>1 DEF NoLeak, EndInv, ToSet, Taken
  <2>3. \A i \in 1..scanned : Writes(script[i]) => i \in ToSet(written)
    BY <2>1, <2>2 DEF FlowInv
  <2>4. \A i \in 1..sent : Counts(i) => i \in 1..scanned
    BY <2>1, <2>2 DEF ScanInv, Counts
  <2>5. \A i \in 1..sent : Writes(script[i]) /\ Counts(i) => i \in ToSet(written)
    BY <2>3, <2>4
  <2>6. ASSUME finish PROVE \E i \in 1..sent : script[i] = "finish" /\ Counts(i)
    <3>1. PICK i \in ToSet(written) : script[i] = "finish"
      BY <2>1, <2>2, <2>6 DEF FlowInv
    <3>2. i \in 1..scanned /\ i \in 1..sent
      BY <2>1, <2>2, Bounds
    <3>3. Counts(i)
      BY <2>1, <3>1, <3>2 DEF ScanInv, Counts
    <3> QED
      BY <3>1, <3>2, <3>3
  <2>7. ASSUME NEW i \in 1..sent, script[i] = "finish", Counts(i) PROVE finish
    BY <2>1, <2>2, <2>5, <2>7 DEF FlowInv, Writes
  <2> QED
    BY <2>5, <2>6, <2>7
<1> QED
  BY <1>1, Invariance, PTL

(* When the handler is through with the events the reader has none to send:
   no goroutine stays blocked on the channel of a finished answer.           *)
THEOREM ReaderNeverLeaks == Spec => []NoLeak
<1>1. Inv => NoLeak
  BY DEF Inv
<1> QED
  BY <1>1, Invariance, PTL

(* For every capacity of the channel and the connection somebody can go on until
   the answer is over: the reader blocked on a full channel leaves the handler
   an event to take, the handler blocked on a full connection leaves the client
   something to read, and a reader blocked on upstream has the timer set.    *)
THEOREM NobodyStuck == Spec => []NeverStuck
<1>1. Inv => NeverStuck
  <2> SUFFICES ASSUME Inv, Idle > 0, ~(handler = "returned" /\ reader = "gone")
               PROVE  Ready
    BY DEF NeverStuck
  <2>1. /\ TypeOK /\ EndInv /\ TimerInv /\ NoLeak
        /\ Cap \in Nat \ {0} /\ Socket \in Nat \ {0}
    BY SizesAssumption DEF Inv
  <2>2. CASE reader = "scan"
    BY <2>1, <2>2 DEF TimerInv, Ready, ReaderReady
  <2>3. CASE reader = "send"
    <3>1. CASE Len(ch) < Cap
      BY <2>3, <3>1 DEF Ready, ReaderReady
    <3>2. CASE Len(ch) >= Cap
      <4>1. ch # <<>>
        BY <2>1, <3>2
      <4>2. handler \in {"recv", "write"}
        BY <2>1, <4>1 DEF TypeOK, EndInv
      <4>3. handler = "write" => CanWrite \/ unread > 0
        BY <2>1 DEF TypeOK, CanWrite
      <4> QED
        BY <4>1, <4>2, <4>3 DEF Ready, HandlerReady
    <3> QED
      BY <2>1, <3>1, <3>2 DEF TypeOK
  <2>4. CASE reader = "leave"
    BY <2>4 DEF Ready, ReaderReady
  <2>5. CASE reader = "gone"
    <3>1. handler \in {"recv", "write", "final"}
      BY <2>1, <2>5 DEF TypeOK
    <3>2. CanWrite \/ unread > 0
      BY <2>1 DEF TypeOK, CanWrite
    <3> QED
      BY <2>5, <3>1, <3>2 DEF Ready, HandlerReady
  <2> QED
    BY <2>1, <2>2, <2>3, <2>4, <2>5 DEF TypeOK
<1> QED
  BY <1>1, Invariance, PTL

-----------------------------------------------------------------------------
(* Stream implements Relay. *)

(* The steps that Relay does not see. *)
LEMMA Invisible ==
    ASSUME UNCHANGED <<script, sent, body, written, cut>>,
           handler # "returned", handler' # "returned"
    PROVE  UNCHANGED R!vars
BY DEF R!vars, source, final

(* What is not passed on yet lies behind the line in the handler's hand. *)
LEMMA NextPassed ==
    ASSUME Inv, handler = "write"
    PROVE  /\ chunk \in R!Pending
           /\ \A j \in R!Pending : chunk <= j
<1>1. /\ TypeOK /\ EndInv /\ ScanInv /\ OrderInv /\ FlowInv
      /\ sent \in Nat /\ scanned \in Nat /\ scanned <= sent
  BY ScriptType DEF Inv, TypeOK
<1>2. chunk \in Taken /\ chunk \in 1..scanned /\ Writes(script[chunk])
  BY <1>1, Bounds DEF Taken, OrderInv
<1>3. \A d \in 1..chunk : script[d] # "done"
  <2> SUFFICES ASSUME NEW d \in 1..chunk, script[d] = "done" PROVE FALSE
    OBVIOUS
  <2>1. d = scanned /\ d = chunk
    BY <1>1, <1>2 DEF ScanInv
  <2> QED
    BY <1>2, <2>1 DEF Writes
<1>4. \A n \in DOMAIN written : written[n] < chunk
  BY <1>1, Bounds DEF OrderInv
<1>5. chunk \in R!Pending
  BY <1>1, <1>2, <1>3, <1>4 DEF R!Pending, R!Due, R!Counted, Writes
<1>6. ASSUME NEW j \in R!Pending, j < chunk PROVE FALSE
  <2>1. j \in 1..scanned /\ Writes(script[j]) /\ j \notin ToSet(written) /\ j \notin Final
    BY <1>1, <1>2, <1>6, Bounds DEF R!Pending, R!Due, Writes, Final, DoneEvent, ErrEvent
  <2>2. j \notin Taken
    BY <1>6, <2>1 DEF Taken
  <2>3. j \notin ToSet(ch)
    BY <1>1, <1>2, <1>6, <2>1, Bounds DEF OrderInv
  <2>4. ~(reader = "send" /\ event = j)
    BY <1>1, <1>2, <1>6, <2>1 DEF OrderInv
  <2> QED
    BY <1>1, <2>1, <2>2, <2>3, <2>4 DEF FlowInv
<1>7. \A j \in R!Pending : j \in Nat
  BY <1>1 DEF R!Pending, R!Due
<1> QED
  BY <1>2, <1>5, <1>6, <1>7

(* When the handler has left its loop nothing is pending, unless the answer was
   cut, and upstream has come to its end.                                    *)
LEMMA NothingPending ==
    ASSUME Inv, handler = "final"
    PROVE  /\ cut \/ (R!Over /\ R!Pending = {})
           /\ finish <=> \E n \in DOMAIN written : script[written[n]] = "finish"
<1>1. /\ TypeOK /\ EndInv /\ ScanInv /\ FlowInv /\ NoLeak
      /\ sent \in Nat /\ scanned \in Nat /\ scanned <= sent
  BY ScriptType DEF Inv, TypeOK
<1>2. reader \in {"leave", "gone"} /\ ToSet(ch) = {} /\ Taken = ToSet(written)
  BY <1>1 DEF NoLeak, EndInv, ToSet, Taken
<1>3. \A i \in 1..scanned : Writes(script[i]) => i \in ToSet(written)
  BY <1>1, <1>2 DEF FlowInv
<1>4. \/ cut
      \/ \E d \in 1..scanned : script[d] = "done"
      \/ scanned = sent /\ body # "open"
  BY <1>1, <1>2 DEF ScanInv
<1>5. cut \/ R!Over
  BY <1>1, <1>4 DEF R!Over, source
<1>6. ASSUME ~cut, NEW i \in R!Pending PROVE FALSE
  <2>1. i \in 1..sent /\ Writes(script[i]) /\ \A d \in 1..i : script[d] # "done"
    BY DEF R!Pending, R!Due, R!Counted, Writes
  <2>2. i \in 1..scanned
    BY <1>1, <1>4, <1>6, <2>1
  <2>3. PICK n \in DOMAIN written : written[n] = i
    BY <1>1, <1>3, <2>1, <2>2, Bounds
  <2> QED
    BY <1>1, <2>2, <2>3 DEF R!Pending
<1>7. finish <=> \E n \in DOMAIN written : script[written[n]] = "finish"
  BY <1>1, <1>2, Bounds DEF FlowInv
<1> QED
  BY <1>5, <1>6, <1>7

(* Each step of Stream is Relay's send, close, break, pass or finish, or Relay
   does not see it.                                                          *)
LEMMA RelayStep == Inv /\ [Next]_vars => [R!Next]_(R!vars)
<1> SUFFICES ASSUME Inv, [Next]_vars PROVE R!Next \/ UNCHANGED R!vars
  OBVIOUS
<1> USE DEF upstream, rvars, tvars, hvars, cvars
<1>1. CASE UpstreamSends
  <2>1. R!Send
    BY <1>1 DEF UpstreamSends, R!Send, source, final
  <2> QED
    BY <2>1 DEF R!Next
<1>2. CASE UpstreamEnds
  <2>1. R!Close
    BY <1>2 DEF UpstreamEnds, R!Close, source, final
  <2> QED
    BY <2>1 DEF R!Next
<1>3. CASE UpstreamBreaks \/ ClientLeaves \/ (TimerCloses /\ cut')
  <2>1. /\ cut' = TRUE /\ UNCHANGED <<script, sent, written, handler, finish>>
        /\ body' \in {body, "dead"}
    BY <1>3 DEF UpstreamBreaks, ClientLeaves, TimerCloses, Kill, Inv, TypeOK
  <2>2. R!Break
    BY <2>1 DEF R!Break, source, final
  <2> QED
    BY <2>2 DEF R!Next
<1>4. CASE TimerCloses /\ ~cut'
  BY <1>4 DEF TimerCloses, Kill, R!vars, source, final, Inv, TypeOK
<1>5. CASE \/ ClientReads \/ Tick \/ TimerFires \/ ScanLine \/ ScanEnds \/ SendEvent \/ Leave
           \/ UNCHANGED vars
  BY <1>5 DEF ClientReads, Tick, TimerFires, ScanLine, ScanEnds, SendEvent, Leave, vars,
              R!vars, source, final
<1>6. CASE ScanFails
  <2>1. UNCHANGED <<script, sent, body, written, handler, finish>> /\ cut' \in {cut, TRUE}
    BY <1>6 DEF ScanFails
  <2>2. CASE cut' = TRUE
    BY <2>1, <2>2 DEF R!Next, R!Break, source, final
  <2>3. CASE cut' = cut
    BY <2>1, <2>3 DEF R!vars, source, final
  <2> QED
    BY <2>1, <2>2, <2>3
<1>7. CASE Receive \/ Drained
  <2>1. UNCHANGED <<script, sent, body, written, cut>> /\ handler # "returned"
    BY <1>7 DEF Receive, Drained
  <2>2. handler' # "returned"
    BY <1>7 DEF Receive, Drained, After
  <2> QED
    BY <2>1, <2>2, Invisible
<1>8. CASE WriteChunk
  <2>1. /\ handler = "write" /\ handler' = "recv" /\ written' = Append(written, chunk)
        /\ UNCHANGED <<script, sent, body, cut>>
    BY <1>8 DEF WriteChunk, AfterWrite
  <2>2. R!Pass
    BY <2>1, NextPassed DEF R!Pass, source, final
  <2> QED
    BY <2>2 DEF R!Next
<1>9. CASE WriteFinal
  <2>1. /\ handler = "final" /\ handler' = "returned" /\ body' # "open"
        /\ UNCHANGED <<script, sent, finish, written, cut>>
    BY <1>9 DEF WriteFinal, Kill
  <2>2. final = "none" /\ final' = IF finish THEN "given" ELSE "default"
    BY <2>1 DEF final
  <2>3. source' = "closed"
    BY <2>1 DEF source
  <2>4. R!Finish
    BY <2>1, <2>2, <2>3, NothingPending DEF R!Finish
  <2> QED
    BY <2>4 DEF R!Next
<1> QED
  BY <1>1, <1>2, <1>3, <1>4, <1>5, <1>6, <1>7, <1>8, <1>9
     DEF Next, Reader, Timer, Handler, Client, World

(* For every script, buffer size and timeout the answer that reaches the client
   through reader, channel and handler is one that Relay could have given.   *)
THEOREM Refinement == Spec => RelaySpec
<1>1. Init => R!Init
  BY DEF Init, R!Init, source, final
<1>2. Inv /\ [Next]_vars => [R!Next]_(R!vars)
  BY RelayStep
<1> QED
  BY <1>1, <1>2, Invariance, PTL DEF Spec, RelaySpec, R!Spec
=============================================================================
