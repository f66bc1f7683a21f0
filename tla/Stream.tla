------------------------------- MODULE Stream -------------------------------
(***************************************************************************)
(* One streaming answer: upstream sends SSE lines, the reader goroutine of *)
(* readSSEStream turns them into events on a bounded channel, the handler  *)
(* (streamChatResponse, streamGenerateResponse) turns events into NDJSON   *)
(* chunks for the client, and an idle timer closes the body.               *)
(*                                                                         *)
(* Five actors interleave: upstream, reader, timer, handler and client.    *)
(* The reader blocks on a full channel, the handler on a client that does  *)
(* not read; the timer runs whatever the reader is blocked on.             *)
(*                                                                         *)
(* Data: a line is its kind, and its place in the script stands for its    *)
(* content, so that loss, duplication and reordering show.                 *)
(***************************************************************************)
EXTENDS Integers, Sequences, SequencesExt

CONSTANTS
    Scripts,  \* what upstream may have to say: sequences of kinds of line
    Cap,      \* capacity of the event channel (16)
    Socket,   \* chunks the connection to the client takes before a write blocks
    Idle      \* --stream-idle-timeout in ticks, 0 = disabled

Kinds == {"text",    \* a chunk with content
          "finish",  \* a chunk with a finish_reason
          "skip",    \* data that yields no chunk: bad JSON, no choice, nothing in it
          "noise",   \* an empty line, a comment, another field, empty data
          "huge",    \* a line longer than the scanner's 1 MB
          "done"}    \* data: [DONE]

ASSUME ScriptsAssumption == Scripts \subseteq Seq(Kinds)
ASSUME SizesAssumption   == /\ Cap \in Nat \ {0} /\ Socket \in Nat \ {0}
                            /\ Idle \in Nat

VARIABLES
    script,    \* the lines of this answer
    sent,      \* how many of them upstream has sent
    avail,     \* how many of them can reach the scanner
    body,      \* resp.Body: "open", "eof", or "dead" (closed or broken)
    scanned,   \* how many lines the scanner has returned
    reader,    \* "scan", "send", "leave" (deferred calls) or "gone" (channel closed)
    event,     \* the event the reader is about to send
    ch,        \* the channel
    timer,     \* "off", "armed" or "fired" (its function is about to run)
    age,       \* ticks since the timer was last set
    silence,   \* ticks since upstream last sent a line
    handler,   \* "recv", "write", "final" or "returned"
    chunk,     \* the line the handler is writing out
    finish,    \* the handler has seen a finish_reason
    written,   \* the lines written to the client, in order
    unread,    \* chunks the client has not read yet
    client,    \* "here" or "left"
    cut        \* history: the answer was cut short by somebody

upstream == <<script, sent, avail, body>>
rvars    == <<scanned, reader, event>>
tvars    == <<timer, age>>
hvars    == <<handler, chunk, finish, written>>
cvars    == <<unread, client>>
vars == <<upstream, rvars, ch, tvars, silence, hvars, cvars, cut>>

(* Events: the place of a data line, or one of the two that end the stream. *)
DoneEvent == 0
ErrEvent  == -1
Final     == {DoneEvent, ErrEvent}

-----------------------------------------------------------------------------
(* The timer is armed before the first read. *)
Armed_AtFirstLine == "off"
Armed == IF Idle > 0 THEN "armed" ELSE "off"

Init == /\ script \in Scripts
        /\ sent = 0 /\ avail = 0 /\ body = "open"
        /\ scanned = 0 /\ reader = "scan" /\ event = DoneEvent
        /\ ch = <<>>
        /\ timer = Armed /\ age = 0 /\ silence = 0
        /\ handler = "recv" /\ chunk = 0 /\ finish = FALSE /\ written = <<>>
        /\ unread = 0 /\ client = "here" /\ cut = FALSE

-----------------------------------------------------------------------------
(* The world. *)

UpstreamSends ==
    /\ body = "open" /\ sent < Len(script)
    /\ sent' = sent + 1 /\ avail' = sent + 1
    /\ silence' = 0
    /\ UNCHANGED <<script, body, rvars, ch, tvars, hvars, cvars, cut>>

(* Upstream ends the body, wherever it is in its script. *)
UpstreamEnds ==
    /\ body = "open"
    /\ body' = "eof"
    /\ UNCHANGED <<script, sent, avail, rvars, ch, tvars, silence, hvars, cvars, cut>>

(* The body is closed on this side or the connection breaks: reads fail from
   now on, and only what the scanner has buffered still comes out.  That may
   be all of it if upstream had ended the body; a line cut in two yields no
   chunk.  Closing a dead body changes nothing.                              *)
Kill ==
    /\ \/ /\ body \in {"open", "eof"}
          /\ body' = "dead" /\ avail' \in scanned..avail
       \/ /\ body \in {"eof", "dead"}
          /\ UNCHANGED <<body, avail>>
    /\ UNCHANGED <<script, sent>>

UpstreamBreaks ==
    /\ body = "open"
    /\ Kill /\ cut' = TRUE
    /\ UNCHANGED <<rvars, ch, tvars, silence, hvars, cvars>>

ClientReads ==
    /\ client = "here" /\ unread > 0
    /\ unread' = unread - 1
    /\ UNCHANGED <<upstream, rvars, ch, tvars, silence, hvars, client, cut>>

(* The client disconnects: r.Context() is cancelled, and with it the upstream
   request; writes to the client fail from now on, unnoticed.                *)
ClientLeaves ==
    /\ client = "here"
    /\ client' = "left" /\ unread' = 0
    /\ Kill /\ cut' = TRUE
    /\ UNCHANGED <<rvars, ch, tvars, silence, hvars>>

Tick == /\ age' = IF timer = "armed" /\ age < Idle THEN age + 1 ELSE age
        /\ silence' = IF silence < Idle THEN silence + 1 ELSE silence
        /\ UNCHANGED <<upstream, rvars, ch, timer, hvars, cvars, cut>>

-----------------------------------------------------------------------------
(* The idle timer: it fires, and then its function closes the body. *)

TimerFires ==
    /\ timer = "armed" /\ age = Idle
    /\ timer' = "fired"
    /\ UNCHANGED <<upstream, rvars, ch, age, silence, hvars, cvars, cut>>

TimerCloses ==
    /\ timer = "fired"
    /\ timer' = "off"
    /\ Kill /\ cut' = (cut \/ body' # body)
    /\ UNCHANGED <<rvars, ch, age, silence, hvars, cvars>>

-----------------------------------------------------------------------------
(* readSSEStream's goroutine. *)

(* timer.Reset.  A function that is about to run still runs; that it would run
   once more later adds nothing, the body is closed by then.                 *)
ResetTimer == /\ age' = 0
              /\ timer' = IF Idle > 0 /\ timer # "fired" THEN "armed" ELSE timer

Emit(e) == reader' = "send" /\ event' = e

ScanLine ==
    /\ reader = "scan" /\ scanned < avail
    /\ LET kind == script[scanned + 1] IN
       /\ kind # "huge"
       /\ CASE kind = "noise" -> UNCHANGED <<reader, event>>
            [] kind = "done"  -> Emit(DoneEvent)
            [] OTHER          -> Emit(scanned + 1)
    /\ scanned' = scanned + 1
    /\ ResetTimer
    /\ UNCHANGED <<upstream, ch, silence, hvars, cvars, cut>>

(* Scan returns false: the line is too long, or a read has failed. *)
ScanFails ==
    /\ reader = "scan"
    /\ \/ scanned < avail /\ script[scanned + 1] = "huge" /\ cut' = TRUE
       \/ scanned = avail /\ body = "dead" /\ UNCHANGED cut
    /\ Emit(ErrEvent)
    /\ UNCHANGED <<upstream, scanned, ch, tvars, silence, hvars, cvars>>

(* Scan returns false without an error: no event, the channel is just closed. *)
ScanEnds ==
    /\ reader = "scan" /\ scanned = avail /\ body = "eof"
    /\ reader' = "leave"
    /\ UNCHANGED <<upstream, scanned, event, ch, tvars, silence, hvars, cvars, cut>>

SendEvent_NoLimit ==
    /\ reader = "send"
    /\ ch' = Append(ch, event)
    /\ reader' = IF event \in Final THEN "leave" ELSE "scan"
    /\ UNCHANGED <<upstream, scanned, event, tvars, silence, hvars, cvars, cut>>
SendEvent_DropIfFull ==
    /\ reader = "send"
    /\ ch' = IF Len(ch) < Cap THEN Append(ch, event) ELSE ch
    /\ reader' = IF event \in Final THEN "leave" ELSE "scan"
    /\ UNCHANGED <<upstream, scanned, event, tvars, silence, hvars, cvars, cut>>
SendEvent ==
    /\ reader = "send" /\ Len(ch) < Cap
    /\ ch' = Append(ch, event)
    /\ reader' = IF event \in Final THEN "leave" ELSE "scan"
    /\ UNCHANGED <<upstream, scanned, event, tvars, silence, hvars, cvars, cut>>

(* The deferred calls: timer.Stop, which a fired timer ignores, close(ch). *)
Leave ==
    /\ reader = "leave"
    /\ reader' = "gone"
    /\ timer' = IF timer = "armed" THEN "off" ELSE timer
    /\ UNCHANGED <<upstream, scanned, event, ch, age, silence, hvars, cvars, cut>>

-----------------------------------------------------------------------------
(* The handler's loop over the events. *)

Writes(kind) == kind \in {"text", "finish"}

(* A write to the client blocks while the connection is full. *)
CanWrite == client = "left" \/ unread < Socket
Written  == unread' = IF client = "left" THEN unread ELSE unread + 1

(* Where the loop goes on after an event. *)
After_StopAtFinish(e) == IF e \in Final THEN "final"
                         ELSE IF script[e] = "finish" THEN "final"
                         ELSE IF Writes(script[e]) THEN "write" ELSE "recv"
After(e) == IF e \in Final THEN "final"
            ELSE IF Writes(script[e]) THEN "write" ELSE "recv"

Receive ==
    /\ handler = "recv" /\ ch # <<>>
    /\ ch' = Tail(ch)
    /\ chunk' = Head(ch)
    /\ handler' = After(Head(ch))
    /\ finish' = (finish \/ (Head(ch) \notin Final /\ script[Head(ch)] = "finish"))
    /\ UNCHANGED <<upstream, rvars, tvars, silence, written, cvars, cut>>

(* range ends when the channel is closed and drained. *)
Drained_Undrained ==
    /\ handler = "recv" /\ reader = "gone"
    /\ handler' = "final"
    /\ UNCHANGED <<upstream, rvars, ch, tvars, silence, chunk, finish, written, cvars, cut>>
Drained ==
    /\ handler = "recv" /\ ch = <<>> /\ reader = "gone"
    /\ handler' = "final"
    /\ UNCHANGED <<upstream, rvars, ch, tvars, silence, chunk, finish, written, cvars, cut>>

(* writeNDJSON and Flush; their errors are not looked at. *)
AfterWrite_StopOnError == IF client = "left" THEN "final" ELSE "recv"
AfterWrite == "recv"
WriteChunk ==
    /\ handler = "write" /\ CanWrite
    /\ written' = Append(written, chunk)
    /\ handler' = AfterWrite
    /\ Written
    /\ UNCHANGED <<upstream, rvars, ch, tvars, silence, chunk, finish, client, cut>>

(* The final chunk, done:true, is written whatever ended the loop; then the
   handler returns and its deferred resp.Body.Close runs.                    *)
WriteFinal ==
    /\ handler = "final" /\ CanWrite
    /\ handler' = "returned"
    /\ Written
    /\ Kill
    /\ UNCHANGED <<rvars, ch, tvars, silence, chunk, finish, written, client, cut>>

-----------------------------------------------------------------------------
Reader  == ScanLine \/ ScanFails \/ ScanEnds \/ SendEvent \/ Leave
Timer   == TimerFires \/ TimerCloses
Handler == Receive \/ Drained \/ WriteChunk \/ WriteFinal
Client  == ClientReads \/ ClientLeaves
World   == UpstreamSends \/ UpstreamEnds \/ UpstreamBreaks \/ Tick

Next == Reader \/ Timer \/ Handler \/ Client \/ World

Spec == Init /\ [][Next]_vars

(* Goroutines that can run do run and time passes.  A client that has chunks
   to read reads them or leaves; a client that waits for a silent answer need
   do nothing.  Upstream owes nothing.                                       *)
Fairness == /\ WF_vars(Reader) /\ WF_vars(Timer) /\ WF_vars(Handler)
            /\ WF_vars(ClientReads) /\ WF_vars(Tick)
FairSpec == Spec /\ Fairness

-----------------------------------------------------------------------------
(* Properties. *)

TypeOK == /\ script \in Scripts /\ sent \in 0..Len(script)
          /\ avail \in 0..sent /\ scanned \in 0..avail
          /\ body \in {"open", "eof", "dead"}
          /\ reader \in {"scan", "send", "leave", "gone"}
          /\ event \in Final \cup 1..scanned
          /\ ch \in Seq(Final \cup 1..scanned) /\ Len(ch) <= Cap
          /\ timer \in {"off", "armed", "fired"} /\ age \in 0..Idle /\ silence \in 0..Idle
          /\ handler \in {"recv", "write", "final", "returned"}
          /\ chunk \in Final \cup 1..scanned /\ finish \in BOOLEAN
          /\ written \in Seq(1..scanned)
          /\ unread \in 0..Socket /\ client \in {"here", "left"} /\ cut \in BOOLEAN

(* The client sees upstream's content in order, without a gap and without a
   repetition, up to the point where the answer is cut (readSSEStream 45-79,
   streamChatResponse 148-191).                                              *)
InOrder ==
    /\ \A m, n \in DOMAIN written : m < n => written[m] < written[n]
    /\ \A i \in ToSet(written) : Writes(script[i])
    /\ \A i \in 1..scanned, j \in ToSet(written) :
          Writes(script[i]) /\ i < j => i \in ToSet(written)

(* The line belongs to the answer: nothing counts after [DONE]. *)
Counts(i) == \A d \in 1..i : script[d] # "done"

(* Nothing is lost unless somebody cut the answer: when the handler returns
   and neither the timer, nor a broken or overlong read, nor the client's
   departure came in between, the client has been sent all the content up to
   upstream's end, and the finish_reason if there was one (readSSEStream 73-83,
   streamChatResponse 148-198).                                              *)
Complete == handler = "returned" /\ ~cut =>
    /\ \A i \in 1..sent : Writes(script[i]) /\ Counts(i) => i \in ToSet(written)
    /\ finish <=> \E i \in 1..sent : script[i] = "finish" /\ Counts(i)

(* No goroutine is left behind: the handler stops receiving only when the
   reader has no event left to send, so the reader never blocks on a channel
   nobody reads, also when the client is gone (a send on ch is not guarded by
   a context: stream.go 74, 78, 82).                                         *)
NoLeak == handler \in {"final", "returned"} => reader \in {"leave", "gone"}

(* Who can go on by himself: a goroutine that is not blocked, a timer that runs,
   a client that has something to read.                                      *)
ReaderReady  == \/ reader = "scan" /\ (scanned < avail \/ body # "open")
                \/ reader = "send" /\ Len(ch) < Cap
                \/ reader = "leave"
HandlerReady == \/ handler = "recv" /\ (ch # <<>> \/ reader = "gone")
                \/ handler \in {"write", "final"} /\ CanWrite
Ready == ReaderReady \/ HandlerReady \/ timer # "off" \/ unread > 0

(* Reader, handler, timer and client never all wait for each other or for an
   upstream that is silent: while the answer is not over one of them can go on,
   since the reader waits for a line only with the timer set, for the channel
   only if the handler has an event, and the handler for the client only if
   that has something to read (stream.go 32-48, 74-84, streamChatResponse
   148-191).                                                                 *)
NeverStuck == Idle > 0 => Ready \/ (handler = "returned" /\ reader = "gone")

(* With an idle timeout every answer comes to an end, and its goroutine too,
   wherever in its script upstream falls silent, ends or breaks (stream.go
   33-39).  A script is finite: an upstream that sends for ever is kept up
   with, not ended.                                                          *)
Terminates == <>(handler = "returned" /\ reader = "gone")

(* Reader, channel, timer and handler together are a relay that the client
   cannot tell from one without them: every step of theirs is one of Relay's or
   invisible (stream.go 26-85, streamChatResponse 146-212).                   *)
source == IF body = "open" THEN "open" ELSE "closed"
final  == IF handler # "returned" THEN "none" ELSE IF finish THEN "given" ELSE "default"

R == INSTANCE Relay WITH Content <- {"text", "finish"}, Reason <- "finish", EndMark <- "done",
                         passed <- written, broken <- cut
RelaySpec == R!Spec

-----------------------------------------------------------------------------
(* What the repository says and the code does not do. *)

(* Time passes only when no goroutine can go on and no timer is due: a program
   whose goroutines and timer are prompt, beside a client that need not be.   *)
TimerDue   == timer = "fired" \/ (timer = "armed" /\ age = Idle)
PromptNext == \/ Reader \/ Timer \/ Handler \/ Client
              \/ UpstreamSends \/ UpstreamEnds \/ UpstreamBreaks
              \/ ~ReaderReady /\ ~HandlerReady /\ ~TimerDue /\ Tick
PromptSpec == Init /\ [][PromptNext]_vars

(* "idleTimeout > 0 closes body on data absence": the timer does not close the
   body on lines that came less than the idle time ago and have been waiting
   for a tick or more, because the reader is held up by a full channel
   (stream.go 25, 33-38, 48, 84).                                            *)
HeldUp == reader = "send" /\ Len(ch) = Cap
ClosedOnlyWhenIdle == [][
    timer = "fired" /\ timer' = "off" /\ body = "open"
        => ~(HeldUp /\ scanned < sent /\ 1 <= silence /\ silence < Idle)]_vars

-----------------------------------------------------------------------------
(* The inductive invariant behind the safety properties. *)

(* An event that ends the stream is the last in the channel and the reader is
   past it; the handler leaves its loop only when the channel is empty.      *)
EndInv == /\ \A n \in 1..Len(ch) : ch[n] \in Final =>
                n = Len(ch) /\ reader \in {"leave", "gone"}
          /\ handler = "write" => chunk \notin Final
          /\ handler \in {"final", "returned"} => ch = <<>>

(* Why the reader stops: the answer was cut, or [DONE] has been read, or all
   there was.                                                                *)
ScanInv == /\ IF body = "dead" THEN cut \/ handler = "returned" ELSE avail = sent
           /\ \A d \in 1..scanned : script[d] = "done" => d = scanned /\ reader # "scan"
           /\ reader = "send" /\ event \notin Final => event = scanned /\ script[event] # "done"
           /\ reader \in {"leave", "gone"} \/ (reader = "send" /\ event \in Final) =>
                 \/ cut
                 \/ \E d \in 1..scanned : script[d] = "done"
                 \/ scanned = sent /\ body # "open"

(* Lines travel from the reader over the channel and the handler's hand to the
   client: all of the content is on its way, and in order.                   *)
Taken == ToSet(written) \cup (IF handler = "write" THEN {chunk} ELSE {})
OrderInv ==
    /\ \A m, n \in DOMAIN written : m < n => written[m] < written[n]
    /\ handler = "write" => \A i \in ToSet(written) : i < chunk
    /\ \A i \in Taken : Writes(script[i])
    /\ \A m, n \in 1..Len(ch) : m < n /\ ch[n] \notin Final => ch[m] < ch[n]
    /\ \A i \in Taken, n \in 1..Len(ch) : ch[n] \notin Final => i < ch[n]
    /\ reader = "send" /\ event \notin Final => \A i \in Taken \cup ToSet(ch) : i < event
FlowInv ==
    /\ \A i \in 1..scanned : Writes(script[i]) =>
          i \in Taken \/ i \in ToSet(ch) \/ (reader = "send" /\ event = i)
    /\ finish <=> \E i \in Taken : script[i] = "finish"

(* While the reader may wait for upstream the timer is set. *)
TimerInv == Idle > 0 /\ timer = "off" => body # "open" \/ reader = "gone"

Inv == TypeOK /\ EndInv /\ ScanInv /\ OrderInv /\ FlowInv /\ NoLeak /\ TimerInv
=============================================================================
