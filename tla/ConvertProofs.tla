---------------------------- MODULE ConvertProofs ----------------------------
(* Convert proved for every set of texts, formats and numbers, for builds with
   an int of any width and for every bound on the inputs.                    *)
EXTENDS Convert, LoopProofs

-----------------------------------------------------------------------------
(* Messages. *)

(* The sequences of limited length. *)
LEMMA Limited ==
    ASSUME NEW S, NEW n \in Nat
    PROVE  /\ SeqOf(S, n) \subseteq Seq(S)
           /\ <<>> \in SeqOf(S, n)
<1>1. \A m \in 0..n : [1..m -> S] \subseteq Seq(S)
  OBVIOUS
<1>2. <<>> \in [1..0 -> S] /\ 0 \in 0..n
  OBVIOUS
<1> QED
  BY <1>1, <1>2 DEF SeqOf

LEMMA SettingFields ==
    ASSUME NEW s \in Plain \cup Tuned
    PROVE  DOMAIN s = {"model", "format", "stream", "options"}
<1>1. CASE s \in Plain
  BY <1>1 DEF Plain
<1>2. CASE s \in Tuned
  BY <1>2 DEF Tuned
<1> QED
  BY <1>1, <1>2

(* The messages of a chat request are its conversation's. *)
LEMMA MessagesKept ==
    ASSUME NEW s \in Plain \cup Tuned, NEW q, DOMAIN q = {"system", "messages"}
    PROVE  With(s, q).messages = q.messages
<1>1. "messages" \in DOMAIN q /\ "messages" \notin DOMAIN s
  BY SettingFields
<1> QED
  BY <1>1 DEF With

LEMMA ChatRequestType ==
    ASSUME NEW req \in ChatRequests
    PROVE  req.messages \in Seq(Messages)
<1>1. DOMAIN Dialogue = {"system", "messages"} /\ Dialogue.messages \in Seq(Messages)
  <2>1. Question \in Messages
    BY TextAssumption, LimitAssumption, Limited DEF Question, Messages, Images
  <2>2. Dialogue.messages = <<Question>>
    BY DEF Dialogue
  <2> QED
    BY <2>1, <2>2 DEF Dialogue
<1>2. \A q \in Conversations :
         DOMAIN q = {"system", "messages"} /\ q.messages \in Seq(Messages)
  <2>1. \A q \in Conversations :
           DOMAIN q = {"system", "messages"} /\ q.messages \in SeqOf(Messages, MaxMessages)
    BY DEF Conversations
  <2> QED
    BY <2>1, LimitAssumption, Limited
<1>3. PICK s \in Plain \cup Tuned, q \in Conversations \cup {Dialogue} : req = With(s, q)
  BY DEF ChatRequests
<1> QED
  BY <1>1, <1>2, <1>3, MessagesKept

(* A message can be read back from what is sent for it: the text, and behind it
   the images in order.                                                      *)
LEMMA MessageKept ==
    ASSUME NEW m \in Messages
    PROVE  [role |-> RequestMessage(m).role, content |-> TextOf(RequestMessage(m)),
            images |-> ImagesOf(RequestMessage(m))] = m
<1> DEFINE parts == [n \in DOMAIN m.images |-> ImagePart(m.images[n])]
           sent  == RequestMessage(m)
<1>1. m.images \in Seq(Formats) /\ m = [role |-> m.role, content |-> m.content, images |-> m.images]
  BY LimitAssumption, Limited DEF Messages, Images
<1>2. sent.role = m.role /\ sent.content = <<TextPart(m.content)>> \o parts
  BY DEF RequestMessage, buildContentParts
<1>3. /\ Len(sent.content) = 1 + Len(m.images) /\ sent.content[1] = TextPart(m.content)
      /\ \A n \in 1..Len(m.images) : sent.content[n + 1] = ImagePart(m.images[n])
      /\ Len(m.images) \in Nat /\ DOMAIN m.images = 1..Len(m.images)
  <2>1. Len(m.images) \in Nat /\ DOMAIN m.images = 1..Len(m.images)
    BY <1>1
  <2>2. parts \in Seq({ImagePart(f) : f \in Formats}) /\ Len(parts) = Len(m.images)
    BY <1>1
  <2> HIDE DEF parts, sent
  <2>3. Len(<<TextPart(m.content)>>) = 1 /\ <<TextPart(m.content)>>[1] = TextPart(m.content)
    OBVIOUS
  <2>4. <<TextPart(m.content)>> \in Seq({TextPart(m.content)})
    OBVIOUS
  <2>5. /\ Len(sent.content) = 1 + Len(parts) /\ sent.content[1] = TextPart(m.content)
        /\ \A n \in 1..Len(parts) : sent.content[n + 1] = parts[n]
    BY <1>2, <2>1, <2>2, <2>3
  <2> QED
    BY <2>1, <2>2, <2>5 DEF parts
<1> HIDE DEF parts, sent
<1>4. TextOf(sent) = m.content
  BY <1>3 DEF TextOf, TextPart, Part
<1>5. ImagesOf(sent) = m.images
  <2>1. Len(sent.content) - 1 = Len(m.images)
    BY <1>3
  <2>2. \A n \in 1..Len(m.images) : sent.content[n + 1].image = m.images[n]
    <3>1. \A f : ImagePart(f).image = f
      BY DEF ImagePart, Part
    <3> QED
      BY <1>3, <3>1
  <2>3. ImagesOf(sent) = [n \in 1..Len(m.images) |-> m.images[n]]
    BY <2>1, <2>2 DEF ImagesOf
  <2> QED
    BY <1>1, <1>3, <2>3
<1> QED
  BY <1>1, <1>2, <1>4, <1>5 DEF sent

(* The system prompt comes first and everything else keeps its place. *)
SystemMessage(system) == [role |-> "system", content |-> <<TextPart(system)>>]

LEMMA Prefix ==
    ASSUME NEW first, NEW S, NEW messages \in Seq(S)
    PROVE  /\ Len(<<first>> \o messages) = 1 + Len(messages) /\ Len(messages) \in Nat
           /\ (<<first>> \o messages)[1] = first
           /\ \A i \in 1..Len(messages) : (<<first>> \o messages)[1 + i] = messages[i]
           /\ <<>> \o messages = messages
OBVIOUS

LEMMA NoSystem ==
    ASSUME NEW S, NEW messages \in Seq(S)
    PROVE  System("", messages) = messages
BY Prefix DEF System

LEMMA SystemFirst ==
    ASSUME NEW system, system # "", NEW S, NEW messages \in Seq(S)
    PROVE  System(system, messages) = <<SystemMessage(system)>> \o messages
BY DEF System, SystemMessage

(* A build keeps the width of its int. *)
LEMMA SameBuild == Spec => [](maxInt \in MaxInts)
<1>1. Init => maxInt \in MaxInts
  BY DEF Init
<1>2. maxInt \in MaxInts /\ [Next]_vars => (maxInt \in MaxInts)'
  BY DEF vars, Next, Return, Ask, HandleChat, HandleGenerate, AnswerStream, AnswerWhole,
         FetchModels
<1> QED
  BY <1>1, <1>2, PTL DEF Spec

(* What one step of the enumeration does. *)
LEMMA ChatStep ==
    ASSUME [Next]_vars, Is("chat")', ~UNCHANGED vars
    PROVE  \E req \in ChatRequests, wild \in Ints :
              call'.input = req /\ result' = ChatPayload(req, wild) /\ maxInt' = maxInt
BY DEF Next, Is, Ask, Return, HandleChat, HandleGenerate, AnswerStream, AnswerWhole, FetchModels

(* Every conversation, however long and whatever its texts and images, arrives
   whole and in its order.                                                   *)
THEOREM ConversationArrives == Spec => []NothingLost
<1>1. Init => NothingLost
  BY DEF Init, NothingLost, Is
<1>2. NothingLost /\ [Next]_vars => NothingLost'
  <2>u. CASE NothingLost /\ UNCHANGED vars
    <3>1. call' = call /\ result' = result
      BY <2>u DEF vars
    <3> QED
      BY <2>u, <3>1 DEF NothingLost, Is
  <2>r. CASE ~(Is("chat")' /\ result' # Refused)
    BY <2>r DEF NothingLost
  <2> SUFFICES ASSUME [Next]_vars, ~UNCHANGED vars, Is("chat")', result' # Refused
               PROVE  NothingLost'
    BY <2>u, <2>r
  <2>1. PICK req \in ChatRequests, wild \in Ints :
               call'.input = req /\ result' = ChatPayload(req, wild)
    BY ChatStep
  <2> DEFINE asked == [n \in DOMAIN req.messages |-> RequestMessage(req.messages[n])]
  <2>2. result'.messages = System(req.system, asked)
    BY <2>1 DEF ChatPayload
  <2>3. req.messages \in Seq(Messages)
    BY ChatRequestType
  <2>4. /\ asked \in Seq({RequestMessage(m) : m \in Messages})
        /\ Len(asked) = Len(req.messages) /\ DOMAIN req.messages = 1..Len(req.messages)
        /\ \A i \in 1..Len(req.messages) : asked[i] = RequestMessage(req.messages[i])
                                           /\ req.messages[i] \in Messages
    BY <2>3
  <2> HIDE DEF asked
  <2>5. ASSUME NEW i \in 1..Len(req.messages), NEW m, m = asked[i]
        PROVE  [role |-> m.role, content |-> TextOf(m), images |-> ImagesOf(m)] = req.messages[i]
    BY <2>4, <2>5, MessageKept
  <2>6. CASE req.system = ""
    <3>1. result'.messages = asked
      BY <2>2, <2>4, <2>6, NoSystem
    <3>2. Len(asked) \in Nat /\ 0 + Len(asked) = Len(asked)
      BY <2>4, Prefix
    <3>3. \A i \in 1..Len(asked) : 0 + i = i
      BY <3>2
    <3>4. /\ Len(result'.messages) = 0 + Len(req.messages)
          /\ \A i \in 1..Len(req.messages) : result'.messages[0 + i] = asked[i]
      BY <2>4, <3>1, <3>2, <3>3
    <3> DEFINE n == IF call'.input.system = "" THEN 0 ELSE 1
    <3>5. n = 0
      BY <2>1, <2>6
    <3> HIDE DEF n
    <3>6. /\ Len(result'.messages) = n + Len(call'.input.messages) /\ n # 1
          /\ \A i \in DOMAIN call'.input.messages : result'.messages[n + i] = asked[i]
      BY <2>1, <2>4, <3>4, <3>5
    <3>7. \A i \in DOMAIN call'.input.messages :
            LET m == result'.messages[n + i]
            IN  [role |-> m.role, content |-> TextOf(m), images |-> ImagesOf(m)]
                   = call'.input.messages[i]
      BY <2>1, <2>4, <2>5, <3>6
    <3> QED
      BY <3>6, <3>7 DEF NothingLost, n
  <2>7. CASE req.system # ""
    <3> DEFINE first == SystemMessage(req.system)
    <3>1. result'.messages = <<first>> \o asked
      BY <2>2, <2>4, <2>7, SystemFirst
    <3>2. first.role = "system" /\ TextOf(first) = req.system
      BY DEF SystemMessage, TextOf, TextPart, Part
    <3> HIDE DEF first
    <3>3. /\ Len(result'.messages) = 1 + Len(req.messages) /\ result'.messages[1] = first
          /\ \A i \in 1..Len(req.messages) : result'.messages[1 + i] = asked[i]
      <4>1. /\ Len(<<first>> \o asked) = 1 + Len(asked) /\ (<<first>> \o asked)[1] = first
            /\ \A i \in 1..Len(asked) : (<<first>> \o asked)[1 + i] = asked[i]
        BY <2>4, Prefix
      <4> QED
        BY <2>4, <3>1, <4>1
    <3> QED
      BY <2>1, <2>4, <2>5, <2>7, <3>2, <3>3 DEF NothingLost
  <2> QED
    BY <2>6, <2>7
<1> QED
  BY <1>1, <1>2, PTL DEF Spec

-----------------------------------------------------------------------------
(* The list of models. *)

LEMMA BodyCases ==
    ASSUME NEW body \in Bodies
    PROVE  \/ body.json = "list" /\ body.data \in Lists
           \/ body.json = "object" /\ body.data \in Lists \cup {Absent}
           \/ body.json = "null"
           \/ body.json = "garbage"
BY DEF Bodies

LEMMA FetchStep ==
    ASSUME [Next]_vars, Is("models")', ~UNCHANGED vars
    PROVE  \E body \in Bodies : call'.input = body /\ result' = FetchedModels(body)
BY DEF Next, Is, Ask, Return, HandleChat, HandleGenerate, AnswerStream, AnswerWhole, FetchModels

(* Every model of a list of upstream, however long, is listed in its place and
   by a name it has, and no list that can be read is refused but one, the empty
   one in a wrapper.                                                         *)
THEOREM EveryModelListed == Spec => []ModelsListed
<1>1. Init => ModelsListed
  BY DEF Init, ModelsListed, Is
<1>2. ModelsListed /\ [Next]_vars => ModelsListed'
  <2>u. CASE ModelsListed /\ UNCHANGED vars
    <3>1. call' = call /\ result' = result
      BY <2>u DEF vars
    <3> QED
      BY <2>u, <3>1 DEF ModelsListed, Is
  <2>r. CASE ~Is("models")'
    BY <2>r DEF ModelsListed
  <2> SUFFICES ASSUME [Next]_vars, ~UNCHANGED vars, Is("models")'
               PROVE  ModelsListed'
    BY <2>u, <2>r
  <2>1. PICK body \in Bodies : call'.input = body /\ result' = FetchedModels(body)
    BY FetchStep
  <2> DEFINE given  == body.data
             listed == body.json = "list" \/ (body.json = "object" /\ given # Absent)
  <2>2. CASE ~listed
    <3>1. body.json = "null" \/ body.json = "garbage" \/ (body.json = "object" /\ given = Absent)
      BY <2>2, BodyCases
    <3>2. Decoded(body) = IF body.json = "null" THEN <<>> ELSE Refused
      BY <3>1 DEF Decoded
    <3>3. <<>> \in Lists
      BY LimitAssumption, Limited DEF Lists
    <3>4. result' = IF body.json = "null" THEN <<>> ELSE Refused
      BY <2>1, <3>2, <3>3, NilAssumption DEF FetchedModels
    <3> QED
      BY <2>1, <2>2, <3>1, <3>4 DEF ModelsListed
  <2>3. CASE listed /\ given = <<>>
    <3>1. Decoded(body) = IF body.json = "list" THEN <<>> ELSE Refused
      <4>1. Decodes(<<>>)
        BY DEF Decodes, ToSet
      <4> QED
        BY <2>3, <4>1 DEF Decoded
    <3>2. <<>> \in Lists
      BY LimitAssumption, Limited DEF Lists
    <3>3. result' = <<>> \/ (body.json = "object" /\ result' = Refused)
      BY <2>1, <2>3, <3>1, <3>2, NilAssumption DEF FetchedModels
    <3>4. body.json # "null"
      BY <2>3
    <3> QED
      BY <2>1, <2>3, <3>3, <3>4 DEF ModelsListed
  <2>4. CASE listed /\ given # <<>>
    <3>0. body.json \in {"list", "object"} /\ given \in Lists /\ given # Absent
      BY <2>4, BodyCases, NilAssumption
    <3>1. Decoded(body) = IF Mistyped \in ToSet(given) THEN Refused ELSE given
      BY <2>4, <3>0 DEF Decoded, Decodes
    <3>2. CASE Mistyped \in ToSet(given)
      <4>1. result' = Refused
        BY <2>1, <3>1, <3>2 DEF FetchedModels
      <4> QED
        BY <2>1, <2>4, <3>0, <3>2, <4>1 DEF ModelsListed
    <3>3. CASE Mistyped \notin ToSet(given)
      <4>1. given \in Seq(Models \cup {Mistyped})
        BY <3>0, LimitAssumption, Limited DEF Lists
      <4>2. result' = [n \in DOMAIN given |-> NameOf(given[n])]
        BY <2>1, <3>0, <3>1, <3>3, NilAssumption DEF FetchedModels
      <4>3. Len(given) \in Nat /\ DOMAIN given = 1..Len(given)
        BY <4>1
      <4>4. Len(result') = Len(given)
        BY <4>2, <4>3
      <4>5. \A n \in DOMAIN given :
               /\ result'[n] \in {given[n].id, given[n].name}
               /\ result'[n] = "" => given[n].id = "" /\ given[n].name = ""
        BY <4>2 DEF NameOf
      <4> QED
        BY <2>1, <2>4, <3>0, <3>3, <4>4, <4>5 DEF ModelsListed
    <3> QED
      BY <3>2, <3>3
  <2> QED
    BY <2>2, <2>3, <2>4
<1> QED
  BY <1>1, <1>2, PTL DEF Spec

-----------------------------------------------------------------------------
(* Generate as chat. *)

LEMMA GenerateStep ==
    ASSUME [Next]_vars, Is("generate")', ~UNCHANGED vars
    PROVE  \E req \in GenerateRequests, wild \in Ints :
              call'.input = req /\ result' = GeneratePayload(req, wild) /\ maxInt' = maxInt
BY DEF Next, Is, Ask, Return, HandleChat, HandleGenerate, AnswerStream, AnswerWhole, FetchModels

(* A request for generate read as one for chat differs in its messages alone. *)
LEMMA GenerateRequestFields ==
    ASSUME NEW req \in GenerateRequests
    PROVE  {"model", "format", "stream", "options", "system"} \subseteq DOMAIN req
<1>1. DOMAIN Prompt = {"system", "prompt", "images"}
  BY DEF Prompt
<1>2. \A q \in Prompts : DOMAIN q = {"system", "prompt", "images"}
  BY DEF Prompts
<1>3. PICK s \in Plain \cup Tuned, q \in Prompts \cup {Prompt} : req = With(s, q)
  BY DEF GenerateRequests
<1> QED
  BY <1>1, <1>2, <1>3, SettingFields DEF With

(* What generate makes of a prompt is what chat makes of one message. *)
LEMMA OneMessage ==
    ASSUME NEW q
    PROVE  /\ [n \in DOMAIN <<q>> |-> RequestMessage(<<q>>[n])] = <<RequestMessage(q)>>
           /\ [n \in DOMAIN <<>> |-> RequestMessage(<<>>[n])] = <<>>
           /\ <<>> \in Seq({q}) /\ <<q>> \in Seq({q})
<1>1. [n \in DOMAIN <<q>> |-> RequestMessage(<<q>>[n])] = <<RequestMessage(q)>>
  OBVIOUS
<1>2. [n \in DOMAIN <<>> |-> RequestMessage(<<>>[n])] = <<>>
  OBVIOUS
<1>3. <<>> \in Seq({q})
  OBVIOUS
<1>4. <<q>> \in Seq({q})
  OBVIOUS
<1> QED
  BY <1>1, <1>2, <1>3, <1>4

(* What chat makes of a request is the same on either side of a step. *)
LEMMA ChatOfBuild ==
    ASSUME maxInt' = maxInt, NEW req, NEW wild
    PROVE  ChatPayload(req, wild)' = ChatPayload(req, wild) /\ Ints' = Ints
<1>1. Ints' = Ints
  BY DEF Ints
<1>2. \A f : Int64(f, wild)' = Int64(f, wild)
  BY <1>1 DEF Int64
<1>3. applyOllamaOptions(req.options, wild)' = applyOllamaOptions(req.options, wild)
  BY <1>2 DEF applyOllamaOptions, getInt
<1> QED
  BY <1>1, <1>3 DEF ChatPayload

(* The two copies of the conversion agree whatever the prompt, the system
   prompt, the images and the options are.                                   *)
THEOREM OneConversion == Spec => []GenerateIsChat
<1>1. Init => GenerateIsChat
  BY DEF Init, GenerateIsChat, Is
<1>2. GenerateIsChat /\ [Next]_vars => GenerateIsChat'
  <2>u. CASE GenerateIsChat /\ UNCHANGED vars
    <3>1. call' = call /\ result' = result /\ maxInt' = maxInt
      BY <2>u DEF vars
    <3>2. \A q, wild : ChatPayload(q, wild)' = ChatPayload(q, wild) /\ Ints' = Ints
      BY <3>1, ChatOfBuild
    <3> QED
      BY <2>u, <3>1, <3>2 DEF GenerateIsChat, Is
  <2>r. CASE ~Is("generate")'
    BY <2>r DEF GenerateIsChat
  <2> SUFFICES ASSUME [Next]_vars, ~UNCHANGED vars, Is("generate")'
               PROVE  GenerateIsChat'
    BY <2>u, <2>r
  <2>1. PICK req \in GenerateRequests, wild \in Ints :
               call'.input = req /\ result' = GeneratePayload(req, wild) /\ maxInt' = maxInt
    BY GenerateStep
  <2> DEFINE asked   == AsChat(req)
             given   == IF req.prompt = "" /\ req.images = <<>> THEN <<>>
                        ELSE <<[role |-> "user", content |-> req.prompt, images |-> req.images]>>
             sending == [n \in DOMAIN given |-> RequestMessage(given[n])]
  <2>2. /\ asked.model = req.model /\ asked.system = req.system /\ asked.format = req.format
        /\ asked.stream = req.stream /\ asked.options = req.options
        /\ asked.messages = given
    BY GenerateRequestFields DEF AsChat, With
  <2>3. UserMessage(req) = sending
    <3>1. CASE req.prompt = "" /\ req.images = <<>>
      <4>1. given = <<>> /\ UserMessage(req) = <<>>
        BY <3>1 DEF UserMessage
      <4> HIDE DEF given
      <4> QED
        BY <4>1, OneMessage
    <3>2. CASE ~(req.prompt = "" /\ req.images = <<>>)
      <4> DEFINE q == [role |-> "user", content |-> req.prompt, images |-> req.images]
      <4>1. RequestMessage(q) = [role |-> "user", content |-> buildContentParts(req.prompt, req.images)]
        BY DEF RequestMessage
      <4>2. given = <<q>>
        BY <3>2
      <4>3. UserMessage(req) = <<RequestMessage(q)>>
        BY <3>2, <4>1 DEF UserMessage
      <4> HIDE DEF q, given
      <4>4. [n \in DOMAIN given |-> RequestMessage(given[n])] = <<RequestMessage(q)>>
        BY <4>2, OneMessage
      <4> QED
        BY <4>3, <4>4
    <3> QED
      BY <3>1, <3>2
  <2> HIDE DEF asked, given, sending
  <2>4. GenerateMessages(req) = System(req.system, UserMessage(req))
    BY DEF GenerateMessages, System
  <2>5. UserMessage(req) = <<>> <=> given = <<>>
    BY <2>3 DEF given, sending, UserMessage
  <2>6. System(req.system, UserMessage(req)) = <<>> <=> req.system = "" /\ given = <<>>
    <3> DEFINE q == [role |-> "user", content |-> buildContentParts(req.prompt, req.images)]
    <3>0. UserMessage(req) \in {<<>>, <<q>>}
      BY DEF UserMessage
    <3> HIDE DEF q
    <3>1. UserMessage(req) \in Seq({q})
      BY <3>0, OneMessage
    <3>2. CASE req.system = ""
      BY <2>5, <3>1, <3>2, NoSystem
    <3>3. CASE req.system # ""
      <4>1. System(req.system, UserMessage(req)) =
               <<SystemMessage(req.system)>> \o UserMessage(req)
        BY <3>1, <3>3, SystemFirst
      <4>2. Len(System(req.system, UserMessage(req))) = 1 + Len(UserMessage(req))
            /\ Len(UserMessage(req)) \in Nat
        BY <3>1, <4>1, Prefix
      <4>3. System(req.system, UserMessage(req)) # <<>>
        BY <4>2
      <4> QED
        BY <3>3, <4>3
    <3> QED
      BY <3>2, <3>3
  <2>7. [n \in DOMAIN asked.messages |-> RequestMessage(asked.messages[n])] = UserMessage(req)
    BY <2>2, <2>3 DEF sending
  <2>8. GenerateMessages(req) # <<>> => GeneratePayload(req, wild) = ChatPayload(asked, wild)
    BY <2>2, <2>4, <2>7 DEF GeneratePayload, ChatPayload
  <2>9. IF req.system = "" /\ asked.messages = <<>> THEN result' = Refused
        ELSE result' = ChatPayload(asked, wild)
    BY <2>1, <2>2, <2>4, <2>6, <2>8 DEF GeneratePayload
  <2>10. ChatPayload(asked, wild)' = ChatPayload(asked, wild) /\ Ints' = Ints
    BY <2>1, ChatOfBuild
  <2> QED
    BY <2>1, <2>9, <2>10 DEF GenerateIsChat, asked
<1> QED
  BY <1>1, <1>2, PTL DEF Spec

-----------------------------------------------------------------------------
(* Answers, streamed and whole. *)

LEMMA ChunkContent ==
    ASSUME NEW c \in Chunks
    PROVE  c.content \in Texts /\ (~Writes(c) => c.content = "")
BY TextAssumption DEF Chunks, Writes

LEMMA ContentsAppend ==
    ASSUME NEW q \in Seq(Chunks), NEW c \in Chunks
    PROVE  /\ Contents(q) \in Seq(Texts)
           /\ Contents(Append(q, c)) = Append(Contents(q), c.content)
<1>1. ASSUME NEW p \in Seq(Chunks)
      PROVE  /\ Contents(p) \in Seq(Texts) /\ Len(Contents(p)) = Len(p) /\ Len(p) \in Nat
             /\ \A i \in 1..Len(p) : Contents(p)[i] = p[i].content
  <2>1. DOMAIN p = 1..Len(p) /\ Len(p) \in Nat /\ \A i \in 1..Len(p) : p[i].content \in Texts
    <3>1. DOMAIN p = 1..Len(p) /\ Len(p) \in Nat /\ \A i \in 1..Len(p) : p[i] \in Chunks
      BY LenProperties, ElementOfSeq
    <3> QED
      BY <3>1, ChunkContent
  <2>2. Contents(p) = [i \in 1..Len(p) |-> p[i].content]
    BY <2>1 DEF Contents
  <2> QED
    BY <2>1, <2>2
<1> DEFINE long  == Append(q, c)
           texts == Append(Contents(q), c.content)
<1>2. /\ long \in Seq(Chunks) /\ Len(long) = Len(q) + 1 /\ long[Len(q) + 1] = c
      /\ \A i \in 1..Len(q) : long[i] = q[i]
  BY AppendProperties
<1>3. /\ texts \in Seq(Texts) /\ Len(texts) = Len(q) + 1 /\ texts[Len(q) + 1] = c.content
      /\ \A i \in 1..Len(q) : texts[i] = q[i].content
  <2>1. Contents(q) \in Seq(Texts) /\ c.content \in Texts
    BY <1>1, ChunkContent
  <2> HIDE DEF texts
  <2>2. /\ texts \in Seq(Texts) /\ Len(texts) = Len(Contents(q)) + 1
        /\ texts[Len(Contents(q)) + 1] = c.content
        /\ \A i \in 1..Len(Contents(q)) : texts[i] = Contents(q)[i]
    BY <2>1, AppendProperties DEF texts
  <2> QED
    BY <1>1, <2>2
<1> HIDE DEF long, texts
<1>4. \A i \in 1..(Len(q) + 1) : Contents(long)[i] = texts[i]
  <2> TAKE i \in 1..(Len(q) + 1)
  <2>1. i \in 1..Len(q) \/ i = Len(q) + 1
    BY <1>1
  <2> QED
    BY <1>1, <1>2, <1>3, <2>1
<1>5. Contents(long) = texts
  BY <1>1, <1>2, <1>3, <1>4, SeqEqual
<1> QED
  BY <1>1, <1>5 DEF long, texts

LEMMA NonEmptyAppend ==
    ASSUME NEW ts \in Seq(Texts), NEW x \in Texts
    PROVE  NonEmpty(Append(ts, x)) = IF x = "" THEN NonEmpty(ts) ELSE Append(NonEmpty(ts), x)
<1> DEFINE wanted == Texts \ {""}
<1>1. x \in wanted <=> x # ""
  OBVIOUS
<1>2. NonEmpty(ts) = Keep(ts, wanted) /\ NonEmpty(Append(ts, x)) = Keep(Append(ts, x), wanted)
  BY DEF NonEmpty
<1> HIDE DEF wanted
<1>3. Keep(Append(ts, x), wanted) =
         IF x \in wanted THEN Append(Keep(ts, wanted), x) ELSE Keep(ts, wanted)
  BY KeepAppend
<1> QED
  BY <1>1, <1>2, <1>3

(* Leaving out the chunks that are not written loses no text. *)
LEMMA WritesEveryText ==
    ASSUME NEW q \in Seq(Chunks)
    PROVE  NonEmpty(Contents(Keep(q, {c \in Chunks : Writes(c)}))) = NonEmpty(Contents(q))
<1> DEFINE W == {c \in Chunks : Writes(c)}
           T == {p \in Seq(Chunks) : NonEmpty(Contents(Keep(p, W))) = NonEmpty(Contents(p))}
<1>1. <<>> \in T
  <2>1. <<>> \in Seq(Chunks)
    OBVIOUS
  <2> QED
    BY <2>1, KeepEmpty
<1>2. ASSUME NEW p \in T, NEW c \in Chunks
      PROVE  Append(p, c) \in T
  <2>1. p \in Seq(Chunks) /\ Keep(p, W) \in Seq(Chunks) /\ Append(p, c) \in Seq(Chunks)
    BY KeepType, AppendProperties
  <2>2. NonEmpty(Contents(Keep(p, W))) = NonEmpty(Contents(p))
    OBVIOUS
  <2> HIDE DEF T
  <2>3. ASSUME NEW ts \in Seq(Texts), NEW x \in Texts
        PROVE  NonEmpty(Append(ts, x)) = IF x = "" THEN NonEmpty(ts) ELSE Append(NonEmpty(ts), x)
    BY NonEmptyAppend
  <2>4. ASSUME NEW s \in Seq(Chunks)
        PROVE  NonEmpty(Contents(Append(s, c))) =
                  IF c.content = "" THEN NonEmpty(Contents(s))
                  ELSE Append(NonEmpty(Contents(s)), c.content)
    <3>1. Contents(s) \in Seq(Texts) /\ Contents(Append(s, c)) = Append(Contents(s), c.content)
      BY ContentsAppend
    <3> QED
      BY <2>3, <3>1, ChunkContent
  <2>5. Keep(Append(p, c), W) = IF Writes(c) THEN Append(Keep(p, W), c) ELSE Keep(p, W)
    BY <2>1, KeepAppend
  <2> HIDE DEF W
  <2>6. NonEmpty(Contents(Keep(Append(p, c), W))) = NonEmpty(Contents(Append(p, c)))
    <3>1. CASE Writes(c)
      BY <2>1, <2>2, <2>4, <2>5, <3>1
    <3>2. CASE ~Writes(c)
      BY <2>1, <2>2, <2>4, <2>5, <3>2, ChunkContent
    <3> QED
      BY <3>1, <3>2
  <2> QED
    BY <2>1, <2>6 DEF T
<1> HIDE DEF T
<1>3. T = Seq(Chunks)
  BY <1>1, <1>2, SequencesByInduction DEF T
<1> QED
  BY <1>3 DEF T

LEMMA StreamStep ==
    ASSUME [Next]_vars, Is("stream")', ~UNCHANGED vars
    PROVE  \E chunks \in SeqOf(Chunks, MaxChunks) :
              call'.input = chunks /\ result' = StreamResponse(chunks)
BY DEF Next, Is, Ask, Return, HandleChat, HandleGenerate, AnswerStream, AnswerWhole, FetchModels

(* However many chunks an answer comes in, a stream tells what the whole answer
   tells: the same text, and the same reason unless it is not "stop".        *)
THEOREM StreamedAsWhole == Spec => []SameAnswer
<1>1. Init => SameAnswer
  BY DEF Init, SameAnswer, Is
<1>2. SameAnswer /\ [Next]_vars => SameAnswer'
  <2>u. CASE SameAnswer /\ UNCHANGED vars
    <3>1. call' = call /\ result' = result
      BY <2>u DEF vars
    <3> QED
      BY <2>u, <3>1 DEF SameAnswer, Is
  <2>r. CASE ~Is("stream")'
    BY <2>r DEF SameAnswer
  <2> SUFFICES ASSUME [Next]_vars, ~UNCHANGED vars, Is("stream")'
               PROVE  SameAnswer'
    BY <2>u, <2>r
  <2>1. PICK chunks \in SeqOf(Chunks, MaxChunks) :
               call'.input = chunks /\ result' = StreamResponse(chunks)
    BY StreamStep
  <2>2. ChoicesOf(chunks) \in Seq(Chunks)
    BY LimitAssumption, Limited, KeepType DEF ChoicesOf
  <2> DEFINE choices == ChoicesOf(chunks)
             whole   == [lines |-> Contents(choices), done_reason |-> "stop"]
  <2>3. NonEmpty(result'.lines) = NonEmpty(Contents(choices))
    BY <2>1, <2>2, WritesEveryText DEF StreamResponse
  <2>4. FinishReason(chunks) \in {"", "stop"} => result'.done_reason = "stop"
    BY <2>1 DEF StreamResponse
  <2>5. choices # <<>> => NonStreamResponse(chunks) = whole
    BY DEF NonStreamResponse
  <2>6. whole.lines = Contents(choices) /\ whole.done_reason = "stop"
    OBVIOUS
  <2> HIDE DEF whole
  <2> QED
    BY <2>1, <2>3, <2>4, <2>5, <2>6 DEF SameAnswer
<1> QED
  BY <1>1, <1>2, PTL DEF Spec

-----------------------------------------------------------------------------
(* Options: numbers. *)

LEMMA UlpIsLeast ==
    ASSUME NEW h \in Halves
    PROVE  /\ Ulp(h) \in Nat \ {0}
           /\ Abs(h) <= Mantissa => Ulp(h) = 1
           /\ Abs(h) <= 2 * Mantissa => Ulp(h) \in {1, 2}
<1> DEFINE T == {u \in Spacings : Reaches(u, h)}
<1>1. T \subseteq Nat /\ T # {}
  BY NumberAssumption, RangeAssumption
<1>2. PICK u \in T : \A v \in T : u <= v
  BY <1>1, LeastNumber
<1>3. /\ Ulp(h) \in Spacings
      /\ \A v \in Spacings : Reaches(v, h) => Ulp(h) <= v
  BY <1>2 DEF Ulp
<1>4. Abs(h) <= Mantissa => Reaches(1, h)
  BY NumberAssumption DEF Reaches
<1>5. Abs(h) <= 2 * Mantissa => Reaches(2, h)
  BY DEF Reaches
<1>6. Ulp(h) \in Nat \ {0} /\ 1 \in Spacings /\ 2 \in Spacings
  BY <1>3, NumberAssumption
<1>7. Abs(h) <= Mantissa => Ulp(h) <= 1
  BY <1>3, <1>4, <1>6
<1>8. Abs(h) <= 2 * Mantissa => Ulp(h) <= 2
  BY <1>3, <1>5, <1>6
<1> QED
  BY <1>6, <1>7, <1>8

(* Dividing with rest. *)
LEMMA DivisionRest ==
    ASSUME NEW h \in Int, NEW u \in Nat \ {0}
    PROVE  /\ u * (h \div u) \in Int
           /\ u * (h \div u) <= h /\ h < u * (h \div u) + u
OBVIOUS

LEMMA FloatIsNear ==
    ASSUME NEW h \in Halves
    PROVE  Float64(h) \in Int /\ Within(Float64(h), h)
<1> DEFINE u     == Ulp(h)
           below == u * (h \div u)
<1>1. h \in Int /\ u \in Nat \ {0}
  BY NumberAssumption, UlpIsLeast
<1>2. below \in Int /\ below <= h /\ h < below + u
  BY <1>1, DivisionRest
<1>3. \/ Float64(h) = below /\ 2 * (h - below) <= u
      \/ Float64(h) = below + u /\ 2 * (h - below) >= u
  <2> DEFINE even == (below \div u) % 2 = 0
  <2>1. Float64(h) = IF 2 * (h - below) < u \/ (2 * (h - below) = u /\ even)
                     THEN below ELSE below + u
    BY DEF Float64
  <2> HIDE DEF u, below, even
  <2> QED
    BY <1>1, <1>2, <2>1
<1> HIDE DEF below
<1>4. Float64(h) \in Int /\ 2 * Abs(Float64(h) - h) <= u
  <2> HIDE DEF u
  <2> QED
    BY <1>1, <1>2, <1>3 DEF Abs
<1> QED
  BY <1>4 DEF Within

LEMMA FloatIsExact ==
    ASSUME NEW h \in Halves, Exact(h)
    PROVE  Float64(h) = h
<1>1. h \in Int
  BY NumberAssumption
<1>2. CASE Ulp(h) = 1
  BY <1>1, <1>2 DEF Float64
<1>3. CASE Ulp(h) = 2 /\ h % 2 = 0
  <2>1. 2 * (h \div 2) = h
    BY <1>1, <1>3
  <2> QED
    BY <1>1, <1>3, <2>1 DEF Float64
<1> QED
  BY <1>1, <1>2, <1>3, UlpIsLeast, NumberAssumption DEF Exact, Abs

(* Cutting towards zero moves a number by less than one, and not away from zero. *)
Cut(f) == IF f >= 0 THEN f \div 2 ELSE -((-f) \div 2)

LEMMA CutIsNear ==
    ASSUME NEW f \in Int
    PROVE  Cut(f) \in Int /\ Abs(2 * Cut(f)) <= Abs(f) /\ Abs(f - 2 * Cut(f)) <= 1
BY DEF Cut, Abs

LEMMA IntIsTruncated ==
    ASSUME maxInt \in MaxInts, NEW h \in Halves, NEW wild \in Ints
    PROVE  Truncated(Int64(Float64(h), wild), h)
<1> DEFINE f == Float64(h)
           i == Int64(f, wild)
<1>1. h \in Int /\ f \in Int /\ maxInt \in Nat /\ Ulp(h) \in Nat
  BY FloatIsNear, UlpIsLeast, NumberAssumption
<1>2. i = IF Cut(f) \in Ints THEN Cut(f) ELSE wild
  BY DEF Int64, Cut
<1>3. Cut(f) \in Int /\ Abs(2 * Cut(f)) <= Abs(f) /\ Abs(f - 2 * Cut(f)) <= 1
  BY <1>1, CutIsNear
<1>4. 2 * Abs(f - h) <= Ulp(h)
  BY FloatIsNear DEF Within
<1>5. Exact(h) => f = h
  BY FloatIsExact
<1> HIDE DEF f, i
<1>6. i \in Ints
  BY <1>2
<1>7. ASSUME Exact(h), InRange(h)
      PROVE  Abs(2 * i) <= Abs(h) /\ Abs(h - 2 * i) < 2
  <2>1. Cut(f) \in Ints
    BY <1>1, <1>3, <1>5, <1>7 DEF InRange, Ints, Abs
  <2> QED
    BY <1>1, <1>2, <1>3, <1>5, <1>7, <2>1 DEF Abs
<1>8. ASSUME 2 * Abs(h) + Ulp(h) <= 4 * maxInt
      PROVE  2 * Abs(2 * i - h) <= Ulp(h) + 2
  <2>1. Cut(f) \in Ints
    BY <1>1, <1>3, <1>4, <1>8 DEF Ints, Abs
  <2> QED
    BY <1>1, <1>2, <1>3, <1>4, <2>1 DEF Abs
<1> QED
  BY <1>6, <1>7, <1>8 DEF Truncated, f, i

-----------------------------------------------------------------------------
(* Options: stops, and the requests that carry options. *)

LEMMA RequestOptions ==
    ASSUME NEW req \in ChatRequests \cup GenerateRequests
    PROVE  req.options \in Options
<1>1. \A s \in Plain \cup Tuned : s.options \in Options
  BY DEF Plain, Tuned, Options
<1>2. ASSUME NEW s \in Plain \cup Tuned, NEW q
      PROVE  With(s, q).options = s.options
  BY SettingFields DEF With
<1>3. PICK s \in Plain \cup Tuned : \E q : req = With(s, q)
  BY DEF ChatRequests, GenerateRequests
<1> QED
  BY <1>1, <1>2, <1>3

LEMMA OptionValue ==
    ASSUME NEW options \in Options, NEW key \in DOMAIN options
    PROVE  /\ options[key].json = "number" => options[key].half \in Halves
           /\ options[key].json = "list" => options[key].items \in Seq(Texts \cup {Mistyped})
<1>1. options[key] \in Values
  <2>1. CASE options = NoOptions
    BY <2>1 DEF NoOptions
  <2>2. CASE options # NoOptions
    <3>1. PICK k \in Keys : options \in [{k} -> Values]
      BY <2>2 DEF Options
    <3> QED
      BY <3>1
  <2> QED
    BY <2>1, <2>2
<1>2. SeqOf(Texts \cup {Mistyped}, MaxStops) \subseteq Seq(Texts \cup {Mistyped})
  BY LimitAssumption, Limited
<1> DEFINE v == options[key]
<1>3. \/ \E h \in Halves : v = Number(h)
      \/ v \in [json : {"list"}, items : SeqOf(Texts \cup {Mistyped}, MaxStops)]
      \/ v = [json |-> "string"]
  BY <1>1 DEF Values
<1> HIDE DEF v
<1>4. \A h : Number(h).json = "number" /\ Number(h).half = h
  BY DEF Number
<1>5. [json |-> "string"].json = "string"
  OBVIOUS
<1> QED
  BY <1>2, <1>3, <1>4, <1>5 DEF v

LEMMA FloatArrives ==
    ASSUME NEW options \in Options, NEW key
    PROVE  FloatKept(getFloat64(options, key), options, key)
BY OptionValue, FloatIsNear DEF FloatKept, getFloat64, IsNumber

LEMMA IntArrives ==
    ASSUME maxInt \in MaxInts, NEW options \in Options, NEW key, NEW wild \in Ints
    PROVE  IntKept(getInt(options, key, wild), options, key)
BY OptionValue, IntIsTruncated DEF IntKept, getInt, IsNumber

LEMMA StopsArrive ==
    ASSUME NEW options \in Options
    PROVE  StopsKept(stops(options), options)
<1>1. CASE "stop" \in DOMAIN options /\ options["stop"].json = "list"
  <2> DEFINE items == options["stop"].items
             strings == {n \in DOMAIN items : items[n] # Mistyped}
  <2>1. items \in Seq(Texts \cup {Mistyped})
    BY <1>1, OptionValue
  <2>2. strings = Places(items, Texts)
    <3>1. DOMAIN items = 1..Len(items) /\ \A n \in 1..Len(items) : items[n] \in Texts \cup {Mistyped}
      BY <2>1, LenProperties, ElementOfSeq
    <3> HIDE DEF items
    <3> QED
      BY <3>1, NilAssumption DEF Places
  <2>3. stops(options) = Keep(items, Texts)
    BY <1>1 DEF stops
  <2> HIDE DEF items
  <2>4. Len(Keep(items, Texts)) = Cardinality(Places(items, Texts))
        /\ \E at : Order(at, items, Texts)
    BY <2>1, KeepsInOrder
  <2> QED
    BY <1>1, <2>2, <2>3, <2>4 DEF StopsKept, Order, items
<1>2. CASE ~("stop" \in DOMAIN options /\ options["stop"].json = "list")
  BY <1>2 DEF StopsKept, stops
<1> QED
  BY <1>1, <1>2

LEMMA RequestStep ==
    ASSUME [Next]_vars, (Is("chat") \/ Is("generate"))', result' # Refused, ~UNCHANGED vars
    PROVE  \E req \in ChatRequests \cup GenerateRequests, wild \in Ints :
              /\ call'.input = req /\ maxInt' = maxInt
              /\ result'.options = applyOllamaOptions(req.options, wild)
<1>1. CASE Is("chat")'
  <2>1. PICK req \in ChatRequests, wild \in Ints :
               call'.input = req /\ result' = ChatPayload(req, wild) /\ maxInt' = maxInt
    BY <1>1, ChatStep
  <2>2. result'.options = applyOllamaOptions(req.options, wild)
    BY <2>1 DEF ChatPayload
  <2> QED
    BY <2>1, <2>2
<1>2. CASE Is("generate")'
  <2>1. PICK req \in GenerateRequests, wild \in Ints :
               call'.input = req /\ result' = GeneratePayload(req, wild) /\ maxInt' = maxInt
    BY <1>2, GenerateStep
  <2>2. result'.options = applyOllamaOptions(req.options, wild)
    BY <2>1 DEF GeneratePayload
  <2> QED
    BY <2>1, <2>2
<1>3. Is("chat")' \/ Is("generate")'
  BY DEF Is
<1> QED
  BY <1>1, <1>2, <1>3

(* Every option of every number and every list of stops arrives in its field:
   the float next to it; the integer towards zero, if an int of the build's width
   can hold it; the strings in order.                                        *)
THEOREM OptionsArrive == Spec => []OptionsKept
<1>1. Init => OptionsKept
  BY DEF Init, OptionsKept, Is
<1>2. maxInt \in MaxInts /\ OptionsKept /\ [Next]_vars => OptionsKept'
  <2>u. CASE OptionsKept /\ UNCHANGED vars
    <3>1. call' = call /\ result' = result /\ maxInt' = maxInt
      BY <2>u DEF vars
    <3> QED
      BY <2>u, <3>1 DEF OptionsKept, Is, IntKept, Truncated, InRange, Ints
  <2>r. CASE ~((Is("chat") \/ Is("generate"))' /\ result' # Refused)
    BY <2>r DEF OptionsKept
  <2> SUFFICES ASSUME maxInt \in MaxInts, [Next]_vars, ~UNCHANGED vars, (Is("chat") \/ Is("generate"))',
                      result' # Refused
               PROVE  OptionsKept'
    BY <2>u, <2>r
  <2>1. PICK req \in ChatRequests \cup GenerateRequests, wild \in Ints :
               /\ call'.input = req /\ maxInt' = maxInt
               /\ result'.options = applyOllamaOptions(req.options, wild)
    BY RequestStep
  <2> DEFINE given == req.options
             sent  == result'.options
  <2>2. given \in Options
    BY RequestOptions
  <2>3. /\ sent.temperature = getFloat64(given, "temperature")
        /\ sent.top_p = getFloat64(given, "top_p")
        /\ sent.max_tokens = getInt(given, "num_predict", wild)
        /\ sent.frequency_penalty = getFloat64(given, "frequency_penalty")
        /\ sent.presence_penalty = getFloat64(given, "presence_penalty")
        /\ sent.seed = getInt(given, "seed", wild)
        /\ sent.stop = stops(given)
    BY <2>1 DEF applyOllamaOptions
  <2>4. /\ FloatKept(sent.temperature, given, "temperature")
        /\ FloatKept(sent.top_p, given, "top_p")
        /\ FloatKept(sent.frequency_penalty, given, "frequency_penalty")
        /\ FloatKept(sent.presence_penalty, given, "presence_penalty")
    BY <2>2, <2>3, FloatArrives
  <2>5. IntKept(sent.max_tokens, given, "num_predict") /\ IntKept(sent.seed, given, "seed")
    BY <2>2, <2>3, IntArrives
  <2>i. \A i, key : IntKept(i, given, key)' = IntKept(i, given, key)
    BY <2>1 DEF IntKept, Truncated, InRange, Ints
  <2>6. StopsKept(sent.stop, given)
    BY <2>2, <2>3, StopsArrive
  <2> QED
    BY <2>1, <2>4, <2>5, <2>6, <2>i DEF OptionsKept
<1> QED
  BY <1>1, <1>2, SameBuild, PTL DEF Spec
=============================================================================
