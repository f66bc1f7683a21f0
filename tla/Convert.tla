------------------------------- MODULE Convert -------------------------------
(***************************************************************************)
(* What the proxy makes of data: an Ollama request becomes an OpenAI one,  *)
(* an OpenAI answer, whole or in chunks, an Ollama answer, and the list of *)
(* upstream's models the list of /api/tags.  chat and generate are two     *)
(* copies of one conversion, and each answers in two ways.                 *)
(*                                                                         *)
(* There is no state: call is the latest input, result what became of it;  *)
(* maxInt belongs to the build, whose int has 32 bits or 64.               *)
(* A JSON number is counted in halves.  It passes through a float64, exact *)
(* up to Mantissa halves, and, where an integer is wanted, on to an int of *)
(* limited width.                                                          *)
(***************************************************************************)
EXTENDS Integers, Sequences, FiniteSets, SequencesExt, Loops

CONSTANTS Texts,            \* contents, the empty one among them
          Formats,          \* what the first bytes of an image say
          Halves,           \* JSON numbers, in halves
          Mantissa,         \* halves up to here are exact in a float64 (2^53)
          Spacings,         \* of the floats, in halves: 1, 2, 4, ... (2^970)
          MaxInts,          \* the largest ints of the builds (2^31 - 1, 2^63 - 1)
          MaxMessages, MaxImages, MaxStops, MaxChunks, MaxModels,
          Absent, Refused, Mistyped, NoCall

ASSUME NumberAssumption == /\ Mantissa \in Nat \ {0} /\ MaxInts \subseteq Nat
                           /\ Halves \subseteq Int
                           /\ Spacings \subseteq Nat \ {0} /\ {1, 2} \subseteq Spacings
ASSUME TextAssumption == {"", "a"} \subseteq Texts
ASSUME LimitAssumption == {MaxMessages, MaxImages, MaxStops, MaxChunks, MaxModels} \subseteq Nat

VARIABLES call, result, maxInt
vars == <<call, result, maxInt>>

-----------------------------------------------------------------------------
(* Messages. *)

Mime == [jpeg |-> "image/jpeg", png |-> "image/png", gif |-> "image/gif",
         webp |-> "image/webp", unknown |-> "image/jpeg"]
detectImageMIME(image) == Mime[image]

Part(type, text, mime, image) == [type |-> type, text |-> text, mime |-> mime, image |-> image]
TextPart(text)   == Part("text", text, Absent, Absent)
ImagePart(image) == Part("image_url", Absent, detectImageMIME(image), image)

(* A message without images has a string for its content, one with images has
   parts; both are a sequence of parts here.                                 *)
buildContentParts(text, images) ==
    <<TextPart(text)>> \o [n \in DOMAIN images |-> ImagePart(images[n])]

RequestMessage(m) == [role |-> m.role, content |-> buildContentParts(m.content, m.images)]

System_Last(system, messages) ==
    messages \o (IF system = "" THEN <<>>
                 ELSE <<[role |-> "system", content |-> <<TextPart(system)>>]>>)
System(system, messages) ==
    (IF system = "" THEN <<>>
     ELSE <<[role |-> "system", content |-> <<TextPart(system)>>]>>) \o messages

-----------------------------------------------------------------------------
(* Options. *)

(* The spacing of floats around a number, and the float next to it, the even
   one of two.                                                               *)
Abs(h) == IF h >= 0 THEN h ELSE -h
Reaches(spacing, h) == Abs(h) <= spacing * Mantissa
Ulp(h) == CHOOSE u \in Spacings : /\ Reaches(u, h)
                                  /\ \A v \in Spacings : Reaches(v, h) => u <= v
ASSUME RangeAssumption == \A h \in Halves : \E u \in Spacings : Reaches(u, h)
Float64(h) == LET below == Ulp(h) * (h \div Ulp(h))
                  rest  == 2 * (h - below)
                  even  == (below \div Ulp(h)) % 2 = 0
              IN  IF rest < Ulp(h) \/ (rest = Ulp(h) /\ even) THEN below ELSE below + Ulp(h)

Number(h) == [json |-> "number", half |-> h]
IsNumber(options, key) == key \in DOMAIN options /\ options[key].json = "number"

getFloat64(options, key) ==
    IF IsNumber(options, key) THEN Float64(options[key].half) ELSE Absent

(* int(f): towards zero; beyond the width what comes out, wild, depends on the
   build.                                                                    *)
Ints == (-maxInt - 1)..maxInt
Int64_Floor(f, wild) == IF f \div 2 \in Ints THEN f \div 2 ELSE wild
Int64(f, wild) ==
    LET i == IF f >= 0 THEN f \div 2 ELSE -((-f) \div 2)
    IN  IF i \in Ints THEN i ELSE wild

getInt(options, key, wild) ==
    IF IsNumber(options, key) THEN Int64(Float64(options[key].half), wild) ELSE Absent

(* Only a list of stops counts, and of it only the strings. *)
stops(options) ==
    IF "stop" \in DOMAIN options /\ options["stop"].json = "list"
    THEN Keep(options["stop"].items, Texts)
    ELSE <<>>

applyOllamaOptions(options, wild) ==
    [temperature       |-> getFloat64(options, "temperature"),
     top_p             |-> getFloat64(options, "top_p"),
     max_tokens        |-> getInt(options, "num_predict", wild),
     frequency_penalty |-> getFloat64(options, "frequency_penalty"),
     presence_penalty  |-> getFloat64(options, "presence_penalty"),
     seed              |-> getInt(options, "seed", wild),
     stop              |-> stops(options)]

ollamaFormatToResponseFormat(format) ==
    CASE format = "json"   -> "json_object"
      [] format = "schema" -> "json_schema"
      [] OTHER             -> Absent

-----------------------------------------------------------------------------
(* handleChat and handleGenerate up to the payload. *)

ChatPayload(req, wild) ==
    IF req.model = "" THEN Refused
    ELSE [model |-> req.model,
          messages |-> System(req.system, [n \in DOMAIN req.messages |->
                                              RequestMessage(req.messages[n])]),
          stream |-> IF req.stream = Absent THEN TRUE ELSE req.stream,
          response_format |-> ollamaFormatToResponseFormat(req.format),
          options |-> applyOllamaOptions(req.options, wild)]

(* prompt and images make one message of the user, if there are any. *)
UserMessage_PromptOnly(req) ==
    IF req.prompt = "" THEN <<>>
    ELSE <<[role |-> "user", content |-> buildContentParts(req.prompt, req.images)]>>
UserMessage(req) ==
    IF req.prompt = "" /\ req.images = <<>> THEN <<>>
    ELSE <<[role |-> "user", content |-> buildContentParts(req.prompt, req.images)]>>

GenerateMessages(req) ==
    (IF req.system = "" THEN <<>>
     ELSE <<[role |-> "system", content |-> <<TextPart(req.system)>>]>>) \o UserMessage(req)

GeneratePayload(req, wild) ==
    IF req.model = "" \/ GenerateMessages(req) = <<>> THEN Refused
    ELSE [model |-> req.model,
          messages |-> GenerateMessages(req),
          stream |-> IF req.stream = Absent THEN TRUE ELSE req.stream,
          response_format |-> ollamaFormatToResponseFormat(req.format),
          options |-> applyOllamaOptions(req.options, wild)]

-----------------------------------------------------------------------------
(* Answers.  An answer is the chunks it is streamed in; a chunk is one choice,
   none, or JSON of another shape.                                           *)

Chunks == [kind : {"choice"}, content : Texts, finish : {Absent, "", "stop", "length"}]
          \cup [kind : {"none", "malformed"}, content : {""}, finish : {Absent}]

ChoicesOf(chunks) == Keep(chunks, {c \in Chunks : c.kind = "choice"})
Contents(choices) == [n \in DOMAIN choices |-> choices[n].content]
NonEmpty(texts)   == Keep(texts, Texts \ {""})

(* The finish reason of the last chunk that has one. *)
FinishReason(chunks) ==
    LET given == Keep(ChoicesOf(chunks), {c \in Chunks : c.finish # Absent})
    IN  IF given = <<>> THEN "" ELSE Last(given).finish

(* streamChatResponse, streamGenerateResponse: a line for each chunk with
   content or with a finish reason, and the final line.                      *)
Writes_UnlessFinished(c) == c.content # "" /\ c.finish = Absent
Writes(c) == c.content # "" \/ c.finish # Absent
StreamResponse(chunks) ==
    LET written == Keep(ChoicesOf(chunks), {c \in Chunks : Writes(c)})
    IN  [lines |-> Contents(written),
         done_reason |-> IF FinishReason(chunks) = "" THEN "stop" ELSE FinishReason(chunks)]

(* nonStreamChatResponse, nonStreamGenerateResponse: the first choice of an
   answer that has one; its finish reason is not looked at.                  *)
NonStreamResponse(chunks) ==
    IF ChoicesOf(chunks) = <<>> THEN Refused
    ELSE [lines |-> Contents(ChoicesOf(chunks)), done_reason |-> "stop"]

-----------------------------------------------------------------------------
(* fetchModels: the decoding of /api/models. *)

Models == [id : Texts, name : Texts]

Decodes(items) == Mistyped \notin ToSet(items)

(* The body as a wrapper, then as a list; null passes for either. *)
Decoded(body) ==
    CASE body.json = "object" /\ body.data \notin {Absent, <<>>} /\ Decodes(body.data) -> body.data
      [] body.json = "list" /\ Decodes(body.data) -> body.data
      [] body.json = "null"                       -> <<>>
      [] OTHER                                    -> Refused

NameOf_IdOnly(m) == m.id
NameOf(m) == IF m.id # "" THEN m.id ELSE m.name

FetchedModels(body) ==
    IF Decoded(body) = Refused THEN Refused
    ELSE [n \in DOMAIN Decoded(body) |-> NameOf(Decoded(body)[n])]
-----------------------------------------------------------------------------
(* The inputs: conversations under plain options, a short conversation under
   every option, format and stream flag.                                     *)

Images   == SeqOf(Formats, MaxImages)
Messages == [role : {"user", "assistant"}, content : Texts, images : Images]

Values == {Number(h) : h \in Halves}
          \cup [json : {"list"}, items : SeqOf(Texts \cup {Mistyped}, MaxStops)]
          \cup {[json |-> "string"]}
Keys   == {"temperature", "top_p", "num_predict", "frequency_penalty", "presence_penalty",
           "seed", "stop"}
NoOptions == [key \in {} |-> Absent]
Options == {NoOptions} \cup UNION {[{key} -> Values] : key \in Keys}

Plain == [model : {"m", ""}, format : {Absent}, stream : {Absent}, options : {NoOptions}]
Tuned == [model : {"m"}, format : {Absent}, stream : {Absent}, options : Options]
         \cup [model : {"m"}, format : {Absent, "json", "schema", "other"},
               stream : {Absent, TRUE, FALSE}, options : {NoOptions}]

With(settings, request) ==
    [key \in DOMAIN settings \cup DOMAIN request |->
        IF key \in DOMAIN settings THEN settings[key] ELSE request[key]]

Conversations == [system : Texts, messages : SeqOf(Messages, MaxMessages)]
Prompts       == [system : Texts, prompt : Texts, images : Images]
Question == [role |-> "user", content |-> "a", images |-> <<>>]
Dialogue == [system |-> "", messages |-> <<Question>>]
Prompt   == [system |-> "", prompt |-> "a", images |-> <<>>]

ChatRequests     == {With(s, q) : s \in Plain, q \in Conversations}
                    \cup {With(s, Dialogue) : s \in Tuned}
GenerateRequests == {With(s, q) : s \in Plain, q \in Prompts}
                    \cup {With(s, Prompt) : s \in Tuned}

Lists  == SeqOf(Models \cup {Mistyped}, MaxModels)
Bodies == [json : {"list"}, data : Lists] \cup [json : {"object"}, data : Lists \cup {Absent}]
          \cup {[json |-> "null"], [json |-> "garbage"]}
ASSUME NilAssumption == Absent \notin Lists /\ Refused \notin Lists /\ Mistyped \notin Models \cup Texts

Init == call = NoCall /\ result = Refused /\ maxInt \in MaxInts

Ask(op, input, output) ==
    call' = [op |-> op, input |-> input] /\ result' = output /\ UNCHANGED maxInt

HandleChat ==
    \E req \in ChatRequests, wild \in Ints :
        Ask("chat", req, ChatPayload(req, wild))
HandleGenerate ==
    \E req \in GenerateRequests, wild \in Ints :
        Ask("generate", req, GeneratePayload(req, wild))
AnswerStream ==
    \E chunks \in SeqOf(Chunks, MaxChunks) : Ask("stream", chunks, StreamResponse(chunks))
AnswerWhole ==
    \E chunks \in SeqOf(Chunks, MaxChunks) : Ask("whole", chunks, NonStreamResponse(chunks))
FetchModels ==
    \E body \in Bodies : Ask("models", body, FetchedModels(body))

Return == call # NoCall /\ call' = NoCall /\ result' = Refused /\ UNCHANGED maxInt

Next == \/ /\ call = NoCall
           /\ HandleChat \/ HandleGenerate \/ AnswerStream \/ AnswerWhole \/ FetchModels
        \/ Return

Spec == Init /\ [][Next]_vars

-----------------------------------------------------------------------------
(* Properties. *)

Is(op) == call # NoCall /\ call.op = op

(* What upstream can read in a message: the text and, after it, the images. *)
TextOf(m)   == m.content[1].text
ImagesOf(m) == [n \in 1..(Len(m.content) - 1) |-> m.content[n + 1].image]

(* The conversation arrives as it was: the system prompt first, then every
   message in its place with its text and its images in order (handleChat
   45-51, buildContentParts 112-125).                                        *)
NothingLost == Is("chat") /\ result # Refused =>
    LET sent   == result.messages
        system == IF call.input.system = "" THEN 0 ELSE 1
    IN  /\ Len(sent) = system + Len(call.input.messages)
        /\ system = 1 => sent[1].role = "system" /\ TextOf(sent[1]) = call.input.system
        /\ \A n \in DOMAIN call.input.messages :
              LET m == sent[system + n]
              IN  [role |-> m.role, content |-> TextOf(m), images |-> ImagesOf(m)]
                      = call.input.messages[n]

(* An option arrives in the field that is its own and in no other, zero
   included: the float next to it, or an int, which is the number cut towards
   zero where floats are exact, and next to that where they are not, if it is in
   the range of the build's int; stops arrive in order, without what is no string
   (applyOllamaOptions 128-168, getInt 66-67).                               *)
Within(value, h) == 2 * Abs(value - h) <= Ulp(h)
Exact(h)         == Abs(h) <= (IF h % 2 = 0 THEN 2 * Mantissa ELSE Mantissa)
InRange(h)       == -2 * maxInt - 4 < h /\ h < 2 * maxInt + 2
Truncated(i, h)  ==
    /\ i \in Ints
    /\ Exact(h) /\ InRange(h) => Abs(2 * i) <= Abs(h) /\ Abs(h - 2 * i) < 2
    /\ 2 * Abs(h) + Ulp(h) <= 4 * maxInt => 2 * Abs(2 * i - h) <= Ulp(h) + 2
FloatKept(field, given, key) ==
    IF IsNumber(given, key) THEN Within(field, given[key].half) ELSE field = Absent
IntKept(field, given, key) ==
    IF IsNumber(given, key) THEN Truncated(field, given[key].half) ELSE field = Absent
StopsKept(sent, given) ==
    IF "stop" \in DOMAIN given /\ given["stop"].json = "list"
    THEN LET items   == given["stop"].items
             strings == {n \in DOMAIN items : items[n] # Mistyped}
         IN  /\ Len(sent) = Cardinality(strings)
             /\ \E at \in [DOMAIN sent -> strings] :
                   /\ \A n \in DOMAIN at : sent[n] = items[at[n]]
                   /\ \A m, n \in DOMAIN at : m < n => at[m] < at[n]
    ELSE sent = <<>>
OptionsKept == (Is("chat") \/ Is("generate")) /\ result # Refused =>
    LET sent  == result.options
        given == call.input.options
    IN  /\ FloatKept(sent.temperature, given, "temperature")
        /\ FloatKept(sent.top_p, given, "top_p")
        /\ FloatKept(sent.frequency_penalty, given, "frequency_penalty")
        /\ FloatKept(sent.presence_penalty, given, "presence_penalty")
        /\ IntKept(sent.max_tokens, given, "num_predict")
        /\ IntKept(sent.seed, given, "seed")
        /\ StopsKept(sent.stop, given)

(* The two copies of the conversion agree: generate sends what chat sends for
   one message of the user, except that chat forwards a conversation without any
   message where generate answers 400 (handleGenerate 44-64, handleChat 44-59). *)
AsChat(req) ==
    With([messages |-> IF req.prompt = "" /\ req.images = <<>> THEN <<>>
                       ELSE <<[role |-> "user", content |-> req.prompt, images |-> req.images]>>],
         req)
GenerateIsChat == Is("generate") =>
    IF call.input.system = "" /\ AsChat(call.input).messages = <<>>
    THEN result = Refused
    ELSE \E wild \in Ints : result = ChatPayload(AsChat(call.input), wild)

(* A client is told the same whether it asks for a stream or not, if upstream's
   answer has a choice and ends with no other reason than "stop": then the lines
   put together are the whole content (streamChatResponse 158-211,
   nonStreamChatResponse 106-129).                                           *)
SameAnswer == Is("stream") /\ ChoicesOf(call.input) # <<>> =>
    LET whole == NonStreamResponse(call.input)
    IN  /\ NonEmpty(result.lines) = NonEmpty(whole.lines)
        /\ FinishReason(call.input) \in {"", "stop"} => result.done_reason = whole.done_reason

(* Every model of upstream is listed, in order and by a name it has; null and a
   list without models list none, what cannot be read is refused.  That a wrapper
   without models is refused too is not asked for: line 168 takes any wrapper
   for a list (fetchModels 166-203).                                         *)
ModelsListed == Is("models") =>
    LET body   == call.input
        listed == body.json = "list" \/ (body.json = "object" /\ body.data # Absent)
    IN  CASE body.json = "null" -> result = <<>>
          [] ~listed /\ body.json # "null" -> result = Refused
          [] listed /\ body.data = <<>> ->
                result = <<>> \/ (body.json = "object" /\ result = Refused)
          [] listed /\ body.data # <<>> ->
                IF Mistyped \in ToSet(body.data) THEN result = Refused
                ELSE /\ Len(result) = Len(body.data)
                     /\ \A n \in DOMAIN body.data :
                           LET m == body.data[n]
                           IN  /\ result[n] \in {m.id, m.name}
                               /\ result[n] = "" => m.id = "" /\ m.name = ""
=============================================================================
