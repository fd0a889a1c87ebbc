------------------------------ MODULE Exchange ------------------------------
(***************************************************************************)
(* One exchange through the gateway's codecs: a client's request is read   *)
(* and written for the upstream the plan names, and the upstream's answer  *)
(* is read and written for the client.  Each has one of three protocols.   *)
(***************************************************************************)
EXTENDS UpstreamCodec

CONSTANTS Asked,        \* the clients' requests
          Answers(_, _) \* the answers an upstream of a protocol gives to a request

VARIABLES stage,        \* "read", "sent", "answered", or how the exchange ended
          asked,        \* the client's request
          upstream,     \* [protocol, compat]
          payload,      \* the request the upstream gets
          answer,       \* what it answers
          told          \* what the client gets

exchangeVars == <<stage, asked, upstream, payload, answer, told>>

Upstreams == [protocol : {"anthropic", "openai_chat", "responses"}, compat : {FALSE}]
             \cup {[protocol |-> "responses", compat |-> TRUE]}
NoPayload == [system |-> << >>, turns |-> << >>, tools |-> << >>]
NoAnswer == [choices |-> FALSE, text |-> << >>, reasoning |-> << >>, blocks |-> << >>, finish |-> ""]
NoReply == [content |-> << >>, finish |-> ""]

ExchangeInit(requests, upstreams) ==
  /\ stage = "read" /\ asked \in requests
  /\ upstream \in upstreams
  /\ payload = NoPayload /\ answer = NoAnswer /\ told = NoReply

-----------------------------------------------------------------------------
(* Handle: a request without content, or that cannot be read, is answered  *)
(* 400.  Method and model are right, and the body is JSON.                 *)
hasContent(req) == IF req.protocol = "responses" THEN req.input # Absent ELSE req.messages # << >>

Refuse ==
  /\ stage = "read" /\ ~(hasContent(asked) /\ accepts(asked))
  /\ stage' = "refused"
  /\ UNCHANGED <<asked, upstream, payload, answer, told>>

(* ChatCompletion up to the upstream: the request is written, or cannot    *)
(* be, and the client gets an error.                                       *)
encode(req) ==
  CASE upstream.protocol = "anthropic" -> encodeAnthropicMessagesRequest(req)
    [] upstream.protocol = "openai_chat" -> encodeOpenAIChatRequest(req)
    [] OTHER -> encodeOpenAIResponsesRequest(req, upstream.compat)

encodable(req) ==
  CASE upstream.protocol = "anthropic" -> marshals(encodeAnthropicMessagesRequest(req))
    [] upstream.protocol = "responses" -> validateOpenAIResponsesRequest(req, upstream.compat)
    [] OTHER -> TRUE

Send ==
  /\ stage = "read" /\ hasContent(asked) /\ accepts(asked)
  /\ LET req == buildRuntimeRequest(asked)
     IN  IF encodable(req) THEN stage' = "sent" /\ payload' = encode(req)
         ELSE stage' = "unsupported" /\ UNCHANGED payload
  /\ UNCHANGED <<asked, upstream, answer, told>>

(* completionWithCredential and completionWithAPIKey: an answer without    *)
(* content or calls is a fatal error.                                      *)
decode(a) ==
  CASE upstream.protocol = "anthropic" -> decodeAnthropicMessagesResponse(a)
    [] upstream.protocol = "openai_chat" -> decodeOpenAIChatResponse(a)
    [] OTHER -> decodeOpenAIResponsesResponse(a)

isEmpty(reply) == reply.parts = << >> /\ reply.calls = << >>

Answer ==
  /\ stage = "sent"
  /\ \E a \in Answers(upstream.protocol, asked) :
       /\ answer' = a
       /\ stage' = IF (upstream.protocol = "openai_chat" /\ ~a.choices) \/ isEmpty(decode(a)) THEN "fatal" ELSE "answered"
  /\ UNCHANGED <<asked, upstream, payload, told>>

-----------------------------------------------------------------------------
(* The client's answer: arguments that are no JSON become {}.              *)
asInput(raw) == IF raw.form \in {"none", "bad"} THEN Json("compact", "{}") ELSE Json("compact", asFloat(raw.doc))

writePart(part) ==
  IF part.kind = "text" THEN part
  ELSE IF part.json.form = "bad" THEN part ELSE DataSegment(Json("compact", asFloat(part.json.doc)))

writeAnthropicMessageResponse(reply) ==
  [content |-> [i \in DOMAIN reply.parts |-> writePart(reply.parts[i])] \o
               [i \in DOMAIN reply.calls |-> CallSegment(reply.calls[i].id, reply.calls[i].name, "", asInput(reply.calls[i].json))],
   finish |-> CASE reply.finish = "tool_use" -> "tool_use" [] reply.finish = "length" -> "max_tokens" [] OTHER -> "end_turn"]

writeOpenAIChatResponse(reply) ==
  [content |-> TextIfAny(firstTextPart(reply)) \o
               [i \in DOMAIN reply.calls |-> CallSegment(reply.calls[i].id, reply.calls[i].name, "", reply.calls[i].json)],
   finish |-> CASE reply.finish = "tool_use" -> "tool_calls" [] reply.finish = "length" -> "length" [] OTHER -> "stop"]

buildOpenAIResponsesOutput(reply) ==
  [content |-> [i \in DOMAIN reply.parts |-> writePart(reply.parts[i])] \o
               [i \in DOMAIN reply.calls |->
                  IF reply.calls[i].type = "custom" THEN [reply.calls[i] EXCEPT !.json = NoJson]
                  ELSE CallSegment(reply.calls[i].id, reply.calls[i].name, "", asInput(reply.calls[i].json))],
   finish |-> ""]

WriteAnswer ==
  /\ stage = "answered" /\ stage' = "written"
  /\ told' = CASE asked.protocol = "anthropic" -> writeAnthropicMessageResponse(decode(answer))
               [] asked.protocol = "openai_chat" -> writeOpenAIChatResponse(decode(answer))
               [] OTHER -> buildOpenAIResponsesOutput(decode(answer))
  /\ UNCHANGED <<asked, upstream, payload, answer>>

ExchangeNext == Refuse \/ Send \/ Answer \/ WriteAnswer

-----------------------------------------------------------------------------
(* What is said, told word by word: texts and JSON documents with the role *)
(* that says them, calls, and results with the words they hold.            *)
Saying(role, segment) == [role |-> role, segment |-> segment]
Words(role, text) == [i \in DOMAIN text |-> Saying(role, TextSegment(<<text[i]>>))]
Calls(id, name, input, text) ==
  <<Saying("", [CallSegment(id, name, "", Json("compact", input.doc)) EXCEPT !.text = text])>>
Results(id, text, isError) == <<Saying("", ResultSegment(id, "", <<TextSegment(text)>>, isError))>>

(* Blocks of no kind the codecs know, images among them. *)
UnknownBlock(role) == <<Saying(role, SegmentOf("unknown"))>>
KnownBlocks(events) == SelectSeq(events, LAMBDA e : e.segment.kind # "unknown")

(* The same with numbers as float64 holds them. *)
roundedText(text) == [i \in DOMAIN text |-> asFloat(text[i])]
Rounded(events) ==
  [i \in DOMAIN events |->
     [events[i] EXCEPT !.segment.text = roundedText(@), !.segment.json.doc = asFloat(@),
                       !.segment.content = [j \in DOMAIN @ |-> [@[j] EXCEPT !.text = roundedText(@)]]]]
SameButRounded(events, others) == Rounded(events) = Rounded(others)

Marks(events) == SelectSeq(events, LAMBDA e : e.segment.kind \in {"call", "result"})
MarkIDs(events) == [i \in DOMAIN Marks(events) |-> Marks(events)[i].segment.id]
CallsLast(events) ==
  SelectSeq(events, LAMBDA e : e.segment.kind # "call") \o SelectSeq(events, LAMBDA e : e.segment.kind = "call")

(* Of written segments.                                                    *)
segmentText(s) == IF s.kind = "text" THEN s.text ELSE asWord(s.json)
heardSegment(role, s) ==
  CASE s.kind \in {"text", "data"} -> Words(role, segmentText(s))
    [] s.kind = "call" -> Calls(s.id, s.name, s.json, s.text)
    [] OTHER -> Results(s.id, FlattenSeq([i \in DOMAIN s.content |-> segmentText(s.content[i])]), s.isError)
heardTurn(turn) == FlattenSeq([i \in DOMAIN turn.segments |-> heardSegment(turn.role, turn.segments[i])])

UpstreamHears ==
  Words("system", payload.system) \o FlattenSeq([i \in DOMAIN payload.turns |-> heardTurn(payload.turns[i])])

(* Of what a client writes: blocks, leading reminders left out.  A block   *)
(* of an unknown kind within a result is {} for an Anthropic client, and   *)
(* nothing for a Responses client.                                         *)
contentText(c) ==
  CASE c.form = "blocks" ->
         FlattenSeq([i \in DOMAIN c.blocks |->
           CASE c.blocks[i].kind \in TextTypes -> c.blocks[i].text
             [] c.blocks[i].kind = "json" -> asWord(c.blocks[i].json)
             [] OTHER -> IF asked.protocol = "anthropic" THEN <<"{}">> ELSE << >>])
    [] c.form = "json" -> asWord(c.json)
    [] OTHER -> c.text

afterReminders(msg) ==
  LET blocks == IF msg.content.form = "blocks" THEN msg.content.blocks
                ELSE IF msg.content.form = "text" THEN <<[ContentBlock("text") EXCEPT !.text = msg.content.text]>>
                ELSE << >>
      isReminder(i) == /\ msg.role = "user" /\ msg.content.form = "blocks"
                       /\ blocks[i].kind = "text" /\ isSystemReminderText(blocks[i].text)
      kept == {i \in DOMAIN blocks : \E j \in 1 .. i : ~isReminder(j)}
  IN  SubSeq(blocks, Len(blocks) - Cardinality(kept) + 1, Len(blocks))

saidBlock(role, b) ==
  CASE b.kind = "text" -> Words(role, b.text)
    [] b.kind = "tool_use" -> Calls(b.id, b.name, b.json, << >>)
    [] b.kind = "tool_result" -> Results(b.id, contentText(b.content), b.isError /\ ~upstream.compat)
    [] OTHER -> UnknownBlock(role)

(* An upstream that knows no assistant messages hears them from the user.  *)
Spoken(role, events) ==
  IF upstream.compat /\ role = "assistant" /\ Marks(events) = << >>
  THEN Words("user", <<"previous">>) \o [i \in DOMAIN events |-> [events[i] EXCEPT !.role = "user"]]
  ELSE events

saidMessage(msg) ==
  LET blocks == afterReminders(msg)
      events == FlattenSeq([i \in DOMAIN blocks |-> saidBlock(msg.role, blocks[i])]) \o
                FlattenSeq([i \in DOMAIN msg.calls |->
                              Calls(msg.calls[i].id, msg.calls[i].name, msg.calls[i].json, << >>)])
  IN  IF msg.callID # "" THEN Results(msg.callID, contentText(msg.content), FALSE)
      ELSE IF blocks = << >> /\ msg.calls = << >> THEN << >>
      ELSE Spoken(msg.role, CallsLast(events))

saidItem(item) ==
  CASE item.kind = "message" ->
         LET role == IF item.role = "" THEN "user" ELSE item.role
         IN  Spoken(role, Words(role, contentText(item.content)))
    [] item.kind \in {"function_call", "custom_tool_call"} -> Calls(item.id, item.name, item.json, item.text)
    [] OTHER -> Results(item.id, contentText(item.content), item.isError /\ ~upstream.compat)

ClientSays ==
  Words("system", contentText(asked.system)) \o
  IF asked.protocol # "responses"
  THEN FlattenSeq([i \in DOMAIN asked.messages |-> saidMessage(asked.messages[i])])
  ELSE IF asked.input.form # "blocks" THEN Words("user", asked.input.text)
  ELSE FlattenSeq([i \in DOMAIN asked.input.blocks |-> saidItem(asked.input.blocks[i])])

(* What the codecs are known to lose.                                      *)
toolBlocks(msg) == SelectSeq(afterReminders(msg), LAMBDA b : b.kind \in {"text", "tool_use", "tool_result"})
resultCount(msg) == Len(SelectSeq(toolBlocks(msg), LAMBDA b : b.kind = "tool_result"))
SystemMessages == {i \in DOMAIN asked.messages : asked.messages[i].role = "system"}

(* ... of the blocks that follow a reminder all but the texts;             *)
AfterReminder(msg) ==
  /\ msg.content.form = "blocks" /\ Len(afterReminders(msg)) < Len(msg.content.blocks)
  /\ \E b \in Range(afterReminders(msg)) : b.kind # "text"

(* ... the content of a result with other blocks beside it;                *)
ResultBeside(msg) == resultCount(msg) = 1 /\ Len(toolBlocks(msg)) > 1

(* ... the text beside calls, for a Responses upstream;                    *)
TextBesideCalls(msg) ==
  /\ upstream.protocol = "responses"
  /\ \E e, f \in Range(saidMessage(msg)) : e.segment.kind = "call" /\ f.segment.kind = "text"

(* ... all system texts but the first, for an Anthropic upstream, which    *)
(* hears it before anything else;                                          *)
OtherSystemTexts ==
  /\ upstream.protocol = "anthropic"
  /\ \E i \in SystemMessages :
       i # 1 \/ asked.system.form # "absent" \/ Len(asked.messages[i].content.blocks) > 1

(* ... and the input of custom calls, for all but a Responses upstream.    *)
CustomCalls ==
  /\ upstream.protocol # "responses"
  /\ asked.input.form = "blocks" /\ \E item \in Range(asked.input.blocks) : item.kind = "custom_tool_call"

(* An upstream hears what the client said, each word, call and result once *)
(* and in order, but for blocks of unknown kinds (images), integers too    *)
(* large for a float64, and what is listed above; and calls and results    *)
(* keep their ids and order even then, unless a reminder takes them        *)
(* (buildRuntimeRequest and the encoders of internal/provider).            *)
RequestCarried ==
  payload # NoPayload =>
    LET messages == Range(asked.messages)
        lost == \/ OtherSystemTexts \/ CustomCalls
                \/ \E m \in messages : AfterReminder(m) \/ ResultBeside(m) \/ TextBesideCalls(m)
    IN  /\ lost \/ SameButRounded(UpstreamHears, KnownBlocks(ClientSays))
        /\ (\E m \in messages : AfterReminder(m)) \/ MarkIDs(UpstreamHears) = MarkIDs(ClientSays)

-----------------------------------------------------------------------------
ClientHears == FlattenSeq([i \in DOMAIN told.content |-> heardSegment("assistant", told.content[i])])

answeredBlock(b) ==
  CASE b.kind \in TextTypes -> Words("assistant", b.text)
    [] b.kind = "json" -> Words("assistant", IF b.json.form = "none" THEN b.text ELSE asWord(b.json))
    [] b.kind = "message" -> Words("assistant", contentText(b.content))
    [] b.kind \in {"tool_use", "function_call", "custom_tool_call"} ->
         Calls(b.id, b.name, IF b.json.form = "none" THEN b.content.json ELSE b.json, b.text)
    [] OTHER -> << >>

UpstreamSays ==
  Words("assistant", IF answer.text # << >> THEN answer.text ELSE answer.reasoning) \o
  CallsLast(FlattenSeq([i \in DOMAIN answer.blocks |-> answeredBlock(answer.blocks[i])]))

CutShort == answer.finish \in {"max_tokens", "length", "incomplete"}

(* A client hears what the upstream answered, in order; a chat client only *)
(* the first text, other clients {} for arguments that are no JSON, and    *)
(* only a Responses client the input of a custom call.  Integers too large *)
(* for a float64 may be rounded, though not between a chat client and a    *)
(* chat upstream.  Whoever gets calls is told to run them, unless the      *)
(* answer was cut short or an Anthropic upstream said something else, and  *)
(* nobody is told to run calls without any, unless the upstream said so;   *)
(* whoever gets a text that was cut short is told so; an answer is refused *)
(* only if it says nothing (the decoders of internal/provider,             *)
(* writeOpenAIChatResponse and its siblings).                              *)
AnswerCarried ==
  /\ stage = "fatal" => UpstreamSays = << >>
  /\ stage = "written" =>
       LET calls == Marks(UpstreamSays)
           unread == \E e \in Range(Marks(UpstreamSays)) : e.segment.json.doc = "broken" \/ e.segment.text # << >>
           parts == decode(answer).parts
           saidCalls == answer.finish \in {"tool_use", "tool_calls", "function_call"}
           toldCalls == told.finish \in {"tool_use", "tool_calls"}
           bothChat == asked.protocol = "openai_chat" /\ upstream.protocol = "openai_chat"
           several == \E i \in DOMAIN parts : i > 1 \/ parts[i].kind = "data"
       IN  /\ MarkIDs(ClientHears) = MarkIDs(UpstreamSays)
           /\ \/ asked.protocol = "openai_chat" /\ several
              \/ asked.protocol # "openai_chat" /\ unread
              \/ IF bothChat THEN ClientHears = UpstreamSays ELSE SameButRounded(ClientHears, UpstreamSays)
           /\ asked.protocol # "responses" =>
                /\ toldCalls => calls # << >> \/ saidCalls
                /\ calls # << >> /\ ~CutShort => toldCalls \/ (upstream.protocol = "anthropic" /\ ~saidCalls)
                /\ calls = << >> /\ CutShort => told.finish \in {"max_tokens", "length"}
=============================================================================
