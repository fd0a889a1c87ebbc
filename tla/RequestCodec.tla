---------------------------- MODULE RequestCodec ----------------------------
(***************************************************************************)
(* From a client's request to the runtime request                          *)
(* (gateway/runtime_request.go and openai_responses_codec.go).             *)
(*                                                                         *)
(* A text is a sequence of words, << >> the empty one, so that joining     *)
(* with line breaks is concatenation.  A JSON document is its value and    *)
(* the form it is written in; a content is absent, null, a text, a list of *)
(* blocks or another JSON document.  Blocks stand for the items of a       *)
(* Responses input too.  Model names and options are copied through and    *)
(* are left out.                                                           *)
(***************************************************************************)
EXTENDS Integers, Sequences, FiniteSets, Lists

Json(form, doc) == [form |-> form, doc |-> doc]
NoJson == Json("none", "{}")
Content(form, text, blocks) == [form |-> form, text |-> text, blocks |-> blocks, json |-> NoJson]
Absent == Content("absent", << >>, << >>)
ContentBlock(kind) == [kind |-> kind, role |-> "", text |-> << >>, id |-> "", name |-> "",
                json |-> NoJson, content |-> Absent, isError |-> FALSE]

(* semantic.Segment, and the parts and calls of a runtime.Message. *)
SegmentOf(kind) == [kind |-> kind, text |-> << >>, id |-> "", name |-> "", type |-> "",
                  json |-> NoJson, content |-> << >>, isError |-> FALSE]
TextSegment(t) == [SegmentOf("text") EXCEPT !.text = t]
DataSegment(j) == [SegmentOf("data") EXCEPT !.json = j]
CallSegment(id, name, type, j) == [SegmentOf("call") EXCEPT !.id = id, !.name = name, !.type = type, !.json = j]
ResultSegment(id, type, content, isError) ==
  [SegmentOf("result") EXCEPT !.id = id, !.type = type, !.content = content, !.isError = isError]
Turn(role, segments) == [role |-> role, segments |-> segments]

OfKind(segments, kinds) == SelectSeq(segments, LAMBDA s : s.kind \in kinds)

(* json.Unmarshal into any makes a float64 of every number, so that a      *)
(* document with an integer beyond 2^53 ("big") is written as another one. *)
asFloat(doc) == IF doc = "big" THEN "rounded" ELSE doc

normalizedJSONOrRaw(raw) ==
  IF raw.form = "bad" THEN raw ELSE Json("compact", asFloat(raw.doc))
marshalCompactJSONOrEmpty(raw) == normalizedJSONOrRaw(raw)

-----------------------------------------------------------------------------
(* Messages of the Anthropic and the OpenAI chat protocol.                 *)
isSystemReminderText(text) == text # << >> /\ text[1] = "reminder"

(* The blocks that are left are written again from their type and text.    *)
stripLeadingSystemReminderText(msg) ==
  LET blocks == msg.content.blocks
      stays(i) == i > Len(blocks) \/ blocks[i].kind # "text" \/ ~isSystemReminderText(blocks[i].text)
      first == CHOOSE i \in 1 .. Len(blocks) + 1 : stays(i) /\ \A j \in 1 .. i - 1 : ~stays(j)
      left == [i \in 1 .. Len(blocks) - first + 1 |->
                 [ContentBlock(blocks[first + i - 1].kind) EXCEPT !.text = blocks[first + i - 1].text]]
  IN  IF msg.role # "user" \/ msg.content.form # "blocks" \/ first = 1 THEN msg
      ELSE [msg EXCEPT !.content.blocks = left]

shouldSkipInboundMessage(msg) ==
  /\ msg.calls = << >> /\ msg.callID = ""
  /\ msg.content.form \in {"absent", "null", "blocks"} /\ msg.content.blocks = << >>

parseToolResultContent(content) ==
  CASE content.form = "absent" -> << >>
    [] content.form \in {"text", "null"} -> <<TextSegment(content.text)>>
    [] content.form = "blocks" ->
         [i \in DOMAIN content.blocks |->
            LET b == content.blocks[i]
            IN  IF b.kind = "text" THEN TextSegment(b.text)
                ELSE DataSegment(IF b.json = NoJson THEN Json("compact", "{}") ELSE b.json)]
    [] OTHER -> <<DataSegment(normalizedJSONOrRaw(content.json))>>

segmentOfBlock(b) ==
  CASE b.kind = "text" -> <<TextSegment(b.text)>>
    [] b.kind = "tool_use" -> <<CallSegment(b.id, b.name, "function", normalizedJSONOrRaw(b.json))>>
    [] b.kind = "tool_result" ->
         <<ResultSegment(b.id, "function", parseToolResultContent(b.content), b.isError)>>
    [] OTHER -> << >>

parseInboundContent(content) ==
  CASE content.form \in {"absent", "null"} -> <<TextSegment(<< >>)>>
    [] content.form = "text" -> <<TextSegment(content.text)>>
    [] OTHER -> FlattenSeq([i \in DOMAIN content.blocks |-> segmentOfBlock(content.blocks[i])])

contentCallID(content) ==
  LET results == OfKind(parseInboundContent(content), {"result"})
  IN  IF results = << >> THEN "" ELSE Last(results).id

acceptsContent(role, content) ==
  CASE content.form = "blocks" -> /\ parseInboundContent(content) # << >>
                                  /\ role = "tool" => contentCallID(content) # ""
    [] OTHER -> content.form # "json"

normalizeToolTurnSegments(id, segments) ==
  IF Len(segments) = 1 /\ segments[1].kind = "result" THEN <<[segments[1] EXCEPT !.id = id]>>
  ELSE <<ResultSegment(id, "", segments, FALSE)>>

(* Mutant: the turns of a message with several results are not split.      *)
SplitNot(role, segments) == <<Turn("tool", segments)>>

splitToolResults(role, segments) ==
  FoldLeft(LAMBDA turns, s :
             IF s.kind = "result" THEN Append(turns, Turn("tool", <<s>>))
             ELSE IF turns = << >> \/ Last(turns).role # role THEN Append(turns, Turn(role, <<s>>))
             ELSE [turns EXCEPT ![Len(turns)].segments = Append(@, s)],
           << >>, segments)

parseInboundMessages(msg) ==
  LET segments == parseInboundContent(msg.content) \o
                  [i \in DOMAIN msg.calls |->
                     CallSegment(msg.calls[i].id, msg.calls[i].name, "", normalizedJSONOrRaw(msg.calls[i].json))]
      id == IF msg.callID # "" THEN msg.callID ELSE contentCallID(msg.content)
  IN  IF msg.role # "tool" /\ Len(OfKind(segments, {"result"})) > 1 THEN splitToolResults(msg.role, segments)
      ELSE IF id # "" THEN <<Turn("tool", normalizeToolTurnSegments(id, segments))>>
      ELSE <<Turn(msg.role, segments)>>

parseInboundSystem(content) ==
  IF content.form \in {"text", "null"} THEN <<TextSegment(content.text)>>
  ELSE IF content.form = "absent" THEN << >>
  ELSE OfKind(parseInboundContent(content), {"text"})

acceptsSystem(content) ==
  content.form \in {"absent", "text", "null"} \/ (content.form = "blocks" /\ parseInboundSystem(content) # << >>)

(* buildSemanticRequest: the messages that are read, and what is refused.  *)
readMessages(req) ==
  SelectSeq([i \in DOMAIN req.messages |-> stripLeadingSystemReminderText(req.messages[i])],
            LAMBDA msg : ~shouldSkipInboundMessage(msg))

acceptsInbound(req) ==
  /\ req.messages # << >> /\ acceptsSystem(req.system)
  /\ \A msg \in Range(readMessages(req)) :
       acceptsContent(msg.role, msg.content) /\ \A c \in Range(msg.calls) : c.type \in {"", "function"}

buildSemanticRequest(req) ==
  LET read == readMessages(req)
  IN  [instructions |-> parseInboundSystem(req.system),
       turns |-> FlattenSeq([i \in DOMAIN read |-> parseInboundMessages(read[i])])]

(* A tool's schema is "" when none is given, "object" or another type.     *)
acceptsInboundTools(tools) == \A t \in Range(tools) : t.name # ""
acceptsOpenAIChatTools(tools) == \A t \in Range(tools) : t.type \in {"", "function"} /\ t.name # ""
acceptsOpenAIResponsesTools(tools) ==
  \A t \in Range(tools) : t.name # "" \/ t.type \notin {"", "function", "custom"}

parseInboundTools(tools) == [i \in DOMAIN tools |-> [tools[i] EXCEPT !.type = "function"]]
parseOpenAIChatTools(tools) == [i \in DOMAIN tools |-> [tools[i] EXCEPT !.type = "function"]]
parseOpenAIResponsesTools(tools) ==
  [i \in DOMAIN tools |-> [tools[i] EXCEPT !.type = IF @ = "" THEN "function" ELSE @,
                                           !.name = IF @ = "" THEN tools[i].type ELSE @]]

-----------------------------------------------------------------------------
(* The input of a Responses request.                                       *)
TextTypes == {"text", "input_text", "output_text"}

parseOpenAIResponsesMessageContent(content) ==
  IF content.form # "blocks" THEN <<TextSegment(content.text)>>
  ELSE [i \in DOMAIN content.blocks |-> TextSegment(content.blocks[i].text)]

acceptsResponsesMessage(content) ==
  \/ content.form \in {"text", "null"}
  \/ /\ content.form = "blocks" /\ content.blocks # << >>
     /\ \A b \in Range(content.blocks) : b.kind \in TextTypes

parseOpenAIResponsesFunctionOutput(content) ==
  CASE content.form = "absent" -> << >>
    [] content.form = "blocks" ->
         FlattenSeq([i \in DOMAIN content.blocks |->
           LET b == content.blocks[i]
           IN  CASE b.kind \in TextTypes -> <<TextSegment(b.text)>>
                 [] b.kind = "json" -> <<DataSegment(normalizedJSONOrRaw(b.json))>>
                 [] OTHER -> << >>])
    [] OTHER -> <<TextSegment(content.text)>>

acceptsFunctionOutput(content) ==
  \/ content.form \in {"absent", "text", "null"}
  \/ content.form = "blocks" /\ parseOpenAIResponsesFunctionOutput(content) # << >>

turnOfItem(item) ==
  CASE item.kind = "message" ->
         Turn(IF item.role = "" THEN "user" ELSE item.role, parseOpenAIResponsesMessageContent(item.content))
    [] item.kind = "function_call" ->
         Turn("assistant", <<CallSegment(item.id, item.name, "function", normalizedJSONOrRaw(item.json))>>)
    [] item.kind = "custom_tool_call" ->
         Turn("assistant", <<[CallSegment(item.id, item.name, "custom", NoJson) EXCEPT !.text = item.text]>>)
    [] OTHER ->
         Turn("tool", <<ResultSegment(item.id, IF item.kind = "custom_tool_call_output" THEN "custom" ELSE "function",
                                      parseOpenAIResponsesFunctionOutput(item.content), item.isError)>>)

acceptsItem(item) ==
  CASE item.kind = "message" -> acceptsResponsesMessage(item.content)
    [] item.kind = "function_call" -> TRUE
    [] item.kind = "custom_tool_call" -> item.json.form = "none"   \* its input is a string
    [] item.kind \in {"function_call_output", "custom_tool_call_output"} ->
         acceptsFunctionOutput(item.content) /\ item.id # ""
    [] OTHER -> FALSE

acceptsResponsesInput(content) ==
  \/ content.form \in {"text", "null"}
  \/ /\ content.form = "blocks" /\ content.blocks # << >>
     /\ \A item \in Range(content.blocks) : acceptsItem(item)

parseOpenAIResponsesInput(content) ==
  IF content.form # "blocks" THEN <<Turn("user", <<TextSegment(content.text)>>)>>
  ELSE [i \in DOMAIN content.blocks |-> turnOfItem(content.blocks[i])]

buildSemanticRequestFromResponses(req) ==
  [instructions |-> IF req.system.text = << >> THEN << >> ELSE <<TextSegment(req.system.text)>>,
   turns |-> parseOpenAIResponsesInput(req.input)]

-----------------------------------------------------------------------------
(* The runtime request.                                                    *)
joinSegmentTexts(segments) ==
  FlattenSeq([i \in DOMAIN segments |-> IF segments[i].kind = "text" THEN segments[i].text ELSE << >>])

lowerToolResultContent(segments) ==
  LET parts == OfKind(segments, {"text", "data"})
  IN  IF parts = << >> THEN <<TextSegment(<< >>)>> ELSE parts

lowerSemanticTurn(turn) ==
  LET partsOf(s) == CASE s.kind \in {"text", "data"} -> <<s>>
                      [] s.kind = "result" -> lowerToolResultContent(s.content)
                      [] OTHER -> << >>
      parts == FlattenSeq([i \in DOMAIN turn.segments |-> partsOf(turn.segments[i])])
      calls == OfKind(turn.segments, {"call"})
      results == OfKind(turn.segments, {"result"})
      last == IF results = << >> THEN SegmentOf("none") ELSE Last(results)
  IN  [role |-> turn.role,
       parts |-> IF parts = << >> /\ calls = << >> THEN <<TextSegment(<< >>)>> ELSE parts,
       calls |-> [i \in DOMAIN calls |-> [calls[i] EXCEPT !.json = marshalCompactJSONOrEmpty(@)]],
       callID |-> last.id, callType |-> last.type, isError |-> last.isError]

lowerSemanticRequest(semantic, tools, previous) ==
  [system |-> joinSegmentTexts(semantic.instructions),
   messages |-> [i \in DOMAIN semantic.turns |-> lowerSemanticTurn(semantic.turns[i])],
   tools |-> tools, previous |-> previous]

accepts(req) ==
  CASE req.protocol = "responses" -> acceptsResponsesInput(req.input) /\ acceptsOpenAIResponsesTools(req.tools)
    [] req.protocol = "openai_chat" -> acceptsInbound(req) /\ acceptsOpenAIChatTools(req.tools)
    [] OTHER -> acceptsInbound(req) /\ acceptsInboundTools(req.tools)

buildRuntimeRequest(req) ==
  CASE req.protocol = "responses" ->
         lowerSemanticRequest(buildSemanticRequestFromResponses(req), parseOpenAIResponsesTools(req.tools), req.previous)
    [] req.protocol = "openai_chat" ->
         lowerSemanticRequest(buildSemanticRequest(req), parseOpenAIChatTools(req.tools), req.previous)
    [] OTHER ->
         lowerSemanticRequest(buildSemanticRequest(req), parseInboundTools(req.tools), req.previous)
=============================================================================
