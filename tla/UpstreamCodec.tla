---------------------------- MODULE UpstreamCodec ---------------------------
(***************************************************************************)
(* The runtime request written for an upstream, and its answer read back   *)
(* (the codecs of internal/provider).  The messages written are turns of   *)
(* segments again, so that the three protocols read alike: a turn is a     *)
(* message of the Anthropic and the chat protocol, an item of a Responses  *)
(* input.  A JSON document written into a text is one word of it.          *)
(***************************************************************************)
EXTENDS RequestCodec

asWord(json) == <<json.doc>>

compactJSONOrEmpty(raw) == normalizedJSONOrRaw(raw)

joinedTextParts(msg) == joinSegmentTexts(msg.parts)

joinedToolResultParts(msg) ==
  FlattenSeq([i \in DOMAIN msg.parts |->
    IF msg.parts[i].kind = "text" THEN msg.parts[i].text ELSE asWord(compactJSONOrEmpty(msg.parts[i].json))])

firstTextPart(msg) ==
  LET texts == OfKind(msg.parts, {"text"})
  IN  IF texts = << >> THEN << >> ELSE texts[1].text

TextIfAny(text) == IF text = << >> THEN << >> ELSE <<TextSegment(text)>>

-----------------------------------------------------------------------------
(* Anthropic Messages.                                                     *)
anthropicPart(part) ==
  CASE part.kind = "text" -> TextIfAny(part.text)
    [] part.json.form = "bad" -> <<TextSegment(asWord(part.json))>>
    [] OTHER -> <<DataSegment(compactJSONOrEmpty(part.json))>>

anthropicToolResultContent(msg) ==
  [i \in DOMAIN msg.parts |->
    LET part == msg.parts[i]
    IN  CASE part.kind = "text" -> part
          [] part.json.form = "bad" -> TextSegment(asWord(part.json))
          [] OTHER -> DataSegment(compactJSONOrEmpty(part.json))]

anthropicMessage(msg) ==
  LET content == FlattenSeq([i \in DOMAIN msg.parts |-> anthropicPart(msg.parts[i])]) \o
                 [i \in DOMAIN msg.calls |->
                    CallSegment(msg.calls[i].id, msg.calls[i].name, "", compactJSONOrEmpty(msg.calls[i].json))]
  IN  CASE msg.role = "system" -> << >>
        [] msg.role = "tool" ->
             <<Turn("user", <<ResultSegment(msg.callID, "", anthropicToolResultContent(msg), msg.isError)>>)>>
        [] OTHER -> IF content = << >> THEN << >> ELSE <<Turn(msg.role, content)>>

encodeAnthropicMessagesRequest(req) ==
  LET candidates == SelectSeq(<<req.system>> \o
                      [i \in DOMAIN req.messages |->
                         IF req.messages[i].role = "system" THEN firstTextPart(req.messages[i]) ELSE << >>],
                      LAMBDA t : t # << >>)
  IN  [system |-> IF candidates = << >> THEN << >> ELSE candidates[1],
       turns |-> FlattenSeq([i \in DOMAIN req.messages |-> anthropicMessage(req.messages[i])]),
       tools |-> [i \in DOMAIN req.tools |-> req.tools[i].name]]

(* A call whose arguments are no JSON makes json.Marshal fail.             *)
marshals(payload) ==
  \A turn \in Range(payload.turns) : \A s \in Range(turn.segments) : s.kind = "call" => s.json.form # "bad"

decodeAnthropicMessagesResponse(answer) ==
  LET partsOf(b) == CASE b.kind = "text" -> TextIfAny(b.text)
                      [] b.kind = "json" /\ b.json.form # "none" -> <<DataSegment(b.json)>>
                      [] b.kind = "json" /\ b.text # << >> -> <<DataSegment(Json("spaced", b.text[1]))>>
                      [] OTHER -> << >>
      uses == SelectSeq(answer.blocks, LAMBDA b : b.kind = "tool_use")
  IN  [parts |-> FlattenSeq([i \in DOMAIN answer.blocks |-> partsOf(answer.blocks[i])]),
       calls |-> [i \in DOMAIN uses |-> CallSegment(uses[i].id, uses[i].name, "", compactJSONOrEmpty(uses[i].json))],
       finish |-> CASE answer.finish = "tool_use" -> "tool_use"
                    [] answer.finish = "max_tokens" -> "length"
                    [] answer.finish \in {"end_turn", ""} -> "end_turn"
                    [] OTHER -> "stop"]

-----------------------------------------------------------------------------
(* OpenAI chat completions.                                                *)
shouldDropOpenAIChatTool(tool) == tool.schema \notin {"", "object"}

encodeOpenAIChatRequest(req) ==
  LET written(msg) ==
        IF msg.role = "tool" THEN <<ResultSegment(msg.callID, "", <<TextSegment(joinedToolResultParts(msg))>>, msg.isError)>>
        ELSE TextIfAny(joinedTextParts(msg)) \o
             [i \in DOMAIN msg.calls |-> CallSegment(msg.calls[i].id, msg.calls[i].name, "", msg.calls[i].json)]
      kept == SelectSeq(req.tools, LAMBDA t : ~shouldDropOpenAIChatTool(t))
  IN  [system |-> req.system,
       turns |-> [i \in DOMAIN req.messages |-> Turn(req.messages[i].role, written(req.messages[i]))],
       tools |-> [i \in DOMAIN kept |-> kept[i].name]]

(* Mutant: an answer with calls may end as told, "stop".                   *)
FinishAsTold(answer) ==
  LET text == IF answer.text # << >> THEN answer.text ELSE answer.reasoning
      calls == answer.blocks
  IN  [parts |-> TextIfAny(text),
       calls |-> [i \in DOMAIN calls |-> CallSegment(calls[i].id, calls[i].name, "", calls[i].json)],
       finish |-> CASE answer.finish \in {"tool_calls", "function_call"} -> "tool_use"
                    [] answer.finish = "length" -> "length"
                    [] OTHER -> "stop"]

(* The finish reason of the first choice.                                  *)
decodeOpenAIChatResponse(answer) ==
  LET text == IF answer.text # << >> THEN answer.text ELSE answer.reasoning
      calls == answer.blocks
  IN  [parts |-> TextIfAny(text),
       calls |-> [i \in DOMAIN calls |-> CallSegment(calls[i].id, calls[i].name, "", calls[i].json)],
       finish |-> CASE answer.finish \in {"tool_calls", "function_call"} -> "tool_use"
                    [] answer.finish = "length" -> "length"
                    [] OTHER -> IF calls # << >> THEN "tool_use" ELSE "stop"]

-----------------------------------------------------------------------------
(* OpenAI Responses, for upstreams that need their requests adapted too.   *)
shouldDropOpenAIResponsesTool(tool) == tool.type # "custom" /\ tool.schema \notin {"", "object"}

hasBuiltinResponsesTools(tools) == \E t \in Range(tools) : t.type \notin {"", "function", "custom"}

validateOpenAIResponsesRequest(req, compat) ==
  compat => ~req.previous /\ ~hasBuiltinResponsesTools(req.tools)

responsesItems(msg, compat) ==
  CASE msg.role = "tool" ->
         <<Turn("tool", <<ResultSegment(msg.callID, msg.callType, <<TextSegment(joinedToolResultParts(msg))>>,
                                        msg.isError /\ ~compat)>>)>>
    [] msg.role # "tool" /\ msg.calls # << >> ->
         [i \in DOMAIN msg.calls |->
            Turn("assistant", <<IF msg.calls[i].type = "custom" THEN [msg.calls[i] EXCEPT !.json = NoJson]
                                ELSE [msg.calls[i] EXCEPT !.type = "", !.json = compactJSONOrEmpty(@)]>>)]
    [] OTHER ->
         IF compat /\ msg.role = "assistant" THEN <<Turn("user", <<TextSegment(<<"previous">> \o joinedTextParts(msg))>>)>>
         ELSE <<Turn(msg.role, <<TextSegment(joinedTextParts(msg))>>)>>

encodeOpenAIResponsesRequest(req, compat) ==
  LET kept == SelectSeq(req.tools, LAMBDA t : ~shouldDropOpenAIResponsesTool(t))
  IN  [system |-> req.system,
       turns |-> FlattenSeq([i \in DOMAIN req.messages |-> responsesItems(req.messages[i], compat)]),
       tools |-> [i \in DOMAIN kept |-> kept[i].name]]

decodeOpenAIResponsesResponse(answer) ==
  LET partOf(p) == IF p.kind # "json" THEN TextIfAny(p.text)
                   ELSE IF p.json.form # "none" THEN <<DataSegment(p.json)>>
                   ELSE IF p.text = << >> THEN << >> ELSE <<DataSegment(Json("spaced", p.text[1]))>>
      partsOf(item) ==
        IF item.kind # "message" THEN << >>
        ELSE FlattenSeq([i \in DOMAIN item.content.blocks |-> partOf(item.content.blocks[i])])
      callsOf(item) ==
        CASE item.kind = "function_call" ->
               <<CallSegment(item.id, item.name, "function",
                             IF item.json.form = "none" /\ item.content.json.form # "none"
                             THEN compactJSONOrEmpty(item.content.json) ELSE item.json)>>
          [] item.kind = "custom_tool_call" ->
               <<[CallSegment(item.id, item.name, "custom", NoJson) EXCEPT !.text = item.text]>>
          [] OTHER -> << >>
      calls == FlattenSeq([i \in DOMAIN answer.blocks |-> callsOf(answer.blocks[i])])
  IN  [parts |-> FlattenSeq([i \in DOMAIN answer.blocks |-> partsOf(answer.blocks[i])]),
       calls |-> calls,
       finish |-> IF calls # << >> THEN "tool_use"
                  ELSE IF answer.finish = "incomplete" THEN "length" ELSE "stop"]
=============================================================================
