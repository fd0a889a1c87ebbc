---------------------------- MODULE StreamCodec ----------------------------
(***************************************************************************)
(* The conversions a streamed answer goes through: the chunks of an        *)
(* OpenAI-style upstream (provider/openai_chat_stream.go) become runtime   *)
(* events, and those the content blocks and frames of the protocol the     *)
(* client speaks (eventstream/stream.go, gateway/*_codec.go).  Text and    *)
(* tool arguments are sequences of tokens; " " is the token JSON allows    *)
(* between others.  Usage 0 is a nil usage.                                *)
(***************************************************************************)
EXTENDS Integers, Lists

Event(type) == [type |-> type, index |-> 0, kind |-> "", data |-> << >>, usage |-> 0, finish |-> ""]

With(cond, s) == IF cond THEN s ELSE << >>

(* m[x] = v *)
Put(m, x, v) == [y \in DOMAIN m \cup {x} |-> IF y = x THEN v ELSE m[y]]

(* TrimSpace, and json.Compact once the text is a whole JSON object. *)
TrimSpace(s) ==
  LET solid == {k \in DOMAIN s : s[k] # " "}
  IN  IF solid = {} THEN << >> ELSE SubSeq(s, Min(solid), Max(solid))

compactJSONString(s) ==
  LET t == TrimSpace(s)
  IN  IF t = << >> THEN <<"{", "}">>
      ELSE IF t[1] = "{" /\ Last(t) = "}" THEN SelectSeq(t, LAMBDA x : x # " ")
      ELSE t

(* Mutant: what was sent before is never taken off. *)
TrimPrefixNot(s, p) == s

(* strings.TrimPrefix: how both codecs turn argument snapshots into deltas. *)
TrimPrefix(s, p) == IF IsPrefix(p, s) THEN SubSeq(s, Len(p) + 1, Len(s)) ELSE s

-----------------------------------------------------------------------------
(* decodeOpenAIChatStream.  A chunk is [bad, choice, text, calls, usage,   *)
(* finish]; one with several tool calls is written as several chunks,      *)
(* which the loop over them treats alike.                                  *)
NewDecoder == [started |-> FALSE, text |-> << >>, args |-> << >>, usage |-> 0, finish |-> "stop"]

finishReason(d, states, reason) ==
  CASE reason \in {"tool_calls", "function_call"} -> "tool_use"
    [] reason = "length" -> "length"
    [] reason \in {"stop", ""} -> IF states = {} THEN "stop" ELSE d.finish
    [] OTHER -> d.finish

UsageEvent(u) == [Event("usage") EXCEPT !.usage = u]

ArgsAfter(d, c) ==
  [i \in DOMAIN d.args \cup {call.index : call \in Range(c.calls)} |->
     (IF i \in DOMAIN d.args THEN d.args[i] ELSE << >>)
       \o With(c.calls # << >> /\ c.calls[1].index = i, c.calls[1].fragment)]

ToolEvent(i, args) ==
  [Event("tool") EXCEPT !.index = i, !.data = IF args = << >> THEN << >> ELSE compactJSONString(args)]

DecodeChunk(d, c) ==
  IF ~c.choice THEN [state |-> [d EXCEPT !.usage = IF c.usage = 0 THEN @ ELSE c.usage],
                     out   |-> With(c.usage # 0, <<UsageEvent(c.usage)>>)]
  ELSE LET args == ArgsAfter(d, c)
       IN  [state |-> [started |-> TRUE, text |-> d.text \o c.text, args |-> args,
                       usage |-> IF c.usage = 0 THEN d.usage ELSE c.usage,
                       finish |-> finishReason(d, DOMAIN args, c.finish)],
            out   |-> With(~d.started, <<Event("start")>>)
                      \o With(c.text # << >>, <<[Event("delta") EXCEPT !.kind = "text", !.data = c.text]>>)
                      \o With(c.calls # << >>, <<ToolEvent(c.calls[1].index, args[c.calls[1].index])>>)
                      \o With(c.usage # 0, <<UsageEvent(c.usage)>>)]

(* The end of the body: the usage is estimated when none came and the      *)
(* provider is configured so (estimate # 0).                               *)
DecodeEnd(d, estimate) ==
  LET estimated == d.usage = 0 /\ estimate # 0 /\ (d.text # << >> \/ DOMAIN d.args # {})
      usage == IF estimated THEN estimate ELSE d.usage
  IN  With(~d.started, <<Event("start")>>)
      \o With(estimated, <<UsageEvent(usage)>>)
      \o <<[Event("end") EXCEPT !.usage = usage, !.finish = d.finish]>>

(* provider.streamResponse: an answer that came whole, as events. *)
streamResponse(r) ==
  <<Event("start")>>
  \o With(r.usage # 0, <<UsageEvent(r.usage)>>)
  \o [k \in DOMAIN r.parts |-> [Event("delta") EXCEPT !.kind = r.parts[k].kind, !.data = r.parts[k].data]]
  \o [k \in DOMAIN r.calls |-> [Event("tool") EXCEPT !.index = k - 1, !.data = r.calls[k]]]
  \o <<[Event("end") EXCEPT !.usage = r.usage, !.finish = r.finish]>>

-----------------------------------------------------------------------------
(* eventstream.EventStreamFromRuntime: content blocks numbered in the      *)
(* order they open.  A text block closes when another kind of content      *)
(* comes; the tool blocks close at the end, in the order of the map.  The  *)
(* start of a tool block carries the call's id, here its index.            *)
NoText == -1

NewBlocks == [text |-> NoText, next |-> 0, tools |-> << >>]

Block(type, i, kind, data) == [Event(type) EXCEPT !.index = i, !.kind = kind, !.data = data]

StopText(b) == With(b.text # NoText, <<Block("block_stop", b.text, "", << >>)>>)

StopReasonFromRuntime(reason) ==
  CASE reason = "tool_use" -> "tool_use" [] reason = "length" -> "max_tokens"
    [] reason = "error" -> "error" [] OTHER -> "end_turn"

(* Mutant: a tool call does not close the text block before it. *)
ToolBlockLeavesText(b, e) ==
  LET new == e.index \notin DOMAIN b.tools
      i   == IF new THEN b.next ELSE b.tools[e.index]
  IN  [state |-> [b EXCEPT !.next = IF new THEN @ + 1 ELSE @,
                           !.tools = IF new THEN Put(@, e.index, i) ELSE @, !.text = NoText],
       out   |-> With(new, <<Block("block_start", i, "tool", <<e.index>>)>>)
                 \o <<Block("block_delta", i, "tool", e.data)>>]

ToolBlock(b, e) ==
  LET new == e.index \notin DOMAIN b.tools
      i   == IF new THEN b.next ELSE b.tools[e.index]
  IN  [state |-> [b EXCEPT !.next = IF new THEN @ + 1 ELSE @,
                           !.tools = IF new THEN Put(@, e.index, i) ELSE @, !.text = NoText],
       out   |-> StopText(b) \o With(new, <<Block("block_start", i, "tool", <<e.index>>)>>)
                 \o <<Block("block_delta", i, "tool", e.data)>>]

DeltaBlock(b, e) ==
  IF e.kind = "json"
  THEN [state |-> [b EXCEPT !.text = NoText, !.next = @ + 1],
        out   |-> StopText(b) \o <<Block("block_start", b.next, "json", e.data),
                                   Block("block_delta", b.next, "json", e.data),
                                   Block("block_stop", b.next, "", << >>)>>]
  ELSE LET new == b.text = NoText
           i   == IF new THEN b.next ELSE b.text
       IN  [state |-> [b EXCEPT !.text = i, !.next = IF new THEN @ + 1 ELSE @],
            out   |-> With(new, <<Block("block_start", i, "text", << >>)>>)
                      \o <<Block("block_delta", i, "text", e.data)>>]

(* One turn of the loop; order is an order of the open tool blocks. *)
BlockEvents(b, e, order) ==
  CASE e.type = "start" -> [state |-> b, out |-> <<Event("message_start")>>]
    [] e.type = "delta" -> DeltaBlock(b, e)
    [] e.type = "tool"  -> ToolBlock(b, e)
    [] e.type = "usage" -> [state |-> b, out |-> <<e>>]
    [] e.type = "error" -> [state |-> b, out |-> <<e>>]
    [] e.type = "end" ->
         [state |-> [b EXCEPT !.text = NoText, !.tools = << >>],
          out   |-> StopText(b)
                    \o [k \in DOMAIN order |-> Block("block_stop", order[k], "", << >>)]
                    \o <<[Event("message_delta") EXCEPT !.usage = e.usage, !.finish = StopReasonFromRuntime(e.finish)],
                         [Event("message_stop") EXCEPT !.finish = StopReasonFromRuntime(e.finish)]>>]

-----------------------------------------------------------------------------
(* anthropicStreamFramesFromEventStream: message_start waits for the first *)
(* event that needs it; argument snapshots become input_json_deltas.       *)
NewFrames == [started |-> FALSE, sent |-> << >>, usage |-> 0]

anthropicStopReason(reason) == IF reason \in {"tool_use", "max_tokens"} THEN reason ELSE "end_turn"

AnthropicFrames(f, e) ==
  LET usage == IF e.usage # 0 THEN e.usage ELSE f.usage
      head  == With(~f.started /\ e.type # "message_start", <<[Event("message_start") EXCEPT !.usage = usage]>>)
      sent  == IF e.index \in DOMAIN f.sent THEN f.sent[e.index] ELSE << >>
      next  == [f EXCEPT !.started = @ \/ e.type # "message_start", !.usage = usage]
  IN  CASE e.type \in {"message_start", "usage"} -> [state |-> next, out |-> head]
        [] e.type = "block_start" ->
             [state |-> IF e.kind = "tool" THEN [next EXCEPT !.sent = Put(@, e.index, << >>)] ELSE next,
              out |-> head \o <<e>>]
        [] e.type = "block_delta" /\ e.kind = "text" -> [state |-> next, out |-> head \o <<e>>]
        [] e.type = "block_delta" /\ e.kind = "json" -> [state |-> next, out |-> head]
        [] e.type = "block_delta" /\ e.kind = "tool" ->
             IF e.data = << >> THEN [state |-> next, out |-> head]
             ELSE [state |-> [next EXCEPT !.sent = Put(@, e.index, e.data)],
                   out |-> head \o With(TrimPrefix(e.data, sent) # << >>,
                                        <<[e EXCEPT !.data = TrimPrefix(e.data, sent)]>>)]
        [] e.type = "block_stop" ->
             [state |-> [next EXCEPT !.sent = Restrict(@, DOMAIN @ \ {e.index})], out |-> head \o <<e>>]
        [] e.type = "message_delta" ->
             [state |-> next, out |-> head \o <<[e EXCEPT !.usage = usage, !.finish = anthropicStopReason(@)]>>]
        [] OTHER -> [state |-> next, out |-> head \o <<e>>]

(* openAIStreamChunkWithArgumentsDelta: one chunk for each runtime event. *)
openAIFinishReason(reason) == CASE reason = "tool_use" -> "tool_calls" [] reason = "length" -> "length" [] OTHER -> "stop"

OpenAIChunk(sent, e) ==
  IF e.type = "tool"
  THEN [sent |-> Put(sent, e.index, e.data),
        out  |-> [e EXCEPT !.data = TrimPrefix(@, IF e.index \in DOMAIN sent THEN sent[e.index] ELSE << >>)]]
  ELSE [sent |-> sent, out |-> IF e.type = "end" THEN [e EXCEPT !.finish = openAIFinishReason(@), !.usage = 0] ELSE e]

-----------------------------------------------------------------------------
(* openAIResponsesStreamFrames: content parts of one message item, and one *)
(* function call item for every tool event.                                *)
NewParts == [parts |-> << >>, open |-> FALSE, calls |-> << >>, usage |-> 0]

(* finalizeTextPart: the text so far is the part's text. *)
FinalizeTextPart(p) ==
  [state |-> [p EXCEPT !.open = FALSE],
   out   |-> With(p.open, <<Block("text_done", Len(p.parts), "", Last(p.parts)),
                            Block("part_done", Len(p.parts), "text", Last(p.parts))>>)]

ResponsesDelta(p, e) ==
  LET done == FinalizeTextPart(p)
      q    == done.state
      n    == Len(p.parts)
  IN  IF e.kind = "json"
      THEN [state |-> [q EXCEPT !.parts = Append(@, e.data)],
            out   |-> done.out \o <<Block("part_added", n + 1, "json", e.data), Block("part_done", n + 1, "json", e.data)>>]
      ELSE IF p.open
      THEN [state |-> [p EXCEPT !.parts[n] = @ \o e.data], out |-> <<Block("text_delta", n, "text", e.data)>>]
      ELSE [state |-> [p EXCEPT !.open = TRUE, !.parts = Append(@, e.data)],
            out   |-> <<Block("part_added", n + 1, "text", << >>), Block("text_delta", n + 1, "text", e.data)>>]

ResponsesFrames(p, e) ==
  LET done == FinalizeTextPart(p)
      q    == done.state
  IN  CASE e.type = "start" -> [state |-> p, out |-> <<Block("item_added", 0, "message", << >>)>>]
        [] e.type = "delta" -> ResponsesDelta(p, e)
        [] e.type = "tool"  ->
             [state |-> [q EXCEPT !.calls = Append(@, e.data)],
              out   |-> done.out \o <<Block("item_added", e.index + 1, "call", << >>),
                                      Block("args_done", e.index + 1, "call", e.data),
                                      Block("item_done", e.index + 1, "call", e.data)>>]
        [] e.type = "usage" -> [state |-> [p EXCEPT !.usage = e.usage], out |-> <<e>>]
        [] e.type = "error" -> [state |-> p, out |-> <<e>>]
        [] e.type = "end"   ->
             [state |-> q,
              out   |-> done.out \o <<Block("item_done", 0, "message", q.parts),
                          [Block("completed", 0, "", [parts |-> q.parts, calls |-> q.calls]) EXCEPT !.usage = q.usage]>>]
=============================================================================
