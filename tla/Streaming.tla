----------------------------- MODULE Streaming -----------------------------
(***************************************************************************)
(* One streamed request from the upstream body to the client: the chain of *)
(* goroutines that decodeOpenAIChatStream, streamWithAPIKey, wrapStream,   *)
(* EventStreamFromRuntime and anthropicStreamFramesFromEventStream start,  *)
(* and the handler that writes what comes out.  Only wrapStream watches    *)
(* the request's context; the others block on their channels.              *)
(*                                                                         *)
(* A goroutine is the queue of what it has still to hand over: it turns to *)
(* its next input when no more is left than its channel holds, and its     *)
(* reader sees the channel closed when it is not live and the queue empty. *)
(***************************************************************************)
EXTENDS StreamCodec, FiniteSets

CONSTANTS StreamBuffer,   \* what a buffered channel holds (16 in the code)
          StreamCases     \* requests and what the upstream has for them

VARIABLES stream,     \* the case: [protocol, chunks, broken, response, estimate]
          body,       \* chunks of the upstream's body not read yet
          live,       \* the goroutines that have not returned
          queue,      \* what each has still to hand over
          state,      \* the local variables of each
          handler,    \* the handler: "writing" or "returned"
          received,   \* frames the client was sent
          gone,       \* the client has closed its connection
          ledger,     \* usage records wrapStream made: [ok, usage]
          active      \* the request is in the latency store's active map

streamVars == <<stream, body, live, queue, state, handler, received, gone, ledger, active>>

Stages == {"decoder", "forwarder", "wrapper", "blocks", "frames"}

StreamedBody(c) == c.response = << >>

(* The client speaks one of three protocols, and the upstream has a list   *)
(* of chunks or one answer, with a list of parts and one of calls.         *)
ASSUME StreamingAssumption ==
  \A c \in StreamCases :
    /\ c.protocol \in {"anthropic", "openai_chat", "responses"}
    /\ c.chunks \in Seq(ToSet(c.chunks))
    /\ \/ StreamedBody(c)
       \/ LET r == c.response[1] IN r.parts \in Seq(ToSet(r.parts)) /\ r.calls \in Seq(ToSet(r.calls))

(* DispatchStream has its answer; latency.Start has made the entry.  An    *)
(* answer that is no event stream comes through streamResponse, whose      *)
(* channel holds all its events.                                           *)
StreamingInit(cases) ==
  /\ stream \in cases
  /\ body = stream.chunks
  /\ live = (IF StreamedBody(stream) THEN {"decoder", "forwarder"} ELSE { })
            \cup (CASE stream.protocol = "anthropic"   -> {"wrapper", "blocks", "frames"}
                    [] stream.protocol = "responses"   -> {"wrapper", "frames"}
                    [] stream.protocol = "openai_chat" -> {"wrapper"})
  /\ queue = [s \in Stages |-> CASE s = "forwarder" /\ ~StreamedBody(stream) -> streamResponse(stream.response[1])
                                 [] s = "frames" /\ stream.protocol = "responses" -> <<Event("created"), Event("in_progress")>>
                                 [] OTHER -> << >>]
  /\ state = [decoder |-> NewDecoder, wrapper |-> [usage |-> 0, recorded |-> FALSE], blocks |-> NewBlocks,
              frames |-> IF stream.protocol = "responses" THEN NewParts ELSE NewFrames, sent |-> << >>]
  /\ handler = "writing" /\ received = << >> /\ gone = FALSE /\ ledger = << >> /\ active = TRUE

CanTurn(s, room) == s \in live /\ Len(queue[s]) <= room

Closed(s) == s \notin live /\ queue[s] = << >>

Returns(s) == live' = live \ {s}

contextDone == gone \/ handler = "returned"

Hands(s, out) == queue' = [queue EXCEPT ![s] = @ \o out]

(* Stage to takes the next event of stage from, and hands over out. *)
Passes(from, to, out) == queue' = [queue EXCEPT ![from] = Tail(@), ![to] = @ \o out]

-----------------------------------------------------------------------------
(* The provider's goroutines. *)

Decode ==
  /\ CanTurn("decoder", StreamBuffer) /\ body # << >> /\ ~Head(body).bad
  /\ LET d == DecodeChunk(state.decoder, Head(body))
     IN  state' = [state EXCEPT !.decoder = d.state] /\ Hands("decoder", d.out)
  /\ body' = Tail(body)
  /\ UNCHANGED <<stream, live, handler, received, gone, ledger, active>>

(* The body ends, or says [DONE]. *)
DecodeEnds ==
  /\ CanTurn("decoder", StreamBuffer) /\ body = << >> /\ ~stream.broken
  /\ Hands("decoder", DecodeEnd(state.decoder, stream.estimate)) /\ Returns("decoder")
  /\ UNCHANGED <<stream, body, state, handler, received, gone, ledger, active>>

(* A chunk that is no JSON, or a read that fails: it does when the         *)
(* upstream breaks off and when the request's context is done.             *)
DecodeFails ==
  /\ CanTurn("decoder", StreamBuffer)
  /\ \/ body # << >> /\ Head(body).bad
     \/ body = << >> /\ stream.broken
     \/ contextDone
  /\ Hands("decoder", <<Event("error")>>) /\ Returns("decoder")
  /\ UNCHANGED <<stream, body, state, handler, received, gone, ledger, active>>

Forward ==
  /\ CanTurn("forwarder", 0)
  /\ \/ queue["decoder"] # << >> /\ Passes("decoder", "forwarder", <<Head(queue["decoder"])>>) /\ UNCHANGED live
     \/ Closed("decoder") /\ Returns("forwarder") /\ UNCHANGED queue
  /\ UNCHANGED <<stream, body, state, handler, received, gone, ledger, active>>

-----------------------------------------------------------------------------
(* wrapStream.  Every report goes on to the store's active map, whatever   *)
(* has become of the request.                                              *)

(* Mutant: usage that came before the end is forgotten when it ends. *)
WrapUsageOfEnd(w, e) ==
  [usage |-> IF e.type = "end" THEN 0 ELSE IF e.usage # 0 THEN e.usage ELSE w.usage,
   recorded |-> w.recorded \/ e.type = "error"]

WrapUsage(w, e) == [usage |-> IF e.usage # 0 THEN e.usage ELSE w.usage, recorded |-> w.recorded \/ e.type = "error"]

WrapEvent ==
  /\ CanTurn("wrapper", 0) /\ queue["forwarder"] # << >>
  /\ LET e == Head(queue["forwarder"])
         w == WrapUsage(state.wrapper, e)
     IN  /\ Passes("forwarder", "wrapper", <<e>>)
         /\ state' = [state EXCEPT !.wrapper = w]
         /\ ledger' = ledger \o With(e.type = "error" /\ ~state.wrapper.recorded, <<[ok |-> FALSE, usage |-> w.usage]>>)
  /\ active' = TRUE
  /\ UNCHANGED <<stream, body, live, handler, received, gone>>

WrapClosed ==
  /\ CanTurn("wrapper", 0) /\ Closed("forwarder") /\ ~contextDone
  /\ Returns("wrapper")
  /\ ledger' = ledger \o With(~state.wrapper.recorded, <<[ok |-> TRUE, usage |-> state.wrapper.usage]>>)
  /\ active' = (active \/ ~state.wrapper.recorded)
  /\ UNCHANGED <<stream, body, queue, state, handler, received, gone>>

(* Mutant: only a send watches the context. *)
WrapCancelledOnSend ==
  /\ "wrapper" \in live /\ contextDone /\ queue["wrapper"] # << >>
  /\ Returns("wrapper") /\ queue' = [queue EXCEPT !["wrapper"] = << >>] /\ active' = TRUE
  /\ UNCHANGED <<stream, body, state, handler, received, gone, ledger>>

(* The context is done: what is not handed over yet is dropped. *)
WrapCancelled ==
  /\ "wrapper" \in live /\ contextDone
  /\ Returns("wrapper") /\ queue' = [queue EXCEPT !["wrapper"] = << >>] /\ active' = TRUE
  /\ UNCHANGED <<stream, body, state, handler, received, gone, ledger>>

-----------------------------------------------------------------------------
(* The goroutines of the Anthropic codec, and the Responses codec's        *)
(* collecting of all frames before the first is written.                   *)

ToBlocks ==
  /\ CanTurn("blocks", 0)
  /\ \/ /\ queue["wrapper"] # << >>
        /\ \E order \in SetToSeqs(Range(state.blocks.tools)) :
             LET b == BlockEvents(state.blocks, Head(queue["wrapper"]), order)
             IN  Passes("wrapper", "blocks", b.out) /\ state' = [state EXCEPT !.blocks = b.state]
        /\ UNCHANGED live
     \/ Closed("wrapper") /\ Returns("blocks") /\ UNCHANGED <<queue, state>>
  /\ UNCHANGED <<stream, body, handler, received, gone, ledger, active>>

ToFrames ==
  /\ stream.protocol = "anthropic" /\ CanTurn("frames", StreamBuffer)
  /\ \/ /\ queue["blocks"] # << >>
        /\ LET f == AnthropicFrames(state.frames, Head(queue["blocks"]))
           IN  Passes("blocks", "frames", f.out) /\ state' = [state EXCEPT !.frames = f.state]
        /\ UNCHANGED live
     \/ Closed("blocks") /\ Returns("frames") /\ UNCHANGED <<queue, state>>
  /\ UNCHANGED <<stream, body, handler, received, gone, ledger, active>>

CollectFrames ==
  /\ stream.protocol = "responses" /\ "frames" \in live
  /\ \/ /\ queue["wrapper"] # << >>
        /\ LET f == ResponsesFrames(state.frames, Head(queue["wrapper"]))
           IN  Passes("wrapper", "frames", f.out) /\ state' = [state EXCEPT !.frames = f.state]
        /\ UNCHANGED live
     \/ Closed("wrapper") /\ Returns("frames") /\ UNCHANGED <<queue, state>>
  /\ UNCHANGED <<stream, body, handler, received, gone, ledger, active>>

-----------------------------------------------------------------------------
(* The handler. *)

Source == IF stream.protocol = "openai_chat" THEN "wrapper" ELSE "frames"

CanWrite == handler = "writing" /\ (stream.protocol = "responses" => "frames" \notin live)

(* A frame goes out; one written to a connection the client has closed may *)
(* still be taken by the kernel.                                           *)
Write ==
  /\ CanWrite /\ queue[Source] # << >>
  /\ LET e == Head(queue[Source])
         c == OpenAIChunk(state.sent, e)
         chat == stream.protocol = "openai_chat"
     IN  /\ received' = Append(received, IF chat THEN c.out ELSE e)
         /\ state' = IF chat THEN [state EXCEPT !.sent = c.sent] ELSE state
  /\ queue' = [queue EXCEPT ![Source] = Tail(@)]
  /\ UNCHANGED <<stream, body, live, handler, gone, ledger, active>>

(* The handler returns: latency's Finish, deferred, ends the active entry. *)
Finish == handler' = "returned" /\ active' = FALSE

WriteFails ==
  /\ CanWrite /\ queue[Source] # << >> /\ gone
  /\ Finish
  /\ UNCHANGED <<stream, body, live, queue, state, received, gone, ledger>>

(* The last channel is closed: the Anthropic and OpenAI handlers say done. *)
WriteEnds ==
  /\ CanWrite /\ Closed(Source)
  /\ Finish
  /\ received' = received \o With(stream.protocol # "responses", <<Event("done")>>)
  /\ UNCHANGED <<stream, body, live, queue, state, gone, ledger>>

ClientLeaves ==
  /\ ~gone /\ handler = "writing"
  /\ gone' = TRUE
  /\ UNCHANGED <<stream, body, live, queue, state, handler, received, ledger, active>>

GatewayStep ==
  \/ Forward \/ WrapEvent \/ WrapClosed \/ WrapCancelled
  \/ ToBlocks \/ ToFrames \/ CollectFrames
  \/ Write \/ WriteFails \/ WriteEnds

StreamingNext == Decode \/ DecodeEnds \/ DecodeFails \/ GatewayStep \/ ClientLeaves

(* Safety does not depend on the fairness the runs assume. *)
StreamingSpec == StreamingInit(StreamCases) /\ [][StreamingNext]_streamVars

-----------------------------------------------------------------------------
(* What the upstream said, and what a client makes of its frames. *)

Fragments(i) == LET mine == SelectSeq(stream.chunks, LAMBDA c : c.calls # << >> /\ c.calls[1].index = i)
                IN  [k \in DOMAIN mine |-> mine[k].calls[1].fragment]

CallsSaid == IF StreamedBody(stream) THEN {call.index : call \in UNION {Range(c.calls) : c \in Range(stream.chunks)}}
             ELSE {k - 1 : k \in DOMAIN stream.response[1].calls}

ArgsSaid(i) == IF StreamedBody(stream) THEN compactJSONString(FlattenSeq(Fragments(i)))
               ELSE stream.response[1].calls[i + 1]

TextSaid == FlattenSeq(IF StreamedBody(stream) THEN [k \in DOMAIN stream.chunks |-> stream.chunks[k].text]
                       ELSE [k \in DOMAIN stream.response[1].parts |->
                               With(stream.response[1].parts[k].kind = "text", stream.response[1].parts[k].data)])

DataOf(Test(_)) == LET f == SelectSeq(received, Test) IN FlattenSeq([k \in DOMAIN f |-> f[k].data])

TextRead == DataOf(LAMBDA f : f.type \in {"block_delta", "delta", "text_delta"} /\ f.kind = "text")

Frames(types) == {k \in DOMAIN received : received[k].type \in types}

BlockOf(i) == received[CHOOSE k \in Frames({"block_start"}) : received[k].kind = "tool" /\ received[k].data = <<i>>].index

ArgsRead(i) ==
  IF stream.protocol = "anthropic" THEN DataOf(LAMBDA f : f.type = "block_delta" /\ f.kind = "tool" /\ f.index = BlockOf(i))
  ELSE IF stream.protocol = "openai_chat" THEN DataOf(LAMBDA f : f.type = "tool" /\ f.index = i)
  ELSE LET done == SelectSeq(received, LAMBDA f : f.type = "args_done" /\ f.index = i + 1) IN Last(done).data

Ended == Frames({"message_stop", "end", "completed"}) # {}

(* No snapshot of call i's arguments holds a space that compacting the     *)
(* whole takes out again.                                                  *)
GrowsOnly(i) ==
  \A n \in DOMAIN Fragments(i) :
    LET so_far == FlattenSeq(SubSeq(Fragments(i), 1, n))
    IN  so_far = << >> \/ IsPrefix(compactJSONString(so_far), ArgsSaid(i))

EndsIn(s, t) == Len(t) <= Len(s) /\ t = SubSeq(s, Len(s) - Len(t) + 1, Len(s))

(* A client that sees the end of its message has all of it: the text put   *)
(* together is the text the upstream sent, and so are the arguments of     *)
(* every tool call, whichever protocol it speaks, however the chunks cut   *)
(* them, and although the gateway turns deltas into snapshots and back.    *)
(* Of arguments with a space before the last fragment the snapshots are no *)
(* prefix of the compacted whole, which is sent again after them: the end  *)
(* of what is read (openai_chat_stream.go:122, TrimPrefix in both codecs). *)
DeliveredWhole ==
  Ended => /\ TextRead = TextSaid
           /\ \A i \in CallsSaid : /\ EndsIn(ArgsRead(i), ArgsSaid(i))
                                   /\ GrowsOnly(i) => ArgsRead(i) = ArgsSaid(i)

(* What a Responses client was told of a text part piece by piece is what  *)
(* the part's one done frame and the completed response say of it.         *)
PartsAgree ==
  \A k \in Frames({"completed"}) :
    LET parts == received[k].data.parts
    IN  \A n \in DOMAIN parts :
          LET told == DataOf(LAMBDA f : f.type = "text_delta" /\ f.index = n)
              done == SelectSeq(received, LAMBDA f : f.type = "part_done" /\ f.index = n)
          IN  /\ Len(done) = 1 /\ done[1].data = parts[n]
              /\ done[1].kind = "text" => told = parts[n]

(* The frames of an Anthropic stream are in order at every moment: the     *)
(* message starts once and first; blocks are numbered as they open, take   *)
(* deltas only while open and close once; and the message ends with all of *)
(* them closed, or breaks off with an error, and nothing but done follows. *)
BlocksInOrder ==
  stream.protocol = "anthropic" =>
    \A k \in DOMAIN received :
      LET f == received[k]
          before(type) == {j \in 1 .. k - 1 : received[j].type = type}
          opened == {received[j].index : j \in before("block_start")}
          closed == {received[j].index : j \in before("block_stop")}
      IN  /\ (f.type = "message_start") <=> (k = 1 /\ f.type # "done")
          /\ f.type = "block_start" => f.index = Cardinality(before("block_start"))
          /\ f.type \in {"block_delta", "block_stop"} => f.index \in opened \ closed
          /\ f.type = "message_delta" => opened = closed
          /\ f.type = "message_stop" => before("message_delta") # {}
          /\ f.type # "done" => before("message_stop") \cup before("error") = {}

(* The usage the accounting records for a stream that succeeded is the     *)
(* usage the client was told of, and a stream is recorded at most once.    *)
AccountedAsTold ==
  /\ Len(ledger) <= 1
  /\ \A r \in Range(ledger) : \A k \in Frames({"message_delta", "completed"}) :
       r.ok => received[k].usage = r.usage

(* The frames are those of the client's protocol: each mention of a part   *)
(* agrees with the others, and blocks open, grow and close in turn.        *)
FramesInOrder == PartsAgree /\ BlocksInOrder

(* When the upstream is done with its answer, or the client leaves, the    *)
(* handler returns, even when the upstream stalls with the body open; and  *)
(* the request leaves the active map for good, unless its client left:     *)
(* then wrapStream may report after Finish, and the entry it makes stays   *)
(* (latency.go:331).                                                       *)
HandlerReturns ==
  (gone \/ "decoder" \notin live) ~> [](handler = "returned" /\ (active => gone))
=============================================================================
