----------------------------- MODULE MCExchange -----------------------------
(***************************************************************************)
(* The requests and answers of the exchange's small instance: every list   *)
(* of up to three blocks for an Anthropic client, conversations of a chat  *)
(* client, every list of up to two items of a Responses client, and for    *)
(* plain requests every short answer an upstream of each protocol gives.   *)
(***************************************************************************)
EXTENDS Exchange

Blk(kind, text) == [ContentBlock(kind) EXCEPT !.text = text]
Res(id, content, isError) == [ContentBlock("tool_result") EXCEPT !.id = id, !.content = content, !.isError = isError]
Use(id, json) == [ContentBlock("tool_use") EXCEPT !.id = id, !.name = "f", !.json = json]
Doc(form) == Json(form, IF form = "bad" THEN "broken" ELSE "doc")
Large == Json("spaced", "big")
Prose(text) == Content("text", text, << >>)
List(blocks) == Content("blocks", << >>, blocks)
Data == [ContentBlock("json") EXCEPT !.json = Doc("spaced")]
Msg(role, content) == [role |-> role, content |-> content, calls |-> << >>, callID |-> ""]
Lists(S, n) == UNION {[1 .. k -> S] : k \in 0 .. n}
Ask(protocol, messages) ==
  [protocol |-> protocol, system |-> Absent, messages |-> messages, input |-> Absent, tools |-> << >>, previous |-> FALSE]

-----------------------------------------------------------------------------
UserBlocks ==
  {Blk("text", <<"a">>), Blk("text", <<"reminder">>), Blk("image", << >>),
   Res("1", Prose(<<"b">>), FALSE), Res("2", List(<<Blk("text", <<"c">>), Data, Blk("image", << >>)>>), TRUE)}
AgentBlocks == {Blk("text", <<"d">>), Use("1", Large), Use("2", NoJson)}
JsonResult == Res("1", [Absent EXCEPT !.form = "json", !.json = Large], FALSE)
Systems ==
  {Prose(<<"s">>), List(<<Blk("text", <<"s">>), Blk("text", <<"u">>)>>), List(<< >>), Content("json", << >>, << >>)}
AnthropicAsked ==
  {Ask("anthropic", <<Msg("user", List(bs))>>) : bs \in Lists(UserBlocks, 3)}
  \cup {Ask("anthropic", <<Msg("assistant", List(bs)), Msg("user", List(<<JsonResult>>))>>) : bs \in Lists(AgentBlocks, 3)}
  \cup {[Ask("anthropic", <<Msg("user", Prose(<<"a">>)), Msg("system", Prose(<<"t">>))>>) EXCEPT !.system = s] : s \in Systems}

Fn(id, json) == [id |-> id, name |-> "f", type |-> "function", json |-> json]
Greeting == <<Msg("system", Prose(<<"s">>)), Msg("user", Prose(<<"a">>))>>
ChatMessages ==
  {Greeting,
   <<[Msg("assistant", Content("null", << >>, << >>)) EXCEPT !.calls = <<Fn("1", Large), Fn("2", Doc("compact"))>>],
     [Msg("tool", Prose(<<"b">>)) EXCEPT !.callID = "1"], [Msg("tool", Prose(<< >>)) EXCEPT !.callID = "2"]>>,
   <<[Msg("assistant", Prose(<<"d">>)) EXCEPT !.calls = <<Fn("1", Doc("bad"))>>]>>,
   <<[Msg("assistant", Absent) EXCEPT !.calls = <<[Fn("1", NoJson) EXCEPT !.type = "x"]>>]>>,
   <<Msg("user", Content("json", << >>, << >>))>>,
   <<Msg("user", Content("null", << >>, << >>)), Msg("assistant", Prose(<<"d">>))>>}

Item(kind, id, content) == [ContentBlock(kind) EXCEPT !.id = id, !.name = "f", !.content = content]
Items ==
  {[Item("message", "", Prose(<<"a">>)) EXCEPT !.role = "assistant"],
   Item("message", "", List(<<Blk("input_text", <<"a">>), Blk("text", <<"b">>)>>)),
   Item("message", "", List(<<Blk("image", << >>)>>)),
   [Item("function_call", "1", Absent) EXCEPT !.json = Large],
   [Item("custom_tool_call", "2", Absent) EXCEPT !.text = <<"c">>],
   [Item("function_call_output", "1", List(<<Data, Blk("image", << >>), Blk("text", <<"c">>)>>)) EXCEPT !.isError = TRUE],
   Item("custom_tool_call_output", "2", Absent), Item("function_call_output", "", Prose(<<"b">>)),
   Item("reasoning", "", Absent)}
Tool(type, name, schema) == [type |-> type, name |-> name, schema |-> schema]
Tools == {Tool("", "f", "array"), Tool("custom", "g", ""), Tool("web", "", "")}
Instructed == [Ask("responses", << >>) EXCEPT !.input = Prose(<<"a">>)]
ResponsesAsked ==
  {[Ask("responses", << >>) EXCEPT !.input = List(is), !.system = s] : is \in Lists(Items, 2), s \in {Absent, Prose(<<"s">>)}}
  \cup {[Instructed EXCEPT !.tools = ts, !.previous = p] : ts \in Lists(Tools, 2), p \in BOOLEAN}

MCAsked ==
  AnthropicAsked \cup {Ask("openai_chat", ms) : ms \in ChatMessages} \cup ResponsesAsked
  \cup {Ask("openai_chat", << >>), Ask("responses", << >>)}

-----------------------------------------------------------------------------
(* How an answer is translated does not depend on the question, so that    *)
(* one question of each protocol is answered.                              *)
Plain == {Ask("anthropic", <<Msg("user", List(<<Blk("text", <<"a">>)>>))>>), Ask("openai_chat", Greeting), Instructed}

Ans(blocks, finish) == [NoAnswer EXCEPT !.blocks = blocks, !.finish = finish, !.choices = TRUE]
FunctionCall(json, input) == [Item("function_call", "1", [Absent EXCEPT !.json = input]) EXCEPT !.json = json]
AnthropicAnswers ==
  {Ans(bs, f) :
     bs \in Lists({Blk("text", <<"x">>), Blk("text", << >>), Data, Use("1", Large)}, 2),
     f \in {"end_turn", "tool_use", "max_tokens", "refusal", ""}}
ChatAnswers ==
  {NoAnswer} \cup
  {[Ans(bs, f) EXCEPT !.text = t, !.reasoning = r] :
     bs \in Lists({Use("1", Large), Use("2", Doc("bad"))}, 2), t \in {<< >>, <<"x">>}, r \in {<< >>, <<"y">>},
     f \in {"stop", "length", "tool_calls", "function_call", "content_filter", ""}}
ResponsesAnswers ==
  {Ans(bs, f) :
     bs \in Lists({Item("message", "", List(<<Blk("output_text", <<"x">>), Data>>)), Item("reasoning", "", Absent),
                   FunctionCall(Large, NoJson), FunctionCall(NoJson, Large)}, 2),
     f \in {"completed", "incomplete"}}

MCAnswers(protocol, ask) ==
  CASE ask \notin Plain -> {}
    [] ask \in Plain /\ protocol = "anthropic" -> AnthropicAnswers
    [] ask \in Plain /\ protocol = "openai_chat" -> ChatAnswers
    [] OTHER -> ResponsesAnswers
=============================================================================
