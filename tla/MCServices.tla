----------------------------- MODULE MCServices -----------------------------
(***************************************************************************)
(* The gateway's services on small instances.  They share no state, so     *)
(* that what one does is the same whether the others move or not: focus    *)
(* picks the one that runs, and the others rest where they start.          *)
(***************************************************************************)
EXTENDS Routing, OAuth, QuotaWindows, QuotaSnapshots, LogRotation, RecentLog, Streaming,
        MCExchange, ApiKeys, UsageStats, TLC

CONSTANTS c1, c2, p1, p2   \* callers and pollers of the OAuth manager

VARIABLE focus

-----------------------------------------------------------------------------
(* Routing: every pattern of up to three letters and stars, and some that  *)
(* make a greedy matcher choose; round robin under two strategies; aliases *)
(* and a model map.                                                        *)
Letters == {"a", "b"}
Patterns == {p \in UNION {[1 .. n -> Letters \cup {Star}] : n \in 1 .. 3} : \E i \in DOMAIN p : p[i] = Star}
            \cup {<<"a", "b">>, <<"a", Star, "a", "b">>, <<Star, "a", Star, "a">>, <<"a", "b", Star, "b">>}
MCModels == UNION {[1 .. n -> Letters] : n \in 0 .. 3} \cup {<<"a", "b", "a", "b">>, <<"a", "a", "b", "a">>}
Out(n, t, e, m) == [name |-> n, tag |-> t, enabled |-> e, models |-> m]
Rule(n, f, m, t, s, w) ==
  [name |-> n, from |-> f, match |-> m, to |-> t, strategy |-> s, weights |-> w, modelMap |-> << >>]
Model(n, aliases) == [name |-> n, aliases |-> aliases]
Outs == <<Out("o1", "x", TRUE, << >>), Out("o2", "x", TRUE, << >>), Out("o3", "y", TRUE, << >>), Out("o4", "z", FALSE, << >>)>>
PatternConfig(p) ==
  [rules |-> <<Rule("r1", {"t"}, {p}, <<"x">>, "failover", << >>), Rule("r2", {"t"}, {}, <<"z">>, "failover", << >>)>>,
   outbounds |-> Outs]
TurnsConfig ==
  [rules |-> <<Rule("r1", {"t"}, {<<"a">>}, <<"x", "y">>, "weighted_round_robin", ("x" :> 1 @@ "y" :> 2)),
               Rule("r2", {"u"}, {<<"a">>}, <<"y", "x">>, "round_robin", << >>)>>,
   outbounds |-> Outs]
AliasConfig ==
  [rules |-> <<[Rule("r1", {"t"}, {<<Star, "b">>}, <<"x">>, "failover", << >>) EXCEPT !.modelMap = (<<"a", "b">> :> <<"b">>)],
               [Rule("r2", {"t"}, {}, <<"x">>, "failover", << >>) EXCEPT !.modelMap = (<<Star>> :> <<"b", "b">>)]>>,
   outbounds |-> <<Out("o1", "x", FALSE, <<Model(<<"b">>, << >>)>>),
                   Out("o1", "x", TRUE, <<Model(<<"a">>, << <<"b">> >>), Model(<<"a", "a">>, << <<"b", "b">>, <<"a", "b">> >>)>>)>>]
RestConfig ==
  [rules |-> <<Rule("r1", {"t"}, {}, <<"x">>, "failover", << >>)>>, outbounds |-> <<Out("o1", "x", TRUE, << >>)>>]
MCRouterConfigs == {PatternConfig(p) : p \in Patterns} \cup {TurnsConfig, AliasConfig}

-----------------------------------------------------------------------------
(* Quota: a calendar of three ticks a day, as when the clocks change: on   *)
(* day 1 they are set forward past noon, whose tick is then the late one,  *)
(* and on day 2 back, so that it is noon twice.                            *)
MCReadings(d) ==
  CASE d = 1 -> <<"morning", "late">>
    [] d = 2 -> <<"morning", "noon", "noon", "late">>
    [] OTHER -> <<"morning", "noon", "late">>
MCDays == -13 .. 10
MidnightTable == [d \in -13 .. 11 |-> IF d = 2 THEN 5 ELSE 3 * d]
MCMidnight(d) == MidnightTable[d]
ClockTable ==
  [t \in MCMidnight(-13) .. MCMidnight(11) - 1 |-> LET d == DayOf(t) IN MCReadings(d)[t - MCMidnight(d) + 1]]
MCClock(t) == ClockTable[t]
TimeTable ==
  [d \in MCDays |-> LET m == MCMidnight(d) IN [morning |-> m, noon |-> m + 1, late |-> m + Len(MCReadings(d)) - 1]]
MCClockTime(d, c) == TimeTable[d][c]
NoReset == [period |-> ""]
Every(n, a) == [period |-> "interval", duration |-> n, anchor |-> a]
Daily(c) == [period |-> "daily", clock |-> c]
Weekly(c, d) == [period |-> "weekly", clock |-> c, weekday |-> d]
Sums(r, t, c) == [requests |-> r, tokens |-> t, cost |-> c]
Rolling(n, ty, d, m) == [name |-> n, type |-> ty, reset |-> "rolling", duration |-> d, schedule |-> NoReset, max |-> m]
Fixed(n, ty, s, m) == [name |-> n, type |-> ty, reset |-> "fixed", duration |-> 0, schedule |-> s, max |-> m]
Client(ws) == [tracked |-> TRUE, client |-> TRUE, windows |-> ws, resetAll |-> NoReset, cooldown |-> 0, probeInterval |-> 0]
Outbound(ws, all) == [tracked |-> TRUE, client |-> FALSE, windows |-> ws, resetAll |-> all, cooldown |-> 2, probeInterval |-> 1]
Untracked == [Client({}) EXCEPT !.tracked = FALSE]
MCQuotaConfigs == {
  Untracked,
  Client({Rolling("w", "requests", 2, Sums(2, 0, 0)), Fixed("x", "tokens", Daily("noon"), Sums(0, 2, 0))}),
  Client({Rolling("w", "cost", 2, Sums(0, 0, 2))}),
  Outbound({Rolling("w", "", 2, Sums(2, 3, 0)), Fixed("x", "", Every(3, 5), Sums(2, 0, 0))}, NoReset),
  Outbound({Rolling("w", "", 2, Sums(1, 3, 0)), Fixed("x", "", Daily("late"), Sums(2, 0, 0))}, Weekly("morning", 1))}

(* The clock moves noon to a later reading, so no period goes back. *)
ASSUME CalendarInOrder == StartsInOrder

MCAmounts == {Sums(1, 0, 0), Sums(1, 2, 0), Sums(0, 1, 2)}

-----------------------------------------------------------------------------
(* The recent log buffer's chunks, of one or two lines. *)
Seg(n, e) == [len |-> n, ended |-> e]
MCChunks == {<<Seg(0, TRUE)>>} \cup {<<Seg(a, e)>> : a \in 1 .. 3, e \in BOOLEAN}
            \cup {<<Seg(a, TRUE), Seg(b, e)>> : a \in {1, 4}, b \in {1, 2}, e \in BOOLEAN}

-----------------------------------------------------------------------------
(* Streams: text and tool calls in turn, two calls at once, arguments with *)
(* a space, usage first, a chunk that is no JSON, nothing; a body that     *)
(* breaks off or ends without usage; and answers that came whole.          *)
NoChunk == [bad |-> FALSE, choice |-> TRUE, text |-> << >>, calls |-> << >>, usage |-> 0, finish |-> ""]
Text(x) == [NoChunk EXCEPT !.text = <<x>>]
Call(i, f) == [NoChunk EXCEPT !.calls = <<[index |-> i, fragment |-> f]>>]
Usage(n) == [NoChunk EXCEPT !.choice = FALSE, !.usage = n]
Finishes(r) == [NoChunk EXCEPT !.finish = r]
Bodies == {
  <<Text("t"), Call(0, <<"{">>), Text("u"), Call(0, <<"a", "}">>), Finishes("tool_calls"), Usage(3)>>,
  <<Call(0, << >>), Call(1, <<"{", "a">>), Call(0, <<"{", "}">>), Call(1, <<" ", "b", "}">>), [Finishes("stop") EXCEPT !.usage = 2]>>,
  <<Call(0, <<"{", " ", "a">>), Call(0, <<"}">>)>>,
  <<Usage(1), Text("t"), Text("u"), Finishes("length")>>,
  <<Text("t"), [NoChunk EXCEPT !.bad = TRUE], Text("u")>>,
  << >>}
Part(k, x) == [kind |-> k, data |-> <<x>>]
Responses == {
  [parts |-> <<Part("text", "t"), Part("json", "j"), Part("text", "u")>>, calls |-> << <<"{", "}">>, <<"{", "a", "}">> >>,
   usage |-> 4, finish |-> "tool_use"],
  [parts |-> << >>, calls |-> << >>, usage |-> 0, finish |-> "stop"]}
Protocols == {"anthropic", "openai_chat", "responses"}
Case(p, b) == [protocol |-> p, chunks |-> b, broken |-> FALSE, response |-> << >>, estimate |-> 0]
MCStreamCases ==
  {Case(p, b) : p \in Protocols, b \in Bodies}
  \cup {[Case(p, <<Text("t"), Call(0, <<"{", "}">>)>>) EXCEPT !.broken = x, !.estimate = 9] : p \in Protocols, x \in BOOLEAN}
  \cup {[Case(p, << >>) EXCEPT !.response = <<r>>] : p \in Protocols, r \in Responses}

-----------------------------------------------------------------------------
(* Statistics: three days in two weeks and two months, records that lack a *)
(* model, a readable time or a count of requests, a model with a prefix,   *)
(* and prices that override each other.                                    *)
Rec(key, provider, model, requested, day, tokens) ==
  [key |-> key, provider |-> provider, outbound |-> "o1", model |-> model, requested |-> requested, inbound |-> "i1",
   source |-> "provider", error_kind |-> "", agent |-> "", session |-> "s", day |-> day, count |-> 1, failed |-> FALSE,
   tokens |-> tokens, cost |-> 0]
MCUsageRecords ==
  {Rec("c1", "p1", "m", "m", 1, 2), Rec("c1", "p1", "x/m", "m", 2, 3), Rec("c2", "p2", "n", "m", 3, 1),
   [Rec("c2", "p2", "", "n", 3, 0) EXCEPT !.failed = TRUE, !.error_kind = "quota_exceeded", !.source = "", !.session = ""],
   [Rec("c2", "p1", "", "m", Unknown, 1) EXCEPT !.count = 0]}
Price(provider, model, rate) == [provider |-> provider, model |-> model, rate |-> rate]
MCBuiltInPrices == <<Price("", "m", 1), Price("", "n", 2)>>
MCPrices == <<Price("p1", "m", 3), Price("", "m", 4), Price("", "m", 5)>>
MCBaseName(model) == IF model = "x/m" THEN "m" ELSE model
MCWeekOf(day) == IF day = 1 THEN 1 ELSE 2
MCMonthOf(day) == IF day = 3 THEN 2 ELSE 1

-----------------------------------------------------------------------------
On(s) == focus = s
AnyUpstream == CHOOSE u \in Upstreams : TRUE

Init ==
  /\ focus \in {"routing", "oauth", "windows", "snapshots", "rotation", "recent", "streaming",
               "exchange", "keys", "stats"}
  /\ RoutingInit(IF On("routing") THEN RouterConfigs ELSE {RestConfig})
  /\ \E parties \in IF On("oauth") THEN {{c1, c2}, {c1, p1}, {p1, p2}} ELSE {{}} : OAuthInit(parties)
  /\ QuotaWindowsInit(IF On("windows") THEN QuotaConfigs ELSE {Untracked})
  /\ SnapshotsInit /\ LogInit /\ RecentInit
  /\ StreamingInit(IF On("streaming") THEN StreamCases ELSE {Case("openai_chat", << >>)})
  /\ ExchangeInit(IF On("exchange") THEN Asked ELSE {Instructed}, IF On("exchange") THEN Upstreams ELSE {AnyUpstream})
  /\ KeysInit /\ StatsInit

(* Everything but service s rests. *)
Only(s) ==
  /\ On(s) /\ UNCHANGED focus
  /\ s # "routing" => UNCHANGED routerVars
  /\ s # "oauth" => UNCHANGED oauthVars
  /\ s # "windows" => UNCHANGED windowVars
  /\ s # "snapshots" => UNCHANGED snapshotVars
  /\ s # "rotation" => UNCHANGED logVars
  /\ s # "recent" => UNCHANGED recentVars
  /\ s # "streaming" => UNCHANGED streamVars
  /\ s # "exchange" => UNCHANGED exchangeVars
  /\ s # "keys" => UNCHANGED keyVars
  /\ s # "stats" => UNCHANGED statsVars

Next ==
  \/ Only("routing") /\ RoutingNext
  \/ Only("oauth") /\ OAuthNext
  \/ Only("windows") /\ QuotaWindowsNext
  \/ Only("snapshots") /\ SnapshotsNext
  \/ Only("rotation") /\ LogNext
  \/ Only("recent") /\ RecentNext
  \/ Only("streaming") /\ StreamingNext
  \/ Only("exchange") /\ ExchangeNext
  \/ Only("keys") /\ KeysNext
  \/ Only("stats") /\ StoreRecord

vars == <<focus, routerVars, oauthVars, windowVars, snapshotVars, logVars, recentVars, streamVars,
          exchangeVars, keyVars, statsVars>>

(* A request goes on until it has a credential: the manager's HTTP client  *)
(* has a timeout (manager.go:64).  The clients that send the request to    *)
(* the upstream have none, and nothing is assumed of them.                 *)
OAuthFairness == \A c \in Callers : WF_oauthVars(On("oauth") /\ CredentialStep(c))

(* The worker is a goroutine of its own; nothing it waits for holds it up. *)
LogFairness == WF_logVars(On("rotation") /\ WorkerStep)

(* The gateway's goroutines do not all stand still while one can go on.    *)
(* Nothing is assumed of the upstream, which may stall with the body open. *)
StreamingFairness == WF_streamVars(On("streaming") /\ GatewayStep)

Spec == Init /\ [][Next]_vars /\ OAuthFairness /\ LogFairness /\ StreamingFairness
=============================================================================
