----------------------------- MODULE UsageStats -----------------------------
(***************************************************************************)
(* The usage statistics (accounting/memory.go): as a record arrives it is  *)
(* added to ten groupings, in total and per day, week and month, and the   *)
(* queries read those sums.  Requests end in any order, so records arrive  *)
(* in any order of their times.  A record's cost comes from the price list *)
(* (accounting/pricing.go).                                                *)
(*                                                                         *)
(* A record's day is the UTC day it finished, Unknown if its time cannot   *)
(* be read.  Of the sums, the requests, the failed ones, the tokens of one *)
(* kind and the cost are kept: the others are added up alongside.          *)
(***************************************************************************)
EXTENDS Integers, Sequences, FiniteSets, FiniteSetsExt

CONSTANTS UsageRecords,     \* the records that may arrive, without their cost
          BuiltInPrices,    \* a sequence of [provider, model, rate], "" for any provider
          Prices,           \* the configured ones, another
          BaseName(_),      \* what follows the last slash of a model's name
          WeekOf(_), MonthOf(_), LastDay,
          RecentLimit,      \* defaultRecentRecordsLimit
          MaxUsageRecords

VARIABLES totals,    \* <<grouping, value>> to its sums
          windows,   \* <<window, bucket, grouping, value>> to its sums
          recentRecords, \* the last ones
          arrived    \* all of them, in the order they came

statsVars == <<totals, windows, recentRecords, arrived>>

Unknown == -1

usageGroupBys == {"key", "provider", "model", "inbound", "source", "outbound", "error_kind", "date", "agent", "session"}

StatsInit == totals = << >> /\ windows = << >> /\ recentRecords = << >> /\ arrived = << >>

-----------------------------------------------------------------------------
NoPrice == [provider |-> "", model |-> "", rate |-> 0]

(* Configured entries come after the built-in ones.                        *)
priceItems == BuiltInPrices \o Prices

(* The last entry of this provider, else the last one of no provider.      *)
matchExact(provider, model) ==
  LET of(p) == {i \in DOMAIN priceItems : priceItems[i].model = model /\ priceItems[i].provider = p}
      last(S) == priceItems[CHOOSE i \in S : \A j \in S : j <= i]
  IN  CASE of(provider) # {} -> last(of(provider))
        [] of(provider) = {} /\ of("") # {} -> last(of(""))
        [] OTHER -> NoPrice

(* A name with a slash that no entry has is priced by what follows it.     *)
match(provider, model) ==
  IF matchExact(provider, model) # NoPrice \/ BaseName(model) = model THEN matchExact(provider, model)
  ELSE matchExact("", BaseName(model))

perMillion(tokens, rate) == IF tokens <= 0 \/ rate <= 0 THEN 0 ELSE tokens * rate

CostUSD(provider, model, tokens) == perMillion(tokens, match(provider, model).rate)

-----------------------------------------------------------------------------
nonEmpty(value, fallback) == IF value # "" THEN value ELSE fallback

usageGroupValue(record, groupBy) ==
  CASE groupBy = "provider" -> nonEmpty(record.provider, nonEmpty(record.outbound, "unknown"))
    [] groupBy = "model" -> nonEmpty(record.model, nonEmpty(record.requested, "unknown"))
    [] groupBy = "error_kind" -> nonEmpty(record.error_kind, "none")
    [] groupBy = "date" -> record.day
    [] OTHER -> nonEmpty(record[groupBy], "unknown")

NoSums == [requests |-> 0, errors |-> 0, tokens |-> 0, cost |-> 0, lastSeen |-> 0]

mergeStatsItem(dst, src) ==
  [requests |-> dst.requests + src.requests, errors |-> dst.errors + src.errors,
   tokens |-> dst.tokens + src.tokens, cost |-> dst.cost + src.cost,
   lastSeen |-> IF src.lastSeen > dst.lastSeen THEN src.lastSeen ELSE dst.lastSeen]

(* A record that names no number of requests is one.                       *)
sumsOf(record) ==
  LET count == IF record.count <= 0 THEN 1 ELSE record.count
  IN  [requests |-> count, errors |-> IF record.failed THEN count ELSE 0, tokens |-> record.tokens,
       cost |-> record.cost, lastSeen |-> record.day]

applyToGroup(group, keys, record) ==
  [key \in DOMAIN group \cup keys |->
     IF key \in keys THEN mergeStatsItem(IF key \in DOMAIN group THEN group[key] ELSE NoSums, sumsOf(record))
                     ELSE group[key]]

(* The unknown day is in the unknown week and month.                       *)
timeBuckets(record) ==
  IF record.day = Unknown THEN {<<w, Unknown>> : w \in {"day", "week", "month"}}
  ELSE {<<"day", record.day>>, <<"week", WeekOf(record.day)>>, <<"month", MonthOf(record.day)>>}

(* Record, of what the dispatcher built and put a price on: an attempt     *)
(* whose step names no model is priced by the requested one.               *)
StoreRecord ==
  /\ Len(arrived) < MaxUsageRecords
  /\ \E r \in UsageRecords :
       LET model == nonEmpty(r.model, r.requested)
           record == [r EXCEPT !.model = model, !.cost = CostUSD(r.provider, model, r.tokens)]
           all == Append(recentRecords, record)
       IN  /\ totals' = applyToGroup(totals, {<<g, usageGroupValue(record, g)>> : g \in usageGroupBys}, record)
           /\ windows' = applyToGroup(windows,
                {b \o <<g, usageGroupValue(record, g)>> : b \in timeBuckets(record), g \in usageGroupBys}, record)
           /\ recentRecords' = IF Len(all) > RecentLimit THEN SubSeq(all, Len(all) - RecentLimit + 1, Len(all)) ELSE all
           /\ arrived' = Append(arrived, record)

-----------------------------------------------------------------------------
(* Mutant: the end day is counted too.                                     *)
daysWithEnd(start, end) == start .. end

daysOf(start, end) == start .. end - 1

queryDateRange(groupBy, client, start, end) ==
  LET days == daysOf(start, end)
      group(day) == IF client # "" THEN {k \in DOMAIN windows : k = <<"day", day, "key", client>>}
                    ELSE {k \in DOMAIN windows : SubSeq(k, 1, 3) = <<"day", day, groupBy>>}
      value(k) == IF client # "" \/ groupBy = "date" THEN k[2] ELSE k[4]
      found == UNION {group(d) : d \in days}
  IN  [v \in {value(k) : k \in found} |->
         FoldSet(LAMBDA k, sums : mergeStatsItem(sums, windows[k]), NoSums, {k \in found : value(k) = v})]

(* What a query leaves out is "", or 0 for a bucket or a day.              *)
hasDateRange(q) == q.start # 0 \/ q.end # 0

acceptsQuery(q) ==
  /\ q.client # "" => q.groupBy = "date" /\ hasDateRange(q) /\ q.window = "" /\ q.bucket = 0
  /\ q.groupBy \in usageGroupBys \cup {""} /\ q.window \in {"", "total", "day", "week", "month"}
  /\ IF hasDateRange(q) THEN q.start # 0 /\ q.end # 0 /\ q.start < q.end /\ q.window \in {"", "total"} /\ q.bucket = 0
     ELSE q.window \notin {"", "total"} => q.bucket # 0

(* The answer maps the values of the grouping to their sums.               *)
Query(q) ==
  LET groupBy == nonEmpty(q.groupBy, "key")
      total == {k \in DOMAIN totals : k[1] = groupBy}
      window == {k \in DOMAIN windows : SubSeq(k, 1, 3) = <<q.window, q.bucket, groupBy>>}
  IN  CASE hasDateRange(q) -> queryDateRange(groupBy, q.client, q.start, q.end)
        [] ~hasDateRange(q) /\ q.window \in {"", "total"} -> [v \in {k[2] : k \in total} |-> totals[<<groupBy, v>>]]
        [] OTHER -> [v \in {k[4] : k \in window} |-> windows[<<q.window, q.bucket, groupBy, v>>]]

(* Newest last.  A limit of 0, or above what is kept, is no limit.         *)
RecentRecords(limit, since) ==
  LET most == IF limit <= 0 \/ limit > Len(recentRecords) THEN Len(recentRecords) ELSE limit
      kept == SelectSeq(recentRecords, LAMBDA r : since = 0 \/ r.day >= since)
  IN  IF Len(kept) > most THEN SubSeq(kept, Len(kept) - most + 1, Len(kept)) ELSE kept

-----------------------------------------------------------------------------
Asking(groupBy, window, bucket, start, end, client) ==
  [groupBy |-> groupBy, window |-> window, bucket |-> bucket, start |-> start, end |-> end, client |-> client]

BucketOf(window, day) ==
  CASE day = Unknown -> Unknown [] window = "day" -> day [] window = "week" -> WeekOf(day) [] OTHER -> MonthOf(day)

Queries ==
  LET days == 1 .. LastDay
      clients == {r.key : r \in UsageRecords}
  IN  {Asking(g, "", 0, 0, 0, "") : g \in usageGroupBys \cup {""}}
        \cup {Asking(g, w, BucketOf(w, d), 0, 0, "") : g \in usageGroupBys, w \in {"day", "week", "month"}, d \in days \cup {Unknown}}
        \cup {Asking(g, "", 0, a, b, c) : g \in usageGroupBys, a \in days, b \in days \cup {LastDay + 1}, c \in clients \cup {""}}

(* The price meant for a record: the operator's entry for the provider, or *)
(* for any, the latest first; then the built-in one; then, for a name that *)
(* has a prefix, those of the name without it.                             *)
PriceMeant(provider, model) ==
  LET latest(list, p, m) == LET S == {i \in DOMAIN list : list[i].provider = p /\ list[i].model = m}
                            IN  IF S = {} THEN << >> ELSE <<list[CHOOSE i \in S : \A j \in S : j <= i].rate>>
      order == latest(Prices, provider, model) \o latest(Prices, "", model) \o latest(BuiltInPrices, "", model)
                 \o latest(Prices, "", BaseName(model)) \o latest(BuiltInPrices, "", BaseName(model)) \o <<0>>
  IN  order[1]

(* A query tells the whole truth about the records it is asked about.  For *)
(* each of its values the requests, failures, tokens and cost are those of *)
(* exactly the records that have the value and finished in the bucket or   *)
(* in [start_date, end_date), in whatever order they came and however many *)
(* the list of recent records has dropped; a value no record has is not    *)
(* listed.  Each is priced by the entry meant for it: accounting.pricing   *)
(* overrides the built-in prices.  RecentRecords gives the newest records  *)
(* still kept, none skipped.                                               *)
StatsAreSums ==
  /\ arrived = << >> => totals = << >> /\ windows = << >> /\ recentRecords = << >>
  /\ arrived # << >> => \A q \in {q \in Queries : acceptsQuery(q)} :
       LET asked(i) ==
             LET r == arrived[i]
             IN  /\ q.client # "" => r.key = q.client
                 /\ q.window # "" => BucketOf(q.window, r.day) = q.bucket
                 /\ q.start # 0 => q.start <= r.day /\ r.day < q.end
           value(i) == usageGroupValue(arrived[i], nonEmpty(q.groupBy, "key"))
           chosen == {i \in DOMAIN arrived : asked(i)}
           sum(S, f(_)) == FoldSet(LAMBDA i, n : f(i) + n, 0, S)
       IN  /\ DOMAIN Query(q) = {value(i) : i \in chosen}
           /\ \A v \in DOMAIN Query(q) :
                LET S == {i \in chosen : value(i) = v}
                    one(i) == IF arrived[i].count = 0 THEN 1 ELSE arrived[i].count
                IN  /\ Query(q)[v].requests = sum(S, one)
                    /\ Query(q)[v].errors = sum({i \in S : arrived[i].failed}, one)
                    /\ Query(q)[v].tokens = sum(S, LAMBDA i : arrived[i].tokens)
                    /\ Query(q)[v].cost =
                         sum(S, LAMBDA i : arrived[i].tokens * PriceMeant(arrived[i].provider, arrived[i].model))
  /\ arrived # << >> => \A limit \in 0 .. RecentLimit, since \in 0 .. LastDay :
       LET kept == {i \in DOMAIN arrived : i > Len(arrived) - RecentLimit /\ (since = 0 \/ arrived[i].day >= since)}
           newest == {i \in kept : limit = 0 \/ Cardinality({j \in kept : j > i}) < limit}
       IN  RecentRecords(limit, since) = [n \in 1 .. Cardinality(newest) |->
             arrived[CHOOSE i \in newest : Cardinality({j \in newest : j <= i}) = n]]
=============================================================================
