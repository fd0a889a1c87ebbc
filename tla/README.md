# Verification of the Syrogo gateway

TLA+ models of Syrogo (a gateway between AI clients and providers), the TLC runs
that check them, and the theorems TLAPS proves about them. Source paths are
relative to the repository; names without a path are below `internal/`.

## The system

A request enters `gateway`: it is matched to a client, checked against the
client's quota, read from one of three protocols, routed to a plan (the outbounds
to try, in order) by `router`, and executed by `execution`. The dispatcher asks two
shared trackers before each provider call, quota (`quota`) and health
(`provider/health.go`), and reports the outcome to them and to the accounting store
(`accounting`). The provider client writes the request for one of three upstream
protocols, rotates its API keys or uses an OAuth credential, and the answer, whole
or streamed through a chain of goroutines, is written for the client. Beside the
requests run the reload of the configuration, the session store with the launcher
that reports to it, the snapshot stores, and log rotation.

| Part | Modules | What makes it hard |
|---|---|---|
| dispatcher | `Dispatcher`, `Provider` | requests interleave between any two tracker calls; streams outlive the call; clients leave |
| health tracker | `HealthTracker` | the outcomes of several requests meet one probe flag |
| quota tracker | `OutboundQuota` (in the dispatcher), `QuotaWindows`, `QuotaSchedule`, `QuotaIdeal` | events are discarded as time passes, and carried through reloads and snapshots |
| quota snapshot store | `QuotaSnapshots` | two stores during a reload, crashes |
| accounting | `UsageLog`, `UsageStats` | crashes, rotation, days, a full queue; sums in ten groupings |
| router | `Router`, `Routing` | wildcard matching, shared counters, aliases |
| reload, configuration, admission | `ConfigResources`, `Reload`, `Gateway` | each step can fail; requests run while listeners are swapped one by one |
| sessions, launcher | `SessionStore`, `Sessions` | lost and late reports, restarts from stale snapshots, leases |
| OAuth | `OAuth` | refreshes racing each other, deletion and reconnection |
| API keys | `ApiKeys` | calls move one index without a lock between read and write |
| codecs | `RequestCodec`, `UpstreamCodec`, `Exchange` | nine pairs of protocols |
| streams | `StreamCodec`, `Streaming` | readers that stop reading; deltas turned into snapshots and back |
| logs | `LogRotation`, `RecentLog` | crash between steps; what the buffer can vouch for |

`PROJECT.json` lists every part with its status, the map from definitions to source
lines, and the hazards of the code with the properties that watch them.

`MCDispatcher`, `MCUsageLog`, `MCSessions`, `MCGateway`, `MCExchange` and
`MCServices` are instances for TLC. The proofs are in `DispatcherProofs`,
`UsageLogProofs`, `GatewayProofs`, `RoutingProofs`, `QuotaProofs` (quota windows),
`StorageProofs` (quota snapshots, log rotation, recent log), `StreamProofs` and
`ServiceProofs` (OAuth, API keys, sessions). `Lists` has the operators on sequences all
share; they are those of `SequencesExt`, without the `Bags` it extends, which slow the
prover down.

Definitions whose comment starts with "Mutant" are plausible slips of the
definition below them. No specification uses them; replacing the original by one
must break the property that guards against it.

## How the modules correspond to the code

**Dispatcher.** `pc[r]` names the next thing the goroutine of request `r` does to
shared state: `step` (the quota gate), `health`, `call`, then the reports of the
outcome. Each tracker call is an action, because requests interleave there.
`stream` is the goroutine of `wrapStream`. A slot of `Requests` is reused when its
request has finished: the slots bound how many are concurrent, and nothing bounds
how many there are. `ledger[r]` holds what the request wrote. Deadlines are ticks to
go. Events leave a quota window by `WindowExpire`, in any number; which ones leave
when is the subject of `QuotaWindows`.

**UsageLog.** A record is stamped (`Finish`), counted in memory (`Count`) and queued
(`Enqueue`): three steps, because the worker's snapshot can come between. The
worker's `select`, append loop, flush, snapshot and cleanup are the values of its
`pc`. `latest.json` is truncated before it is filled. A crash lets any prefix of the
buffered lines reach the file. A write error breaks the `bufio` writer for ever; a flush
or a sync may fail as well, and the worker goes on without looking.

**UsageStats.** What `MemoryStore` adds up as records arrive, in any order of their
days, and what a query reads; prices as `pricing.go` looks them up.

**QuotaWindows** is one subject of `quota/tracker.go`, each operation one critical
section. `QuotaIdeal` is what it promises: it keeps every event, and a window counts
those its definition says; what identifies a window and what it counts are its
parameters. `QuotaSchedule` has the arithmetic; the local calendar is
the external `Midnight`, `ClockTime` and `Clock`, in which a day may lack a reading that
another has. `QuotaSnapshots` takes the write of
`latest.json` apart (temporary file, rename), with the old and the new store of a
reload.

**Reload, Gateway.** The manager's lock makes one operation at a time; its steps are
actions, each of which can fail, and the process can crash between them.
`ConfigResources` has the operations on clients, bindings, outbounds, rules and
prices with the references they must keep. `Gateway` adds the requests: a request
loads the handler's state afresh at each of its phases, as the code does. Each client has
one quota window, whose limit and duration a new configuration may change.

**Sessions.** One session and its launcher. A unit of time is the reporter's ticker: one
report, one sweep. A request may be lost, its answer may be, and one that was given up may
still arrive. A save can fail before or after its rename. `SessionStore` has what each call
makes of the session.

**OAuth.** One credential. The authorization server is external: it issues numbered
tokens and refuses a refresh token it has taken. A caller's steps are those between
which others can run; the refresh lock spans its HTTP request.

**Exchange.** A request is a record of messages and content blocks with words, JSON
documents (valid, spaced, invalid, with an integer beyond 2^53) and ids as small values;
`RequestCodec` reads it, `UpstreamCodec` writes it and reads the answer, `Exchange` writes
that for the client. What was said is compared as a sequence of words, calls and results.

**Streaming.** One action per turn of a goroutine's loop, channels with their
capacity. `StreamCodec` has what each loop makes of an event.

**Routing, ApiKeys, LogRotation, RecentLog.** One action per call (the models a target
offers are those of the last enabled outbound of its name, as in the code's map); in `ApiKeys` one
per access to the shared index; in `LogRotation` one per file operation.

## Runs

| Run | Shows |
|---|---|
| `dispatch_contention` | 3 concurrent requests, one outbound with limit 2. `OvershootBounded`: the limit is overshot by at most the number of concurrent requests less one, across 429s, probes and streams. |
| `dispatch_fallback` | plans of two and three steps, every kind of error, disconnects. `SettledOnce`: a finished request left one record, or none when its client left, and charges that agree. `ReturnsPreferredError`. |
| `dispatch_live` | 2 requests. `QuotaAdmitsAgain`: no lost probe, 429 or full window closes the quota gate for good. `HealthClosedOnlyByProbe`: nothing but a probe that is never ended closes the health gate for good. |
| `usage_crash` | 3 records, 3 process lives, crashes anywhere, failing opens, writes, flushes and snapshots. `DurableCounted` until a write fails, `LoggedOnce`. |
| `usage_orderly` | 2 records, 3 days, rotation, retention, orderly restarts, a queue of one. `RecordedStaysCounted`, `QueuedReachesDisk`. |
| `sessions` | `SnapshotInSync`, `NoFalseStop`, `StoppedIsFinal`; `DeadAgentsStop` and `LiveAgentReturns` under fairness. |
| `control_plane` | `FileLoads`, `ServedAgrees`, `AllOrNothing`, `ReferencesKept`: what is on disk and what is served through every failure and crash; `ClientOvershoot`: the client quota while reloads change its limit and its window. |
| `services` | routing: `PlanAsConfigured`, `RoundRobinFair`; OAuth: `UsedOnce`, `DeletedStaysDeleted`, `CredentialInTheEnd`; quota: `QuotaImplementsIdeal`, `TimesAreRight`, `SavesAreAtomic`; logs: `LogIsKept`, `CompressedInTheEnd`, `CoveredIsComplete`; streams: `DeliveredWhole`, `FramesInOrder`, `AccountedAsTold`, `HandlerReturns`; codecs: `RequestCarried`, `AnswerCarried`; keys: `QuotaOnlyIfAllSpent`; statistics: `StatsAreSums`. |

`services` puts ten services into one state space. They share no variable, so what
one does is the same whether the others move or not: `focus` picks one in the initial
state and the others rest. Each property is about one of them.

`QuotaImplementsIdeal` is a refinement: `QuotaWindows`, which forgets events as soon
as it may, implements `QuotaIdeal`, which forgets none, with the windows in force as
the refinement mapping (`Ideal == INSTANCE QuotaIdeal WITH limits <- ...`).

`RequestCarried` and `AnswerCarried` list, by name, the cases in which the code loses
something (below). Outside them no word, call or result may be lost, and calls and results
keep their ids and order. Documents are compared up to the rounding of integers beyond 2^53:
wherever the code reads a document into `any`, `json.Unmarshal` makes a float64 of every
number. Only an answer from a chat upstream to a chat client is left as it is.
`AnswerCarried` also says what a chat or Anthropic client is told of the end: an answer with
calls tells it to run them, unless the answer was cut short or an Anthropic upstream said
otherwise. `DeliveredWhole` asks for the arguments exactly, except for those with white
space before their last fragment: they come whole, after pieces sent before.

Some properties say less than their names may suggest. `AccountedAsTold` compares the usage
for Anthropic and Responses clients; a chat client is told none, and for it the property
says that a stream is recorded at most once. `SavesAreAtomic` ends with the first overlap of
two saves. `DeletedStaysDeleted` allows the refresh under way at the deletion.
`DurableCounted` ends with the first failed write. `AllOrNothing` lets a failed operation leave
its new file in place where the old one cannot be written back or was not valid; the old one
is then in the history. `TimesAreRight` says nothing of a
period that touches a day without the clock reading of its reset.

### Bounds

- Dispatcher: threshold 2, probe intervals 1 (2 in `dispatch_live`, so that refused
  requests could put a probe off for ever if they moved it), cooldown 2: a failure
  that does not degrade the outbound, one that does, a cooldown that outlasts its
  probe interval. Two requests are enough for one to hold a probe and the other to
  disturb it; the third lets the overshoot exceed what one probe explains.
- UsageLog: three records are enough for one behind the cursor, one ahead of it and
  one dropped. In `usage_crash` there is one day, and a second part only after a
  failed open, since the code does lose records otherwise.
- Sessions: `LeaseTTL` 3 (in the code 45 s at one report per 10 s), `TransientTTL` 1,
  `Retention` 1, 2 faults, 1 restart: enough for an outage, and for a lost report
  around a restart. The theorems hold for any.
- Control plane: 2 listeners, so that one is swapped and one is not; 2 operations,
  2 faults (a step fails, and its undoing), 1 crash, a history of 2, 2 requests, a client
  quota that a reload raises, replaces or removes.
- Quota windows: 5 configurations (rolling, fixed, `reset_all`, none), 3 amounts, time
  1 to 4, 2 events per window, 2 snapshots, reloads or restarts. Days are three ticks
  long but for two, as when clocks change: day 1 has no noon, day 2 has it twice, and
  one window is reset at noon. `Horizon` is the last time a retry or a period may reach.
- Snapshots 2 lives, 5 inodes; OAuth 2 parties of each mix, 1 flow, 3 tokens, 1 lost
  answer; API keys: 2 keys, 2 calls; recent log: 4 bytes, 3 lines, 4 ticks; log
  files: size 1, 1 archive, total 2, 3 records, 1 fault.
- Streams: channels of 2 (16 in the code), less than an answer has events, so that
  each goroutine can block. Chunks cut tool arguments, and end cleanly, with an
  error, or not at all.
- Exchange: messages of up to 3 blocks, which covers each pair of neighbours the
  codecs treat differently with one block before or after them.
- Statistics: 3 of five records, 3 days, 2 recent records (10000 in the code).

Symmetry is used in safety runs only, over requests or records, which the
specifications never tell apart; `control_plane` has action properties but no
liveness. Deadlock is checked in all runs but those of `UsageLog` and `services`, where the
bounds on process lives, records and events end behaviours.

### Fairness

Goroutines that can run do run (weak fairness per request, for the worker of the usage
store, the log worker and the callers of OAuth until they have a credential). A provider
call ends: in the dispatcher this assumes that upstreams answer or drop the connection. In
OAuth only the manager's requests end, whose client has a timeout (`oauth/manager.go:64`);
the provider call made with the credential has none, so nothing is assumed of it and
`CredentialInTheEnd` is about what comes before. In `Streaming` there is one weak fairness
for all goroutines of the gateway together and nothing is assumed of the upstream, which may
stall with the body open. That a write to the client ends assumes that the client reads or
leaves: the server sets no `WriteTimeout`. Goroutines before the handler may stay blocked
(below). Time passes. Go's `select` picks at random among ready cases, so one that is ready
again and again is taken: strong fairness of `Receive`. In `Sessions`, the tickers fire, a
started launcher goes on, a delayed request arrives (a lost one is a case of its own), saves
end, and the service manager restarts the core. Clients, networks and disks are promised
nothing, but `MaxFaults` ends the faults: `DeadAgentsStop` and `LiveAgentReturns` say what
happens once they cease.

### Where the code disagrees with what is said of it

Each is a run that TLC ends with a counterexample; `PROJECT.json` quotes the lines.

- `health_probe_leak`: a probe that ends in an unrecoverable error, or whose client
  disconnects during the stream, leaves `probeInFlight` set. The outbound is refused
  until a configuration is applied, which builds a new tracker (`app/app.go:190`), or the
  process restarts.
- `quota_orphan_probe`: a request is granted the quota probe, passes the health gate, and
  its call fails with a retryable error. `recordProviderError` tells the quota tracker of
  quota errors only, so the probe counts as being in flight and nobody probes until the
  cooldown is over. A health gate that refuses the step after the grant has the same effect.
- `usage_double_count`: a restart on the same day starts the line count at 0 in a
  file that has lines. The cursor is too small, and the next restart counts again
  what the snapshot already holds.
- `usage_rotation_loss`: after a restart on a day with several parts, records go to
  part 1, below the cursor. After a crash they are skipped, though synced.

### Further behaviours the models have

No document contradicts these; the properties are stated so that they allow them.

Accounting (`local_file.go`, each a few constants away from the runs above):
- The totals of a snapshot include records that are counted and not yet appended, so
  a crash counts them twice: `CountedOnce` with `Crashes = TRUE` and `MaxStarts = 2`.
- A record appended after a torn line becomes part of it and is skipped, though
  synced: `DurableCounted` with `TornWrites = TRUE`.
- A record in `bufio`'s buffer advances the cursor before it is written. When the
  flush fails, the cursor lies beyond the end of the file, and the first records of
  the next process are not replayed after a crash.
- A client that leaves in the middle of a stream leaves no usage record.

Reload: a request that straddles a reload matches by one configuration and plans by another;
a hand edit between an operation's read and its write is lost, also to the history (the
model edits between operations only); `UpdateConfig` leaves no history entry; entries are
named by the second and sorted as text.

Sessions: the first heartbeat after a restart sets the status to unknown whatever
hooks have said since; a stopped session answers heartbeats with 200, so an agent
comes back only after the prune.

OAuth: the invalidation flag of a source can be taken by another request; a refresh
that is under way writes a deleted credential back.

Quota snapshots: two saves of overlapping stores share the temporary file and can
leave a mixture; `SavesAreAtomic` stops at the first overlap.

Quota periods: on a day on which clocks are set forward past the time of a reset,
`time.Date` moves the reading, and `AddDate` goes on from the moved one
(`quota/tracker.go:916-920`). Moved to a later reading (as in Berlin), the period before
the reset of that day starts late and the one after it ends late. Moved to an earlier one
(as in New York), the start goes back by the difference on that day, and on the day after the
end told is past for as long. The instance has the first kind; `StartsInOrder` excludes
the second.

Logs: after a failed reopen the writer stays without a file; an archive is stamped with
local time, so a clock set back, also by the end of daylight saving time, can reuse a name,
while the model's stamp only grows; a line too long for the recent buffer is dropped and moves
its coverage.

Streams: when the client leaves, goroutines before the handler stay blocked on their
channels, and a late mark makes a latency entry again after `Finish`; tool arguments
with white space are sent again as a whole; a Responses client gets one function call
item per tool delta.

Codecs: a lone tool result beside other blocks loses its content; blocks after a
leading system reminder keep only their text; a Responses client's `function_call` is
read by `input` and not by `arguments`; a Responses upstream is not sent the text
beside calls; an Anthropic upstream gets the first system text only, and invalid
arguments toward it end in an error; a chat client gets the first text part only;
`StreamCompletion` asks again without streaming after any error, and reports the
stream's error if both fail.

## Proofs

The theorems hold for every value of the constants that the named assumptions allow.
Each but `RegularKeepsOrder`, a fact about calendars, is the same definition that a run checks
on its instance.

- `TypeCorrect` (`DispatcherProofs`): `TypeOK` is inductive as it stands; its interesting
  conjunct is that a running request is inside its plan.
- `Settlement`, `Preference` (`DispatcherProofs`): `SettledOnce` and `ReturnsPreferredError`
  speak of finished requests only, so they are not inductive. `LedgerShape` says what a
  request has written at each `pc`. `StepIsLocal` shows that an action of one request leaves
  the others' state alone, and `OwnShape` that it keeps the shape of its own request. For
  the error, the invariant says at each `pc` that the error kept so far is the preferred one
  of those met.
- `Overshoot` (`DispatcherProofs`): the charge of a request was decided when it passed the
  gate, perhaps as a probe that does not look at the window. `ChargeBudget` counts what is
  charged, what is in flight and the probe still to be granted; each gate and each report
  moves at most one unit between them.
- `LoggedOnceCorrect` (`UsageLogProofs`), for any queue, buffer, rotation and retention, and
  through crashes and disk errors. `Placed` says that a record is in one place at most: in
  the queue, in the worker's batch, in the buffer or on one line of one file; `Kept`, that a
  synced record's line is there until retention removes the file. Assumed: `TornWrites =
  FALSE`, since a torn line swallows the record appended after it.
- `RecordedStaysCountedCorrect` (`UsageLogProofs`) for orderly restarts (`Orderly`: no
  crashes, no torn writes, no disk errors), with any rotation and any days. While the
  process runs, memory counts each record; while it closes, the last snapshot is written
  after the last count; while it is down, the snapshot has them all.
- `DurableCountedCorrect` (`UsageLogProofs`) with crashes, until a write fails and as long
  as everything fits into one file (`OneFile`: one day, fewer records than a rotation
  takes). What a snapshot covers by its cursor it also counts, and the file beyond the
  cursor is replayed. The hypothesis is the code's own limit: with several parts the
  statement is false, as `usage_rotation_loss` shows.
- `FileLoadsCorrect`, `ServedAgreesCorrect`, `AllOrNothingCorrect`, `ReferencesKeptCorrect`
  (`GatewayProofs`), for any listeners, configurations and history, through every failure,
  its undoing, and crashes. `ManagerInv` says, for each step of an operation, that its new
  configuration is valid, that the file is still the one it read until it has written, that
  what it is about to replace is in the history, and which configuration each listener
  serves. That a change of one resource keeps the references is a fact about the operators
  of `ConfigResources` on sequences, proved first.
- `ClientOvershootCorrect` (`GatewayProofs`), for any limits, windows and number of
  concurrent requests. `QuotaInv` counts what is charged and what has been admitted and not
  charged yet; only the gate adds to the sum, and it looks at the charges first. A reload
  may lower the limit below what is charged, so the bound is the highest limit the window
  has had.
- `SnapshotCorrect`, `NoFalseStopCorrect`, `StoppedIsFinalCorrect` (`ServiceProofs`), from
  one invariant. `Synced` adds to `SnapshotInSync` what a save under way has exported, and
  that the store stays dirty until a save succeeds. `Leased` says that, while the agent runs
  and nothing has ended the session or used up its lease, the session is going in memory, in
  the save under way and on disk, and that its lease plus the reports missed in a row covers
  `LeaseTTL`, less one before this unit's report. A restart renews the lease, so the time
  the core was down does not count. Assumed: a lease longer than the report interval.
- `UsedOnceCorrect`, `DeletedCorrect` (`ServiceProofs`), from one invariant: only the holder
  of the lock refreshes; the refresh token in the file is one the server takes, or a lost
  one, or the holder has exchanged it and not yet saved; a flow being exchanged is out of
  the table, exchanged by one request, and has given nothing.
- `KeysCorrect` (`ServiceProofs`): for any number of keys and calls. The shared index may
  move at any time; each call keeps its own start, and the invariant says that the keys it
  tried are consecutive around the end, hence different (`RoundDistinct`), and after
  `KeyCount` of them all (`RoundComplete`), and that the failure it reports is the one of
  the keys tried.
- `AccountedAsToldCorrect` (`StreamProofs`), for any chunks, protocol, buffer and order of
  the goroutines. The last goroutine of the chain tells the client of the usage, and
  `wrapStream`, in the middle of it, records it. `Flow` is what is under way to the last
  goroutine, `Seen` the part of it that `wrapStream` has read. `Watched` says that reading
  `Seen` from the usage the last goroutine knows comes to the usage `wrapStream` knows, that
  an event which ends the message carries the usage read before it, and that a frame which
  tells of the usage was made only when nothing that counts was still to come. It holds as
  long as `wrapStream` may record a success or has: when the client leaves, events are
  dropped, and then nothing is recorded. What each conversion of `StreamCodec` does to the
  usage is a lemma of its own.
- `SavesAreAtomicCorrect` (`StorageProofs`): as long as no two saves have overlapped, one
  saver has the temporary file, which is not `latest.json`, and what is in it is what that
  saver has written so far (`OneSave`).
- `LogIsKeptCorrect` (`StorageProofs`), for any sizes, limits, days and failures. No archive
  has a name that is still to come (`Fresh`), so the next number is free (`NextName`) and an
  archive takes no file's place; two files of one name, with and without `.gz`, are copies
  (`Copies`); what the worker has listed is there until the worker removes it, and what it
  is about to remove has its copy (`Work`). That `DiscoverArchives` lists each archive once
  is proved from its order (`DiscoverLists`).
- `CoveredIsCompleteCorrect` (`StorageProofs`), for any lines, chunks and limits.
  `BufferInv` says that the lines kept are lines that were written, in that order, and that
  a line written and not kept, also the one being dropped for its length, began before what
  the buffer says it covers. `Write` cuts a chunk into segments; that every segment keeps
  the invariant carries over to the chunk by taking the least segment after which it fails.
- `QuotaImplementsIdealCorrect` (`QuotaProofs`): the refinement, for any windows and
  schedules and any calendar that has `StartsInOrder`: a period never begins earlier as time
  passes, so what has been discarded would not be counted again. `RegularKeepsOrder` proves
  it for calendars in which every day has the readings of the resets: `Strike` says which
  instants are resets, and `Period` that `bounds` gives those on either side of a time.
  `WindowsInv` says, of the windows in force and of those in the snapshot, that the events
  kept are the end of the ideal's log but for usage no window counts any more. Each
  operation is then a step of the ideal or a stutter.
- `TimesAreRightCorrect` (`QuotaProofs`): the period is that between two neighbouring
  resets, and a refused request is admitted at its retry time and not before, for the times
  whose periods lie between days that have the reading of the reset (`Regular`), in a
  calendar with `StartsInOrder`, which may lack the reading on others. A rolling window
  counts the end of its log, from an entry that moves on with the clock; what the code adds
  up until enough has left is a running sum, and its first place beyond the excess is the
  entry whose leaving admits.
- `RoundRobinFairCorrect` (`RoutingProofs`), for any rules, outbounds and weights. `InTurn`
  says that the outbounds that came first are those of the last places of the cycle before
  the counter's, and a full turn meets every place once (`FullTurn`). The cycle has each
  outbound as often as its weight says (`CycleOK`). The property supposes that rules,
  outbounds and the tags of a rule differ by name, which `Validate` and `New` do not ask
  for: two rules of one name share a counter.
- `PlanAsConfiguredCorrect` (`RoutingProofs`), for any configuration and model. The matcher
  takes each literal of a pattern where it first occurs; `Glob` follows all possibilities,
  as the set of lengths each prefix of the pattern may stand for. The proof goes along the
  pattern letter by letter: behind a star the set is all lengths from the matcher's position
  on, inside a literal the ends of the literal's occurrences from there (`GlobOK`). That
  rotating and removing repeats loses no outbound is `StepsRange`; that no alias is taken
  over by a later entry is `AliasOK`.

The assumptions on the constants are named, and TLC evaluates them in the runs. The
`Dispatcher` theorems assume positive intervals and limits and non-empty plans, which
the configuration enforces (`HealthAssumption`, `QuotaAssumption` of `OutboundQuota`,
`DispatcherAssumption`); the `Gateway` theorems that the initial and the posted
configurations have the shape the parser gives them and the initial one is valid, that
the history keeps more than one entry, and that finitely many requests are concurrent
(`ConfigAssumption`, `ReloadAssumption`, `GatewayAssumption`); the
snapshots more inodes than are in use (`SnapshotsAssumption`); the router what
`Validate` asks of patterns, strategies and weights (`RouterAssumption`); the streams
that the upstream has a list of chunks, or an answer with lists of parts and calls
(`StreamingAssumption`); the recent log that chunks are lists of segments
(`ChunkAssumption`); the others `LogAssumption`, `SessionAssumption`,
`ReporterAssumption`, `OAuthAssumption` and `KeyCountAssumption`.

The quota windows assume what `Validate` asks of them (`QuotaAssumption`), a `Horizon` beyond
all times they are asked about (`HorizonAssumption`), and of the calendar that days
follow each other without a gap and that the resets of a schedule, wherever `time.Date`
puts them, are in the order of their days (`CalendarAssumption`). That a day has the
reading of a reset is not assumed, since `Validate` does not know the calendar:
`StartsInOrder` and `Regular` are hypotheses of the theorems that need them.

The theorems about a run's own specification do not use its fairness. `OAuthSpec`,
`KeysSpec`, `SnapshotsSpec`, `LogSpec`, `RecentSpec`, `QuotaWindowsSpec`, `RoutingSpec`
and `StreamingSpec` are the service by itself.

Induction over data is done by hand: a recursive function is shown to exist and to obey
its equation, and a claim about all its values is proved from the least index at
which it fails.

Model-checked only:

- every liveness property: fairness and ENABLED are beyond the prover;
- `DeliveredWhole` and `FramesInOrder`: they compare all the frames a client was sent
  with all the upstream said, through snapshots, compacted JSON and prefixes cut off
  again. The invariant would have to say what each goroutine has made so far of the
  text and of every call's arguments; only what becomes of the usage is proved;
- `RequestCarried` and `AnswerCarried`: an exchange has three steps, and what they say is
  what the readers of three protocols, followed by the writers of three, compute on
  nested lists of blocks;
- `StatsAreSums`: that sums kept in ten groupings add up, in whatever order the sets of
  records are folded, needs a theory of sums over sets that is not developed here.

## Not modelled

- Quota snapshots of the formats before version 3, and the event ring.
- Durations in the latency store, its percentiles and its ring of traces.
- Estimates of token usage, trace files, identifiers and model names in the codecs,
  custom tool calls in streams; `eventstream/adapter.go`, which only tests use.
- The YAML format and the fields of the configuration that refer to nothing.
- The admin pages, log and metric queries: they read state other parts own.
- Terminal and tmux handling of the launcher, start-up, the HTTP server: I/O. The
  server's shutdown is the guard of `Close` in `UsageLog` and of `Shutdown` in
  `Sessions`.
- Power loss: what the disk keeps of files that were not synced is not distinguished
  from a process crash.
