---------------------------- MODULE QuotaWindows ----------------------------
(***************************************************************************)
(* One subject (a client or an outbound) of internal/quota/tracker.go in   *)
(* full: its windows with their events, which are discarded as the clock   *)
(* passes them; the cooldown and its probe; the snapshot; and the changes  *)
(* a reload makes.  Each operation is one critical section of Tracker.mu.  *)
(* The history variables log and saved keep what the subject was told, for *)
(* comparison with QuotaIdeal.                                             *)
(***************************************************************************)
EXTENDS QuotaSchedule

CONSTANTS QuotaConfigs,   \* [tracked, client, windows, resetAll, cooldown, probeInterval]
          Amounts,        \* see QuotaIdeal
          StartTime, MaxTime,   \* bound: the clock
          Horizon,              \* bound: the times it is asked about
          MaxEvents,            \* bound: usage recorded per window
          MaxChanges,           \* bound: snapshots, reloads and restarts
          NoSnapshot

VARIABLES now, config,
          events,         \* per window name: the events kept
          cooldownUntil, nextProbeAt,   \* 0 is the zero time
          probeInFlight,
          latest,         \* the snapshot on disk: [config, events, cooldownUntil, nextProbeAt]
          verdict, retryAt,   \* of the admission just decided
          changes,        \* counts them
          log, saved      \* history

subjectVars == <<events, cooldownUntil, nextProbeAt, probeInFlight>>
windowVars == <<now, config, subjectVars, latest, verdict, retryAt, changes, log, saved>>

WindowsOf(c) == {[window |-> w, all |-> c.resetAll] : w \in c.windows}

Ideal == INSTANCE QuotaIdeal WITH limits <- WindowsOf(config)
KeysOf(c) == Ideal!KeysOf(WindowsOf(c))

Named(c, n) == CHOOSE w \in c.windows : w.name = n
NamesOf(c) == {w.name : w \in c.windows}
NoEvents(c) == [n \in NamesOf(c) |-> << >>]
SchedulesOf(c) == {c.resetAll} \cup {w.schedule : w \in {x \in c.windows : x.reset = "fixed"}}

Snapshots(c) ==
  [config : {c}, events : [NamesOf(c) -> Seq([at : Int, requests : Nat, tokens : Nat, cost : Nat])],
   cooldownUntil : Int, nextProbeAt : Int]

(* What config.Validate lets through: windows have names of their own, and *)
(* only an interval has a length, which is positive.                       *)
ASSUME QuotaAssumption ==
  /\ StartTime \in Int /\ MaxTime \in Int /\ Horizon \in Int
  /\ StartTime <= MaxTime
  /\ Amounts \subseteq [requests : Nat, tokens : Nat, cost : Nat]
  /\ \A c \in QuotaConfigs :
       /\ NoSnapshot \notin Snapshots(c)
       /\ c.tracked \/ c.windows = {}
       /\ c.cooldown \in Nat /\ c.probeInterval \in Nat
       /\ \A w, x \in c.windows : w.name = x.name => w = x
       /\ \A w \in c.windows :
            /\ w.reset \in {"fixed", "rolling"} /\ w.duration \in Nat /\ w.max \in [Fields -> Nat]
            /\ w.reset = "fixed" => w.schedule.period # ""
            /\ w.reset = "rolling" => w.duration > 0
       /\ \A s \in SchedulesOf(c) :
            s.period \notin {"", "daily", "weekly"} => s.anchor \in Int /\ s.duration \in Nat \ {0}

(* What package time tells of the calendar: the days follow each other,    *)
(* every time and the days around it are among them, and the resets of a   *)
(* schedule are in the order of their days.  A day may lack the reading of *)
(* a reset: Validate knows no calendar.                                    *)
ASSUME CalendarAssumption ==
  /\ Days \subseteq Int
  /\ \A d \in Days : Midnight(d) \in Int /\ Midnight(d + 1) \in Int
  /\ \A d, e \in Days : d < e => Midnight(d + 1) <= Midnight(e)
  /\ \A t \in StartTime .. Horizon :
       \E d \in Days : Midnight(d) <= t /\ t < Midnight(d + 1) /\ d - 13 .. d + 7 \subseteq Days
  /\ \A c \in QuotaConfigs : \A s \in SchedulesOf(c) : s.period \in {"daily", "weekly"} =>
       /\ s.period = "weekly" => s.weekday \in 0 .. 6
       /\ \A d \in Days : ClockTime(d, s.clock) \in Int
       /\ \A d, e \in Days : d < e => ClockTime(d, s.clock) <= ClockTime(e, s.clock)

(* The horizon is far enough for the questions put to the schedules.       *)
ASSUME HorizonAssumption ==
  /\ MaxTime + 6 <= Horizon
  /\ \A c \in QuotaConfigs : \A w \in c.windows :
       /\ MaxTime + w.duration <= Horizon
       /\ w.reset = "fixed" => \A t \in StartTime .. MaxTime : bounds(w.schedule, t)[2] <= Horizon

(* Mutant: reset_all is not applied. *)
rolledWithoutReset(c, evs, t) == [n \in NamesOf(c) |-> rolloverWindow(Named(c, n), evs[n], t)]

(* subjectState.rollover, the windows: reset_all first, then each its own. *)
rolled(c, evs, t) ==
  [n \in NamesOf(c) |->
     LET kept == IF c.resetAll.period = "" THEN evs[n]
                 ELSE discardBefore(evs[n], bounds(c.resetAll, t)[1])
     IN  rolloverWindow(Named(c, n), kept, t)]

Current == rolled(config, events, now)

(* ... and the cooldown, which takes its probe with it when it ends. *)
CooldownOver == cooldownUntil # 0 /\ now >= cooldownUntil
Rollover ==
  /\ events' = Current
  /\ cooldownUntil' = IF CooldownOver THEN 0 ELSE cooldownUntil
  /\ nextProbeAt' = IF CooldownOver THEN 0 ELSE nextProbeAt

InCooldown == cooldownUntil # 0 /\ now < cooldownUntil

blockingWindows == {n \in NamesOf(config) : Limited(Named(config, n), Current[n])}

NoDecision == verdict' = "none" /\ retryAt' = 0

QuotaWindowsInit(configs) ==
  /\ now = StartTime /\ config \in configs
  /\ events = NoEvents(config)
  /\ cooldownUntil = 0 /\ nextProbeAt = 0 /\ probeInFlight = FALSE
  /\ latest = NoSnapshot /\ verdict = "none" /\ retryAt = 0
  /\ log = [k \in KeysOf(config) |-> << >>] /\ saved = << >> /\ changes = 0

Tick ==
  /\ now < MaxTime /\ now' = now + 1
  /\ NoDecision /\ UNCHANGED <<config, subjectVars, latest, changes, log, saved>>

(* beforeAttempt: a probe or the cooldown first (outbounds only), then the *)
(* windows; a limited request is told when the last of them admits again.  *)
beforeAttempt ==
  /\ IF config.tracked THEN Rollover ELSE UNCHANGED <<events, cooldownUntil, nextProbeAt>>
  /\ LET cooling == config.tracked /\ ~config.client /\ InCooldown
         probe == cooling /\ now >= nextProbeAt /\ ~probeInFlight
     IN  /\ verdict' = CASE probe -> "probe" [] cooling /\ ~probe -> "cooldown"
                         [] ~cooling /\ blockingWindows # {} -> "limited" [] OTHER -> "allowed"
         /\ probeInFlight' = (probe \/ (probeInFlight /\ ~CooldownOver))
         /\ retryAt' = CASE verdict' = "cooldown" -> nextProbeAt
                         [] verdict' = "limited" ->
                              Max({retryAfter(Named(config, n), Current[n], now) : n \in blockingWindows})
                         [] OTHER -> 0
  /\ UNCHANGED <<now, config, latest, changes, log, saved>>

(* recordClientUsage adds an event to the windows of its type, recordSuccess *)
(* to all; a success ends the cooldown.                                      *)
Takes(w, a) == w.type \notin Fields \/ a[w.type] > 0

(* A client's request is recorded at admission, its tokens and cost at the end. *)
Recorded(a) ==
  IF config.client THEN a.requests = 0 \/ (a.tokens = 0 /\ a.cost = 0)
  ELSE a.requests = 1 /\ a.cost = 0

RecordUsage(a) ==
  LET e == usageEvent(now, a)
      taking == {w \in config.windows : Takes(w, a)}
  IN  /\ config.tracked /\ Recorded(a)
      /\ \A k \in DOMAIN log : Len(log[k]) < MaxEvents
      /\ events' = [n \in NamesOf(config) |-> IF Named(config, n) \in taking
                      THEN Append(Current[n], e) ELSE Current[n]]
      /\ log' = [k \in DOMAIN log |-> IF \E l \in WindowsOf(config) : l.window \in taking /\ k = Key(l)
                                THEN Append(log[k], e) ELSE log[k]]
      /\ cooldownUntil' = 0 /\ nextProbeAt' = 0 /\ probeInFlight' = FALSE
      /\ NoDecision /\ UNCHANGED <<now, config, latest, changes, saved>>

RecordQuotaExceeded ==
  /\ config.tracked /\ ~config.client
  /\ events' = Current
  /\ cooldownUntil' = now + config.cooldown /\ nextProbeAt' = now + config.probeInterval
  /\ probeInFlight' = FALSE
  /\ NoDecision /\ UNCHANGED <<now, config, latest, changes, log, saved>>

Change == changes < MaxChanges /\ changes' = changes + 1

(* ExportState and the write of latest.json, which QuotaSnapshots takes apart. *)
SaveSnapshot ==
  /\ Change
  /\ IF config.tracked THEN Rollover ELSE UNCHANGED <<events, cooldownUntil, nextProbeAt>>
  /\ probeInFlight' = (probeInFlight /\ ~CooldownOver)
  /\ latest' = [config |-> config, events |-> events', cooldownUntil |-> cooldownUntil',
                nextProbeAt |-> nextProbeAt']
  /\ saved' = log
  /\ NoDecision /\ UNCHANGED <<now, config, log>>

(* Mutant: events are kept by the window's name alone. *)
KeptByName(c, old, oldEvents) ==
  [n \in NamesOf(c) |-> IF n \in NamesOf(old) THEN oldEvents[n] ELSE << >>]

(* mergeWindows, and the import of a snapshot: the windows of a new        *)
(* configuration take over the events of those they are compatible with.   *)
Kept(c, old, oldEvents) ==
  [n \in NamesOf(c) |->
     IF /\ c.resetAll = old.resetAll /\ n \in NamesOf(old)
        /\ compatible(Named(c, n), Named(old, n))
     THEN oldEvents[n] ELSE << >>]

KeptLog(c, l) == [k \in KeysOf(c) |-> IF k \in DOMAIN l THEN l[k] ELSE << >>]

(* A reload: the cooldown and its probe are carried over, usage is merged. *)
(* A subject that is no longer tracked is forgotten.                       *)
Reconfigure(c) ==
  /\ Change
  /\ config' = c
  /\ events' = Kept(c, config, events)
  /\ log' = KeptLog(c, log)
  /\ IF c.tracked /\ config.tracked /\ ~c.client
     THEN UNCHANGED <<cooldownUntil, nextProbeAt, probeInFlight>>
     ELSE cooldownUntil' = 0 /\ nextProbeAt' = 0 /\ probeInFlight' = FALSE
  /\ NoDecision /\ UNCHANGED <<now, latest, saved>>

(* A crash, and a start with some configuration: newTracker and, if there  *)
(* is a snapshot, ImportState, which rolls what it has read over at once.  *)
RestartWith(c) ==
  /\ Change
  /\ config' = c /\ probeInFlight' = FALSE
  /\ IF latest = NoSnapshot \/ ~c.tracked
     THEN events' = NoEvents(c) /\ cooldownUntil' = 0 /\ nextProbeAt' = 0
     ELSE /\ events' = rolled(c, Kept(c, latest.config, latest.events), now)
          /\ cooldownUntil' = IF latest.cooldownUntil > now THEN latest.cooldownUntil ELSE 0
          /\ nextProbeAt' = IF latest.cooldownUntil > now THEN latest.nextProbeAt ELSE 0
  /\ log' = KeptLog(c, saved)
  /\ NoDecision /\ UNCHANGED <<now, latest, saved>>

QuotaWindowsNext ==
  \/ Tick \/ beforeAttempt \/ RecordQuotaExceeded \/ SaveSnapshot
  \/ \E a \in Amounts : RecordUsage(a)
  \/ \E c \in QuotaConfigs : c.client = config.client /\ (Reconfigure(c) \/ RestartWith(c))

QuotaWindowsSpec == QuotaWindowsInit(QuotaConfigs) /\ [][QuotaWindowsNext]_windowVars

-----------------------------------------------------------------------------
(* A day has the reading of a schedule's reset.  A time is regular if the  *)
(* days have it on which its period may start and end.                     *)
Reads(s, d) ==
  LET x == ClockTime(d, s.clock)
  IN  x \in Midnight(d) .. Midnight(d + 1) - 1 /\ Clock(x) = s.clock

Regular(s, t) ==
  LET weekly == s.period = "weekly"
      days == IF weekly THEN 7 ELSE 1
      date == IF weekly THEN DayOf(t) - SinceWeekday(s, t) ELSE DayOf(t)
  IN  s.period \in {"daily", "weekly"} =>
        /\ weekly => DayOf(AddDate(t, -SinceWeekday(s, t))) = date
        /\ \A d \in {date - days, date, date + days} : Reads(s, d)

(* ... and so are the times until its period ends. *)
RegularPeriod(s, t) == Regular(s, t) /\ \A u \in t .. bounds(s, t)[2] : Regular(s, u)

(* No period starts before one of an earlier time did.  It holds for every *)
(* calendar all of whose times are regular, and where the clock moves a    *)
(* reading it lacks to a later one; civilBounds goes back where it moves   *)
(* the reading to an earlier one.                                          *)
StartsInOrder ==
  \A c \in QuotaConfigs : \A s \in {x \in SchedulesOf(c) : x.period # ""} :
    \A t, u \in StartTime .. Horizon :
      bounds(s, t)[1] \in Int /\ (t <= u => bounds(s, t)[1] <= bounds(s, u)[1])

(* The tracker, which discards events as it goes, carries them through     *)
(* reloads and snapshots and counts what is left, admits and refuses       *)
(* exactly as the unforgetful QuotaIdeal does (tracker.go beforeAttempt,   *)
(* rollover, mergeWindows, ImportState).                                   *)
QuotaImplementsIdeal == Ideal!IdealSpec

WindowsRegular == \A w \in {x \in config.windows : x.reset = "fixed"} : RegularPeriod(w.schedule, now)

(* The retry time of a refused request is right: without further usage a   *)
(* request is admitted then and, unless reset_all empties the windows      *)
(* before, at no earlier time (tracker.go retryAfter, blockingWindows).    *)
(* Of a period near a day that lacks its reset the end may be an hour off. *)
RetryAfterIsRight ==
  verdict = "limited" /\ WindowsRegular =>
     /\ retryAt > now
     /\ ~Ideal!Full(retryAt)
     /\ config.resetAll.period = "" => \A t \in now .. retryAt - 1 : Ideal!Full(t)

(* The periods of a schedule are the stretches between the instants it     *)
(* names: an interval's from its anchor in both directions, the days' and  *)
(* the weeks' by the local calendar, where it has the readings they are    *)
(* named by (tracker.go bounds, civilBounds).                              *)
Strikes(s, t) ==
  CASE s.period = "daily"  -> {ClockTime(d, s.clock) : d \in Days}
    [] s.period = "weekly" -> {ClockTime(d, s.clock) : d \in {x \in Days : (x - s.weekday) % 7 = 0}}
    [] OTHER -> {x \in t - s.duration .. t + s.duration : (x - s.anchor) % s.duration = 0}

BoundsAreSchedule ==
  \A s \in {x \in SchedulesOf(config) : x.period # ""} : \A t \in {now, now + 6} :
    LET strikes == Strikes(s, t)
        b == bounds(s, t)
    IN  Regular(s, t) =>
        /\ {b[1], b[2]} \subseteq strikes
        /\ b[1] <= t /\ t < b[2]
        /\ ~\E x \in strikes : b[1] < x /\ x < b[2]

(* The two times the tracker works out are right: where the period of a    *)
(* window ends, and when a refused request may try again.                  *)
TimesAreRight == BoundsAreSchedule /\ RetryAfterIsRight
=============================================================================
