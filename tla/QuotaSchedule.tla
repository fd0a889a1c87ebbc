---------------------------- MODULE QuotaSchedule ----------------------------
(***************************************************************************)
(* The pure part of internal/quota/tracker.go: the periods of a schedule,  *)
(* which usage events a window still counts, and when a window that is     *)
(* full admits again.  Time is in ticks.  The local calendar (package      *)
(* time) is the external Midnight, ClockTime and Clock: a day begins, and  *)
(* its reset clock strikes, at ticks that need not be equally far apart.   *)
(* For a reading that a day lacks, because the clock is set forward past   *)
(* it, ClockTime gives a tick near by at which the clock reads otherwise.  *)
(***************************************************************************)
EXTENDS Integers, Sequences, FiniteSetsExt

CONSTANTS Midnight(_),      \* the tick at which a day of the calendar begins
          ClockTime(_, _),  \* time.Date: the tick of a clock reading on a day
          Clock(_),         \* the clock reading of a tick
          Days              \* the days the instance may ask for

DayOf(t) == CHOOSE d \in Days : Midnight(d) <= t /\ t < Midnight(d + 1)

(* Mutant: the interval is truncated toward zero before the anchor. *)
FloorTruncates(delta, interval) == IF delta < 0 THEN -((-delta) \div interval) ELSE delta \div interval

(* floorDuration: Go truncates, the code corrects; \div rounds down. *)
floorDuration(delta, interval) ==
  LET steps == IF delta < 0 THEN -((-delta) \div interval) ELSE delta \div interval
  IN  IF delta < 0 /\ delta # steps * interval THEN steps - 1 ELSE steps

(* time.AddDate: what the clock reads at t, that many days later. *)
AddDate(t, days) == ClockTime(DayOf(t) + days, Clock(t))

(* How many days ago the weekday of a schedule was. *)
SinceWeekday(s, t) == (DayOf(t) - s.weekday) % 7

(* civilBounds: the day's reset, or the weekday's, on or before t. *)
civilBounds(s, t, days) ==
  LET date  == IF s.period = "weekly" THEN DayOf(AddDate(t, -SinceWeekday(s, t))) ELSE DayOf(t)
      reset == ClockTime(date, s.clock)
      start == IF t < reset THEN AddDate(reset, -days) ELSE reset
  IN  <<start, AddDate(start, days)>>

bounds(s, t) ==
  CASE s.period = "daily"  -> civilBounds(s, t, 1)
    [] s.period = "weekly" -> civilBounds(s, t, 7)
    [] OTHER -> LET start == s.anchor + floorDuration(t - s.anchor, s.duration) * s.duration
                IN  <<start, start + s.duration>>

-----------------------------------------------------------------------------
(* The event one use leaves in a window. *)
usageEvent(t, a) == [at |-> t, requests |-> a.requests, tokens |-> a.tokens, cost |-> a.cost]

(* drop: the events after the longest prefix that is Old. *)
DropPrefix(events, Old(_)) ==
  LET keep == Max({0} \cup {i \in DOMAIN events : \A j \in 1 .. i : Old(events[j].at)})
  IN  SubSeq(events, keep + 1, Len(events))

discardBefore(events, cutoff) == DropPrefix(events, LAMBDA at : at < cutoff)
discardThrough(events, cutoff) == DropPrefix(events, LAMBDA at : at <= cutoff)

rolloverWindow(w, events, t) ==
  IF w.reset = "fixed" THEN discardBefore(events, bounds(w.schedule, t)[1])
  ELSE discardThrough(events, t - w.duration)

(* What the first events add up to, for every number of them. *)
RunningSum(events, field) ==
  LET sum[i \in 0 .. Len(events)] == IF i = 0 THEN 0 ELSE sum[i - 1] + events[i][field]
  IN  sum

usage(events, field) == RunningSum(events, field)[Len(events)]

Fields == {"requests", "tokens", "cost"}

(* What has to leave the window before a limit admits again; 0 if it does now. *)
Excess(w, events, field) ==
  IF w.max[field] > 0 /\ usage(events, field) >= w.max[field]
  THEN usage(events, field) - w.max[field] + 1 ELSE 0

Limited(w, events) == \E f \in Fields : Excess(w, events, f) > 0

(* retryAfter of a window that is limited: the end of the period, or the   *)
(* moment the first event leaves after which no limit is exceeded.         *)
retryAfter(w, events, t) ==
  IF w.reset = "fixed" THEN bounds(w.schedule, t)[2]
  ELSE LET enough == {i \in DOMAIN events : \A f \in Fields :
                        usage(SubSeq(events, 1, i), f) >= Excess(w, events, f)}
       IN  events[Min(enough)].at + w.duration

(* compatible, and persistedCompatible for the snapshots this version writes: *)
(* the events mean the same under both windows.                               *)
scheduleKey(w) == IF w.reset = "rolling" THEN w.duration ELSE w.schedule

compatible(w, other) ==
  w.type = other.type /\ w.reset = other.reset /\ scheduleKey(w) = scheduleKey(other)

-----------------------------------------------------------------------------
(* What the windows mean, for QuotaIdeal.  The identity of a window is all *)
(* but its limits; what it counts is told by the time of an event alone.   *)
Key(l) == <<l.window.name, l.window.type, l.window.reset, scheduleKey(l.window), l.all>>

Counts(l, at, t) ==
  /\ IF l.window.reset = "fixed" THEN bounds(l.window.schedule, t)[1] <= at
     ELSE t - l.window.duration < at
  /\ l.all.period # "" => bounds(l.all, t)[1] <= at
=============================================================================
